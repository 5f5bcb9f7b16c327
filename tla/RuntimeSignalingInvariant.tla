---------------------- MODULE RuntimeSignalingInvariant ----------------------
(***************************************************************************)
(* The inductive invariant behind the safety of RuntimeSignaling: who      *)
(* holds each mutex where, and what the holder of caAdmissionMu knows of   *)
(* the installed UserCA at each point of its work.                         *)
(***************************************************************************)
EXTENDS RuntimeSignaling

CAProcs == Assessing \cup Mutators

\* trafficRuntime.mu is held from step to step only by a goroutine that waits
\* to send a delivery request.
RuntimeLockInv == \A p \in Procs : rMu = p <=> pc[p] \in Sending

\* lifecycle.mu is held from step to step only to look into the runtime.
LifecycleLockInv == \A p \in CAProcs : fMu = p <=> pc[p] \in {"consent", "snapshot"}

\* Where an assessment, a deadline or a CA command is without caAdmissionMu.
Unadmitted == {"idle", "try", "setPending", "pending", "request", "done"}

\* caAdmissionMu is held from its TryLock to the goroutine's tail.
AdmissionLockInv == \A p \in CAProcs : caMu = p <=> pc[p] \notin Unadmitted

Withdrawn == {"sendWithdrawn", "withdrawn", "work"}
BeforeFinding == {"expire", "sendExpired", "inspect",
                  "admit", "consent", "withdraw"} \cup Withdrawn

\* Only the holder of caAdmissionMu has found anything, and not before it looked.
FoundInv ==
  /\ caMu = None => found = None
  /\ \A p \in CAProcs : caMu = p /\ pc[p] \in BeforeFinding => found = None
  /\ found \in {None, installed}

\* What the runtime retains is installed: it is withdrawn before that changes,
\* and adopted after.
RetainedInv ==
  /\ userCA \in {None, installed}
  /\ \A m \in Mutators : pc[m] \in Withdrawn => userCA = None
  /\ \A p \in CAProcs : pc[p] \in {"send", "adopted", "snapshot"} => userCA = found
  /\ \A m \in Mutators : pc[m] = "adopt" => userCA = None

\* A timer of the current revision is for the UserCA that is retained.
TimerInv ==
  /\ fresh => timer = userCA
  /\ firedFresh => userCA \in expired

\* The inductive invariant (AdoptUserCA, ExpireUserCA, and their callers).
SignalingInv ==
  /\ TypeOK
  /\ ServesCurrentFacts
  /\ RequestNeverLost
  /\ RuntimeLockInv
  /\ LifecycleLockInv
  /\ AdmissionLockInv
  /\ FoundInv
  /\ RetainedInv
  /\ TimerInv
=============================================================================
