-------------------------- MODULE LifecycleRefinement --------------------------
(***************************************************************************)
(* Lifecycle implements Gateway: what the locks, flags and goroutines of a *)
(* Gateway Owner amount to, for those who call it.                         *)
(***************************************************************************)
EXTENDS LifecycleInvariant

Phase ==
  IF \E t \in Stops : stop[t] \in PastCleanupLock THEN "final"
  ELSE IF ownerEnding THEN "ending"
  ELSE "serving"

InSequence == {s \in Starts : Activating(s)}
HasStarted == {s \in Starts : start[s] = "done" /\ result[s] = "Started"}
Bound      == {s \in Starts : sockets[s] # "none"}
Open       == {s \in Bound : ~closed[s]}
AtWork     == {m \in Mutators : mutator[m] = "work"}
HasStopped == {t \in Stops : stop[t] = "done"}

G == INSTANCE Gateway WITH
  phase <- Phase, activating <- InSequence, started <- HasStarted, running <- runtime,
  open <- Open, setting <- pac, mutating <- AtWork, returned <- HasStopped

\* What the refinement needs beyond LifecycleInv: the HTTP servers stay open until
\* their runtime is published, and who delivers has a runtime to deliver for.
EndpointInv ==
  /\ \A s \in Starts :
       /\ start[s] \in {"idle", "prepare", "admitCA", "inspect", "build", "publish"}
            => ~closed[s] /\ \A t \in Stops : stopping[t] # s
       /\ start[s] \in DeliverySteps => active[s] \in Starts

\* Whatever the goroutines interleave, a Gateway Owner behaves as Gateway says:
\* activations one at a time and apart from CA mutations, starts that fail
\* without a trace, deliveries only until a Stop cleans up, and stops that
\* return when nothing is left (ExecuteStart, Stop, deliverSystemPAC, Install
\* and UninstallWithConsent).
ImplementsGateway == G!Spec
=============================================================================
