-------------------------- MODULE LifecycleInvariant --------------------------
(***************************************************************************)
(* The inductive invariant of Lifecycle.  None of the safety properties is *)
(* inductive: that a Stop is final, for instance, rests on what a start    *)
(* admitted earlier may still do, and so on who holds deliveryMu, on which *)
(* start the Stop waits for and on which runtime it captured.              *)
(***************************************************************************)
EXTENDS Lifecycle

\* Whoever is in a critical section holds its lock.
LockInv ==
  /\ \A s \in Starts :
       /\ start[s] \in {"admit", "apply", "record"} => deliveryMu = ByStart(s)
       /\ watcher[s] \in {"admit", "apply", "record"} => deliveryMu = ByWatcher(s)
       /\ start[s] = "inspect" => caAdmissionMu = ByStart(s)
  /\ \A t \in Stops : stop[t] = "cleanup" => deliveryMu = ByStop(t)
  /\ \A m \in Mutators :
       /\ mutator[m] \notin {"idle", "done"} => caAdmissionMu = ByMutator(m)
       /\ mutator[m] \in {"look", "schedule"} => mu = ByMutator(m)

\* The flags under lifecycle.mu describe the calls: one activation at most,
\* and none beside an admitted CA mutation.
AdmissionInv ==
  /\ SingleActivation
  /\ startMutating # None => ~caMutating
  /\ \A m \in Mutators :
       /\ mutator[m] = "look" => MutationAllowed
       /\ mutator[m] \in {"work", "schedule", "settle"} => caMutating

\* What has become of the listeners of a runtime, as its serving goroutine, its
\* readiness and the closing of its HTTP servers tell.
SocketInv ==
  \A s \in Starts :
    /\ start[s] \in {"idle", "prepare", "admitCA", "inspect", "build"} => sockets[s] = "none"
    /\ start[s] = "publish" => sockets[s] = "bound"
    /\ start[s] \in {"idle", "prepare", "admitCA", "inspect", "build", "publish"}
         => server[s] = "none"
    /\ server[s] # "none" => sockets[s] # "none"
    /\ sockets[s] = "served" => ~closed[s]
    /\ sockets[s] = "closed" => closed[s]
    /\ ready[s] => sockets[s] \in {"served", "closed"}
    /\ server[s] = "returned" => closed[s]

\* Each start owns its runtime from the listeners' birth to the closing of its
\* HTTP servers, and nothing is published while a start prepares one.
OwnershipInv ==
  \A s \in Starts :
    /\ start[s] \in {"prepare", "admitCA", "inspect", "build", "publish"} => runtime = None
    /\ start[s] \in {"idle", "abandon"} => runtime # s
    /\ start[s] \in {"awaitReady", "checkDone", "commit", "report", "withdraw", "abandon"}
         => active[s] = s
    /\ start[s] \in DeliverySteps /\ active[s] # s => sockets[s] = "none" /\ runtime # s
    /\ result[s] = "Started" => start[s] \in {"report", "finish", "done"}
    /\ start[s] = "report" => runtime = s /\ result[s] = "Started"
    /\ watcher[s] # "none" => result[s] = "Started"
    /\ start[s] \in {"finish", "done"} /\ result[s] # "Started"
         => runtime # s /\ (sockets[s] # "none" => closed[s])
    /\ sockets[s] # "none" /\ ~closed[s]
         => runtime = s \/ (Activating(s) /\ start[s] # "finish")

\* A committed runtime has recorded its delivery, unless a Stop intervened.
DeliveryInv ==
  \A s \in Starts :
    runtime = s /\ ~ownerEnding /\ (start[s] = "commit" \/ watcher[s] # "none")
      => delivered[s]

\* What a Stop has established by the step it has reached.
StopInv ==
  \A t \in Stops :
    /\ stop[t] \notin {"idle", "called"} =>
         /\ ownerEnding
         /\ \A s \in Starts : Activating(s) => awaited[t] = s
         /\ \A s \in Starts : runtime = s /\ s # stopping[t] =>
              start[s] \in {"awaitReady", "checkDone", "deliver", "admit", "withdraw"}
              /\ active[s] = s
    /\ stop[t] \in PastCleanupLock \cup {"lockDelivery"} => \A s \in Starts : ~Activating(s)
    /\ stop[t] \in PastCleanupLock =>
         \A s \in Starts : start[s] # "apply" /\ watcher[s] # "apply"
    /\ stop[t] \in {"unpublish", "drainCA", "done"} =>
         \A s \in Starts : s = stopping[t] => closed[s]
    /\ stop[t] \in {"drainCA", "done"} => runtime = None
    /\ stop[t] = "done" => \A m \in Mutators : mutator[m] # "work"
    /\ stop[t] \in {"close", "unpublish", "drainCA", "done"} /\ ~residue[t] => pac = None

\* The inductive invariant: lock ownership, admission, listeners, ownership of
\* runtimes, delivery records, and the progress of every Stop.
LifecycleInv ==
  /\ TypeOK
  /\ LockInv
  /\ AdmissionInv
  /\ SocketInv
  /\ OwnershipInv
  /\ DeliveryInv
  /\ StopInv

\* What PACEndpointProven rests on besides: which runtime each call delivers for,
\* and that the one it activates itself has proved readiness by then.
ProvenInv ==
  /\ \A s \in Starts :
       /\ start[s] \in {"idle", "prepare", "admitCA", "inspect", "build", "publish"}
            => active[s] = None
       /\ start[s] \in DeliverySteps \cup {"checkDone", "commit"} /\ active[s] = s => ready[s]
       /\ result[s] = "Started" => ready[s]
  /\ PACEndpointProven

\* Start s has given up the runtime it was to activate.
GivenUp(s) == start[s] \in {"finish", "done"} /\ result[s] # "Started"

\* What RunningRuntimeServes rests on: but for the end of a routed caller and of
\* the owner's supervision, only a Stop and the failure of the start itself
\* cancel a run context, and only they and a serving failure close its servers.
ServingInv ==
  \A s \in Starts \ Routed :
    /\ cancelled[s] /\ ~ownerEnding /\ ~interrupted => GivenUp(s)
    /\ closed[s] /\ ~ownerEnding /\ ~interrupted => GivenUp(s) \/ fatal
=============================================================================
