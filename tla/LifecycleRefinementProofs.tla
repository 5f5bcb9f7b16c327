----------------------- MODULE LifecycleRefinementProofs -----------------------
(***************************************************************************)
(* Lifecycle implements Gateway, for any number of starts, stops and CA    *)
(* mutations: every step is a step of Gateway or changes nothing of it.    *)
(***************************************************************************)
EXTENDS LifecycleRefinement, LifecycleProofs

(***************************************************************************)
(* The additional invariant.                                               *)
(***************************************************************************)
LEMMA StartKeepsEndpoints ==
  ASSUME LifecycleInv, EndpointInv, NEW s \in Starts, StartStep(s)
  PROVE  EndpointInv'
<1> USE DEF LifecycleInv, TypeOK, StartAt, StartOutcome, startVars, stopVars
<1>1. stopping' = stopping
  BY DEF StartStep, StartRefused, StartFindsRuntime, StartAdmitted, StartPrepare, StartAdmitCA,
         StartInspect, StartBuild, StartPublish, StartAwaitReady, StartCheckDone, StartDeliver,
         StartAdmit, StartApply, StartRecord, StartCommit, StartReport, StartWithdraw,
         StartAbandon, StartFinish
<1>2. \A u \in Starts \ {s} : /\ start'[u] = start[u] /\ closed'[u] = closed[u]
                              /\ active'[u] = active[u]
  BY DEF StartStep, StartRefused, StartFindsRuntime, StartAdmitted, StartPrepare, StartAdmitCA,
         StartInspect, StartBuild, StartPublish, StartAwaitReady, StartCheckDone, StartDeliver,
         StartAdmit, StartApply, StartRecord, StartCommit, StartReport, StartWithdraw,
         StartAbandon, StartFinish, serverVars, runtimeVars
<1>3. start'[s] \in {"idle", "prepare", "admitCA", "inspect", "build", "publish"}
        => closed'[s] = closed[s]
             /\ start[s] \in {"idle", "prepare", "admitCA", "inspect", "build"}
  BY DEF StartStep, StartRefused, StartFindsRuntime, StartAdmitted, StartPrepare, StartAdmitCA,
         StartInspect, StartBuild, StartPublish, StartAwaitReady, StartCheckDone, StartDeliver,
         StartAdmit, StartApply, StartRecord, StartCommit, StartReport, StartWithdraw,
         StartAbandon, StartFinish, StartUndelivered, serverVars, runtimeVars
<1>4. start[s] = "checkDone" => active[s] = s
  BY DEF OwnershipInv
<1>5. start'[s] \in DeliverySteps => active'[s] \in Starts
  BY <1>4 DEF EndpointInv, DeliverySteps, RuntimeOrNone, StartStep, StartRefused,
              StartFindsRuntime, StartAdmitted, StartPrepare, StartAdmitCA, StartInspect,
              StartBuild, StartPublish, StartAwaitReady, StartCheckDone, StartDeliver, StartAdmit,
              StartApply, StartRecord, StartCommit, StartReport, StartWithdraw, StartAbandon,
              StartFinish, StartUndelivered
<1> QED
  BY <1>1, <1>2, <1>3, <1>5 DEF EndpointInv, DeliverySteps

LEMMA OthersKeepEndpoints ==
  ASSUME LifecycleInv, EndpointInv, [Next]_vars, ~\E s \in Starts : StartStep(s)
  PROVE  EndpointInv'
<1> DEFINE Early == {"idle", "prepare", "admitCA", "inspect", "build", "publish"}
<1> USE DEF LifecycleInv, TypeOK, startVars, stopVars, serverVars, runtimeVars
<1>1. start' = start /\ active' = active
  BY DEF Next, ServerStep, WatcherStep, StopStep, MutatorStep, ServeListens, ServeProven,
         ServeUnproven, ServeEnds, ServeBreaks, ServeReturns, WatcherReceives, WatcherNotes,
         WatcherDeliver, WatcherAdmit, WatcherApply, WatcherRecord, WatcherEnds, WatcherRequested,
         ListSwitches, CallerGone, OwnerInterrupted, StopCalled, StopBegin, StopDeadline,
         StopCancel, StopAwaitStart, StopLockDelivery, StopCleanup, StopCloseTraffic,
         StopUnpublish, StopDrainCA, MutateAdmit, MutateCheck, MutateLook, MutateWork,
         MutateSchedule, MutateSettle, MutateUnlock, AssessBegin, AssessLook, AssessEnd, Rest,
         vars
<1>2. \A s \in Starts : start[s] \in Early => server[s] = "none"
  BY DEF SocketInv
<1>3. \A s \in Starts : start[s] \in Early => runtime # s
  BY NoneIsNoStart DEF OwnershipInv
<1>4. CASE \E s \in Starts : ServerStep(s)
  <2> PICK s \in Starts : ServerStep(s)
    BY <1>4
  <2>1. stopping' = stopping
    BY DEF ServerStep, ServeListens, ServeProven, ServeUnproven, ServeEnds, ServeBreaks,
           ServeReturns
  <2>2. server[s] # "none"
    BY DEF ServerStep, ServeListens, ServeProven, ServeUnproven, ServeEnds, ServeBreaks
  <2>3. start[s] \notin Early
    BY <1>2, <2>2
  <2>4. \A u \in Starts \ {s} : closed'[u] = closed[u]
    BY DEF ServerStep, ServeListens, ServeProven, ServeUnproven, ServeEnds, ServeBreaks,
           ServeReturns
  <2> QED
    BY <1>1, <2>1, <2>3, <2>4 DEF EndpointInv
<1>5. CASE \E t \in Stops : StopStep(t)
  <2> PICK t \in Stops : StopStep(t)
    BY <1>5
  <2>1. \A u \in Starts : closed'[u] = (closed[u] \/ (closed'[u] /\ u = stopping[t]))
    BY DEF StopStep, StopCalled, StopBegin, StopDeadline, StopCancel, StopAwaitStart,
           StopLockDelivery, StopCleanup, StopCloseTraffic, StopUnpublish, StopDrainCA
  <2>2. \A x \in Stops : stopping'[x] \in {stopping[x], runtime}
    BY DEF StopStep, StopCalled, StopBegin, StopDeadline, StopCancel, StopAwaitStart,
           StopLockDelivery, StopCleanup, StopCloseTraffic, StopUnpublish, StopDrainCA
  <2> QED
    BY <1>1, <1>3, <2>1, <2>2 DEF EndpointInv
<1>6. CASE UNCHANGED <<closed, stopping>>
  BY <1>1, <1>6 DEF EndpointInv
<1> QED
  BY <1>4, <1>5, <1>6
     DEF Next, WatcherStep, MutatorStep, WatcherReceives, WatcherNotes, WatcherDeliver,
         WatcherAdmit, WatcherApply, WatcherRecord, WatcherEnds, WatcherRequested, ListSwitches,
         CallerGone, OwnerInterrupted, MutateAdmit, MutateCheck, MutateLook, MutateWork,
         MutateSchedule, MutateSettle, MutateUnlock, AssessBegin, AssessLook, AssessEnd, Rest,
         vars

LEMMA EndpointsInitially == Init => EndpointInv
  BY NoneIsNoStart DEF Init, EndpointInv, DeliverySteps

\* Listeners stay open until their runtime is published, and whoever delivers has
\* a runtime to deliver for.
THEOREM EndpointsHold == Spec => []EndpointInv
<1>1. LifecycleInv /\ EndpointInv /\ [Next]_vars => EndpointInv'
  BY StartKeepsEndpoints, OthersKeepEndpoints
<1> QED
  BY EndpointsInitially, InvariantHolds, <1>1, PTL DEF Spec

(***************************************************************************)
(* How the steps of one call change what Gateway sees.                     *)
(***************************************************************************)
LEMMA SequenceAfter ==
  ASSUME NEW s \in Starts,
         \A u \in Starts \ {s} : start'[u] = start[u] /\ active'[u] = active[u]
  PROVE  /\ Activating(s)' => InSequence' = InSequence \cup {s}
         /\ ~Activating(s)' => InSequence' = InSequence \ {s}
  BY DEF InSequence, Activating

LEMMA StartedAfter ==
  ASSUME NEW s \in Starts,
         \A u \in Starts \ {s} : start'[u] = start[u] /\ result'[u] = result[u]
  PROVE  /\ start'[s] = "done" /\ result'[s] = "Started" => HasStarted' = HasStarted \cup {s}
         /\ ~(start'[s] = "done" /\ result'[s] = "Started") => HasStarted' = HasStarted \ {s}
  BY DEF HasStarted

LEMMA OpenAfter ==
  ASSUME NEW s \in Starts,
         \A u \in Starts \ {s} : (u \in Bound' <=> u \in Bound) /\ closed'[u] = closed[u]
  PROVE  /\ s \in Bound' /\ ~closed'[s] => Open' = Open \cup {s}
         /\ ~(s \in Bound' /\ ~closed'[s]) => Open' = Open \ {s}
  BY DEF Bound, SocketAfterClose, Open

LEMMA StartFrame ==
  ASSUME NEW s \in Starts, StartStep(s)
  PROVE  /\ mutator' = mutator /\ stop' = stop /\ ownerEnding' = ownerEnding
         /\ AtWork' = AtWork /\ HasStopped' = HasStopped /\ Phase' = Phase
<1>1. mutator' = mutator /\ stop' = stop /\ ownerEnding' = ownerEnding
  BY DEF StartStep, StartRefused, StartFindsRuntime, StartAdmitted, StartPrepare, StartAdmitCA,
         StartInspect, StartBuild, StartPublish, StartAwaitReady, StartCheckDone, StartDeliver,
         StartAdmit, StartApply, StartRecord, StartCommit, StartReport, StartWithdraw,
         StartAbandon, StartFinish, stopVars, ownerVars
<1> QED
  BY <1>1 DEF AtWork, HasStopped, Phase

LEMMA StartOthers ==
  ASSUME TypeOK, NEW s \in Starts, StartStep(s), NEW u \in Starts \ {s}
  PROVE  /\ start'[u] = start[u] /\ active'[u] = active[u] /\ result'[u] = result[u]
         /\ (u \in Bound' <=> u \in Bound) /\ closed'[u] = closed[u]
  BY DEF Bound, SocketAfterClose, StartStep, StartRefused, StartFindsRuntime, StartAdmitted,
         StartPrepare, StartAdmitCA, StartInspect, StartBuild, StartPublish, StartAwaitReady,
         StartCheckDone, StartDeliver, StartAdmit, StartApply, StartRecord, StartCommit,
         StartReport, StartWithdraw, StartAbandon, StartFinish, StartAt, StartOutcome, startVars,
         serverVars, runtimeVars, TypeOK

(***************************************************************************)
(* The steps of a start.                                                   *)
(***************************************************************************)
\* The steps that only prepare, wait or look.
LEMMA QuietStart ==
  ASSUME LifecycleInv, EndpointInv, NEW s \in Starts, StartStep(s),
         \/ StartRefused(s) \/ StartFindsRuntime(s) \/ StartPrepare(s) \/ StartAdmitCA(s)
         \/ StartInspect(s) \/ StartAwaitReady(s) \/ StartCheckDone(s) \/ StartDeliver(s)
         \/ StartAdmit(s)
         \/ StartRecord(s) \/ StartCommit(s) \/ StartReport(s)
  PROVE  UNCHANGED G!vars
<1> USE DEF LifecycleInv, TypeOK, StartAt, StartOutcome, startVars, serverVars, runtimeVars,
            ownerVars, worldVars
<1>1. runtime' = runtime /\ pac' = pac /\ Bound' = Bound /\ closed' = closed
  BY DEF Bound, SocketAfterClose, StartRefused, StartFindsRuntime, StartPrepare, StartAdmitCA,
         StartInspect, StartAwaitReady, StartCheckDone, StartDeliver, StartAdmit, StartRecord,
         StartCommit, StartReport
<1>2. Open' = Open
  BY <1>1 DEF Open, Bound
<1>3. start[s] = "idle" => runtime # s
  BY DEF OwnershipInv
<1>4. start[s] \in {"awaitReady", "checkDone", "commit"} => active[s] = s
  BY DEF OwnershipInv
<1>5. Activating(s)' <=> Activating(s)
  BY <1>3, <1>4
     DEF Activating, ActivationSteps, DeliverySteps, StartRefused, StartFindsRuntime,
         StartPrepare, StartAdmitCA, StartInspect, StartAwaitReady, StartCheckDone, StartDeliver,
         StartAdmit, StartRecord, StartCommit, StartReport, StartUndelivered
<1>6. InSequence' = InSequence
  BY <1>5, StartOthers, SequenceAfter DEF InSequence
<1>7. ~(start[s] = "done" /\ result[s] = "Started")
  BY DEF StartRefused, StartFindsRuntime, StartPrepare, StartAdmitCA, StartInspect,
         StartAwaitReady, StartCheckDone, StartDeliver, StartAdmit, StartRecord, StartCommit,
         StartReport
<1>8. ~(start'[s] = "done" /\ result'[s] = "Started")
  BY DEF StartRefused, StartFindsRuntime, StartPrepare, StartAdmitCA, StartInspect,
         StartAwaitReady, StartCheckDone, StartDeliver, StartAdmit, StartRecord, StartCommit,
         StartReport
<1>9. HasStarted' = HasStarted
  BY <1>7, <1>8, StartOthers, StartedAfter DEF HasStarted
<1> QED
  BY <1>1, <1>2, <1>6, <1>9, StartFrame DEF G!vars

LEMMA AdmittedRefines ==
  ASSUME LifecycleInv, NEW s \in Starts, StartStep(s), StartAdmitted(s)
  PROVE  G!Admit(s)
<1> USE DEF LifecycleInv, TypeOK
<1>1. startMutating = None /\ ~caMutating /\ runtime = None /\ ~ownerEnding
  BY DEF StartAdmitted, ActivationFree
<1>2. InSequence = {}
  BY <1>1, NoneIsNoStart DEF AdmissionInv, SingleActivation, InSequence
<1>3. AtWork = {}
  BY <1>1 DEF AdmissionInv, AtWork
<1>4. Phase = "serving"
  BY <1>1 DEF StopInv, Phase, PastCleanupLock
<1>5. Activating(s)' /\ start'[s] # "done"
  BY DEF StartAdmitted, StartAt, Activating, ActivationSteps, DeliverySteps
<1>6. InSequence' = {s}
  BY <1>2, <1>5, StartOthers, SequenceAfter
<1>7. HasStarted' = HasStarted
  BY <1>5, StartOthers, StartedAfter DEF StartAdmitted, HasStarted
<1>8. Open' = Open /\ runtime' = runtime /\ pac' = pac
  BY DEF StartAdmitted, serverVars, runtimeVars, worldVars, Open, Bound
<1> QED
  BY <1>1, <1>2, <1>3, <1>4, <1>6, <1>7, <1>8, StartFrame DEF G!Admit

\* The steps between admission and finish that change what is open, published or
\* set leave the start where it is in the sequence.
LEMMA MidStart ==
  ASSUME LifecycleInv, EndpointInv, NEW s \in Starts, StartStep(s),
         \/ StartBuild(s) \/ StartPublish(s) \/ StartApply(s) \/ StartWithdraw(s)
         \/ StartAbandon(s)
  PROVE  InSequence' = InSequence /\ HasStarted' = HasStarted
<1> USE DEF LifecycleInv, TypeOK, StartAt, StartOutcome, startVars
<1>1. start[s] = "withdraw" => active[s] = s
  BY DEF OwnershipInv
<1>2. Activating(s)' <=> Activating(s)
  BY <1>1
     DEF Activating, ActivationSteps, DeliverySteps, StartBuild, StartPublish, StartApply,
         StartWithdraw, StartAbandon
<1>3. InSequence' = InSequence
  BY <1>2, StartOthers, SequenceAfter DEF InSequence
<1>4. start[s] # "done" /\ start'[s] # "done"
  BY DEF StartBuild, StartPublish, StartApply, StartWithdraw, StartAbandon
<1>5. HasStarted' = HasStarted
  BY <1>4, StartOthers, StartedAfter DEF HasStarted
<1> QED
  BY <1>3, <1>5

LEMMA BuildRefines ==
  ASSUME LifecycleInv, EndpointInv, NEW s \in Starts, StartStep(s), StartBuild(s)
  PROVE  G!Bind(s) \/ UNCHANGED G!vars
<1> USE DEF LifecycleInv, TypeOK, ownerVars, worldVars
<1>1. runtime' = runtime /\ pac' = pac /\ closed' = closed /\ s \in InSequence
  BY DEF StartBuild, InSequence, Activating, ActivationSteps, DeliverySteps
<1>2. CASE Bound' = Bound
  <2>1. Open' = Open
    BY <1>1, <1>2 DEF Open, Bound
  <2> QED
    BY <1>1, <2>1, MidStart, StartFrame DEF G!vars
<1>3. CASE sockets' = [sockets EXCEPT ![s] = "bound"]
  <2>1. ~closed'[s] /\ s \in Bound'
    BY <1>1, <1>3 DEF Bound, SocketAfterClose, StartBuild, EndpointInv, Bound
  <2>2. Open' = Open \cup {s}
    BY <2>1, StartOthers, OpenAfter
  <2> QED
    BY <1>1, <2>2, MidStart, StartFrame DEF G!Bind
<1> QED
  BY <1>2, <1>3 DEF StartBuild, Bound

LEMMA PublishRefines ==
  ASSUME LifecycleInv, EndpointInv, NEW s \in Starts, StartStep(s), StartPublish(s)
  PROVE  G!Publish(s) \/ G!CloseEndpoints(s)
<1> USE DEF LifecycleInv, TypeOK
<1>1. pac' = pac /\ s \in InSequence
  BY DEF StartPublish, InSequence, Activating, ActivationSteps, DeliverySteps, worldVars
<1>2. CASE ~PublicationAllowed(s)
  <2>1. closed'[s] /\ runtime' = runtime
    BY <1>2 DEF StartPublish
  <2>2. Open' = Open \ {s}
    BY <2>1, StartOthers, OpenAfter
  <2> QED
    BY <1>1, <2>1, <2>2, MidStart, StartFrame DEF G!CloseEndpoints
<1>3. CASE PublicationAllowed(s)
  <2>1. runtime = None /\ ~closed[s] /\ s \in Bound
    BY DEF StartPublish, SocketInv, OwnershipInv, EndpointInv, Bound
  <2>2. runtime' = s /\ ~closed'[s] /\ s \in Bound'
    BY <1>3, <2>1 DEF Bound, SocketAfterClose, StartPublish, Bound
  <2>3. s \in Open /\ Open' = Open
    BY <2>1, <2>2, StartOthers, OpenAfter DEF Open, Bound
  <2> QED
    BY <1>1, <2>1, <2>2, <2>3, MidStart, StartFrame DEF G!Publish
<1> QED
  BY <1>2, <1>3

\* No delivery is between its admission and its end once a Stop has deliveryMu.
LEMMA DeliversInTime ==
  ASSUME LifecycleInv, NEW s \in Starts, start[s] = "apply" \/ watcher[s] = "apply"
  PROVE  Phase # "final"
  BY DEF LifecycleInv, StopInv, Phase

LEMMA ApplyRefines ==
  ASSUME LifecycleInv, EndpointInv, NEW s \in Starts, StartStep(s), StartApply(s)
  PROVE  G!Deliver(active[s]) \/ UNCHANGED G!vars
<1>1. runtime' = runtime /\ Bound' = Bound /\ closed' = closed /\ pac' \in {pac, active[s]}
  BY DEF Bound, SocketAfterClose, StartApply, ownerVars, serverVars, runtimeVars
<1>2. Open' = Open
  BY <1>1 DEF Open, Bound
<1>3. Phase # "final"
  BY DeliversInTime DEF StartApply
<1> QED
  BY <1>1, <1>2, <1>3, MidStart, StartFrame DEF G!Deliver, G!vars

LEMMA WithdrawRefines ==
  ASSUME LifecycleInv, EndpointInv, NEW s \in Starts, StartStep(s), StartWithdraw(s)
  PROVE  G!Unpublish \/ UNCHANGED G!vars
<1>1. Bound' = Bound /\ closed' = closed /\ pac' = pac
  BY DEF Bound, SocketAfterClose, StartWithdraw, serverVars, runtimeVars, worldVars
<1>2. Open' = Open
  BY <1>1 DEF Open, Bound
<1>3. s \in InSequence
  BY DEF StartWithdraw, InSequence, Activating, ActivationSteps, DeliverySteps
<1>4. runtime' = IF runtime = s THEN None ELSE runtime
  BY DEF StartWithdraw, RuntimeWithout
<1> QED
  BY <1>1, <1>2, <1>3, <1>4, MidStart, StartFrame DEF G!Unpublish, G!vars

LEMMA AbandonRefines ==
  ASSUME LifecycleInv, EndpointInv, NEW s \in Starts, StartStep(s), StartAbandon(s)
  PROVE  G!CloseEndpoints(s)
<1>1. runtime' = runtime /\ pac' = pac /\ closed'[s]
  BY DEF StartAbandon, ownerVars, worldVars, LifecycleInv, TypeOK
<1>2. Open' = Open \ {s}
  BY <1>1, StartOthers, OpenAfter DEF LifecycleInv
<1> QED
  BY <1>1, <1>2, MidStart, StartFrame DEF G!CloseEndpoints

LEMMA FinishRefines ==
  ASSUME LifecycleInv, NEW s \in Starts, StartStep(s), StartFinish(s)
  PROVE  G!Conclude(s)
<1> USE DEF LifecycleInv, TypeOK
<1>1. runtime' = runtime /\ pac' = pac /\ Bound' = Bound /\ closed' = closed
        /\ result' = result /\ start[s] = "finish" /\ start'[s] = "done"
  BY DEF Bound, SocketAfterClose, StartFinish, StartAt, serverVars, runtimeVars, worldVars
<1>2. Open' = Open
  BY <1>1 DEF Open, Bound
<1>3. s \in InSequence /\ InSequence' = InSequence \ {s}
  BY <1>1, StartOthers, SequenceAfter DEF InSequence, Activating, ActivationSteps, DeliverySteps
<1>4. CASE result[s] = "Started"
  <2>1. HasStarted' = HasStarted \cup {s}
    BY <1>1, <1>4, StartOthers, StartedAfter
  <2> QED
    BY <1>1, <1>2, <1>3, <2>1, StartFrame DEF G!Conclude
<1>5. CASE result[s] # "Started"
  <2>1. runtime # s /\ s \notin Open
    BY <1>1, <1>5 DEF OwnershipInv, Open, Bound
  <2>2. HasStarted' = HasStarted
    BY <1>1, <1>5, StartOthers, StartedAfter DEF HasStarted
  <2> QED
    BY <1>1, <1>2, <1>3, <2>1, <2>2, StartFrame DEF G!Conclude
<1> QED
  BY <1>4, <1>5

LEMMA StartRefines ==
  ASSUME LifecycleInv, EndpointInv, NEW s \in Starts, StartStep(s)
  PROVE  G!Next \/ UNCHANGED G!vars
<1>1. CASE \/ StartRefused(s) \/ StartFindsRuntime(s) \/ StartPrepare(s) \/ StartAdmitCA(s)
           \/ StartInspect(s) \/ StartAwaitReady(s) \/ StartCheckDone(s) \/ StartDeliver(s)
         \/ StartAdmit(s)
           \/ StartRecord(s) \/ StartCommit(s) \/ StartReport(s)
  BY <1>1, QuietStart
<1>2. CASE StartAdmitted(s)
  BY <1>2, AdmittedRefines DEF G!Next
<1>3. CASE StartBuild(s)
  BY <1>3, BuildRefines DEF G!Next
<1>4. CASE StartPublish(s)
  BY <1>4, PublishRefines DEF G!Next
<1>5. CASE StartApply(s)
  <2>1. active[s] \in Starts
    BY <1>5 DEF StartApply, EndpointInv, DeliverySteps
  <2> QED
    BY <1>5, <2>1, ApplyRefines DEF G!Next
<1>6. CASE StartWithdraw(s)
  BY <1>6, WithdrawRefines DEF G!Next
<1>7. CASE StartAbandon(s)
  BY <1>7, AbandonRefines DEF G!Next
<1>8. CASE StartFinish(s)
  BY <1>8, FinishRefines DEF G!Next
<1> QED
  BY <1>1, <1>2, <1>3, <1>4, <1>5, <1>6, <1>7, <1>8 DEF StartStep

(***************************************************************************)
(* The steps of everything else.                                           *)
(***************************************************************************)
LEMMA StartsFrame ==
  ASSUME start' = start, active' = active, result' = result
  PROVE  InSequence' = InSequence /\ HasStarted' = HasStarted
  BY DEF InSequence, HasStarted, Activating

LEMMA StopsFrame ==
  ASSUME stop' = stop, ownerEnding' = ownerEnding
  PROVE  HasStopped' = HasStopped /\ Phase' = Phase
  BY DEF HasStopped, Phase

LEMMA ServerRefines ==
  ASSUME LifecycleInv, NEW s \in Starts, ServerStep(s)
  PROVE  G!CloseEndpoints(s) \/ UNCHANGED G!vars
<1> USE DEF startVars, ownerVars, stopVars
<1>1. /\ start' = start /\ active' = active /\ result' = result
      /\ stop' = stop /\ ownerEnding' = ownerEnding /\ mutator' = mutator
      /\ runtime' = runtime /\ pac' = pac
  BY DEF ServerStep, ServeListens, ServeProven, ServeUnproven, ServeEnds, ServeBreaks,
         ServeReturns, worldVars
<1>2. AtWork' = AtWork
  BY <1>1 DEF AtWork
<1>3. CASE ServeListens(s) \/ ServeProven(s)
  <2>1. Open' = Open
    BY <1>3 DEF ServeListens, ServeProven, Open, Bound, LifecycleInv, TypeOK
  <2> QED
    BY <1>1, <1>2, <2>1, StartsFrame, StopsFrame DEF G!vars
<1>4. CASE ServeReturns(s)
  <2>1. /\ closed'[s]
        /\ \A u \in Starts \ {s} : (u \in Bound' <=> u \in Bound) /\ closed'[u] = closed[u]
    BY <1>4 DEF Bound, SocketAfterClose, ServeReturns, LifecycleInv, TypeOK
  <2>2. Open' = Open \ {s}
    BY <2>1, OpenAfter
  <2> QED
    BY <1>1, <1>2, <2>2, StartsFrame, StopsFrame DEF G!CloseEndpoints
<1> QED
  BY <1>3, <1>4 DEF ServerStep, ServeUnproven, ServeEnds, ServeBreaks

LEMMA WatcherRefines ==
  ASSUME LifecycleInv, NEW s \in Starts,
         WatcherStep(s) \/ WatcherRequested(s) \/ ListSwitches(s) \/ CallerGone(s)
  PROVE  G!Deliver(s) \/ UNCHANGED G!vars
<1> USE DEF WatcherStep, WatcherRequested, ListSwitches, CallerGone, WatcherReceives,
            WatcherNotes, WatcherDeliver, WatcherAdmit, WatcherApply, WatcherRecord, WatcherEnds
<1>1. /\ start' = start /\ active' = active /\ result' = result
      /\ stop' = stop /\ ownerEnding' = ownerEnding /\ mutator' = mutator
      /\ runtime' = runtime /\ Bound' = Bound /\ closed' = closed
  BY DEF Bound, startVars, ownerVars, stopVars, serverVars
<1>2. AtWork' = AtWork /\ Open' = Open
  BY <1>1 DEF AtWork, Open, Bound
<1>3. pac' = pac \/ (pac' = s /\ watcher[s] = "apply")
  BY DEF worldVars
<1>4. watcher[s] = "apply" => Phase # "final"
  BY DeliversInTime
<1> QED
  BY <1>1, <1>2, <1>3, <1>4, StartsFrame, StopsFrame DEF G!Deliver, G!vars

\* A Stop that moves on, without a step of Gateway's: nothing but its own place
\* changes, and that on the same side of the final phase.
LEMMA StopMoves ==
  ASSUME TypeOK, NEW t \in Stops, NEW step \in StopSteps, StopAt(t, step),
         stop[t] # "done", step # "done", ownerEnding' = ownerEnding,
         stop[t] \in PastCleanupLock <=> step \in PastCleanupLock
  PROVE  HasStopped' = HasStopped /\ Phase' = Phase
<1>1. \A x \in Stops : /\ stop'[x] = "done" <=> stop[x] = "done"
                       /\ stop'[x] \in PastCleanupLock <=> stop[x] \in PastCleanupLock
  BY DEF StopAt, TypeOK
<1> QED
  BY <1>1 DEF HasStopped, Phase

LEMMA StopFrame ==
  ASSUME NEW t \in Stops, StopStep(t)
  PROVE  /\ start' = start /\ active' = active /\ result' = result
         /\ mutator' = mutator /\ AtWork' = AtWork
         /\ InSequence' = InSequence /\ HasStarted' = HasStarted
<1>1. start' = start /\ active' = active /\ result' = result /\ mutator' = mutator
  BY DEF StopStep, StopCalled, StopBegin, StopDeadline, StopCancel, StopAwaitStart,
         StopLockDelivery, StopCleanup, StopCloseTraffic, StopUnpublish, StopDrainCA, startVars
<1> QED
  BY <1>1, StartsFrame DEF AtWork

LEMMA BeginRefines ==
  ASSUME LifecycleInv, NEW t \in Stops, StopStep(t), StopBegin(t)
  PROVE  G!BeginStop \/ UNCHANGED G!vars
<1> USE DEF LifecycleInv, TypeOK, StopCalled, StopBegin, StopDeadline, StopAt, serverVars,
            runtimeVars, worldVars
<1>1. runtime' = runtime /\ pac' = pac /\ Open' = Open
  BY DEF Open, Bound
<1>2. \A x \in Stops : /\ stop'[x] = "done" <=> stop[x] = "done"
                       /\ stop'[x] \in PastCleanupLock <=> stop[x] \in PastCleanupLock
  BY DEF PastCleanupLock
<1>3. HasStopped' = HasStopped
  BY <1>2 DEF HasStopped
<1>4. CASE ownerEnding
  <2>1. Phase' = Phase
    BY <1>2, <1>4 DEF Phase
  <2> QED
    BY <1>1, <1>3, <2>1, StopFrame DEF G!vars
<1>5. CASE ~ownerEnding
  <2>1. \A x \in Stops : stop[x] \in {"idle", "called"}
    BY <1>5 DEF StopInv
  <2>2. Phase = "serving" /\ Phase' = "ending"
    BY <1>2, <1>5, <2>1 DEF Phase, PastCleanupLock
  <2> QED
    BY <1>1, <1>3, <2>2, StopFrame DEF G!BeginStop
<1> QED
  BY <1>4, <1>5

LEMMA LockRefines ==
  ASSUME LifecycleInv, NEW t \in Stops, StopStep(t), StopLockDelivery(t)
  PROVE  G!Finalize \/ UNCHANGED G!vars
<1> USE DEF LifecycleInv, TypeOK, StopLockDelivery, StopAt, serverVars, runtimeVars, worldVars,
            ownerVars
<1>1. runtime' = runtime /\ pac' = pac /\ Open' = Open
  BY DEF Open, Bound
<1>2. \A x \in Stops : /\ stop'[x] = "done" <=> stop[x] = "done"
                       /\ x # t => stop'[x] = stop[x]
  OBVIOUS
<1>3. HasStopped' = HasStopped
  BY <1>2 DEF HasStopped
<1>4. stop'[t] = "cleanup"
  OBVIOUS
<1>5. Phase' = "final"
  BY <1>4 DEF Phase, PastCleanupLock
<1>6. InSequence = {}
  BY DEF StopInv, InSequence
<1>7. Phase \in {"ending", "final"}
  BY DEF StopInv, Phase
<1> QED
  BY <1>1, <1>3, <1>5, <1>6, <1>7, StopFrame DEF G!Finalize, G!vars

LEMMA CleanupRefines ==
  ASSUME LifecycleInv, NEW t \in Stops, StopStep(t), StopCleanup(t)
  PROVE  G!Clean \/ UNCHANGED G!vars
<1> USE DEF LifecycleInv
<1>1. runtime' = runtime /\ pac' \in {None, pac} /\ Open' = Open
  BY DEF StopCleanup, serverVars, runtimeVars, ownerVars, Open, Bound
<1>2. HasStopped' = HasStopped /\ Phase' = Phase
  BY StopMoves DEF StopCleanup, ownerVars, PastCleanupLock, StopSteps
<1>3. Phase = "final"
  BY DEF StopCleanup, Phase, PastCleanupLock
<1> QED
  BY <1>1, <1>2, <1>3, StopFrame DEF G!Clean, G!vars

LEMMA CloseRefines ==
  ASSUME LifecycleInv, NEW t \in Stops, StopStep(t), StopCloseTraffic(t)
  PROVE  (\E s \in Starts : G!CloseEndpoints(s)) \/ UNCHANGED G!vars
<1> USE DEF LifecycleInv, TypeOK
<1>1. runtime' = runtime /\ pac' = pac /\ Bound' = Bound
        /\ closed' = [s \in Starts |-> closed[s] \/ s = stopping[t]]
  BY DEF Bound, SocketAfterClose, StopCloseTraffic, ownerVars, worldVars
<1>2. HasStopped' = HasStopped /\ Phase' = Phase
  BY StopMoves DEF StopCloseTraffic, ownerVars, PastCleanupLock, StopSteps
<1>3. CASE stopping[t] \in Starts
  <2>1. /\ closed'[stopping[t]]
        /\ \A u \in Starts \ {stopping[t]} :
             (u \in Bound' <=> u \in Bound) /\ closed'[u] = closed[u]
    BY <1>1, <1>3
  <2>2. Open' = Open \ {stopping[t]}
    BY <1>3, <2>1, OpenAfter
  <2> QED
    BY <1>1, <1>2, <1>3, <2>2, StopFrame DEF G!CloseEndpoints
<1>4. CASE stopping[t] \notin Starts
  <2>1. \A s \in Starts : closed'[s] = closed[s]
    BY <1>1, <1>4
  <2>2. Open' = Open
    BY <1>1, <2>1 DEF Open, Bound
  <2> QED
    BY <1>1, <1>2, <2>2, StopFrame DEF G!vars
<1> QED
  BY <1>3, <1>4

LEMMA UnpublishRefines ==
  ASSUME LifecycleInv, NEW t \in Stops, StopStep(t), StopUnpublish(t)
  PROVE  G!Unpublish \/ UNCHANGED G!vars
<1> USE DEF LifecycleInv
<1>1. runtime' \in {None, runtime} /\ pac' = pac /\ Open' = Open
  BY DEF StopUnpublish, RuntimeWithout, serverVars, runtimeVars, worldVars, Open, Bound
<1>2. HasStopped' = HasStopped /\ Phase' = Phase
  BY StopMoves DEF StopUnpublish, PastCleanupLock, StopSteps
<1>3. Phase = "final"
  BY DEF StopUnpublish, Phase, PastCleanupLock
<1> QED
  BY <1>1, <1>2, <1>3, StopFrame DEF G!Unpublish, G!vars

LEMMA DrainRefines ==
  ASSUME LifecycleInv, NEW t \in Stops, StopStep(t), StopDrainCA(t)
  PROVE  G!Return(t)
<1> USE DEF LifecycleInv, TypeOK
<1>1. runtime' = runtime /\ pac' = pac /\ Open' = Open /\ ownerEnding' = ownerEnding
  BY DEF StopDrainCA, serverVars, runtimeVars, worldVars, ownerVars, Open, Bound
<1>2. stop[t] = "drainCA" /\ stop' = [stop EXCEPT ![t] = "done"] /\ caAdmissionMu = None
  BY DEF StopDrainCA, StopAt, CASettled
<1>3. runtime = None
  BY <1>2 DEF StopInv
<1>4. InSequence = {}
  BY <1>2 DEF StopInv, PastCleanupLock, InSequence
<1>5. Open = {}
  BY <1>3, <1>4, NoneIsNoStart DEF OwnershipInv, Open, Bound, InSequence
<1>6. \A m \in Mutators : ByMutator(m) # None
  BY NoneIsNoHolder DEF CAUsers
<1>7. AtWork = {}
  BY <1>2, <1>6 DEF LockInv, AtWork
<1>8. Phase = "final"
  BY <1>2 DEF Phase, PastCleanupLock
<1>9. Phase' = "final"
  BY <1>2 DEF Phase, PastCleanupLock
<1>10. HasStopped' = HasStopped \cup {t}
  BY <1>2 DEF HasStopped
<1> QED
  BY <1>1, <1>3, <1>4, <1>5, <1>7, <1>8, <1>9, <1>10, StopFrame DEF G!Return

LEMMA StopRefines ==
  ASSUME LifecycleInv, NEW t \in Stops, StopStep(t)
  PROVE  G!Next \/ UNCHANGED G!vars
<1>1. CASE StopBegin(t)
  BY <1>1, BeginRefines DEF G!Next
<1>2. CASE StopCalled(t) \/ StopCancel(t) \/ StopDeadline(t) \/ StopAwaitStart(t)
  <2>1. runtime' = runtime /\ pac' = pac /\ Open' = Open
    BY <1>2
       DEF StopCalled, StopCancel, StopDeadline, StopAwaitStart, ownerVars, serverVars,
           runtimeVars, worldVars, Open, Bound
  <2>2. HasStopped' = HasStopped /\ Phase' = Phase
    BY <1>2, StopMoves
       DEF StopCalled, StopCancel, StopDeadline, StopAwaitStart, ownerVars, PastCleanupLock,
           StopSteps, LifecycleInv
  <2> QED
    BY <2>1, <2>2, StopFrame DEF G!vars
<1>3. CASE StopLockDelivery(t)
  BY <1>3, LockRefines DEF G!Next
<1>4. CASE StopCleanup(t)
  BY <1>4, CleanupRefines DEF G!Next
<1>5. CASE StopCloseTraffic(t)
  BY <1>5, CloseRefines DEF G!Next
<1>6. CASE StopUnpublish(t)
  BY <1>6, UnpublishRefines DEF G!Next
<1>7. CASE StopDrainCA(t)
  BY <1>7, DrainRefines DEF G!Next
<1> QED
  BY <1>1, <1>2, <1>3, <1>4, <1>5, <1>6, <1>7 DEF StopStep

LEMMA MutatorRefines ==
  ASSUME LifecycleInv, NEW m \in Mutators, MutatorStep(m)
  PROVE  G!Mutate(m) \/ G!EndMutation(m) \/ UNCHANGED G!vars
<1> USE DEF LifecycleInv, TypeOK, MutatorStep, MutateAdmit, MutateCheck, MutateLook, MutateWork,
            MutateSchedule, MutateSettle, MutateUnlock, MutatorAt
<1>1. /\ start' = start /\ active' = active /\ result' = result
      /\ stop' = stop /\ ownerEnding' = ownerEnding
      /\ runtime' = runtime /\ pac' = pac /\ Bound' = Bound /\ closed' = closed
  BY DEF Bound, SocketAfterClose, startVars, ownerVars, stopVars, worldVars, serverVars, runtimeVars
<1>2. Open' = Open
  BY <1>1 DEF Open, Bound
<1>3. \A n \in Mutators \ {m} : mutator'[n] = mutator[n]
  OBVIOUS
<1>4. CASE mutator'[m] = "work"
  <2>1. mutator[m] \in {"check", "look"} /\ MutationAllowed
    BY <1>4 DEF AdmissionInv
  <2>2. caAdmissionMu = ByMutator(m)
    BY <2>1 DEF LockInv
  <2>3. AtWork = {}
    BY <2>1, <2>2 DEF LockInv, AtWork, ByMutator
  <2>4. InSequence = {}
    BY <2>1, NoneIsNoStart DEF MutationAllowed, AdmissionInv, SingleActivation, InSequence
  <2>5. Phase = "serving"
    BY <2>1 DEF MutationAllowed, StopInv, Phase, PastCleanupLock
  <2>6. AtWork' = {m}
    BY <1>3, <1>4, <2>3 DEF AtWork
  <2> QED
    BY <1>1, <1>2, <2>3, <2>4, <2>5, <2>6, StartsFrame, StopsFrame DEF G!Mutate
<1>5. CASE mutator'[m] # "work"
  <2>1. AtWork' = AtWork \ {m}
    BY <1>3, <1>5 DEF AtWork
  <2> QED
    BY <1>1, <1>2, <2>1, StartsFrame, StopsFrame DEF G!EndMutation
<1> QED
  BY <1>4, <1>5

LEMMA StepRefines ==
  ASSUME LifecycleInv, EndpointInv, [Next]_vars
  PROVE  [G!Next]_(G!vars)
<1>1. CASE \E s \in Starts : StartStep(s)
  BY <1>1, StartRefines
<1>2. CASE \E s \in Starts : ServerStep(s)
  BY <1>2, ServerRefines DEF G!Next
<1>3. CASE \E s \in Starts :
             WatcherStep(s) \/ WatcherRequested(s) \/ ListSwitches(s) \/ CallerGone(s)
  BY <1>3, WatcherRefines DEF G!Next
<1>4. CASE \E t \in Stops : StopStep(t)
  BY <1>4, StopRefines
<1>5. CASE \E m \in Mutators : MutatorStep(m)
  BY <1>5, MutatorRefines DEF G!Next
<1>6. CASE OwnerInterrupted \/ AssessBegin \/ AssessLook \/ AssessEnd \/ UNCHANGED vars
  <2>1. /\ start' = start /\ active' = active /\ result' = result
        /\ stop' = stop /\ ownerEnding' = ownerEnding /\ mutator' = mutator
        /\ runtime' = runtime /\ pac' = pac /\ Bound' = Bound /\ closed' = closed
    BY <1>6
       DEF Bound, SocketAfterClose, OwnerInterrupted, AssessBegin, AssessLook, AssessEnd, vars,
           startVars, ownerVars, stopVars, worldVars, serverVars, runtimeVars
  <2>2. AtWork' = AtWork /\ Open' = Open
    BY <2>1 DEF AtWork, Open, Bound
  <2> QED
    BY <2>1, <2>2, StartsFrame, StopsFrame DEF G!vars
<1> QED
  BY <1>1, <1>2, <1>3, <1>4, <1>5, <1>6 DEF Next, Rest

LEMMA InitRefines == Init => G!Init
<1> SUFFICES ASSUME Init PROVE G!Init
  OBVIOUS
<1>1. InSequence = {}
  BY DEF Init, InSequence, Activating, ActivationSteps, DeliverySteps
<1>2. HasStarted = {} /\ HasStopped = {} /\ AtWork = {} /\ Open = {}
  BY DEF Init, HasStarted, HasStopped, AtWork, Open, Bound
<1>3. Phase = "serving"
  BY DEF Init, Phase, PastCleanupLock
<1> QED
  BY <1>1, <1>2, <1>3 DEF Init, G!Init

\* A Gateway Owner, with its locks, flags and goroutines, behaves as Gateway says,
\* for any number of starts, stops and CA mutations.
THEOREM LifecycleImplementsGateway == Spec => ImplementsGateway
<1>1. LifecycleInv /\ EndpointInv /\ [Next]_vars => [G!Next]_(G!vars)
  BY StepRefines
<1> QED
  BY InitRefines, InvariantHolds, EndpointsHold, <1>1, PTL
     DEF Spec, ImplementsGateway, G!Spec
=============================================================================
