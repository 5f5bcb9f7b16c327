---------------------------- MODULE LifecycleProofs ----------------------------
(***************************************************************************)
(* The safety of Lifecycle, for any number of starts, stops and mutators.  *)
(* TypeOK is inductive by itself.  The other parts of LifecycleInv lean on *)
(* one another, so each lemma below takes the whole invariant before a     *)
(* step and proves one part after it.                                      *)
(***************************************************************************)
EXTENDS LifecycleInvariant, TLAPS

\* newLifecycleState establishes the invariant.
LEMMA InitEstablishes == Init => LifecycleInv
<1> SUFFICES ASSUME Init
             PROVE  LifecycleInv
  OBVIOUS
<1> USE NoneIsNoStart, NoneIsNoHolder DEF Init
<1>1. TypeOK
  BY DEF TypeOK, RuntimeOrNone, StartSteps, Results, StopSteps, WatcherSteps, MutatorSteps
<1>2. LockInv /\ DeliveryInv
  BY DEF LockInv, DeliveryInv
<1>3. \A s \in Starts : ~Activating(s)
  BY DEF Activating, ActivationSteps
<1>4. AdmissionInv
  BY <1>3 DEF AdmissionInv, SingleActivation
<1>5. OwnershipInv /\ SocketInv
  BY DEF OwnershipInv, SocketInv
<1>6. StopInv
  BY DEF StopInv, PastCleanupLock
<1> QED
  BY <1>1, <1>2, <1>4, <1>5, <1>6 DEF LifecycleInv

\* Every step keeps every variable in its type.
LEMMA TypeStep == TypeOK /\ [Next]_vars => TypeOK'
<1> SUFFICES ASSUME TypeOK, [Next]_vars
             PROVE  TypeOK'
  OBVIOUS
<1> USE DEF vars, ownerVars, lockVars, startVars, serverVars, runtimeVars, stopVars, worldVars
<1> USE DEF TypeOK, RuntimeOrNone, StartSteps, StopSteps, WatcherSteps, MutatorSteps, Results
<1> USE NoneIsNoStart, NoneIsNoHolder
        DEF Deliverers, CAUsers, ByStart, ByWatcher, ByStop, ByMutator, ByAssessor
<1>1. ASSUME NEW s \in Starts, StartStep(s)
      PROVE  TypeOK'
  <2>1. CASE StartRefused(s)
    BY <2>1 DEF StartRefused, StartAt, StartOutcome, MuFree
  <2>2. CASE StartFindsRuntime(s)
    BY <2>2 DEF StartFindsRuntime, StartAt, StartOutcome, MuFree
  <2>3. CASE StartAdmitted(s)
    BY <2>3 DEF StartAdmitted, StartAt, StartOutcome, ActivationFree, MuFree
  <2>4. CASE StartPrepare(s)
    BY <2>4 DEF StartPrepare, StartAt, StartOutcome
  <2>5. CASE StartAdmitCA(s)
    BY <2>5 DEF StartAdmitCA, StartAt, StartOutcome
  <2>6. CASE StartInspect(s)
    BY <2>6 DEF StartInspect, StartAt, StartOutcome
  <2>7. CASE StartBuild(s)
    BY <2>7 DEF StartBuild, StartAt, StartOutcome, MuFree
  <2>8. CASE StartPublish(s)
    <3>1. CASE ~PublicationAllowed(s)
      <4>1. /\ closed' = [closed EXCEPT ![s] = TRUE]
            /\ StartOutcome(s, "finish", "StopCancelled")
            /\ UNCHANGED <<runtime, active, server>>
            /\ UNCHANGED <<ownerEnding, startMutating, caMutating, interrupted, lockVars, sockets,
                           ready, cancelled, sending, watcher, delivered, stopVars, mutator,
                           worldVars>>
        BY <2>8, <3>1 DEF StartPublish
      <4> QED
        BY <4>1 DEF StartOutcome, StartAt
    <3>2. CASE PublicationAllowed(s)
      BY <2>8, <3>2 DEF StartPublish, StartAt
    <3> QED
      BY <3>1, <3>2
  <2>9. CASE StartAwaitReady(s)
    BY <2>9 DEF StartAwaitReady, StartAt, StartOutcome, FailureResult
  <2>10. CASE StartCheckDone(s)
    BY <2>10 DEF StartCheckDone, StartAt, StartOutcome, FailureResult
  <2>11. CASE StartDeliver(s)
    BY <2>11 DEF StartDeliver, StartAt, StartOutcome
  <2>12. CASE StartAdmit(s)
    BY <2>12 DEF StartAdmit, StartAt, StartOutcome, StartUndelivered, DeliveryAdmitted, MuFree
  <2>13. CASE StartApply(s)
    BY <2>13 DEF StartApply, StartAt, StartOutcome
  <2>14. CASE StartRecord(s)
    BY <2>14 DEF StartRecord, StartAt, StartOutcome, RecordDelivery, DeliveryAdmitted, MuFree
  <2>15. CASE StartCommit(s)
    BY <2>15 DEF StartCommit, StartAt, StartOutcome, MuFree
  <2>16. CASE StartReport(s)
    BY <2>16 DEF StartReport, StartAt, StartOutcome, MuFree
  <2>17. CASE StartWithdraw(s)
    BY <2>17 DEF StartWithdraw, StartAt, StartOutcome, RuntimeWithout, MuFree
  <2>18. CASE StartAbandon(s)
    BY <2>18 DEF StartAbandon, StartAt, StartOutcome, SocketAfterClose, MuFree
  <2>19. CASE StartFinish(s)
    BY <2>19 DEF StartFinish, StartAt, StartOutcome, MuFree
  <2> QED
    BY <1>1, <2>1, <2>2, <2>3, <2>4, <2>5, <2>6, <2>7, <2>8, <2>9, <2>10, <2>11, <2>12, <2>13,
       <2>14, <2>15, <2>16, <2>17, <2>18, <2>19 DEF StartStep
<1>2. ASSUME NEW s \in Starts, ServerStep(s)
      PROVE  TypeOK'
  <2>1. CASE ServeListens(s)
    BY <2>1 DEF ServeListens
  <2>2. CASE ServeProven(s)
    BY <2>2 DEF ServeProven
  <2>3. CASE ServeUnproven(s)
    BY <2>3 DEF ServeUnproven, ServeReturns, SocketAfterClose
  <2>4. CASE ServeEnds(s)
    BY <2>4 DEF ServeEnds, ServeReturns, SocketAfterClose
  <2>5. CASE ServeBreaks(s)
    BY <2>5 DEF ServeBreaks, ServeReturns, SocketAfterClose
  <2> QED
    BY <1>2, <2>1, <2>2, <2>3, <2>4, <2>5 DEF ServerStep
<1>3. ASSUME NEW s \in Starts, WatcherStep(s)
      PROVE  TypeOK'
  <2>1. CASE WatcherReceives(s)
    BY <2>1 DEF WatcherReceives, WatcherAt
  <2>2. CASE WatcherNotes(s)
    BY <2>2 DEF WatcherNotes, WatcherAt, MuFree
  <2>3. CASE WatcherDeliver(s)
    BY <2>3 DEF WatcherDeliver, WatcherAt
  <2>4. CASE WatcherAdmit(s)
    BY <2>4 DEF WatcherAdmit, WatcherAt, DeliveryAdmitted, MuFree
  <2>5. CASE WatcherApply(s)
    BY <2>5 DEF WatcherApply, WatcherAt
  <2>6. CASE WatcherRecord(s)
    BY <2>6 DEF WatcherRecord, WatcherAt, RecordDelivery, DeliveryAdmitted, MuFree
  <2>7. CASE WatcherEnds(s)
    BY <2>7 DEF WatcherEnds, WatcherAt
  <2> QED
    BY <1>3, <2>1, <2>2, <2>3, <2>4, <2>5, <2>6, <2>7 DEF WatcherStep
<1>4. ASSUME NEW s \in Starts, WatcherRequested(s) \/ ListSwitches(s) \/ CallerGone(s)
      PROVE  TypeOK'
  <2>1. CASE WatcherRequested(s)
    BY <2>1 DEF WatcherRequested, WatcherAt
  <2>2. CASE ListSwitches(s)
    BY <2>2 DEF ListSwitches
  <2>3. CASE CallerGone(s)
    BY <2>3 DEF CallerGone
  <2> QED
    BY <1>4, <2>1, <2>2, <2>3
<1>5. ASSUME NEW t \in Stops, StopStep(t)
      PROVE  TypeOK'
  <2>1. CASE StopCalled(t)
    BY <2>1 DEF StopCalled, StopAt
  <2>2. CASE StopBegin(t)
    BY <2>2 DEF StopBegin, StopAt, MuFree
  <2>3. CASE StopCancel(t)
    BY <2>3 DEF StopCancel, StopAt
  <2>4. CASE StopDeadline(t)
    BY <2>4 DEF StopDeadline, StopAt, MuFree
  <2>5. CASE StopAwaitStart(t)
    BY <2>5 DEF StopAwaitStart, StopAt, StartSettled
  <2>6. CASE StopLockDelivery(t)
    BY <2>6 DEF StopLockDelivery, StopAt
  <2>7. CASE StopCleanup(t)
    BY <2>7 DEF StopCleanup, StopAt
  <2>8. CASE StopCloseTraffic(t)
    BY <2>8 DEF StopCloseTraffic, StopAt, SocketAfterClose
  <2>9. CASE StopUnpublish(t)
    BY <2>9 DEF StopUnpublish, StopAt, RuntimeWithout, MuFree
  <2>10. CASE StopDrainCA(t)
    BY <2>10 DEF StopDrainCA, StopAt, CASettled
  <2> QED
    BY <1>5, <2>1, <2>2, <2>3, <2>4, <2>5, <2>6, <2>7, <2>8, <2>9, <2>10 DEF StopStep
<1>6. ASSUME NEW m \in Mutators, MutatorStep(m)
      PROVE  TypeOK'
  <2>1. CASE MutateAdmit(m)
    BY <2>1 DEF MutateAdmit, MutatorAt
  <2>2. CASE MutateCheck(m)
    <3>1. mutator' \in [Mutators -> MutatorSteps]
      BY <2>2 DEF MutateCheck, MutatorAt
    <3>2. caMutating' \in BOOLEAN
      BY <2>2 DEF MutateCheck
    <3>3. caAdmissionMu' \in CAUsers \cup {None} /\ mu' \in CAUsers \cup {None}
      BY <2>2 DEF MutateCheck
    <3> QED
      BY <2>2, <3>1, <3>2, <3>3 DEF MutateCheck
  <2>3. CASE MutateLook(m)
    <3>1. mutator' \in [Mutators -> MutatorSteps]
      BY <2>3 DEF MutateLook, MutatorAt
    <3>2. caMutating' \in BOOLEAN
      BY <2>3 DEF MutateLook
    <3>3. caAdmissionMu' \in CAUsers \cup {None} /\ mu' \in CAUsers \cup {None}
      BY <2>3 DEF MutateLook
    <3> QED
      BY <2>3, <3>1, <3>2, <3>3 DEF MutateLook
  <2>4. CASE MutateWork(m)
    BY <2>4 DEF MutateWork, MutatorAt, MuFree
  <2>5. CASE MutateSchedule(m)
    BY <2>5 DEF MutateSchedule, MutatorAt
  <2>6. CASE MutateSettle(m)
    <3>1. mutator' \in [Mutators -> MutatorSteps]
      BY <2>6 DEF MutateSettle, MutatorAt
    <3>2. caMutating' \in BOOLEAN
      BY <2>6 DEF MutateSettle
    <3> QED
      BY <2>6, <3>1, <3>2 DEF MutateSettle
  <2>7. CASE MutateUnlock(m)
    BY <2>7 DEF MutateUnlock, MutatorAt
  <2> QED
    BY <1>6, <2>1, <2>2, <2>3, <2>4, <2>5, <2>6, <2>7 DEF MutatorStep
<1>7. CASE OwnerInterrupted \/ AssessBegin \/ AssessLook \/ AssessEnd
  <2>1. CASE OwnerInterrupted
    BY <2>1 DEF OwnerInterrupted
  <2>2. CASE AssessBegin \/ AssessLook
    BY <2>2 DEF AssessBegin, AssessLook
  <2>3. CASE AssessEnd
    BY <2>3 DEF AssessEnd
  <2> QED
    BY <1>7, <2>1, <2>2, <2>3
<1>8. CASE UNCHANGED vars
  BY <1>8
<1> QED
  BY <1>1, <1>2, <1>3, <1>4, <1>5, <1>6, <1>7, <1>8 DEF Next, Rest

\* A step enters a critical section only by taking its lock, and leaves it by
\* giving the lock back.
LEMMA LockPreserved == LifecycleInv /\ [Next]_vars => LockInv'
<1> SUFFICES ASSUME LifecycleInv, [Next]_vars
             PROVE  LockInv'
  OBVIOUS
<1> USE DEF vars, ownerVars, lockVars, startVars, serverVars, runtimeVars, stopVars, worldVars
<1> USE DEF LifecycleInv, TypeOK, LockInv
<1> USE NoneIsNoStart, NoneIsNoHolder
        DEF Deliverers, CAUsers, ByStart, ByWatcher, ByStop, ByMutator, ByAssessor
<1>1. ASSUME NEW s \in Starts, StartStep(s)
      PROVE  LockInv'
  <2>1. CASE StartRefused(s)
    BY <2>1 DEF StartRefused, StartAt, StartOutcome, MuFree
  <2>2. CASE StartFindsRuntime(s)
    BY <2>2 DEF StartFindsRuntime, StartAt, StartOutcome, MuFree
  <2>3. CASE StartAdmitted(s)
    BY <2>3 DEF StartAdmitted, StartAt, StartOutcome, ActivationFree, MuFree
  <2>4. CASE StartPrepare(s)
    BY <2>4 DEF StartPrepare, StartAt, StartOutcome
  <2>5. CASE StartAdmitCA(s)
    BY <2>5 DEF StartAdmitCA, StartAt, StartOutcome
  <2>6. CASE StartInspect(s)
    BY <2>6 DEF StartInspect, StartAt, StartOutcome
  <2>7. CASE StartBuild(s)
    BY <2>7 DEF StartBuild, StartAt, StartOutcome, MuFree
  <2>8. CASE StartPublish(s)
    BY <2>8 DEF StartPublish, StartAt, StartOutcome, PublicationAllowed, MuFree
  <2>9. CASE StartAwaitReady(s)
    BY <2>9 DEF StartAwaitReady, StartAt, StartOutcome, FailureResult
  <2>10. CASE StartCheckDone(s)
    BY <2>10 DEF StartCheckDone, StartAt, StartOutcome, FailureResult
  <2>11. CASE StartDeliver(s)
    BY <2>11 DEF StartDeliver, StartAt, StartOutcome
  <2>12. CASE StartAdmit(s)
    BY <2>12 DEF StartAdmit, StartAt, StartOutcome, StartUndelivered, DeliveryAdmitted, MuFree
  <2>13. CASE StartApply(s)
    BY <2>13 DEF StartApply, StartAt, StartOutcome
  <2>14. CASE StartRecord(s)
    BY <2>14 DEF StartRecord, StartAt, StartOutcome, RecordDelivery, DeliveryAdmitted, MuFree
  <2>15. CASE StartCommit(s)
    BY <2>15 DEF StartCommit, StartAt, StartOutcome, MuFree
  <2>16. CASE StartReport(s)
    BY <2>16 DEF StartReport, StartAt, StartOutcome, MuFree
  <2>17. CASE StartWithdraw(s)
    BY <2>17 DEF StartWithdraw, StartAt, StartOutcome, RuntimeWithout, MuFree
  <2>18. CASE StartAbandon(s)
    BY <2>18 DEF StartAbandon, StartAt, StartOutcome, SocketAfterClose, MuFree
  <2>19. CASE StartFinish(s)
    BY <2>19 DEF StartFinish, StartAt, StartOutcome, MuFree
  <2> QED
    BY <1>1, <2>1, <2>2, <2>3, <2>4, <2>5, <2>6, <2>7, <2>8, <2>9, <2>10, <2>11, <2>12, <2>13,
       <2>14, <2>15, <2>16, <2>17, <2>18, <2>19 DEF StartStep
<1>2. ASSUME NEW s \in Starts, ServerStep(s)
      PROVE  LockInv'
  <2>1. CASE ServeListens(s) \/ ServeProven(s) \/ ServeUnproven(s) \/ ServeEnds(s) \/
     ServeBreaks(s)
    BY <2>1 DEF ServeListens, ServeProven, ServeUnproven, ServeReturns, SocketAfterClose,
                ServeEnds, ServeBreaks
  <2> QED
    BY <1>2, <2>1 DEF ServerStep
<1>3. ASSUME NEW s \in Starts, WatcherStep(s)
      PROVE  LockInv'
  <2>1. CASE WatcherReceives(s)
    BY <2>1 DEF WatcherReceives, WatcherAt
  <2>2. CASE WatcherNotes(s)
    BY <2>2 DEF WatcherNotes, WatcherAt, MuFree
  <2>3. CASE WatcherDeliver(s)
    BY <2>3 DEF WatcherDeliver, WatcherAt
  <2>4. CASE WatcherAdmit(s)
    BY <2>4 DEF WatcherAdmit, WatcherAt, DeliveryAdmitted, MuFree
  <2>5. CASE WatcherApply(s)
    BY <2>5 DEF WatcherApply, WatcherAt
  <2>6. CASE WatcherRecord(s)
    BY <2>6 DEF WatcherRecord, WatcherAt, RecordDelivery, DeliveryAdmitted, MuFree
  <2>7. CASE WatcherEnds(s)
    BY <2>7 DEF WatcherEnds, WatcherAt
  <2> QED
    BY <1>3, <2>1, <2>2, <2>3, <2>4, <2>5, <2>6, <2>7 DEF WatcherStep
<1>4. ASSUME NEW s \in Starts, WatcherRequested(s) \/ ListSwitches(s) \/ CallerGone(s)
      PROVE  LockInv'
  <2>1. CASE WatcherRequested(s)
    BY <2>1 DEF WatcherRequested, WatcherAt
  <2>2. CASE ListSwitches(s) \/ CallerGone(s)
    BY <2>2 DEF ListSwitches, CallerGone
  <2> QED
    BY <1>4, <2>1, <2>2
<1>5. ASSUME NEW t \in Stops, StopStep(t)
      PROVE  LockInv'
  <2>1. CASE StopCalled(t)
    BY <2>1 DEF StopCalled, StopAt
  <2>2. CASE StopBegin(t)
    BY <2>2 DEF StopBegin, StopAt, MuFree
  <2>3. CASE StopCancel(t)
    BY <2>3 DEF StopCancel, StopAt
  <2>4. CASE StopDeadline(t)
    BY <2>4 DEF StopDeadline, StopAt, MuFree
  <2>5. CASE StopAwaitStart(t)
    BY <2>5 DEF StopAwaitStart, StopAt, StartSettled
  <2>6. CASE StopLockDelivery(t)
    BY <2>6 DEF StopLockDelivery, StopAt
  <2>7. CASE StopCleanup(t)
    BY <2>7 DEF StopCleanup, StopAt
  <2>8. CASE StopCloseTraffic(t)
    BY <2>8 DEF StopCloseTraffic, StopAt, SocketAfterClose
  <2>9. CASE StopUnpublish(t)
    BY <2>9 DEF StopUnpublish, StopAt, RuntimeWithout, MuFree
  <2>10. CASE StopDrainCA(t)
    BY <2>10 DEF StopDrainCA, StopAt, CASettled
  <2> QED
    BY <1>5, <2>1, <2>2, <2>3, <2>4, <2>5, <2>6, <2>7, <2>8, <2>9, <2>10 DEF StopStep
<1>6. ASSUME NEW m \in Mutators, MutatorStep(m)
      PROVE  LockInv'
  <2>1. CASE MutateAdmit(m)
    BY <2>1 DEF MutateAdmit, MutatorAt
  <2>2. CASE MutateCheck(m)
    BY <2>2 DEF MutateCheck, MutatorAt, MutationAllowed, MuFree
  <2>3. CASE MutateLook(m)
    BY <2>3 DEF MutateLook, MutatorAt
  <2>4. CASE MutateWork(m)
    BY <2>4 DEF MutateWork, MutatorAt, MuFree
  <2>5. CASE MutateSchedule(m)
    BY <2>5 DEF MutateSchedule, MutatorAt
  <2>6. CASE MutateSettle(m)
    BY <2>6 DEF MutateSettle, MutatorAt, MuFree
  <2>7. CASE MutateUnlock(m)
    BY <2>7 DEF MutateUnlock, MutatorAt
  <2> QED
    BY <1>6, <2>1, <2>2, <2>3, <2>4, <2>5, <2>6, <2>7 DEF MutatorStep
<1>7. CASE OwnerInterrupted \/ AssessBegin \/ AssessLook \/ AssessEnd
  BY <1>7 DEF OwnerInterrupted, AssessBegin, AssessLook, AssessEnd
<1>8. CASE UNCHANGED vars
  BY <1>8
<1> QED
  BY <1>1, <1>2, <1>3, <1>4, <1>5, <1>6, <1>7, <1>8 DEF Next, Rest

\* A step admits a start, or a CA mutation, only beside no other.
LEMMA AdmissionPreserved == LifecycleInv /\ [Next]_vars => AdmissionInv'
<1> SUFFICES ASSUME LifecycleInv, [Next]_vars
             PROVE  AdmissionInv'
  OBVIOUS
<1> USE DEF vars, ownerVars, lockVars, startVars, serverVars, runtimeVars, stopVars, worldVars
<1> USE DEF LifecycleInv, TypeOK, AdmissionInv, MutationAllowed, OwnershipInv, SingleActivation,
            Activating, ActivationSteps, DeliverySteps, LockInv
<1> USE NoneIsNoStart, NoneIsNoHolder
        DEF Deliverers, CAUsers, ByStart, ByWatcher, ByStop, ByMutator, ByAssessor
<1>1. ASSUME NEW s \in Starts, StartStep(s)
      PROVE  AdmissionInv'
  <2>1. CASE StartRefused(s)
    BY <2>1 DEF StartRefused, StartAt, StartOutcome, MuFree
  <2>2. CASE StartFindsRuntime(s)
    BY <2>2 DEF StartFindsRuntime, StartAt, StartOutcome, MuFree
  <2>3. CASE StartAdmitted(s)
    BY <2>3 DEF StartAdmitted, StartAt, StartOutcome, ActivationFree, MuFree
  <2>4. CASE StartPrepare(s)
    BY <2>4 DEF StartPrepare, StartAt, StartOutcome
  <2>5. CASE StartAdmitCA(s)
    BY <2>5 DEF StartAdmitCA, StartAt, StartOutcome
  <2>6. CASE StartInspect(s)
    BY <2>6 DEF StartInspect, StartAt, StartOutcome
  <2>7. CASE StartBuild(s)
    BY <2>7 DEF StartBuild, StartAt, StartOutcome, MuFree
  <2>8. CASE StartPublish(s)
    BY <2>8 DEF StartPublish, StartAt, StartOutcome, PublicationAllowed, MuFree
  <2>9. CASE StartAwaitReady(s)
    BY <2>9 DEF StartAwaitReady, StartAt, StartOutcome, FailureResult
  <2>10. CASE StartCheckDone(s)
    BY <2>10 DEF StartCheckDone, StartAt, StartOutcome, FailureResult
  <2>11. CASE StartDeliver(s)
    BY <2>11 DEF StartDeliver, StartAt, StartOutcome
  <2>12. CASE StartAdmit(s)
    BY <2>12 DEF StartAdmit, StartAt, StartOutcome, StartUndelivered, DeliveryAdmitted, MuFree
  <2>13. CASE StartApply(s)
    BY <2>13 DEF StartApply, StartAt, StartOutcome
  <2>14. CASE StartRecord(s)
    BY <2>14 DEF StartRecord, StartAt, StartOutcome, RecordDelivery, DeliveryAdmitted, MuFree
  <2>15. CASE StartCommit(s)
    BY <2>15 DEF StartCommit, StartAt, StartOutcome, MuFree
  <2>16. CASE StartReport(s)
    BY <2>16 DEF StartReport, StartAt, StartOutcome, MuFree
  <2>17. CASE StartWithdraw(s)
    BY <2>17 DEF StartWithdraw, StartAt, StartOutcome, RuntimeWithout, MuFree
  <2>18. CASE StartAbandon(s)
    BY <2>18 DEF StartAbandon, StartAt, StartOutcome, SocketAfterClose, MuFree
  <2>19. CASE StartFinish(s)
    BY <2>19 DEF StartFinish, StartAt, StartOutcome, MuFree
  <2> QED
    BY <1>1, <2>1, <2>2, <2>3, <2>4, <2>5, <2>6, <2>7, <2>8, <2>9, <2>10, <2>11, <2>12, <2>13,
       <2>14, <2>15, <2>16, <2>17, <2>18, <2>19 DEF StartStep
<1>2. ASSUME NEW s \in Starts, ServerStep(s)
      PROVE  AdmissionInv'
  <2>1. CASE ServeListens(s) \/ ServeProven(s) \/ ServeUnproven(s) \/ ServeEnds(s) \/
     ServeBreaks(s)
    BY <2>1 DEF ServeListens, ServeProven, ServeUnproven, ServeReturns, SocketAfterClose,
                ServeEnds, ServeBreaks
  <2> QED
    BY <1>2, <2>1 DEF ServerStep
<1>3. ASSUME NEW s \in Starts, WatcherStep(s)
      PROVE  AdmissionInv'
  <2>1. CASE WatcherReceives(s) \/ WatcherNotes(s) \/ WatcherDeliver(s) \/ WatcherAdmit(s) \/
     WatcherApply(s) \/ WatcherRecord(s) \/ WatcherEnds(s)
    BY <2>1 DEF WatcherReceives, WatcherAt, WatcherNotes, MuFree, WatcherDeliver, WatcherAdmit,
                DeliveryAdmitted, WatcherApply, WatcherRecord, RecordDelivery, WatcherEnds
  <2> QED
    BY <1>3, <2>1 DEF WatcherStep
<1>4. ASSUME NEW s \in Starts, WatcherRequested(s) \/ ListSwitches(s) \/ CallerGone(s)
      PROVE  AdmissionInv'
  BY <1>4 DEF WatcherRequested, WatcherAt, ListSwitches, CallerGone
<1>5. ASSUME NEW t \in Stops, StopStep(t)
      PROVE  AdmissionInv'
  <2>1. CASE StopBegin(t)
    BY <2>1 DEF StopBegin, StopAt, MuFree
  <2>2. CASE StopCalled(t) \/ StopCancel(t) \/ StopDeadline(t) \/ StopAwaitStart(t) \/
     StopLockDelivery(t) \/ StopCleanup(t) \/ StopCloseTraffic(t) \/ StopUnpublish(t) \/
     StopDrainCA(t)
    BY <2>2 DEF StopCalled, StopAt, StopCancel, StopDeadline, MuFree, StopAwaitStart,
                StartSettled, StopLockDelivery, StopCleanup, StopCloseTraffic, SocketAfterClose,
                StopUnpublish, RuntimeWithout, StopDrainCA, CASettled
  <2> QED
    BY <1>5, <2>1, <2>2 DEF StopStep
<1>6. ASSUME NEW m \in Mutators, MutatorStep(m)
      PROVE  AdmissionInv'
  <2>1. CASE MutateAdmit(m)
    BY <2>1 DEF MutateAdmit, MutatorAt
  <2>2. CASE MutateCheck(m)
    BY <2>2 DEF MutateCheck, MutatorAt, MutationAllowed, MuFree
  <2>3. CASE MutateLook(m)
    BY <2>3 DEF MutateLook, MutatorAt
  <2>4. CASE MutateWork(m)
    BY <2>4 DEF MutateWork, MutatorAt, MuFree
  <2>5. CASE MutateSchedule(m)
    BY <2>5 DEF MutateSchedule, MutatorAt
  <2>6. CASE MutateSettle(m)
    BY <2>6 DEF MutateSettle, MutatorAt, MuFree
  <2>7. CASE MutateUnlock(m)
    BY <2>7 DEF MutateUnlock, MutatorAt
  <2> QED
    BY <1>6, <2>1, <2>2, <2>3, <2>4, <2>5, <2>6, <2>7 DEF MutatorStep
<1>7. CASE OwnerInterrupted \/ AssessBegin \/ AssessLook \/ AssessEnd
  BY <1>7 DEF OwnerInterrupted, AssessBegin, AssessLook, AssessEnd
<1>8. CASE UNCHANGED vars
  BY <1>8
<1> QED
  BY <1>1, <1>2, <1>3, <1>4, <1>5, <1>6, <1>7, <1>8 DEF Next, Rest

\* The listeners of a runtime, its serving goroutine and its HTTP servers keep
\* step with one another.
LEMMA SocketPreserved == LifecycleInv /\ [Next]_vars => SocketInv'
<1> SUFFICES ASSUME LifecycleInv, [Next]_vars
             PROVE  SocketInv'
  OBVIOUS
<1> USE DEF vars, ownerVars, lockVars, startVars, serverVars, runtimeVars, stopVars, worldVars
<1> USE DEF LifecycleInv, TypeOK, SocketInv, OwnershipInv, DeliverySteps
<1> USE NoneIsNoStart, NoneIsNoHolder
        DEF Deliverers, CAUsers, ByStart, ByWatcher, ByStop, ByMutator, ByAssessor
<1>1. ASSUME NEW s \in Starts, StartStep(s)
      PROVE  SocketInv'
  <2>1. CASE StartRefused(s)
    BY <2>1 DEF StartRefused, StartAt, StartOutcome, MuFree
  <2>2. CASE StartFindsRuntime(s)
    BY <2>2 DEF StartFindsRuntime, StartAt, StartOutcome, MuFree
  <2>3. CASE StartAdmitted(s)
    BY <2>3 DEF StartAdmitted, StartAt, StartOutcome, ActivationFree, MuFree
  <2>4. CASE StartPrepare(s)
    BY <2>4 DEF StartPrepare, StartAt, StartOutcome
  <2>5. CASE StartAdmitCA(s)
    BY <2>5 DEF StartAdmitCA, StartAt, StartOutcome
  <2>6. CASE StartInspect(s)
    BY <2>6 DEF StartInspect, StartAt, StartOutcome
  <2>7. CASE StartBuild(s)
    BY <2>7 DEF StartBuild, StartAt, StartOutcome, MuFree
  <2>8. CASE StartPublish(s)
    BY <2>8 DEF StartPublish, StartAt, StartOutcome, PublicationAllowed, MuFree
  <2>9. CASE StartAwaitReady(s)
    BY <2>9 DEF StartAwaitReady, StartAt, StartOutcome, FailureResult
  <2>10. CASE StartCheckDone(s)
    BY <2>10 DEF StartCheckDone, StartAt, StartOutcome, FailureResult
  <2>11. CASE StartDeliver(s)
    BY <2>11 DEF StartDeliver, StartAt, StartOutcome
  <2>12. CASE StartAdmit(s)
    BY <2>12 DEF StartAdmit, StartAt, StartOutcome, StartUndelivered, DeliveryAdmitted, MuFree
  <2>13. CASE StartApply(s)
    BY <2>13 DEF StartApply, StartAt, StartOutcome
  <2>14. CASE StartRecord(s)
    BY <2>14 DEF StartRecord, StartAt, StartOutcome, RecordDelivery, DeliveryAdmitted, MuFree
  <2>15. CASE StartCommit(s)
    BY <2>15 DEF StartCommit, StartAt, StartOutcome, MuFree
  <2>16. CASE StartReport(s)
    BY <2>16 DEF StartReport, StartAt, StartOutcome, MuFree
  <2>17. CASE StartWithdraw(s)
    BY <2>17 DEF StartWithdraw, StartAt, StartOutcome, RuntimeWithout, MuFree
  <2>18. CASE StartAbandon(s)
    BY <2>18 DEF StartAbandon, StartAt, StartOutcome, SocketAfterClose, MuFree
  <2>19. CASE StartFinish(s)
    BY <2>19 DEF StartFinish, StartAt, StartOutcome, MuFree
  <2> QED
    BY <1>1, <2>1, <2>2, <2>3, <2>4, <2>5, <2>6, <2>7, <2>8, <2>9, <2>10, <2>11, <2>12, <2>13,
       <2>14, <2>15, <2>16, <2>17, <2>18, <2>19 DEF StartStep
<1>2. ASSUME NEW s \in Starts, ServerStep(s)
      PROVE  SocketInv'
  <2>1. CASE ServeListens(s)
    BY <2>1 DEF ServeListens
  <2>2. CASE ServeProven(s)
    BY <2>2 DEF ServeProven
  <2>3. CASE ServeUnproven(s)
    BY <2>3 DEF ServeUnproven, ServeReturns, SocketAfterClose
  <2>4. CASE ServeEnds(s)
    BY <2>4 DEF ServeEnds, ServeReturns, SocketAfterClose
  <2>5. CASE ServeBreaks(s)
    BY <2>5 DEF ServeBreaks, ServeReturns, SocketAfterClose
  <2> QED
    BY <1>2, <2>1, <2>2, <2>3, <2>4, <2>5 DEF ServerStep
<1>3. ASSUME NEW s \in Starts, WatcherStep(s)
      PROVE  SocketInv'
  <2>1. CASE WatcherReceives(s) \/ WatcherNotes(s) \/ WatcherDeliver(s) \/ WatcherAdmit(s) \/
     WatcherApply(s) \/ WatcherRecord(s) \/ WatcherEnds(s)
    BY <2>1 DEF WatcherReceives, WatcherAt, WatcherNotes, MuFree, WatcherDeliver, WatcherAdmit,
                DeliveryAdmitted, WatcherApply, WatcherRecord, RecordDelivery, WatcherEnds
  <2> QED
    BY <1>3, <2>1 DEF WatcherStep
<1>4. ASSUME NEW s \in Starts, WatcherRequested(s) \/ ListSwitches(s) \/ CallerGone(s)
      PROVE  SocketInv'
  BY <1>4 DEF WatcherRequested, WatcherAt, ListSwitches, CallerGone
<1>5. ASSUME NEW t \in Stops, StopStep(t)
      PROVE  SocketInv'
  <2>1. CASE StopCloseTraffic(t)
    BY <2>1 DEF StopCloseTraffic, StopAt, SocketAfterClose
  <2>2. CASE StopCalled(t) \/ StopBegin(t) \/ StopCancel(t) \/ StopDeadline(t) \/
     StopAwaitStart(t) \/ StopLockDelivery(t) \/ StopCleanup(t) \/ StopUnpublish(t) \/
     StopDrainCA(t)
    BY <2>2 DEF StopCalled, StopAt, StopBegin, MuFree, StopCancel, StopDeadline, StopAwaitStart,
                StartSettled, StopLockDelivery, StopCleanup, StopUnpublish, RuntimeWithout,
                StopDrainCA, CASettled
  <2> QED
    BY <1>5, <2>1, <2>2 DEF StopStep
<1>6. ASSUME NEW m \in Mutators, MutatorStep(m)
      PROVE  SocketInv'
  <2>1. CASE MutateAdmit(m) \/ MutateCheck(m) \/ MutateLook(m) \/ MutateWork(m) \/
     MutateSchedule(m) \/ MutateSettle(m) \/ MutateUnlock(m)
    BY <2>1 DEF MutateAdmit, MutatorAt, MutateCheck, MutationAllowed, MuFree, MutateLook,
                MutateWork, MutateSchedule, MutateSettle, MutateUnlock
  <2> QED
    BY <1>6, <2>1 DEF MutatorStep
<1>7. CASE OwnerInterrupted \/ AssessBegin \/ AssessLook \/ AssessEnd
  BY <1>7 DEF OwnerInterrupted, AssessBegin, AssessLook, AssessEnd
<1>8. CASE UNCHANGED vars
  BY <1>8
<1> QED
  BY <1>1, <1>2, <1>3, <1>4, <1>5, <1>6, <1>7, <1>8 DEF Next, Rest

\* No step leaves open endpoints that neither the owner publishes nor a start
\* will close.
LEMMA OwnershipPreserved == LifecycleInv /\ [Next]_vars => OwnershipInv'
<1> SUFFICES ASSUME LifecycleInv, [Next]_vars
             PROVE  OwnershipInv'
  OBVIOUS
<1> USE DEF vars, ownerVars, lockVars, startVars, serverVars, runtimeVars, stopVars, worldVars
<1> USE DEF LifecycleInv, TypeOK, OwnershipInv, SocketInv, StopInv, AdmissionInv,
            SingleActivation, Activating, ActivationSteps, DeliverySteps, PastCleanupLock
<1> USE NoneIsNoStart, NoneIsNoHolder
        DEF Deliverers, CAUsers, ByStart, ByWatcher, ByStop, ByMutator, ByAssessor
<1>1. ASSUME NEW s \in Starts, StartStep(s)
      PROVE  OwnershipInv'
  <2>1. CASE StartRefused(s)
    BY <2>1 DEF StartRefused, StartAt, StartOutcome, MuFree
  <2>2. CASE StartFindsRuntime(s)
    BY <2>2 DEF StartFindsRuntime, StartAt, StartOutcome, MuFree
  <2>3. CASE StartAdmitted(s)
    BY <2>3 DEF StartAdmitted, StartAt, StartOutcome, ActivationFree, MuFree
  <2>4. CASE StartPrepare(s)
    BY <2>4 DEF StartPrepare, StartAt, StartOutcome
  <2>5. CASE StartAdmitCA(s)
    BY <2>5 DEF StartAdmitCA, StartAt, StartOutcome
  <2>6. CASE StartInspect(s)
    BY <2>6 DEF StartInspect, StartAt, StartOutcome
  <2>7. CASE StartBuild(s)
    BY <2>7 DEF StartBuild, StartAt, StartOutcome, MuFree
  <2>8. CASE StartPublish(s)
    BY <2>8 DEF StartPublish, StartAt, StartOutcome, PublicationAllowed, MuFree
  <2>9. CASE StartAwaitReady(s)
    BY <2>9 DEF StartAwaitReady, StartAt, StartOutcome, FailureResult
  <2>10. CASE StartCheckDone(s)
    BY <2>10 DEF StartCheckDone, StartAt, StartOutcome, FailureResult
  <2>11. CASE StartDeliver(s)
    BY <2>11 DEF StartDeliver, StartAt, StartOutcome
  <2>12. CASE StartAdmit(s)
    BY <2>12 DEF StartAdmit, StartAt, StartOutcome, StartUndelivered, DeliveryAdmitted, MuFree
  <2>13. CASE StartApply(s)
    BY <2>13 DEF StartApply, StartAt, StartOutcome
  <2>14. CASE StartRecord(s)
    BY <2>14 DEF StartRecord, StartAt, StartOutcome, RecordDelivery, DeliveryAdmitted, MuFree
  <2>15. CASE StartCommit(s)
    BY <2>15 DEF StartCommit, StartAt, StartOutcome, MuFree
  <2>16. CASE StartReport(s)
    BY <2>16 DEF StartReport, StartAt, StartOutcome, MuFree
  <2>17. CASE StartWithdraw(s)
    BY <2>17 DEF StartWithdraw, StartAt, StartOutcome, RuntimeWithout, MuFree
  <2>18. CASE StartAbandon(s)
    BY <2>18 DEF StartAbandon, StartAt, StartOutcome, SocketAfterClose, MuFree
  <2>19. CASE StartFinish(s)
    BY <2>19 DEF StartFinish, StartAt, StartOutcome, MuFree
  <2> QED
    BY <1>1, <2>1, <2>2, <2>3, <2>4, <2>5, <2>6, <2>7, <2>8, <2>9, <2>10, <2>11, <2>12, <2>13,
       <2>14, <2>15, <2>16, <2>17, <2>18, <2>19 DEF StartStep
<1>2. ASSUME NEW s \in Starts, ServerStep(s)
      PROVE  OwnershipInv'
  <2>1. CASE ServeListens(s)
    BY <2>1 DEF ServeListens
  <2>2. CASE ServeUnproven(s)
    BY <2>2 DEF ServeUnproven, ServeReturns, SocketAfterClose
  <2>3. CASE ServeEnds(s)
    BY <2>3 DEF ServeEnds, ServeReturns, SocketAfterClose
  <2>4. CASE ServeBreaks(s)
    BY <2>4 DEF ServeBreaks, ServeReturns, SocketAfterClose
  <2>5. CASE ServeProven(s)
    BY <2>5 DEF ServeProven
  <2> QED
    BY <1>2, <2>1, <2>2, <2>3, <2>4, <2>5 DEF ServerStep
<1>3. ASSUME NEW s \in Starts, WatcherStep(s)
      PROVE  OwnershipInv'
  <2>1. CASE WatcherReceives(s)
    BY <2>1 DEF WatcherReceives, WatcherAt
  <2>2. CASE WatcherNotes(s)
    BY <2>2 DEF WatcherNotes, WatcherAt, MuFree
  <2>3. CASE WatcherDeliver(s)
    BY <2>3 DEF WatcherDeliver, WatcherAt
  <2>4. CASE WatcherAdmit(s)
    BY <2>4 DEF WatcherAdmit, WatcherAt, DeliveryAdmitted, MuFree
  <2>5. CASE WatcherApply(s)
    BY <2>5 DEF WatcherApply, WatcherAt
  <2>6. CASE WatcherRecord(s)
    BY <2>6 DEF WatcherRecord, WatcherAt, RecordDelivery, DeliveryAdmitted, MuFree
  <2>7. CASE WatcherEnds(s)
    BY <2>7 DEF WatcherEnds, WatcherAt
  <2> QED
    BY <1>3, <2>1, <2>2, <2>3, <2>4, <2>5, <2>6, <2>7 DEF WatcherStep
<1>4. ASSUME NEW s \in Starts, WatcherRequested(s) \/ ListSwitches(s) \/ CallerGone(s)
      PROVE  OwnershipInv'
  <2>1. CASE WatcherRequested(s)
    BY <2>1 DEF WatcherRequested, WatcherAt
  <2>2. CASE ListSwitches(s) \/ CallerGone(s)
    BY <2>2 DEF ListSwitches, CallerGone
  <2> QED
    BY <1>4, <2>1, <2>2
<1>5. ASSUME NEW t \in Stops, StopStep(t)
      PROVE  OwnershipInv'
  <2>1. CASE StopCloseTraffic(t)
    BY <2>1 DEF StopCloseTraffic, StopAt, SocketAfterClose
  <2>2. CASE StopUnpublish(t)
    BY <2>2 DEF StopUnpublish, StopAt, RuntimeWithout, MuFree
  <2>3. CASE StopCalled(t) \/ StopBegin(t) \/ StopCancel(t) \/ StopDeadline(t) \/
     StopAwaitStart(t) \/ StopLockDelivery(t) \/ StopCleanup(t) \/ StopDrainCA(t)
    BY <2>3 DEF StopCalled, StopAt, StopBegin, MuFree, StopCancel, StopDeadline, StopAwaitStart,
                StartSettled, StopLockDelivery, StopCleanup, StopDrainCA, CASettled
  <2> QED
    BY <1>5, <2>1, <2>2, <2>3 DEF StopStep
<1>6. ASSUME NEW m \in Mutators, MutatorStep(m)
      PROVE  OwnershipInv'
  <2>1. CASE MutateAdmit(m) \/ MutateCheck(m) \/ MutateLook(m) \/ MutateWork(m) \/
     MutateSchedule(m) \/ MutateSettle(m) \/ MutateUnlock(m)
    BY <2>1 DEF MutateAdmit, MutatorAt, MutateCheck, MutationAllowed, MuFree, MutateLook,
                MutateWork, MutateSchedule, MutateSettle, MutateUnlock
  <2> QED
    BY <1>6, <2>1 DEF MutatorStep
<1>7. CASE OwnerInterrupted \/ AssessBegin \/ AssessLook \/ AssessEnd
  BY <1>7 DEF OwnerInterrupted, AssessBegin, AssessLook, AssessEnd
<1>8. CASE UNCHANGED vars
  BY <1>8
<1> QED
  BY <1>1, <1>2, <1>3, <1>4, <1>5, <1>6, <1>7, <1>8 DEF Next, Rest

\* A start commits its runtime only after it recorded the delivery.
LEMMA DeliveryPreserved == LifecycleInv /\ [Next]_vars => DeliveryInv'
<1> SUFFICES ASSUME LifecycleInv, [Next]_vars
             PROVE  DeliveryInv'
  OBVIOUS
<1> USE DEF vars, ownerVars, lockVars, startVars, serverVars, runtimeVars, stopVars, worldVars
<1> USE DEF LifecycleInv, TypeOK, DeliveryInv, OwnershipInv, DeliverySteps
<1> USE NoneIsNoStart, NoneIsNoHolder
        DEF Deliverers, CAUsers, ByStart, ByWatcher, ByStop, ByMutator, ByAssessor
<1>1. ASSUME NEW s \in Starts, StartStep(s)
      PROVE  DeliveryInv'
  <2>1. CASE StartRefused(s)
    BY <2>1 DEF StartRefused, StartAt, StartOutcome, MuFree
  <2>2. CASE StartFindsRuntime(s)
    BY <2>2 DEF StartFindsRuntime, StartAt, StartOutcome, MuFree
  <2>3. CASE StartAdmitted(s)
    BY <2>3 DEF StartAdmitted, StartAt, StartOutcome, ActivationFree, MuFree
  <2>4. CASE StartPrepare(s)
    BY <2>4 DEF StartPrepare, StartAt, StartOutcome
  <2>5. CASE StartAdmitCA(s)
    BY <2>5 DEF StartAdmitCA, StartAt, StartOutcome
  <2>6. CASE StartInspect(s)
    BY <2>6 DEF StartInspect, StartAt, StartOutcome
  <2>7. CASE StartBuild(s)
    BY <2>7 DEF StartBuild, StartAt, StartOutcome, MuFree
  <2>8. CASE StartPublish(s)
    BY <2>8 DEF StartPublish, StartAt, StartOutcome, PublicationAllowed, MuFree
  <2>9. CASE StartAwaitReady(s)
    BY <2>9 DEF StartAwaitReady, StartAt, StartOutcome, FailureResult
  <2>10. CASE StartCheckDone(s)
    BY <2>10 DEF StartCheckDone, StartAt, StartOutcome, FailureResult
  <2>11. CASE StartDeliver(s)
    BY <2>11 DEF StartDeliver, StartAt, StartOutcome
  <2>12. CASE StartAdmit(s)
    BY <2>12 DEF StartAdmit, StartAt, StartOutcome, StartUndelivered, DeliveryAdmitted, MuFree
  <2>13. CASE StartApply(s)
    BY <2>13 DEF StartApply, StartAt, StartOutcome
  <2>14. CASE StartRecord(s)
    <3>1. \A r \in Starts : delivered[r] => delivered'[r]
      BY <2>14 DEF StartRecord, RecordDelivery
    <3>2. active[s] = s /\ runtime = s /\ ~ownerEnding => delivered'[s]
      BY <2>14 DEF StartRecord, RecordDelivery, DeliveryAdmitted
    <3>3. start'[s] = "commit" => active[s] = s
      BY <2>14 DEF StartRecord, StartAt, StartOutcome
    <3>4. /\ \A r \in Starts : r # s => start'[r] = start[r]
          /\ watcher[s] = "none"
          /\ UNCHANGED <<runtime, ownerEnding, watcher>>
      BY <2>14 DEF StartRecord, StartAt, StartOutcome
    <3> QED
      BY <3>1, <3>2, <3>3, <3>4
  <2>15. CASE StartCommit(s)
    BY <2>15 DEF StartCommit, StartAt, StartOutcome, MuFree
  <2>16. CASE StartReport(s)
    BY <2>16 DEF StartReport, StartAt, StartOutcome, MuFree
  <2>17. CASE StartWithdraw(s)
    BY <2>17 DEF StartWithdraw, StartAt, StartOutcome, RuntimeWithout, MuFree
  <2>18. CASE StartAbandon(s)
    BY <2>18 DEF StartAbandon, StartAt, StartOutcome, SocketAfterClose, MuFree
  <2>19. CASE StartFinish(s)
    BY <2>19 DEF StartFinish, StartAt, StartOutcome, MuFree
  <2> QED
    BY <1>1, <2>1, <2>2, <2>3, <2>4, <2>5, <2>6, <2>7, <2>8, <2>9, <2>10, <2>11, <2>12, <2>13,
       <2>14, <2>15, <2>16, <2>17, <2>18, <2>19 DEF StartStep
<1>2. ASSUME NEW s \in Starts, ServerStep(s)
      PROVE  DeliveryInv'
  <2>1. CASE ServeListens(s) \/ ServeProven(s) \/ ServeUnproven(s) \/ ServeEnds(s) \/
     ServeBreaks(s)
    BY <2>1 DEF ServeListens, ServeProven, ServeUnproven, ServeReturns, SocketAfterClose,
                ServeEnds, ServeBreaks
  <2> QED
    BY <1>2, <2>1 DEF ServerStep
<1>3. ASSUME NEW s \in Starts, WatcherStep(s)
      PROVE  DeliveryInv'
  <2>1. CASE WatcherReceives(s)
    BY <2>1 DEF WatcherReceives, WatcherAt
  <2>2. CASE WatcherNotes(s)
    BY <2>2 DEF WatcherNotes, WatcherAt, MuFree
  <2>3. CASE WatcherDeliver(s)
    BY <2>3 DEF WatcherDeliver, WatcherAt
  <2>4. CASE WatcherAdmit(s)
    BY <2>4 DEF WatcherAdmit, WatcherAt, DeliveryAdmitted, MuFree
  <2>5. CASE WatcherApply(s)
    BY <2>5 DEF WatcherApply, WatcherAt
  <2>6. CASE WatcherRecord(s)
    BY <2>6 DEF WatcherRecord, WatcherAt, RecordDelivery, DeliveryAdmitted, MuFree
  <2>7. CASE WatcherEnds(s)
    BY <2>7 DEF WatcherEnds, WatcherAt
  <2> QED
    BY <1>3, <2>1, <2>2, <2>3, <2>4, <2>5, <2>6, <2>7 DEF WatcherStep
<1>4. ASSUME NEW s \in Starts, WatcherRequested(s) \/ ListSwitches(s) \/ CallerGone(s)
      PROVE  DeliveryInv'
  <2>1. CASE WatcherRequested(s)
    BY <2>1 DEF WatcherRequested, WatcherAt
  <2>2. CASE ListSwitches(s) \/ CallerGone(s)
    BY <2>2 DEF ListSwitches, CallerGone
  <2> QED
    BY <1>4, <2>1, <2>2
<1>5. ASSUME NEW t \in Stops, StopStep(t)
      PROVE  DeliveryInv'
  <2>1. CASE StopBegin(t)
    BY <2>1 DEF StopBegin, StopAt, MuFree
  <2>2. CASE StopUnpublish(t)
    BY <2>2 DEF StopUnpublish, StopAt, RuntimeWithout, MuFree
  <2>3. CASE StopCalled(t) \/ StopCancel(t) \/ StopDeadline(t) \/ StopAwaitStart(t) \/
     StopLockDelivery(t) \/ StopCleanup(t) \/ StopCloseTraffic(t) \/ StopDrainCA(t)
    BY <2>3 DEF StopCalled, StopAt, StopCancel, StopDeadline, MuFree, StopAwaitStart,
                StartSettled, StopLockDelivery, StopCleanup, StopCloseTraffic, SocketAfterClose,
                StopDrainCA, CASettled
  <2> QED
    BY <1>5, <2>1, <2>2, <2>3 DEF StopStep
<1>6. ASSUME NEW m \in Mutators, MutatorStep(m)
      PROVE  DeliveryInv'
  <2>1. CASE MutateAdmit(m) \/ MutateCheck(m) \/ MutateLook(m) \/ MutateWork(m) \/
     MutateSchedule(m) \/ MutateSettle(m) \/ MutateUnlock(m)
    BY <2>1 DEF MutateAdmit, MutatorAt, MutateCheck, MutationAllowed, MuFree, MutateLook,
                MutateWork, MutateSchedule, MutateSettle, MutateUnlock
  <2> QED
    BY <1>6, <2>1 DEF MutatorStep
<1>7. CASE OwnerInterrupted \/ AssessBegin \/ AssessLook \/ AssessEnd
  BY <1>7 DEF OwnerInterrupted, AssessBegin, AssessLook, AssessEnd
<1>8. CASE UNCHANGED vars
  BY <1>8
<1> QED
  BY <1>1, <1>2, <1>3, <1>4, <1>5, <1>6, <1>7, <1>8 DEF Next, Rest

\* No step undoes what a Stop has established.
LEMMA StopPreserved == LifecycleInv /\ [Next]_vars => StopInv'
<1> SUFFICES ASSUME LifecycleInv, [Next]_vars
             PROVE  StopInv'
  OBVIOUS
<1> USE DEF vars, ownerVars, lockVars, startVars, serverVars, runtimeVars, stopVars, worldVars
<1> USE DEF LifecycleInv, TypeOK, StopInv, AdmissionInv, SingleActivation, OwnershipInv, LockInv,
            Activating, ActivationSteps, DeliverySteps, PastCleanupLock
<1> USE NoneIsNoStart, NoneIsNoHolder
        DEF Deliverers, CAUsers, ByStart, ByWatcher, ByStop, ByMutator, ByAssessor
<1>1. ASSUME NEW s \in Starts, StartStep(s)
      PROVE  StopInv'
  <2>1. CASE StartRefused(s)
    BY <2>1 DEF StartRefused, StartAt, StartOutcome, MuFree
  <2>2. CASE StartFindsRuntime(s)
    BY <2>2 DEF StartFindsRuntime, StartAt, StartOutcome, MuFree
  <2>3. CASE StartAdmitted(s)
    BY <2>3 DEF StartAdmitted, StartAt, StartOutcome, ActivationFree, MuFree
  <2>4. CASE StartPrepare(s)
    BY <2>4 DEF StartPrepare, StartAt, StartOutcome
  <2>5. CASE StartAdmitCA(s)
    BY <2>5 DEF StartAdmitCA, StartAt, StartOutcome
  <2>6. CASE StartInspect(s)
    BY <2>6 DEF StartInspect, StartAt, StartOutcome
  <2>7. CASE StartBuild(s)
    BY <2>7 DEF StartBuild, StartAt, StartOutcome, MuFree
  <2>8. CASE StartPublish(s)
    BY <2>8 DEF StartPublish, StartAt, StartOutcome, PublicationAllowed, MuFree
  <2>9. CASE StartAwaitReady(s)
    BY <2>9 DEF StartAwaitReady, StartAt, StartOutcome, FailureResult
  <2>10. CASE StartCheckDone(s)
    BY <2>10 DEF StartCheckDone, StartAt, StartOutcome, FailureResult
  <2>11. CASE StartDeliver(s)
    BY <2>11 DEF StartDeliver, StartAt, StartOutcome
  <2>12. CASE StartAdmit(s)
    BY <2>12 DEF StartAdmit, StartAt, StartOutcome, StartUndelivered, DeliveryAdmitted, MuFree
  <2>13. CASE StartApply(s)
    BY <2>13 DEF StartApply, StartAt, StartOutcome
  <2>14. CASE StartRecord(s)
    BY <2>14 DEF StartRecord, StartAt, StartOutcome, RecordDelivery, DeliveryAdmitted, MuFree
  <2>15. CASE StartCommit(s)
    BY <2>15 DEF StartCommit, StartAt, StartOutcome, MuFree
  <2>16. CASE StartReport(s)
    BY <2>16 DEF StartReport, StartAt, StartOutcome, MuFree
  <2>17. CASE StartWithdraw(s)
    BY <2>17 DEF StartWithdraw, StartAt, StartOutcome, RuntimeWithout, MuFree
  <2>18. CASE StartAbandon(s)
    BY <2>18 DEF StartAbandon, StartAt, StartOutcome, SocketAfterClose, MuFree
  <2>19. CASE StartFinish(s)
    BY <2>19 DEF StartFinish, StartAt, StartOutcome, MuFree
  <2> QED
    BY <1>1, <2>1, <2>2, <2>3, <2>4, <2>5, <2>6, <2>7, <2>8, <2>9, <2>10, <2>11, <2>12, <2>13,
       <2>14, <2>15, <2>16, <2>17, <2>18, <2>19 DEF StartStep
<1>2. ASSUME NEW s \in Starts, ServerStep(s)
      PROVE  StopInv'
  <2>1. CASE ServeUnproven(s)
    BY <2>1 DEF ServeUnproven, ServeReturns, SocketAfterClose
  <2>2. CASE ServeEnds(s)
    BY <2>2 DEF ServeEnds, ServeReturns, SocketAfterClose
  <2>3. CASE ServeBreaks(s)
    BY <2>3 DEF ServeBreaks, ServeReturns, SocketAfterClose
  <2>4. CASE ServeListens(s) \/ ServeProven(s)
    BY <2>4 DEF ServeListens, ServeProven
  <2> QED
    BY <1>2, <2>1, <2>2, <2>3, <2>4 DEF ServerStep
<1>3. ASSUME NEW s \in Starts, WatcherStep(s)
      PROVE  StopInv'
  <2>1. CASE WatcherReceives(s)
    BY <2>1 DEF WatcherReceives, WatcherAt
  <2>2. CASE WatcherNotes(s)
    BY <2>2 DEF WatcherNotes, WatcherAt, MuFree
  <2>3. CASE WatcherDeliver(s)
    BY <2>3 DEF WatcherDeliver, WatcherAt
  <2>4. CASE WatcherAdmit(s)
    BY <2>4 DEF WatcherAdmit, WatcherAt, DeliveryAdmitted, MuFree
  <2>5. CASE WatcherApply(s)
    BY <2>5 DEF WatcherApply, WatcherAt
  <2>6. CASE WatcherRecord(s)
    BY <2>6 DEF WatcherRecord, WatcherAt, RecordDelivery, DeliveryAdmitted, MuFree
  <2>7. CASE WatcherEnds(s)
    BY <2>7 DEF WatcherEnds, WatcherAt
  <2> QED
    BY <1>3, <2>1, <2>2, <2>3, <2>4, <2>5, <2>6, <2>7 DEF WatcherStep
<1>4. ASSUME NEW s \in Starts, WatcherRequested(s) \/ ListSwitches(s) \/ CallerGone(s)
      PROVE  StopInv'
  <2>1. CASE WatcherRequested(s)
    BY <2>1 DEF WatcherRequested, WatcherAt
  <2>2. CASE ListSwitches(s) \/ CallerGone(s)
    BY <2>2 DEF ListSwitches, CallerGone
  <2> QED
    BY <1>4, <2>1, <2>2
<1>5. ASSUME NEW t \in Stops, StopStep(t)
      PROVE  StopInv'
  <2>1. CASE StopCalled(t)
    BY <2>1 DEF StopCalled, StopAt
  <2>2. CASE StopBegin(t)
    BY <2>2 DEF StopBegin, StopAt, MuFree
  <2>3. CASE StopCancel(t)
    BY <2>3 DEF StopCancel, StopAt
  <2>4. CASE StopDeadline(t)
    BY <2>4 DEF StopDeadline, StopAt, MuFree
  <2>5. CASE StopAwaitStart(t)
    BY <2>5 DEF StopAwaitStart, StopAt, StartSettled
  <2>6. CASE StopLockDelivery(t)
    BY <2>6 DEF StopLockDelivery, StopAt
  <2>7. CASE StopCleanup(t)
    BY <2>7 DEF StopCleanup, StopAt
  <2>8. CASE StopCloseTraffic(t)
    BY <2>8 DEF StopCloseTraffic, StopAt, SocketAfterClose
  <2>9. CASE StopUnpublish(t)
    <3>1. ASSUME NEW r \in Starts, runtime = r, r # stopping[t]
          PROVE  FALSE
      <4>1. stop[t] = "unpublish"
        BY <2>9 DEF StopUnpublish
      <4>2. start[r] \in {"awaitReady", "checkDone", "deliver", "admit", "withdraw"}
             /\ active[r] = r
        BY <3>1, <4>1
      <4>3. ~Activating(r)
        BY <4>1
      <4> QED
        BY <4>2, <4>3
    <3>2. runtime' = None
      BY <2>9, <3>1 DEF StopUnpublish, RuntimeWithout, RuntimeOrNone
    <3>3. /\ \A u \in Stops : u # t => stop'[u] = stop[u]
          /\ stop'[t] = "drainCA"
      BY <2>9 DEF StopUnpublish, StopAt
    <3>4. UNCHANGED <<ownerEnding, start, active, awaited, stopping, watcher, closed, mutator,
                     residue, pac>>
      BY <2>9 DEF StopUnpublish
    <3> QED
      BY <2>9, <3>2, <3>3, <3>4 DEF StopUnpublish
  <2>10. CASE StopDrainCA(t)
    BY <2>10 DEF StopDrainCA, StopAt, CASettled
  <2> QED
    BY <1>5, <2>1, <2>2, <2>3, <2>4, <2>5, <2>6, <2>7, <2>8, <2>9, <2>10 DEF StopStep
<1>6. ASSUME NEW m \in Mutators, MutatorStep(m)
      PROVE  StopInv'
  <2>1. CASE MutateAdmit(m)
    BY <2>1 DEF MutateAdmit, MutatorAt
  <2>2. CASE MutateCheck(m)
    BY <2>2 DEF MutateCheck, MutatorAt, MutationAllowed, MuFree
  <2>3. CASE MutateLook(m)
    <3>1. ~ownerEnding
      BY <2>3 DEF AdmissionInv, MutationAllowed, MutateLook
    <3>2. \A u \in Stops : stop[u] \in {"idle", "called"}
      BY <3>1
    <3>3. UNCHANGED <<stop, ownerEnding>>
      BY <2>3 DEF MutateLook
    <3> QED
      BY <3>2, <3>3 DEF StopInv
  <2>4. CASE MutateWork(m)
    BY <2>4 DEF MutateWork, MutatorAt, MuFree
  <2>5. CASE MutateSchedule(m)
    BY <2>5 DEF MutateSchedule, MutatorAt
  <2>6. CASE MutateSettle(m)
    BY <2>6 DEF MutateSettle, MutatorAt, MuFree
  <2>7. CASE MutateUnlock(m)
    BY <2>7 DEF MutateUnlock, MutatorAt
  <2> QED
    BY <1>6, <2>1, <2>2, <2>3, <2>4, <2>5, <2>6, <2>7 DEF MutatorStep
<1>7. CASE OwnerInterrupted \/ AssessBegin \/ AssessLook \/ AssessEnd
  BY <1>7 DEF OwnerInterrupted, AssessBegin, AssessLook, AssessEnd
<1>8. CASE UNCHANGED vars
  BY <1>8
<1> QED
  BY <1>1, <1>2, <1>3, <1>4, <1>5, <1>6, <1>7, <1>8 DEF Next, Rest

(***************************************************************************)
(* The theorems.                                                           *)
(***************************************************************************)
\* Type correctness: every variable of the lifecycle object, and every local
\* of its calls, stays in its type.
THEOREM TypeCorrect == Spec => []TypeOK
<1>1. Init => TypeOK
  BY InitEstablishes DEF LifecycleInv
<1> QED
  BY <1>1, TypeStep, PTL DEF Spec

\* The inductive invariant holds in every state of every owner.
THEOREM InvariantHolds == Spec => []LifecycleInv
<1>1. LifecycleInv /\ [Next]_vars => LifecycleInv'
  BY TypeStep, LockPreserved, AdmissionPreserved, SocketPreserved, OwnershipPreserved,
     DeliveryPreserved, StopPreserved DEF LifecycleInv
<1> QED
  BY InitEstablishes, <1>1, PTL DEF Spec

\* Single-flight activation: whoever is in the Start Sequence is the start that
\* startMutating names.
THEOREM ActivationIsSingle == Spec => []SingleActivation
<1>1. LifecycleInv => SingleActivation
  BY DEF LifecycleInv, AdmissionInv
<1> QED
  BY InvariantHolds, <1>1, PTL

\* No CA mutation is at work while a start is under way.
THEOREM ActivationIsolation == Spec => []ActivationExcludesMutation
<1>1. LifecycleInv => ActivationExcludesMutation
  BY NoneIsNoStart DEF LifecycleInv, AdmissionInv, SingleActivation, ActivationExcludesMutation
<1> QED
  BY InvariantHolds, <1>1, PTL

\* A start that does not return Started leaves no published runtime behind, and
\* nothing that answers for the one it created.
THEOREM FailureAtomicity == Spec => []FailedStartLeavesNothing
<1>1. LifecycleInv => FailedStartLeavesNothing
  BY DEF LifecycleInv, SocketInv, OwnershipInv, FailedStartLeavesNothing, Silent
<1> QED
  BY InvariantHolds, <1>1, PTL

\* A running runtime has the outcome of its PAC delivery to show.
THEOREM DeliveryIsReported == Spec => []RunningRuntimeHasDelivery
<1>1. LifecycleInv => RunningRuntimeHasDelivery
  BY DEF LifecycleInv, DeliveryInv, RunningRuntimeHasDelivery
<1> QED
  BY InvariantHolds, <1>1, PTL

\* A fulfilled System PAC cleanup of a Stop is never undone.
THEOREM CleanupIsLasting == Spec => []FulfilledCleanupHolds
<1>1. LifecycleInv => FulfilledCleanupHolds
  BY DEF LifecycleInv, StopInv, FulfilledCleanupHolds
<1> QED
  BY InvariantHolds, <1>1, PTL

\* A Stop returns only when nothing of the gateway is left at work.
THEOREM StopIsComplete == Spec => []StopLeavesNothing
<1>1. LifecycleInv => StopLeavesNothing
  <2> SUFFICES ASSUME LifecycleInv, NEW t \in Stops, stop[t] = "done"
               PROVE  /\ runtime = None
                      /\ \A s \in Starts : ~Activating(s) /\ Silent(s)
                      /\ \A m \in Mutators : mutator[m] # "work"
    BY DEF StopLeavesNothing
  <2>1. runtime = None /\ \A m \in Mutators : mutator[m] # "work"
    BY DEF LifecycleInv, StopInv
  <2>2. \A s \in Starts : ~Activating(s)
    BY DEF LifecycleInv, StopInv, PastCleanupLock
  <2>3. \A s \in Starts : Silent(s)
    BY <2>1, <2>2, NoneIsNoStart DEF LifecycleInv, TypeOK, SocketInv, OwnershipInv, Silent
  <2> QED
    BY <2>1, <2>2, <2>3
<1> QED
  BY InvariantHolds, <1>1, PTL

\* Only these three kinds of step publish a runtime or move the PAC setting,
\* and once a Stop is past the lock of its cleanup each of them is impossible
\* or retreats.
LEMMA NothingNewStep == LifecycleInv /\ [Next]_vars => NothingNew
<1> SUFFICES ASSUME LifecycleInv, [Next]_vars,
                    NEW t \in Stops, stop[t] \in PastCleanupLock
             PROVE  runtime' \in {runtime, None} /\ pac' \in {pac, None}
  BY DEF NothingNew
<1> USE DEF vars, ownerVars, worldVars
<1>1. \A s \in Starts : ~Activating(s) /\ start[s] # "apply" /\ watcher[s] # "apply"
  BY DEF LifecycleInv, StopInv
<1>2. ASSUME NEW s \in Starts, StartStep(s)
      PROVE  runtime' \in {runtime, None} /\ pac' \in {pac, None}
  <2>1. ~StartPublish(s) /\ ~StartApply(s)
    BY <1>1 DEF StartPublish, StartApply, Activating, ActivationSteps
  <2>2. CASE StartWithdraw(s)
    BY <2>2 DEF StartWithdraw, RuntimeWithout
  <2>3. CASE UNCHANGED <<runtime, pac>>
    BY <2>3
  <2> QED
    BY <1>2, <2>1, <2>2, <2>3
       DEF StartStep, StartRefused, StartFindsRuntime, StartAdmitted, StartPrepare, StartAdmitCA,
           StartInspect, StartBuild, StartAwaitReady, StartCheckDone, StartDeliver, StartAdmit,
           StartRecord, StartCommit, StartReport, StartAbandon, StartFinish
<1>3. ASSUME NEW s \in Starts,
             ServerStep(s) \/ WatcherStep(s) \/ WatcherRequested(s) \/ ListSwitches(s)
               \/ CallerGone(s)
      PROVE  UNCHANGED <<runtime, pac>>
  <2>1. ~WatcherApply(s)
    BY <1>1 DEF WatcherApply
  <2> QED
    BY <1>3, <2>1
       DEF ServerStep, ServeListens, ServeProven, ServeUnproven, ServeEnds, ServeBreaks,
           ServeReturns, WatcherStep, WatcherReceives, WatcherNotes, WatcherDeliver, WatcherAdmit,
           WatcherRecord, WatcherEnds, WatcherRequested, ListSwitches, CallerGone,
           OwnerInterrupted
<1>4. ASSUME NEW u \in Stops, StopStep(u)
      PROVE  runtime' \in {runtime, None} /\ pac' \in {pac, None}
  <2>1. CASE StopCleanup(u)
    BY <2>1 DEF StopCleanup
  <2>2. CASE StopUnpublish(u)
    BY <2>2 DEF StopUnpublish, RuntimeWithout
  <2>3. CASE UNCHANGED <<runtime, pac>>
    BY <2>3
  <2> QED
    BY <1>4, <2>1, <2>2, <2>3
       DEF StopStep, StopCalled, StopBegin, StopDeadline, StopCancel, StopAwaitStart,
           StopLockDelivery, StopCloseTraffic, StopDrainCA
<1>5. ASSUME NEW m \in Mutators, MutatorStep(m)
      PROVE  UNCHANGED <<runtime, pac>>
  BY <1>5
     DEF MutatorStep, MutateAdmit, MutateCheck, MutateLook, MutateWork, MutateSchedule,
         MutateSettle, MutateUnlock
<1>6. CASE OwnerInterrupted \/ AssessBegin \/ AssessLook \/ AssessEnd \/ UNCHANGED vars
  BY <1>6 DEF OwnerInterrupted, AssessBegin, AssessLook, AssessEnd
<1> QED
  BY <1>2, <1>3, <1>4, <1>5, <1>6 DEF Next, Rest

\* A Stop is final: what was admitted before it never publishes a runtime nor
\* moves the PAC setting to one once the Stop has taken deliveryMu.
THEOREM StopFinality == Spec => StopIsFinal
<1>1. LifecycleInv /\ [Next]_vars => [NothingNew]_vars
  BY NothingNewStep
<1> QED
  BY InvariantHolds, <1>1, PTL DEF Spec, StopIsFinal

(***************************************************************************)
(* Only proven endpoints are delivered.                                    *)
(***************************************************************************)
LEMMA StartKeepsProven ==
  ASSUME LifecycleInv, ProvenInv, NEW s \in Starts, StartStep(s)
  PROVE  ProvenInv'
<1> DEFINE Early == {"idle", "prepare", "admitCA", "inspect", "build", "publish"}
           Late  == {"checkDone", "deliver", "admit", "apply", "record", "commit"}
<1> USE DEF LifecycleInv, TypeOK, StartAt, StartOutcome, StartUndelivered, DeliverySteps
<1>1. ready' = ready
  BY DEF StartStep, StartRefused, StartFindsRuntime, StartAdmitted, StartPrepare, StartAdmitCA,
         StartInspect, StartBuild, StartPublish, StartAwaitReady, StartCheckDone, StartDeliver,
         StartAdmit, StartApply, StartRecord, StartCommit, StartReport, StartWithdraw,
         StartAbandon, StartFinish, serverVars, runtimeVars
<1>2. \A u \in Starts \ {s} :
        start'[u] = start[u] /\ active'[u] = active[u] /\ result'[u] = result[u]
  BY DEF StartStep, StartRefused, StartFindsRuntime, StartAdmitted, StartPrepare, StartAdmitCA,
         StartInspect, StartBuild, StartPublish, StartAwaitReady, StartCheckDone, StartDeliver,
         StartAdmit, StartApply, StartRecord, StartCommit, StartReport, StartWithdraw,
         StartAbandon, StartFinish
<1>3. start'[s] \in Early => start[s] \in Early /\ active'[s] = active[s]
  BY DEF StartStep, StartRefused, StartFindsRuntime, StartAdmitted, StartPrepare, StartAdmitCA,
         StartInspect, StartBuild, StartPublish, StartAwaitReady, StartCheckDone, StartDeliver,
         StartAdmit, StartApply, StartRecord, StartCommit, StartReport, StartWithdraw,
         StartAbandon, StartFinish
<1>4. start'[s] \in Late /\ active'[s] = s => ready[s]
  BY DEF ProvenInv, OwnershipInv, StartStep, StartRefused, StartFindsRuntime, StartAdmitted,
         StartPrepare, StartAdmitCA, StartInspect, StartBuild, StartPublish, StartAwaitReady,
         StartCheckDone, StartDeliver, StartAdmit, StartApply, StartRecord, StartCommit,
         StartReport, StartWithdraw, StartAbandon, StartFinish
<1>5. result'[s] = "Started" => ready[s]
  BY DEF ProvenInv, OwnershipInv, StartStep, StartRefused, StartFindsRuntime, StartAdmitted,
         StartPrepare, StartAdmitCA, StartInspect, StartBuild, StartPublish, StartAwaitReady,
         StartCheckDone, StartDeliver, StartAdmit, StartApply, StartRecord, StartCommit,
         StartReport, StartWithdraw, StartAbandon, StartFinish, FailureResult
<1>6. active[s] \in Starts => active'[s] = active[s]
  BY NoneIsNoStart DEF ProvenInv, StartStep, StartRefused, StartFindsRuntime, StartAdmitted,
                       StartPrepare, StartAdmitCA, StartInspect, StartBuild, StartPublish,
                       StartAwaitReady, StartCheckDone, StartDeliver, StartAdmit, StartApply,
                       StartRecord, StartCommit, StartReport, StartWithdraw, StartAbandon,
                       StartFinish
<1>7. pac' = pac \/ (start[s] = "apply" /\ pac' = active[s])
  BY DEF StartStep, StartRefused, StartFindsRuntime, StartAdmitted, StartPrepare, StartAdmitCA,
         StartInspect, StartBuild, StartPublish, StartAwaitReady, StartCheckDone, StartDeliver,
         StartAdmit, StartApply, StartRecord, StartCommit, StartReport, StartWithdraw,
         StartAbandon, StartFinish, worldVars
<1>8. ASSUME NEW u \in Starts, pac' = u
      PROVE  ready'[u] \/ \E r \in Starts \ {u} : active'[r] = u
  <2>1. CASE pac' = pac
    BY <1>1, <1>2, <1>6, <1>8, <2>1 DEF ProvenInv, PACEndpointProven
  <2>2. CASE start[s] = "apply" /\ pac' = active[s]
    BY <1>1, <1>6, <1>8, <2>2 DEF ProvenInv
  <2> QED
    BY <1>7, <2>1, <2>2
<1>9. PACEndpointProven'
  BY <1>8 DEF PACEndpointProven
<1> QED
  BY <1>1, <1>2, <1>3, <1>4, <1>5, <1>9 DEF ProvenInv

LEMMA OthersKeepProven ==
  ASSUME LifecycleInv, ProvenInv, [Next]_vars, ~\E s \in Starts : StartStep(s)
  PROVE  ProvenInv'
<1> USE DEF LifecycleInv, TypeOK, startVars
<1>1. UNCHANGED <<start, active, result>>
  BY DEF Next, ServerStep, WatcherStep, StopStep, MutatorStep, ServeListens, ServeProven,
         ServeUnproven, ServeEnds, ServeBreaks, ServeReturns, WatcherReceives, WatcherNotes,
         WatcherDeliver, WatcherAdmit, WatcherApply, WatcherRecord, WatcherEnds, WatcherRequested,
         ListSwitches, CallerGone, OwnerInterrupted, StopCalled, StopBegin, StopDeadline,
         StopCancel, StopAwaitStart, StopLockDelivery, StopCleanup, StopCloseTraffic,
         StopUnpublish, StopDrainCA, MutateAdmit, MutateCheck, MutateLook, MutateWork,
         MutateSchedule, MutateSettle, MutateUnlock, AssessBegin, AssessLook, AssessEnd, Rest,
         vars
<1>2. \A s \in Starts : ready[s] => ready'[s]
  BY DEF Next, ServerStep, WatcherStep, StopStep, MutatorStep, ServeListens, ServeProven,
         ServeUnproven, ServeEnds, ServeBreaks, ServeReturns, WatcherReceives, WatcherNotes,
         WatcherDeliver, WatcherAdmit, WatcherApply, WatcherRecord, WatcherEnds, WatcherRequested,
         ListSwitches, CallerGone, OwnerInterrupted, StopCalled, StopBegin, StopDeadline,
         StopCancel, StopAwaitStart, StopLockDelivery, StopCleanup, StopCloseTraffic,
         StopUnpublish, StopDrainCA, MutateAdmit, MutateCheck, MutateLook, MutateWork,
         MutateSchedule, MutateSettle, MutateUnlock, AssessBegin, AssessLook, AssessEnd, Rest,
         vars, serverVars, runtimeVars
<1>3. pac' \in {pac, None} \/ \E s \in Starts : watcher[s] = "apply" /\ pac' = s
  BY DEF Next, ServerStep, WatcherStep, StopStep, MutatorStep, ServeListens, ServeProven,
         ServeUnproven, ServeEnds, ServeBreaks, ServeReturns, WatcherReceives, WatcherNotes,
         WatcherDeliver, WatcherAdmit, WatcherApply, WatcherRecord, WatcherEnds, WatcherRequested,
         ListSwitches, CallerGone, OwnerInterrupted, StopCalled, StopBegin, StopDeadline,
         StopCancel, StopAwaitStart, StopLockDelivery, StopCleanup, StopCloseTraffic,
         StopUnpublish, StopDrainCA, MutateAdmit, MutateCheck, MutateLook, MutateWork,
         MutateSchedule, MutateSettle, MutateUnlock, AssessBegin, AssessLook, AssessEnd, Rest,
         vars, worldVars
<1>4. \A s \in Starts : watcher[s] = "apply" => ready[s]
  BY DEF OwnershipInv, ProvenInv
<1>5. PACEndpointProven'
  BY <1>1, <1>2, <1>3, <1>4, NoneIsNoStart DEF ProvenInv, PACEndpointProven
<1> QED
  BY <1>1, <1>2, <1>5 DEF ProvenInv

LEMMA ProvenInitially == Init => ProvenInv
  BY NoneIsNoStart DEF Init, ProvenInv, PACEndpointProven

\* Only a runtime that has proved readiness is delivered to System PAC, but for
\* the delivery of a repeated start.
THEOREM EndpointIsProven == Spec => []PACEndpointProven
<1>1. LifecycleInv /\ ProvenInv /\ [Next]_vars => ProvenInv'
  BY StartKeepsProven, OthersKeepProven
<1>2. ProvenInv => PACEndpointProven
  BY DEF ProvenInv
<1> QED
  BY ProvenInitially, InvariantHolds, <1>1, <1>2, PTL DEF Spec

(***************************************************************************)
(* A running runtime keeps serving.                                        *)
(***************************************************************************)
\* Who has given up a runtime does not take it up again.
LEMMA GivenUpForGood ==
  ASSUME TypeOK, [Next]_vars, NEW s \in Starts, GivenUp(s)
  PROVE  GivenUp(s)'
<1> USE DEF TypeOK, GivenUp, startVars
<1>1. ASSUME NEW u \in Starts, StartStep(u)
      PROVE  GivenUp(s)'
  BY <1>1 DEF StartStep, StartRefused, StartFindsRuntime, StartAdmitted, StartPrepare,
              StartAdmitCA, StartInspect, StartBuild, StartPublish, StartAwaitReady,
              StartCheckDone, StartDeliver, StartAdmit, StartApply, StartRecord, StartCommit,
              StartReport, StartWithdraw, StartAbandon, StartFinish, StartAt, StartOutcome
<1>2. CASE UNCHANGED <<start, result>>
  BY <1>2
<1> QED
  BY <1>1, <1>2
     DEF Next, ServerStep, WatcherStep, StopStep, MutatorStep, ServeListens, ServeProven,
         ServeUnproven, ServeEnds, ServeBreaks, ServeReturns, WatcherReceives, WatcherNotes,
         WatcherDeliver, WatcherAdmit, WatcherApply, WatcherRecord, WatcherEnds, WatcherRequested,
         ListSwitches, CallerGone, OwnerInterrupted, StopCalled, StopBegin, StopDeadline,
         StopCancel, StopAwaitStart, StopLockDelivery, StopCleanup, StopCloseTraffic,
         StopUnpublish, StopDrainCA, MutateAdmit, MutateCheck, MutateLook, MutateWork,
         MutateSchedule, MutateSettle, MutateUnlock, AssessBegin, AssessLook, AssessEnd, Rest,
         vars

\* The end of an owner and a fatal serving error are never taken back.
LEMMA EndIsKept ==
  ASSUME TypeOK, [Next]_vars
  PROVE  /\ ownerEnding => ownerEnding'
         /\ interrupted => interrupted'
         /\ fatal => fatal'
  BY DEF Next, StartStep, StartRefused, StartFindsRuntime, StartAdmitted, StartPrepare,
         StartAdmitCA, StartInspect, StartBuild, StartPublish, StartAwaitReady, StartCheckDone,
         StartDeliver, StartAdmit, StartApply, StartRecord, StartCommit, StartReport,
         StartWithdraw, StartAbandon, StartFinish, ServerStep, WatcherStep, StopStep, MutatorStep,
         ServeListens, ServeProven, ServeUnproven, ServeEnds, ServeBreaks, ServeReturns,
         WatcherReceives, WatcherNotes, WatcherDeliver, WatcherAdmit, WatcherApply, WatcherRecord,
         WatcherEnds, WatcherRequested, ListSwitches, CallerGone, OwnerInterrupted, StopCalled,
         StopBegin, StopDeadline, StopCancel, StopAwaitStart, StopLockDelivery, StopCleanup,
         StopCloseTraffic, StopUnpublish, StopDrainCA, MutateAdmit, MutateCheck, MutateLook,
         MutateWork, MutateSchedule, MutateSettle, MutateUnlock, AssessBegin, AssessLook,
         AssessEnd, Rest, vars, ownerVars, worldVars

\* The steps that cancel a run context: the start's own failure, a Stop, the end
\* of a routed caller and that of the owner's supervision.
LEMMA WhoCancels ==
  ASSUME LifecycleInv, [Next]_vars, NEW s \in Starts \ Routed, cancelled'[s]
  PROVE  cancelled[s] \/ GivenUp(s)' \/ ownerEnding' \/ interrupted'
<1> USE DEF LifecycleInv, TypeOK, OwnershipInv, GivenUp
<1>1. ASSUME NEW u \in Starts, StartStep(u)
      PROVE  cancelled[s] \/ GivenUp(s)'
  <2>1. CASE StartAbandon(u)
    BY <2>1 DEF StartAbandon, StartAt
  <2>2. CASE UNCHANGED cancelled
    BY <2>2
  <2> QED
    BY <1>1, <2>1, <2>2
       DEF StartStep, StartRefused, StartFindsRuntime, StartAdmitted, StartPrepare, StartAdmitCA,
           StartInspect, StartBuild, StartPublish, StartAwaitReady, StartCheckDone, StartDeliver,
           StartAdmit, StartApply, StartRecord, StartCommit, StartReport, StartWithdraw,
           StartFinish, serverVars, runtimeVars
<1>2. ASSUME NEW t \in Stops, StopCancel(t) \/ StopCloseTraffic(t)
      PROVE  ownerEnding'
  BY <1>2 DEF StopInv, StopCancel, StopCloseTraffic, ownerVars
<1>3. ASSUME NEW u \in Starts, CallerGone(u)
      PROVE  cancelled[s]
  BY <1>3 DEF CallerGone
<1>4. CASE OwnerInterrupted
  BY <1>4 DEF OwnerInterrupted
<1>5. CASE UNCHANGED cancelled
  BY <1>5
<1> QED
  BY <1>1, <1>2, <1>3, <1>4, <1>5
     DEF Next, ServerStep, WatcherStep, StopStep, MutatorStep, ServeListens, ServeProven,
         ServeUnproven, ServeEnds, ServeBreaks, ServeReturns, WatcherReceives, WatcherNotes,
         WatcherDeliver, WatcherAdmit, WatcherApply, WatcherRecord, WatcherEnds, WatcherRequested,
         ListSwitches, StopCalled, StopBegin, StopDeadline, StopAwaitStart, StopLockDelivery,
         StopCleanup, StopUnpublish, StopDrainCA, MutateAdmit, MutateCheck, MutateLook,
         MutateWork, MutateSchedule, MutateSettle, MutateUnlock, AssessBegin, AssessLook,
         AssessEnd, Rest, vars, serverVars, runtimeVars

\* The steps that close the HTTP servers: the start's own failure, a Stop, and
\* the end of serving, which is a failure unless the context was cancelled.
LEMMA WhoCloses ==
  ASSUME LifecycleInv, ServingInv, [Next]_vars, NEW s \in Starts \ Routed, closed'[s]
  PROVE  closed[s] \/ GivenUp(s)' \/ ownerEnding' \/ interrupted' \/ fatal'
<1> USE DEF LifecycleInv, TypeOK, OwnershipInv, ServingInv, GivenUp
<1>1. ASSUME NEW u \in Starts, StartStep(u)
      PROVE  closed[s] \/ GivenUp(s)' \/ ownerEnding'
  <2>1. CASE StartAbandon(u)
    BY <2>1 DEF StartAbandon, StartAt
  <2>2. CASE StartPublish(u)
    BY <2>2 DEF StartPublish, StartAt, StartOutcome, PublicationAllowed
  <2>3. CASE UNCHANGED closed
    BY <2>3
  <2> QED
    BY <1>1, <2>1, <2>2, <2>3
       DEF StartStep, StartRefused, StartFindsRuntime, StartAdmitted, StartPrepare, StartAdmitCA,
           StartInspect, StartBuild, StartAwaitReady, StartCheckDone, StartDeliver, StartAdmit,
           StartApply, StartRecord, StartCommit, StartReport, StartWithdraw, StartFinish,
           serverVars, runtimeVars
<1>2. ASSUME NEW t \in Stops, StopCloseTraffic(t)
      PROVE  ownerEnding'
  BY <1>2 DEF StopInv, StopCloseTraffic, ownerVars
<1>3. ASSUME NEW u \in Starts, ServerStep(u)
      PROVE  closed[s] \/ GivenUp(s)' \/ ownerEnding' \/ interrupted' \/ fatal'
  <2>1. CASE ServeEnds(u)
    BY <2>1 DEF ServeEnds, ServeReturns, ownerVars, startVars
  <2> QED
    BY <1>3, <2>1 DEF ServerStep, ServeListens, ServeProven, ServeUnproven, ServeBreaks
<1>4. CASE UNCHANGED closed
  BY <1>4
<1> QED
  BY <1>1, <1>2, <1>3, <1>4
     DEF Next, WatcherStep, StopStep, MutatorStep, WatcherReceives, WatcherNotes, WatcherDeliver,
         WatcherAdmit, WatcherApply, WatcherRecord, WatcherEnds, WatcherRequested, ListSwitches,
         CallerGone, OwnerInterrupted, StopCalled, StopBegin, StopDeadline, StopCancel,
         StopAwaitStart, StopLockDelivery, StopCleanup, StopUnpublish, StopDrainCA, MutateAdmit,
         MutateCheck, MutateLook, MutateWork, MutateSchedule, MutateSettle, MutateUnlock,
         AssessBegin, AssessLook, AssessEnd, Rest, vars, serverVars, runtimeVars

\* What no step of an unrouted start's owner undoes.
LEMMA ServingPreserved == LifecycleInv /\ ServingInv /\ [Next]_vars => ServingInv'
<1> SUFFICES ASSUME LifecycleInv, ServingInv, [Next]_vars, NEW s \in Starts \ Routed
             PROVE  /\ cancelled'[s] /\ ~ownerEnding' /\ ~interrupted' => GivenUp(s)'
                    /\ closed'[s] /\ ~ownerEnding' /\ ~interrupted'
                         => GivenUp(s)' \/ fatal'
  BY DEF ServingInv
<1>1. GivenUp(s) => GivenUp(s)'
  BY GivenUpForGood DEF LifecycleInv
<1>2. /\ ownerEnding => ownerEnding'
      /\ interrupted => interrupted'
      /\ fatal => fatal'
  BY EndIsKept DEF LifecycleInv
<1> QED
  BY <1>1, <1>2, WhoCancels, WhoCloses DEF ServingInv

\* A runtime whose start came from its own process serves until a Stop begins,
\* its serving fails or the owner's supervision ends, whatever the routed starts
\* beside it do.
THEOREM HostedRuntimeServes == Spec => [](\A s \in Starts \ Routed : RuntimeServes(s))
<1>1. Init => ServingInv
  BY DEF Init, ServingInv
<1>2. LifecycleInv /\ ProvenInv /\ ServingInv => \A s \in Starts \ Routed : RuntimeServes(s)
  BY DEF LifecycleInv, TypeOK, SocketInv, OwnershipInv, ProvenInv, ServingInv, GivenUp,
         RuntimeServes
<1>3. LifecycleInv /\ ProvenInv /\ [Next]_vars => ProvenInv'
  BY StartKeepsProven, OthersKeepProven
<1> QED
  BY <1>1, <1>2, <1>3, InvariantHolds, ProvenInitially, ServingPreserved, PTL DEF Spec

\* Where no start is routed, no running runtime stops serving for any other reason.  (A
\* routed one does: the run lifecycle_routed shows it.)
THEOREM ServingContinuity ==
  ASSUME Routed = {}
  PROVE  Spec => []RunningRuntimeServes
<1>1. (\A s \in Starts \ Routed : RuntimeServes(s)) => RunningRuntimeServes
  BY DEF RunningRuntimeServes
<1> QED
  BY <1>1, HostedRuntimeServes, PTL
=============================================================================
