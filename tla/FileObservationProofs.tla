------------------------ MODULE FileObservationProofs ------------------------
(***************************************************************************)
(* No change of the file is swallowed, for any contents and any number of  *)
(* changes and failures.                                                   *)
(***************************************************************************)
EXTENDS FileObservation, TLAPS

\* Every step keeps every variable in its type.
LEMMA TypeStep ==
  ASSUME TypeOK, Next
  PROVE  TypeOK'
<1> USE DEF TypeOK, Files, Outcomes, Signals, environment, consumer
<1>1. CASE OpenWatcher
  BY <1>1 DEF OpenWatcher
<1>2. CASE OpenFails
  BY <1>2 DEF OpenFails
<1>3. CASE Look
  BY <1>3 DEF Look, LookResult
<1>4. CASE Read
  BY <1>4 DEF Read
<1>5. CASE Publish
  BY <1>5 DEF Publish
<1>6. CASE StopSeen
  BY <1>6 DEF StopSeen, Interruptible
<1>7. CASE TimerFires
  BY <1>7 DEF TimerFires
<1>8. CASE ChangeSeen
  BY <1>8 DEF ChangeSeen, Uncertain
<1>9. CASE WatcherLost
  BY <1>9 DEF WatcherLost
<1>10. CASE FileChanges
  <2>1. changes' \in 0 .. MaxChanges
    BY OutcomesDiffer, <1>10 DEF FileChanges, Changes
  <2>2. pending' \subseteq Signals
    BY <1>10 DEF FileChanges, Hears
  <2> QED
    BY <1>10, <2>1, <2>2 DEF FileChanges
<1>11. CASE DirectoryGoes
  <2>1. changes' \in 0 .. MaxChanges
    BY OutcomesDiffer, <1>11 DEF DirectoryGoes, Changes
  <2>2. pending' \subseteq Signals
    BY <1>11 DEF DirectoryGoes, Hears
  <2> QED
    BY <1>11, <2>1, <2>2 DEF DirectoryGoes
<1>12. CASE DirectoryComes
  BY <1>12, OutcomesDiffer DEF DirectoryComes, Changes
<1>13. CASE WatcherFails
  <2>1. failures' \in 0 .. MaxFailures
    BY OutcomesDiffer, <1>13 DEF WatcherFails
  <2>2. pending' \subseteq Signals
    BY <1>13 DEF WatcherFails
  <2> QED
    BY <1>13, <2>1, <2>2 DEF WatcherFails
<1>14. CASE ConsumerLeaves
  BY <1>14 DEF ConsumerLeaves
<1>15. CASE Close
  BY <1>15 DEF Close
<1> QED
  BY <1>1, <1>2, <1>3, <1>4, <1>5, <1>6, <1>7, <1>8,
     <1>9, <1>10, <1>11, <1>12, <1>13, <1>14, <1>15 DEF Next, Observe

\* Every step keeps what is on its way to the consumer on its way: an outcome in
\* hand that is overtaken by a change leaves a signal, a signal arms the timer or
\* leads to a new watcher, and both lead to a new reading.
LEMMA InvariantStep ==
  ASSUME ObservationInv, [Next]_vars
  PROVE  ObservationInv'
<1> USE DEF ObservationInv, NeverSilentlyStale, Reading, TypeOK, Files, Outcomes, Signals,
            environment, consumer
<1>0. TypeOK'
  BY TypeStep DEF vars
<1>1. CASE OpenWatcher
  BY <1>0, <1>1 DEF OpenWatcher
<1>2. CASE OpenFails
  BY <1>0, <1>2 DEF OpenFails
<1>3. CASE Look
  BY <1>0, <1>3 DEF Look, LookResult
<1>4. CASE Read
  BY <1>0, <1>4, OutcomesDiffer DEF Read
<1>5. CASE Publish
  BY <1>0, <1>5 DEF Publish
<1>6. CASE StopSeen
  BY <1>0, <1>6 DEF StopSeen, Interruptible
<1>7. CASE TimerFires
  BY <1>0, <1>7 DEF TimerFires
<1>8. CASE ChangeSeen
  BY <1>0, <1>8 DEF ChangeSeen, Uncertain
<1>9. CASE WatcherLost
  BY <1>0, <1>9 DEF WatcherLost
<1>10. CASE FileChanges
  BY <1>0, <1>10 DEF FileChanges, Changes, Hears
<1>11. CASE DirectoryGoes
  BY <1>0, <1>11 DEF DirectoryGoes, Changes, Hears
<1>12. CASE DirectoryComes
  BY <1>0, <1>12 DEF DirectoryComes, Changes
<1>13. CASE WatcherFails
  BY <1>0, <1>13 DEF WatcherFails
<1>14. CASE ConsumerLeaves
  BY <1>0, <1>14 DEF ConsumerLeaves
<1>15. CASE Close
  BY <1>0, <1>15 DEF Close
<1>16. CASE UNCHANGED vars
  BY <1>16 DEF vars
<1> QED
  BY <1>1, <1>2, <1>3, <1>4, <1>5, <1>6, <1>7, <1>8,
     <1>9, <1>10, <1>11, <1>12, <1>13, <1>14, <1>15, <1>16 DEF Next, Observe

\* The invariant holds in every reachable state (observe, recoverObservation).
THEOREM InvariantHolds == Spec => []ObservationInv
<1>1. Init => ObservationInv
  <2> SUFFICES ASSUME Init PROVE ObservationInv
    OBVIOUS
  <2>1. TypeOK
    BY OutcomesDiffer, 0 \in 0 .. MaxChanges, 0 \in 0 .. MaxFailures
       DEF Init, TypeOK, Files, Outcomes, Signals
  <2> QED
    BY <2>1, OutcomesDiffer DEF Init, ObservationInv, NeverSilentlyStale
<1> QED
  BY <1>1, InvariantStep, PTL DEF Spec

\* Every variable keeps its type.
THEOREM TypeCorrect == Spec => []TypeOK
<1>1. ObservationInv => TypeOK
  BY DEF ObservationInv
<1> QED
  BY <1>1, InvariantHolds, PTL

\* An observer that waits has published what is in the file, or will read again:
\* neither the debounce timer, nor a slow consumer, nor an overflow, nor the change
\* from one watcher to the next swallows a change (observe, recoverObservation).
THEOREM NoChangeIsSwallowed == Spec => []NeverSilentlyStale
<1>1. ObservationInv => NeverSilentlyStale
  BY DEF ObservationInv
<1> QED
  BY <1>1, InvariantHolds, PTL
=============================================================================
