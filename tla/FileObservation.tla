--------------------------- MODULE FileObservation ---------------------------
(***************************************************************************)
(* The continuous observation of one file                                  *)
(* (src/internal/lib/fileobservation): a watcher of the file's directory   *)
(* that may fail or lose its directory, a debounce timer, and a rendezvous *)
(* with a consumer that may be slow or gone.                               *)
(*                                                                         *)
(* A step is one branch of the select of observe, one system call that     *)
(* others can overtake, or one rendezvous.  Events of other files change   *)
(* nothing and are left out; several events of one kind that wait to be    *)
(* received do what one does, so `pending` is a set.                       *)
(*                                                                         *)
(* A definition whose name has a suffix is the definition before the       *)
(* underscore with one plausible mistake, kept to show that a property     *)
(* notices the mistake.                                                    *)
(***************************************************************************)
EXTENDS Naturals

CONSTANTS
  Contents,   \* what may be written in the file
  Missing,    \* no file, or one that nobody may read
  Irregular,  \* a directory or a link in its place
  ReadError, StoppedError, \* the outcomes other than contents
  Nothing,    \* no outcome yet
  MaxChanges, \* bounds what happens to the file and its directory
  MaxFailures \* bounds how often a watcher fails

ASSUME OutcomesDiffer ==
  /\ Contents \cap {Missing, Irregular, ReadError, StoppedError, Nothing} = {}
  /\ ReadError # StoppedError /\ Nothing \notin {ReadError, StoppedError}
  /\ {Missing, Irregular} \cap {ReadError, StoppedError, Nothing} = {}
  /\ MaxChanges \in Nat /\ MaxFailures \in Nat

VARIABLES
  file,      \* what is at the path
  present,   \* is the directory at its path?
  hearing,   \* does the watcher hear of changes?
  pending,   \* what waits in the channels of the watcher
  armed,     \* does the debounce timer run?
  pc,        \* where observe is
  found,     \* the outcome it has in hand
  known,     \* the last outcome that the consumer received
  listening, \* does the consumer still receive?
  stop,      \* has Close been called?
  changes, failures

environment == <<file, present, changes, failures>>
consumer == <<listening, stop>>
vars == <<environment, hearing, pending, armed, pc, found, known, consumer>>

Files == Contents \cup {Missing, Irregular}
Outcomes == Contents \cup {ReadError, StoppedError, Nothing}
Signals == {"change", "overflow", "lost", "failed"}

TypeOK ==
  /\ file \in Files
  /\ present \in BOOLEAN /\ hearing \in BOOLEAN /\ armed \in BOOLEAN
  /\ pending \subseteq Signals
  /\ pc \in {"open", "look", "read", "publish", "select", "ended"}
  /\ found \in Outcomes /\ known \in Outcomes
  /\ listening \in BOOLEAN /\ stop \in BOOLEAN
  /\ changes \in 0 .. MaxChanges /\ failures \in 0 .. MaxFailures

Init ==
  /\ file \in Files
  /\ present \in BOOLEAN
  /\ ~present => file = Missing
  /\ hearing = FALSE /\ pending = {} /\ armed = FALSE
  /\ pc = "open"
  /\ found = Nothing /\ known = Nothing
  /\ listening = TRUE /\ stop = FALSE
  /\ changes = 0 /\ failures = 0

(***************************************************************************)
(* observe.                                                                *)
(***************************************************************************)
OpenWatcher_unread ==
  /\ pc = "open"
  /\ present
  /\ hearing' = TRUE
  /\ pending' = {}
  /\ pc' = IF known = Nothing THEN "look" ELSE "select"
  /\ UNCHANGED <<environment, armed, found, known, consumer>>
\* A watcher, the first or the next; what the last one had to say is dropped.
OpenWatcher ==
  /\ pc = "open"
  /\ present
  /\ hearing' = TRUE
  /\ pending' = {}
  /\ pc' = "look"
  /\ UNCHANGED <<environment, armed, found, known, consumer>>

\* No directory, or no watcher for it.
OpenFails ==
  /\ pc = "open"
  /\ found' = StoppedError
  /\ pc' = "publish"
  /\ UNCHANGED <<environment, hearing, pending, armed, known, consumer>>

LookResult == IF file \in Contents THEN found ELSE ReadError

\* Lstat: is there an ordinary file?
Look ==
  /\ pc = "look"
  /\ found' = LookResult
  /\ pc' = IF file \in Contents THEN "read" ELSE "publish"
  /\ UNCHANGED <<environment, hearing, pending, armed, known, consumer>>

\* ReadFile, of what is there by now; a link leads anywhere.
Read ==
  /\ pc = "read"
  /\ found' \in CASE file \in Contents -> {file}
                  [] file = Missing -> {ReadError}
                  [] OTHER -> Contents \cup {ReadError}
  /\ pc' = "publish"
  /\ UNCHANGED <<environment, hearing, pending, armed, known, consumer>>

\* The consumer receives the outcome.
Publish ==
  /\ pc = "publish"
  /\ listening
  /\ known' = found
  /\ pc' = IF found = StoppedError THEN "ended" ELSE "select"
  /\ UNCHANGED <<environment, hearing, pending, armed, found, consumer>>

Interruptible_selectOnly == {"select"}
Interruptible == {"select", "publish"}
\* Close interrupts a publication and the select.
StopSeen ==
  /\ pc \in Interruptible
  /\ stop
  /\ pc' = "ended"
  /\ UNCHANGED <<environment, hearing, pending, armed, found, known, consumer>>

TimerFires ==
  /\ pc = "select"
  /\ armed
  /\ armed' = FALSE
  /\ pc' = "look"
  /\ UNCHANGED <<environment, hearing, pending, found, known, consumer>>

Uncertain_unarmed == armed
Uncertain == TRUE
\* A change of the file, or an overflow that may have swallowed one.
ChangeSeen ==
  /\ pc = "select"
  /\ \/ "change" \in pending /\ pending' = pending \ {"change"} /\ armed' = TRUE
     \/ "overflow" \in pending /\ pending' = pending \ {"overflow"} /\ armed' = Uncertain
  /\ UNCHANGED <<environment, hearing, pc, found, known, consumer>>

\* The watcher has failed, or its directory is gone: a new one, and a new read.
WatcherLost ==
  /\ pc = "select"
  /\ pending \cap {"lost", "failed"} # {}
  /\ armed' = FALSE
  /\ pc' = "open"
  /\ UNCHANGED <<environment, hearing, pending, found, known, consumer>>

Observe ==
  \/ OpenWatcher \/ OpenFails \/ Look \/ Read \/ Publish \/ StopSeen
  \/ TimerFires \/ ChangeSeen \/ WatcherLost

(***************************************************************************)
(* The file, its directory and the watcher.                                *)
(***************************************************************************)
Changes == changes < MaxChanges /\ changes' = changes + 1
Hears(signals) == pending' \in IF hearing THEN {pending \cup {s} : s \in signals} ELSE {pending}

FileChanges ==
  /\ Changes
  /\ present
  /\ file' \in Files \ {file}
  /\ Hears({"change", "overflow"})
  /\ UNCHANGED <<present, failures, hearing, armed, pc, found, known, consumer>>

\* The directory is removed or renamed.
DirectoryGoes ==
  /\ Changes
  /\ present
  /\ present' = FALSE
  /\ file' = Missing
  /\ Hears({"lost"})
  /\ hearing' = FALSE
  /\ UNCHANGED <<failures, armed, pc, found, known, consumer>>

\* Another one takes its place, which no watcher hears yet.
DirectoryComes ==
  /\ Changes
  /\ ~present
  /\ present' = TRUE
  /\ file' \in Files
  /\ UNCHANGED <<failures, hearing, pending, armed, pc, found, known, consumer>>

\* An error, or a channel that is closed.
WatcherFails ==
  /\ failures < MaxFailures
  /\ failures' = failures + 1
  /\ hearing
  /\ hearing' = FALSE
  /\ pending' = pending \cup {"failed"}
  /\ UNCHANGED <<file, present, changes, armed, pc, found, known, consumer>>

(***************************************************************************)
(* The consumer, CloseTraffic and the system.                              *)
(***************************************************************************)
ConsumerLeaves ==
  /\ listening
  /\ known # Nothing
  /\ listening' = FALSE
  /\ UNCHANGED <<environment, hearing, pending, armed, pc, found, known, stop>>

Close ==
  /\ ~stop
  /\ known # Nothing
  /\ stop' = TRUE
  /\ UNCHANGED <<environment, hearing, pending, armed, pc, found, known, listening>>

Next ==
  \/ Observe
  \/ FileChanges \/ DirectoryGoes \/ DirectoryComes \/ WatcherFails
  \/ ConsumerLeaves \/ Close

Spec == Init /\ [][Next]_vars

\* The observer runs on.  Nothing has to happen to the file, and nobody has to
\* leave or to close; but a consumer that has not left receives what is published.
FairSpec == Spec /\ WF_vars(Observe)

(***************************************************************************)
(* Properties.                                                             *)
(***************************************************************************)
\* What a reader of the file would find, if it stayed as it is.
Reading == IF file \in Contents THEN file ELSE ReadError

\* An observer that waits has published what is in the file, or something that
\* will make it read again is under way: no change is swallowed by a debounce, a
\* slow consumer, an overflow or a new watcher (observe, recoverObservation).
NeverSilentlyStale ==
  pc = "select" => known = Reading \/ armed \/ pending # {}

\* The inductive invariant: how a change makes its way to the consumer.
ObservationInv ==
  /\ TypeOK
  /\ hearing => present
  /\ armed => pc \in {"select", "ended"}
  /\ pc = "select" => known = found
  /\ pc \in {"look", "read", "publish", "select"} /\ found # StoppedError /\ ~hearing =>
       pending \cap {"lost", "failed"} # {}
  /\ pc = "read" => file \in Contents \/ pending # {}
  /\ pc = "publish" => found \in {Reading, StoppedError} \/ pending # {}
  /\ pc \in {"open", "look", "read", "select"} => found # StoppedError
  /\ NeverSilentlyStale

\* Once the file stays as it is, the consumer comes to know it, unless it has
\* left, the observation was closed, or it stopped with an outcome that says so.
Settles ==
  <>[](known \in {Reading, StoppedError} \/ stop \/ ~listening)

\* Close returns, whatever the observer is doing and whoever has stopped receiving
\* (Close waits for done).
CloseReturns == stop ~> pc = "ended"
=============================================================================
