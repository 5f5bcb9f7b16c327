--------------------------- MODULE RuntimeSignaling ---------------------------
(***************************************************************************)
(* The goroutines of one running Gateway Runtime: the watchers of its      *)
(* Upstream Lists and the runtime watcher (src/internal/gateway/traffic.go *)
(* and lifecycle.go), the UserCA assessments and the UserCA deadline, and  *)
(* the CA commands that act on it.  They share lifecycle.mu (fMu here),    *)
(* trafficRuntime.mu (rMu) and caAdmissionMu (caMu), and two unbuffered    *)
(* channels to the runtime watcher.                                        *)
(*                                                                         *)
(* A step is one critical section, one rendezvous on a channel, or one     *)
(* call into another module; a lock is a variable only as far as it is     *)
(* held from one step to another.  The runtime runs throughout: its start  *)
(* and its stop are in Lifecycle, and its context is never done here.  So  *)
(* the critical sections of lifecycle.mu that only compare the runtime, or *)
(* keep facts for status, change nothing here and are left out.            *)
(*                                                                         *)
(* A definition whose name has a suffix, such as Publish_dropping, is the  *)
(* definition before the underscore with one plausible mistake, kept to    *)
(* show that a property notices the mistake.                               *)
(***************************************************************************)
CONSTANTS
  Lists,       \* the Upstream Lists that are watched
  Contents,    \* what a list may select, each a set of selectors
  SemanticsOf, \* what selectors make of the Generated PAC and the kinds of routes,
               \* with and without a UserCA to intercept HTTPS with
  FacadesOf,   \* and of the facade mappings (TrafficProjection derives all of them)
  Installs,    \* Install calls
  Uninstalls,  \* Uninstall calls
  Assessors,   \* goroutines for assessments (bounds how many overlap)
  Watcher,     \* watchRuntimeChanges
  Deadline,    \* handleUserCADeadline (one at a time)
  CAs,         \* the UserCAs there can ever be
  None         \* no UserCA, lock not held

Mutators == Installs \cup Uninstalls
Assessing == Assessors \cup {Deadline}
Procs == Lists \cup Mutators \cup Assessing \cup {Watcher}

ASSUME ProcsDiffer ==
  /\ Lists \cap (Mutators \cup Assessing \cup {Watcher}) = {}
  /\ Mutators \cap (Assessing \cup {Watcher}) = {}
  /\ Installs \cap Uninstalls = {}
  /\ Deadline \notin Assessors \cup {Watcher}
  /\ Watcher \notin Assessors
  /\ None \notin Procs \cup CAs

VARIABLES
  projection,  \* the projection of each list
  userCA,      \* the UserCA the runtime retains, if usable
  served,      \* the Served Traffic Projection
  undelivered, \* it has switched since the last delivery began
  installed,   \* the UserCA installed on this system
  expired,     \* the UserCAs whose expiry has passed
  timer,       \* the UserCA the deadline timer is set for, or None
  fresh,       \* the revision the timer carries is current
  firedFresh,  \* the revision the deadline goroutine carries is current
  found,       \* the usable UserCA found by the goroutine that holds caMu
  pending,     \* assessmentPending
  wanted,      \* the mutator took over a pending assessment
  fMu, rMu, caMu,
  pc           \* where each goroutine is

caVars == <<installed, expired, found, pending, wanted>>
timerVars == <<timer, fresh, firedFresh>>
vars == <<projection, userCA, served, undelivered, caVars, timerVars,
          fMu, rMu, caMu, pc>>

CAOrNone == CAs \cup {None}

ListSteps == {"select", "send", "askContext", "ask"}
WatcherSteps == {"select", "deliver", "record", "request", "setPending"}
AssessSteps == {"idle", "try", "setPending", "expire", "sendExpired", "inspect", "adopt",
                "send", "adopted", "snapshot", "finish", "pending", "request"}
MutatorSteps == {"idle", "admit", "consent", "withdraw", "sendWithdrawn", "withdrawn", "work",
                 "adopt", "send", "adopted", "snapshot", "settle", "unlock", "request",
                 "setPending", "done"}

\* selectorFacts, and the projection the runtime derives from its facts: what it
\* routes, the UserCA that it intercepts HTTPS with, and where facades forward.
Projected(lists, ca) ==
  LET upstreams == UNION {lists[l] : l \in Lists}
      trustedHTTPS == ca # None /\ upstreams # {}
  IN  [semantics |-> SemanticsOf[upstreams, trustedHTTPS],
       identity |-> IF trustedHTTPS THEN ca ELSE None,
       facades |-> FacadesOf[upstreams, trustedHTTPS]]

Selections == {UNION {lists[l] : l \in Lists} : lists \in [Lists -> Contents]}
Projections ==
  [semantics : {SemanticsOf[x] : x \in Selections \X BOOLEAN}, identity : CAOrNone,
   facades : {FacadesOf[x] : x \in Selections \X BOOLEAN}]

FlagsOK ==
  /\ undelivered \in BOOLEAN
  /\ fresh \in BOOLEAN
  /\ firedFresh \in BOOLEAN
  /\ pending \in BOOLEAN
  /\ wanted \in BOOLEAN

TypeOK ==
  /\ FlagsOK
  /\ projection \in [Lists -> Contents]
  /\ userCA \in CAOrNone
  /\ served \in Projections
  /\ installed \in CAOrNone
  /\ expired \subseteq CAs
  /\ timer \in CAOrNone
  /\ found \in CAOrNone
  /\ fMu \in Assessing \cup Mutators \cup {None}
  /\ rMu \in Procs \cup {None}
  /\ caMu \in Assessing \cup Mutators \cup {None}
  /\ pc \in [Procs -> ListSteps \cup WatcherSteps \cup AssessSteps \cup MutatorSteps]
  /\ \A l \in Lists : pc[l] \in ListSteps
  /\ pc[Watcher] \in WatcherSteps
  /\ \A a \in Assessing : pc[a] \in AssessSteps
  /\ \A m \in Mutators : pc[m] \in MutatorSteps

\* A runtime just committed: it retains what the Start Sequence inspected, and
\* its deadline timer runs.
Init ==
  /\ projection \in [Lists -> Contents]
  /\ installed \in CAOrNone
  /\ userCA = installed
  /\ served = Projected(projection, userCA)
  /\ undelivered = FALSE
  /\ expired = {}
  /\ timer = userCA
  /\ fresh = (userCA # None)
  /\ firedFresh = FALSE
  /\ found = None
  /\ pending = FALSE
  /\ wanted = FALSE
  /\ fMu = None
  /\ rMu = None
  /\ caMu = None
  /\ pc = [p \in Procs |-> IF p \in Lists \cup {Watcher} THEN "select" ELSE "idle"]

Goto(p, step) == pc' = [pc EXCEPT ![p] = step]

(***************************************************************************)
(* Switching the projection and publishing a delivery request, both under  *)
(* trafficRuntime.mu.                                                      *)
(***************************************************************************)
\* trafficProjectionSemantics.equivalent, which is not given the facades.
Equivalent(a, b) == a.semantics = b.semantics /\ a.identity = b.identity

Switch_identityOnly(lists, ca) == served.identity # Projected(lists, ca).identity
\* switchTrafficProjectionLocked: is there something to switch to?
Switch(lists, ca) == ~Equivalent(served, Projected(lists, ca))

\* Goroutine p holds rMu, switches to the given facts, and goes on to sending
\* if the projection changed, else to quiet.
SwitchTo(p, lists, ca, sending, quiet) ==
  /\ rMu = None
  /\ projection' = lists
  /\ userCA' = ca
  /\ \/ /\ Switch(lists, ca)
        /\ served' = Projected(lists, ca)
        /\ undelivered' = TRUE
        /\ rMu' = p
        /\ Goto(p, sending)
     \/ /\ ~Switch(lists, ca)
        /\ Goto(p, quiet)
        /\ UNCHANGED <<served, undelivered, rMu>>

NewRevision_ignored == UNCHANGED timerVars
\* userCARevision++: what timers carry is no longer current.
NewRevision ==
  /\ fresh' = FALSE
  /\ firedFresh' = FALSE
  /\ UNCHANGED timer

Publish_dropping(p, next) ==
  /\ rMu = p
  /\ rMu' = None
  /\ pc' = IF pc[Watcher] = "select" THEN [pc EXCEPT ![Watcher] = "deliver", ![p] = next]
                                     ELSE [pc EXCEPT ![p] = next]
\* publishDeliveryRequestLocked: wait, still holding rMu, until the runtime
\* watcher receives.
Publish(p, next) ==
  /\ rMu = p
  /\ pc[Watcher] = "select"
  /\ rMu' = None
  /\ pc' = [pc EXCEPT ![Watcher] = "deliver", ![p] = next]

(***************************************************************************)
(* watchUpstreamList: one goroutine per list.                              *)
(***************************************************************************)
\* Adopted contents call for a new assessment unless the UserCA is usable.
AfterSwitch == IF userCA = None THEN "askContext" ELSE "select"

\* applyUpstreamListSourceOutcomeContext, of whatever the file says by now.
ListApplies(l) ==
  /\ pc[l] = "select"
  /\ \E contents \in Contents :
       SwitchTo(l, [projection EXCEPT ![l] = contents], userCA, "send", AfterSwitch)
  /\ UNCHANGED <<caVars, timerVars, fMu, caMu>>

\* A file that cannot be read keeps its projection; only status tells.
ListUnreadable(l) ==
  /\ pc[l] = "select"
  /\ rMu = None
  /\ UNCHANGED vars

ListPublishes(l) ==
  /\ pc[l] = "send"
  /\ Publish(l, AfterSwitch)
  /\ UNCHANGED <<projection, userCA, served, undelivered, caVars, timerVars, fMu, caMu>>

\* publishUserCAAssessmentRequest reads signalCtx under rMu, then sends.
ListReadsContext(l) ==
  /\ pc[l] = "askContext"
  /\ rMu = None
  /\ Goto(l, "ask")
  /\ UNCHANGED <<projection, userCA, served, undelivered, caVars, timerVars,
                 fMu, rMu, caMu>>

ListAsks(l) ==
  /\ pc[l] = "ask"
  /\ pc[Watcher] = "select"
  /\ pc' = [pc EXCEPT ![Watcher] = "request", ![l] = "select"]
  /\ UNCHANGED <<projection, userCA, served, undelivered, caVars, timerVars,
                 fMu, rMu, caMu>>

(***************************************************************************)
(* watchRuntimeChanges.                                                    *)
(***************************************************************************)
\* deliverSystemPAC: the admission, in a critical section of fMu, and the call
\* into System PAC that follows it ...
WatcherDelivers ==
  /\ pc[Watcher] = "deliver"
  /\ fMu = None
  /\ undelivered' = FALSE
  /\ Goto(Watcher, "record")
  /\ UNCHANGED <<projection, userCA, served, caVars, timerVars, fMu, rMu, caMu>>

\* ... and the record, in another one.
WatcherRecords ==
  /\ pc[Watcher] = "record"
  /\ fMu = None
  /\ Goto(Watcher, "select")
  /\ UNCHANGED <<projection, userCA, served, undelivered, caVars, timerVars,
                 fMu, rMu, caMu>>

(***************************************************************************)
(* requestUserCAAssessment, by whoever is at "request" or "setPending".    *)
(***************************************************************************)
\* Where goroutine p goes when it is through with its request.
Through(p) ==
  IF p = Watcher THEN "select" ELSE IF p \in Mutators THEN "done" ELSE "idle"

AdmissionFree_always == TRUE
AdmissionFree == caMu = None

\* TryLock and start an assessing goroutine ...
Request(p) ==
  /\ pc[p] = "request"
  /\ AdmissionFree
  /\ \E a \in Assessors :
       /\ pc[a] = "idle" \/ a = p
       /\ caMu' = a
       /\ pc' = [[pc EXCEPT ![p] = Through(p)] EXCEPT ![a] = "inspect"]
  /\ UNCHANGED <<projection, userCA, served, undelivered, caVars, timerVars, fMu, rMu>>

\* ... or find caAdmissionMu taken ...
RequestBusy(p) ==
  /\ pc[p] = "request"
  /\ ~AdmissionFree
  /\ Goto(p, "setPending")
  /\ UNCHANGED <<projection, userCA, served, undelivered, caVars, timerVars,
                 fMu, rMu, caMu>>

\* ... and leave a note for the one who has it.
SetPending(p) ==
  /\ pc[p] = "setPending"
  /\ fMu = None
  /\ pending' = TRUE
  /\ Goto(p, Through(p))
  /\ UNCHANGED <<projection, userCA, served, undelivered, installed, expired, found, wanted,
                 timerVars, fMu, rMu, caMu>>

(***************************************************************************)
(* assessUserCA and finishUserCAAssessment, holding caAdmissionMu.         *)
(***************************************************************************)
\* UserCA.Inspect finds the installed UserCA usable, or not, or fails.
AssessInspects(a) ==
  /\ pc[a] = "inspect"
  /\ found' \in {IF installed \in expired THEN None ELSE installed, None}
  /\ Goto(a, "adopt")
  /\ UNCHANGED <<projection, userCA, served, undelivered, installed, expired, pending, wanted,
                 timerVars, fMu, rMu, caMu>>

\* AdoptUserCA, by an assessment or by a CA command.
Adopt(p, ca, sending, quiet) ==
  /\ SwitchTo(p, projection, ca, sending, quiet)
  /\ NewRevision
  /\ UNCHANGED <<caVars, fMu, caMu>>

AssessAdopts(a) == pc[a] = "adopt" /\ Adopt(a, found, "send", "adopted")

AssessPublishes(a) ==
  /\ \/ pc[a] = "send" /\ Publish(a, "adopted")
     \/ pc[a] = "sendExpired" /\ Publish(a, "inspect")
  /\ UNCHANGED <<projection, userCA, served, undelivered, caVars, timerVars, fMu, caMu>>

\* Nothing usable: cancelUserCADeadline.
AssessCancels(a) ==
  /\ pc[a] = "adopted"
  /\ found = None
  /\ fMu = None
  /\ timer' = None
  /\ fresh' = FALSE
  /\ Goto(a, "finish")
  /\ UNCHANGED <<projection, userCA, served, undelivered, caVars, firedFresh, fMu, rMu, caMu>>

\* scheduleUserCADeadline locks fMu and then reads the revision under rMu.
ScheduleBegins(p) ==
  /\ pc[p] = "adopted"
  /\ found # None
  /\ fMu = None
  /\ fMu' = p
  /\ Goto(p, "snapshot")
  /\ UNCHANGED <<projection, userCA, served, undelivered, caVars, timerVars, rMu, caMu>>

\* The timer takes the revision that the runtime has then.
ScheduleEnds(p) ==
  /\ pc[p] = "snapshot"
  /\ rMu = None
  /\ timer' = found
  /\ fresh' = TRUE
  /\ fMu' = None
  /\ Goto(p, IF p \in Mutators THEN "settle" ELSE "finish")
  /\ UNCHANGED <<projection, userCA, served, undelivered, caVars, firedFresh, rMu, caMu>>

AssessFinishes(a) ==
  /\ pc[a] = "finish"
  /\ caMu' = None
  /\ found' = None
  /\ Goto(a, "pending")
  /\ UNCHANGED <<projection, userCA, served, undelivered, installed, expired, pending, wanted,
                 timerVars, fMu, rMu>>

\* Take over the note that another request may have left.
AssessTakesPending(a) ==
  /\ pc[a] = "pending"
  /\ fMu = None
  /\ pending' = FALSE
  /\ Goto(a, IF pending THEN "request" ELSE "idle")
  /\ UNCHANGED <<projection, userCA, served, undelivered, installed, expired, found, wanted,
                 timerVars, fMu, rMu, caMu>>

(***************************************************************************)
(* handleUserCADeadline.                                                   *)
(***************************************************************************)
DeadlineFires ==
  /\ pc[Deadline] = "idle"
  /\ timer \in expired
  /\ timer' = None
  /\ fresh' = FALSE
  /\ firedFresh' = fresh
  /\ Goto(Deadline, "try")
  /\ UNCHANGED <<projection, userCA, served, undelivered, caVars, fMu, rMu, caMu>>

DeadlineTries ==
  /\ pc[Deadline] = "try"
  /\ \/ caMu # None /\ Goto(Deadline, "setPending") /\ UNCHANGED caMu
     \/ caMu = None /\ Goto(Deadline, "expire") /\ caMu' = Deadline
  /\ UNCHANGED <<projection, userCA, served, undelivered, caVars, timerVars, fMu, rMu>>

\* ExpireUserCA withdraws the UserCA only at the revision the timer was set for.
DeadlineExpires ==
  /\ pc[Deadline] = "expire"
  /\ \/ /\ firedFresh /\ userCA # None
        /\ Adopt(Deadline, None, "sendExpired", "inspect")
     \/ /\ ~(firedFresh /\ userCA # None)
        /\ rMu = None
        /\ Goto(Deadline, "finish")
        /\ UNCHANGED <<projection, userCA, served, undelivered, caVars, timerVars,
                       fMu, rMu, caMu>>

(***************************************************************************)
(* Install and UninstallWithConsent.                                       *)
(***************************************************************************)
MutatorTries(m) ==
  /\ pc[m] = "idle"
  /\ \/ caMu # None /\ Goto(m, "done") /\ UNCHANGED caMu
     \/ caMu = None /\ Goto(m, "admit") /\ caMu' = m
  /\ UNCHANGED <<projection, userCA, served, undelivered, caVars, timerVars, fMu, rMu>>

\* Admission under fMu.  Uninstall keeps it while it looks for interception.
MutatorAdmits(m) ==
  /\ pc[m] = "admit"
  /\ fMu = None
  /\ \/ m \in Installs /\ Goto(m, "withdraw") /\ UNCHANGED fMu
     \/ m \in Uninstalls /\ Goto(m, "consent") /\ fMu' = m
  /\ UNCHANGED <<projection, userCA, served, undelivered, caVars, timerVars, rMu, caMu>>

\* interceptionActive reads under rMu; without consent the call gives up.
UninstallConsents(m) ==
  /\ pc[m] = "consent"
  /\ rMu = None
  /\ fMu' = None
  /\ \/ Goto(m, "withdraw") /\ UNCHANGED caMu
     \/ served.identity # None /\ Goto(m, "done") /\ caMu' = None
  /\ UNCHANGED <<projection, userCA, served, undelivered, caVars, timerVars, rMu>>

MutatorWithdraws_onInstall(m) ==
  /\ pc[m] = "withdraw"
  /\ \/ m \in Installs /\ Adopt(m, None, "sendWithdrawn", "withdrawn")
     \/ /\ m \in Uninstalls
        /\ Goto(m, "withdrawn")
        /\ UNCHANGED <<projection, userCA, served, undelivered, caVars, timerVars,
                       fMu, rMu, caMu>>
\* HTTPS is withdrawn before trust or signing material changes.
MutatorWithdraws(m) == pc[m] = "withdraw" /\ Adopt(m, None, "sendWithdrawn", "withdrawn")

\* A deadline is scheduled only for what was adopted.
AfterAdoption == IF found = None THEN "settle" ELSE "adopted"

MutatorPublishes(m) ==
  /\ \/ pc[m] = "sendWithdrawn" /\ Publish(m, "withdrawn")
     \/ pc[m] = "send" /\ Publish(m, AfterAdoption)
  /\ UNCHANGED <<projection, userCA, served, undelivered, caVars, timerVars, fMu, caMu>>

MutatorCancels(m) ==
  /\ pc[m] = "withdrawn"
  /\ fMu = None
  /\ timer' = None
  /\ fresh' = FALSE
  /\ Goto(m, "work")
  /\ UNCHANGED <<projection, userCA, served, undelivered, caVars, firedFresh, fMu, rMu, caMu>>

Usable == CAs \ expired

\* UserCA.Install reuses the installed UserCA or replaces it; it may fail before,
\* between, or after the new one is in place.
InstallWorks(m) ==
  /\ m \in Installs
  /\ pc[m] = "work"
  /\ \/ \E ca \in Usable :
          /\ installed' = ca
          /\ found' = ca
     \/ /\ installed' \in Usable \cup {installed, None}
        /\ found' = None
  /\ Goto(m, "adopt")
  /\ UNCHANGED <<projection, userCA, served, undelivered, expired, pending, wanted, timerVars,
                 fMu, rMu, caMu>>

\* UserCA.Uninstall removes it, or fails before or after that.
UninstallWorks(m) ==
  /\ m \in Uninstalls
  /\ pc[m] = "work"
  /\ \/ installed' = None /\ Goto(m, "settle")
     \/ installed' \in {installed, None} /\ Goto(m, "adopt")
  /\ UNCHANGED <<projection, userCA, served, undelivered, expired, found, pending, wanted,
                 timerVars, fMu, rMu, caMu>>

\* After a success the new UserCA, after a failure none, with the error.
MutatorAdopts(m) == pc[m] = "adopt" /\ Adopt(m, found, "send", AfterAdoption)

\* finishCAMutation: take over a pending assessment, then unlock.
MutatorSettles(m) ==
  /\ pc[m] = "settle"
  /\ fMu = None
  /\ wanted' = pending
  /\ pending' = FALSE
  /\ Goto(m, "unlock")
  /\ UNCHANGED <<projection, userCA, served, undelivered, installed, expired, found,
                 timerVars, fMu, rMu, caMu>>

MutatorUnlocks(m) ==
  /\ pc[m] = "unlock"
  /\ caMu' = None
  /\ found' = None
  /\ wanted' = FALSE
  /\ Goto(m, IF wanted THEN "request" ELSE "done")
  /\ UNCHANGED <<projection, userCA, served, undelivered, installed, expired, pending,
                 timerVars, fMu, rMu>>

(***************************************************************************)
(* The outside: time passes.  Only a UserCA that is installed, or timed,   *)
(* needs to expire.                                                        *)
(***************************************************************************)
Expires(ca) ==
  /\ ca \in {installed, timer} \ expired
  /\ expired' = expired \cup {ca}
  /\ UNCHANGED <<projection, userCA, served, undelivered, installed, found, pending, wanted,
                 timerVars, fMu, rMu, caMu, pc>>

(***************************************************************************)
(* The system.                                                             *)
(***************************************************************************)
ListStep(l) ==
  \/ ListApplies(l) \/ ListUnreadable(l) \/ ListPublishes(l) \/ ListReadsContext(l)
  \/ ListAsks(l)

RequestStep(p) == Request(p) \/ RequestBusy(p) \/ SetPending(p)

WatcherStep == WatcherDelivers \/ WatcherRecords \/ RequestStep(Watcher)

AssessStep(a) ==
  \/ AssessInspects(a) \/ AssessAdopts(a) \/ AssessPublishes(a)
  \/ AssessCancels(a) \/ ScheduleBegins(a) \/ ScheduleEnds(a) \/ AssessFinishes(a)
  \/ AssessTakesPending(a) \/ RequestStep(a)

DeadlineStep ==
  \/ DeadlineFires \/ DeadlineTries \/ DeadlineExpires

MutatorStep(m) ==
  \/ MutatorTries(m) \/ MutatorAdmits(m) \/ UninstallConsents(m) \/ MutatorWithdraws(m)
  \/ MutatorPublishes(m) \/ MutatorCancels(m) \/ InstallWorks(m) \/ UninstallWorks(m)
  \/ MutatorAdopts(m) \/ ScheduleBegins(m) \/ ScheduleEnds(m)
  \/ MutatorSettles(m) \/ MutatorUnlocks(m) \/ RequestStep(m)

Next ==
  \/ \E l \in Lists : ListStep(l)
  \/ WatcherStep
  \/ \E a \in Assessing : AssessStep(a)
  \/ DeadlineStep
  \/ \E m \in Mutators : MutatorStep(m)
  \/ \E ca \in CAs : Expires(ca)

Spec == Init /\ [][Next]_vars

(***************************************************************************)
(* Fairness: every goroutine that has been called runs on.  Waiting for a  *)
(* mutex or for a channel is fair in Go (a starving waiter is served, and  *)
(* waiters queue), hence strong fairness.  No file has to change, no       *)
(* UserCA has to expire, and nobody has to call.                           *)
(***************************************************************************)
Fairness ==
  /\ \A l \in Lists : SF_vars(pc[l] # "select" /\ ListStep(l))
  /\ SF_vars(WatcherStep)
  /\ \A a \in Assessing : SF_vars(AssessStep(a))
  /\ SF_vars(DeadlineStep)
  /\ \A m \in Mutators : SF_vars(pc[m] # "idle" /\ MutatorStep(m))

FairSpec == Spec /\ Fairness

(***************************************************************************)
(* Safety.                                                                 *)
(***************************************************************************)
Sending == {"send", "sendExpired", "sendWithdrawn"}

\* A switched projection that no delivery has picked up yet has a goroutine
\* that is still sending the request for it, or the runtime watcher has it:
\* backpressure, never a dropped request (publishDeliveryRequestLocked).
RequestNeverLost ==
  undelivered => \/ rMu # None /\ pc[rMu] \in Sending
                 \/ pc[Watcher] = "deliver"

\* The PAC, the kinds of routes and the UserCA that are served are those of the
\* lists and the UserCA that the runtime retains, whoever changed them last.  The
\* facades may be older (traffic_mappings), but all that is served together was
\* derived together (switchTrafficProjectionLocked).
ServesCurrentFacts ==
  /\ Equivalent(served, Projected(projection, userCA))
  /\ \E lists \in [Lists -> Contents] : served = Projected(lists, served.identity)

\* While a CA command changes trust and signing material, the runtime retains
\* no UserCA and no HTTPS route: no assessment brings it back meanwhile
\* (Install, UninstallWithConsent, caAdmissionMu).
MutationWithdrawn ==
  (\E m \in Mutators : pc[m] = "work") => userCA = None /\ served.identity = None

\* When no CA goroutine is at work, the UserCA the runtime intercepts with is
\* the installed one (Install, UninstallWithConsent, assessUserCA).
UsesInstalledCA == caMu = None /\ userCA # None => userCA = installed

\* A deadline that fires late never withdraws a UserCA adopted since its timer
\* was set, whose own expiry has not come (ExpireUserCA's revision).
DeadlineSparesNewer ==
  [][DeadlineExpires /\ userCA' # userCA => userCA \in expired]_vars

(***************************************************************************)
(* Liveness.                                                               *)
(***************************************************************************)
\* Status, which needs lifecycle.mu, stays available: whoever holds it across
\* a call into the runtime lets it go again.
StatusAvailable == fMu # None ~> fMu = None
=============================================================================
