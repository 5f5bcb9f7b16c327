------------------------------ MODULE Lifecycle ------------------------------
(***************************************************************************)
(* The lifecycle object of a serving Gateway Owner                         *)
(* (src/internal/gateway/lifecycle.go, activation.go, and the serving part *)
(* of traffic.go).  Every command is a call that runs on its own goroutine *)
(* and takes one step at a time; a step is one critical section of         *)
(* lifecycle.mu, one wait, or one call into another module.  deliveryMu    *)
(* and caAdmissionMu are explicit locks, because they are held across      *)
(* several steps.  So is lifecycle.mu where its holder waits: whoever      *)
(* looks into the published runtime under it needs trafficRuntime.mu,      *)
(* which a list watcher keeps for as long as it offers a delivery request. *)
(*                                                                         *)
(* A start call creates at most one traffic runtime, so the runtime it     *)
(* creates is named by the call itself; its two listeners go through their *)
(* lives together and are taken as one.  Abstracted here: the transient    *)
(* owner of install and uninstall (transientOwner stays false), what the   *)
(* UserCA assessments find and how a skipped one is remembered             *)
(* (assessmentPending), and which network services a delivery reaches (pac *)
(* is one setting).                                                        *)
(*                                                                         *)
(* A definition whose name has a suffix, such as RuntimeWithout_kept, is   *)
(* the definition before the underscore with one plausible mistake, kept   *)
(* to show that a property notices the mistake.                            *)
(***************************************************************************)
CONSTANTS
  Starts,         \* ExecuteStart calls
  Routed,         \* those that reach the owner as a POST /start request
  Stops,          \* Stop calls
  Mutators,       \* Install and Uninstall calls
  None,           \* no runtime, no call, lock not held
  ServingMayFail, \* whether a listener may fail on its own
  ListsMayChange  \* whether the Upstream Lists may change while a runtime serves

ASSUME RoutedAreStarts == Routed \subseteq Starts
ASSUME NoneIsNoStart == None \notin Starts
ASSUME ChancesAreBoolean == ServingMayFail \in BOOLEAN /\ ListsMayChange \in BOOLEAN

VARIABLES
  ownerEnding,    \* a Stop has begun; never reset
  startMutating,  \* the admitted start (startMutating, startCancel, startDone)
  caMutating,     \* an Install or Uninstall is admitted
  runtime,        \* the published active runtime
  interrupted,    \* the owner's supervision is over: the context of its own start is done
  mu,             \* who looks into the runtime while holding lifecycle.mu
  deliveryMu,     \* holder of deliveryMu
  caAdmissionMu,  \* holder of caAdmissionMu
  start,          \* where each start call is
  result,         \* what it returns
  active,         \* the runtime it delivers
  server,         \* the ServeReady goroutine of each runtime
  sockets,        \* its listeners: what binding, Serve and Close made of them
  ready,          \* its ready channel is closed
  closed,         \* its HTTP servers have been closed
  cancelled,      \* its run context is done
  sending,        \* a list watcher holds trafficRuntime.mu, offering a delivery request
  watcher,        \* its watchRuntimeChanges goroutine
  delivered,      \* its latestPACDelivery is recorded
  stop,           \* where each stop call is
  awaited,        \* the start whose startDone the stop captured
  stopping,       \* the runtime the stop captured
  residue,        \* its System PAC cleanup could not be fulfilled
  mutator,        \* where each Install or Uninstall call is
  pac,            \* the runtime the managed PAC setting points at
  fatal           \* the fatal channel has received a serving error

ownerVars   == <<ownerEnding, startMutating, caMutating, runtime, interrupted>>
lockVars    == <<mu, deliveryMu, caAdmissionMu>>
startVars   == <<start, result, active>>
serverVars  == <<server, sockets, ready, closed>>
runtimeVars == <<serverVars, cancelled, sending, watcher, delivered>>
stopVars    == <<stop, awaited, stopping, residue>>
worldVars   == <<pac, fatal>>

vars == <<ownerVars, lockVars, startVars, runtimeVars, stopVars, mutator,
          worldVars>>

(***************************************************************************)
(* Types.                                                                  *)
(***************************************************************************)
RuntimeOrNone == Starts \cup {None}

StartSteps == {"idle", "prepare", "admitCA", "inspect", "build", "publish",
               "awaitReady", "checkDone", "deliver", "admit", "apply", "record",
               "commit", "report", "withdraw", "abandon", "finish", "done"}

Results == {"none", "Started", "AlreadyRunning", "StopCancelled",
            "AlreadyMutating", "ConsentRequired", "Failed"}

StopSteps == {"idle", "called", "cancel", "deadline", "awaitStart", "lockDelivery",
              "cleanup", "close", "unpublish", "drainCA", "done"}

WatcherSteps == {"none", "select", "note", "deliver", "admit", "apply", "record", "ended"}

MutatorSteps == {"idle", "check", "look", "work", "schedule", "settle", "unlock", "done"}

\* Who may hold a lock.
ByStart(s)   == <<"start", s>>
ByWatcher(s) == <<"watcher", s>>
ByStop(t)    == <<"stop", t>>
ByMutator(m) == <<"mutator", m>>
ByAssessor   == <<"assessor", None>>

Deliverers ==
  {ByStart(s) : s \in Starts} \cup {ByWatcher(s) : s \in Starts} \cup {ByStop(t) : t \in Stops}

CAUsers ==
  {ByStart(s) : s \in Starts} \cup {ByMutator(m) : m \in Mutators} \cup {ByAssessor}

ASSUME NoneIsNoHolder == None \notin Deliverers \cup CAUsers

TypeOK ==
  /\ ownerEnding \in BOOLEAN
  /\ startMutating \in RuntimeOrNone
  /\ caMutating \in BOOLEAN
  /\ runtime \in RuntimeOrNone
  /\ interrupted \in BOOLEAN
  /\ mu \in CAUsers \cup {None}
  /\ deliveryMu \in Deliverers \cup {None}
  /\ caAdmissionMu \in CAUsers \cup {None}
  /\ start \in [Starts -> StartSteps]
  /\ result \in [Starts -> Results]
  /\ active \in [Starts -> RuntimeOrNone]
  /\ server \in [Starts -> {"none", "serving", "returned"}]
  /\ sockets \in [Starts -> {"none", "bound", "served", "closed"}]
  /\ ready \in [Starts -> BOOLEAN]
  /\ closed \in [Starts -> BOOLEAN]
  /\ cancelled \in [Starts -> BOOLEAN]
  /\ sending \in [Starts -> BOOLEAN]
  /\ watcher \in [Starts -> WatcherSteps]
  /\ delivered \in [Starts -> BOOLEAN]
  /\ stop \in [Stops -> StopSteps]
  /\ awaited \in [Stops -> RuntimeOrNone]
  /\ stopping \in [Stops -> RuntimeOrNone]
  /\ residue \in [Stops -> BOOLEAN]
  /\ mutator \in [Mutators -> MutatorSteps]
  /\ pac \in RuntimeOrNone
  /\ fatal \in BOOLEAN

\* newLifecycleState: nothing runs, and no managed PAC setting is in place.
Init ==
  /\ ownerEnding = FALSE
  /\ startMutating = None
  /\ caMutating = FALSE
  /\ runtime = None
  /\ interrupted = FALSE
  /\ mu = None
  /\ deliveryMu = None
  /\ caAdmissionMu = None
  /\ start = [s \in Starts |-> "idle"]
  /\ result = [s \in Starts |-> "none"]
  /\ active = [s \in Starts |-> None]
  /\ server = [s \in Starts |-> "none"]
  /\ sockets = [s \in Starts |-> "none"]
  /\ ready = [s \in Starts |-> FALSE]
  /\ closed = [s \in Starts |-> FALSE]
  /\ cancelled = [s \in Starts |-> FALSE]
  /\ sending = [s \in Starts |-> FALSE]
  /\ watcher = [s \in Starts |-> "none"]
  /\ delivered = [s \in Starts |-> FALSE]
  /\ stop = [t \in Stops |-> "idle"]
  /\ awaited = [t \in Stops |-> None]
  /\ stopping = [t \in Stops |-> None]
  /\ residue = [t \in Stops |-> FALSE]
  /\ mutator = [m \in Mutators |-> "idle"]
  /\ pac = None
  /\ fatal = FALSE

(***************************************************************************)
(* lifecycle.mu and trafficRuntime.mu.  A critical section of lifecycle.mu *)
(* is one step, which has to find it free, unless it looks into the        *)
(* runtime: then it takes lifecycle.mu in one step and ends in another.    *)
(***************************************************************************)
MuFree == mu = None

\* trafficRuntime.mu is held over a send, which ends when the watcher receives
\* it or the run context is done.
TrafficMuHeld(s) == sending[s] /\ ~cancelled[s]

\* Looking into the published runtime, if there is one, need not wait.
Readable == \A s \in Starts : runtime = s => ~TrafficMuHeld(s)

(***************************************************************************)
(* ExecuteStart: admission.                                                *)
(***************************************************************************)
\* Start s moves on to step.
StartAt(s, step) == start' = [start EXCEPT ![s] = step]

\* Start s moves on to step, its result now decided.
StartOutcome(s, step, r) ==
  /\ StartAt(s, step)
  /\ result' = [result EXCEPT ![s] = r]

ActivationFree_ignoringCA == startMutating = None

\* No other start, and no Install or Uninstall, is admitted.
ActivationFree == startMutating = None /\ ~caMutating

\* The start is answered at once: the owner is ending, or another command is
\* mutating and there is no runtime yet.
StartRefused(s) ==
  /\ start[s] = "idle"
  /\ MuFree
  /\ \/ ownerEnding /\ StartOutcome(s, "done", "StopCancelled")
     \/ /\ ~ownerEnding
        /\ runtime = None
        /\ ~ActivationFree
        /\ StartOutcome(s, "done", "AlreadyMutating")
  /\ UNCHANGED <<ownerVars, lockVars, active, runtimeVars, stopVars, mutator, worldVars>>

\* A runtime is published, whatever its phase: the start delivers its PAC again.
StartFindsRuntime(s) ==
  /\ start[s] = "idle"
  /\ MuFree
  /\ ~ownerEnding
  /\ runtime # None
  /\ active' = [active EXCEPT ![s] = runtime]
  /\ StartAt(s, "deliver")
  /\ UNCHANGED <<ownerVars, lockVars, result, runtimeVars, stopVars, mutator, worldVars>>

StartAdmitted(s) ==
  /\ start[s] = "idle"
  /\ MuFree
  /\ ~ownerEnding
  /\ runtime = None
  /\ ActivationFree
  /\ startMutating' = s
  /\ StartAt(s, "prepare")
  /\ UNCHANGED <<ownerEnding, caMutating, runtime, interrupted, lockVars, result, active,
                 runtimeVars, stopVars, mutator, worldVars>>

(***************************************************************************)
(* startSequence.Execute: the facts a runtime starts from.                 *)
(***************************************************************************)
\* Upstream List creation consent, the two file observations and their first
\* outcomes.  The client may have to be asked first, or a step may fail.
StartPrepare(s) ==
  /\ start[s] = "prepare"
  /\ \/ StartAt(s, "admitCA") /\ UNCHANGED result
     \/ \E r \in {"ConsentRequired", "Failed"} : StartOutcome(s, "finish", r)
  /\ UNCHANGED <<ownerVars, lockVars, active, runtimeVars, stopVars, mutator, worldVars>>

\* caAdmissionMu.TryLock: the start does not wait for CA work.
StartAdmitCA(s) ==
  /\ start[s] = "admitCA"
  /\ \/ /\ caAdmissionMu # None
        /\ StartOutcome(s, "finish", "AlreadyMutating")
        /\ UNCHANGED caAdmissionMu
     \/ /\ caAdmissionMu = None
        /\ caAdmissionMu' = ByStart(s)
        /\ StartAt(s, "inspect")
        /\ UNCHANGED result
  /\ UNCHANGED <<ownerVars, mu, deliveryMu, active, runtimeVars, stopVars, mutator, worldVars>>

StartInspect(s) ==
  /\ start[s] = "inspect"
  /\ caAdmissionMu' = None
  /\ StartAt(s, "build")
  /\ UNCHANGED <<ownerVars, mu, deliveryMu, result, active, runtimeVars, stopVars, mutator,
                 worldVars>>

\* newRuntimeFromSources binds both listeners, or fails.
StartBuild(s) ==
  /\ start[s] = "build"
  /\ \/ /\ cancelled[s]
        /\ StartOutcome(s, "finish", "StopCancelled")
        /\ UNCHANGED sockets
     \/ /\ ~cancelled[s]
        /\ MuFree
        /\ StartOutcome(s, "finish", "Failed")
        /\ UNCHANGED sockets
     \/ /\ ~cancelled[s]
        /\ MuFree
        /\ sockets' = [sockets EXCEPT ![s] = "bound"]
        /\ StartAt(s, "publish")
        /\ UNCHANGED result
  /\ UNCHANGED <<ownerVars, lockVars, active, server, ready, closed, cancelled, sending,
                 watcher, delivered, stopVars, mutator, worldVars>>

(***************************************************************************)
(* startSequence.Execute: publication, readiness, first delivery.          *)
(***************************************************************************)
\* The context is still alive: a start cancelled meanwhile publishes nothing.
PublicationAllowed(s) == ~cancelled[s]

\* publishRuntime, and the launch of ServeReady.  A cancelled start closes its
\* HTTP servers; they have not been given the listeners, which stay bound.
StartPublish(s) ==
  /\ start[s] = "publish"
  /\ MuFree
  /\ \/ /\ ~PublicationAllowed(s)
        /\ closed' = [closed EXCEPT ![s] = TRUE]
        /\ StartOutcome(s, "finish", "StopCancelled")
        /\ UNCHANGED <<runtime, active, server>>
     \/ /\ PublicationAllowed(s)
        /\ runtime' = s
        /\ active' = [active EXCEPT ![s] = s]
        /\ server' = [server EXCEPT ![s] = "serving"]
        /\ StartAt(s, "awaitReady")
        /\ UNCHANGED <<result, closed>>
  /\ UNCHANGED <<ownerEnding, startMutating, caMutating, interrupted, lockVars, sockets,
                 ready, cancelled, sending, watcher, delivered, stopVars, mutator, worldVars>>

\* postStartFailure: a failure after cancellation is the cancellation.
FailureResult(s) == IF cancelled[s] THEN "StopCancelled" ELSE "Failed"

StartAwaitReady_unready(s) ==
  /\ start[s] = "awaitReady"
  /\ StartAt(s, "checkDone")
  /\ UNCHANGED <<ownerVars, lockVars, result, active, runtimeVars, stopVars, mutator, worldVars>>

StartAwaitReady_uninterrupted(s) ==
  /\ start[s] = "awaitReady"
  /\ ready[s]
  /\ StartAt(s, "checkDone")
  /\ UNCHANGED <<ownerVars, lockVars, result, active, runtimeVars, stopVars, mutator, worldVars>>

\* select on ready, done and the start's context.
StartAwaitReady(s) ==
  /\ start[s] = "awaitReady"
  /\ \/ ready[s] /\ StartAt(s, "checkDone") /\ UNCHANGED result
     \/ server[s] = "returned" /\ StartOutcome(s, "withdraw", FailureResult(s))
     \/ cancelled[s] /\ StartOutcome(s, "withdraw", "StopCancelled")
  /\ UNCHANGED <<ownerVars, lockVars, active, runtimeVars, stopVars, mutator, worldVars>>

StartCheckDone(s) ==
  /\ start[s] = "checkDone"
  /\ \/ server[s] = "returned" /\ StartOutcome(s, "withdraw", FailureResult(s))
     \/ server[s] # "returned" /\ StartAt(s, "deliver") /\ UNCHANGED result
  /\ UNCHANGED <<ownerVars, lockVars, active, runtimeVars, stopVars, mutator, worldVars>>

\* The last check before the start commits its runtime and its watcher.
StartCommit(s) ==
  /\ start[s] = "commit"
  /\ MuFree
  /\ \/ /\ runtime # s \/ cancelled[s]
        /\ StartOutcome(s, "withdraw", "StopCancelled")
        /\ UNCHANGED watcher
     \/ /\ runtime = s /\ ~cancelled[s]
        /\ watcher' = [watcher EXCEPT ![s] = "select"]
        /\ StartOutcome(s, "report", "Started")
  /\ UNCHANGED <<ownerVars, lockVars, active, serverVars, cancelled, sending, delivered,
                 stopVars, mutator, worldVars>>

\* The guidance is read from the runtime, then from the lifecycle.
StartReport(s) ==
  /\ start[s] = "report"
  /\ ~TrafficMuHeld(s)
  /\ MuFree
  /\ StartAt(s, "finish")
  /\ UNCHANGED <<ownerVars, lockVars, result, active, runtimeVars, stopVars, mutator, worldVars>>

RuntimeWithout_kept(s) == runtime
\* The published runtime once s is no longer published.
RuntimeWithout(s) == IF runtime = s THEN None ELSE runtime

\* withdraw: unpublish the runtime ...
StartWithdraw(s) ==
  /\ start[s] = "withdraw"
  /\ MuFree
  /\ runtime' = RuntimeWithout(s)
  /\ StartAt(s, "abandon")
  /\ UNCHANGED <<ownerEnding, startMutating, caMutating, interrupted, lockVars, result,
                 active, runtimeVars, stopVars, mutator, worldVars>>

\* http.Server.Close: it closes the listeners that Serve has registered.
SocketAfterClose(s) == IF sockets[s] = "served" THEN "closed" ELSE sockets[s]

\* ... then cancel its deadline, under lifecycle.mu, and its run context; the
\* deferred engine.Close follows.  Nothing on this path cleans the PAC setting.
StartAbandon(s) ==
  /\ start[s] = "abandon"
  /\ MuFree
  /\ cancelled' = [cancelled EXCEPT ![s] = TRUE]
  /\ closed' = [closed EXCEPT ![s] = TRUE]
  /\ sockets' = [sockets EXCEPT ![s] = SocketAfterClose(s)]
  /\ StartAt(s, "finish")
  /\ UNCHANGED <<ownerVars, lockVars, result, active, server, ready, sending, watcher,
                 delivered, stopVars, mutator, worldVars>>

StartFinish_cancelling(s) ==
  /\ start[s] = "finish"
  /\ MuFree
  /\ startMutating' = None
  /\ cancelled' = [cancelled EXCEPT ![s] = TRUE]
  /\ StartAt(s, "done")
  /\ UNCHANGED <<ownerEnding, caMutating, runtime, interrupted, lockVars, result, active,
                 serverVars, sending, watcher, delivered, stopVars, mutator, worldVars>>

\* The deferred end of ExecuteStart: clear startMutating, close startDone.
StartFinish(s) ==
  /\ start[s] = "finish"
  /\ MuFree
  /\ startMutating' = None
  /\ StartAt(s, "done")
  /\ UNCHANGED <<ownerEnding, caMutating, runtime, interrupted, lockVars, result, active,
                 runtimeVars, stopVars, mutator, worldVars>>

(***************************************************************************)
(* deliverSystemPAC.  It runs on behalf of the start that activates a      *)
(* runtime, of a start that found one, and of the runtime's watcher.       *)
(***************************************************************************)
DeliveryAdmitted_anyOwner(a) == runtime = a
DeliveryAdmitted(a) == ~ownerEnding /\ runtime = a

\* The report becomes the runtime's latest delivery, if it is still the runtime.
RecordDelivery(a) ==
  delivered' = [d \in Starts |-> delivered[d] \/ (d = a /\ DeliveryAdmitted(a))]

\* Where a start goes when its delivery was not admitted: the activating start
\* withdraws its runtime, any other returns.
StartUndelivered(s) == IF active[s] = s THEN "withdraw" ELSE "done"

StartDeliver(s) ==
  /\ start[s] = "deliver"
  /\ deliveryMu = None
  /\ deliveryMu' = ByStart(s)
  /\ StartAt(s, "admit")
  /\ UNCHANGED <<ownerVars, mu, caAdmissionMu, result, active, runtimeVars, stopVars,
                 mutator, worldVars>>

StartAdmit(s) ==
  /\ start[s] = "admit"
  /\ MuFree
  /\ \/ /\ ~DeliveryAdmitted(active[s])
        /\ deliveryMu' = None
        /\ StartOutcome(s, StartUndelivered(s), "StopCancelled")
     \/ /\ DeliveryAdmitted(active[s])
        /\ StartAt(s, "apply")
        /\ UNCHANGED <<deliveryMu, result>>
  /\ UNCHANGED <<ownerVars, mu, caAdmissionMu, active, runtimeVars, stopVars, mutator, worldVars>>

\* systemPAC.Deliver: the setting points at the runtime, or could not be set.
StartApply(s) ==
  /\ start[s] = "apply"
  /\ pac' \in {pac, active[s]}
  /\ StartAt(s, "record")
  /\ UNCHANGED <<ownerVars, lockVars, result, active, runtimeVars, stopVars, mutator, fatal>>

StartRecord_earlyReturn(s) ==
  /\ start[s] = "record"
  /\ MuFree
  /\ RecordDelivery(active[s])
  /\ deliveryMu' = IF DeliveryAdmitted(active[s]) THEN None ELSE deliveryMu
  /\ \/ active[s] = s /\ StartAt(s, "commit") /\ UNCHANGED result
     \/ active[s] # s /\ StartOutcome(s, "done", "AlreadyRunning")
  /\ UNCHANGED <<ownerVars, mu, caAdmissionMu, active, serverVars, cancelled, sending, watcher,
                 stopVars, mutator, worldVars>>

StartRecord(s) ==
  /\ start[s] = "record"
  /\ MuFree
  /\ RecordDelivery(active[s])
  /\ deliveryMu' = None
  /\ \/ active[s] = s /\ StartAt(s, "commit") /\ UNCHANGED result
     \/ active[s] # s /\ StartOutcome(s, "done", "AlreadyRunning")
  /\ UNCHANGED <<ownerVars, mu, caAdmissionMu, active, serverVars, cancelled, sending, watcher,
                 stopVars, mutator, worldVars>>

\* The watcher of runtime s moves on to step.
WatcherAt(s, step) == watcher' = [watcher EXCEPT ![s] = step]

\* A list edit switches the traffic projection: the list watcher offers a
\* delivery request while it holds trafficRuntime.mu.
ListSwitches(s) ==
  /\ ListsMayChange
  /\ server[s] = "serving"
  /\ ~sending[s]
  /\ ~cancelled[s]
  /\ sending' = [sending EXCEPT ![s] = TRUE]
  /\ UNCHANGED <<ownerVars, lockVars, startVars, serverVars, cancelled, watcher, delivered,
                 stopVars, mutator, worldVars>>

\* watchRuntimeChanges receives the delivery request of a list edit ...
WatcherReceives(s) ==
  /\ watcher[s] = "select"
  /\ sending[s]
  /\ sending' = [sending EXCEPT ![s] = FALSE]
  /\ WatcherAt(s, "deliver")
  /\ UNCHANGED <<ownerVars, lockVars, startVars, serverVars, cancelled, delivered, stopVars,
                 mutator, worldVars>>

\* ... that of a UserCA change, which only CA work makes, or, beside CA work, a
\* request for an assessment, which it can but note.
WatcherRequested(s) ==
  /\ watcher[s] = "select"
  /\ caAdmissionMu # None
  /\ WatcherAt(s, "deliver") \/ WatcherAt(s, "note")
  /\ UNCHANGED <<ownerVars, lockVars, startVars, serverVars, cancelled, sending, delivered,
                 stopVars, mutator, worldVars>>

\* assessmentPending, under lifecycle.mu.
WatcherNotes(s) ==
  /\ watcher[s] = "note"
  /\ MuFree
  /\ WatcherAt(s, "select")
  /\ UNCHANGED <<ownerVars, lockVars, startVars, serverVars, cancelled, sending, delivered,
                 stopVars, mutator, worldVars>>

WatcherDeliver(s) ==
  /\ watcher[s] = "deliver"
  /\ deliveryMu = None
  /\ deliveryMu' = ByWatcher(s)
  /\ WatcherAt(s, "admit")
  /\ UNCHANGED <<ownerVars, mu, caAdmissionMu, startVars, serverVars, cancelled, sending,
                 delivered, stopVars, mutator, worldVars>>

WatcherAdmit(s) ==
  /\ watcher[s] = "admit"
  /\ MuFree
  /\ \/ ~DeliveryAdmitted(s) /\ WatcherAt(s, "select") /\ deliveryMu' = None
     \/ DeliveryAdmitted(s) /\ WatcherAt(s, "apply") /\ UNCHANGED deliveryMu
  /\ UNCHANGED <<ownerVars, mu, caAdmissionMu, startVars, serverVars, cancelled, sending,
                 delivered, stopVars, mutator, worldVars>>

WatcherApply(s) ==
  /\ watcher[s] = "apply"
  /\ pac' \in {pac, s}
  /\ WatcherAt(s, "record")
  /\ UNCHANGED <<ownerVars, lockVars, startVars, serverVars, cancelled, sending, delivered,
                 stopVars, mutator, fatal>>

WatcherRecord(s) ==
  /\ watcher[s] = "record"
  /\ MuFree
  /\ RecordDelivery(s)
  /\ deliveryMu' = None
  /\ WatcherAt(s, "select")
  /\ UNCHANGED <<ownerVars, mu, caAdmissionMu, startVars, serverVars, cancelled, sending,
                 stopVars, mutator, worldVars>>

WatcherEnds(s) ==
  /\ watcher[s] = "select"
  /\ cancelled[s]
  /\ WatcherAt(s, "ended")
  /\ UNCHANGED <<ownerVars, lockVars, startVars, serverVars, cancelled, sending,
                 delivered, stopVars, mutator, worldVars>>

(***************************************************************************)
(* trafficRuntime.ServeReady, on a goroutine of its own.                   *)
(***************************************************************************)
\* http.Server.Serve registers a listener, or closes it when the server has
\* been closed before.
ServeListens(s) ==
  /\ server[s] # "none"
  /\ sockets[s] = "bound"
  /\ sockets' = [sockets EXCEPT ![s] = IF closed[s] THEN "closed" ELSE "served"]
  /\ UNCHANGED <<ownerVars, lockVars, startVars, server, ready, closed, cancelled, sending,
                 watcher, delivered, stopVars, mutator, worldVars>>

\* Both endpoints answered: close(ready).
ServeProven(s) ==
  /\ server[s] = "serving"
  /\ ~ready[s]
  /\ sockets[s] = "served"
  /\ ready' = [ready EXCEPT ![s] = TRUE]
  /\ UNCHANGED <<ownerVars, lockVars, startVars, server, sockets, closed, cancelled, sending,
                 watcher, delivered, stopVars, mutator, worldVars>>

\* ServeReady closes the HTTP servers and returns.
ServeReturns(s) ==
  /\ server' = [server EXCEPT ![s] = "returned"]
  /\ closed' = [closed EXCEPT ![s] = TRUE]
  /\ sockets' = [sockets EXCEPT ![s] = SocketAfterClose(s)]
  /\ UNCHANGED <<ownerVars, lockVars, startVars, ready, cancelled, sending, watcher,
                 delivered, stopVars, mutator, pac>>

\* The readiness proof fails, cancellation included: the error is fatal.
ServeUnproven(s) ==
  /\ server[s] = "serving"
  /\ ~ready[s]
  /\ ServingMayFail \/ cancelled[s] \/ closed[s]
  /\ fatal' = TRUE
  /\ ServeReturns(s)

\* A proven server ends: by its context or by CloseTraffic without an error ...
ServeEnds(s) ==
  /\ server[s] = "serving"
  /\ ready[s]
  /\ cancelled[s] \/ closed[s]
  /\ UNCHANGED fatal
  /\ ServeReturns(s)

\* ... or by a listener failure, which is fatal.
ServeBreaks(s) ==
  /\ server[s] = "serving"
  /\ ready[s]
  /\ ServingMayFail
  /\ fatal' = TRUE
  /\ ServeReturns(s)

\* net/http: the context of a routed start is done when its client goes away
\* and, at the latest, when its handler has returned.
CallerGone(s) ==
  /\ s \in Routed
  /\ start[s] # "idle"
  /\ ~cancelled[s]
  /\ cancelled' = [cancelled EXCEPT ![s] = TRUE]
  /\ UNCHANGED <<ownerVars, lockVars, startVars, serverVars, sending, watcher, delivered,
                 stopVars, mutator, worldVars>>

\* superviseOwner ends on an interrupt, a shutdown request, a fatal error or the
\* end of the router: the context of the owner's own start is done, before any
\* Stop that follows.
OwnerInterrupted ==
  /\ ~interrupted
  /\ \E s \in Starts \ Routed : ~cancelled[s]
  /\ interrupted' = TRUE
  /\ cancelled' = [s \in Starts |-> cancelled[s] \/ s \notin Routed]
  /\ UNCHANGED <<ownerEnding, startMutating, caMutating, runtime, lockVars, startVars,
                 serverVars, sending, watcher, delivered, stopVars, mutator, worldVars>>

(***************************************************************************)
(* lifecycle.Stop.                                                         *)
(***************************************************************************)
StopAt(t, step) == stop' = [stop EXCEPT ![t] = step]

StopCalled(t) ==
  /\ stop[t] = "idle"
  /\ StopAt(t, "called")
  /\ UNCHANGED <<ownerVars, lockVars, startVars, runtimeVars, awaited, stopping, residue,
                 mutator, worldVars>>

\* One critical section ends admission and captures what is under way.
StopBegin(t) ==
  /\ stop[t] = "called"
  /\ MuFree
  /\ ownerEnding' = TRUE
  /\ awaited' = [awaited EXCEPT ![t] = startMutating]
  /\ stopping' = [stopping EXCEPT ![t] = runtime]
  /\ StopAt(t, "cancel")
  /\ UNCHANGED <<startMutating, caMutating, runtime, interrupted, lockVars, startVars,
                 runtimeVars, residue, mutator, worldVars>>

StopCancel(t) ==
  /\ stop[t] = "cancel"
  /\ cancelled' = [s \in Starts |-> cancelled[s] \/ s = awaited[t]]
  /\ StopAt(t, "deadline")
  /\ UNCHANGED <<ownerVars, lockVars, startVars, serverVars, sending, watcher, delivered,
                 awaited, stopping, residue, mutator, worldVars>>

\* cancelUserCADeadline, under lifecycle.mu, when a runtime was captured.
StopDeadline(t) ==
  /\ stop[t] = "deadline"
  /\ stopping[t] = None \/ MuFree
  /\ StopAt(t, "awaitStart")
  /\ UNCHANGED <<ownerVars, lockVars, startVars, runtimeVars, awaited, stopping, residue,
                 mutator, worldVars>>

StartSettled_unawaited(t) == TRUE
\* startDone is closed, or there was no start to wait for.
StartSettled(t) == \A s \in Starts : s = awaited[t] => start[s] = "done"

StopAwaitStart(t) ==
  /\ stop[t] = "awaitStart"
  /\ StartSettled(t)
  /\ StopAt(t, "lockDelivery")
  /\ UNCHANGED <<ownerVars, lockVars, startVars, runtimeVars, awaited, stopping, residue,
                 mutator, worldVars>>

StopLockDelivery(t) ==
  /\ stop[t] = "lockDelivery"
  /\ deliveryMu = None
  /\ deliveryMu' = ByStop(t)
  /\ StopAt(t, "cleanup")
  /\ UNCHANGED <<ownerVars, mu, caAdmissionMu, startVars, runtimeVars, awaited, stopping,
                 residue, mutator, worldVars>>

StopCleanup_unreported(t) ==
  /\ stop[t] = "cleanup"
  /\ residue' = [residue EXCEPT ![t] = FALSE]
  /\ pac' \in {None, pac}
  /\ deliveryMu' = None
  /\ StopAt(t, "close")
  /\ UNCHANGED <<ownerVars, mu, caAdmissionMu, startVars, runtimeVars, awaited, stopping,
                 mutator, fatal>>

\* systemPAC.Cleanup: fulfilled when it verified that nothing owned is left.
StopCleanup(t) ==
  /\ stop[t] = "cleanup"
  /\ \E fulfilled \in BOOLEAN :
       /\ residue' = [residue EXCEPT ![t] = ~fulfilled]
       /\ pac' \in IF fulfilled THEN {None} ELSE {None, pac}
  /\ deliveryMu' = None
  /\ StopAt(t, "close")
  /\ UNCHANGED <<ownerVars, mu, caAdmissionMu, startVars, runtimeVars, awaited, stopping,
                 mutator, fatal>>

StopCloseTraffic_uncancelled(t) ==
  /\ stop[t] = "close"
  /\ closed' = [s \in Starts |-> closed[s] \/ s = stopping[t]]
  /\ sockets' = [s \in Starts |-> IF s = stopping[t] THEN SocketAfterClose(s) ELSE sockets[s]]
  /\ StopAt(t, "unpublish")
  /\ UNCHANGED <<ownerVars, lockVars, startVars, server, ready, cancelled, sending, watcher,
                 delivered, awaited, stopping, residue, mutator, worldVars>>

\* active.cancel() and CloseTraffic, when a runtime was captured.
StopCloseTraffic(t) ==
  /\ stop[t] = "close"
  /\ cancelled' = [s \in Starts |-> cancelled[s] \/ s = stopping[t]]
  /\ closed' = [s \in Starts |-> closed[s] \/ s = stopping[t]]
  /\ sockets' = [s \in Starts |-> IF s = stopping[t] THEN SocketAfterClose(s) ELSE sockets[s]]
  /\ StopAt(t, "unpublish")
  /\ UNCHANGED <<ownerVars, lockVars, startVars, server, ready, sending, watcher, delivered,
                 awaited, stopping, residue, mutator, worldVars>>

StopUnpublish(t) ==
  /\ stop[t] = "unpublish"
  /\ MuFree
  /\ runtime' = RuntimeWithout(stopping[t])
  /\ StopAt(t, "drainCA")
  /\ UNCHANGED <<ownerEnding, startMutating, caMutating, interrupted, lockVars, startVars,
                 runtimeVars, awaited, stopping, residue, mutator, worldVars>>

CASettled == caAdmissionMu = None

\* Lock and unlock caAdmissionMu.  The state cache goes with the ownership.
StopDrainCA(t) ==
  /\ stop[t] = "drainCA"
  /\ CASettled
  /\ StopAt(t, "done")
  /\ UNCHANGED <<ownerVars, lockVars, startVars, runtimeVars, awaited, stopping, residue,
                 mutator, worldVars>>

(***************************************************************************)
(* Install and Uninstall, as far as they meet start and stop, and the      *)
(* UserCA assessments that hold caAdmissionMu.                             *)
(***************************************************************************)
MutatorAt(m, step) == mutator' = [mutator EXCEPT ![m] = step]

MutateAdmit(m) ==
  /\ mutator[m] = "idle"
  /\ \/ caAdmissionMu # None /\ MutatorAt(m, "done") /\ UNCHANGED caAdmissionMu
     \/ caAdmissionMu = None /\ MutatorAt(m, "check") /\ caAdmissionMu' = ByMutator(m)
  /\ UNCHANGED <<ownerVars, mu, deliveryMu, startVars, runtimeVars, stopVars, worldVars>>

MutationAllowed == ~ownerEnding /\ startMutating = None

\* The admission under lifecycle.mu.  An Uninstall that meets a runtime looks,
\* before it lets go, whether that intercepts.
MutateCheck(m) ==
  /\ mutator[m] = "check"
  /\ MuFree
  /\ \/ /\ MutationAllowed
        /\ caMutating' = TRUE
        /\ MutatorAt(m, "work")
        /\ UNCHANGED <<mu, caAdmissionMu>>
     \/ /\ MutationAllowed
        /\ runtime # None
        /\ mu' = ByMutator(m)
        /\ MutatorAt(m, "look")
        /\ UNCHANGED <<caMutating, caAdmissionMu>>
     \/ /\ ~MutationAllowed
        /\ caAdmissionMu' = None
        /\ MutatorAt(m, "done")
        /\ UNCHANGED <<caMutating, mu>>
  /\ UNCHANGED <<ownerEnding, startMutating, runtime, interrupted, deliveryMu, startVars,
                 runtimeVars, stopVars, worldVars>>

\* interceptionActive: it is admitted, or refused for lack of consent.
MutateLook(m) ==
  /\ mutator[m] = "look"
  /\ Readable
  /\ mu' = None
  /\ \/ /\ caMutating' = TRUE
        /\ MutatorAt(m, "work")
        /\ UNCHANGED caAdmissionMu
     \/ /\ caAdmissionMu' = None
        /\ MutatorAt(m, "done")
        /\ UNCHANGED caMutating
  /\ UNCHANGED <<ownerEnding, startMutating, runtime, interrupted, deliveryMu, startVars,
                 runtimeVars, stopVars, worldVars>>

\* userCA.Install or userCA.Uninstall, on a context of its own.  An Install then
\* schedules the deadline of a runtime that is still there, under lifecycle.mu.
MutateWork(m) ==
  /\ mutator[m] = "work"
  /\ Readable
  /\ \/ MutatorAt(m, "settle") /\ UNCHANGED mu
     \/ MuFree /\ runtime # None /\ MutatorAt(m, "schedule") /\ mu' = ByMutator(m)
  /\ UNCHANGED <<ownerVars, deliveryMu, caAdmissionMu, startVars, runtimeVars, stopVars,
                 worldVars>>

\* scheduleUserCADeadline takes a snapshot of the runtime.
MutateSchedule(m) ==
  /\ mutator[m] = "schedule"
  /\ Readable
  /\ mu' = None
  /\ MutatorAt(m, "settle")
  /\ UNCHANGED <<ownerVars, deliveryMu, caAdmissionMu, startVars, runtimeVars, stopVars,
                 worldVars>>

\* finishCAMutation clears the flag first ...
MutateSettle(m) ==
  /\ mutator[m] = "settle"
  /\ MuFree
  /\ caMutating' = FALSE
  /\ MutatorAt(m, "unlock")
  /\ UNCHANGED <<ownerEnding, startMutating, runtime, interrupted, lockVars, startVars,
                 runtimeVars, stopVars, worldVars>>

\* ... and then unlocks caAdmissionMu.
MutateUnlock(m) ==
  /\ mutator[m] = "unlock"
  /\ caAdmissionMu' = None
  /\ MutatorAt(m, "done")
  /\ UNCHANGED <<ownerVars, mu, deliveryMu, startVars, runtimeVars, stopVars, worldVars>>

\* An assessment asked for by the watcher or the deadline of some runtime.
AssessBegin ==
  /\ \E s \in Starts : server[s] \in {"serving", "returned"}
  /\ caAdmissionMu = None
  /\ caAdmissionMu' = ByAssessor
  /\ UNCHANGED <<ownerVars, mu, deliveryMu, startVars, runtimeVars, stopVars, mutator, worldVars>>

\* It schedules the deadline of a running runtime, as an Install does.
AssessLook ==
  /\ caAdmissionMu = ByAssessor
  /\ MuFree
  /\ \E s \in Starts : runtime = s /\ watcher[s] # "none"
  /\ mu' = ByAssessor
  /\ UNCHANGED <<ownerVars, deliveryMu, caAdmissionMu, startVars, runtimeVars, stopVars,
                 mutator, worldVars>>

AssessEnd ==
  /\ caAdmissionMu = ByAssessor
  /\ mu = ByAssessor => Readable
  /\ mu' = IF mu = ByAssessor THEN None ELSE mu
  /\ caAdmissionMu' = None
  /\ UNCHANGED <<ownerVars, deliveryMu, startVars, runtimeVars, stopVars, mutator, worldVars>>

(***************************************************************************)
(* The system.                                                             *)
(***************************************************************************)
StartStep(s) ==
  \/ StartRefused(s) \/ StartFindsRuntime(s) \/ StartAdmitted(s)
  \/ StartPrepare(s) \/ StartAdmitCA(s) \/ StartInspect(s) \/ StartBuild(s)
  \/ StartPublish(s) \/ StartAwaitReady(s) \/ StartCheckDone(s)
  \/ StartDeliver(s) \/ StartAdmit(s) \/ StartApply(s) \/ StartRecord(s)
  \/ StartCommit(s) \/ StartReport(s) \/ StartWithdraw(s) \/ StartAbandon(s)
  \/ StartFinish(s)

ServerStep(s) ==
  ServeListens(s) \/ ServeProven(s) \/ ServeUnproven(s) \/ ServeEnds(s) \/ ServeBreaks(s)

WatcherStep(s) ==
  \/ WatcherReceives(s) \/ WatcherNotes(s) \/ WatcherDeliver(s) \/ WatcherAdmit(s)
  \/ WatcherApply(s) \/ WatcherRecord(s) \/ WatcherEnds(s)

StopStep(t) ==
  \/ StopCalled(t) \/ StopBegin(t) \/ StopCancel(t) \/ StopDeadline(t)
  \/ StopAwaitStart(t) \/ StopLockDelivery(t) \/ StopCleanup(t)
  \/ StopCloseTraffic(t) \/ StopUnpublish(t) \/ StopDrainCA(t)

MutatorStep(m) ==
  \/ MutateAdmit(m) \/ MutateCheck(m) \/ MutateLook(m) \/ MutateWork(m)
  \/ MutateSchedule(m) \/ MutateSettle(m) \/ MutateUnlock(m)

\* Every call has returned: the owner rests.
Rest ==
  /\ \A s \in Starts : start[s] = "done"
  /\ \A t \in Stops : stop[t] = "done"
  /\ \A m \in Mutators : mutator[m] = "done"
  /\ UNCHANGED vars

Next ==
  \/ \E s \in Starts : StartStep(s) \/ ServerStep(s) \/ WatcherStep(s)
                       \/ WatcherRequested(s) \/ ListSwitches(s) \/ CallerGone(s)
  \/ OwnerInterrupted
  \/ \E t \in Stops : StopStep(t)
  \/ \E m \in Mutators : MutatorStep(m)
  \/ AssessBegin
  \/ AssessLook
  \/ AssessEnd
  \/ Rest

Spec == Init /\ [][Next]_vars

(***************************************************************************)
(* Fairness.  A goroutine that can run does run, and the calls into System *)
(* PAC, UserCA and the file observations return.  A goroutine that waits   *)
(* for a mutex that is free again and again gets it (sync.Mutex hands over *)
(* to a starving waiter), so the steps of whoever locks one are strongly   *)
(* fair; so are the watcher's choices of a delivery request and of         *)
(* ctx.Done, since select picks at random.  Nobody has to call, to edit a  *)
(* list, to ask for an assessment, to interrupt or to go away.             *)
(***************************************************************************)
Fairness ==
  /\ \A s \in Starts :
       /\ SF_vars(start[s] # "idle" /\ StartStep(s))
       /\ WF_vars(ServeListens(s) \/ ServeProven(s) \/ ServeUnproven(s) \/ ServeEnds(s))
       /\ SF_vars(WatcherStep(s))
       /\ SF_vars(WatcherReceives(s) \/ WatcherEnds(s))
  /\ \A t \in Stops : SF_vars(stop[t] # "idle" /\ StopStep(t))
  /\ \A m \in Mutators : SF_vars(mutator[m] # "idle" /\ MutatorStep(m))
  /\ SF_vars(AssessEnd)

FairSpec == Spec /\ Fairness

(***************************************************************************)
(* Properties.                                                             *)
(***************************************************************************)
ActivationSteps == {"prepare", "admitCA", "inspect", "build", "publish", "awaitReady",
                    "checkDone", "commit", "report", "withdraw", "abandon", "finish"}

DeliverySteps == {"deliver", "admit", "apply", "record"}

\* Start s holds the activation: it has been admitted and has not finished.
Activating(s) ==
  \/ start[s] \in ActivationSteps
  \/ start[s] \in DeliverySteps /\ active[s] = s

\* Single-flight activation: whoever is anywhere in the Start Sequence is the
\* start that startMutating, startCancel and startDone describe, so there is
\* one at most, and a Stop waits for the right one.
SingleActivation == \A s \in Starts : Activating(s) => startMutating = s

\* No Install or Uninstall changes trust or signing material while a start is
\* under way, though each checks the other under a different lock.
ActivationExcludesMutation ==
  \A s \in Starts, m \in Mutators : Activating(s) => mutator[m] # "work"

\* No request to runtime s is answered, now or later: its HTTP servers are
\* closed.  A listener they were never given stays bound (StartPublish), one
\* that Serve is about to be given is closed by it (ServeListens).
Silent(s) == sockets[s] # "none" => closed[s] /\ sockets[s] # "served"

\* A start that returns anything but Started leaves no runtime behind: the one
\* it created, if any, is not published, and nothing will answer for it.
FailedStartLeavesNothing ==
  \A s \in Starts :
    start[s] = "done" /\ result[s] # "Started" => runtime # s /\ Silent(s)

\* Status never shows a running runtime without the outcome of its delivery.
RunningRuntimeHasDelivery ==
  \A s \in Starts :
    runtime = s /\ watcher[s] # "none" /\ ~ownerEnding => delivered[s]

PastCleanupLock == {"cleanup", "close", "unpublish", "drainCA", "done"}

\* Once a Stop holds deliveryMu for its cleanup, no step of any start, repeated
\* start or watcher publishes a runtime or points the PAC setting at one.
NothingNew ==
  (\E t \in Stops : stop[t] \in PastCleanupLock) =>
    /\ runtime' \in {runtime, None}
    /\ pac' \in {pac, None}
StopIsFinal == [][NothingNew]_vars

\* A Stop that reports its System PAC cleanup fulfilled stays right about it.
FulfilledCleanupHolds ==
  \A t \in Stops :
    stop[t] \in {"close", "unpublish", "drainCA", "done"} /\ ~residue[t] => pac = None

\* When a Stop returns no runtime is published, nothing answers for any that
\* ever was bound, no start is under way and no CA mutation is at work.
StopLeavesNothing ==
  \A t \in Stops : stop[t] = "done" =>
    /\ runtime = None
    /\ \A s \in Starts : ~Activating(s) /\ Silent(s)
    /\ \A m \in Mutators : mutator[m] # "work"

\* The PAC setting points only at a runtime that proved it serves, unless a
\* repeated start has delivered it before the start that activates it would.
PACEndpointProven ==
  \A s \in Starts : pac = s => ready[s] \/ \E r \in Starts \ {s} : active[r] = s

RuntimeServes(s) ==
  runtime = s /\ watcher[s] # "none" /\ ~ownerEnding /\ ~interrupted /\ ~fatal
    => sockets[s] = "served"

\* A running runtime keeps serving until a Stop begins, its serving fails or the
\* supervision of its owner ends.
RunningRuntimeServes == \A s \in Starts : RuntimeServes(s)

\* The standoff of publishDeliveryRequestLocked: a look into the runtime holds
\* lifecycle.mu and waits for trafficRuntime.mu, a list watcher holds that and
\* waits for the runtime watcher, which waits, or will, for lifecycle.mu.
Standoff ==
  /\ ~MuFree
  /\ \E s \in Starts :
       runtime = s /\ TrafficMuHeld(s) /\ watcher[s] \notin {"select", "ended"}

\* A Stop that is called returns, whatever it preempts or waits for, unless the
\* standoff lasts for ever.
StopReturns ==
  <>[]Standoff \/ \A t \in Stops : stop[t] = "called" ~> stop[t] = "done"

\* A start that was called returns, unless the standoff lasts for ever.
StartReturns ==
  <>[]Standoff \/ \A s \in Starts : start[s] \notin {"idle", "done"} ~> start[s] = "done"

\* After a Stop the goroutines of every runtime end, and Serve has closed the
\* listeners of each that was launched.
GoroutinesEnd ==
  \A s \in Starts : (\E t \in Stops : stop[t] = "done") ~>
    /\ server[s] # "serving" /\ watcher[s] \in {"none", "ended"}
    /\ server[s] = "none" \/ sockets[s] = "closed"
=============================================================================
