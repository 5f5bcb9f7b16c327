# Seamless CORS Gateway: a TLA+ model

This directory keeps a formal model of the gateway beside its code: TLA+
modules, TLC configurations that check them on small instances, and theorems
that TLAPS proves for every instance. `PROJECT.json` is the index: which
definition models which lines (`map`), what each run checks (`runs`), which
change of the code each property notices (`mutants`), where the code is hard to
test (`hazards`), and where it disagrees with its own documents (`findings`).

Paths below are relative to `src/internal/` unless they say otherwise.

## The system

`seamless-cors` is one program with six commands (`start`, `stop`, `status`,
`install-ca`, `uninstall-ca`, and the probe of a running owner). At most one
process per user is the *Gateway Owner*: it holds an OS file lock, publishes its
address in a state cache, and serves a loopback HTTP router through which the
commands of other processes reach it. An owner hosts at most one *Gateway
Runtime* (a proxy endpoint and a PAC endpoint), points the PAC setting of the
system's network services at it (*System PAC*), and may install a certificate
authority (*UserCA*) to intercept HTTPS for the hosts that the user's *Upstream
Lists* select.

| Component | State | Operations | Meets others through |
|---|---|---|---|
| Lifecycle (`gateway/lifecycle.go`, `activation.go`) | `ownerEnding`, the admitted start (`startMutating`, `startCancel`, `startDone`), `caMutating`, the published `activeRuntime`, `deliveryMu`, `caAdmissionMu`, the deadline timer, `assessmentPending` | `ExecuteStart`, `Stop`, `Status`, `Install`, `UninstallWithConsent`, `deliverSystemPAC`, assessments, the UserCA deadline | the router's handlers, the supervisor, the runtime's goroutines |
| Traffic runtime (`gateway/traffic.go`) | two listeners, list projections, the adopted UserCA and its revision, the Served Traffic Projection, two unbuffered channels | `ServeReady`, `CloseTraffic`, `watchUpstreamList`, `AdoptUserCA`, `ExpireUserCA`, `InterceptionActive` | its `mu`, the runtime watcher |
| System PAC (`systempac/systempac.go`) | the OS's settings, a publication generation | `Deliver`, `Cleanup`, `Observe` | OS tools, the user, other software |
| Owner and supervisor (`gateway/foreground*.go`) | the events and cancellation of one process | `Start`, `Run`, `superviseOwner`, `stopAndClose` | lifecycle, router, signals |
| Ownership (`gateway/discovery.go`, `owner_lock.go`, `footprint.go`, `commands.go`) | the lock, the state cache file, the nonce | `Claim`, `Verify`, `RemoveOwned`, the footprint, the client side of each command | the file system, other processes |
| Router (`gateway/transport_*.go`) | a server, `shutdownRequested` | one handler per command, graceful shutdown | lifecycle, HTTP clients |
| UserCA (`userca/*.go`) | key, certificate, the OS trust store | `Install`, `Uninstall`, `Inspect` | lifecycle, OS tools |
| File observation (`lib/fileobservation`) | one watcher, a debounce timer, the newest outcome | `observe`, `publish`, `read` | the file system, the list watchers |
| Lists, PAC routing, facades (`upstreamlist`, `pacrouting`, `httpsfacade`) | none | pure functions | traffic runtime |
| Proxy, CORS (`proxy`, `cors`) | an LRU cache of leaf certificates | header rewriting, HTTPS interception | traffic runtime |

What is hard here: seven kinds of goroutine share three mutexes of which one is
held over a channel send; a start can be cancelled by a stop, by its client and
by its own serving failure at every step; a stop must preempt a start but wait
for a CA command; an external setting is written on the strength of an earlier
reading; timers carry facts that may be replaced before they fire; and processes
find each other through a file that any of them may remove.

What makes each part correct:

* **Lifecycle.** One activation at a time, never beside a CA command; a failed
  start leaves nothing; a stop is complete and final; every command returns.
* **Traffic runtime.** What is served follows from the current facts; each
  effective change is delivered; an adopted UserCA is the installed one, and an
  expired one is withdrawn.
* **System PAC.** A foreign setting is never overwritten; success is reported
  only when it is so.
* **Ownership.** One owner at a time; a cache is removed only by who wrote it or
  once it is proved stale; a crashed owner is recovered from.
* **UserCA.** What is reported usable is complete and trusted; a refused
  installation leaves nothing behind; whatever a crash leaves, the next command puts
  in order; foreign roots and sound pairs are left alone.
* **File observation.** The last contents of the file are eventually published.
* **Lists, PAC routing, facades.** The PAC routes exactly what the selectors select,
  each HTTPS request reaches the upstream that the documented specificity names, and
  the order of lines decides nothing.
* **Proxy, CORS.** Every page may read every answer, a redirect behind a facade leads
  where upstream sent it, and a leaf certificate matches its name and its signer.

## Modules

| Module | Models |
|---|---|
| `Gateway` | what an owner promises about starts, stops, CA commands and the PAC setting, without locks or goroutines |
| `Lifecycle` | start, stop, CA admission, delivery, serving: one owner over its whole life |
| `LifecycleInvariant` | its inductive invariant, `LifecycleInv`, with `ProvenInv` and `ServingInv` |
| `LifecycleProofs` | the theorems about it |
| `LifecycleRefinement` | the refinement mapping from `Lifecycle` to `Gateway` |
| `LifecycleRefinementProofs` | the proof that `Lifecycle` implements `Gateway` |
| `RuntimeSignaling` | the goroutines of one running runtime, its locks and channels |
| `RuntimeSignalingInvariant` | its inductive invariant, `SignalingInv` |
| `RuntimeSignalingProofs` | the theorems about it |
| `TrafficProjection` | from the lines of the lists and the UserCA to the PAC, the facades and the decision to switch |
| `ProxyExchange` | the requests of a browser at the proxy while projections switch; extends `TrafficProjection` |
| `ProxyExchangeProofs` | the theorems about both: routing, switches, facades, CORS answers, redirects, certificates |
| `UserCAStore` | install, uninstall and inspection of the UserCA over files and the trust store |
| `UserCAStoreProofs` | its inductive invariant, `StoreInv`, and the theorems |
| `SystemPAC` | `Deliver` and `Cleanup` over services that fail and change |
| `SystemPACProofs` | the theorems about it |
| `Ownership` | the commands as processes: the lock, the state cache, the router, the supervisor, crashes |
| `OwnershipInvariant` | its inductive invariant, `OwnershipInv`, with `SoleStopInv` and `RunInv` |
| `OwnershipProofs` | the theorems about it |
| `FileObservation` | the observation of one file: watcher, debounce, recovery, publication; with its invariant, `ObservationInv` |
| `FileObservationProofs` | the theorems about it |
| `MC...` | the instances of the modules above that TLC checks |

How they fit together: `Lifecycle` has the life of a runtime and leaves to
`RuntimeSignaling` what happens within one, which leaves to `TrafficProjection` what a
switch computes and to `ProxyExchange` what is served with it. A delivery is one
step there and the whole of `SystemPAC`; a CA command's work is one step in
`Lifecycle` and `RuntimeSignaling`, and the whole of `UserCAStore`; a list's outcome is
what `FileObservation` publishes. `Ownership` puts several processes around the
owner that `Lifecycle` is the inside of.

A definition with a suffix (`RuntimeWithout_kept`) is the definition before the
underscore with one plausible mistake; a property listed with it in `mutants` is
violated once it takes the definition's place.

### Gateway

The abstract specification. Its state is what a user of an owner can tell: the phase
(serving, ending, final), the starts in the Start Sequence, those that succeeded, the
published runtime, the runtimes with open endpoints, the runtime that the PAC setting
points at, the CA commands at work, and the stops that have returned. `Admit` allows one
activation at a time and none beside a CA command; `Conclude` lets a start end without
success only when it has left nothing; a delivery may happen until a stop is final; a stop
returns when nothing is left. `LifecycleRefinement` maps to it the program counters,
flags and locks of `Lifecycle`, most of whose steps change nothing of it.

### Lifecycle

A step is one critical section of `lifecycle.mu`, one wait (a channel receive, a
`select`), or one call into another module. `start[s]`, `stop[t]`, `mutator[m]`,
`server[s]` and `watcher[s]` are the program counters of `ExecuteStart` with the
Start Sequence, of `Stop`, of `Install`/`Uninstall`, of `ServeReady` and of
`watchRuntimeChanges`. A start creates at most one runtime, which is named by it.

A critical section of `lifecycle.mu` is one step and has to find `mu` free. Where the
code looks into the published runtime under that mutex (the look of an uninstall, the
scheduling of a deadline, the finish of an assessment), it needs `trafficRuntime.mu` as
well, which a list watcher keeps for as long as it offers a delivery request
(`sending`); there `mu` is held from one step to the next, by the `mutator` or by an
assessor, and all other sections wait.

`sockets[s]` is what has become of a runtime's two listeners: bound, served (registered by
`http.Server.Serve`, `ServeListens`) or closed. `closed[s]` says that the HTTP servers
have been closed, which closes only listeners that are registered
(`SocketAfterClose`); a `Serve` that comes later closes its listener itself, and a
listener that no `Serve` is ever given stays bound. `interrupted` says that the owner's
supervision is over (`OwnerInterrupted`): the contexts of the owner's own start and of
its runtime end then, before the `Stop` that follows.

Each action has the name of the code it stands for: `StartPublish` is
`publishRuntime` with the launch of `ServeReady` and its cancelled branch;
`StartAwaitReady` is the `select` on readiness, `done` and the context;
`StartDeliver`/`StartAdmit`/`StartApply`/`StartRecord` are the parts of
`deliverSystemPAC` (the wait for `deliveryMu`, admission under `mu`, the call into
System PAC, the record); `StartReport` is the reading of the guidance;
`StartWithdraw`/`StartAbandon` are `withdraw` and the
deferred close; `StopCalled` to `StopDrainCA` are the steps of `Stop` in order;
`ListSwitches` and `WatcherReceives` are the two ends of a delivery request.

Reductions, each of which merges only steps that no other goroutine can tell
apart: the record and the unlock of `deliveryMu` are one step; the two listeners of a
runtime go through their lives together; `startMutating`, `startCancel` and `startDone` are
set and cleared together and are one variable; a runtime's context is derived from
its start's, and one flag, `cancelled`, stands for both, because nobody cancels
the runtime's alone while its start is still under way except `withdraw`, which is
the start's last act.

Abstracted: what an assessment finds (an assessor is whoever holds
`caAdmissionMu`), the deadline timers, `assessmentPending` and `userCAState`
(these are in `RuntimeSignaling`), `transientOwner` (an owner that serves starts
leaves it false), and the state cache. Each call happens once.

### RuntimeSignaling

One runtime, running throughout. `pc` has one program counter per goroutine: the
watcher of each Upstream List, the runtime watcher, assessments, the deadline
handler, and CA commands. `fMu`, `rMu` and `caMu` are `lifecycle.mu`,
`trafficRuntime.mu` and `caAdmissionMu`, as far as they are held from one step to
the next: `rMu` over the send of a delivery request (`Publish`), `fMu` over a look
into the runtime (`ScheduleBegins`, `MutatorAdmits`), `caMu` over a whole
assessment or CA command.

`SwitchTo` with `Switch` is `switchTrafficProjectionLocked`, `Publish` is
`publishDeliveryRequestLocked`, `NewRevision` is `userCARevision++`, `Adopt` is
`AdoptUserCA`; the `Assess...` actions are `assessUserCA` and
`finishUserCAAssessment`, the `Deadline...` actions `handleUserCADeadline`, the
`Mutator...`, `Install...` and `Uninstall...` actions `Install` and
`UninstallWithConsent`.

A critical section of `fMu` that changes nothing here, because the runtime runs
throughout, is no step: the look of an assessment or of an install before it
adopts, and the record of what was found for `Status`. The admission of a delivery
and the call into System PAC that follows it are one step.

A projection has three parts, as `trafficProjection` has: what the comparison of
`trafficProjectionSemantics.equivalent` sees of it (the PAC and the kinds of routes),
the identity it intercepts with, and the facades, which the comparison does not see
(`Equivalent`). What selectors make of the first and the last are the constants
`SemanticsOf` and `FacadesOf`. The theorems hold whatever they are; the instance has a
table for the selections of its lists, out of four selectors, and TLC checks that
`TrafficProjection` derives the same equalities from the same selectors (`DerivedAlike`
in `MCRuntimeSignaling`).

Abstracted: a list outcome is received and applied in one step, with any
contents (the list watcher has no other state); only equality of revisions
matters, so a timer carries whether its revision is current; there is one
deadline goroutine at a time; a UserCA expires only while it is installed or timed,
since nothing else looks at it; the runtime's context is never done and no start
is under way, so the branches for these return to where they would. `Assessors`
bounds how many assessing goroutines overlap: two are enough for one in its tail
beside one that holds `caAdmissionMu`.

### SystemPAC

One call at a time holds `mu`; the locals of that call are variables. Every
reading, writing and verification of a service may fail, and a write that fails
may have been applied. Between any two steps someone else may change a setting or
a service may come or go (`MaxEdits` bounds how often); `edited` remembers which,
for the properties only. A publication URL is its endpoint and generation.
`Observe` changes nothing and is left out.

### Ownership

Each process is one invocation of a command: a `start`, a `serve`, a `stop`, or an
`install-ca` or `uninstall-ca`. `lock`, `cache` and `pac` are what they share: the
Gateway Ownership Lock, the owner that the Gateway State Cache names, the owner
that the PAC setting points at. `pc[x]` is where process x is, `call[s]` where its
`executeStartLoop` is, which in a host runs beside the supervisor. `router`,
`shutdown`, `ending`, `running`, `starting` and `mutating` are what an owner keeps:
its `http.Server`, `shutdownCh`, `ownerEnding`, `runtime`, `startMutating` with who
asked for it, and `caMutating` with who asked for it.

`Discover` to `LockTaken` are `discover` and `TryAcquireOwnerLock`; `StartCleans`,
`ServeVerifies`, `Claim` and `OwnerlessCleanup` are what `start`, `serve`,
`owner.Run`, `runTransient` and `cleanRuntime` do under the lock; the `Start...` and
`CA...` actions are the owner's answers to a start and to a CA command, its own or
routed; `StopBegins` to `StopRemoves` are `lifecycle.Stop`, run by the handler of a
routed stop or by the owner itself; `Interrupted` to `Cancelled` are
`superviseOwner` with `cancelAndWait`; `RouterCloses` to `RouterForced` are the
graceful and the forced close; `Crash` kills an owner at any step.

Reductions: reading the cache and probing the owner it names are one step, since
whoever answers the probe was serving when its name was read; the removal of the
cache by the holder of the lock is one step, while that of a stop is a look and a
removal, because others may come between; the inside of a start or a stop is in
`Lifecycle`, and here has one step for each effect that another process can see.
What is uncertain is a choice: a cleanup or a delivery may fail, a claim may fail,
a probe may not be answered in time, a supervisor may be interrupted.

Left out: `status`, which holds the lock for a moment as a claim that fails does;
the end of a client, which leaves its handler to go on in the owner; what becomes
of a runtime by itself (see `lifecycle_routed`).

### UserCAStore

One command at a time, each of whose calls is a step: `Inspect` is `CA.inspect` with the
decision of `install.go:9-22`, `RemoveTrust`, `RemoveDir` and `Wipe` are `uninstallAll`,
`MakeDir`, `WriteCert` and `WriteKey` are `createAuthority`, `AddTrust` is the trust
mutation, `Repair` the permissions, `Verify` the inspection that ends an install. A
removal of trust is one step that takes away any part of the owned roots; a write may
be torn, the removal of the directory may stop half way, a trust mutation may be refused
with or without effect; `uninstallAll` joins its errors and goes on, as the code does. The
process may die between any two calls (`Crash`), authorities age towards their `NotAfter`, and
between commands the user or another Gateway edits files and trust (`Edit`).

An authority is a certificate with its key. `fit`, `faulted` and `lost` are history, for
the properties. Left out: the encoding of certificates, and that a trust store may
hold a root twice.

### TrafficProjection and ProxyExchange

`TrafficProjection` follows the code from a line to a decision: `Decode`,
`Deduplicate`, `Merge`, `CanonicalUpstreams`, `Facades` (`httpsfacade.Project`),
`PACRoutes` and `FindProxy` (`pacrouting.Project` and the script it generates),
`Latest` and `Equivalent` (`switchTrafficProjectionLocked`). A hostname is a number,
`Parent` drops its first label; a line is what its URL parser finds in it. The loops of
`deduplicate` and `httpsfacade.Project` are functions on how much of the list is done;
`sort.Slice` puts each element behind as many as come before it, which is what sorting
does to a list without repetitions. The properties compare with definitions that name no
route and no facade: `DocumentedUpstream` and `Selects`.

`ProxyExchange` adds the browser: a session is a CONNECT, tunnelled or intercepted, and
keeps the handler (so the facades and the signer) it was admitted with; a plain
request meets the handler of the moment. `Handled` is the chain of hooks of
`proxy.New`; `Preflight` and `Repair` are `cors.go`, over headers as sets of values;
`RewriteResponse` is the facade's redirect; `Fetch` is `certificateCache.Fetch`, its
list and its map apart. goproxy is external. A request and its answer are one step,
since they share nothing with others; one session at a time is enough, since sessions
share only the cache, which a switch replaces.

Left out: header names and values beyond those CORS is about, bodies, HTTP versions,
the PAC endpoint's own caching headers.

### FileObservation

`pc` is where `observe` is: opening a watcher, looking (`Lstat`), reading
(`ReadFile`), publishing, or in its `select`, each branch of which is an action.
Opening the first watcher and rebuilding it are one action, since what follows is
the same. `armed` is the debounce timer, which may fire at any time; `pending` is
what waits in the watcher's two channels, without order or repetition, because
several changes arm the timer as one does; `hearing` says whether a change will
get there. `known` is what the consumer, `watchUpstreamList`, has received.

The environment changes the file, removes, renames or replaces its directory, makes
the watcher fail, and lets an overflow swallow changes. An overflow swallows no loss
of the directory: the watchers of the supported systems report that on its own. A
file that cannot be read for a moment and then can, without a change that is heard,
is not modelled.

## Runs

| Run | Instance | Shows |
|---|---|---|
| `lifecycle` | two routed starts, a stop, a CA command, listeners that may fail | the safety of `Lifecycle`, with the inductive invariant, and that it implements `Gateway` |
| `lifecycle_live` | one start of the hosting process, an interrupt, list edits, a stop, a CA command, fair | commands return but for the standoff, goroutines end, the runtime serves |
| `lifecycle_routed` | one routed start | the finding on routed starts |
| `systempac` | two services, two deliveries, a cleanup, one outside change | protection, truthful success |
| `signals` | a list with three contents, two of which differ in facades alone, an assessment, the deadline, an install, an uninstall, two UserCAs | the safety of `RuntimeSignaling` |
| `signals_standoff` | a list, an uninstall, a UserCA, fair | the finding on the standoff |
| `ownership` | any three of a start, a serve, a stop and a CA command, one crash, fair | the safety of `Ownership`, with the inductive invariant; stops end owners, commands return |
| `ownership_orphan` | two starts | the finding on a host's own start |
| `observation` | two contents, four changes, two failures, fair | the safety and liveness of `FileObservation` |
| `userca` | three authorities, a foreign root | the safety of `UserCAStore` |
| `traffic` | two lists of six contents, two UserCAs, four hostnames, five requests, six replies, a cache of two | routing, facades, CORS, redirects, certificates |
| `traffic_mappings` | two lists, one UserCA, no requests | the finding on facade mappings |

Each property of a passing run is violated by the mutant that `PROJECT.json` lists for
it: `ImplementsGateway`, for instance, by a delivery that is admitted although the owner
is ending, and `LeafCertificatesMatch` by a cache that survives a switch.

**Bounds.** Two starts are what single-flight and repeated delivery need: one that activates
beside one that is refused, repeats, or activates later. One stop meets them at every step;
the theorems cover any number of stops. One CA command meets an assessment that holds
`caAdmissionMu`, and is turned away, or holds it itself, and turns a start away. In
`systempac` a second service is the one that fails while the first succeeds, a second
delivery the one that must use a new URL, and one edit falls at every point of every call;
more edits only repeat it. In `signals` a second UserCA is the one adopted while the first
one's deadline is pending, an install beside an uninstall is each order of the two, and of
the three contents two have one PAC and different facades. In `lifecycle` the lists do not
change, since its properties are not about who waits for whom; in `lifecycle_live`, whose
properties are, they do. In `ownership`, `MaxCalls` lets any three of the four processes
run: a host and its rival or successor, and a command that finds either of them, nobody, or
another command that is an owner; one crash leaves what a successor finds. One stop is a
limit of substance: `Discoverable` and `RoutingKept` fail with two (see below). In
`observation` four changes replace the directory and change the file before and after, and
two failures make the second fall upon a rebuilt watcher. In `userca` the authorities are
the stored one, one left by another Gateway or a failed removal, and a new one. In `traffic`
the contents differ in order and spelling, collide as facades, shadow one another, carry
warnings or are not UTF-8; of the four hostnames one is below another and one below that, so
that exact and wildcard matches differ; a cache of two evicts at the third hostname. The
largest run, `signals`, has 2.1 million states, and `lifecycle` 750 thousand.

**Deadlock** is checked everywhere but in `signals.cfg` and `signals_standoff.cfg`,
where the code can really stop, as the latter run shows, in `observation.cfg`, where
an observer may wait for ever for the next change, and in the `ownership` runs,
where nothing happens once every command has returned; `CommandsReturn` says that
this is how they end.

**Fairness.** Every goroutine that can run does run (weak fairness), and calls into
System PAC, UserCA and the file observations return: each has a context or a process
that ends. A goroutine that waits for a `sync.Mutex` gets it, because a waiter that
starves is handed the lock; a goroutine that waits on a channel is queued; and
`select` chooses at random among what is ready: these steps are strongly fair. No
fairness makes anybody call a command, edit a file, go away, or makes a certificate
expire. In `ownership` a command that has begun runs on, and so does a router
that was told to close; nobody has to begin a command, to interrupt a host or to
answer a prompt, but a prompt ends when its context does. In
`observation` the observer runs on and a consumer that has not left receives; changes
end because they are bounded, which is the case `Settles` is about. That each switch of a
projection is in the end delivered is not claimed: `signals_standoff` refutes it, and
`RequestNeverLost` says what remains, that its request is never dropped. For the same
reason `StopReturns` and `StartReturns` except behaviours in which the standoff lasts for
ever (`Standoff`: a look into the runtime holds `lifecycle.mu` and waits for a sender whose
watcher is not there to receive); `GoroutinesEnd` needs no exception, since it asks what
follows a stop that did return. `userca` and
`traffic` claim no liveness: their steps are calls that return.

## Proofs

The theorems hold for every value of the constants: any number of calls, lists, lines,
services, UserCAs, assessors, hostnames, requests and replies. They rest on the named
assumptions on the constants alone, which TLC evaluates in every run: identities of
different kinds differ, bounds are numbers, and a list file is a sequence of lines or
undecodable (`FilesAssumption`), as the `Location` of a reply is absent, unreadable or a
URL (`RepliesAssumption`).

Every safety property that a passing run checks, invariant or about steps, is a theorem.
Some theorems assume more than that, and say so where they are stated:

* `HostStaysDiscoverable` and `RuntimeKeepsRouting` assume `OneStop`, at most one stop.
  They are false of two.
* `ServingContinuity` assumes that no start reaches its owner as a request
  (`Routed = {}`), and `SoleRuntimePreserved` that there is at most one start
  (`OneStart`). Their properties are false without, as `lifecycle_routed` and
  `ownership_orphan` show; the theorems say that nothing else breaks them. What
  holds without the assumption is proved beside them: `HostedRuntimeServes`, for each
  start that comes from the owner's own process, whatever routed ones do, and
  `ServedRuntimePreserved`, for the runtimes of `serve`.

In the same way `PlainMappingsAreCurrent` delimits what `traffic_mappings` shows: it
assumes that no list names an HTTPS origin.

None of the safety properties is inductive. The arguments:

* `LifecycleInv` has six parts beside types. `LockInv`: whoever is in a critical
  section holds its lock. `AdmissionInv`: the flags describe the calls, and a
  start and a CA command exclude each other although they check different locks
  (`startMutating` is read under `mu` by a command that set no flag yet, and
  `caMutating` by a start). `SocketInv`: what the serving goroutine, its readiness and
  the closing of the servers tell about the listeners. `OwnershipInv`: from the birth of
  its listeners to the closing of its HTTP servers, a runtime is published or still owned
  by its start. `DeliveryInv`: a
  commit follows a record. `StopInv`: what a stop has established at each step; in
  particular a start that is still active is the one it awaits, so once the wait
  is over none is, and once `deliveryMu` is taken none can deliver any more.
  From these, `StopFinality`, `CleanupIsLasting`, `StopIsComplete`,
  `FailureAtomicity`, `ActivationIsSingle`, `ActivationIsolation` and
  `DeliveryIsReported`. `EndpointIsProven` needs `ProvenInv` besides: a call delivers for
  one runtime all along, and for its own only after `close(ready)`.
* `ServingInv`: only a Stop, the end of the owner's supervision, the start's own failure or
  the end of a routed caller cancels the context of a runtime, and only a cancelled context
  or a serving failure closes its endpoints; who has given up a runtime does not take it up
  again (`GivenUpForGood`). From this, `HostedRuntimeServes` and `ServingContinuity`.
* `LifecycleImplementsGateway`: every step of `Lifecycle` is a step of `Gateway` or changes
  nothing of it. `LifecycleInv` and `EndpointInv` (no HTTP server closes before its
  runtime is published) make the guards of `Gateway` true where `Lifecycle` acts. Frame
  lemmas (`SequenceAfter`, `OpenAfter`, ...) say how the step of one call changes the
  sets that the mapping builds; then there is one lemma per kind of step.
* `ProtectionInv` in `SystemPACProofs`: what a call is about to write it has seen
  not to be foreign, and the setting has not become foreign since unless it is
  marked as edited. `ForeignIsProtected` follows. `FulfillmentInv` adds what a call
  without an error so far has achieved at each step of its loops, and that no
  publication is ahead of the generation, so that a new one differs from whatever is
  found: `FulfilledCleanupLeavesNone` and `DeliveryReachesEveryService`.
* `SignalingInv`: which goroutine holds which mutex at which step; nothing is found by
  anyone but the holder of `caAdmissionMu`; the retained UserCA is the installed one or
  none, none during a CA command; and a timer whose revision is current is set for the
  retained UserCA. `ProjectedOnce` and `SwitchServes` say that a switch serves what is
  equivalent to the projection of the facts. From these, that the PAC, the kinds of routes
  and the UserCA that are served are current, that no request is lost, that CA commands run
  on a withdrawn runtime, and that a late deadline is harmless.
* `OwnershipInv`: `TenureInv` says exactly which steps belong to the tenure of the lock,
  so that holding it is known from where a process is; `RouterInv` puts a router that
  answers inside its owner's tenure. `AdmittedInv` says that what an owner has admitted
  is with the process that asked, at a step the owner's close waits for, and `StopInv`
  that a stop that has passed a wait knows what it waited for, because `ending`
  admits nothing new; that is why the forced close after a routed stop finds nothing
  at work. From these, `OneOwner` and `AdmittedWorkIsOwned`.
  `SoleStopInv` adds, for at most one stop (`OneStop`), that the owner a stop is at
  work on is still in its tenure: a router drops requests only once a stop has returned.
  From this, `HostStaysDiscoverable` and `RuntimeKeepsRouting`, which are false of two.
  `RunInv` says that the host of a runtime that no stop has reached is not on its way out,
  because a serve leaves only after a stop, and a start only after a stop or without a
  runtime of its own. It needs the host's start to be the only one: a second start's
  runtime makes the host's own start fail. It is stated for a set of hosts, so that one
  induction gives both `ServedRuntimePreserved` and `SoleRuntimePreserved`.
* `ObservationInv`: from the change of a file to the consumer there is always something
  that carries it: a signal in the watcher's channels, the timer, or a reading still to
  come; a watcher that hears nothing has said so. From this, `NoChangeIsSwallowed`.
* `StoreInv`: what the files and the trust store may hold at each step of a command, by what
  the command has decided: while a new pair is written no owned root is trusted unless a
  removal failed or somebody edited, and what is reported was just inspected. From this the
  five state properties of `UserCAStore`; `NoOverlap`, `ForeignUntouched` and
  `ValidPairKept` are about steps and follow from it.
* `TrafficInv`: each source holds a projection of some file, what is served is equivalent to
  `Latest` of the current lists and UserCA, and no two facades stand for one browser origin.
  It follows from lemmas about the operators, in the order of the code. `UpTo` is the
  induction on numbers, and `LoopRuns` follows from it: a loop over a list runs to its end,
  so that its function has the values its turns give it. From them, what `Deduplicate`
  keeps, what a flattened sequence holds, and that `Facades` gives each origin a facade
  exactly where the documented specificity wants one (`FacadesAreWanted`).
  `RanksAreDistinct` and `RankedIsPermutation` show `Sorted` to be a permutation that
  depends on the set alone (`CanonicalIsUnique`). `PACRoutesFacts` and `FindProxyFacts` say
  what the script decides, `LatestFacts` puts them together. From these,
  `RoutingIsDocumented`, `SwitchesAreDocumented` and `OrderSwitchesNothing`.
* `PlainInv` adds that what is served is the projection of some list of HTTP origins. Such
  lists can be read off their PAC (`PACShowsOrigins`), so that equivalent projections have
  the same facades (`EquivalentIsExact`), which is what fails when an HTTPS origin's route
  may stand for a facade's. From this, `PlainMappingsAreCurrent`.
* `ExchangeInv`: the handler of an open session has distinct facades, and the answer at
  hand is as it should be. `RepairFacts`, `PreflightFacts` and `HandledRedirects` say what
  one answer is, whatever the request and the reply. From these, `AnswersAlwaysReadable`
  and `RedirectsAlwaysStay`.
* `CertificatesAlwaysMatch`: a hit permutes the list (`MoveToFrontPermutes`), a miss evicts
  from list and map the same hostname, and a switch replaces both.

Only model-checked: liveness (`StopReturns`, `StartReturns`, `GoroutinesEnd`,
`StopEndsOwner`, `CommandsReturn`, `Settles`, `CloseReturns`), because fairness and
`ENABLED` are out of the prover's reach. Induction over data is within it only where it
can be had from the well-foundedness of the numbers, as in `UpTo`, since the library's
induction theorems take an operator, which no installed prover instantiates; this is why
the loops of the lists are functions on numbers and not recursive operators. What the
other theorems state (types, the inductive invariants `SignalingInv`, `ObservationInv` and
`StoreInv`, and parts of invariants such as `ActivationIsSingle`, `StopFinality` and
`OneOwner`) no run checks any more by itself: the proofs cover it for every instance.

## Where code and documents disagree

* `lifecycle_routed`: the runtime of a routed start lives under the context of the
  HTTP request, and ends with it.
* `signals_standoff`: a projection switch waits for the watcher with
  `trafficRuntime.mu`, an uninstall or a deadline schedule waits for that mutex with
  `lifecycle.mu`, the watcher waits for `lifecycle.mu`.
* `ownership_orphan`: a host whose own start comes second, because another process's
  start was admitted before it or while the user was asked for consent, exits without
  a stop and takes the other's runtime with it, with the PAC setting left behind. (The
  model lets that runtime live on after its request, which `lifecycle_routed` shows it
  does not; the two are independent.)
* `traffic_mappings`: whether to switch is decided on the PAC, three booleans and the
  UserCA; an HTTPS Origin Selector that takes the place of a facade changes none of
  them, so the proxy goes on forwarding to the plain origin. `RuntimeSignaling` makes
  the same comparison, and `ServesCurrentFacts` promises of the facades only that they were
  derived together with what is served.

Others were met and have no run of their own:

* A deadline that finds `caAdmissionMu` taken sets `assessmentPending`
  (`gateway/lifecycle.go:610-618`), but an uninstall that is refused for want of
  consent, or an assessment whose finish has already looked, never reads it, and no
  timer is left: the runtime goes on with the expired UserCA. `src/CONTEXT.md:280` says
  that Gateway performs one fresh assessment. `RuntimeSignaling` has this behaviour.
* A routed stop whose connection is dropped by the close that follows another stop goes on
  in the owner's process, and its read-then-remove of the cache, or its System PAC
  cleanup, may hit the next owner (`gateway/discovery.go:132-137`,
  `gateway/transport_server.go:142-148`; TLC finds both in `ownership` with a second
  stop).
* A repeated start delivers System PAC for a runtime that has not proved readiness yet
  (`gateway/lifecycle.go:728-735`, against the comment at `gateway/activation.go:131` and
  `src/docs/adr/0001`), which is why `PACEndpointProven` excepts it.
* Between the reading of a setting and the write that relies on it the user may set a
  foreign PAC, which is then overwritten (`systempac/systempac.go:65-77`, `103-115`;
  `src/CONTEXT.md:452` says foreign settings are never changed): the code offers no
  atomic way, and `ForeignSurvives` says what it does guarantee.
* A host that is interrupted cancels the context its runtime derives from, so the endpoints
  close while System PAC still points at them, before `Stop` cleans it
  (`gateway/foreground.go:79-101`). `OwnerInterrupted` is this step, and
  `RunningRuntimeServes` excepts what follows it.
* A start that is cancelled between binding its two listeners and publishing its runtime
  leaves them bound until the process ends (`gateway/activation.go:114-120`): the deferred
  `CloseTraffic` closes HTTP servers that were never given the listeners
  (`gateway/traffic.go:278-287`). Nothing answers there, which is what
  `FailedStartLeavesNothing` and `StopLeavesNothing` say (`Silent`); that the sockets are
  released they do not say.
* A start that is withdrawn after its delivery does not clean System PAC
  (`gateway/activation.go:121-129`).
* Two stop requests may both find the shutdown channel open and both close it
  (`gateway/transport_server.go:203`).
* An install and a start that arrive together may both be told that another command is
  mutating: each has taken one of the two things the other checks
  (`gateway/lifecycle.go:736`, `901`).
* `uninstallAll` removes the directory even when the removal of trust failed
  (`userca/storage.go:20-28`), so a trusted root may outlive its key; `lost` in
  `UserCAStore` marks this, and `TrustHasPair` excepts it.
* `src/CONTEXT.md:264` has an intercepted connection consult the current facades for each
  request; `proxy.New` binds them to the handler that admitted the connection. (The later
  `src/docs/adr/0011` switches the two together.)

## Not modelled

* Parsing of arguments and rendering (`inbound/cli`): no state besides the signal that
  cancels a command, which `Ownership` has (`Interrupted`).
* What `status` reports, in the lifecycle and over the router: it changes nothing, and most
  of it is wording.
* The creation of a missing Upstream List on consent (`gateway/upstreamlist.go`): one
  exclusive file write, whose refusal or failure is a choice in `StartPrepare`.
* The bodies, tokens and status codes of the router's requests (`gateway/transport_*.go`).
* The lexical grammar of Upstream List files (IDNA, URL parsing): a line is what the
  parser finds in it.
* The normalisation of a request's URL in the PAC script
  (`pacrouting/proxy.pac.js:54-85`: scheme and default port): URLs reach `FindProxy` with
  their port.
* Certificates' encoding, and the OS tools behind network services and the trust store, of
  which only success, failure and effect count.
* goproxy and net/http, but for what the code relies on.
* What the supervisor does with a signal or a serving error, beside the end of the owner's
  context (`OwnerInterrupted`): the teardown is in `Ownership`, which has no endpoints.
* Demos, packaging and diagrams: not part of the running program.
