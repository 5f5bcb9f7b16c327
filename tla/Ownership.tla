------------------------------ MODULE Ownership ------------------------------
(***************************************************************************)
(* The commands of seamless-cors as processes that share one machine       *)
(* (src/internal/gateway: commands.go, foreground_start.go, discovery.go,  *)
(* owner_lock.go, footprint.go), and the supervisor of the one that owns   *)
(* the gateway (foreground.go).  They meet in an OS file lock, in the      *)
(* Gateway State Cache that names an owner, in its router, and in the PAC  *)
(* setting.                                                                *)
(*                                                                         *)
(* A step is one operation on the lock, the cache file or the PAC setting, *)
(* one exchange with a router, or one wait.  What goes on inside an owner  *)
(* is in Lifecycle; here a start, a stop and a CA command are the few      *)
(* steps that other processes can tell apart.                              *)
(*                                                                         *)
(* A definition whose name has a suffix, such as Drained_always, is the     *)
(* definition before the underscore with one plausible mistake, kept to    *)
(* show that a property notices the mistake.                               *)
(***************************************************************************)
EXTENDS Naturals, FiniteSets

CONSTANTS
  Starts,     \* `start` processes
  Serves,     \* `serve` processes
  Stops,      \* `stop` processes
  CACommands, \* `install-ca` and `uninstall-ca` processes
  MaxCrashes, \* bounds how many owners die
  None        \* no process

Procs == Starts \cup Serves \cup Stops \cup CACommands
Hosts == Starts \cup Serves
Owners == Hosts \cup CACommands

ASSUME KindsDiffer ==
  /\ Starts \cap (Serves \cup Stops \cup CACommands) = {}
  /\ Serves \cap (Stops \cup CACommands) = {}
  /\ Stops \cap CACommands = {}
  /\ None \notin Procs
  /\ MaxCrashes \in Nat

VARIABLES
  lock,     \* who holds the Gateway Ownership Lock
  cache,    \* the owner that the Gateway State Cache names
  pac,      \* the owner whose PAC endpoint the system's setting names
  pc,       \* where each process is
  target,   \* the owner a process has found, or is
  router,   \* each owner's router
  shutdown, \* the owners whose router was asked to shut down
  ending,   \* the owners that are ending
  running,  \* the owners with a Gateway Runtime
  starting, \* the start that an owner has admitted
  mutating, \* the CA command that an owner has admitted
  call,     \* where the ExecuteStart loop of each start is
  asked,    \* the starts that have asked for consent to create a list
  crashes

ownerVars == <<router, shutdown, ending, running, starting, mutating>>
vars == <<lock, cache, pac, pc, target, ownerVars, call, asked, crashes>>

ProcOrNone == Procs \cup {None}
OwnerOrNone == Owners \cup {None}
Steps == {"idle", "lock", "discoverAgain", "clean", "verify", "claim",
          "cleanup", "host", "cancel", "cancelClose", "disown", "close",
          "drain", "remove", "release", "leaving", "routed", "request", "work",
          "end", "stop", "settle", "stopOwns", "stopRemoves", "done", "crashed"}
Calls == {"none", "call", "activate", "consent", "started", "notStarted"}

TypeOK ==
  /\ lock \in ProcOrNone
  /\ cache \in OwnerOrNone
  /\ pac \in OwnerOrNone
  /\ pc \in [Procs -> Steps]
  /\ target \in [Procs -> OwnerOrNone]
  /\ router \in [Owners -> {"none", "serving", "closing", "closed"}]
  /\ shutdown \subseteq Owners
  /\ ending \subseteq Owners
  /\ running \subseteq Owners
  /\ starting \in [Owners -> Starts \cup {None}]
  /\ mutating \in [Owners -> CACommands \cup {None}]
  /\ call \in [Starts -> Calls]
  /\ asked \subseteq Starts
  /\ crashes \in 0 .. MaxCrashes

\* Nothing runs, and nothing is left behind by what ran.  (Crash leaves something.)
Init ==
  /\ lock = None
  /\ cache = None
  /\ pac = None
  /\ pc = [p \in Procs |-> "idle"]
  /\ target = [p \in Procs |-> None]
  /\ router = [o \in Owners |-> "none"]
  /\ shutdown = {}
  /\ ending = {}
  /\ running = {}
  /\ starting = [o \in Owners |-> None]
  /\ mutating = [o \in Owners |-> None]
  /\ call = [s \in Starts |-> "none"]
  /\ asked = {}
  /\ crashes = 0

Goto(p, step) == pc' = [pc EXCEPT ![p] = step]
Alive(o) == pc[o] \notin {"done", "crashed"}
\* verifyHTTPRouter: the router that the cache names knows the token in it.
Answers(o) == o # None /\ router[o] = "serving"
\* Does a request of process x reach its owner?
Reaches(x) == target[x] = x \/ Answers(target[x])

(***************************************************************************)
(* Discovery and the lock.                                                 *)
(***************************************************************************)
\* Where a process goes on once it has found a live owner.
Routed(x) ==
  CASE x \in Starts -> "routed"
    [] x \in Stops -> "stop"
    [] OTHER -> "request"

Route(x) ==
  /\ Goto(x, Routed(x))
  /\ call' = IF x \in Starts THEN [call EXCEPT ![x] = "call"] ELSE call

\* discover reads the cache and probes the owner it names.  (Whoever answers the
\* probe was serving when its name was read.)
Discover(x) ==
  /\ \/ pc[x] = "idle" /\ x \notin Serves
     \/ pc[x] = "discoverAgain"
  /\ Answers(cache)
  /\ target' = [target EXCEPT ![x] = cache]
  /\ Route(x)
  /\ UNCHANGED <<lock, cache, pac, ownerVars, asked, crashes>>

\* No cache, or nobody answers, or not in time.  The second time that is all.
DiscoverNobody(x) ==
  /\ \/ pc[x] = "idle" /\ x \notin Serves /\ Goto(x, "lock")
     \/ pc[x] = "discoverAgain" /\ Goto(x, "done")
  /\ UNCHANGED <<lock, cache, pac, target, ownerVars, call, asked, crashes>>

AtLock(x) == pc[x] = "lock" \/ (pc[x] = "idle" /\ x \in Serves)

LockFree_always == TRUE
LockFree == lock = None

\* TryAcquireOwnerLock.
Locks(x) ==
  /\ AtLock(x)
  /\ LockFree
  /\ lock' = x
  /\ Goto(x, CASE x \in Starts -> "clean"
               [] x \in Serves -> "verify"
               [] x \in Stops -> "cleanup"
               [] OTHER -> "claim")
  /\ UNCHANGED <<cache, pac, target, ownerVars, call, asked, crashes>>

\* Whoever loses the race looks for the winner once; a serve or a stop fails.
LockTaken(x) ==
  /\ AtLock(x)
  /\ lock # None
  /\ Goto(x, IF x \in Serves \cup Stops THEN "done" ELSE "discoverAgain")
  /\ UNCHANGED <<lock, cache, pac, target, ownerVars, call, asked, crashes>>

(***************************************************************************)
(* From the lock to a published owner.                                     *)
(***************************************************************************)
\* Under the lock a start verifies once more, and removes a stale cache.
StartCleans(x) ==
  /\ pc[x] = "clean"
  /\ IF Answers(cache)
       THEN /\ target' = [target EXCEPT ![x] = cache]
            /\ Route(x)
            /\ UNCHANGED cache
       ELSE /\ \/ cache' = None /\ Goto(x, "claim")
               \/ cache # None /\ Goto(x, "release") /\ UNCHANGED cache
            /\ UNCHANGED <<target, call>>
  /\ UNCHANGED <<lock, pac, ownerVars, asked, crashes>>

ServeVerifies(x) ==
  /\ pc[x] = "verify"
  /\ Goto(x, IF Answers(cache) THEN "release" ELSE "claim")
  /\ UNCHANGED <<lock, cache, pac, target, ownerVars, call, asked, crashes>>

\* Serve the router, publish it, and go to work.
Claim(x) ==
  /\ pc[x] = "claim"
  /\ cache' = x
  /\ target' = [target EXCEPT ![x] = x]
  /\ router' = [router EXCEPT ![x] = "serving"]
  /\ Goto(x, IF x \in CACommands THEN "request" ELSE "host")
  /\ call' = IF x \in Starts THEN [call EXCEPT ![x] = "call"] ELSE call
  /\ UNCHANGED <<lock, pac, shutdown, ending, running, starting, mutating, asked, crashes>>

\* No listener, no UserCA storage, or no way to write the cache.
ClaimFails(x) ==
  /\ pc[x] = "claim"
  /\ Goto(x, "release")
  /\ UNCHANGED <<lock, cache, pac, target, ownerVars, call, asked, crashes>>

\* cleanRuntime: a stop that finds no owner cleans what one may have left.
OwnerlessCleanup(x) ==
  /\ pc[x] = "cleanup"
  /\ pac' \in {None, pac}
  /\ cache' \in {None, cache}
  /\ Goto(x, "release")
  /\ UNCHANGED <<lock, target, ownerVars, call, asked, crashes>>

(***************************************************************************)
(* ExecuteStart on the owner that a start has found, or is.                *)
(***************************************************************************)
CallEnds(x, result) == call' = [call EXCEPT ![x] = result]

StartCalls(x) ==
  /\ call[x] = "call"
  /\ Reaches(x)
  /\ LET o == target[x]
     IN \/ /\ \/ o \in ending
              \/ o \in CACommands
              \/ o \notin running /\ (starting[o] # None \/ mutating[o] # None)
           /\ CallEnds(x, "notStarted")
           /\ UNCHANGED <<pac, starting>>
        \/ /\ o \in running \ ending
           /\ pac' \in {o, pac}
           /\ CallEnds(x, "notStarted")
           /\ UNCHANGED starting
        \/ /\ o \in Hosts \ (running \cup ending)
           /\ starting[o] = None
           /\ mutating[o] = None
           /\ starting' = [starting EXCEPT ![o] = x]
           /\ CallEnds(x, "activate")
           /\ UNCHANGED pac
  /\ UNCHANGED <<lock, cache, pc, target, router, shutdown, ending, running, mutating,
                 asked, crashes>>

Starting(x) == call[x] = "activate" /\ starting[target[x]] = x

\* The Start Sequence: it delivers System PAC and succeeds, which a stop that has
\* only just begun does not prevent ...
StartActivates(x) ==
  /\ Starting(x)
  /\ running' = running \cup {target[x]}
  /\ pac' \in {target[x], pac}
  /\ starting' = [starting EXCEPT ![target[x]] = None]
  /\ CallEnds(x, "started")
  /\ UNCHANGED <<lock, cache, pc, target, router, shutdown, ending, mutating, asked, crashes>>

\* ... or it fails, perhaps after delivery ...
StartFails(x) ==
  /\ Starting(x)
  /\ pac' \in {target[x], pac}
  /\ starting' = [starting EXCEPT ![target[x]] = None]
  /\ CallEnds(x, "notStarted")
  /\ UNCHANGED <<lock, cache, pc, target, router, shutdown, ending, running, mutating,
                 asked, crashes>>

\* ... or it wants to ask the user, once, and withdraws until there is an answer.
StartAsks(x) ==
  /\ Starting(x)
  /\ x \notin asked
  /\ asked' = asked \cup {x}
  /\ starting' = [starting EXCEPT ![target[x]] = None]
  /\ CallEnds(x, "consent")
  /\ UNCHANGED <<lock, cache, pac, pc, target, router, shutdown, ending, running, mutating,
                 crashes>>

UserAnswers(x) ==
  /\ call[x] = "consent"
  /\ CallEnds(x, "call")
  /\ UNCHANGED <<lock, cache, pac, pc, target, ownerVars, asked, crashes>>

\* The prompt fails, or ends with its context.
PromptEnds(x) ==
  /\ call[x] = "consent"
  /\ CallEnds(x, "notStarted")
  /\ UNCHANGED <<lock, cache, pac, pc, target, ownerVars, asked, crashes>>

\* A routed start returns what the owner said.
RoutedReturns(x) ==
  /\ pc[x] = "routed"
  /\ call[x] \in {"started", "notStarted"}
  /\ Goto(x, IF lock = x THEN "release" ELSE "done")
  /\ UNCHANGED <<lock, cache, pac, target, ownerVars, call, asked, crashes>>

(***************************************************************************)
(* Install and Uninstall on an owner, which may be transient.              *)
(***************************************************************************)
\* A transient owner ends with its own command, a routed command returns.
CAReturn(c) == Goto(c, IF target[c] = c THEN "end" ELSE "done")

CAAdmits(c) ==
  /\ pc[c] = "request"
  /\ Reaches(c)
  /\ mutating[target[c]] = None
  /\ target[c] \notin ending
  /\ starting[target[c]] = None
  /\ mutating' = [mutating EXCEPT ![target[c]] = c]
  /\ Goto(c, "work")
  /\ UNCHANGED <<lock, cache, pac, target, router, shutdown, ending, running, starting,
                 call, asked, crashes>>

\* Refused; an uninstall also for want of consent, when a runtime intercepts.
CARefused(c) ==
  /\ pc[c] = "request"
  /\ Reaches(c)
  /\ \/ mutating[target[c]] # None
     \/ target[c] \in ending
     \/ starting[target[c]] # None
     \/ target[c] \in running
  /\ CAReturn(c)
  /\ UNCHANGED <<lock, cache, pac, target, ownerVars, call, asked, crashes>>

\* The work settles; with any work a transient owner begins to end.
CASettles(c) ==
  /\ pc[c] = "work"
  /\ mutating[target[c]] = c
  /\ mutating' = [mutating EXCEPT ![target[c]] = None]
  /\ ending' = ending \cup ({target[c]} \cap CACommands)
  /\ CAReturn(c)
  /\ UNCHANGED <<lock, cache, pac, target, router, shutdown, running, starting,
                 call, asked, crashes>>

TransientEnds(c) ==
  /\ pc[c] = "end"
  /\ ending' = ending \cup {c}
  /\ Goto(c, "close")
  /\ UNCHANGED <<lock, cache, pac, target, router, shutdown, running, starting, mutating,
                 call, asked, crashes>>

(***************************************************************************)
(* Stop, by a routed stop or by the owner itself.                          *)
(***************************************************************************)
StopBegins(x) ==
  /\ pc[x] = "stop"
  /\ Reaches(x)
  /\ ending' = ending \cup {target[x]}
  /\ Goto(x, "settle")
  /\ UNCHANGED <<lock, cache, pac, target, router, shutdown, running, starting, mutating,
                 call, asked, crashes>>

\* Stop waits for a start that is under way.
Settled(x) == Alive(target[x]) /\ starting[target[x]] = None

\* It cleans System PAC, then closes the runtime.
StopSettles(x) ==
  /\ pc[x] = "settle"
  /\ Settled(x)
  /\ pac' \in {None, pac}
  /\ running' = running \ {target[x]}
  /\ Goto(x, "stopOwns")
  /\ UNCHANGED <<lock, cache, target, router, shutdown, ending, starting, mutating,
                 call, asked, crashes>>

StopReturn_unannounced(x) ==
  Goto(x, IF target[x] = x THEN "close" ELSE "done") /\ UNCHANGED shutdown
\* The router answers a routed stop, and begins to shut down.
StopReturn(x) ==
  IF target[x] = x
    THEN Goto(x, "close") /\ UNCHANGED shutdown
    ELSE Goto(x, "done") /\ shutdown' = shutdown \cup {target[x]}

MutationOver_always(o) == TRUE
\* Stop waits for a CA command that is under way.
MutationOver(o) == mutating[o] = None

\* Then it looks whose cache there is ...
StopOwns(x) ==
  /\ pc[x] = "stopOwns"
  /\ Alive(target[x])
  /\ MutationOver(target[x])
  /\ IF cache = target[x] THEN Goto(x, "stopRemoves") /\ UNCHANGED shutdown
                          ELSE StopReturn(x)
  /\ UNCHANGED <<lock, cache, pac, target, router, ending, running, starting, mutating,
                 call, asked, crashes>>

\* ... and then removes it.
StopRemoves(x) ==
  /\ pc[x] = "stopRemoves"
  /\ Alive(target[x])
  /\ cache' \in {None, cache}
  /\ StopReturn(x)
  /\ UNCHANGED <<lock, pac, target, router, ending, running, starting, mutating,
                 call, asked, crashes>>

(***************************************************************************)
(* The supervisor of a hosting process.                                    *)
(***************************************************************************)
\* A signal, a runtime that cannot serve, or a router that stopped.
Interrupted(o) ==
  /\ pc[o] = "host"
  /\ Goto(o, "cancel")
  /\ UNCHANGED <<lock, cache, pac, target, ownerVars, call, asked, crashes>>

ShutdownSeen(o) ==
  /\ pc[o] = "host"
  /\ o \in shutdown
  /\ Goto(o, "cancelClose")
  /\ UNCHANGED <<lock, cache, pac, target, ownerVars, call, asked, crashes>>

\* The host's own start did not activate a runtime.
ActivationFailed(o) ==
  /\ pc[o] = "host"
  /\ o \in Starts
  /\ call[o] = "notStarted"
  /\ Goto(o, "disown")
  /\ UNCHANGED <<lock, cache, pac, target, ownerVars, call, asked, crashes>>

CallOver_succeeded(o) == o \in Starts => call[o] = "started"
\* cancelAndWait, for the host's own start.
CallOver(o) == o \in Starts => call[o] \in {"started", "notStarted"}

Cancelled(o) ==
  /\ pc[o] \in {"cancel", "cancelClose"}
  /\ CallOver(o)
  /\ Goto(o, IF pc[o] = "cancel" THEN "stop" ELSE "close")
  /\ UNCHANGED <<lock, cache, pac, target, ownerVars, call, asked, crashes>>

\* RemoveOwned, by the holder of the lock.
RemovesOwned(o) ==
  /\ \/ pc[o] = "disown" /\ Goto(o, "close")
     \/ pc[o] = "remove" /\ Goto(o, "release")
  /\ cache' \in IF cache = o THEN {None, o} ELSE {cache}
  /\ UNCHANGED <<lock, pac, target, ownerVars, call, asked, crashes>>

\* The requests that an owner is handling.
Handled(o) ==
  {x \in Procs \ {o} :
     /\ target[x] = o
     /\ \/ pc[x] \in {"work", "settle", "stopOwns", "stopRemoves"}
        \/ x \in Starts /\ call[x] = "activate"}

\* routerServer.Close accepts no more ...
RouterCloses(o) ==
  /\ pc[o] = "close"
  /\ router' = [router EXCEPT ![o] = IF @ = "serving" THEN "closing" ELSE @]
  /\ Goto(o, "drain")
  /\ UNCHANGED <<lock, cache, pac, target, shutdown, ending, running, starting, mutating,
                 call, asked, crashes>>

Drained_always(o) == TRUE
\* ... and waits for what it is handling (Shutdown, not Close), unless its connections
\* are closed.
Drained(o) == router[o] = "closed" \/ Handled(o) = {}

RouterDrains(o) ==
  /\ pc[o] = "drain"
  /\ Drained(o)
  /\ router' = [router EXCEPT ![o] = "closed"]
  /\ Goto(o, "remove")
  /\ UNCHANGED <<lock, cache, pac, target, shutdown, ending, running, starting, mutating,
                 call, asked, crashes>>

\* After a routed stop the router closes its connections, handled or not.
RouterForced(o) ==
  /\ o \in shutdown
  /\ router[o] \in {"serving", "closing"}
  /\ router' = [router EXCEPT ![o] = "closed"]
  /\ UNCHANGED <<lock, cache, pac, pc, target, shutdown, ending, running, starting, mutating,
                 call, asked, crashes>>

Release(x) ==
  /\ pc[x] = "release"
  /\ lock' = None
  /\ Goto(x, "leaving")
  /\ UNCHANGED <<cache, pac, target, ownerVars, call, asked, crashes>>

(***************************************************************************)
(* The end of a process, and of what runs in it.                           *)
(***************************************************************************)
Vanish(o) ==
  /\ router' = [p \in Owners |-> IF p = o THEN "none" ELSE router[p]]
  /\ running' = running \ {o}
  /\ starting' = [p \in Owners |-> IF p = o THEN None ELSE starting[p]]
  /\ mutating' = [p \in Owners |-> IF p = o THEN None ELSE mutating[p]]
  /\ UNCHANGED <<shutdown, ending>>

Exit(x) ==
  /\ pc[x] = "leaving"
  /\ Goto(x, "done")
  /\ Vanish(x)
  /\ UNCHANGED <<lock, cache, pac, target, call, asked, crashes>>

\* The operating system releases the lock of an owner that dies.
Crash(o) ==
  /\ lock = o
  /\ crashes < MaxCrashes
  /\ crashes' = crashes + 1
  /\ lock' = None
  /\ Goto(o, "crashed")
  /\ Vanish(o)
  /\ call' = IF o \in Starts THEN [call EXCEPT ![o] = "notStarted"] ELSE call
  /\ UNCHANGED <<cache, pac, target, asked>>

\* A request that does not get through, or whose owner is gone.
CallFails(x) ==
  /\ target[x] # None /\ target[x] # x
  /\ \/ pc[x] \in {"stop", "request"} /\ ~Answers(target[x])
     \/ pc[x] \in {"work", "settle", "stopOwns", "stopRemoves"} /\ ~Alive(target[x])
     \/ pc[x] = "routed" /\ call[x] = "call" /\ ~Answers(target[x])
     \/ pc[x] = "routed" /\ call[x] = "activate" /\ ~Alive(target[x])
  /\ Goto(x, IF lock = x THEN "release" ELSE "done")
  /\ call' = IF x \in Starts THEN [call EXCEPT ![x] = "notStarted"] ELSE call
  /\ UNCHANGED <<lock, cache, pac, target, ownerVars, asked, crashes>>

(***************************************************************************)
(* The system.                                                             *)
(***************************************************************************)
CommandStep(x) ==
  \/ Discover(x) \/ DiscoverNobody(x) \/ Locks(x) \/ LockTaken(x)
  \/ OwnerlessCleanup(x) \/ Release(x) \/ Exit(x) \/ CallFails(x)
  \/ StopBegins(x) \/ StopSettles(x) \/ StopOwns(x) \/ StopRemoves(x)

StartStep(s) ==
  \/ StartCleans(s) \/ StartCalls(s) \/ StartActivates(s) \/ StartFails(s) \/ StartAsks(s)
  \/ RoutedReturns(s) \/ ActivationFailed(s)

CAStep(c) == CAAdmits(c) \/ CARefused(c) \/ CASettles(c) \/ TransientEnds(c)

OwnerStep(o) ==
  \/ Claim(o) \/ ClaimFails(o) \/ ShutdownSeen(o) \/ Cancelled(o)
  \/ RemovesOwned(o) \/ RouterCloses(o) \/ RouterDrains(o)

Next ==
  \/ \E x \in Procs : CommandStep(x)
  \/ \E s \in Starts : StartStep(s) \/ UserAnswers(s) \/ PromptEnds(s)
  \/ \E s \in Serves : ServeVerifies(s)
  \/ \E c \in CACommands : CAStep(c)
  \/ \E o \in Owners : OwnerStep(o) \/ RouterForced(o) \/ Crash(o)
  \/ \E o \in Hosts : Interrupted(o)

Spec == Init /\ [][Next]_vars

(***************************************************************************)
(* Fairness: a command that has begun runs on, and so does a router that   *)
(* was told to close.  Nobody has to begin a command, to interrupt one or  *)
(* to answer a prompt, but a prompt ends when its context does.            *)
(***************************************************************************)
Fairness ==
  /\ \A x \in Procs : WF_vars(pc[x] # "idle" /\ CommandStep(x))
  /\ \A s \in Starts : WF_vars(StartStep(s))
  /\ \A s \in Starts : WF_vars(pc[s] \in {"cancel", "cancelClose"} /\ PromptEnds(s))
  /\ \A s \in Serves : WF_vars(pc[s] # "idle" /\ (CommandStep(s) \/ ServeVerifies(s)))
  /\ \A c \in CACommands : WF_vars(CAStep(c))
  /\ \A o \in Owners : WF_vars(OwnerStep(o)) /\ WF_vars(RouterForced(o))

FairSpec == Spec /\ Fairness

(***************************************************************************)
(* Safety.                                                                 *)
(***************************************************************************)
\* Single User Instance: a router that answers is that of the process that
\* holds the Gateway Ownership Lock (owner.Run, runTransient).
OneOwnerAnswers == \A o \in Owners : router[o] = "serving" => lock = o

\* A start or a CA command that an owner has admitted, for itself or for
\* another process, settles before that owner gives up the lock
\* (routerServer.Close, lifecycle.Stop, cancelAndWait).
WorkIsOwned ==
  \A o \in Owners : starting[o] # None \/ mutating[o] # None => lock = o

\* Until a host begins to end, the Gateway State Cache leads to it, whatever
\* other commands, with whatever stale knowledge, do meanwhile (cleanRuntime,
\* RemoveOwned).
Discoverable == \A o \in Hosts : pc[o] = "host" /\ o \notin ending => cache = o

\* As long as a host has the lock, nobody but its own stop takes the PAC setting
\* away from its runtime (cleanGatewayFootprint).
RoutingKept ==
  [][\A o \in Hosts : o \in running \ ending /\ lock = o /\ pac = o => pac' = o]_vars

\* A runtime ends by a stop, or with a process that dies (src/CONTEXT.md:492,
\* Already-Running Start; src/CONTEXT.md:124, Gateway Runtime).
RuntimePreserved ==
  [][\A o \in Hosts : o \in running \ running' => o \in ending \/ pc'[o] = "crashed"]_vars

(***************************************************************************)
(* Liveness.                                                               *)
(***************************************************************************)
\* An owner that was told to stop gives up the lock (Stop, owner.Run).
StopEndsOwner ==
  \A x \in Stops, o \in Owners :
    (pc[x] = "settle" /\ target[x] = o) ~> lock # o

\* A command returns, unless it hosts or its user does not answer.
CommandsReturn ==
  \A x \in Procs :
    pc[x] # "idle" ~> (\/ pc[x] \in {"host", "done", "crashed"}
                       \/ x \in Starts /\ call[x] = "consent")
=============================================================================
