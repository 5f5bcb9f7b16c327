------------------------- MODULE OwnershipInvariant -------------------------
(***************************************************************************)
(* The inductive invariant behind the safety of Ownership: which steps     *)
(* belong to the tenure of the lock, when a router can answer, and that    *)
(* whatever an owner has admitted is over before its tenure is.            *)
(***************************************************************************)
EXTENDS Ownership

\* The steps of a process that holds the lock, whether it has claimed or not ...
Preparing == {"clean", "verify", "claim", "cleanup"}
Answering == {"host", "cancel", "cancelClose", "disown", "close"}
Closing == {"drain", "remove"}
\* ... and those that are an owner's own when it is its own target.
Working == {"request", "work", "end", "stop", "settle", "stopOwns", "stopRemoves"}

\* Process p works on the owner that it is.
Own(p) == target[p] = p /\ pc[p] \in Answering \cup Working

\* A process is its own target from its claim on.
TargetInv ==
  /\ \A p \in Procs : pc[p] \in Answering \cup Closing \cup {"end"} => target[p] = p
  /\ \A p \in Procs : target[p] = p =>
       pc[p] \in Answering \cup Closing \cup Working \cup {"release", "leaving", "done", "crashed"}
  /\ \A h \in Hosts : pc[h] \in {"stop", "settle", "stopOwns", "stopRemoves"} => target[h] = h
  /\ \A p \in Procs : pc[p] = "work" => p \in CACommands
  /\ \A p \in Procs : pc[p] = "routed" => target[p] # p

\* The tenure of the lock.
TenureInv ==
  \A p \in Procs :
    lock = p <=> Own(p) \/ pc[p] \in Preparing \cup Closing \cup {"release"}

\* A router answers from the claim to the close.
RouterInv ==
  \A o \in Owners :
    /\ router[o] = "serving" => Own(o)
    /\ router[o] = "closing" => pc[o] = "drain"
    /\ router[o] = "closed" => o \in shutdown \/ pc[o] \in {"remove", "release", "leaving"}
    /\ pc[o] \in Closing => router[o] # "serving"

\* A host's own start is over before anything of it is torn down.
CallInv ==
  \A s \in Starts :
    /\ target[s] = s /\ call[s] \in {"call", "activate", "consent"} =>
         pc[s] \in {"host", "cancel", "cancelClose"}
    /\ target[s] # s /\ call[s] \in {"call", "activate", "consent"} =>
         pc[s] = "routed" /\ target[s] # None

\* What an owner has admitted is with the process that asked, and the owner
\* waits for it.
AdmittedInv ==
  \A o \in Owners :
    /\ starting[o] # None => call[starting[o]] = "activate" /\ target[starting[o]] = o
    /\ mutating[o] # None => pc[mutating[o]] = "work" /\ target[mutating[o]] = o
    /\ starting[o] # None \/ mutating[o] # None => Own(o) \/ pc[o] = "drain"

\* A stop that has got past a wait knows what it waited for.
StopInv ==
  /\ \A x \in Procs :
       pc[x] \in {"settle", "stopOwns", "stopRemoves"} =>
         /\ target[x] \in ending
         /\ pc[x] # "settle" => starting[target[x]] = None
         /\ pc[x] = "stopRemoves" => mutating[target[x]] = None
  /\ \A o \in shutdown : o \in ending /\ starting[o] = None /\ mutating[o] = None

\* The inductive invariant (start, serve, runTransient, owner.Run, Stop).
OwnershipInv ==
  /\ TypeOK
  /\ TargetInv
  /\ TenureInv
  /\ RouterInv
  /\ CallInv
  /\ AdmittedInv
  /\ StopInv

(***************************************************************************)
(* At most one stop.  Two may find each other's work half done: while      *)
(* one is still at the cache of an owner, the other has made that owner    *)
(* leave, and the next one has published itself.                           *)
(***************************************************************************)
OneStop == \A x, y \in Stops : x = y

\* The owner that a stop is at work on is still in its tenure, because a router
\* drops a request only after a stop has returned.
SoleStopInv ==
  /\ \A o \in Owners : pc[o] # "cleanup"
  /\ \A c \in CACommands :
       pc[c] \notin {"host", "cancel", "cancelClose", "stop", "settle", "stopOwns", "stopRemoves"}
  /\ shutdown # {} => \A x \in Stops : pc[x] = "done"
  /\ \A x \in Stops :
       pc[x] \in {"settle", "stopOwns", "stopRemoves"} /\ Alive(target[x]) =>
         Own(target[x]) \/ pc[target[x]] = "drain"

SoleInv == OwnershipInv /\ SoleStopInv /\ Discoverable

(***************************************************************************)
(* Hosts whose own start, if they have one, is the only start.  With a     *)
(* second one, the host's own may be refused on account of the other's     *)
(* runtime, or answer its consent prompt with no, and then the host leaves *)
(* without a stop.                                                         *)
(***************************************************************************)
Sole(hosts) ==
  /\ hosts \subseteq Hosts
  /\ \A o \in hosts \cap Starts, s \in Starts : s = o

OneStart == \A x, y \in Starts : x = y

\* A serve does not retry discovery or disown; it closes its router after a stop.
ServeInv(o) ==
  /\ pc[o] \notin {"discoverAgain", "request", "work", "end", "disown"}
  /\ pc[o] \in {"close", "drain"} => o \in ending

\* A runtime that no stop has reached is one whose host has not begun to leave.
RunInv(hosts) ==
  \A o \in hosts :
    /\ o \in running \ ending =>
         /\ pc[o] \in {"host", "cancel", "cancelClose", "stop"}
         /\ o \in Starts => call[o] = "started"
    /\ pc[o] = "cancelClose" => o \in ending
    /\ o \in Serves => ServeInv(o)
=============================================================================
