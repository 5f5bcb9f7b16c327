------------------------------- MODULE Gateway -------------------------------
(***************************************************************************)
(* What a serving Gateway Owner promises about starts, stops, CA mutations *)
(* and the managed PAC setting, without a lock, a flag or a goroutine:     *)
(* the commands of src/internal/gateway/lifecycle.go as a user may         *)
(* understand them.  Lifecycle implements it (LifecycleRefinement).        *)
(*                                                                         *)
(* The phase is "serving" until a Stop begins, then "ending", and "final"  *)
(* once the Stop has seen the start it preempts to its end and cleans up.  *)
(***************************************************************************)
CONSTANTS
  Starts,      \* calls of start, each of which may bring a runtime of its own
  Stops,
  Mutators,    \* calls of install and uninstall
  None

VARIABLES
  phase,
  activating,  \* the starts in the Start Sequence
  started,     \* those that returned with their runtime started
  running,     \* the runtime that is published, or None
  open,        \* the runtimes that answer requests, or may come to
  setting,     \* the runtime that the managed PAC setting points at, or None
  mutating,    \* the CA mutations at work
  returned     \* the stops that have returned

vars == <<phase, activating, started, running, open, setting, mutating, returned>>

Init ==
  /\ phase = "serving"
  /\ activating = {}
  /\ started = {}
  /\ running = None
  /\ open = {}
  /\ setting = None
  /\ mutating = {}
  /\ returned = {}

(***************************************************************************)
(* A start.                                                                *)
(***************************************************************************)
\* One activation at a time, beside no CA mutation and no other runtime.
Admit(s) ==
  /\ phase = "serving"
  /\ activating = {}
  /\ mutating = {}
  /\ running = None
  /\ activating' = {s}
  /\ UNCHANGED <<phase, started, running, open, setting, mutating, returned>>

Bind(s) ==
  /\ s \in activating
  /\ open' = open \cup {s}
  /\ UNCHANGED <<phase, activating, started, running, setting, mutating, returned>>

Publish(s) ==
  /\ s \in activating \cap open
  /\ running = None
  /\ running' = s
  /\ UNCHANGED <<phase, activating, started, open, setting, mutating, returned>>

\* A start that does not return Started has taken back what it did.
Conclude(s) ==
  /\ s \in activating
  /\ activating' = activating \ {s}
  /\ \/ started' = started \cup {s}
     \/ running # s /\ s \notin open /\ UNCHANGED started
  /\ UNCHANGED <<phase, running, open, setting, mutating, returned>>

(***************************************************************************)
(* A runtime.                                                              *)
(***************************************************************************)
\* The servers of a runtime may close for good at any time: its start gives up,
\* the serving fails, or a Stop closes them.
CloseEndpoints(s) ==
  /\ open' = open \ {s}
  /\ UNCHANGED <<phase, activating, started, running, setting, mutating, returned>>

\* Unpublished by the start that withdraws it, or by a Stop.
Unpublish ==
  /\ phase = "final" \/ running \in activating
  /\ running' = None
  /\ UNCHANGED <<phase, activating, started, open, setting, mutating, returned>>

\* System PAC delivery, for as long as no Stop cleans up.
Deliver(s) ==
  /\ phase # "final"
  /\ setting' = s
  /\ UNCHANGED <<phase, activating, started, running, open, mutating, returned>>

(***************************************************************************)
(* A CA mutation.                                                          *)
(***************************************************************************)
Mutate(m) ==
  /\ phase = "serving"
  /\ activating = {}
  /\ mutating = {}
  /\ mutating' = {m}
  /\ UNCHANGED <<phase, activating, started, running, open, setting, returned>>

EndMutation(m) ==
  /\ mutating' = mutating \ {m}
  /\ UNCHANGED <<phase, activating, started, running, open, setting, returned>>

(***************************************************************************)
(* A stop.                                                                 *)
(***************************************************************************)
BeginStop ==
  /\ phase = "serving"
  /\ phase' = "ending"
  /\ UNCHANGED <<activating, started, running, open, setting, mutating, returned>>

Finalize ==
  /\ phase = "ending"
  /\ activating = {}
  /\ phase' = "final"
  /\ UNCHANGED <<activating, started, running, open, setting, mutating, returned>>

Clean ==
  /\ phase = "final"
  /\ setting' = None
  /\ UNCHANGED <<phase, activating, started, running, open, mutating, returned>>

\* A Stop that returns leaves no runtime, no answering endpoint, no start and no
\* mutation.
Return(t) ==
  /\ phase = "final"
  /\ activating = {}
  /\ running = None
  /\ open = {}
  /\ mutating = {}
  /\ returned' = returned \cup {t}
  /\ UNCHANGED <<phase, activating, started, running, open, setting, mutating>>

Next ==
  \/ \E s \in Starts :
       Admit(s) \/ Bind(s) \/ Publish(s) \/ Conclude(s) \/ CloseEndpoints(s) \/ Deliver(s)
  \/ Unpublish
  \/ \E m \in Mutators : Mutate(m) \/ EndMutation(m)
  \/ BeginStop \/ Finalize \/ Clean
  \/ \E t \in Stops : Return(t)

Spec == Init /\ [][Next]_vars
=============================================================================
