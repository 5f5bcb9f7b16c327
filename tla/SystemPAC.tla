------------------------------ MODULE SystemPAC ------------------------------
(***************************************************************************)
(* The System PAC module (src/internal/systempac/systempac.go): Deliver    *)
(* and Cleanup, each one serialized discover-observe-mutate-verify         *)
(* protocol over network services that the user and the operating system   *)
(* go on changing meanwhile.  Every call into a network service may fail;  *)
(* a write that fails may still have been applied, since it is a process   *)
(* that the context can kill.                                              *)
(*                                                                         *)
(* mu is held for a whole call, so the locals of the one call under way    *)
(* are variables here.  Observe changes nothing and is left out, and so is *)
(* the empty endpoint, which no runtime has.                               *)
(*                                                                         *)
(* A definition whose name has a suffix, such as Eligible_unobserved, is   *)
(* the definition before the underscore with one plausible mistake, kept   *)
(* to show that a property notices the mistake.                            *)
(***************************************************************************)
EXTENDS Naturals, FiniteSets

CONSTANTS
  Services,    \* the network services there can be
  Endpoints,   \* the PAC endpoints of this owner's runtimes
  Stale,       \* the endpoint of an earlier owner
  Deliveries,  \* Deliver calls
  Cleanups,    \* Cleanup calls
  None,        \* no call
  MaxEdits     \* bound on the changes that others make

ASSUME CallsDiffer == Deliveries \cap Cleanups = {} /\ None \notin Deliveries \cup Cleanups
ASSUME StaleIsNoEndpoint == Stale \notin Endpoints
ASSUME MaxEditsIsNatural == MaxEdits \in Nat

VARIABLES
  setting,     \* the PAC setting of each service
  visible,     \* the services the operating system lists
  mu,          \* the call that holds mu
  generation,  \* the publication generation
  phase,       \* where that call is
  endpoint,    \* the endpoint it delivers
  listed,      \* the services it discovered
  todo,        \* those its loop has not reached yet
  before,      \* what it observed of each service
  verified,    \* what it observed after its writes
  errs,        \* the kinds of error it has met
  outcome,     \* how each call returned
  edits,       \* how many changes others have made (bounds the model)
  edited       \* the services they changed since the call discovered

callVars == <<mu, phase, endpoint, listed, todo, before, verified, errs>>
vars == <<setting, visible, generation, callVars, outcome, edits, edited>>

Calls == Deliveries \cup Cleanups

(***************************************************************************)
(* PAC settings.  A URL is empty, foreign, or carries the marker and then  *)
(* identifies an endpoint and a publication generation.                    *)
(***************************************************************************)
Empty == [kind |-> "empty"]
ForeignURL == [kind |-> "foreign"]
PublicationURL(e, v) == [kind |-> "owned", endpoint |-> e, v |-> v]

OwnedURLs == [kind : {"owned"}, endpoint : Endpoints \cup {Stale}, v : Nat]

Settings == [url : OwnedURLs \cup {Empty, ForeignURL}, enabled : BOOLEAN]

\* Not observed: the call that should have read the setting failed.
Unknown == [url |-> [kind |-> "unknown"], enabled |-> FALSE]

Ownership(s) == s.url.kind

ActiveOwned(s) == s.enabled /\ Ownership(s) = "owned"

TypeOK ==
  /\ setting \in [Services -> Settings]
  /\ visible \subseteq Services
  /\ mu \in Calls \cup {None}
  /\ generation \in Nat
  /\ phase \in {"free", "observe", "mutate", "verify"}
  /\ endpoint \in Endpoints \cup {Stale}
  /\ listed \subseteq Services
  /\ todo \subseteq listed
  /\ before \in [Services -> Settings \cup {Unknown}]
  /\ verified \in [Services -> Settings \cup {Unknown}]
  /\ errs \subseteq {"discovery", "observation", "mutation", "verification", "residue"}
  /\ outcome \in [Calls -> {"idle", "ok", "failed"}]
  /\ edits \in 0 .. MaxEdits
  /\ edited \subseteq Services

Unobserved == [n \in Services |-> Unknown]

\* An owner starts on whatever the user, or an earlier owner, left behind.
InitialURLs == {Empty, ForeignURL, PublicationURL(Stale, 1)}

Init ==
  /\ setting \in [Services -> [url : InitialURLs, enabled : BOOLEAN]]
  /\ visible \in SUBSET Services
  /\ generation = 0
  /\ mu = None
  /\ phase = "free"
  /\ endpoint = Stale
  /\ listed = {}
  /\ todo = {}
  /\ before = Unobserved
  /\ verified = Unobserved
  /\ errs = {}
  /\ edited = {}
  /\ outcome = [c \in Calls |-> "idle"]
  /\ edits = 0

(***************************************************************************)
(* One call.                                                               *)
(***************************************************************************)
\* errs grows by kind unless ok.
Failing(ok, kind) == errs' = IF ok THEN errs ELSE errs \cup {kind}

GenerationAfter_reused(c) == IF generation = 0 THEN 1 ELSE generation
\* A delivery consumes a generation, whatever becomes of it.
GenerationAfter(c) == IF c \in Deliveries THEN generation + 1 ELSE generation

\* Lock mu and list the services.  The list may be partial, and is then an error.
Discover(c) ==
  /\ outcome[c] = "idle"
  /\ mu = None
  /\ mu' = c
  /\ generation' = GenerationAfter(c)
  /\ endpoint' \in IF c \in Deliveries THEN Endpoints ELSE {Stale}
  /\ \E complete \in BOOLEAN :
       /\ listed' \in IF complete THEN {visible} ELSE SUBSET visible
       /\ errs' = IF complete THEN {} ELSE {"discovery"}
  /\ todo' = listed'
  /\ phase' = "observe"
  /\ edited' = {}
  /\ UNCHANGED <<setting, visible, before, verified, outcome, edits>>

\* observeServices, one service at a time.
ObserveService(n) ==
  /\ phase = "observe"
  /\ n \in todo
  /\ \E ok \in BOOLEAN :
       /\ before' = [before EXCEPT ![n] = IF ok THEN setting[n] ELSE Unknown]
       /\ Failing(ok, "observation")
  /\ todo' = todo \ {n}
  /\ UNCHANGED <<setting, visible, generation, mu, phase, endpoint, listed, verified, outcome,
                 edits, edited>>

Eligible_unobserved(n) ==
  IF mu \in Deliveries THEN Ownership(before[n]) # "foreign" ELSE ActiveOwned(before[n])
\* Deliver writes to empty and owned settings, Cleanup disables active owned ones.
Eligible(n) ==
  IF mu \in Deliveries THEN Ownership(before[n]) \in {"empty", "owned"}
                       ELSE ActiveOwned(before[n])

ObserveDone ==
  /\ phase = "observe"
  /\ todo = {}
  /\ phase' = "mutate"
  /\ todo' = {n \in listed : Eligible(n)}
  /\ UNCHANGED <<setting, visible, generation, mu, endpoint, listed, before, verified, errs,
                 outcome, edits, edited>>

\* SetPAC also enables, DisablePAC keeps whatever URL is there by then.
Written(n) ==
  IF mu \in Deliveries THEN [url |-> PublicationURL(endpoint, generation), enabled |-> TRUE]
                       ELSE [setting[n] EXCEPT !.enabled = FALSE]

MutateService(n) ==
  /\ phase = "mutate"
  /\ n \in todo
  /\ \E ok \in BOOLEAN :
       /\ \/ setting' = [setting EXCEPT ![n] = Written(n)]
          \/ ~ok /\ UNCHANGED setting
       /\ Failing(ok, "mutation")
  /\ todo' = todo \ {n}
  /\ UNCHANGED <<visible, generation, mu, phase, endpoint, listed, before, verified, outcome,
                 edits, edited>>

MutateDone ==
  /\ phase = "mutate"
  /\ todo = {}
  /\ phase' = "verify"
  /\ todo' = listed
  /\ UNCHANGED <<setting, visible, generation, mu, endpoint, listed, before, verified, errs,
                 outcome, edits, edited>>

VerifyService(n) ==
  /\ phase = "verify"
  /\ n \in todo
  /\ \E ok \in BOOLEAN :
       /\ verified' = [verified EXCEPT ![n] = IF ok THEN setting[n] ELSE Unknown]
       /\ Failing(ok, "verification")
  /\ todo' = todo \ {n}
  /\ UNCHANGED <<setting, visible, generation, mu, phase, endpoint, listed, before, outcome,
                 edits, edited>>

\* Only Cleanup reports residue.
Residue == mu \in Cleanups /\ \E n \in listed : ActiveOwned(verified[n])

Succeeded_withoutResidue == ~Residue /\ (mu \in Cleanups \/ errs = {})
\* errors.Join of what went wrong is nil.
Succeeded == ~Residue /\ errs = {}

Return ==
  /\ phase = "verify"
  /\ todo = {}
  /\ outcome' = [outcome EXCEPT ![mu] = IF Succeeded THEN "ok" ELSE "failed"]
  /\ mu' = None
  /\ phase' = "free"
  /\ endpoint' = Stale
  /\ listed' = {}
  /\ before' = Unobserved
  /\ verified' = Unobserved
  /\ errs' = {}
  /\ edited' = {}
  /\ UNCHANGED <<setting, visible, generation, todo, edits>>

(***************************************************************************)
(* Others: the user or a tool changes a setting, a service comes or goes.  *)
(***************************************************************************)
SettingChanged(n) ==
  /\ edits < MaxEdits
  /\ \E url \in {Empty, ForeignURL, setting[n].url}, enabled \in BOOLEAN :
       setting' = [setting EXCEPT ![n] = [url |-> url, enabled |-> enabled]]
  /\ edits' = edits + 1
  /\ edited' = IF mu = None THEN {} ELSE edited \cup {n}
  /\ UNCHANGED <<visible, generation, callVars, outcome>>

VisibilityChanged(n) ==
  /\ edits < MaxEdits
  /\ visible' = IF n \in visible THEN visible \ {n} ELSE visible \cup {n}
  /\ edits' = edits + 1
  /\ edited' = IF mu = None THEN {} ELSE edited \cup {n}
  /\ UNCHANGED <<setting, generation, callVars, outcome>>

\* Every call has returned.
Rest == (\A c \in Calls : outcome[c] # "idle") /\ UNCHANGED vars

Next ==
  \/ \E c \in Calls : Discover(c)
  \/ \E n \in Services : ObserveService(n) \/ MutateService(n) \/ VerifyService(n)
                         \/ SettingChanged(n) \/ VisibilityChanged(n)
  \/ ObserveDone
  \/ MutateDone
  \/ Return
  \/ Rest

Spec == Init /\ [][Next]_vars

(***************************************************************************)
(* Properties.                                                             *)
(***************************************************************************)
\* A step of System PAC itself, not of the user or the operating system.
OwnStep == edits' = edits

\* System PAC Configuration Protection: a setting that is foreign, and that
\* nobody changed since the call began, is left alone by Deliver and by Cleanup,
\* observable or not.
ProtectsForeign ==
  \A n \in Services :
    OwnStep /\ Ownership(setting[n]) = "foreign" /\ n \notin edited
      => setting'[n] = setting[n]
ForeignSurvives == [][ProtectsForeign]_vars

\* The call that holds mu returns with this step, without an error.
Succeeds(c) == mu = c /\ outcome[c] = "idle" /\ outcome'[c] = "ok"

\* A Cleanup that returns no error has left no visible service with an active
\* owned setting, except where others interfered.
CleanupIsTruthful ==
  \A c \in Cleanups : Succeeds(c) =>
    \A n \in visible \ edited : ~ActiveOwned(setting[n])
FulfilledCleanupIsClean == [][CleanupIsTruthful]_vars

\* A Deliver that returns no error has put the endpoint's new URL on every
\* visible service that is not foreign, and the URL differs from the one it
\* found there, so that clients fetch the PAC again.
DeliveryIsTruthful ==
  \A c \in Deliveries : Succeeds(c) =>
    \A n \in visible \ edited :
      \/ Ownership(setting[n]) = "foreign"
      \/ /\ setting[n] = [url |-> PublicationURL(endpoint, generation), enabled |-> TRUE]
         /\ setting[n].url # before[n].url
DeliveryReachesAll == [][DeliveryIsTruthful]_vars
=============================================================================
