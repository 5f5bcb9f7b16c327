----------------------------- MODULE UserCAStore -----------------------------
(***************************************************************************)
(* The persisted UserCA authority (src/internal/userca) and the operating  *)
(* system's trust store (src/internal/lib/truststore).  Install and        *)
(* uninstall are sequences of calls on two places that no transaction      *)
(* covers: a directory with a certificate and a key file, and the list of  *)
(* trusted roots.  Each call may fail, with or without part of its effect, *)
(* the process may die between two calls, and between commands the user or *)
(* a Gateway with another storage directory may change either place.  The  *)
(* Gateway runs one command at a time (caAdmissionMu in Lifecycle), so     *)
(* there is one command here.                                              *)
(*                                                                         *)
(* An authority is a certificate with its key; the files hold an           *)
(* authority's part, nothing, or a torn write.  A new authority is any     *)
(* one that is neither stored nor trusted.  The trust store also holds the *)
(* roots of others, which isOwnedAuthorityCertificate tells apart.         *)
(*                                                                         *)
(* A definition whose name has a suffix is the definition before the       *)
(* underscore with one plausible mistake.                                  *)
(***************************************************************************)
CONSTANTS
  Authorities,  \* certificates of seamless-cors, each with its key
  Foreign,      \* the roots of others
  Absent,       \* there is no such file
  Torn          \* the file holds no parseable PEM block

ASSUME RootsAreDistinct == Authorities \cap Foreign = {}
ASSUME FilesAreDistinct == Absent \notin Authorities /\ Torn \notin Authorities /\ Absent # Torn

VARIABLES
  dir,       \* the storage directory exists
  certFile,  \* contents of certificate.pem
  keyFile,   \* contents of private-key.pem
  private,   \* directory and files are accessible to this user only
  trust,     \* the roots in the trust store
  age,       \* how close each authority is to its NotAfter
  cmd,       \* the command that runs, or the last one
  step,      \* its next call; "idle" between commands
  purpose,   \* what it has decided to do
  errs,      \* the errors uninstallAll has joined so far
  outcome,   \* how the last command ended
  fit,       \* history: the command found a pair that it must keep
  faulted,   \* history: a call of this command (of its cleanup) has failed
  lost       \* history: a root may have outlived its files, see TrustHasPair

fileVars    == <<dir, certFile, keyFile, private>>
commandVars == <<cmd, purpose, fit>>

vars == <<fileVars, trust, age, commandVars, step, errs, outcome, faulted, lost>>

Contents == Authorities \cup {Absent, Torn}

TypeOK ==
  /\ dir \in BOOLEAN
  /\ certFile \in Contents
  /\ keyFile \in Contents
  /\ private \in BOOLEAN
  /\ trust \subseteq Authorities \cup Foreign
  /\ age \in [Authorities -> {"fresh", "due", "expired"}]
  /\ cmd \in {"install", "uninstall"}
  /\ step \in {"idle", "inspect", "remove", "wipe", "confirm", "mkdir", "cert",
               "key", "add", "repair", "verify"}
  /\ purpose \in {"undecided", "reuse", "replace", "undo", "uninstall"}
  /\ errs \in BOOLEAN
  /\ outcome \in {"none", "usable", "absent", "failed", "crashed"}
  /\ fit \in BOOLEAN
  /\ faulted \in BOOLEAN
  /\ lost \in BOOLEAN

\* Nothing is installed yet.
Init ==
  /\ dir = FALSE
  /\ certFile = Absent
  /\ keyFile = Absent
  /\ private = TRUE
  /\ trust \in SUBSET Foreign
  /\ age = [a \in Authorities |-> "fresh"]
  /\ cmd = "uninstall"
  /\ step = "idle"
  /\ purpose = "undecided"
  /\ errs = FALSE
  /\ outcome = "none"
  /\ fit = FALSE
  /\ faulted = FALSE
  /\ lost = FALSE

(***************************************************************************)
(* inspect: the facts derived from both places.                            *)
(***************************************************************************)
\* ownedCertificates.
Owned == trust \cap Authorities

PairValid_certificateOnly == certFile \in Authorities /\ age[certFile] # "expired"
\* authorityValid: both files hold the same authority, within its validity.
PairValid ==
  /\ certFile \in Authorities
  /\ keyFile = certFile
  /\ age[certFile] # "expired"

Trusted_among == PairValid /\ certFile \in trust
\* trusted: the stored authority is the one owned root.
Trusted == PairValid /\ Owned = {certFile}

\* ownedFacts.
OwnedFacts == dir \/ Owned # {}

Reusable_anyTrust == PairValid /\ age[certFile] = "fresh"
Reusable_onlyTrusted == PairValid /\ age[certFile] = "fresh" /\ Trusted
\* What install reuses; it replaces everything else.
Reusable == PairValid /\ age[certFile] = "fresh" /\ (Trusted \/ Owned = {})

\* What an install must keep, said apart from how install decides it: a pair
\* within its validity, not due for renewal, that no other root contradicts.
Sound ==
  /\ certFile \in Authorities
  /\ keyFile = certFile
  /\ age[certFile] = "fresh"
  /\ Owned \subseteq {certFile}

(***************************************************************************)
(* Calls on the trust store: each runs a tool of the operating system,     *)
(* whose answer is not proof of what it did.                               *)
(***************************************************************************)
Removable_stored == trust \cap {certFile}
Removable_all == trust
\* The fingerprints that uninstallAll passes to Remove.
Removable == Owned

\* Remove goes through the roots one by one and carries on after an error.
StoreRemove(roots, kept) == kept \subseteq roots /\ trust' = (trust \ roots) \cup kept

StoreAdd(root) == trust' \in {trust, trust \cup {root}}

(***************************************************************************)
(* Steps of a command.                                                     *)
(***************************************************************************)
Goto(s) == step' = s /\ UNCHANGED outcome

\* The command returns.
Finish(o) == step' = "idle" /\ outcome' = o

Fault(f) == faulted' = (faulted \/ f)

Begin(c) ==
  /\ step = "idle"
  /\ cmd' = c
  /\ step' = "inspect"
  /\ purpose' = "undecided"
  /\ errs' = FALSE
  /\ outcome' = "none"
  /\ fit' = (c = "install" /\ Sound)
  /\ faulted' = FALSE
  /\ UNCHANGED <<fileVars, trust, age, lost>>

\* The first inspect, and what install decides from it.
Inspect ==
  /\ step = "inspect"
  /\ \/ Finish("failed") /\ Fault(TRUE) /\ UNCHANGED purpose
     \/ /\ cmd = "uninstall"
        /\ purpose' = "uninstall"
        /\ Goto("remove")
        /\ UNCHANGED faulted
     \/ /\ cmd = "install"
        /\ Reusable
        /\ purpose' = "reuse"
        /\ Goto(IF Trusted THEN "repair" ELSE "add")
        /\ UNCHANGED faulted
     \/ /\ cmd = "install"
        /\ ~Reusable
        /\ purpose' = "replace"
        /\ Goto("remove")
        /\ UNCHANGED faulted
  /\ UNCHANGED <<fileVars, trust, age, cmd, errs, fit, lost>>

\* uninstallAll: List the roots and Remove the owned ones.  Either may fail.
RemoveTrust ==
  /\ step = "remove"
  /\ \E kept \in SUBSET Removable, failed \in BOOLEAN :
       /\ StoreRemove(Removable, kept)
       /\ errs' = failed
       /\ Fault(failed \/ kept # {})
       /\ lost' = (lost \/ kept # {})
  /\ Goto("wipe")
  /\ UNCHANGED <<fileVars, age, commandVars>>

\* RemoveAll(dir) removes everything, or fails and has removed some files.
RemoveDir ==
  \/ /\ dir' = FALSE
     /\ certFile' = Absent
     /\ keyFile' = Absent
     /\ UNCHANGED <<private, faulted, errs>>
  \/ /\ certFile' \in {certFile, Absent}
     /\ keyFile' \in {keyFile, Absent}
     /\ errs' = TRUE
     /\ Fault(TRUE)
     /\ UNCHANGED <<dir, private>>

\* uninstallAll removes the directory also when the roots could not be removed.
\* Its callers go on only if nothing failed, and never after a cleanup.
Wipe ==
  /\ step = "wipe"
  /\ RemoveDir
  /\ IF errs' \/ purpose = "undo"
     THEN Finish("failed")
     ELSE Goto(IF purpose = "replace" THEN "confirm" ELSE "verify")
  /\ UNCHANGED <<trust, age, commandVars, lost>>

\* install inspects again and creates nothing beside an owned fact.
Confirm ==
  /\ step = "confirm"
  /\ \/ Finish("failed") /\ Fault(TRUE) /\ UNCHANGED lost
     \/ OwnedFacts /\ Finish("failed") /\ UNCHANGED <<faulted, lost>>
     \/ ~OwnedFacts /\ Goto("mkdir") /\ lost' = FALSE /\ UNCHANGED faulted
  /\ UNCHANGED <<fileVars, trust, age, commandVars, errs>>

\* createAuthority: key generation and the directory.
MakeDir ==
  /\ step = "mkdir"
  /\ \/ Finish("failed") /\ Fault(TRUE) /\ UNCHANGED <<dir, private>>
     \/ /\ dir' = TRUE
        /\ private' = TRUE
        /\ Goto("cert")
        /\ UNCHANGED faulted
  /\ UNCHANGED <<certFile, keyFile, trust, age, commandVars, errs, lost>>

\* A write stores the contents, or fails before or in the middle of it.
WriteCert ==
  /\ step = "cert"
  /\ \/ /\ certFile' \in {Absent, Torn}
        /\ Finish("failed")
        /\ Fault(TRUE)
        /\ UNCHANGED age
     \/ /\ certFile' \in Authorities \ trust
        /\ age' = [age EXCEPT ![certFile'] = "fresh"]
        /\ Goto("key")
        /\ UNCHANGED faulted
  /\ UNCHANGED <<dir, keyFile, private, trust, commandVars, errs, lost>>

WriteKey ==
  /\ step = "key"
  /\ \/ keyFile' \in {Absent, Torn} /\ Finish("failed") /\ Fault(TRUE)
     \/ keyFile' = certFile /\ Goto("add") /\ UNCHANGED faulted
  /\ UNCHANGED <<dir, certFile, private, trust, age, commandVars, errs, lost>>

AfterFailedAdd_filesOnly ==
  IF purpose = "reuse"
  THEN Finish("failed") /\ Fault(TRUE) /\ UNCHANGED purpose
  ELSE purpose' = "undo" /\ Goto("wipe") /\ faulted' = FALSE

\* A new pair is removed again, with a context that cannot be cancelled; a
\* reused one stays.  faulted now tells whether the cleanup fails.
AfterFailedAdd ==
  IF purpose = "reuse"
  THEN Finish("failed") /\ Fault(TRUE) /\ UNCHANGED purpose
  ELSE purpose' = "undo" /\ Goto("remove") /\ faulted' = FALSE

\* trustStore.Add(certPath), for a new or a reused authority.
AddTrust ==
  /\ step = "add"
  /\ StoreAdd(certFile)
  /\ \/ AfterFailedAdd
     \/ /\ Goto(IF purpose = "reuse" THEN "repair" ELSE "verify")
        /\ Fault(certFile \notin trust')
        /\ UNCHANGED purpose
  /\ UNCHANGED <<fileVars, age, cmd, fit, errs, lost>>

\* repairAuthorityPermissions.
Repair ==
  /\ step = "repair"
  /\ \/ private' \in BOOLEAN /\ Finish("failed") /\ Fault(TRUE)
     \/ private' = TRUE /\ Goto("verify") /\ UNCHANGED faulted
  /\ UNCHANGED <<dir, certFile, keyFile, trust, age, commandVars, errs, lost>>

\* The last inspect: install returns a usable state, uninstall an absent one.
Verify ==
  /\ step = "verify"
  /\ \/ Finish("failed") /\ Fault(TRUE) /\ UNCHANGED lost
     \/ /\ cmd = "install"
        /\ Finish(IF Trusted THEN "usable" ELSE "failed")
        /\ UNCHANGED <<faulted, lost>>
     \/ /\ cmd = "uninstall"
        /\ Finish(IF OwnedFacts THEN "failed" ELSE "absent")
        /\ lost' = (lost /\ OwnedFacts)
        /\ UNCHANGED faulted
  /\ UNCHANGED <<fileVars, trust, age, commandVars, errs>>

(***************************************************************************)
(* The world around the commands.                                          *)
(***************************************************************************)
\* The owner dies between two calls.
Crash ==
  /\ step # "idle"
  /\ Finish("crashed")
  /\ UNCHANGED <<fileVars, trust, age, commandVars, errs, faulted, lost>>

\* Between commands the user deletes or damages files, opens their permissions
\* or removes roots, or a Gateway with another directory leaves its own root.
Edit ==
  /\ step = "idle"
  /\ trust' \in SUBSET (Authorities \cup Foreign)
  /\ \/ UNCHANGED fileVars
     \/ /\ dir
        /\ certFile' \in {certFile, Absent, Torn}
        /\ keyFile' \in {keyFile, Absent, Torn}
        /\ private' \in {private, FALSE}
        /\ UNCHANGED dir
     \/ dir' = FALSE /\ certFile' = Absent /\ keyFile' = Absent /\ UNCHANGED private
  /\ outcome' = "none"
  /\ lost' = TRUE
  /\ UNCHANGED <<age, commandVars, step, errs, faulted>>

\* Time passes.  A pair that expires or falls due during a command is no longer
\* the one the command found.
Expire(a) ==
  /\ \/ age[a] = "fresh" /\ age' = [age EXCEPT ![a] = "due"]
     \/ age[a] = "due" /\ age' = [age EXCEPT ![a] = "expired"]
  /\ fit' = (fit /\ a # certFile)
  /\ Fault(step # "idle" /\ a = certFile)
  /\ UNCHANGED <<fileVars, trust, cmd, purpose, step, errs, outcome, lost>>

Command ==
  \/ Inspect \/ RemoveTrust \/ Wipe \/ Confirm \/ MakeDir \/ WriteCert
  \/ WriteKey \/ AddTrust \/ Repair \/ Verify

Next ==
  \/ \E c \in {"install", "uninstall"} : Begin(c)
  \/ Command
  \/ Crash
  \/ Edit
  \/ \E a \in Authorities : Expire(a)

Spec == Init /\ [][Next]_vars

(***************************************************************************)
(* Properties.                                                             *)
(***************************************************************************)
\* Whatever footprint a crash, a failed call or the user left behind, the next
\* command reconciles it: an install or uninstall fails only if one of its own
\* calls failed (ADR 0004: "the next explicit install or uninstall reconciles
\* that footprint").
NextCommandReconciles ==
  step = "idle" /\ outcome = "failed" /\ purpose # "undo" => faulted

\* When the trust store refuses a new authority and the cleanup's own calls
\* succeed, neither an untrusted pair nor a root stays (the comment at
\* install.go:40), even if the refused call did add the root.
RefusedTrustLeavesNothing ==
  step = "idle" /\ outcome = "failed" /\ purpose = "undo" /\ ~faulted => ~OwnedFacts

\* What a command reports is so: after install the stored pair is the only
\* owned root and private, after uninstall no root and no file is left.
ReportedOutcomeHolds ==
  /\ outcome = "usable" => /\ certFile \in Authorities
                           /\ keyFile = certFile
                           /\ Owned = {certFile}
                           /\ private
  /\ outcome = "absent" => ~OwnedFacts

\* Crashes and failed writes alone never leave a trusted root whose key is not
\* the stored one: roots go before the files and come after both.  Only a root
\* that could not be removed, or an edit, breaks this until a later command has
\* verified that nothing is left.
TrustHasPair == Owned # {} /\ ~lost => Owned = {certFile} /\ keyFile = certFile

\* No command ever trusts a root beside another owned one (ADR 0004: "no
\* overlapping authorities"), nor one whose key is not stored.
NoOverlap ==
  [][step # "idle" /\ ~(trust' \subseteq trust)
       => Owned = {} /\ trust' = trust \cup {certFile} /\ keyFile = certFile]_vars

\* No command touches a root that is not its own.
ForeignUntouched ==
  [][step # "idle" => trust' \cap Foreign = trust \cap Foreign]_vars

\* An install that found a valid pair, not due for renewal and not contradicted
\* by another root, keeps it to the end, however the install ends.
ValidPairKept ==
  [][step # "idle" /\ fit => UNCHANGED <<certFile, keyFile>>]_vars
==============================================================================
