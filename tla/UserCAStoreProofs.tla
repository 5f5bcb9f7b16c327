-------------------------- MODULE UserCAStoreProofs --------------------------
(***************************************************************************)
(* Proofs about UserCAStore, for every set of authorities.                 *)
(***************************************************************************)
EXTENDS UserCAStore, TLAPS

\* Both files hold one authority.
Paired == certFile \in Authorities /\ keyFile = certFile

\* Nothing has failed in this command, or the pair is usable.
UsableUnlessFaulted == ~faulted => age[certFile] # "expired" /\ Owned = {certFile}

\* What each step of a command relies on.
StepInv ==
  /\ ~dir => certFile = Absent /\ keyFile = Absent
  /\ step # "idle" => outcome = "none"
  /\ step = "inspect" => purpose = "undecided"
  /\ step \notin {"idle", "inspect"} => purpose # "undecided"
  /\ purpose \in {"reuse", "replace", "undo"} => cmd = "install"
  /\ purpose = "uninstall" => cmd = "uninstall"
  /\ step \in {"remove", "wipe"} => purpose # "reuse"
  /\ step = "wipe" => (errs \/ Owned # {} => faulted) /\ (Owned # {} => lost)
  /\ step = "confirm" => purpose = "replace" /\ (OwnedFacts => faulted)
  /\ step = "mkdir" => purpose = "replace" /\ ~dir /\ Owned = {}
  /\ step = "cert" => /\ purpose = "replace"
                      /\ dir /\ certFile = Absent /\ keyFile = Absent /\ private
                      /\ Owned = {}
  /\ step = "key" => /\ purpose = "replace"
                     /\ dir /\ certFile \in Authorities /\ keyFile = Absent /\ private
                     /\ Owned = {}
                     /\ ~faulted => age[certFile] # "expired"
  /\ step = "add" => /\ purpose \in {"reuse", "replace"}
                     /\ purpose = "replace" => private
                     /\ Paired
                     /\ Owned = {}
                     /\ ~faulted => age[certFile] # "expired"
  /\ step = "repair" => purpose = "reuse" /\ Paired /\ UsableUnlessFaulted
  /\ step = "verify" /\ cmd = "install" => Paired /\ private /\ UsableUnlessFaulted
  /\ step = "verify" /\ cmd = "uninstall" => (OwnedFacts => faulted)

\* A pair an install must keep is never on the way to be replaced.
FitInv ==
  step # "idle" /\ fit => /\ cmd = "install"
                          /\ purpose \in {"undecided", "reuse"}
                          /\ Sound

\* The inductive invariant.
StoreInv ==
  /\ TypeOK
  /\ StepInv
  /\ FitInv
  /\ NextCommandReconciles
  /\ RefusedTrustLeavesNothing
  /\ ReportedOutcomeHolds
  /\ TrustHasPair

(***************************************************************************)
(* One lemma per action: it preserves the inductive invariant.             *)
(***************************************************************************)
\* The first step of a command keeps the invariant.
LEMMA BeginKeeps ==
  ASSUME StoreInv, NEW c \in {"install", "uninstall"}, Begin(c)
  PROVE  StoreInv'
<1>1. TypeOK'
  BY FilesAreDistinct DEF StoreInv, TypeOK, StepInv, Owned, Paired, Contents,
     vars, fileVars, commandVars, Begin, Goto
<1>2. StepInv'
  BY FilesAreDistinct DEF Owned, StoreInv, TypeOK, StepInv, FitInv, Sound, Paired,
     UsableUnlessFaulted, OwnedFacts, Contents, TrustHasPair, vars, fileVars,
     commandVars, Begin, Goto
<1>3. FitInv'
  BY DEF Owned, StoreInv, TypeOK, StepInv, FitInv, Sound, Paired,
     UsableUnlessFaulted, OwnedFacts, Contents, vars, fileVars, commandVars,
     Begin, Goto
<1>4. (NextCommandReconciles /\ RefusedTrustLeavesNothing)'
  BY DEF Owned, StoreInv, TypeOK, StepInv, FitInv, Sound, Paired,
     UsableUnlessFaulted, OwnedFacts, Contents, NextCommandReconciles,
     RefusedTrustLeavesNothing, vars, fileVars, commandVars, Begin, Goto
<1>5. ReportedOutcomeHolds'
  BY DEF Owned, StoreInv, TypeOK, StepInv, FitInv, Sound, Paired,
     UsableUnlessFaulted, OwnedFacts, Contents, ReportedOutcomeHolds, vars,
     fileVars, commandVars, Begin, Goto
<1>6. TrustHasPair'
  BY DEF Owned, StoreInv, TypeOK, StepInv, FitInv, Sound, Paired,
     UsableUnlessFaulted, OwnedFacts, Contents, TrustHasPair, vars, fileVars,
     commandVars, Begin, Goto
<1>7. QED
  BY <1>1, <1>2, <1>3, <1>4, <1>5, <1>6 DEF StoreInv

\* The decision of a command keeps the invariant.
LEMMA InspectKeeps ==
  ASSUME StoreInv, Inspect
  PROVE  StoreInv'
<1>1. TypeOK'
  BY FilesAreDistinct DEF StoreInv, TypeOK, StepInv, Owned, Paired, Contents,
     vars, fileVars, commandVars, Inspect, Goto, Finish, Fault, Reusable, Trusted,
     PairValid
<1>2. StepInv'
  BY FilesAreDistinct DEF Owned, StoreInv, TypeOK, StepInv, FitInv, Sound, Paired,
     UsableUnlessFaulted, OwnedFacts, Contents, TrustHasPair, vars, fileVars,
     commandVars, Inspect, Goto, Finish, Fault, Reusable, Trusted, PairValid
<1>3. FitInv'
  BY DEF Owned, StoreInv, TypeOK, StepInv, FitInv, Sound, Paired,
     UsableUnlessFaulted, OwnedFacts, Contents, vars, fileVars, commandVars,
     Inspect, Goto, Finish, Fault, Reusable, Trusted, PairValid
<1>4. (NextCommandReconciles /\ RefusedTrustLeavesNothing)'
  BY DEF Owned, StoreInv, TypeOK, StepInv, FitInv, Sound, Paired,
     UsableUnlessFaulted, OwnedFacts, Contents, NextCommandReconciles,
     RefusedTrustLeavesNothing, vars, fileVars, commandVars, Inspect, Goto,
     Finish, Fault, Reusable, Trusted, PairValid
<1>5. ReportedOutcomeHolds'
  BY DEF Owned, StoreInv, TypeOK, StepInv, FitInv, Sound, Paired,
     UsableUnlessFaulted, OwnedFacts, Contents, ReportedOutcomeHolds, vars,
     fileVars, commandVars, Inspect, Goto, Finish, Fault, Reusable, Trusted,
     PairValid
<1>6. TrustHasPair'
  BY DEF Owned, StoreInv, TypeOK, StepInv, FitInv, Sound, Paired,
     UsableUnlessFaulted, OwnedFacts, Contents, TrustHasPair, vars, fileVars,
     commandVars, Inspect, Goto, Finish, Fault, Reusable, Trusted, PairValid
<1>7. QED
  BY <1>1, <1>2, <1>3, <1>4, <1>5, <1>6 DEF StoreInv

\* The removal of roots keeps the invariant.
LEMMA RemoveTrustKeeps ==
  ASSUME StoreInv, RemoveTrust
  PROVE  StoreInv'
<1>1. TypeOK'
  BY FilesAreDistinct DEF StoreInv, TypeOK, StepInv, Owned, Paired, Contents,
     vars, fileVars, commandVars, RemoveTrust, Removable, StoreRemove, Goto, Fault
<1>2. StepInv'
  BY FilesAreDistinct DEF Owned, StoreInv, TypeOK, StepInv, FitInv, Sound, Paired,
     UsableUnlessFaulted, OwnedFacts, Contents, TrustHasPair, vars, fileVars,
     commandVars, RemoveTrust, Removable, StoreRemove, Goto, Fault
<1>3. FitInv'
  BY DEF Owned, StoreInv, TypeOK, StepInv, FitInv, Sound, Paired,
     UsableUnlessFaulted, OwnedFacts, Contents, vars, fileVars, commandVars,
     RemoveTrust, Removable, StoreRemove, Goto, Fault
<1>4. (NextCommandReconciles /\ RefusedTrustLeavesNothing)'
  BY DEF Owned, StoreInv, TypeOK, StepInv, FitInv, Sound, Paired,
     UsableUnlessFaulted, OwnedFacts, Contents, NextCommandReconciles,
     RefusedTrustLeavesNothing, vars, fileVars, commandVars, RemoveTrust,
     Removable, StoreRemove, Goto, Fault
<1>5. ReportedOutcomeHolds'
  BY DEF Owned, StoreInv, TypeOK, StepInv, FitInv, Sound, Paired,
     UsableUnlessFaulted, OwnedFacts, Contents, ReportedOutcomeHolds, vars,
     fileVars, commandVars, RemoveTrust, Removable, StoreRemove, Goto, Fault
<1>6. TrustHasPair'
  BY DEF Owned, StoreInv, TypeOK, StepInv, FitInv, Sound, Paired,
     UsableUnlessFaulted, OwnedFacts, Contents, TrustHasPair, vars, fileVars,
     commandVars, RemoveTrust, Removable, StoreRemove, Goto, Fault
<1>7. QED
  BY <1>1, <1>2, <1>3, <1>4, <1>5, <1>6 DEF StoreInv

\* The removal of the directory keeps the invariant.
LEMMA WipeKeeps ==
  ASSUME StoreInv, Wipe
  PROVE  StoreInv'
<1>1. TypeOK'
  BY FilesAreDistinct DEF StoreInv, TypeOK, StepInv, Owned, Paired, Contents,
     vars, fileVars, commandVars, Wipe, RemoveDir, Goto, Finish, Fault
<1>2. StepInv'
  BY FilesAreDistinct DEF Owned, StoreInv, TypeOK, StepInv, FitInv, Sound, Paired,
     UsableUnlessFaulted, OwnedFacts, Contents, TrustHasPair, vars, fileVars,
     commandVars, Wipe, RemoveDir, Goto, Finish, Fault
<1>3. FitInv'
  BY DEF Owned, StoreInv, TypeOK, StepInv, FitInv, Sound, Paired,
     UsableUnlessFaulted, OwnedFacts, Contents, vars, fileVars, commandVars, Wipe,
     RemoveDir, Goto, Finish, Fault
<1>4. (NextCommandReconciles /\ RefusedTrustLeavesNothing)'
  <2>1. CASE errs' \/ purpose = "undo"
    <3>1. dir' => faulted'
      BY DEF Wipe, RemoveDir, Fault
    <3>2. purpose # "undo" => faulted'
      <4>1. errs => faulted
        BY DEF StoreInv, StepInv, Wipe
      <4>2. (errs' = errs /\ faulted' = faulted) \/ faulted' = TRUE
        BY DEF Wipe, RemoveDir, Fault
      <4>3. QED
        BY <2>1, <4>1, <4>2
    <3>3. Owned' # {} => faulted'
      BY DEF StoreInv, TypeOK, StepInv, Owned, Wipe, RemoveDir, Fault
    <3>4. QED
      BY <3>1, <3>2, <3>3
      DEF NextCommandReconciles, RefusedTrustLeavesNothing, OwnedFacts, Wipe, commandVars
  <2>2. CASE ~(errs' \/ purpose = "undo")
    BY <2>2 DEF Wipe, Goto, NextCommandReconciles, RefusedTrustLeavesNothing
  <2>3. QED
    BY <2>1, <2>2
<1>5. ReportedOutcomeHolds'
  BY DEF Owned, StoreInv, TypeOK, StepInv, FitInv, Sound, Paired,
     UsableUnlessFaulted, OwnedFacts, Contents, ReportedOutcomeHolds, vars,
     fileVars, commandVars, Wipe, RemoveDir, Goto, Finish, Fault
<1>6. TrustHasPair'
  BY DEF Owned, StoreInv, TypeOK, StepInv, FitInv, Sound, Paired,
     UsableUnlessFaulted, OwnedFacts, Contents, TrustHasPair, vars, fileVars,
     commandVars, Wipe, RemoveDir, Goto, Finish, Fault
<1>7. QED
  BY <1>1, <1>2, <1>3, <1>4, <1>5, <1>6 DEF StoreInv

\* The inspection before a new authority keeps the invariant.
LEMMA ConfirmKeeps ==
  ASSUME StoreInv, Confirm
  PROVE  StoreInv'
<1>1. TypeOK'
  BY FilesAreDistinct DEF StoreInv, TypeOK, StepInv, Owned, Paired, Contents,
     vars, fileVars, commandVars, Confirm, Goto, Finish, Fault
<1>2. StepInv'
  BY FilesAreDistinct DEF Owned, StoreInv, TypeOK, StepInv, FitInv, Sound, Paired,
     UsableUnlessFaulted, OwnedFacts, Contents, TrustHasPair, vars, fileVars,
     commandVars, Confirm, Goto, Finish, Fault
<1>3. FitInv'
  BY DEF Owned, StoreInv, TypeOK, StepInv, FitInv, Sound, Paired,
     UsableUnlessFaulted, OwnedFacts, Contents, vars, fileVars, commandVars,
     Confirm, Goto, Finish, Fault
<1>4. (NextCommandReconciles /\ RefusedTrustLeavesNothing)'
  BY DEF Owned, StoreInv, TypeOK, StepInv, FitInv, Sound, Paired,
     UsableUnlessFaulted, OwnedFacts, Contents, NextCommandReconciles,
     RefusedTrustLeavesNothing, vars, fileVars, commandVars, Confirm, Goto,
     Finish, Fault
<1>5. ReportedOutcomeHolds'
  BY DEF Owned, StoreInv, TypeOK, StepInv, FitInv, Sound, Paired,
     UsableUnlessFaulted, OwnedFacts, Contents, ReportedOutcomeHolds, vars,
     fileVars, commandVars, Confirm, Goto, Finish, Fault
<1>6. TrustHasPair'
  BY DEF Owned, StoreInv, TypeOK, StepInv, FitInv, Sound, Paired,
     UsableUnlessFaulted, OwnedFacts, Contents, TrustHasPair, vars, fileVars,
     commandVars, Confirm, Goto, Finish, Fault
<1>7. QED
  BY <1>1, <1>2, <1>3, <1>4, <1>5, <1>6 DEF StoreInv

\* The new directory keeps the invariant.
LEMMA MakeDirKeeps ==
  ASSUME StoreInv, MakeDir
  PROVE  StoreInv'
<1>1. TypeOK'
  BY FilesAreDistinct DEF StoreInv, TypeOK, StepInv, Owned, Paired, Contents,
     vars, fileVars, commandVars, MakeDir, Goto, Finish, Fault
<1>2. StepInv'
  BY FilesAreDistinct DEF Owned, StoreInv, TypeOK, StepInv, FitInv, Sound, Paired,
     UsableUnlessFaulted, OwnedFacts, Contents, TrustHasPair, vars, fileVars,
     commandVars, MakeDir, Goto, Finish, Fault
<1>3. FitInv'
  BY DEF Owned, StoreInv, TypeOK, StepInv, FitInv, Sound, Paired,
     UsableUnlessFaulted, OwnedFacts, Contents, vars, fileVars, commandVars,
     MakeDir, Goto, Finish, Fault
<1>4. (NextCommandReconciles /\ RefusedTrustLeavesNothing)'
  BY DEF Owned, StoreInv, TypeOK, StepInv, FitInv, Sound, Paired,
     UsableUnlessFaulted, OwnedFacts, Contents, NextCommandReconciles,
     RefusedTrustLeavesNothing, vars, fileVars, commandVars, MakeDir, Goto,
     Finish, Fault
<1>5. ReportedOutcomeHolds'
  BY DEF Owned, StoreInv, TypeOK, StepInv, FitInv, Sound, Paired,
     UsableUnlessFaulted, OwnedFacts, Contents, ReportedOutcomeHolds, vars,
     fileVars, commandVars, MakeDir, Goto, Finish, Fault
<1>6. TrustHasPair'
  BY DEF Owned, StoreInv, TypeOK, StepInv, FitInv, Sound, Paired,
     UsableUnlessFaulted, OwnedFacts, Contents, TrustHasPair, vars, fileVars,
     commandVars, MakeDir, Goto, Finish, Fault
<1>7. QED
  BY <1>1, <1>2, <1>3, <1>4, <1>5, <1>6 DEF StoreInv

\* The new certificate keeps the invariant.
LEMMA WriteCertKeeps ==
  ASSUME StoreInv, WriteCert
  PROVE  StoreInv'
<1>1. TypeOK'
  BY FilesAreDistinct DEF StoreInv, TypeOK, StepInv, Owned, Paired, Contents,
     vars, fileVars, commandVars, WriteCert, Goto, Finish, Fault
<1>2. StepInv'
  BY FilesAreDistinct DEF Owned, StoreInv, TypeOK, StepInv, FitInv, Sound, Paired,
     UsableUnlessFaulted, OwnedFacts, Contents, TrustHasPair, vars, fileVars,
     commandVars, WriteCert, Goto, Finish, Fault
<1>3. FitInv'
  BY DEF Owned, StoreInv, TypeOK, StepInv, FitInv, Sound, Paired,
     UsableUnlessFaulted, OwnedFacts, Contents, vars, fileVars, commandVars,
     WriteCert, Goto, Finish, Fault
<1>4. (NextCommandReconciles /\ RefusedTrustLeavesNothing)'
  BY DEF Owned, StoreInv, TypeOK, StepInv, FitInv, Sound, Paired,
     UsableUnlessFaulted, OwnedFacts, Contents, NextCommandReconciles,
     RefusedTrustLeavesNothing, vars, fileVars, commandVars, WriteCert, Goto,
     Finish, Fault
<1>5. ReportedOutcomeHolds'
  BY DEF Owned, StoreInv, TypeOK, StepInv, FitInv, Sound, Paired,
     UsableUnlessFaulted, OwnedFacts, Contents, ReportedOutcomeHolds, vars,
     fileVars, commandVars, WriteCert, Goto, Finish, Fault
<1>6. TrustHasPair'
  BY DEF Owned, StoreInv, TypeOK, StepInv, FitInv, Sound, Paired,
     UsableUnlessFaulted, OwnedFacts, Contents, TrustHasPair, vars, fileVars,
     commandVars, WriteCert, Goto, Finish, Fault
<1>7. QED
  BY <1>1, <1>2, <1>3, <1>4, <1>5, <1>6 DEF StoreInv

\* The new key keeps the invariant.
LEMMA WriteKeyKeeps ==
  ASSUME StoreInv, WriteKey
  PROVE  StoreInv'
<1>1. TypeOK'
  BY FilesAreDistinct DEF StoreInv, TypeOK, StepInv, Owned, Paired, Contents,
     vars, fileVars, commandVars, WriteKey, Goto, Finish, Fault
<1>2. StepInv'
  BY FilesAreDistinct DEF Owned, StoreInv, TypeOK, StepInv, FitInv, Sound, Paired,
     UsableUnlessFaulted, OwnedFacts, Contents, TrustHasPair, vars, fileVars,
     commandVars, WriteKey, Goto, Finish, Fault
<1>3. FitInv'
  BY DEF Owned, StoreInv, TypeOK, StepInv, FitInv, Sound, Paired,
     UsableUnlessFaulted, OwnedFacts, Contents, vars, fileVars, commandVars,
     WriteKey, Goto, Finish, Fault
<1>4. (NextCommandReconciles /\ RefusedTrustLeavesNothing)'
  BY DEF Owned, StoreInv, TypeOK, StepInv, FitInv, Sound, Paired,
     UsableUnlessFaulted, OwnedFacts, Contents, NextCommandReconciles,
     RefusedTrustLeavesNothing, vars, fileVars, commandVars, WriteKey, Goto,
     Finish, Fault
<1>5. ReportedOutcomeHolds'
  BY DEF Owned, StoreInv, TypeOK, StepInv, FitInv, Sound, Paired,
     UsableUnlessFaulted, OwnedFacts, Contents, ReportedOutcomeHolds, vars,
     fileVars, commandVars, WriteKey, Goto, Finish, Fault
<1>6. TrustHasPair'
  BY DEF Owned, StoreInv, TypeOK, StepInv, FitInv, Sound, Paired,
     UsableUnlessFaulted, OwnedFacts, Contents, TrustHasPair, vars, fileVars,
     commandVars, WriteKey, Goto, Finish, Fault
<1>7. QED
  BY <1>1, <1>2, <1>3, <1>4, <1>5, <1>6 DEF StoreInv

\* The new root keeps the invariant.
LEMMA AddTrustKeeps ==
  ASSUME StoreInv, AddTrust
  PROVE  StoreInv'
<1>1. TypeOK'
  BY FilesAreDistinct DEF StoreInv, TypeOK, StepInv, Owned, Paired, Contents,
     vars, fileVars, commandVars, AddTrust, StoreAdd, AfterFailedAdd, Goto,
     Finish, Fault
<1>2. StepInv'
  BY FilesAreDistinct DEF Owned, StoreInv, TypeOK, StepInv, FitInv, Sound, Paired,
     UsableUnlessFaulted, OwnedFacts, Contents, TrustHasPair, vars, fileVars,
     commandVars, AddTrust, StoreAdd, AfterFailedAdd, Goto, Finish, Fault
<1>3. FitInv'
  BY DEF Owned, StoreInv, TypeOK, StepInv, FitInv, Sound, Paired,
     UsableUnlessFaulted, OwnedFacts, Contents, vars, fileVars, commandVars,
     AddTrust, StoreAdd, AfterFailedAdd, Goto, Finish, Fault
<1>4. (NextCommandReconciles /\ RefusedTrustLeavesNothing)'
  BY DEF Owned, StoreInv, TypeOK, StepInv, FitInv, Sound, Paired,
     UsableUnlessFaulted, OwnedFacts, Contents, NextCommandReconciles,
     RefusedTrustLeavesNothing, vars, fileVars, commandVars, AddTrust, StoreAdd,
     AfterFailedAdd, Goto, Finish, Fault
<1>5. ReportedOutcomeHolds'
  BY DEF Owned, StoreInv, TypeOK, StepInv, FitInv, Sound, Paired,
     UsableUnlessFaulted, OwnedFacts, Contents, ReportedOutcomeHolds, vars,
     fileVars, commandVars, AddTrust, StoreAdd, AfterFailedAdd, Goto, Finish,
     Fault
<1>6. TrustHasPair'
  BY DEF Owned, StoreInv, TypeOK, StepInv, FitInv, Sound, Paired,
     UsableUnlessFaulted, OwnedFacts, Contents, TrustHasPair, vars, fileVars,
     commandVars, AddTrust, StoreAdd, AfterFailedAdd, Goto, Finish, Fault
<1>7. QED
  BY <1>1, <1>2, <1>3, <1>4, <1>5, <1>6 DEF StoreInv

\* The repair of permissions keeps the invariant.
LEMMA RepairKeeps ==
  ASSUME StoreInv, Repair
  PROVE  StoreInv'
<1>1. TypeOK'
  BY FilesAreDistinct DEF StoreInv, TypeOK, StepInv, Owned, Paired, Contents,
     vars, fileVars, commandVars, Repair, Goto, Finish, Fault
<1>2. StepInv'
  BY FilesAreDistinct DEF Owned, StoreInv, TypeOK, StepInv, FitInv, Sound, Paired,
     UsableUnlessFaulted, OwnedFacts, Contents, TrustHasPair, vars, fileVars,
     commandVars, Repair, Goto, Finish, Fault
<1>3. FitInv'
  BY DEF Owned, StoreInv, TypeOK, StepInv, FitInv, Sound, Paired,
     UsableUnlessFaulted, OwnedFacts, Contents, vars, fileVars, commandVars,
     Repair, Goto, Finish, Fault
<1>4. (NextCommandReconciles /\ RefusedTrustLeavesNothing)'
  BY DEF Owned, StoreInv, TypeOK, StepInv, FitInv, Sound, Paired,
     UsableUnlessFaulted, OwnedFacts, Contents, NextCommandReconciles,
     RefusedTrustLeavesNothing, vars, fileVars, commandVars, Repair, Goto, Finish,
     Fault
<1>5. ReportedOutcomeHolds'
  BY DEF Owned, StoreInv, TypeOK, StepInv, FitInv, Sound, Paired,
     UsableUnlessFaulted, OwnedFacts, Contents, ReportedOutcomeHolds, vars,
     fileVars, commandVars, Repair, Goto, Finish, Fault
<1>6. TrustHasPair'
  BY DEF Owned, StoreInv, TypeOK, StepInv, FitInv, Sound, Paired,
     UsableUnlessFaulted, OwnedFacts, Contents, TrustHasPair, vars, fileVars,
     commandVars, Repair, Goto, Finish, Fault
<1>7. QED
  BY <1>1, <1>2, <1>3, <1>4, <1>5, <1>6 DEF StoreInv

\* The last inspection keeps the invariant.
LEMMA VerifyKeeps ==
  ASSUME StoreInv, Verify
  PROVE  StoreInv'
<1>1. TypeOK'
  BY FilesAreDistinct DEF StoreInv, TypeOK, StepInv, Owned, Paired, Contents,
     vars, fileVars, commandVars, Verify, Goto, Finish, Fault, Trusted, PairValid
<1>2. StepInv'
  BY FilesAreDistinct DEF Owned, StoreInv, TypeOK, StepInv, FitInv, Sound, Paired,
     UsableUnlessFaulted, OwnedFacts, Contents, TrustHasPair, vars, fileVars,
     commandVars, Verify, Goto, Finish, Fault, Trusted, PairValid
<1>3. FitInv'
  BY DEF Owned, StoreInv, TypeOK, StepInv, FitInv, Sound, Paired,
     UsableUnlessFaulted, OwnedFacts, Contents, vars, fileVars, commandVars,
     Verify, Goto, Finish, Fault, Trusted, PairValid
<1>4. (NextCommandReconciles /\ RefusedTrustLeavesNothing)'
  BY DEF Owned, StoreInv, TypeOK, StepInv, FitInv, Sound, Paired,
     UsableUnlessFaulted, OwnedFacts, Contents, NextCommandReconciles,
     RefusedTrustLeavesNothing, vars, fileVars, commandVars, Verify, Goto, Finish,
     Fault, Trusted, PairValid
<1>5. ReportedOutcomeHolds'
  BY DEF Owned, StoreInv, TypeOK, StepInv, FitInv, Sound, Paired,
     UsableUnlessFaulted, OwnedFacts, Contents, ReportedOutcomeHolds, vars,
     fileVars, commandVars, Verify, Goto, Finish, Fault, Trusted, PairValid
<1>6. TrustHasPair'
  BY DEF Owned, StoreInv, TypeOK, StepInv, FitInv, Sound, Paired,
     UsableUnlessFaulted, OwnedFacts, Contents, TrustHasPair, vars, fileVars,
     commandVars, Verify, Goto, Finish, Fault, Trusted, PairValid
<1>7. QED
  BY <1>1, <1>2, <1>3, <1>4, <1>5, <1>6 DEF StoreInv

\* A crash keeps the invariant.
LEMMA CrashKeeps ==
  ASSUME StoreInv, Crash
  PROVE  StoreInv'
<1>1. TypeOK'
  BY FilesAreDistinct DEF StoreInv, TypeOK, StepInv, Owned, Paired, Contents,
     vars, fileVars, commandVars, Crash, Finish
<1>2. StepInv'
  BY FilesAreDistinct DEF Owned, StoreInv, TypeOK, StepInv, FitInv, Sound, Paired,
     UsableUnlessFaulted, OwnedFacts, Contents, TrustHasPair, vars, fileVars,
     commandVars, Crash, Finish
<1>3. FitInv'
  BY DEF Owned, StoreInv, TypeOK, StepInv, FitInv, Sound, Paired,
     UsableUnlessFaulted, OwnedFacts, Contents, vars, fileVars, commandVars,
     Crash, Finish
<1>4. (NextCommandReconciles /\ RefusedTrustLeavesNothing)'
  BY DEF Owned, StoreInv, TypeOK, StepInv, FitInv, Sound, Paired,
     UsableUnlessFaulted, OwnedFacts, Contents, NextCommandReconciles,
     RefusedTrustLeavesNothing, vars, fileVars, commandVars, Crash, Finish
<1>5. ReportedOutcomeHolds'
  BY DEF Owned, StoreInv, TypeOK, StepInv, FitInv, Sound, Paired,
     UsableUnlessFaulted, OwnedFacts, Contents, ReportedOutcomeHolds, vars,
     fileVars, commandVars, Crash, Finish
<1>6. TrustHasPair'
  BY DEF Owned, StoreInv, TypeOK, StepInv, FitInv, Sound, Paired,
     UsableUnlessFaulted, OwnedFacts, Contents, TrustHasPair, vars, fileVars,
     commandVars, Crash, Finish
<1>7. QED
  BY <1>1, <1>2, <1>3, <1>4, <1>5, <1>6 DEF StoreInv

\* An edit between commands keeps the invariant.
LEMMA EditKeeps ==
  ASSUME StoreInv, Edit
  PROVE  StoreInv'
<1>1. TypeOK'
  BY FilesAreDistinct DEF StoreInv, TypeOK, StepInv, Owned, Paired, Contents,
     vars, fileVars, commandVars, Edit
<1>2. StepInv'
  <2>1. step = "idle" /\ step' = "idle" /\ commandVars' = commandVars
    BY DEF Edit
  <2>2. ~dir' => certFile' = Absent /\ keyFile' = Absent
    <3>1. ~dir => certFile = Absent /\ keyFile = Absent
      BY DEF StoreInv, StepInv
    <3>2. CASE UNCHANGED fileVars
      BY <3>1, <3>2 DEF fileVars
    <3>3. CASE dir /\ UNCHANGED dir
      BY <3>3
    <3>4. QED
      BY <3>2, <3>3 DEF Edit
  <2>3. QED
    BY <2>1, <2>2 DEF StoreInv, StepInv, commandVars
<1>3. FitInv'
  BY DEF Owned, StoreInv, TypeOK, StepInv, FitInv, Sound, Paired,
     UsableUnlessFaulted, OwnedFacts, Contents, vars, fileVars, commandVars, Edit
<1>4. (NextCommandReconciles /\ RefusedTrustLeavesNothing)'
  BY DEF Owned, StoreInv, TypeOK, StepInv, FitInv, Sound, Paired,
     UsableUnlessFaulted, OwnedFacts, Contents, NextCommandReconciles,
     RefusedTrustLeavesNothing, vars, fileVars, commandVars, Edit
<1>5. ReportedOutcomeHolds'
  BY DEF Owned, StoreInv, TypeOK, StepInv, FitInv, Sound, Paired,
     UsableUnlessFaulted, OwnedFacts, Contents, ReportedOutcomeHolds, vars,
     fileVars, commandVars, Edit
<1>6. TrustHasPair'
  BY DEF Owned, StoreInv, TypeOK, StepInv, FitInv, Sound, Paired,
     UsableUnlessFaulted, OwnedFacts, Contents, TrustHasPair, vars, fileVars,
     commandVars, Edit
<1>7. QED
  BY <1>1, <1>2, <1>3, <1>4, <1>5, <1>6 DEF StoreInv

\* The passing of time keeps the invariant.
LEMMA ExpireKeeps ==
  ASSUME StoreInv, NEW a \in Authorities, Expire(a)
  PROVE  StoreInv'
<1>1. TypeOK'
  BY FilesAreDistinct DEF StoreInv, TypeOK, StepInv, Owned, Paired, Contents,
     vars, fileVars, commandVars, Expire, Fault
<1>2. StepInv'
  <2>1. CASE a = certFile
    BY <2>1 DEF StoreInv, TypeOK, StepInv, Paired, UsableUnlessFaulted, Owned,
       OwnedFacts,
                Contents, TrustHasPair, fileVars, Expire, Fault
  <2>2. CASE a # certFile
    <3>1. certFile \in Authorities => age'[certFile] = age[certFile]
      BY <2>2 DEF StoreInv, TypeOK, Contents, Expire
    <3>2. certFile' = certFile /\ (faulted' <=> faulted)
      BY <2>2 DEF StoreInv, TypeOK, Expire, Fault, fileVars
    <3>3. QED
      BY <3>1, <3>2 DEF StoreInv, StepInv, Paired, UsableUnlessFaulted, Owned,
         OwnedFacts,
                          fileVars, Expire
  <2>3. QED
    BY <2>1, <2>2
<1>3. FitInv'
  BY DEF Owned, StoreInv, TypeOK, StepInv, FitInv, Sound, Paired,
     UsableUnlessFaulted, OwnedFacts, Contents, vars, fileVars, commandVars,
     Expire, Fault
<1>4. (NextCommandReconciles /\ RefusedTrustLeavesNothing)'
  BY DEF Owned, StoreInv, TypeOK, StepInv, FitInv, Sound, Paired,
     UsableUnlessFaulted, OwnedFacts, Contents, NextCommandReconciles,
     RefusedTrustLeavesNothing, vars, fileVars, commandVars, Expire, Fault
<1>5. ReportedOutcomeHolds'
  BY DEF Owned, StoreInv, TypeOK, StepInv, FitInv, Sound, Paired,
     UsableUnlessFaulted, OwnedFacts, Contents, ReportedOutcomeHolds, vars,
     fileVars, commandVars, Expire, Fault
<1>6. TrustHasPair'
  BY DEF Owned, StoreInv, TypeOK, StepInv, FitInv, Sound, Paired,
     UsableUnlessFaulted, OwnedFacts, Contents, TrustHasPair, vars, fileVars,
     commandVars, Expire, Fault
<1>7. QED
  BY <1>1, <1>2, <1>3, <1>4, <1>5, <1>6 DEF StoreInv

(***************************************************************************)
(* Theorems.                                                               *)
(***************************************************************************)
\* The invariant is inductive.
THEOREM StoreInvariant == Spec => []StoreInv
<1>1. Init => StoreInv
  BY RootsAreDistinct DEF Init, StoreInv, TypeOK, Owned, StepInv, FitInv,
     OwnedFacts, Contents, NextCommandReconciles,
         RefusedTrustLeavesNothing, ReportedOutcomeHolds, TrustHasPair
<1>2. StoreInv /\ [Next]_vars => StoreInv'
  <2> SUFFICES ASSUME StoreInv, [Next]_vars
               PROVE  StoreInv'
    OBVIOUS
  <2>1. CASE \E c \in {"install", "uninstall"} : Begin(c)
    BY <2>1, BeginKeeps
  <2>2. CASE Command
    BY <2>2, InspectKeeps, RemoveTrustKeeps, WipeKeeps, ConfirmKeeps,
       MakeDirKeeps,
       WriteCertKeeps, WriteKeyKeeps, AddTrustKeeps, RepairKeeps, VerifyKeeps DEF Command
  <2>3. CASE Crash
    BY <2>3, CrashKeeps
  <2>4. CASE Edit
    BY <2>4, EditKeeps
  <2>5. CASE \E a \in Authorities : Expire(a)
    BY <2>5, ExpireKeeps
  <2>6. CASE UNCHANGED vars
    BY <2>6 DEF StoreInv, TypeOK, Owned, StepInv, FitInv, Sound, Paired,
       UsableUnlessFaulted, OwnedFacts,
                Contents, NextCommandReconciles, RefusedTrustLeavesNothing, ReportedOutcomeHolds,
                TrustHasPair, vars, fileVars, commandVars
  <2>7. QED
    BY <2>1, <2>2, <2>3, <2>4, <2>5, <2>6 DEF Next
<1>3. QED
  BY <1>1, <1>2, PTL DEF Spec

\* The footprint of any crash, failure or edit is reconciled by the next command
\* whose own calls succeed.
THEOREM NextCommandReconcilesAlways == Spec => []NextCommandReconciles
<1>1. StoreInv => NextCommandReconciles
  BY DEF StoreInv
<1>2. QED
  BY <1>1, StoreInvariant, PTL

\* A refused root leaves neither files nor roots behind when the cleanup works.
THEOREM RefusedTrustLeavesNothingAlways == Spec => []RefusedTrustLeavesNothing
<1>1. StoreInv => RefusedTrustLeavesNothing
  BY DEF StoreInv
<1>2. QED
  BY <1>1, StoreInvariant, PTL

\* The reported outcome is the state of both places.
THEOREM ReportedOutcomeAlwaysHolds == Spec => []ReportedOutcomeHolds
<1>1. StoreInv => ReportedOutcomeHolds
  BY DEF StoreInv
<1>2. QED
  BY <1>1, StoreInvariant, PTL

\* Crashes and failed writes never leave a root without its key.
THEOREM TrustAlwaysHasPair == Spec => []TrustHasPair
<1>1. StoreInv => TrustHasPair
  BY DEF StoreInv
<1>2. QED
  BY <1>1, StoreInvariant, PTL

\* A root is added only when there is none, and only with its key stored.
THEOREM NeverOverlaps == Spec => NoOverlap
<1>1. StoreInv /\ [Next]_vars
        => [step # "idle" /\ ~(trust' \subseteq trust)
              => Owned = {} /\ trust' = trust \cup {certFile} /\ keyFile = certFile]_vars
  <2> SUFFICES ASSUME StoreInv, Next, step # "idle", ~(trust' \subseteq trust)
               PROVE  Owned = {} /\ trust' = trust \cup {certFile} /\ keyFile = certFile
    OBVIOUS
  <2>1. CASE AddTrust
    BY <2>1 DEF AddTrust, StoreAdd, StoreInv, StepInv, Paired
  <2>2. CASE RemoveTrust
    BY <2>2 DEF RemoveTrust, Removable, StoreRemove, Owned
  <2>3. CASE Begin("install") \/ Begin("uninstall") \/ Edit
    BY <2>3 DEF Begin, Edit
  <2>4. CASE UNCHANGED trust
    BY <2>4
  <2>5. QED
    BY <2>1, <2>2, <2>3, <2>4
    DEF Next, Command, Inspect, Wipe, Confirm, MakeDir, WriteCert, WriteKey, Repair, Verify, Crash,
        Expire
<1>2. QED
  BY <1>1, StoreInvariant, PTL DEF Spec, NoOverlap

\* The roots of others stay as they are.
THEOREM ForeignNeverTouched == Spec => ForeignUntouched
<1>1. StoreInv /\ [Next]_vars
        => [step # "idle" => trust' \cap Foreign = trust \cap Foreign]_vars
  <2> SUFFICES ASSUME StoreInv, Next, step # "idle"
               PROVE  trust' \cap Foreign = trust \cap Foreign
    OBVIOUS
  <2>1. CASE AddTrust
    <3>1. certFile \notin Foreign
      BY <2>1, RootsAreDistinct DEF AddTrust, StoreInv, StepInv, Paired
    <3>2. QED
      BY <2>1, <3>1 DEF AddTrust, StoreAdd
  <2>2. CASE RemoveTrust
    BY <2>2, RootsAreDistinct DEF RemoveTrust, Removable, StoreRemove, Owned
  <2>3. CASE Begin("install") \/ Begin("uninstall") \/ Edit
    BY <2>3 DEF Begin, Edit
  <2>4. CASE UNCHANGED trust
    BY <2>4
  <2>5. QED
    BY <2>1, <2>2, <2>3, <2>4
    DEF Next, Command, Inspect, Wipe, Confirm, MakeDir, WriteCert, WriteKey, Repair, Verify, Crash,
        Expire
<1>2. QED
  BY <1>1, StoreInvariant, PTL DEF Spec, ForeignUntouched

\* An install keeps the pair it must keep, to whichever end it comes.
THEOREM ValidPairAlwaysKept == Spec => ValidPairKept
<1>1. StoreInv /\ [Next]_vars => [step # "idle" /\ fit => UNCHANGED <<certFile, keyFile>>]_vars
  <2> SUFFICES ASSUME StoreInv, Next, step # "idle", fit
               PROVE  UNCHANGED <<certFile, keyFile>>
    OBVIOUS
  <2>1. step \notin {"wipe", "cert", "key"}
    BY DEF StoreInv, StepInv, FitInv
  <2>2. QED
    BY <2>1
    DEF Next, Command, Begin, Inspect, RemoveTrust, Wipe, Confirm, MakeDir, WriteCert, WriteKey,
        AddTrust, Repair, Verify, Crash, Edit, Expire, fileVars
<1>2. QED
  BY <1>1, StoreInvariant, PTL DEF Spec, ValidPairKept
==============================================================================
