------------------------ MODULE RuntimeSignalingProofs ------------------------
(***************************************************************************)
(* Safety of the goroutines of a running runtime, for any number of lists, *)
(* CA commands, assessments and UserCAs.                                   *)
(***************************************************************************)
EXTENDS RuntimeSignalingInvariant, TLAPS

\* The goroutines that ask for assessments.
Requesters == CAProcs \cup {Watcher}

\* The part of the type invariant that is about where goroutines are.
PlacesOK ==
  /\ pc \in [Procs -> ListSteps \cup WatcherSteps \cup AssessSteps \cup MutatorSteps]
  /\ \A l \in Lists : pc[l] \in ListSteps
  /\ pc[Watcher] \in WatcherSteps
  /\ \A a \in Assessing : pc[a] \in AssessSteps
  /\ \A m \in Mutators : pc[m] \in MutatorSteps

\* What is derived from lists and a UserCA is of the type of what is served.
LEMMA ProjectedType ==
  ASSUME NEW lists \in [Lists -> Contents], NEW ca \in CAOrNone
  PROVE  Projected(lists, ca) \in Projections
<1> DEFINE upstreams == UNION {lists[l] : l \in Lists}
           trustedHTTPS == ca # None /\ upstreams # {}
           x == <<upstreams, trustedHTTPS>>
<1>1. upstreams \in Selections
  BY DEF Selections
<1>2. trustedHTTPS \in BOOLEAN
  OBVIOUS
<1>3. x \in Selections \X BOOLEAN
  BY <1>1, <1>2
<1>4. /\ SemanticsOf[x] \in {SemanticsOf[y] : y \in Selections \X BOOLEAN}
      /\ FacadesOf[x] \in {FacadesOf[y] : y \in Selections \X BOOLEAN}
  BY <1>3
<1>5. (IF trustedHTTPS THEN ca ELSE None) \in CAOrNone
  BY DEF CAOrNone
<1>6. Projected(lists, ca) =
        [semantics |-> SemanticsOf[x], identity |-> IF trustedHTTPS THEN ca ELSE None,
         facades |-> FacadesOf[x]]
  BY DEF Projected
<1> HIDE DEF x, upstreams, trustedHTTPS
<1> QED
  BY <1>4, <1>5, <1>6 DEF Projections

\* What is derived without HTTPS names no UserCA, and is what lists give without one.
LEMMA ProjectedOnce ==
  ASSUME NEW lists, NEW ca
  PROVE  Projected(lists, ca) = Projected(lists, Projected(lists, ca).identity)
<1> DEFINE upstreams == UNION {lists[l] : l \in Lists}
<1>1. CASE ca # None /\ upstreams # {}
  BY <1>1 DEF Projected
<1>2. CASE ~(ca # None /\ upstreams # {})
  <2>1. Projected(lists, ca).identity = None
    BY <1>2 DEF Projected
  <2>2. Projected(lists, ca) = Projected(lists, None)
    BY <1>2 DEF Projected
  <2> QED
    BY <2>1, <2>2
<1> QED
  BY <1>1, <1>2

\* Every step keeps the flags in their type.
LEMMA FlagStep ==
  ASSUME FlagsOK, [Next]_vars
  PROVE  FlagsOK'
<1> USE DEF FlagsOK, vars, timerVars, caVars
<1>1. ASSUME NEW l \in Lists, ListApplies(l)
       PROVE  FlagsOK'
  BY <1>1 DEF ListApplies, SwitchTo, AfterSwitch, Goto
<1>2. ASSUME NEW l \in Lists, ListUnreadable(l)
       PROVE  FlagsOK'
  BY <1>2 DEF ListUnreadable
<1>3. ASSUME NEW l \in Lists, ListPublishes(l)
       PROVE  FlagsOK'
  BY <1>3 DEF ListPublishes, Publish, AfterSwitch
<1>4. ASSUME NEW l \in Lists, ListReadsContext(l)
       PROVE  FlagsOK'
  BY <1>4 DEF ListReadsContext, Goto
<1>5. ASSUME NEW l \in Lists, ListAsks(l)
       PROVE  FlagsOK'
  BY <1>5 DEF ListAsks
<1>6. CASE WatcherDelivers
  BY <1>6 DEF WatcherDelivers, Goto
<1>7. CASE WatcherRecords
  BY <1>7 DEF WatcherRecords, Goto
<1>8. ASSUME NEW p \in Requesters, Request(p)
       PROVE  FlagsOK'
  BY <1>8 DEF Request
<1>9. ASSUME NEW p \in Requesters, RequestBusy(p)
       PROVE  FlagsOK'
  BY <1>9 DEF RequestBusy, Through, AdmissionFree, Goto
<1>10. ASSUME NEW p \in Requesters, SetPending(p)
       PROVE  FlagsOK'
  BY <1>10 DEF SetPending, Through, Goto
<1>11. ASSUME NEW p \in CAProcs, ScheduleBegins(p)
       PROVE  FlagsOK'
  BY <1>11 DEF ScheduleBegins, Goto
<1>12. ASSUME NEW p \in CAProcs, ScheduleEnds(p)
       PROVE  FlagsOK'
  BY <1>12 DEF ScheduleEnds, Goto
<1>13. ASSUME NEW a \in Assessing, AssessInspects(a)
       PROVE  FlagsOK'
  BY <1>13 DEF AssessInspects, Goto
<1>14. ASSUME NEW a \in Assessing, AssessAdopts(a)
       PROVE  FlagsOK'
  BY <1>14 DEF AssessAdopts, Adopt, SwitchTo, NewRevision, Goto
<1>15. ASSUME NEW a \in Assessing, AssessPublishes(a)
       PROVE  FlagsOK'
  BY <1>15 DEF AssessPublishes, Publish
<1>16. ASSUME NEW a \in Assessing, AssessCancels(a)
       PROVE  FlagsOK'
  BY <1>16 DEF AssessCancels, Goto
<1>17. ASSUME NEW a \in Assessing, AssessFinishes(a)
       PROVE  FlagsOK'
  BY <1>17 DEF AssessFinishes, Goto
<1>18. ASSUME NEW a \in Assessing, AssessTakesPending(a)
       PROVE  FlagsOK'
  BY <1>18 DEF AssessTakesPending, Goto
<1>19. CASE DeadlineFires
  BY <1>19 DEF DeadlineFires, Goto
<1>20. CASE DeadlineTries
  BY <1>20 DEF DeadlineTries, Goto
<1>21. CASE DeadlineExpires
  BY <1>21 DEF DeadlineExpires, Adopt, SwitchTo, NewRevision, Goto
<1>22. ASSUME NEW m \in Mutators, MutatorTries(m)
       PROVE  FlagsOK'
  BY <1>22 DEF MutatorTries, Goto
<1>23. ASSUME NEW m \in Mutators, MutatorAdmits(m)
       PROVE  FlagsOK'
  BY <1>23 DEF MutatorAdmits, Goto
<1>24. ASSUME NEW m \in Mutators, UninstallConsents(m)
       PROVE  FlagsOK'
  BY <1>24 DEF UninstallConsents, Goto
<1>25. ASSUME NEW m \in Mutators, MutatorWithdraws(m)
       PROVE  FlagsOK'
  BY <1>25 DEF MutatorWithdraws, Adopt, SwitchTo, NewRevision, Goto
<1>26. ASSUME NEW m \in Mutators, MutatorPublishes(m)
       PROVE  FlagsOK'
  BY <1>26 DEF MutatorPublishes, Publish, AfterAdoption
<1>27. ASSUME NEW m \in Mutators, MutatorCancels(m)
       PROVE  FlagsOK'
  BY <1>27 DEF MutatorCancels, Goto
<1>28. ASSUME NEW m \in Mutators, InstallWorks(m)
       PROVE  FlagsOK'
  BY <1>28 DEF InstallWorks, Usable, Goto
<1>29. ASSUME NEW m \in Mutators, UninstallWorks(m)
       PROVE  FlagsOK'
  BY <1>29 DEF UninstallWorks, Goto
<1>30. ASSUME NEW m \in Mutators, MutatorAdopts(m)
       PROVE  FlagsOK'
  BY <1>30 DEF MutatorAdopts, AfterAdoption, Adopt, SwitchTo, NewRevision, Goto
<1>31. ASSUME NEW m \in Mutators, MutatorSettles(m)
       PROVE  FlagsOK'
  BY <1>31 DEF MutatorSettles, Goto
<1>32. ASSUME NEW m \in Mutators, MutatorUnlocks(m)
       PROVE  FlagsOK'
  BY <1>32 DEF MutatorUnlocks, Goto
<1>33. ASSUME NEW ca \in CAs, Expires(ca)
       PROVE  FlagsOK'
  BY <1>33 DEF Expires
<1>34. CASE UNCHANGED vars
  BY <1>34
<1> QED
  BY <1>1, <1>2, <1>3, <1>4, <1>5, <1>6, <1>7, <1>8, <1>9, <1>10, <1>11, <1>12, <1>13,
     <1>14, <1>15, <1>16, <1>17, <1>18, <1>19, <1>20, <1>21, <1>22, <1>23, <1>24,
     <1>25, <1>26, <1>27, <1>28, <1>29, <1>30, <1>31, <1>32, <1>33, <1>34
     DEF Next, ListStep, WatcherStep, AssessStep, DeadlineStep, MutatorStep, RequestStep,
         Requesters, CAProcs

\* Every step keeps every variable in its type.
LEMMA TypeStep ==
  ASSUME TypeOK, [Next]_vars
  PROVE  TypeOK'
<1> USE FlagStep, ProcsDiffer
        DEF TypeOK, vars, timerVars, caVars, Procs, CAProcs, Requesters, Assessing, Mutators,
            CAOrNone, ListSteps, WatcherSteps, AssessSteps, MutatorSteps
<1>1. ASSUME NEW l \in Lists, ListApplies(l)
       PROVE  TypeOK'
  <2>1. PICK contents \in Contents :
              SwitchTo(l, [projection EXCEPT ![l] = contents], userCA, "send", AfterSwitch)
    BY <1>1 DEF ListApplies
  <2>2. projection' \in [Lists -> Contents]
    BY <2>1 DEF SwitchTo
  <2>3. served' \in Projections
    <3>1. served' = served \/ served' = Projected(projection', userCA)
      BY <2>1 DEF SwitchTo
    <3>2. Projected(projection', userCA) \in Projections
      BY <2>2, ProjectedType
    <3> QED
      BY <3>1, <3>2
  <2>4. rMu' \in Procs \cup {None}
    BY <2>1 DEF SwitchTo
  <2>5. \E step \in ListSteps : pc' = [pc EXCEPT ![l] = step]
    BY <2>1 DEF SwitchTo, AfterSwitch, Goto
  <2> QED
    BY <1>1, <2>1, <2>2, <2>3, <2>4, <2>5 DEF ListApplies, SwitchTo
<1>2. ASSUME NEW l \in Lists, ListUnreadable(l)
       PROVE  TypeOK'
  BY <1>2 DEF ListUnreadable
<1>3. ASSUME NEW l \in Lists, ListPublishes(l)
       PROVE  TypeOK'
  BY <1>3 DEF ListPublishes, Publish, AfterSwitch
<1>4. ASSUME NEW l \in Lists, ListReadsContext(l)
       PROVE  TypeOK'
  BY <1>4 DEF ListReadsContext, Goto
<1>5. ASSUME NEW l \in Lists, ListAsks(l)
       PROVE  TypeOK'
  BY <1>5 DEF ListAsks
<1>6. CASE WatcherDelivers
  BY <1>6 DEF WatcherDelivers, Goto
<1>7. CASE WatcherRecords
  BY <1>7 DEF WatcherRecords, Goto
<1>8. ASSUME NEW p \in Requesters, Request(p)
       PROVE  TypeOK'
  BY <1>8 DEF Request, Through, AdmissionFree
<1>9. ASSUME NEW p \in Requesters, RequestBusy(p)
       PROVE  TypeOK'
  BY <1>9 DEF RequestBusy, Through, AdmissionFree, Goto
<1>10. ASSUME NEW p \in Requesters, SetPending(p)
       PROVE  TypeOK'
  <2>1. PlacesOK'
    <3>1. CASE p = Watcher
      <4>1. pc' = [pc EXCEPT ![p] = "select"]
        BY <1>10, <3>1 DEF SetPending, Through, Goto
      <4> QED
        BY <3>1, <4>1 DEF PlacesOK
    <3>2. CASE p \in Mutators
      <4>1. pc' = [pc EXCEPT ![p] = "done"]
        BY <1>10, <3>2 DEF SetPending, Through, Goto
      <4> QED
        BY <3>2, <4>1 DEF PlacesOK
    <3>3. CASE p \in Assessing
      <4>0. p # Watcher /\ p \notin Mutators
        BY <3>3
      <4>1. pc' = [pc EXCEPT ![p] = "idle"]
        BY <1>10, <4>0 DEF SetPending, Through, Goto
      <4> QED
        BY <3>3, <4>1 DEF PlacesOK
    <3> QED
      BY <3>1, <3>2, <3>3
  <2>2. UNCHANGED <<projection, userCA, served, installed, expired, found, timer, fMu, rMu, caMu>>
    BY <1>10 DEF SetPending
  <2> QED
    BY <2>1, <2>2 DEF PlacesOK
<1>11. ASSUME NEW p \in CAProcs, ScheduleBegins(p)
       PROVE  TypeOK'
  BY <1>11 DEF ScheduleBegins, Goto
<1>12. ASSUME NEW p \in CAProcs, ScheduleEnds(p)
       PROVE  TypeOK'
  <2>1. PlacesOK'
    <3>1. CASE p \in Mutators
      <4>1. pc' = [pc EXCEPT ![p] = "settle"]
        BY <1>12, <3>1 DEF ScheduleEnds, Goto
      <4> QED
        BY <3>1, <4>1 DEF PlacesOK
    <3>2. CASE p \in Assessing
      <4>1. pc' = [pc EXCEPT ![p] = "finish"]
        BY <1>12, <3>2 DEF ScheduleEnds, Goto
      <4> QED
        BY <3>2, <4>1 DEF PlacesOK
    <3> QED
      BY <3>1, <3>2
  <2> QED
    BY <1>12, <2>1 DEF ScheduleEnds, PlacesOK
<1>13. ASSUME NEW a \in Assessing, AssessInspects(a)
       PROVE  TypeOK'
  BY <1>13 DEF AssessInspects, Goto
<1>14. ASSUME NEW a \in Assessing, AssessAdopts(a)
       PROVE  TypeOK'
  BY <1>14, ProjectedType DEF AssessAdopts, Adopt, SwitchTo, NewRevision, Goto
<1>15. ASSUME NEW a \in Assessing, AssessPublishes(a)
       PROVE  TypeOK'
  BY <1>15 DEF AssessPublishes, Publish
<1>16. ASSUME NEW a \in Assessing, AssessCancels(a)
       PROVE  TypeOK'
  BY <1>16 DEF AssessCancels, Goto
<1>17. ASSUME NEW a \in Assessing, AssessFinishes(a)
       PROVE  TypeOK'
  BY <1>17 DEF AssessFinishes, Goto
<1>18. ASSUME NEW a \in Assessing, AssessTakesPending(a)
       PROVE  TypeOK'
  BY <1>18 DEF AssessTakesPending, Goto
<1>19. CASE DeadlineFires
  BY <1>19 DEF DeadlineFires, Goto
<1>20. CASE DeadlineTries
  BY <1>20 DEF DeadlineTries, Goto
<1>21. CASE DeadlineExpires
  BY <1>21, ProjectedType DEF DeadlineExpires, Adopt, SwitchTo, NewRevision, Goto
<1>22. ASSUME NEW m \in Mutators, MutatorTries(m)
       PROVE  TypeOK'
  BY <1>22 DEF MutatorTries, Goto
<1>23. ASSUME NEW m \in Mutators, MutatorAdmits(m)
       PROVE  TypeOK'
  BY <1>23 DEF MutatorAdmits, Goto
<1>24. ASSUME NEW m \in Mutators, UninstallConsents(m)
       PROVE  TypeOK'
  BY <1>24 DEF UninstallConsents, Goto
<1>25. ASSUME NEW m \in Mutators, MutatorWithdraws(m)
       PROVE  TypeOK'
  BY <1>25, ProjectedType DEF MutatorWithdraws, Adopt, SwitchTo, NewRevision, Goto
<1>26. ASSUME NEW m \in Mutators, MutatorPublishes(m)
       PROVE  TypeOK'
  BY <1>26 DEF MutatorPublishes, Publish, AfterAdoption
<1>27. ASSUME NEW m \in Mutators, MutatorCancels(m)
       PROVE  TypeOK'
  BY <1>27 DEF MutatorCancels, Goto
<1>28. ASSUME NEW m \in Mutators, InstallWorks(m)
       PROVE  TypeOK'
  BY <1>28 DEF InstallWorks, Usable, Goto
<1>29. ASSUME NEW m \in Mutators, UninstallWorks(m)
       PROVE  TypeOK'
  BY <1>29 DEF UninstallWorks, Goto
<1>30. ASSUME NEW m \in Mutators, MutatorAdopts(m)
       PROVE  TypeOK'
  BY <1>30, ProjectedType
     DEF MutatorAdopts, AfterAdoption, Adopt, SwitchTo, NewRevision, Goto
<1>31. ASSUME NEW m \in Mutators, MutatorSettles(m)
       PROVE  TypeOK'
  BY <1>31 DEF MutatorSettles, Goto
<1>32. ASSUME NEW m \in Mutators, MutatorUnlocks(m)
       PROVE  TypeOK'
  BY <1>32 DEF MutatorUnlocks, Goto
<1>33. ASSUME NEW ca \in CAs, Expires(ca)
       PROVE  TypeOK'
  BY <1>33 DEF Expires
<1>34. CASE UNCHANGED vars
  BY <1>34
<1> QED
  BY <1>1, <1>2, <1>3, <1>4, <1>5, <1>6, <1>7, <1>8, <1>9, <1>10, <1>11, <1>12, <1>13,
     <1>14, <1>15, <1>16, <1>17, <1>18, <1>19, <1>20, <1>21, <1>22, <1>23, <1>24,
     <1>25, <1>26, <1>27, <1>28, <1>29, <1>30, <1>31, <1>32, <1>33, <1>34
     DEF Next, ListStep, WatcherStep, AssessStep, DeadlineStep, MutatorStep, RequestStep,
         Requesters, CAProcs

\* Whoever switches to facts serves what follows from them, or what already did.
LEMMA SwitchServes ==
  ASSUME ServesCurrentFacts, NEW lists \in [Lists -> Contents], NEW ca, NEW p,
         NEW sending, NEW quiet, SwitchTo(p, lists, ca, sending, quiet)
  PROVE  ServesCurrentFacts'
<1>1. projection' = lists /\ userCA' = ca
  BY DEF SwitchTo
<1>2. CASE Switch(lists, ca)
  <2>1. served' = Projected(lists, ca)
    BY <1>2 DEF SwitchTo
  <2>2. served' = Projected(lists, served'.identity)
    BY <2>1, ProjectedOnce
  <2> QED
    BY <1>1, <2>1, <2>2 DEF ServesCurrentFacts, Equivalent
<1>3. CASE ~Switch(lists, ca)
  <2>1. served' = served /\ Equivalent(served, Projected(lists, ca))
    BY <1>3 DEF SwitchTo, Switch
  <2> QED
    BY <1>1, <2>1 DEF ServesCurrentFacts
<1> QED
  BY <1>2, <1>3

\* Whoever changes a fact switches the projection in the same step.
LEMMA ServesStep ==
  ASSUME TypeOK, ServesCurrentFacts, [Next]_vars
  PROVE  ServesCurrentFacts'
<1> USE DEF vars, caVars, timerVars
<1>p. projection \in [Lists -> Contents]
  BY DEF TypeOK
<1>0. UNCHANGED <<projection, userCA, served>> => ServesCurrentFacts'
  BY DEF ServesCurrentFacts
<1>1. ASSUME NEW l \in Lists, ListApplies(l)
       PROVE  ServesCurrentFacts'
  <2>1. PICK contents \in Contents :
              SwitchTo(l, [projection EXCEPT ![l] = contents], userCA, "send", AfterSwitch)
    BY <1>1 DEF ListApplies
  <2>2. [projection EXCEPT ![l] = contents] \in [Lists -> Contents]
    BY <1>p
  <2> QED
    BY <2>1, <2>2, SwitchServes
<1>2. ASSUME NEW l \in Lists, ListUnreadable(l)
       PROVE  ServesCurrentFacts'
  BY <1>0, <1>2 DEF ListUnreadable
<1>3. ASSUME NEW l \in Lists, ListPublishes(l)
       PROVE  ServesCurrentFacts'
  BY <1>0, <1>3 DEF ListPublishes, Publish, AfterSwitch
<1>4. ASSUME NEW l \in Lists, ListReadsContext(l)
       PROVE  ServesCurrentFacts'
  BY <1>0, <1>4 DEF ListReadsContext, Goto
<1>5. ASSUME NEW l \in Lists, ListAsks(l)
       PROVE  ServesCurrentFacts'
  BY <1>0, <1>5 DEF ListAsks
<1>6. CASE WatcherDelivers
  BY <1>0, <1>6 DEF WatcherDelivers, Goto
<1>7. CASE WatcherRecords
  BY <1>0, <1>7 DEF WatcherRecords, Goto
<1>8. ASSUME NEW p \in Requesters, Request(p)
       PROVE  ServesCurrentFacts'
  BY <1>0, <1>8 DEF Request, Through, AdmissionFree
<1>9. ASSUME NEW p \in Requesters, RequestBusy(p)
       PROVE  ServesCurrentFacts'
  BY <1>0, <1>9 DEF RequestBusy, Through, AdmissionFree, Goto
<1>10. ASSUME NEW p \in Requesters, SetPending(p)
       PROVE  ServesCurrentFacts'
  BY <1>0, <1>10 DEF SetPending, Through, Goto
<1>11. ASSUME NEW p \in CAProcs, ScheduleBegins(p)
       PROVE  ServesCurrentFacts'
  BY <1>0, <1>11 DEF ScheduleBegins, Goto
<1>12. ASSUME NEW p \in CAProcs, ScheduleEnds(p)
       PROVE  ServesCurrentFacts'
  BY <1>0, <1>12 DEF ScheduleEnds, Goto
<1>13. ASSUME NEW a \in Assessing, AssessInspects(a)
       PROVE  ServesCurrentFacts'
  BY <1>0, <1>13 DEF AssessInspects, Goto
<1>14. ASSUME NEW a \in Assessing, AssessAdopts(a)
       PROVE  ServesCurrentFacts'
  BY <1>14, <1>p, SwitchServes DEF AssessAdopts, Adopt
<1>15. ASSUME NEW a \in Assessing, AssessPublishes(a)
       PROVE  ServesCurrentFacts'
  BY <1>0, <1>15 DEF AssessPublishes, Publish
<1>16. ASSUME NEW a \in Assessing, AssessCancels(a)
       PROVE  ServesCurrentFacts'
  BY <1>0, <1>16 DEF AssessCancels, Goto
<1>17. ASSUME NEW a \in Assessing, AssessFinishes(a)
       PROVE  ServesCurrentFacts'
  BY <1>0, <1>17 DEF AssessFinishes, Goto
<1>18. ASSUME NEW a \in Assessing, AssessTakesPending(a)
       PROVE  ServesCurrentFacts'
  BY <1>0, <1>18 DEF AssessTakesPending, Goto
<1>19. CASE DeadlineFires
  BY <1>0, <1>19 DEF DeadlineFires, Goto
<1>20. CASE DeadlineTries
  BY <1>0, <1>20 DEF DeadlineTries, Goto
<1>21. CASE DeadlineExpires
  BY <1>0, <1>p, <1>21, SwitchServes DEF DeadlineExpires, Adopt
<1>22. ASSUME NEW m \in Mutators, MutatorTries(m)
       PROVE  ServesCurrentFacts'
  BY <1>0, <1>22 DEF MutatorTries, Goto
<1>23. ASSUME NEW m \in Mutators, MutatorAdmits(m)
       PROVE  ServesCurrentFacts'
  BY <1>0, <1>23 DEF MutatorAdmits, Goto
<1>24. ASSUME NEW m \in Mutators, UninstallConsents(m)
       PROVE  ServesCurrentFacts'
  BY <1>0, <1>24 DEF UninstallConsents, Goto
<1>25. ASSUME NEW m \in Mutators, MutatorWithdraws(m)
       PROVE  ServesCurrentFacts'
  BY <1>25, <1>p, SwitchServes DEF MutatorWithdraws, Adopt
<1>26. ASSUME NEW m \in Mutators, MutatorPublishes(m)
       PROVE  ServesCurrentFacts'
  BY <1>0, <1>26 DEF MutatorPublishes, Publish, AfterAdoption
<1>27. ASSUME NEW m \in Mutators, MutatorCancels(m)
       PROVE  ServesCurrentFacts'
  BY <1>0, <1>27 DEF MutatorCancels, Goto
<1>28. ASSUME NEW m \in Mutators, InstallWorks(m)
       PROVE  ServesCurrentFacts'
  BY <1>0, <1>28 DEF InstallWorks, Usable, Goto
<1>29. ASSUME NEW m \in Mutators, UninstallWorks(m)
       PROVE  ServesCurrentFacts'
  BY <1>0, <1>29 DEF UninstallWorks, Goto
<1>30. ASSUME NEW m \in Mutators, MutatorAdopts(m)
       PROVE  ServesCurrentFacts'
  BY <1>30, <1>p, SwitchServes DEF MutatorAdopts, Adopt
<1>31. ASSUME NEW m \in Mutators, MutatorSettles(m)
       PROVE  ServesCurrentFacts'
  BY <1>0, <1>31 DEF MutatorSettles, Goto
<1>32. ASSUME NEW m \in Mutators, MutatorUnlocks(m)
       PROVE  ServesCurrentFacts'
  BY <1>0, <1>32 DEF MutatorUnlocks, Goto
<1>33. ASSUME NEW ca \in CAs, Expires(ca)
       PROVE  ServesCurrentFacts'
  BY <1>0, <1>33 DEF Expires
<1>34. CASE UNCHANGED vars
  BY <1>0, <1>34
<1> QED
  BY <1>1, <1>2, <1>3, <1>4, <1>5, <1>6, <1>7, <1>8, <1>9, <1>10, <1>11, <1>12, <1>13,
     <1>14, <1>15, <1>16, <1>17, <1>18, <1>19, <1>20, <1>21, <1>22, <1>23, <1>24,
     <1>25, <1>26, <1>27, <1>28, <1>29, <1>30, <1>31, <1>32, <1>33, <1>34
     DEF Next, ListStep, WatcherStep, AssessStep, DeadlineStep, MutatorStep, RequestStep,
         Requesters, CAProcs

\* trafficRuntime.mu stays with who waits to send.
LEMMA RuntimeLockStep ==
  ASSUME TypeOK, RuntimeLockInv, [Next]_vars
  PROVE  RuntimeLockInv'
<1> USE ProcsDiffer
        DEF TypeOK, RuntimeLockInv, Sending, vars, timerVars, caVars, Procs, CAProcs, Requesters,
            Assessing, Mutators, ListSteps, WatcherSteps, AssessSteps, MutatorSteps
<1>1. ASSUME NEW l \in Lists, ListApplies(l)
       PROVE  RuntimeLockInv'
  BY <1>1 DEF ListApplies, SwitchTo, AfterSwitch, Goto
<1>2. ASSUME NEW l \in Lists, ListUnreadable(l)
       PROVE  RuntimeLockInv'
  BY <1>2 DEF ListUnreadable
<1>3. ASSUME NEW l \in Lists, ListPublishes(l)
       PROVE  RuntimeLockInv'
  BY <1>3 DEF ListPublishes, Publish, AfterSwitch
<1>4. ASSUME NEW l \in Lists, ListReadsContext(l)
       PROVE  RuntimeLockInv'
  BY <1>4 DEF ListReadsContext, Goto
<1>5. ASSUME NEW l \in Lists, ListAsks(l)
       PROVE  RuntimeLockInv'
  BY <1>5 DEF ListAsks
<1>6. CASE WatcherDelivers
  BY <1>6 DEF WatcherDelivers, Goto
<1>7. CASE WatcherRecords
  BY <1>7 DEF WatcherRecords, Goto
<1>8. ASSUME NEW p \in Requesters, Request(p)
       PROVE  RuntimeLockInv'
  BY <1>8 DEF Request, Through, AdmissionFree
<1>9. ASSUME NEW p \in Requesters, RequestBusy(p)
       PROVE  RuntimeLockInv'
  BY <1>9 DEF RequestBusy, Through, AdmissionFree, Goto
<1>10. ASSUME NEW p \in Requesters, SetPending(p)
       PROVE  RuntimeLockInv'
  BY <1>10 DEF SetPending, Through, Goto
<1>11. ASSUME NEW p \in CAProcs, ScheduleBegins(p)
       PROVE  RuntimeLockInv'
  BY <1>11 DEF ScheduleBegins, Goto
<1>12. ASSUME NEW p \in CAProcs, ScheduleEnds(p)
       PROVE  RuntimeLockInv'
  BY <1>12 DEF ScheduleEnds, Goto
<1>13. ASSUME NEW a \in Assessing, AssessInspects(a)
       PROVE  RuntimeLockInv'
  BY <1>13 DEF AssessInspects, Goto
<1>14. ASSUME NEW a \in Assessing, AssessAdopts(a)
       PROVE  RuntimeLockInv'
  BY <1>14 DEF AssessAdopts, Adopt, SwitchTo, NewRevision, Goto
<1>15. ASSUME NEW a \in Assessing, AssessPublishes(a)
       PROVE  RuntimeLockInv'
  BY <1>15 DEF AssessPublishes, Publish
<1>16. ASSUME NEW a \in Assessing, AssessCancels(a)
       PROVE  RuntimeLockInv'
  BY <1>16 DEF AssessCancels, Goto
<1>17. ASSUME NEW a \in Assessing, AssessFinishes(a)
       PROVE  RuntimeLockInv'
  BY <1>17 DEF AssessFinishes, Goto
<1>18. ASSUME NEW a \in Assessing, AssessTakesPending(a)
       PROVE  RuntimeLockInv'
  BY <1>18 DEF AssessTakesPending, Goto
<1>19. CASE DeadlineFires
  BY <1>19 DEF DeadlineFires, Goto
<1>20. CASE DeadlineTries
  BY <1>20 DEF DeadlineTries, Goto
<1>21. CASE DeadlineExpires
  BY <1>21 DEF DeadlineExpires, Adopt, SwitchTo, NewRevision, Goto
<1>22. ASSUME NEW m \in Mutators, MutatorTries(m)
       PROVE  RuntimeLockInv'
  BY <1>22 DEF MutatorTries, Goto
<1>23. ASSUME NEW m \in Mutators, MutatorAdmits(m)
       PROVE  RuntimeLockInv'
  BY <1>23 DEF MutatorAdmits, Goto
<1>24. ASSUME NEW m \in Mutators, UninstallConsents(m)
       PROVE  RuntimeLockInv'
  BY <1>24 DEF UninstallConsents, Goto
<1>25. ASSUME NEW m \in Mutators, MutatorWithdraws(m)
       PROVE  RuntimeLockInv'
  BY <1>25 DEF MutatorWithdraws, Adopt, SwitchTo, NewRevision, Goto
<1>26. ASSUME NEW m \in Mutators, MutatorPublishes(m)
       PROVE  RuntimeLockInv'
  BY <1>26 DEF MutatorPublishes, Publish, AfterAdoption
<1>27. ASSUME NEW m \in Mutators, MutatorCancels(m)
       PROVE  RuntimeLockInv'
  BY <1>27 DEF MutatorCancels, Goto
<1>28. ASSUME NEW m \in Mutators, InstallWorks(m)
       PROVE  RuntimeLockInv'
  BY <1>28 DEF InstallWorks, Usable, Goto
<1>29. ASSUME NEW m \in Mutators, UninstallWorks(m)
       PROVE  RuntimeLockInv'
  BY <1>29 DEF UninstallWorks, Goto
<1>30. ASSUME NEW m \in Mutators, MutatorAdopts(m)
       PROVE  RuntimeLockInv'
  BY <1>30 DEF MutatorAdopts, AfterAdoption, Adopt, SwitchTo, NewRevision, Goto
<1>31. ASSUME NEW m \in Mutators, MutatorSettles(m)
       PROVE  RuntimeLockInv'
  BY <1>31 DEF MutatorSettles, Goto
<1>32. ASSUME NEW m \in Mutators, MutatorUnlocks(m)
       PROVE  RuntimeLockInv'
  BY <1>32 DEF MutatorUnlocks, Goto
<1>33. ASSUME NEW ca \in CAs, Expires(ca)
       PROVE  RuntimeLockInv'
  BY <1>33 DEF Expires
<1>34. CASE UNCHANGED vars
  BY <1>34
<1> QED
  BY <1>1, <1>2, <1>3, <1>4, <1>5, <1>6, <1>7, <1>8, <1>9, <1>10, <1>11, <1>12, <1>13,
     <1>14, <1>15, <1>16, <1>17, <1>18, <1>19, <1>20, <1>21, <1>22, <1>23, <1>24,
     <1>25, <1>26, <1>27, <1>28, <1>29, <1>30, <1>31, <1>32, <1>33, <1>34
     DEF Next, ListStep, WatcherStep, AssessStep, DeadlineStep, MutatorStep, RequestStep,
         Requesters, CAProcs

\* A switch makes its goroutine a sender, and a sent request is the watcher's.
LEMMA RequestStepKept ==
  ASSUME TypeOK, RuntimeLockInv, RequestNeverLost, [Next]_vars
  PROVE  RequestNeverLost'
<1> USE ProcsDiffer
        DEF TypeOK, RuntimeLockInv, RequestNeverLost, Sending, vars, timerVars, caVars, Procs,
            CAProcs, Requesters, Assessing, Mutators, ListSteps, WatcherSteps, AssessSteps,
            MutatorSteps
<1>1. ASSUME NEW l \in Lists, ListApplies(l)
       PROVE  RequestNeverLost'
  <2>1. \/ rMu' = l /\ pc'[l] \in Sending
        \/ UNCHANGED undelivered /\ rMu = None /\ pc'[Watcher] = pc[Watcher]
    BY <1>1 DEF ListApplies, SwitchTo, Goto
  <2> QED
    BY <2>1
<1>2. ASSUME NEW l \in Lists, ListUnreadable(l)
       PROVE  RequestNeverLost'
  BY <1>2 DEF ListUnreadable
<1>3. ASSUME NEW l \in Lists, ListPublishes(l)
       PROVE  RequestNeverLost'
  BY <1>3 DEF ListPublishes, Publish, AfterSwitch
<1>4. ASSUME NEW l \in Lists, ListReadsContext(l)
       PROVE  RequestNeverLost'
  BY <1>4 DEF ListReadsContext, Goto
<1>5. ASSUME NEW l \in Lists, ListAsks(l)
       PROVE  RequestNeverLost'
  BY <1>5 DEF ListAsks
<1>6. CASE WatcherDelivers
  BY <1>6 DEF WatcherDelivers, Goto
<1>7. CASE WatcherRecords
  BY <1>7 DEF WatcherRecords, Goto
<1>8. ASSUME NEW p \in Requesters, Request(p)
       PROVE  RequestNeverLost'
  BY <1>8 DEF Request, Through, AdmissionFree
<1>9. ASSUME NEW p \in Requesters, RequestBusy(p)
       PROVE  RequestNeverLost'
  BY <1>9 DEF RequestBusy, Through, AdmissionFree, Goto
<1>10. ASSUME NEW p \in Requesters, SetPending(p)
       PROVE  RequestNeverLost'
  BY <1>10 DEF SetPending, Through, Goto
<1>11. ASSUME NEW p \in CAProcs, ScheduleBegins(p)
       PROVE  RequestNeverLost'
  BY <1>11 DEF ScheduleBegins, Goto
<1>12. ASSUME NEW p \in CAProcs, ScheduleEnds(p)
       PROVE  RequestNeverLost'
  BY <1>12 DEF ScheduleEnds, Goto
<1>13. ASSUME NEW a \in Assessing, AssessInspects(a)
       PROVE  RequestNeverLost'
  BY <1>13 DEF AssessInspects, Goto
<1>14. ASSUME NEW a \in Assessing, AssessAdopts(a)
       PROVE  RequestNeverLost'
  <2>1. \/ rMu' = a /\ pc'[a] \in Sending
        \/ UNCHANGED undelivered /\ rMu = None /\ pc'[Watcher] = pc[Watcher]
    BY <1>14 DEF AssessAdopts, Adopt, SwitchTo, Goto
  <2> QED
    BY <2>1
<1>15. ASSUME NEW a \in Assessing, AssessPublishes(a)
       PROVE  RequestNeverLost'
  BY <1>15 DEF AssessPublishes, Publish
<1>16. ASSUME NEW a \in Assessing, AssessCancels(a)
       PROVE  RequestNeverLost'
  BY <1>16 DEF AssessCancels, Goto
<1>17. ASSUME NEW a \in Assessing, AssessFinishes(a)
       PROVE  RequestNeverLost'
  BY <1>17 DEF AssessFinishes, Goto
<1>18. ASSUME NEW a \in Assessing, AssessTakesPending(a)
       PROVE  RequestNeverLost'
  BY <1>18 DEF AssessTakesPending, Goto
<1>19. CASE DeadlineFires
  BY <1>19 DEF DeadlineFires, Goto
<1>20. CASE DeadlineTries
  BY <1>20 DEF DeadlineTries, Goto
<1>21. CASE DeadlineExpires
  BY <1>21 DEF DeadlineExpires, Adopt, SwitchTo, NewRevision, Goto
<1>22. ASSUME NEW m \in Mutators, MutatorTries(m)
       PROVE  RequestNeverLost'
  BY <1>22 DEF MutatorTries, Goto
<1>23. ASSUME NEW m \in Mutators, MutatorAdmits(m)
       PROVE  RequestNeverLost'
  BY <1>23 DEF MutatorAdmits, Goto
<1>24. ASSUME NEW m \in Mutators, UninstallConsents(m)
       PROVE  RequestNeverLost'
  BY <1>24 DEF UninstallConsents, Goto
<1>25. ASSUME NEW m \in Mutators, MutatorWithdraws(m)
       PROVE  RequestNeverLost'
  <2>1. \/ rMu' = m /\ pc'[m] \in Sending
        \/ UNCHANGED undelivered /\ rMu = None /\ pc'[Watcher] = pc[Watcher]
    BY <1>25 DEF MutatorWithdraws, Adopt, SwitchTo, Goto
  <2> QED
    BY <2>1
<1>26. ASSUME NEW m \in Mutators, MutatorPublishes(m)
       PROVE  RequestNeverLost'
  BY <1>26 DEF MutatorPublishes, Publish, AfterAdoption
<1>27. ASSUME NEW m \in Mutators, MutatorCancels(m)
       PROVE  RequestNeverLost'
  BY <1>27 DEF MutatorCancels, Goto
<1>28. ASSUME NEW m \in Mutators, InstallWorks(m)
       PROVE  RequestNeverLost'
  BY <1>28 DEF InstallWorks, Usable, Goto
<1>29. ASSUME NEW m \in Mutators, UninstallWorks(m)
       PROVE  RequestNeverLost'
  BY <1>29 DEF UninstallWorks, Goto
<1>30. ASSUME NEW m \in Mutators, MutatorAdopts(m)
       PROVE  RequestNeverLost'
  <2>1. \/ rMu' = m /\ pc'[m] \in Sending
        \/ UNCHANGED undelivered /\ rMu = None /\ pc'[Watcher] = pc[Watcher]
    BY <1>30 DEF MutatorAdopts, AfterAdoption, Adopt, SwitchTo, Goto
  <2> QED
    BY <2>1
<1>31. ASSUME NEW m \in Mutators, MutatorSettles(m)
       PROVE  RequestNeverLost'
  BY <1>31 DEF MutatorSettles, Goto
<1>32. ASSUME NEW m \in Mutators, MutatorUnlocks(m)
       PROVE  RequestNeverLost'
  BY <1>32 DEF MutatorUnlocks, Goto
<1>33. ASSUME NEW ca \in CAs, Expires(ca)
       PROVE  RequestNeverLost'
  BY <1>33 DEF Expires
<1>34. CASE UNCHANGED vars
  BY <1>34
<1> QED
  BY <1>1, <1>2, <1>3, <1>4, <1>5, <1>6, <1>7, <1>8, <1>9, <1>10, <1>11, <1>12, <1>13,
     <1>14, <1>15, <1>16, <1>17, <1>18, <1>19, <1>20, <1>21, <1>22, <1>23, <1>24,
     <1>25, <1>26, <1>27, <1>28, <1>29, <1>30, <1>31, <1>32, <1>33, <1>34
     DEF Next, ListStep, WatcherStep, AssessStep, DeadlineStep, MutatorStep, RequestStep,
         Requesters, CAProcs

\* lifecycle.mu stays with who looks into the runtime.
LEMMA LifecycleLockStep ==
  ASSUME TypeOK, LifecycleLockInv, [Next]_vars
  PROVE  LifecycleLockInv'
<1> USE ProcsDiffer
        DEF TypeOK, LifecycleLockInv, vars, timerVars, caVars, Procs, CAProcs, Requesters,
            Assessing, Mutators, ListSteps, WatcherSteps, AssessSteps, MutatorSteps
<1>1. ASSUME NEW l \in Lists, ListApplies(l)
       PROVE  LifecycleLockInv'
  BY <1>1 DEF ListApplies, SwitchTo, AfterSwitch, Goto
<1>2. ASSUME NEW l \in Lists, ListUnreadable(l)
       PROVE  LifecycleLockInv'
  BY <1>2 DEF ListUnreadable
<1>3. ASSUME NEW l \in Lists, ListPublishes(l)
       PROVE  LifecycleLockInv'
  BY <1>3 DEF ListPublishes, Publish, AfterSwitch
<1>4. ASSUME NEW l \in Lists, ListReadsContext(l)
       PROVE  LifecycleLockInv'
  BY <1>4 DEF ListReadsContext, Goto
<1>5. ASSUME NEW l \in Lists, ListAsks(l)
       PROVE  LifecycleLockInv'
  BY <1>5 DEF ListAsks
<1>6. CASE WatcherDelivers
  BY <1>6 DEF WatcherDelivers, Goto
<1>7. CASE WatcherRecords
  BY <1>7 DEF WatcherRecords, Goto
<1>8. ASSUME NEW p \in Requesters, Request(p)
       PROVE  LifecycleLockInv'
  BY <1>8 DEF Request, Through, AdmissionFree
<1>9. ASSUME NEW p \in Requesters, RequestBusy(p)
       PROVE  LifecycleLockInv'
  BY <1>9 DEF RequestBusy, Through, AdmissionFree, Goto
<1>10. ASSUME NEW p \in Requesters, SetPending(p)
       PROVE  LifecycleLockInv'
  BY <1>10 DEF SetPending, Through, Goto
<1>11. ASSUME NEW p \in CAProcs, ScheduleBegins(p)
       PROVE  LifecycleLockInv'
  BY <1>11 DEF ScheduleBegins, Goto
<1>12. ASSUME NEW p \in CAProcs, ScheduleEnds(p)
       PROVE  LifecycleLockInv'
  BY <1>12 DEF ScheduleEnds, Goto
<1>13. ASSUME NEW a \in Assessing, AssessInspects(a)
       PROVE  LifecycleLockInv'
  BY <1>13 DEF AssessInspects, Goto
<1>14. ASSUME NEW a \in Assessing, AssessAdopts(a)
       PROVE  LifecycleLockInv'
  BY <1>14 DEF AssessAdopts, Adopt, SwitchTo, NewRevision, Goto
<1>15. ASSUME NEW a \in Assessing, AssessPublishes(a)
       PROVE  LifecycleLockInv'
  BY <1>15 DEF AssessPublishes, Publish
<1>16. ASSUME NEW a \in Assessing, AssessCancels(a)
       PROVE  LifecycleLockInv'
  BY <1>16 DEF AssessCancels, Goto
<1>17. ASSUME NEW a \in Assessing, AssessFinishes(a)
       PROVE  LifecycleLockInv'
  BY <1>17 DEF AssessFinishes, Goto
<1>18. ASSUME NEW a \in Assessing, AssessTakesPending(a)
       PROVE  LifecycleLockInv'
  BY <1>18 DEF AssessTakesPending, Goto
<1>19. CASE DeadlineFires
  BY <1>19 DEF DeadlineFires, Goto
<1>20. CASE DeadlineTries
  BY <1>20 DEF DeadlineTries, Goto
<1>21. CASE DeadlineExpires
  BY <1>21 DEF DeadlineExpires, Adopt, SwitchTo, NewRevision, Goto
<1>22. ASSUME NEW m \in Mutators, MutatorTries(m)
       PROVE  LifecycleLockInv'
  BY <1>22 DEF MutatorTries, Goto
<1>23. ASSUME NEW m \in Mutators, MutatorAdmits(m)
       PROVE  LifecycleLockInv'
  BY <1>23 DEF MutatorAdmits, Goto
<1>24. ASSUME NEW m \in Mutators, UninstallConsents(m)
       PROVE  LifecycleLockInv'
  BY <1>24 DEF UninstallConsents, Goto
<1>25. ASSUME NEW m \in Mutators, MutatorWithdraws(m)
       PROVE  LifecycleLockInv'
  BY <1>25 DEF MutatorWithdraws, Adopt, SwitchTo, NewRevision, Goto
<1>26. ASSUME NEW m \in Mutators, MutatorPublishes(m)
       PROVE  LifecycleLockInv'
  BY <1>26 DEF MutatorPublishes, Publish, AfterAdoption
<1>27. ASSUME NEW m \in Mutators, MutatorCancels(m)
       PROVE  LifecycleLockInv'
  BY <1>27 DEF MutatorCancels, Goto
<1>28. ASSUME NEW m \in Mutators, InstallWorks(m)
       PROVE  LifecycleLockInv'
  BY <1>28 DEF InstallWorks, Usable, Goto
<1>29. ASSUME NEW m \in Mutators, UninstallWorks(m)
       PROVE  LifecycleLockInv'
  BY <1>29 DEF UninstallWorks, Goto
<1>30. ASSUME NEW m \in Mutators, MutatorAdopts(m)
       PROVE  LifecycleLockInv'
  BY <1>30 DEF MutatorAdopts, AfterAdoption, Adopt, SwitchTo, NewRevision, Goto
<1>31. ASSUME NEW m \in Mutators, MutatorSettles(m)
       PROVE  LifecycleLockInv'
  BY <1>31 DEF MutatorSettles, Goto
<1>32. ASSUME NEW m \in Mutators, MutatorUnlocks(m)
       PROVE  LifecycleLockInv'
  BY <1>32 DEF MutatorUnlocks, Goto
<1>33. ASSUME NEW ca \in CAs, Expires(ca)
       PROVE  LifecycleLockInv'
  BY <1>33 DEF Expires
<1>34. CASE UNCHANGED vars
  BY <1>34
<1> QED
  BY <1>1, <1>2, <1>3, <1>4, <1>5, <1>6, <1>7, <1>8, <1>9, <1>10, <1>11, <1>12, <1>13,
     <1>14, <1>15, <1>16, <1>17, <1>18, <1>19, <1>20, <1>21, <1>22, <1>23, <1>24,
     <1>25, <1>26, <1>27, <1>28, <1>29, <1>30, <1>31, <1>32, <1>33, <1>34
     DEF Next, ListStep, WatcherStep, AssessStep, DeadlineStep, MutatorStep, RequestStep,
         Requesters, CAProcs

\* caAdmissionMu stays with who is between its TryLock and its tail.
LEMMA AdmissionLockStep ==
  ASSUME TypeOK, AdmissionLockInv, [Next]_vars
  PROVE  AdmissionLockInv'
<1> USE ProcsDiffer
        DEF TypeOK, AdmissionLockInv, Unadmitted, vars, timerVars, caVars, Procs, CAProcs,
            Requesters, Assessing, Mutators, ListSteps, WatcherSteps, AssessSteps, MutatorSteps
<1>1. ASSUME NEW l \in Lists, ListApplies(l)
       PROVE  AdmissionLockInv'
  BY <1>1 DEF ListApplies, SwitchTo, AfterSwitch, Goto
<1>2. ASSUME NEW l \in Lists, ListUnreadable(l)
       PROVE  AdmissionLockInv'
  BY <1>2 DEF ListUnreadable
<1>3. ASSUME NEW l \in Lists, ListPublishes(l)
       PROVE  AdmissionLockInv'
  BY <1>3 DEF ListPublishes, Publish, AfterSwitch
<1>4. ASSUME NEW l \in Lists, ListReadsContext(l)
       PROVE  AdmissionLockInv'
  BY <1>4 DEF ListReadsContext, Goto
<1>5. ASSUME NEW l \in Lists, ListAsks(l)
       PROVE  AdmissionLockInv'
  BY <1>5 DEF ListAsks
<1>6. CASE WatcherDelivers
  BY <1>6 DEF WatcherDelivers, Goto
<1>7. CASE WatcherRecords
  BY <1>7 DEF WatcherRecords, Goto
<1>8. ASSUME NEW p \in Requesters, Request(p)
       PROVE  AdmissionLockInv'
  BY <1>8 DEF Request, Through, AdmissionFree
<1>9. ASSUME NEW p \in Requesters, RequestBusy(p)
       PROVE  AdmissionLockInv'
  BY <1>9 DEF RequestBusy, Through, AdmissionFree, Goto
<1>10. ASSUME NEW p \in Requesters, SetPending(p)
       PROVE  AdmissionLockInv'
  BY <1>10 DEF SetPending, Through, Goto
<1>11. ASSUME NEW p \in CAProcs, ScheduleBegins(p)
       PROVE  AdmissionLockInv'
  BY <1>11 DEF ScheduleBegins, Goto
<1>12. ASSUME NEW p \in CAProcs, ScheduleEnds(p)
       PROVE  AdmissionLockInv'
  BY <1>12 DEF ScheduleEnds, Goto
<1>13. ASSUME NEW a \in Assessing, AssessInspects(a)
       PROVE  AdmissionLockInv'
  BY <1>13 DEF AssessInspects, Goto
<1>14. ASSUME NEW a \in Assessing, AssessAdopts(a)
       PROVE  AdmissionLockInv'
  BY <1>14 DEF AssessAdopts, Adopt, SwitchTo, NewRevision, Goto
<1>15. ASSUME NEW a \in Assessing, AssessPublishes(a)
       PROVE  AdmissionLockInv'
  BY <1>15 DEF AssessPublishes, Publish
<1>16. ASSUME NEW a \in Assessing, AssessCancels(a)
       PROVE  AdmissionLockInv'
  BY <1>16 DEF AssessCancels, Goto
<1>17. ASSUME NEW a \in Assessing, AssessFinishes(a)
       PROVE  AdmissionLockInv'
  BY <1>17 DEF AssessFinishes, Goto
<1>18. ASSUME NEW a \in Assessing, AssessTakesPending(a)
       PROVE  AdmissionLockInv'
  BY <1>18 DEF AssessTakesPending, Goto
<1>19. CASE DeadlineFires
  BY <1>19 DEF DeadlineFires, Goto
<1>20. CASE DeadlineTries
  BY <1>20 DEF DeadlineTries, Goto
<1>21. CASE DeadlineExpires
  BY <1>21 DEF DeadlineExpires, Adopt, SwitchTo, NewRevision, Goto
<1>22. ASSUME NEW m \in Mutators, MutatorTries(m)
       PROVE  AdmissionLockInv'
  BY <1>22 DEF MutatorTries, Goto
<1>23. ASSUME NEW m \in Mutators, MutatorAdmits(m)
       PROVE  AdmissionLockInv'
  BY <1>23 DEF MutatorAdmits, Goto
<1>24. ASSUME NEW m \in Mutators, UninstallConsents(m)
       PROVE  AdmissionLockInv'
  BY <1>24 DEF UninstallConsents, Goto
<1>25. ASSUME NEW m \in Mutators, MutatorWithdraws(m)
       PROVE  AdmissionLockInv'
  BY <1>25 DEF MutatorWithdraws, Adopt, SwitchTo, NewRevision, Goto
<1>26. ASSUME NEW m \in Mutators, MutatorPublishes(m)
       PROVE  AdmissionLockInv'
  BY <1>26 DEF MutatorPublishes, Publish, AfterAdoption
<1>27. ASSUME NEW m \in Mutators, MutatorCancels(m)
       PROVE  AdmissionLockInv'
  BY <1>27 DEF MutatorCancels, Goto
<1>28. ASSUME NEW m \in Mutators, InstallWorks(m)
       PROVE  AdmissionLockInv'
  BY <1>28 DEF InstallWorks, Usable, Goto
<1>29. ASSUME NEW m \in Mutators, UninstallWorks(m)
       PROVE  AdmissionLockInv'
  BY <1>29 DEF UninstallWorks, Goto
<1>30. ASSUME NEW m \in Mutators, MutatorAdopts(m)
       PROVE  AdmissionLockInv'
  BY <1>30 DEF MutatorAdopts, AfterAdoption, Adopt, SwitchTo, NewRevision, Goto
<1>31. ASSUME NEW m \in Mutators, MutatorSettles(m)
       PROVE  AdmissionLockInv'
  BY <1>31 DEF MutatorSettles, Goto
<1>32. ASSUME NEW m \in Mutators, MutatorUnlocks(m)
       PROVE  AdmissionLockInv'
  BY <1>32 DEF MutatorUnlocks, Goto
<1>33. ASSUME NEW ca \in CAs, Expires(ca)
       PROVE  AdmissionLockInv'
  BY <1>33 DEF Expires
<1>34. CASE UNCHANGED vars
  BY <1>34
<1> QED
  BY <1>1, <1>2, <1>3, <1>4, <1>5, <1>6, <1>7, <1>8, <1>9, <1>10, <1>11, <1>12, <1>13,
     <1>14, <1>15, <1>16, <1>17, <1>18, <1>19, <1>20, <1>21, <1>22, <1>23, <1>24,
     <1>25, <1>26, <1>27, <1>28, <1>29, <1>30, <1>31, <1>32, <1>33, <1>34
     DEF Next, ListStep, WatcherStep, AssessStep, DeadlineStep, MutatorStep, RequestStep,
         Requesters, CAProcs

\* Only an inspection or an install finds a UserCA, and it is the installed one.
LEMMA FoundStep ==
  ASSUME TypeOK, AdmissionLockInv, FoundInv, RetainedInv, [Next]_vars
  PROVE  FoundInv'
<1> USE ProcsDiffer
        DEF TypeOK, AdmissionLockInv, Unadmitted, vars, timerVars, caVars, Procs, CAProcs,
            Requesters, Assessing, Mutators, ListSteps, WatcherSteps, AssessSteps, MutatorSteps,
            CAOrNone, FoundInv, BeforeFinding, Withdrawn, RetainedInv
<1>1. ASSUME NEW l \in Lists, ListApplies(l)
       PROVE  FoundInv'
  BY <1>1 DEF ListApplies, SwitchTo, AfterSwitch, Goto
<1>2. ASSUME NEW l \in Lists, ListUnreadable(l)
       PROVE  FoundInv'
  BY <1>2 DEF ListUnreadable
<1>3. ASSUME NEW l \in Lists, ListPublishes(l)
       PROVE  FoundInv'
  BY <1>3 DEF ListPublishes, Publish, AfterSwitch
<1>4. ASSUME NEW l \in Lists, ListReadsContext(l)
       PROVE  FoundInv'
  BY <1>4 DEF ListReadsContext, Goto
<1>5. ASSUME NEW l \in Lists, ListAsks(l)
       PROVE  FoundInv'
  BY <1>5 DEF ListAsks
<1>6. CASE WatcherDelivers
  BY <1>6 DEF WatcherDelivers, Goto
<1>7. CASE WatcherRecords
  BY <1>7 DEF WatcherRecords, Goto
<1>8. ASSUME NEW p \in Requesters, Request(p)
       PROVE  FoundInv'
  BY <1>8 DEF Request, Through, AdmissionFree
<1>9. ASSUME NEW p \in Requesters, RequestBusy(p)
       PROVE  FoundInv'
  BY <1>9 DEF RequestBusy, Through, AdmissionFree, Goto
<1>10. ASSUME NEW p \in Requesters, SetPending(p)
       PROVE  FoundInv'
  BY <1>10 DEF SetPending, Through, Goto
<1>11. ASSUME NEW p \in CAProcs, ScheduleBegins(p)
       PROVE  FoundInv'
  BY <1>11 DEF ScheduleBegins, Goto
<1>12. ASSUME NEW p \in CAProcs, ScheduleEnds(p)
       PROVE  FoundInv'
  BY <1>12 DEF ScheduleEnds, Goto
<1>13. ASSUME NEW a \in Assessing, AssessInspects(a)
       PROVE  FoundInv'
  BY <1>13 DEF AssessInspects, Goto
<1>14. ASSUME NEW a \in Assessing, AssessAdopts(a)
       PROVE  FoundInv'
  BY <1>14 DEF AssessAdopts, Adopt, SwitchTo, NewRevision, Goto
<1>15. ASSUME NEW a \in Assessing, AssessPublishes(a)
       PROVE  FoundInv'
  BY <1>15 DEF AssessPublishes, Publish
<1>16. ASSUME NEW a \in Assessing, AssessCancels(a)
       PROVE  FoundInv'
  BY <1>16 DEF AssessCancels, Goto
<1>17. ASSUME NEW a \in Assessing, AssessFinishes(a)
       PROVE  FoundInv'
  BY <1>17 DEF AssessFinishes, Goto
<1>18. ASSUME NEW a \in Assessing, AssessTakesPending(a)
       PROVE  FoundInv'
  BY <1>18 DEF AssessTakesPending, Goto
<1>19. CASE DeadlineFires
  BY <1>19 DEF DeadlineFires, Goto
<1>20. CASE DeadlineTries
  BY <1>20 DEF DeadlineTries, Goto
<1>21. CASE DeadlineExpires
  BY <1>21 DEF DeadlineExpires, Adopt, SwitchTo, NewRevision, Goto
<1>22. ASSUME NEW m \in Mutators, MutatorTries(m)
       PROVE  FoundInv'
  BY <1>22 DEF MutatorTries, Goto
<1>23. ASSUME NEW m \in Mutators, MutatorAdmits(m)
       PROVE  FoundInv'
  BY <1>23 DEF MutatorAdmits, Goto
<1>24. ASSUME NEW m \in Mutators, UninstallConsents(m)
       PROVE  FoundInv'
  BY <1>24 DEF UninstallConsents, Goto
<1>25. ASSUME NEW m \in Mutators, MutatorWithdraws(m)
       PROVE  FoundInv'
  BY <1>25 DEF MutatorWithdraws, Adopt, SwitchTo, NewRevision, Goto
<1>26. ASSUME NEW m \in Mutators, MutatorPublishes(m)
       PROVE  FoundInv'
  BY <1>26 DEF MutatorPublishes, Publish, AfterAdoption
<1>27. ASSUME NEW m \in Mutators, MutatorCancels(m)
       PROVE  FoundInv'
  BY <1>27 DEF MutatorCancels, Goto
<1>28. ASSUME NEW m \in Mutators, InstallWorks(m)
       PROVE  FoundInv'
  BY <1>28 DEF InstallWorks, Usable, Goto
<1>29. ASSUME NEW m \in Mutators, UninstallWorks(m)
       PROVE  FoundInv'
  BY <1>29 DEF UninstallWorks, Goto
<1>30. ASSUME NEW m \in Mutators, MutatorAdopts(m)
       PROVE  FoundInv'
  BY <1>30 DEF MutatorAdopts, AfterAdoption, Adopt, SwitchTo, NewRevision, Goto
<1>31. ASSUME NEW m \in Mutators, MutatorSettles(m)
       PROVE  FoundInv'
  BY <1>31 DEF MutatorSettles, Goto
<1>32. ASSUME NEW m \in Mutators, MutatorUnlocks(m)
       PROVE  FoundInv'
  BY <1>32 DEF MutatorUnlocks, Goto
<1>33. ASSUME NEW ca \in CAs, Expires(ca)
       PROVE  FoundInv'
  BY <1>33 DEF Expires
<1>34. CASE UNCHANGED vars
  BY <1>34
<1> QED
  BY <1>1, <1>2, <1>3, <1>4, <1>5, <1>6, <1>7, <1>8, <1>9, <1>10, <1>11, <1>12, <1>13,
     <1>14, <1>15, <1>16, <1>17, <1>18, <1>19, <1>20, <1>21, <1>22, <1>23, <1>24,
     <1>25, <1>26, <1>27, <1>28, <1>29, <1>30, <1>31, <1>32, <1>33, <1>34
     DEF Next, ListStep, WatcherStep, AssessStep, DeadlineStep, MutatorStep, RequestStep,
         Requesters, CAProcs

\* The runtime retains what is installed, through withdrawal, work and adoption.
LEMMA RetainedStep ==
  ASSUME TypeOK, AdmissionLockInv, FoundInv, RetainedInv, [Next]_vars
  PROVE  RetainedInv'
<1> USE ProcsDiffer
        DEF TypeOK, AdmissionLockInv, Unadmitted, vars, timerVars, caVars, Procs, CAProcs,
            Requesters, Assessing, Mutators, ListSteps, WatcherSteps, AssessSteps, MutatorSteps,
            CAOrNone, FoundInv, BeforeFinding, Withdrawn, RetainedInv
<1>1. ASSUME NEW l \in Lists, ListApplies(l)
       PROVE  RetainedInv'
  BY <1>1 DEF ListApplies, SwitchTo, AfterSwitch, Goto
<1>2. ASSUME NEW l \in Lists, ListUnreadable(l)
       PROVE  RetainedInv'
  BY <1>2 DEF ListUnreadable
<1>3. ASSUME NEW l \in Lists, ListPublishes(l)
       PROVE  RetainedInv'
  BY <1>3 DEF ListPublishes, Publish, AfterSwitch
<1>4. ASSUME NEW l \in Lists, ListReadsContext(l)
       PROVE  RetainedInv'
  BY <1>4 DEF ListReadsContext, Goto
<1>5. ASSUME NEW l \in Lists, ListAsks(l)
       PROVE  RetainedInv'
  BY <1>5 DEF ListAsks
<1>6. CASE WatcherDelivers
  BY <1>6 DEF WatcherDelivers, Goto
<1>7. CASE WatcherRecords
  BY <1>7 DEF WatcherRecords, Goto
<1>8. ASSUME NEW p \in Requesters, Request(p)
       PROVE  RetainedInv'
  BY <1>8 DEF Request, Through, AdmissionFree
<1>9. ASSUME NEW p \in Requesters, RequestBusy(p)
       PROVE  RetainedInv'
  BY <1>9 DEF RequestBusy, Through, AdmissionFree, Goto
<1>10. ASSUME NEW p \in Requesters, SetPending(p)
       PROVE  RetainedInv'
  BY <1>10 DEF SetPending, Through, Goto
<1>11. ASSUME NEW p \in CAProcs, ScheduleBegins(p)
       PROVE  RetainedInv'
  BY <1>11 DEF ScheduleBegins, Goto
<1>12. ASSUME NEW p \in CAProcs, ScheduleEnds(p)
       PROVE  RetainedInv'
  BY <1>12 DEF ScheduleEnds, Goto
<1>13. ASSUME NEW a \in Assessing, AssessInspects(a)
       PROVE  RetainedInv'
  BY <1>13 DEF AssessInspects, Goto
<1>14. ASSUME NEW a \in Assessing, AssessAdopts(a)
       PROVE  RetainedInv'
  BY <1>14 DEF AssessAdopts, Adopt, SwitchTo, NewRevision, Goto
<1>15. ASSUME NEW a \in Assessing, AssessPublishes(a)
       PROVE  RetainedInv'
  BY <1>15 DEF AssessPublishes, Publish
<1>16. ASSUME NEW a \in Assessing, AssessCancels(a)
       PROVE  RetainedInv'
  BY <1>16 DEF AssessCancels, Goto
<1>17. ASSUME NEW a \in Assessing, AssessFinishes(a)
       PROVE  RetainedInv'
  BY <1>17 DEF AssessFinishes, Goto
<1>18. ASSUME NEW a \in Assessing, AssessTakesPending(a)
       PROVE  RetainedInv'
  BY <1>18 DEF AssessTakesPending, Goto
<1>19. CASE DeadlineFires
  BY <1>19 DEF DeadlineFires, Goto
<1>20. CASE DeadlineTries
  BY <1>20 DEF DeadlineTries, Goto
<1>21. CASE DeadlineExpires
  BY <1>21 DEF DeadlineExpires, Adopt, SwitchTo, NewRevision, Goto
<1>22. ASSUME NEW m \in Mutators, MutatorTries(m)
       PROVE  RetainedInv'
  BY <1>22 DEF MutatorTries, Goto
<1>23. ASSUME NEW m \in Mutators, MutatorAdmits(m)
       PROVE  RetainedInv'
  BY <1>23 DEF MutatorAdmits, Goto
<1>24. ASSUME NEW m \in Mutators, UninstallConsents(m)
       PROVE  RetainedInv'
  BY <1>24 DEF UninstallConsents, Goto
<1>25. ASSUME NEW m \in Mutators, MutatorWithdraws(m)
       PROVE  RetainedInv'
  BY <1>25 DEF MutatorWithdraws, Adopt, SwitchTo, NewRevision, Goto
<1>26. ASSUME NEW m \in Mutators, MutatorPublishes(m)
       PROVE  RetainedInv'
  BY <1>26 DEF MutatorPublishes, Publish, AfterAdoption
<1>27. ASSUME NEW m \in Mutators, MutatorCancels(m)
       PROVE  RetainedInv'
  BY <1>27 DEF MutatorCancels, Goto
<1>28. ASSUME NEW m \in Mutators, InstallWorks(m)
       PROVE  RetainedInv'
  BY <1>28 DEF InstallWorks, Usable, Goto
<1>29. ASSUME NEW m \in Mutators, UninstallWorks(m)
       PROVE  RetainedInv'
  BY <1>29 DEF UninstallWorks, Goto
<1>30. ASSUME NEW m \in Mutators, MutatorAdopts(m)
       PROVE  RetainedInv'
  BY <1>30 DEF MutatorAdopts, AfterAdoption, Adopt, SwitchTo, NewRevision, Goto
<1>31. ASSUME NEW m \in Mutators, MutatorSettles(m)
       PROVE  RetainedInv'
  BY <1>31 DEF MutatorSettles, Goto
<1>32. ASSUME NEW m \in Mutators, MutatorUnlocks(m)
       PROVE  RetainedInv'
  BY <1>32 DEF MutatorUnlocks, Goto
<1>33. ASSUME NEW ca \in CAs, Expires(ca)
       PROVE  RetainedInv'
  BY <1>33 DEF Expires
<1>34. CASE UNCHANGED vars
  BY <1>34
<1> QED
  BY <1>1, <1>2, <1>3, <1>4, <1>5, <1>6, <1>7, <1>8, <1>9, <1>10, <1>11, <1>12, <1>13,
     <1>14, <1>15, <1>16, <1>17, <1>18, <1>19, <1>20, <1>21, <1>22, <1>23, <1>24,
     <1>25, <1>26, <1>27, <1>28, <1>29, <1>30, <1>31, <1>32, <1>33, <1>34
     DEF Next, ListStep, WatcherStep, AssessStep, DeadlineStep, MutatorStep, RequestStep,
         Requesters, CAProcs

\* A timer or a fired deadline of the current revision is about the retained UserCA.
LEMMA TimerStep ==
  ASSUME TypeOK, RetainedInv, TimerInv, [Next]_vars
  PROVE  TimerInv'
<1> USE
        DEF TypeOK, vars, timerVars, caVars, Procs, CAProcs, Requesters, Assessing, Mutators,
            TimerInv, RetainedInv, CAOrNone
<1>1. ASSUME NEW l \in Lists, ListApplies(l)
       PROVE  TimerInv'
  BY <1>1 DEF ListApplies, SwitchTo, AfterSwitch, Goto
<1>2. ASSUME NEW l \in Lists, ListUnreadable(l)
       PROVE  TimerInv'
  BY <1>2 DEF ListUnreadable
<1>3. ASSUME NEW l \in Lists, ListPublishes(l)
       PROVE  TimerInv'
  BY <1>3 DEF ListPublishes, Publish, AfterSwitch
<1>4. ASSUME NEW l \in Lists, ListReadsContext(l)
       PROVE  TimerInv'
  BY <1>4 DEF ListReadsContext, Goto
<1>5. ASSUME NEW l \in Lists, ListAsks(l)
       PROVE  TimerInv'
  BY <1>5 DEF ListAsks
<1>6. CASE WatcherDelivers
  BY <1>6 DEF WatcherDelivers, Goto
<1>7. CASE WatcherRecords
  BY <1>7 DEF WatcherRecords, Goto
<1>8. ASSUME NEW p \in Requesters, Request(p)
       PROVE  TimerInv'
  BY <1>8 DEF Request, Through, AdmissionFree
<1>9. ASSUME NEW p \in Requesters, RequestBusy(p)
       PROVE  TimerInv'
  BY <1>9 DEF RequestBusy, Through, AdmissionFree, Goto
<1>10. ASSUME NEW p \in Requesters, SetPending(p)
       PROVE  TimerInv'
  BY <1>10 DEF SetPending, Through, Goto
<1>11. ASSUME NEW p \in CAProcs, ScheduleBegins(p)
       PROVE  TimerInv'
  BY <1>11 DEF ScheduleBegins, Goto
<1>12. ASSUME NEW p \in CAProcs, ScheduleEnds(p)
       PROVE  TimerInv'
  BY <1>12 DEF ScheduleEnds, Goto
<1>13. ASSUME NEW a \in Assessing, AssessInspects(a)
       PROVE  TimerInv'
  BY <1>13 DEF AssessInspects, Goto
<1>14. ASSUME NEW a \in Assessing, AssessAdopts(a)
       PROVE  TimerInv'
  BY <1>14 DEF AssessAdopts, Adopt, SwitchTo, NewRevision, Goto
<1>15. ASSUME NEW a \in Assessing, AssessPublishes(a)
       PROVE  TimerInv'
  BY <1>15 DEF AssessPublishes, Publish
<1>16. ASSUME NEW a \in Assessing, AssessCancels(a)
       PROVE  TimerInv'
  BY <1>16 DEF AssessCancels, Goto
<1>17. ASSUME NEW a \in Assessing, AssessFinishes(a)
       PROVE  TimerInv'
  BY <1>17 DEF AssessFinishes, Goto
<1>18. ASSUME NEW a \in Assessing, AssessTakesPending(a)
       PROVE  TimerInv'
  BY <1>18 DEF AssessTakesPending, Goto
<1>19. CASE DeadlineFires
  BY <1>19 DEF DeadlineFires, Goto
<1>20. CASE DeadlineTries
  BY <1>20 DEF DeadlineTries, Goto
<1>21. CASE DeadlineExpires
  BY <1>21 DEF DeadlineExpires, Adopt, SwitchTo, NewRevision, Goto
<1>22. ASSUME NEW m \in Mutators, MutatorTries(m)
       PROVE  TimerInv'
  BY <1>22 DEF MutatorTries, Goto
<1>23. ASSUME NEW m \in Mutators, MutatorAdmits(m)
       PROVE  TimerInv'
  BY <1>23 DEF MutatorAdmits, Goto
<1>24. ASSUME NEW m \in Mutators, UninstallConsents(m)
       PROVE  TimerInv'
  BY <1>24 DEF UninstallConsents, Goto
<1>25. ASSUME NEW m \in Mutators, MutatorWithdraws(m)
       PROVE  TimerInv'
  BY <1>25 DEF MutatorWithdraws, Adopt, SwitchTo, NewRevision, Goto
<1>26. ASSUME NEW m \in Mutators, MutatorPublishes(m)
       PROVE  TimerInv'
  BY <1>26 DEF MutatorPublishes, Publish, AfterAdoption
<1>27. ASSUME NEW m \in Mutators, MutatorCancels(m)
       PROVE  TimerInv'
  BY <1>27 DEF MutatorCancels, Goto
<1>28. ASSUME NEW m \in Mutators, InstallWorks(m)
       PROVE  TimerInv'
  BY <1>28 DEF InstallWorks, Usable, Goto
<1>29. ASSUME NEW m \in Mutators, UninstallWorks(m)
       PROVE  TimerInv'
  BY <1>29 DEF UninstallWorks, Goto
<1>30. ASSUME NEW m \in Mutators, MutatorAdopts(m)
       PROVE  TimerInv'
  BY <1>30 DEF MutatorAdopts, AfterAdoption, Adopt, SwitchTo, NewRevision, Goto
<1>31. ASSUME NEW m \in Mutators, MutatorSettles(m)
       PROVE  TimerInv'
  BY <1>31 DEF MutatorSettles, Goto
<1>32. ASSUME NEW m \in Mutators, MutatorUnlocks(m)
       PROVE  TimerInv'
  BY <1>32 DEF MutatorUnlocks, Goto
<1>33. ASSUME NEW ca \in CAs, Expires(ca)
       PROVE  TimerInv'
  BY <1>33 DEF Expires
<1>34. CASE UNCHANGED vars
  BY <1>34
<1> QED
  BY <1>1, <1>2, <1>3, <1>4, <1>5, <1>6, <1>7, <1>8, <1>9, <1>10, <1>11, <1>12, <1>13,
     <1>14, <1>15, <1>16, <1>17, <1>18, <1>19, <1>20, <1>21, <1>22, <1>23, <1>24,
     <1>25, <1>26, <1>27, <1>28, <1>29, <1>30, <1>31, <1>32, <1>33, <1>34
     DEF Next, ListStep, WatcherStep, AssessStep, DeadlineStep, MutatorStep, RequestStep,
         Requesters, CAProcs

\* SignalingInv is inductive.
THEOREM InvariantHolds == Spec => []SignalingInv
<1>1. Init => SignalingInv
  <2> SUFFICES ASSUME Init PROVE SignalingInv
    OBVIOUS
  <2> USE ProcsDiffer DEF Init, Procs, CAProcs, Assessing, Mutators
  <2>1. TypeOK
    BY ProjectedType
       DEF TypeOK, FlagsOK, CAOrNone, ListSteps, WatcherSteps, AssessSteps, MutatorSteps
  <2>2. ServesCurrentFacts /\ RequestNeverLost
    BY ProjectedOnce DEF ServesCurrentFacts, Equivalent, RequestNeverLost
  <2>3. RuntimeLockInv /\ LifecycleLockInv /\ AdmissionLockInv
    BY DEF RuntimeLockInv, Sending, LifecycleLockInv, AdmissionLockInv, Unadmitted
  <2>4. FoundInv /\ RetainedInv /\ TimerInv
    BY DEF FoundInv, BeforeFinding, Withdrawn, RetainedInv, TimerInv
  <2> QED
    BY <2>1, <2>2, <2>3, <2>4 DEF SignalingInv
<1>2. SignalingInv /\ [Next]_vars => SignalingInv'
  BY TypeStep, ServesStep, RuntimeLockStep, RequestStepKept, LifecycleLockStep,
     AdmissionLockStep, FoundStep, RetainedStep, TimerStep DEF SignalingInv
<1> QED
  BY <1>1, <1>2, PTL DEF Spec

\* Every variable stays in its type.
THEOREM TypeCorrect == Spec => []TypeOK
BY InvariantHolds, PTL DEF SignalingInv

\* The PAC, the kinds of routes and the UserCA that are served follow from the
\* current lists and the retained UserCA; the facades were derived together with
\* them, if perhaps from earlier lists (switchTrafficProjectionLocked).
THEOREM ProjectionIsCurrent == Spec => []ServesCurrentFacts
BY InvariantHolds, PTL DEF SignalingInv

\* No delivery request is dropped (publishDeliveryRequestLocked).
THEOREM RequestsAreKept == Spec => []RequestNeverLost
BY InvariantHolds, PTL DEF SignalingInv

\* HTTPS is withdrawn while a CA command works (Install, UninstallWithConsent).
THEOREM WithdrawnDuringMutation == Spec => []MutationWithdrawn
<1>1. SignalingInv => MutationWithdrawn
  <2>1. Projected(projection, None).identity = None
    BY DEF Projected
  <2> QED
    BY <2>1
       DEF SignalingInv, RetainedInv, Withdrawn, ServesCurrentFacts, Equivalent, MutationWithdrawn
<1> QED
  BY <1>1, InvariantHolds, PTL

\* The runtime intercepts with the installed UserCA (assessUserCA, Install).
THEOREM InterceptsWithInstalled == Spec => []UsesInstalledCA
<1>1. SignalingInv => UsesInstalledCA
  BY DEF SignalingInv, RetainedInv, UsesInstalledCA
<1> QED
  BY <1>1, InvariantHolds, PTL

\* A late deadline spares a newer UserCA (ExpireUserCA).
THEOREM LateDeadlineIsHarmless == Spec => DeadlineSparesNewer
<1>1. SignalingInv /\ [Next]_vars =>
        [DeadlineExpires /\ userCA' # userCA => userCA \in expired]_vars
  BY DEF SignalingInv, TimerInv, DeadlineExpires, Adopt, SwitchTo, vars
<1> QED
  BY <1>1, InvariantHolds, PTL DEF Spec, DeadlineSparesNewer
=============================================================================
