---------------------------- MODULE SystemPACProofs ----------------------------
(***************************************************************************)
(* System PAC Configuration Protection and Fulfillment, for any set of     *)
(* network services, any number of calls and any number of outside changes.*)
(***************************************************************************)
EXTENDS SystemPAC, TLAPS

\* Nothing is observed between two calls.  What a call has observed of a
\* foreign setting that nobody changed since is still so, and what the call is
\* about to write is what it observed to be eligible.
ObservationInv ==
  /\ mu = None => phase = "free" /\ before = Unobserved
  /\ \A n \in Services :
       n \notin edited /\ before[n] # Unknown /\ Ownership(setting[n]) = "foreign"
         => before[n] = setting[n]
  /\ phase = "mutate" => \A n \in todo : Eligible(n)

ProtectionInv == TypeOK /\ ObservationInv

\* An eligible service was observed, and not as foreign.
LEMMA EligibleIsSafe ==
  ASSUME NEW n \in Services, Eligible(n)
  PROVE  before[n] # Unknown /\ Ownership(before[n]) # "foreign"
BY DEF Eligible, ActiveOwned, Ownership, Unknown

\* A write of the call under way meets no foreign setting, unless others changed it.
LEMMA WritesAreSafe ==
  ASSUME ProtectionInv, NEW n \in Services, MutateService(n), n \notin edited
  PROVE  Ownership(setting[n]) # "foreign"
<1>1. n \in todo /\ Eligible(n)
  BY DEF MutateService, ProtectionInv, ObservationInv
<1> QED
  BY <1>1, EligibleIsSafe DEF ProtectionInv, ObservationInv

\* Every step keeps every variable in its type.
LEMMA TypeStep == TypeOK /\ [Next]_vars => TypeOK'
<1> SUFFICES ASSUME TypeOK, [Next]_vars
             PROVE  TypeOK'
  OBVIOUS
<1> USE DEF vars, callVars, TypeOK, Calls, Unobserved
<1>1. ASSUME NEW c \in Calls, Discover(c)
      PROVE  TypeOK'
  BY <1>1, StaleIsNoEndpoint DEF Discover, GenerationAfter
<1>2. ASSUME NEW n \in Services, ObserveService(n)
      PROVE  TypeOK'
  BY <1>2 DEF ObserveService, Failing
<1>3. ASSUME NEW n \in Services, MutateService(n)
      PROVE  TypeOK'
  <2>1. Written(n) \in Settings
    BY DEF Written, Settings, OwnedURLs, PublicationURL
  <2>2. setting' \in [Services -> Settings]
    BY <1>3, <2>1 DEF MutateService
  <2>3. errs' \subseteq {"discovery", "observation", "mutation", "verification", "residue"}
    BY <1>3 DEF MutateService, Failing
  <2> QED
    BY <1>3, <2>2, <2>3 DEF MutateService
<1>4. ASSUME NEW n \in Services, VerifyService(n)
      PROVE  TypeOK'
  BY <1>4 DEF VerifyService, Failing
<1>5. ASSUME NEW n \in Services, SettingChanged(n) \/ VisibilityChanged(n)
      PROVE  TypeOK'
  <2>1. edits' \in 0 .. MaxEdits /\ edited' \subseteq Services /\ visible' \subseteq Services
    BY <1>5, MaxEditsIsNatural DEF SettingChanged, VisibilityChanged
  <2>2. \A url \in {Empty, ForeignURL, setting[n].url}, enabled \in BOOLEAN :
          [url |-> url, enabled |-> enabled] \in Settings
    BY DEF Settings
  <2>3. setting' \in [Services -> Settings]
    BY <1>5, <2>2 DEF SettingChanged, VisibilityChanged
  <2> QED
    BY <1>5, <2>1, <2>3 DEF SettingChanged, VisibilityChanged
<1>6. CASE ObserveDone \/ MutateDone
  BY <1>6 DEF ObserveDone, MutateDone
<1>7. CASE Return
  BY <1>7 DEF Return
<1>8. CASE UNCHANGED vars
  BY <1>8
<1> QED
  BY <1>1, <1>2, <1>3, <1>4, <1>5, <1>6, <1>7, <1>8 DEF Next, Rest

\* No step lets an observation of a foreign setting go stale, or puts an
\* ineligible service on the list of writes.
LEMMA ObservationStep == ProtectionInv /\ [Next]_vars => ObservationInv'
<1> SUFFICES ASSUME ProtectionInv, [Next]_vars
             PROVE  ObservationInv'
  OBVIOUS
<1> USE DEF vars, callVars, ProtectionInv, TypeOK, ObservationInv, Unobserved
<1>1. ASSUME NEW c \in Calls, Discover(c)
      PROVE  ObservationInv'
  BY <1>1, CallsDiffer DEF Discover, Calls
<1>2. ASSUME NEW n \in Services, ObserveService(n)
      PROVE  ObservationInv'
  BY <1>2 DEF ObserveService
<1>3. ASSUME NEW n \in Services, MutateService(n)
      PROVE  ObservationInv'
  <2>1. \A k \in Services : Eligible(k)' = Eligible(k)
    BY <1>3 DEF MutateService, Eligible, ActiveOwned, Ownership
  <2>2. Ownership(Written(n)) = "foreign" => Ownership(setting[n]) = "foreign"
    BY DEF Written, Ownership, PublicationURL, Settings
  <2>3. n \notin edited => Ownership(setting'[n]) # "foreign"
    BY <1>3, <2>2, WritesAreSafe DEF MutateService
  <2> QED
    BY <1>3, <2>1, <2>3 DEF MutateService
<1>4. ASSUME NEW n \in Services, VerifyService(n)
      PROVE  ObservationInv'
  BY <1>4 DEF VerifyService
<1>5. ASSUME NEW n \in Services, SettingChanged(n) \/ VisibilityChanged(n)
      PROVE  ObservationInv'
  <2>1. \A k \in Services : Eligible(k)' = Eligible(k)
    BY <1>5 DEF SettingChanged, VisibilityChanged, Eligible, ActiveOwned, Ownership
  <2> QED
    BY <1>5, <2>1 DEF SettingChanged, VisibilityChanged
<1>6. CASE ObserveDone
  <2>1. \A k \in Services : Eligible(k)' = Eligible(k)
    BY <1>6 DEF ObserveDone, Eligible, ActiveOwned, Ownership
  <2> QED
    BY <1>6, <2>1 DEF ObserveDone
<1>7. CASE MutateDone \/ Return
  BY <1>7 DEF MutateDone, Return
<1>8. CASE UNCHANGED vars
  BY <1>8 DEF Eligible, ActiveOwned, Ownership
<1> QED
  BY <1>1, <1>2, <1>3, <1>4, <1>5, <1>6, <1>7, <1>8 DEF Next, Rest

\* No call of System PAC changes a foreign setting that nobody changed meanwhile.
LEMMA ProtectionStep == ProtectionInv /\ [Next]_vars => [ProtectsForeign]_vars
<1> SUFFICES ASSUME ProtectionInv, Next, NEW n \in Services,
                    OwnStep, Ownership(setting[n]) = "foreign", n \notin edited
             PROVE  setting'[n] = setting[n]
  BY DEF ProtectsForeign
<1>1. CASE MutateService(n)
  BY <1>1, WritesAreSafe
<1>2. ASSUME NEW k \in Services, k # n, MutateService(k)
      PROVE  setting'[n] = setting[n]
  BY <1>2 DEF MutateService, ProtectionInv, TypeOK
<1>3. \A k \in Services : ~SettingChanged(k) /\ ~VisibilityChanged(k)
  BY MaxEditsIsNatural DEF SettingChanged, VisibilityChanged, OwnStep, ProtectionInv, TypeOK
<1>4. CASE UNCHANGED setting
  BY <1>4
<1> QED
  BY <1>1, <1>2, <1>3, <1>4
     DEF Next, Discover, ObserveService, VerifyService, ObserveDone, MutateDone, Return, Rest, vars

\* The owner starts with nothing observed and every variable in its type.
LEMMA ProtectionHoldsInitially == Init => ProtectionInv
<1>1. Init => ObservationInv
  BY DEF Init, ObservationInv, Unobserved
<1>2. Init => TypeOK
  BY MaxEditsIsNatural
     DEF Init, TypeOK, Settings, OwnedURLs, InitialURLs, PublicationURL, Unobserved, Calls
<1> QED
  BY <1>1, <1>2 DEF ProtectionInv

\* The settings, the call under way and its locals stay in their types.
THEOREM TypeCorrect == Spec => []TypeOK
<1>1. Init => TypeOK
  BY ProtectionHoldsInitially DEF ProtectionInv
<1> QED
  BY <1>1, TypeStep, PTL DEF Spec

\* System PAC Configuration Protection: neither Deliver nor Cleanup ever changes
\* a foreign setting that nobody has changed since the call discovered it,
\* though any observation and any write may fail.
THEOREM ForeignIsProtected == Spec => ForeignSurvives
<1>1. Init => ProtectionInv
  BY ProtectionHoldsInitially
<1>2. ProtectionInv /\ [Next]_vars => ProtectionInv'
  BY TypeStep, ObservationStep DEF ProtectionInv
<1> QED
  BY <1>1, <1>2, ProtectionStep, PTL DEF Spec, ForeignSurvives

(***************************************************************************)
(* Fulfillment: what a call that met no error has achieved.                *)
(***************************************************************************)
\* What the call under way is there to bring about on service n.
Reached(n) ==
  IF mu \in Deliveries
  THEN \/ Ownership(setting[n]) = "foreign"
       \/ setting[n] = [url |-> PublicationURL(endpoint, generation), enabled |-> TRUE]
  ELSE ~ActiveOwned(setting[n])

\* A call without an error so far has listed every service nobody touched, and
\* its loops have done their part for those they are through with.
ProgressInv ==
  mu # None /\ errs = {} =>
    /\ visible \ edited \subseteq listed
    /\ \A n \in listed \ edited :
         /\ phase = "observe" /\ n \notin todo => before[n] = setting[n]
         /\ phase = "mutate" /\ n \notin todo => Reached(n)
         /\ phase = "verify" => Reached(n)

\* A publication of this owner carries a generation below v.
PublishedBelow(v, url) ==
  url.kind = "owned" /\ url.endpoint \in Endpoints => url.v < v

\* No publication is ahead of the generation, and what a delivery observed is
\* older than what it is about to publish.
GenerationInv ==
  /\ \A n \in Services : PublishedBelow(generation + 1, setting[n].url)
  /\ mu \in Deliveries =>
       /\ endpoint \in Endpoints
       /\ \A n \in Services : PublishedBelow(generation, before[n].url)
       /\ phase = "observe" => \A n \in Services : PublishedBelow(generation, setting[n].url)

FulfillmentInv == ProtectionInv /\ ProgressInv /\ GenerationInv

\* What a call has brought about on service n depends on that service's setting
\* and on what the call is delivering.
LEMMA ReachedIsStable ==
  ASSUME NEW n \in Services, setting'[n] = setting[n],
         UNCHANGED <<mu, endpoint, generation>>
  PROVE  Reached(n)' = Reached(n)
BY DEF Reached, ActiveOwned, Ownership

\* A service that is not eligible needs no write.
LEMMA IneligibleIsReached ==
  ASSUME TypeOK, NEW n \in Services, before[n] = setting[n], ~Eligible(n)
  PROVE  Reached(n)
<1>1. Ownership(setting[n]) \in {"empty", "foreign", "owned"}
  BY DEF TypeOK, Settings, OwnedURLs, Empty, ForeignURL, Ownership
<1> QED
  BY <1>1 DEF Eligible, Reached, ActiveOwned, Ownership

\* A write that does not fail brings it about.
LEMMA WrittenIsReached ==
  ASSUME TypeOK, NEW n \in Services, setting'[n] = Written(n),
         UNCHANGED <<mu, endpoint, generation>>
  PROVE  Reached(n)'
<1>1. CASE mu \in Deliveries
  BY <1>1 DEF Written, Reached
<1>2. CASE mu \notin Deliveries
  <2>1. setting[n] \in Settings
    BY DEF TypeOK
  <2>2. setting'[n].enabled = FALSE
    BY <1>2, <2>1 DEF Written, Settings
  <2> QED
    BY <1>2, <2>2 DEF Reached, ActiveOwned
<1> QED
  BY <1>1, <1>2

\* No step undoes what a call without errors has achieved, but an outside change.
LEMMA ProgressStep == FulfillmentInv /\ [Next]_vars => ProgressInv'
<1> SUFFICES ASSUME FulfillmentInv, [Next]_vars
             PROVE  ProgressInv'
  OBVIOUS
<1> USE DEF FulfillmentInv, ProtectionInv
<1>1. ASSUME NEW c \in Calls, Discover(c)
      PROVE  ProgressInv'
  BY <1>1 DEF Discover, ProgressInv
<1>2. ASSUME NEW k \in Services, ObserveService(k)
      PROVE  ProgressInv'
  <2> SUFFICES ASSUME (mu # None)', (errs = {})'
               PROVE  /\ (visible \ edited \subseteq listed)'
                      /\ \A n \in listed \ edited : n \notin todo' => before'[n] = setting[n]
    BY <1>2 DEF ObserveService, ProgressInv
  <2>1. mu # None /\ errs = {} /\ before' = [before EXCEPT ![k] = setting[k]]
    BY <1>2 DEF ObserveService, Failing
  <2> QED
    BY <1>2, <2>1 DEF ObserveService, ProgressInv, TypeOK
<1>3. ASSUME NEW k \in Services, MutateService(k)
      PROVE  ProgressInv'
  <2> SUFFICES ASSUME (mu # None)', (errs = {})'
               PROVE  /\ (visible \ edited \subseteq listed)'
                      /\ \A n \in listed \ edited : n \notin todo' => Reached(n)'
    BY <1>3 DEF MutateService, ProgressInv
  <2>1. mu # None /\ errs = {} /\ setting' = [setting EXCEPT ![k] = Written(k)]
    BY <1>3 DEF MutateService, Failing
  <2>2. Reached(k)'
    BY <1>3, <2>1, WrittenIsReached DEF MutateService, TypeOK
  <2>3. ASSUME NEW n \in listed \ edited, n \notin todo', n # k
        PROVE  Reached(n)'
    <3>1. n \in Services /\ Reached(n) /\ setting'[n] = setting[n]
      BY <1>3, <2>1, <2>3 DEF MutateService, ProgressInv, TypeOK
    <3> QED
      BY <1>3, <3>1, ReachedIsStable DEF MutateService
  <2> QED
    BY <1>3, <2>1, <2>2, <2>3 DEF MutateService, ProgressInv
<1>4. CASE ObserveDone
  <2> SUFFICES ASSUME (mu # None)', (errs = {})'
               PROVE  /\ (visible \ edited \subseteq listed)'
                      /\ \A n \in listed \ edited : n \notin todo' => Reached(n)'
    BY <1>4 DEF ObserveDone, ProgressInv
  <2>1. ASSUME NEW n \in listed \ edited, n \notin todo'
        PROVE  Reached(n)'
    <3>1. n \in Services /\ before[n] = setting[n] /\ ~Eligible(n)
      BY <1>4, <2>1 DEF ObserveDone, ProgressInv, TypeOK
    <3>2. Reached(n)
      BY <3>1, IneligibleIsReached
    <3> QED
      BY <1>4, <3>1, <3>2, ReachedIsStable DEF ObserveDone
  <2> QED
    BY <1>4, <2>1 DEF ObserveDone, ProgressInv
<1>5. CASE MutateDone
  <2>1. \A n \in Services : Reached(n)' = Reached(n)
    BY <1>5, ReachedIsStable DEF MutateDone
  <2> QED
    BY <1>5, <2>1 DEF MutateDone, ProgressInv, TypeOK
<1>6. ASSUME NEW k \in Services, VerifyService(k)
      PROVE  ProgressInv'
  <2>1. \A n \in Services : Reached(n)' = Reached(n)
    BY <1>6, ReachedIsStable DEF VerifyService
  <2>2. errs' = {} => errs = {}
    BY <1>6 DEF VerifyService, Failing
  <2> QED
    BY <1>6, <2>1, <2>2 DEF VerifyService, ProgressInv, TypeOK
<1>7. ASSUME NEW k \in Services, SettingChanged(k) \/ VisibilityChanged(k)
      PROVE  ProgressInv'
  <2> SUFFICES ASSUME mu # None, errs = {}
               PROVE  ProgressInv'
    BY <1>7 DEF SettingChanged, VisibilityChanged, callVars, ProgressInv
  <2>1. edited' = edited \cup {k}
    BY <1>7 DEF SettingChanged, VisibilityChanged
  <2>2. \A n \in Services \ edited' : setting'[n] = setting[n] /\ Reached(n)' = Reached(n)
    BY <1>7, <2>1, ReachedIsStable DEF SettingChanged, VisibilityChanged, callVars, TypeOK
  <2>3. visible' \ edited' \subseteq visible \ edited
    BY <1>7, <2>1 DEF SettingChanged, VisibilityChanged
  <2> QED
    BY <1>7, <2>1, <2>2, <2>3 DEF SettingChanged, VisibilityChanged, callVars, ProgressInv, TypeOK
<1>8. CASE Return
  BY <1>8 DEF Return, ProgressInv
<1>9. CASE UNCHANGED vars
  BY <1>9 DEF vars, callVars, ProgressInv, Reached, ActiveOwned, Ownership
<1> QED
  BY <1>1, <1>2, <1>3, <1>4, <1>5, <1>6, <1>7, <1>8, <1>9 DEF Next, Rest

\* A delivery consumes a generation before it observes anything, and only a
\* delivery publishes.
LEMMA GenerationStep == FulfillmentInv /\ [Next]_vars => GenerationInv'
<1> SUFFICES ASSUME FulfillmentInv, [Next]_vars
             PROVE  GenerationInv'
  OBVIOUS
<1> USE DEF FulfillmentInv, ProtectionInv, TypeOK
<1>1. ASSUME NEW c \in Calls, Discover(c)
      PROVE  GenerationInv'
  <2>1. ASSUME NEW n \in Services
        PROVE  /\ PublishedBelow(generation' + 1, setting[n].url)
               /\ c \in Deliveries => PublishedBelow(generation', setting[n].url)
    <3>1. setting[n].url \in OwnedURLs \/ setting[n].url.kind # "owned"
      BY DEF Settings, Empty, ForeignURL
    <3>2. setting[n].url.kind = "owned" => setting[n].url.v \in Nat
      BY <3>1 DEF OwnedURLs
    <3> QED
      BY <1>1, <3>2 DEF Discover, GenerationAfter, GenerationInv, PublishedBelow
  <2>2. \A n \in Services : PublishedBelow(generation', before[n].url)
    BY <1>1 DEF Discover, ObservationInv, Unobserved, Unknown, PublishedBelow
  <2> QED
    BY <1>1, <2>1, <2>2 DEF Discover, GenerationInv
<1>2. ASSUME NEW k \in Services, ObserveService(k)
      PROVE  GenerationInv'
  BY <1>2 DEF ObserveService, GenerationInv, PublishedBelow, Unknown
<1>3. ASSUME NEW k \in Services, MutateService(k)
      PROVE  GenerationInv'
  <2>1. PublishedBelow(generation + 1, Written(k).url)
    <3>1. CASE mu \in Deliveries
      BY <3>1 DEF Written, PublicationURL, PublishedBelow
    <3>2. CASE mu \notin Deliveries
      <4>1. setting[k] \in Settings
        OBVIOUS
      <4>2. Written(k).url = setting[k].url
        BY <3>2, <4>1 DEF Written, Settings
      <4> QED
        BY <4>2 DEF GenerationInv
    <3> QED
      BY <3>1, <3>2
  <2>2. \A n \in Services : /\ setting'[n] \in {setting[n], Written(n)}
                            /\ n # k => setting'[n] = setting[n]
    BY <1>3 DEF MutateService
  <2> QED
    BY <1>3, <2>1, <2>2 DEF MutateService, GenerationInv
<1>4. ASSUME NEW k \in Services, VerifyService(k)
      PROVE  GenerationInv'
  BY <1>4 DEF VerifyService, GenerationInv
<1>5. ASSUME NEW k \in Services, SettingChanged(k) \/ VisibilityChanged(k)
      PROVE  GenerationInv'
  <2>1. \A n \in Services : setting'[n].url \in {Empty, ForeignURL, setting[n].url}
    BY <1>5 DEF SettingChanged, VisibilityChanged
  <2>2. \A v : PublishedBelow(v, Empty) /\ PublishedBelow(v, ForeignURL)
    BY DEF PublishedBelow, Empty, ForeignURL
  <2>3. UNCHANGED <<generation, callVars>>
    BY <1>5 DEF SettingChanged, VisibilityChanged
  <2> QED
    BY <2>1, <2>2, <2>3 DEF GenerationInv, callVars
<1>6. CASE ObserveDone \/ MutateDone
  BY <1>6 DEF ObserveDone, MutateDone, GenerationInv
<1>7. CASE Return
  BY <1>7, CallsDiffer DEF Return, GenerationInv
<1>8. CASE UNCHANGED vars
  BY <1>8 DEF vars, callVars, GenerationInv, PublishedBelow
<1> QED
  BY <1>1, <1>2, <1>3, <1>4, <1>5, <1>6, <1>7, <1>8 DEF Next, Rest

\* The invariant on fulfillment holds of every state.
LEMMA FulfillmentHolds == Spec => []FulfillmentInv
<1>1. Init => FulfillmentInv
  <2>1. Init => ProtectionInv
    BY ProtectionHoldsInitially
  <2>2. Init => ProgressInv
    BY DEF Init, ProgressInv
  <2>3. Init => GenerationInv
    <3> SUFFICES ASSUME Init
                 PROVE  GenerationInv
      OBVIOUS
    <3>1. \A url \in InitialURLs, v \in Nat : PublishedBelow(v, url)
      BY StaleIsNoEndpoint DEF InitialURLs, PublishedBelow, PublicationURL, Empty, ForeignURL
    <3>2. \A n \in Services : setting[n].url \in InitialURLs
      BY DEF Init
    <3> QED
      BY <3>1, <3>2, CallsDiffer DEF Init, GenerationInv
  <2> QED
    BY <2>1, <2>2, <2>3 DEF FulfillmentInv
<1>2. FulfillmentInv /\ [Next]_vars => FulfillmentInv'
  BY TypeStep, ObservationStep, ProgressStep, GenerationStep DEF FulfillmentInv, ProtectionInv
<1> QED
  BY <1>1, <1>2, PTL DEF Spec

\* Only the step that returns from a call makes it succeed, and not with an error.
LEMMA SuccessIsReturn ==
  ASSUME TypeOK, Next, NEW c \in Calls, Succeeds(c)
  PROVE  Return /\ phase = "verify" /\ mu # None /\ errs = {}
<1>1. Return
  BY DEF Next, Rest, Succeeds, Discover, ObserveService, MutateService, VerifyService,
         SettingChanged, VisibilityChanged, ObserveDone, MutateDone, vars
<1>2. mu = c /\ mu # None /\ Succeeded
  BY <1>1, CallsDiffer DEF Return, Succeeds, TypeOK, Calls
<1> QED
  BY <1>1, <1>2 DEF Return, Succeeded

\* A Cleanup that returns no error leaves no visible service on an active owned
\* PAC, unless others interfered.
THEOREM FulfilledCleanupLeavesNone == Spec => FulfilledCleanupIsClean
<1>1. FulfillmentInv /\ [Next]_vars => [CleanupIsTruthful]_vars
  <2> SUFFICES ASSUME FulfillmentInv, Next, NEW c \in Cleanups, Succeeds(c),
                      NEW n \in visible \ edited
               PROVE  ~ActiveOwned(setting[n])
    BY DEF CleanupIsTruthful
  <2>1. phase = "verify" /\ mu # None /\ errs = {} /\ mu \notin Deliveries
    BY SuccessIsReturn, CallsDiffer DEF FulfillmentInv, ProtectionInv, Calls, Succeeds
  <2>2. Reached(n)
    BY <2>1 DEF FulfillmentInv, ProgressInv
  <2> QED
    BY <2>1, <2>2 DEF Reached
<1> QED
  BY <1>1, FulfillmentHolds, PTL DEF Spec, FulfilledCleanupIsClean

\* A Deliver that returns no error has put a new URL of its endpoint on every
\* visible service that is not foreign, unless others interfered.
THEOREM DeliveryReachesEveryService == Spec => DeliveryReachesAll
<1>1. FulfillmentInv /\ [Next]_vars => [DeliveryIsTruthful]_vars
  <2> SUFFICES ASSUME FulfillmentInv, Next, NEW c \in Deliveries, Succeeds(c),
                      NEW n \in visible \ edited, Ownership(setting[n]) # "foreign"
               PROVE  /\ setting[n] = [url |-> PublicationURL(endpoint, generation),
                                       enabled |-> TRUE]
                      /\ setting[n].url # before[n].url
    BY DEF DeliveryIsTruthful
  <2>1. phase = "verify" /\ mu # None /\ errs = {} /\ mu \in Deliveries
    BY SuccessIsReturn DEF FulfillmentInv, ProtectionInv, Calls, Succeeds
  <2>2. setting[n] = [url |-> PublicationURL(endpoint, generation), enabled |-> TRUE]
    BY <2>1 DEF FulfillmentInv, ProgressInv, Reached
  <2>3. ~PublishedBelow(generation, setting[n].url)
    BY <2>1, <2>2 DEF FulfillmentInv, ProtectionInv, TypeOK, GenerationInv, PublishedBelow,
                      PublicationURL
  <2>4. PublishedBelow(generation, before[n].url)
    BY <2>1 DEF FulfillmentInv, ProtectionInv, TypeOK, GenerationInv
  <2> QED
    BY <2>2, <2>3, <2>4
<1> QED
  BY <1>1, FulfillmentHolds, PTL DEF Spec, DeliveryReachesAll
=============================================================================
