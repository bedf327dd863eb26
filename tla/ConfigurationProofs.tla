------------------------- MODULE ConfigurationProofs -------------------------
(***************************************************************************)
(* Proofs about Configuration, for all settings.                           *)
(***************************************************************************)
EXTENDS Configuration, TLAPS, FiniteSetTheorems

\* The deployments the configuration lists for a model, with repetitions.
Listed(settings, model) == ModelMap(settings)[model].deployments

\* Settings under which service.py:57 counts enough attempts: every provider
\* that the model names is declared, and none serves two of its deployments.
OneEach(settings, model) ==
    LET deployments == Listed(settings, model)
    IN  /\ \A i \in DOMAIN deployments :
              \E j \in DOMAIN settings.providers :
                  settings.providers[j].name = deployments[i].provider
        /\ \A i, j \in DOMAIN deployments :
              deployments[i].provider = deployments[j].provider => i = j

\* A model has no more states than its configuration lists deployments.
LEMMA StatesListed ==
    ASSUME NEW settings, NEW model, NEW D, Listed(settings, model) \in Seq(D)
    PROVE  /\ IsFiniteSet(DOMAIN States(settings, model))
           /\ Cardinality(DOMAIN States(settings, model)) <= Len(Listed(settings, model))
           /\ Cardinality(DOMAIN States(settings, model)) \in Nat
  <1> DEFINE ds == Listed(settings, model)
             keys == {DeploymentKey(ds[i]) : i \in DOMAIN ds}
             f == [i \in DOMAIN ds |-> DeploymentKey(ds[i])]
  <1>1. DOMAIN States(settings, model) = keys
    BY DEF States, Keyed, Listed
  <1>2. Len(ds) \in Nat /\ DOMAIN ds = 1..Len(ds)
    OBVIOUS
  <1>3. IsFiniteSet(DOMAIN ds) /\ Cardinality(DOMAIN ds) = Len(ds)
    BY <1>2, FS_Interval
  <1>4. f \in Surjection(DOMAIN ds, keys)
    BY DEF Surjection
  <1> HIDE DEF ds, f, keys
  <1>5. IsFiniteSet(keys) /\ Cardinality(keys) <= Len(ds)
    BY <1>3, <1>4, FS_Surjection
  <1> QED BY <1>1, <1>5, FS_CardinalityType DEF ds

\* A request has an attempt for every deployment of its model, if every
\* provider serves at most one of them (service.py:57).  It is what GivesUpLast
\* of GatewayProofs assumes of MaxAttempts.
THEOREM AttemptsForAll ==
    ASSUME NEW settings, NEW model, NEW D, NEW N,
           Listed(settings, model) \in Seq(D), settings.providers \in Seq(N),
           OneEach(settings, model)
    PROVE  Cardinality(DOMAIN States(settings, model)) <= MaxAttemptsOf(settings)
  <1> DEFINE ds == Listed(settings, model)
             ps == settings.providers
             g == [i \in DOMAIN ds |->
                      CHOOSE j \in DOMAIN ps : ps[j].name = ds[i].provider]
  <1>1. /\ Len(ds) \in Nat /\ DOMAIN ds = 1..Len(ds)
        /\ Len(ps) \in Nat /\ DOMAIN ps = 1..Len(ps)
    OBVIOUS
  <1>2. /\ IsFiniteSet(DOMAIN ds) /\ Cardinality(DOMAIN ds) = Len(ds)
        /\ IsFiniteSet(DOMAIN ps) /\ Cardinality(DOMAIN ps) = Len(ps)
    <2>1. ASSUME NEW n \in Nat PROVE IsFiniteSet(1..n) /\ Cardinality(1..n) = n
      BY FS_Interval
    <2> QED BY <1>1, <2>1
  <1>3. \A i \in DOMAIN ds : g[i] \in DOMAIN ps /\ ps[g[i]].name = ds[i].provider
    BY DEF OneEach
  <1>4. \A i, j \in DOMAIN ds : ds[i].provider = ds[j].provider => i = j
    BY DEF OneEach
  <1>5. g \in Injection(DOMAIN ds, DOMAIN ps)
    <2>1. g \in [DOMAIN ds -> DOMAIN ps]
      BY <1>3
    <2>2. \A i, j \in DOMAIN ds : g[i] = g[j] => i = j
      <3> HIDE DEF g
      <3> SUFFICES ASSUME NEW i \in DOMAIN ds, NEW j \in DOMAIN ds, g[i] = g[j] PROVE i = j
        OBVIOUS
      <3>1. ds[i].provider = ds[j].provider
        BY <1>3
      <3> QED BY <1>4, <3>1
    <2> QED BY <2>1, <2>2 DEF Injection, IsInjective
  <1> HIDE DEF g
  <1>6. Len(ds) <= Len(ps)
    BY <1>2, <1>5, FS_Injection
  <1>7. Cardinality(DOMAIN States(settings, model)) <= Len(ds)
        /\ Cardinality(DOMAIN States(settings, model)) \in Nat
    BY StatesListed
  <1> QED BY <1>1, <1>6, <1>7 DEF MaxAttemptsOf
=============================================================================
