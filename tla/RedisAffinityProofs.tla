------------------------- MODULE RedisAffinityProofs -------------------------
(***************************************************************************)
(* Proofs about RedisAffinity, for every number of hosts and blocks, every *)
(* set of chains, every limit, and with or without crashes.                *)
(***************************************************************************)
EXTENDS RedisAffinity, TLAPS, FiniteSetTheorems

LEMMA PlaceNames == PCs = {"idle", "hset", "expire", "hlen", "hgetall", "hdel"}
  BY DEF PCs

\* The blocks of a chain are blocks.
LEMMA BlocksOfChain ==
    ASSUME NEW c \in Seq(Blocks)
    PROVE  BlocksOf(c) \subseteq Blocks
  <1>1. DOMAIN c = 1..Len(c) /\ \A i \in 1..Len(c) : c[i] \in Blocks
    OBVIOUS
  <1> SUFFICES ASSUME NEW b \in BlocksOf(c) PROVE b \in Blocks
    OBVIOUS
  <1>2. PICK i \in DOMAIN c : b = c[i]
    BY DEF BlocksOf
  <1> QED BY <1>1, <1>2

LEMMA InitType == Init => TypeOK
  <1> SUFFICES ASSUME Init PROVE TypeOK
    OBVIOUS
  <1>1. Fields = {}
    BY DEF Init, Fields
  <1>2. chain \in [Hosts -> Seq(Blocks)]
    <2>1. << >> \in Seq(Blocks)
      OBVIOUS
    <2> QED BY <2>1 DEF Init
  <1>3. pc \in [Hosts -> PCs] /\ drop \in [Hosts -> SUBSET Blocks] /\ now \in [Hosts -> Int]
    BY PlaceNames DEF Init
  <1>4. life = 0 /\ clock = 0 /\ torn = FALSE /\ lost = {}
    BY DEF Init
  <1>5. 0 \in 0..(TTL + 1) /\ 0 \in 0..MaxTime
    BY LimitsAssumption
  <1> QED BY <1>1, <1>2, <1>3, <1>4, <1>5 DEF TypeOK

LEMMA StepType == TypeOK /\ [Next]_vars => TypeOK'
  <1> SUFFICES ASSUME TypeOK, [Next]_vars PROVE TypeOK'
    OBVIOUS
  <1>1. ASSUME NEW h \in Hosts, Register(h) PROVE TypeOK'
    <2>1. TimeAt(h) \in Int
      BY LimitsAssumption, SkewAssumption DEF TimeAt, TypeOK
    <2>2. PICK c \in Chains : chain' = [chain EXCEPT ![h] = c]
      BY <1>1 DEF Register
    <2>3. chain' \in [Hosts -> Seq(Blocks)]
      BY <2>2, ChainsAssumption DEF TypeOK
    <2> QED BY <1>1, <2>1, <2>3, PlaceNames DEF Register, TypeOK, Fields
  <1>2. ASSUME NEW h \in Hosts, HSet(h) PROVE TypeOK'
    <2>1. BlocksOf(chain[h]) \subseteq Blocks
      BY BlocksOfChain DEF TypeOK
    <2>2. /\ Fields' = Fields \cup BlocksOf(chain[h])
          /\ \A b \in Fields' : hash'[b] \in Int
      BY <1>2 DEF HSet, TypeOK, Fields
    <2>3. Fields' \subseteq Blocks
      BY <2>1, <2>2 DEF TypeOK
    <2> QED BY <1>2, <2>2, <2>3, PlaceNames DEF HSet, TypeOK
  <1>3. ASSUME NEW h \in Hosts, Expire(h) PROVE TypeOK'
    BY <1>3, LimitsAssumption, PlaceNames DEF Expire, TypeOK, Fields
  <1>4. ASSUME NEW h \in Hosts, HLen(h) PROVE TypeOK'
    BY <1>4, PlaceNames DEF HLen, TypeOK, Fields, Unsettled
  <1>5. ASSUME NEW h \in Hosts, HGetAll(h) PROVE TypeOK'
    <2>1. PICK gone \in SUBSET Fields :
            /\ drop' = [drop EXCEPT ![h] = gone]
            /\ pc' = [pc EXCEPT ![h] = IF gone = {} THEN "idle" ELSE "hdel"]
      BY <1>5 DEF HGetAll
    <2> QED BY <1>5, <2>1, PlaceNames DEF HGetAll, TypeOK, Fields
  <1>6. ASSUME NEW h \in Hosts, HDel(h) PROVE TypeOK'
    BY <1>6, LimitsAssumption, PlaceNames DEF HDel, TypeOK, Fields, Unsettled
  <1>7. ASSUME NEW h \in Hosts, Crash(h) PROVE TypeOK'
    <2>1. BlocksOf(chain[h]) \subseteq Blocks
      BY BlocksOfChain DEF TypeOK
    <2> QED BY <1>7, <2>1, PlaceNames DEF Crash, TypeOK, Fields
  <1>8. CASE Tick
    BY <1>8, LimitsAssumption, PlaceNames DEF Tick, TypeOK, Fields
  <1>9. CASE UNCHANGED vars
    BY <1>9 DEF vars, TypeOK, Fields
  <1> QED BY <1>1, <1>2, <1>3, <1>4, <1>5, <1>6, <1>7, <1>8, <1>9 DEF Next

\* Every variable keeps its type.
THEOREM TypeCorrect == Spec => []TypeOK
  BY InitType, StepType, PTL DEF Spec

-----------------------------------------------------------------------------
(* The size of the hash *)

\* Why the hash is within its bound when all is quiet: if it is too large,
\* then some host is still to ask for its size, is to trim, has chosen enough
\* to delete, or has crashed on the way.
SizeInv ==
    \/ Cardinality(Fields) <= MaxBlocks
    \/ torn
    \/ \E h \in Hosts : pc[h] \in {"expire", "hlen", "hgetall"}
    \/ \E h \in Hosts : pc[h] = "hdel" /\ Cardinality(Fields \ drop[h]) <= MaxBlocks

LEMMA FieldsFinite ==
    ASSUME TypeOK, NEW S \in SUBSET Fields
    PROVE  /\ IsFiniteSet(Fields) /\ Cardinality(Fields) \in Nat
           /\ IsFiniteSet(S) /\ Cardinality(S) \in Nat
           /\ Cardinality(S) <= Cardinality(Fields)
  <1>1. IsFiniteSet(Fields)
    BY BlocksAssumption, FS_Subset DEF TypeOK
  <1> QED BY <1>1, FS_Subset, FS_CardinalityType

\* A trim chooses enough: what it spares fits.
LEMMA TrimFits ==
    ASSUME TypeOK, NEW h \in Hosts, NEW gone \in SUBSET Fields, Trimmed(h, gone)
    PROVE  Cardinality(Fields \ gone) <= MaxBlocks
  <1> DEFINE live == {b \in Fields : Fresh(b, now[h])}
             old == gone \cap live
  <1>1. Fields \ gone = live \ old
    BY DEF Trimmed
  <1>2. /\ IsFiniteSet(live) /\ Cardinality(live) \in Nat
        /\ IsFiniteSet(old) /\ Cardinality(old) \in Nat
    BY FieldsFinite
  <1>3. Cardinality(live \ old) = Cardinality(live) - Cardinality(old)
    <2>1. live \cap old = old
      OBVIOUS
    <2> HIDE DEF live, old
    <2> QED BY <1>2, <2>1, FS_Difference
  <1>4. Cardinality(old) = IF Cardinality(live) > MaxBlocks
                           THEN Cardinality(live) - MaxBlocks ELSE 0
    BY DEF Trimmed
  <1> HIDE DEF live, old
  <1>5. Cardinality(live \ old) <= MaxBlocks
    BY <1>2, <1>3, <1>4, LimitsAssumption
  <1> QED BY <1>1, <1>5

LEMMA SizeStep == TypeOK /\ SizeInv /\ [Next]_vars => SizeInv'
  <1> SUFFICES ASSUME TypeOK, SizeInv, [Next]_vars PROVE SizeInv'
    OBVIOUS
  <1>0. TypeOK'
    BY StepType
  <1>a. ASSUME Fields' = Fields, torn' = torn, drop' = drop,
               \A u \in Hosts : pc[u] # "idle" /\ pc[u] # "hset" => pc'[u] = pc[u]
        PROVE  SizeInv'
    BY <1>a DEF SizeInv
  <1>1. ASSUME NEW h \in Hosts, Register(h) PROVE SizeInv'
    <2>1. /\ hash' = hash /\ torn' = torn /\ pc[h] = "idle"
          /\ \A u \in Hosts \ {h} : pc'[u] = pc[u] /\ drop'[u] = drop[u]
      BY <1>1 DEF Register, TypeOK
    <2> QED BY <2>1 DEF SizeInv, Fields
  <1>2. ASSUME NEW h \in Hosts, HSet(h) PROVE SizeInv'
    BY <1>2 DEF HSet, TypeOK, SizeInv
  <1>3. ASSUME NEW h \in Hosts, Expire(h) PROVE SizeInv'
    BY <1>3 DEF Expire, TypeOK, SizeInv
  <1>4. ASSUME NEW h \in Hosts, HLen(h) PROVE SizeInv'
    <2>1. Fields' = Fields
      BY <1>4 DEF HLen, Fields
    <2>2. CASE Cardinality(Fields) > MaxBlocks
      BY <1>4, <2>2 DEF HLen, TypeOK, SizeInv
    <2>3. CASE ~(Cardinality(Fields) > MaxBlocks)
      BY <2>1, <2>3, FieldsFinite, LimitsAssumption DEF SizeInv
    <2> QED BY <2>2, <2>3
  <1>5. ASSUME NEW h \in Hosts, HGetAll(h) PROVE SizeInv'
    <2>1. PICK gone \in SUBSET Fields :
            /\ Trimmed(h, gone)
            /\ drop' = [drop EXCEPT ![h] = gone]
            /\ pc' = [pc EXCEPT ![h] = IF gone = {} THEN "idle" ELSE "hdel"]
      BY <1>5 DEF HGetAll
    <2>2. Fields' = Fields /\ Cardinality(Fields \ gone) <= MaxBlocks
      BY <1>5, <2>1, TrimFits DEF HGetAll, Fields
    <2>3. CASE gone = {}
      <3>1. Fields \ gone = Fields
        BY <2>3
      <3> QED BY <2>2, <3>1 DEF SizeInv
    <2>4. CASE gone # {}
      <3>1. pc'[h] = "hdel" /\ drop'[h] = gone
        BY <2>1, <2>4 DEF TypeOK
      <3> QED BY <2>2, <3>1 DEF SizeInv
    <2> QED BY <2>3, <2>4
  <1>6. ASSUME NEW h \in Hosts, HDel(h) PROVE SizeInv'
    <2>1. /\ Fields' = Fields \ drop[h] /\ torn' = torn /\ drop' = drop
          /\ \A u \in Hosts \ {h} : pc'[u] = pc[u]
          /\ pc[h] = "hdel"
      BY <1>6 DEF HDel, TypeOK, Fields
    <2>2. Cardinality(Fields \ drop[h]) <= Cardinality(Fields)
          /\ Cardinality(Fields) \in Nat /\ Cardinality(Fields \ drop[h]) \in Nat
      BY FieldsFinite
    <2>3. CASE Cardinality(Fields) <= MaxBlocks
      BY <2>1, <2>2, <2>3, LimitsAssumption DEF SizeInv
    <2>4. CASE torn
      BY <2>1, <2>4 DEF SizeInv
    <2>5. CASE \E g \in Hosts : pc[g] \in {"expire", "hlen", "hgetall"}
      BY <2>1, <2>5 DEF SizeInv
    <2>6. ASSUME NEW g \in Hosts, pc[g] = "hdel", Cardinality(Fields \ drop[g]) <= MaxBlocks
          PROVE  SizeInv'
      <3>1. CASE g = h
        BY <2>1, <2>6, <3>1 DEF SizeInv
      <3>2. CASE g # h
        <4>1. Fields' \ drop'[g] \subseteq Fields \ drop[g]
          BY <2>1
        <4>2. IsFiniteSet(Fields \ drop[g]) /\ Cardinality(Fields \ drop[g]) \in Nat
          BY FieldsFinite
        <4>3. /\ Cardinality(Fields' \ drop'[g]) <= Cardinality(Fields \ drop[g])
              /\ Cardinality(Fields' \ drop'[g]) \in Nat
          BY <4>1, <4>2, FS_Subset, FS_CardinalityType
        <4>4. Cardinality(Fields' \ drop'[g]) <= MaxBlocks
          BY <2>6, <4>2, <4>3, LimitsAssumption
        <4> QED BY <2>1, <2>6, <3>2, <4>4 DEF SizeInv
      <3> QED BY <3>1, <3>2
    <2> QED BY <2>3, <2>4, <2>5, <2>6 DEF SizeInv
  <1>7. ASSUME NEW h \in Hosts, Crash(h) PROVE SizeInv'
    <2>1. CASE pc[h] = "hset"
      BY <1>7, <2>1, <1>a DEF Crash, TypeOK, Fields
    <2>2. CASE pc[h] # "hset"
      BY <1>7, <2>2 DEF Crash, SizeInv
    <2> QED BY <2>1, <2>2
  <1>8. CASE Tick
    <2>1. pc' = pc /\ drop' = drop /\ torn' = torn
      BY <1>8 DEF Tick
    <2>2. CASE hash' = hash
      BY <2>1, <2>2 DEF SizeInv, Fields
    <2>3. CASE hash' = << >>
      <3>1. Fields' = {}
        BY <2>3 DEF Fields
      <3> QED BY <3>1, FS_EmptySet, LimitsAssumption DEF SizeInv
    <2> QED BY <1>8, <2>2, <2>3 DEF Tick
  <1>9. CASE UNCHANGED vars
    BY <1>9 DEF vars, SizeInv, Fields
  <1> QED BY <1>1, <1>2, <1>3, <1>4, <1>5, <1>6, <1>7, <1>8, <1>9 DEF Next

\* However many hosts register and trim at once, the hash ends within its
\* bound, unless a crash kept a host from its trim.
THEOREM SizeSettlesForAll == Spec => []SizeSettles
  <1>1. Init => SizeInv
    <2> SUFFICES ASSUME Init PROVE SizeInv
      OBVIOUS
    <2>1. Fields = {}
      BY DEF Init, Fields
    <2> QED BY <2>1, FS_EmptySet, LimitsAssumption DEF SizeInv
  <1>2. SizeInv => SizeSettles
    BY DEF SizeInv, SizeSettles
  <1> QED BY InitType, StepType, SizeStep, <1>1, <1>2, PTL DEF Spec

-----------------------------------------------------------------------------
(* The size of the hash while hosts are at work *)

\* What a host that is about to delete has not seen when it chose what: after[g]
\* are hosts still at work that registered since g read the hash.  Without
\* their blocks the hash will fit once g has deleted.  Of a host among them
\* that is to delete too, the later registrations are later than g's as well.
Unseen(after) ==
    /\ after \in [Hosts -> SUBSET AtWork]
    /\ \A g \in Hosts : pc[g] = "hdel" =>
          /\ g \notin after[g]
          /\ Cardinality((Fields \ drop[g]) \ Recent(after[g])) <= MaxBlocks
    /\ \A g, u \in Hosts :
          pc[g] = "hdel" /\ pc[u] = "hdel" /\ u \in after[g] => after[u] \subseteq after[g]

ExcessInv == ExcessIsRecent /\ \E after : Unseen(after)

LEMMA Fits ==
    ASSUME TypeOK, NEW S \in SUBSET Fields, Cardinality(S) <= MaxBlocks, NEW T \in SUBSET S
    PROVE  Cardinality(T) <= MaxBlocks
  <1>1. IsFiniteSet(S) /\ Cardinality(S) \in Nat
    BY FieldsFinite
  <1>2. Cardinality(T) <= Cardinality(S) /\ Cardinality(T) \in Nat
    BY <1>1, FS_Subset, FS_CardinalityType
  <1> QED BY <1>1, <1>2, LimitsAssumption

\* Recent depends on the chains of its hosts, and grows with them and with lost.
LEMMA RecentGrows ==
    ASSUME NEW S, NEW T, lost \subseteq lost', S \subseteq T,
           \A h \in S : chain'[h] = chain[h]
    PROVE  Recent(S) \subseteq Recent(T)'
  BY DEF Recent, BlocksOf

\* If the hash fits, nothing more is needed when a host is done.
LEMMA FittingLeave ==
    ASSUME TypeOK, TypeOK', NEW after, Unseen(after), NEW u \in Hosts,
           pc' = [pc EXCEPT ![u] = "idle"], Cardinality(Fields') <= MaxBlocks
    PROVE  ExcessInv'
  <1>1. \A T \in SUBSET Fields' : Cardinality(T) <= MaxBlocks
    <2>1. IsFiniteSet(Fields') /\ Cardinality(Fields') \in Nat
      BY BlocksAssumption, FS_Subset, FS_CardinalityType DEF TypeOK
    <2>2. \A T \in SUBSET Fields' : Cardinality(T) <= Cardinality(Fields') /\ Cardinality(T) \in Nat
      BY <2>1, FS_Subset, FS_CardinalityType
    <2> QED BY <2>1, <2>2, LimitsAssumption
  <1> DEFINE then == [g \in Hosts |-> after[g] \ {u}]
  <1>2. AtWork' = AtWork \ {u}
    BY DEF AtWork, TypeOK
  <1>3. \A g \in Hosts : pc'[g] = "hdel" => pc[g] = "hdel"
    BY DEF TypeOK
  <1>4. Unseen(then)'
    BY <1>1, <1>2, <1>3 DEF Unseen
  <1> QED BY <1>1, <1>4 DEF ExcessInv, ExcessIsRecent

\* A step that takes no host from its work, adds none, and leaves the chains
\* and choices of those at work alone, if the hash does not grow.
LEMMA QuietStep ==
    ASSUME TypeOK, TypeOK', ExcessInv, Fields' \subseteq Fields, lost' = lost,
           AtWork' = AtWork, \A g \in Hosts : pc'[g] = "hdel" <=> pc[g] = "hdel",
           \A g \in AtWork : chain'[g] = chain[g] /\ drop'[g] = drop[g]
    PROVE  ExcessInv'
  <1>1. PICK after : Unseen(after)
    BY DEF ExcessInv
  <1>2. ASSUME NEW S \in SUBSET AtWork PROVE Recent(S) \subseteq Recent(S)'
    BY <1>2, RecentGrows
  <1>3. ExcessIsRecent'
    <2>1. Fields' \ Recent(AtWork)' \subseteq Fields \ Recent(AtWork)
      BY <1>2
    <2>2. Cardinality(Fields' \ Recent(AtWork)') <= MaxBlocks
      BY <2>1, Fits DEF ExcessInv, ExcessIsRecent
    <2> QED BY <2>2 DEF ExcessIsRecent
  <1>4. ASSUME NEW g \in Hosts, pc[g] = "hdel"
        PROVE  Cardinality((Fields' \ drop'[g]) \ Recent(after[g])') <= MaxBlocks
    <2>1. g \in AtWork /\ after[g] \in SUBSET AtWork
      BY <1>1, <1>4 DEF AtWork, Unseen
    <2>2. (Fields' \ drop'[g]) \ Recent(after[g])' \subseteq (Fields \ drop[g]) \ Recent(after[g])
      BY <1>2, <2>1
    <2>3. Cardinality((Fields \ drop[g]) \ Recent(after[g])) <= MaxBlocks
      BY <1>1, <1>4 DEF Unseen
    <2> QED BY <2>2, <2>3, Fits
  <1>5. Unseen(after)'
    BY <1>1, <1>4 DEF Unseen
  <1> QED BY <1>3, <1>5 DEF ExcessInv

LEMMA ExcessStep == TypeOK /\ ExcessInv /\ [Next]_vars => ExcessInv'
  <1> SUFFICES ASSUME TypeOK, ExcessInv, [Next]_vars PROVE ExcessInv'
    OBVIOUS
  <1>0. TypeOK'
    BY StepType
  <1>a. PICK after : Unseen(after)
    BY DEF ExcessInv
  <1>b. Cardinality(Fields \ Recent(AtWork)) <= MaxBlocks
    BY DEF ExcessInv, ExcessIsRecent
  <1>1. ASSUME NEW h \in Hosts, Register(h) PROVE ExcessInv'
    <2>1. /\ Fields' = Fields /\ lost' = lost /\ pc[h] = "idle" /\ pc'[h] = "hset"
          /\ \A u \in Hosts \ {h} : pc'[u] = pc[u] /\ drop'[u] = drop[u] /\ chain'[u] = chain[u]
      BY <1>1 DEF Register, TypeOK, Fields
    <2>2. AtWork' = AtWork /\ h \notin AtWork
      BY <2>1 DEF AtWork
    <2> QED BY <1>0, <2>1, <2>2, QuietStep DEF AtWork
  <1>2. ASSUME NEW h \in Hosts, HSet(h) PROVE ExcessInv'
    <2>1. /\ Fields' = Fields \cup BlocksOf(chain[h]) /\ lost' = lost
          /\ chain' = chain /\ drop' = drop /\ pc[h] = "hset" /\ pc'[h] = "expire"
          /\ \A u \in Hosts \ {h} : pc'[u] = pc[u]
      BY <1>2 DEF HSet, TypeOK, Fields
    <2>2. AtWork' = AtWork \cup {h} /\ h \notin AtWork
      BY <2>1 DEF AtWork
    <2>3. ASSUME NEW S PROVE Recent(S) \cup BlocksOf(chain[h]) = Recent(S \cup {h})'
      BY <2>1 DEF Recent, BlocksOf
    <2>4. ExcessIsRecent'
      <3>1. Fields' \ Recent(AtWork)' \subseteq Fields \ Recent(AtWork)
        BY <2>1, <2>2, <2>3
      <3>2. Cardinality(Fields' \ Recent(AtWork)') <= MaxBlocks
        BY <1>b, <3>1, Fits
      <3> QED BY <3>2 DEF ExcessIsRecent
    <2> DEFINE then == [g \in Hosts |-> after[g] \cup {h}]
    <2>5. ASSUME NEW g \in Hosts, pc[g] = "hdel"
          PROVE  Cardinality((Fields' \ drop'[g]) \ Recent(then[g])') <= MaxBlocks
      <3>1. (Fields' \ drop'[g]) \ Recent(after[g] \cup {h})'
                \subseteq (Fields \ drop[g]) \ Recent(after[g])
        BY <2>1, <2>3
      <3>2. Cardinality((Fields \ drop[g]) \ Recent(after[g])) <= MaxBlocks
        BY <1>a, <2>5 DEF Unseen
      <3>3. Cardinality((Fields' \ drop'[g]) \ Recent(after[g] \cup {h})') <= MaxBlocks
        BY <3>1, <3>2, Fits
      <3> QED BY <3>3
    <2>6. Unseen(then)'
      <3>1. \A g \in Hosts : pc'[g] = "hdel" => pc[g] = "hdel" /\ g # h
        BY <2>1
      <3>2. then \in [Hosts -> SUBSET AtWork']
        BY <1>a, <2>2 DEF Unseen
      <3>3. \A g \in Hosts : pc'[g] = "hdel" => g \notin then[g]
        BY <1>a, <3>1 DEF Unseen
      <3>4. \A g, u \in Hosts : pc'[g] = "hdel" /\ pc'[u] = "hdel" /\ u \in then[g]
                                    => then[u] \subseteq then[g]
        BY <1>a, <3>1 DEF Unseen
      <3> HIDE DEF then
      <3> QED BY <2>5, <3>1, <3>2, <3>3, <3>4 DEF Unseen
    <2> QED BY <2>4, <2>6 DEF ExcessInv
  <1>3. ASSUME NEW h \in Hosts, Expire(h) PROVE ExcessInv'
    <2>1. /\ Fields' = Fields /\ lost' = lost /\ chain' = chain /\ drop' = drop
          /\ pc[h] = "expire" /\ pc'[h] = "hlen" /\ \A u \in Hosts \ {h} : pc'[u] = pc[u]
      BY <1>3 DEF Expire, TypeOK, Fields
    <2>2. AtWork' = AtWork
      BY <2>1 DEF AtWork
    <2> QED BY <1>0, <2>1, <2>2, QuietStep DEF AtWork
  <1>4. ASSUME NEW h \in Hosts, HLen(h) PROVE ExcessInv'
    <2>1. Fields' = Fields /\ chain' = chain /\ drop' = drop /\ pc[h] = "hlen"
      BY <1>4 DEF HLen, Fields
    <2>2. CASE Cardinality(Fields) > MaxBlocks
      <3>1. lost' = lost /\ pc'[h] = "hgetall" /\ \A u \in Hosts \ {h} : pc'[u] = pc[u]
        BY <1>4, <2>2 DEF HLen, TypeOK, Unsettled
      <3>2. AtWork' = AtWork
        BY <2>1, <3>1 DEF AtWork
      <3> QED BY <1>0, <2>1, <3>1, <3>2, QuietStep DEF AtWork
    <2>3. CASE ~(Cardinality(Fields) > MaxBlocks)
      <3>1. pc' = [pc EXCEPT ![h] = "idle"]
        BY <1>4, <2>3 DEF HLen
      <3>2. Cardinality(Fields') <= MaxBlocks
        BY <2>1, <2>3, FieldsFinite, LimitsAssumption
      <3> QED BY <1>0, <1>a, <3>1, <3>2, FittingLeave
    <2> QED BY <2>2, <2>3
  <1>5. ASSUME NEW h \in Hosts, HGetAll(h) PROVE ExcessInv'
    <2>1. PICK gone \in SUBSET Fields :
            /\ Trimmed(h, gone)
            /\ drop' = [drop EXCEPT ![h] = gone]
            /\ pc' = [pc EXCEPT ![h] = IF gone = {} THEN "idle" ELSE "hdel"]
      BY <1>5 DEF HGetAll
    <2>2. /\ Fields' = Fields /\ Cardinality(Fields \ gone) <= MaxBlocks
          /\ chain' = chain /\ lost' = lost /\ pc[h] = "hgetall"
      BY <1>5, <2>1, TrimFits DEF HGetAll, Fields
    <2>3. CASE gone = {}
      <3>1. Fields \ gone = Fields
        BY <2>3
      <3> QED BY <1>0, <1>a, <2>1, <2>2, <2>3, <3>1, FittingLeave
    <2>4. CASE gone # {}
      <3>1. /\ pc'[h] = "hdel" /\ drop'[h] = gone
            /\ \A u \in Hosts \ {h} : pc'[u] = pc[u] /\ drop'[u] = drop[u]
        BY <2>1, <2>4 DEF TypeOK
      <3>2. AtWork' = AtWork
        BY <2>2, <3>1 DEF AtWork
      <3>3. \A S : Recent(S)' = Recent(S)
        BY <2>2 DEF Recent, BlocksOf
      <3>4. ExcessIsRecent'
        BY <1>b, <2>2, <3>2, <3>3 DEF ExcessIsRecent
      <3> DEFINE then == [after EXCEPT ![h] = {}]
      <3>5. after \in [Hosts -> SUBSET AtWork] /\ then[h] = {}
            /\ \A g \in Hosts \ {h} : then[g] = after[g]
        BY <1>a DEF Unseen
      <3>6. then \in [Hosts -> SUBSET AtWork']
        BY <3>2, <3>5
      <3> HIDE DEF then
      <3>7. ASSUME NEW g \in Hosts, pc'[g] = "hdel"
            PROVE  /\ g \notin then[g]
                   /\ Cardinality((Fields' \ drop'[g]) \ Recent(then[g])') <= MaxBlocks
        <4>1. CASE g = h
          <5>1. (Fields' \ drop'[g]) \ Recent(then[g])' \subseteq Fields \ gone
            BY <2>2, <3>1, <4>1
          <5>2. Fields \ gone \in SUBSET Fields
            OBVIOUS
          <5> QED BY <2>2, <3>5, <4>1, <5>1, <5>2, Fits
        <4>2. CASE g # h
          BY <1>a, <2>2, <3>1, <3>3, <3>5, <3>7, <4>2 DEF Unseen
        <4> QED BY <4>1, <4>2
      <3>8. \A g, u \in Hosts : pc'[g] = "hdel" /\ pc'[u] = "hdel" /\ u \in then[g]
                                    => then[u] \subseteq then[g]
        BY <1>a, <3>1, <3>5 DEF Unseen
      <3>9. Unseen(then)'
        BY <3>6, <3>7, <3>8 DEF Unseen
      <3> QED BY <3>4, <3>9 DEF ExcessInv
    <2> QED BY <2>3, <2>4
  <1>6. ASSUME NEW h \in Hosts, HDel(h) PROVE ExcessInv'
    <2>1. /\ Fields' = Fields \ drop[h] /\ chain' = chain /\ drop' = drop
          /\ pc[h] = "hdel" /\ pc' = [pc EXCEPT ![h] = "idle"]
      BY <1>6 DEF HDel, Fields
    <2>2. CASE ~(Cardinality(Fields \ drop[h]) > MaxBlocks)
      <3>1. Cardinality(Fields') <= MaxBlocks
        BY <2>1, <2>2, FieldsFinite, LimitsAssumption
      <3> QED BY <1>0, <1>a, <2>1, <3>1, FittingLeave
    <2>3. CASE Cardinality(Fields \ drop[h]) > MaxBlocks
      <3>1. lost' = lost
        BY <1>6, <2>3 DEF HDel, Unsettled
      <3>2. \A S : Recent(S)' = Recent(S)
        BY <2>1, <3>1 DEF Recent, BlocksOf
      <3>3. /\ AtWork' = AtWork \ {h}
            /\ \A g \in Hosts : pc'[g] = "hdel" => pc[g] = "hdel" /\ g # h
        BY <2>1 DEF AtWork, TypeOK
      <3>4. /\ after \in [Hosts -> SUBSET AtWork] /\ h \notin after[h]
            /\ Cardinality((Fields \ drop[h]) \ Recent(after[h])) <= MaxBlocks
        BY <1>a, <2>1 DEF Unseen
      <3>5. \A S, T : S \subseteq T => Recent(S) \subseteq Recent(T)
        BY DEF Recent
      <3>6. ExcessIsRecent'
        <4>1. after[h] \subseteq AtWork'
          BY <3>3, <3>4
        <4>2. Fields' \ Recent(AtWork)' \subseteq (Fields \ drop[h]) \ Recent(after[h])
          BY <2>1, <3>2, <3>5, <4>1
        <4>3. (Fields \ drop[h]) \ Recent(after[h]) \in SUBSET Fields
          OBVIOUS
        <4>4. Cardinality(Fields' \ Recent(AtWork)') <= MaxBlocks
          BY <3>4, <4>2, <4>3, Fits
        <4> QED BY <4>4 DEF ExcessIsRecent
      <3> DEFINE then == [g \in Hosts |-> after[g] \ {h}]
      <3>7. ASSUME NEW g \in Hosts, pc[g] = "hdel", g # h
            PROVE  Cardinality((Fields' \ drop'[g]) \ Recent(then[g])') <= MaxBlocks
        <4>0. then[g] = after[g] \ {h}
          OBVIOUS
        <4> HIDE DEF then
        <4>1. CASE h \in after[g]
          <5>1. after[h] \subseteq then[g]
            BY <1>a, <2>1, <3>4, <3>7, <4>0, <4>1 DEF Unseen
          <5>2. (Fields' \ drop'[g]) \ Recent(then[g])' \subseteq (Fields \ drop[h]) \ Recent(after[h])
            BY <2>1, <3>2, <3>5, <5>1
          <5>3. (Fields \ drop[h]) \ Recent(after[h]) \in SUBSET Fields
            OBVIOUS
          <5> QED BY <3>4, <5>2, <5>3, Fits
        <4>2. CASE h \notin after[g]
          <5>1. then[g] = after[g]
            BY <4>0, <4>2
          <5>2. (Fields' \ drop'[g]) \ Recent(then[g])' \subseteq (Fields \ drop[g]) \ Recent(after[g])
            BY <2>1, <3>2, <5>1
          <5>3. /\ (Fields \ drop[g]) \ Recent(after[g]) \in SUBSET Fields
                /\ Cardinality((Fields \ drop[g]) \ Recent(after[g])) <= MaxBlocks
            BY <1>a, <3>7 DEF Unseen
          <5> QED BY <5>2, <5>3, Fits
        <4> QED BY <4>1, <4>2
      <3>8. then \in [Hosts -> SUBSET AtWork']
        BY <3>3, <3>4
      <3>9. \A g \in Hosts : pc'[g] = "hdel" => g \notin then[g]
        BY <1>a, <3>3 DEF Unseen
      <3>10. \A g, u \in Hosts : pc'[g] = "hdel" /\ pc'[u] = "hdel" /\ u \in then[g]
                                     => then[u] \subseteq then[g]
        BY <1>a, <3>3 DEF Unseen
      <3> HIDE DEF then
      <3>11. Unseen(then)'
        BY <3>3, <3>7, <3>8, <3>9, <3>10 DEF Unseen
      <3> QED BY <3>6, <3>11 DEF ExcessInv
    <2> QED BY <2>2, <2>3
  <1>7. ASSUME NEW h \in Hosts, Crash(h) PROVE ExcessInv'
    <2>1. /\ Fields' = Fields /\ chain' = chain /\ drop' = drop
          /\ pc' = [pc EXCEPT ![h] = "idle"]
      BY <1>7 DEF Crash, Fields
    <2>2. CASE pc[h] = "hset"
      <3>1. lost' = lost /\ pc'[h] = "idle" /\ \A u \in Hosts \ {h} : pc'[u] = pc[u]
        BY <1>7, <2>1, <2>2 DEF Crash, TypeOK
      <3>2. AtWork' = AtWork
        BY <2>2, <3>1 DEF AtWork
      <3> QED BY <1>0, <2>1, <2>2, <3>1, <3>2, QuietStep DEF AtWork
    <2>3. CASE pc[h] # "hset"
      <3>1. lost' = lost \cup BlocksOf(chain[h])
        BY <1>7, <2>3 DEF Crash
      <3>2. ASSUME NEW S PROVE Recent(S) \subseteq Recent(S \ {h})'
        BY <2>1, <3>1 DEF Recent, BlocksOf
      <3>3. /\ AtWork' = AtWork \ {h}
            /\ \A g \in Hosts : pc'[g] = "hdel" => pc[g] = "hdel" /\ g # h
        BY <2>1 DEF AtWork, TypeOK
      <3>4. ExcessIsRecent'
        <4>1. Fields' \ Recent(AtWork)' \subseteq Fields \ Recent(AtWork)
          BY <2>1, <3>2, <3>3
        <4>2. Cardinality(Fields' \ Recent(AtWork)') <= MaxBlocks
          BY <1>b, <4>1, Fits
        <4> QED BY <4>2 DEF ExcessIsRecent
      <3> DEFINE then == [g \in Hosts |-> after[g] \ {h}]
      <3>5. ASSUME NEW g \in Hosts, pc[g] = "hdel"
            PROVE  Cardinality((Fields' \ drop'[g]) \ Recent(then[g])') <= MaxBlocks
        <4>1. (Fields' \ drop'[g]) \ Recent(after[g] \ {h})'
                  \subseteq (Fields \ drop[g]) \ Recent(after[g])
          BY <2>1, <3>2
        <4>2. Cardinality((Fields \ drop[g]) \ Recent(after[g])) <= MaxBlocks
          BY <1>a, <3>5 DEF Unseen
        <4>3. Cardinality((Fields' \ drop'[g]) \ Recent(after[g] \ {h})') <= MaxBlocks
          BY <4>1, <4>2, Fits
        <4> QED BY <4>3
      <3>6. then \in [Hosts -> SUBSET AtWork']
        BY <1>a, <3>3 DEF Unseen
      <3>7. \A g \in Hosts : pc'[g] = "hdel" => g \notin then[g]
        BY <1>a, <3>3 DEF Unseen
      <3>8. \A g, u \in Hosts : pc'[g] = "hdel" /\ pc'[u] = "hdel" /\ u \in then[g]
                                    => then[u] \subseteq then[g]
        BY <1>a, <3>3 DEF Unseen
      <3> HIDE DEF then
      <3>9. Unseen(then)'
        BY <3>3, <3>5, <3>6, <3>7, <3>8 DEF Unseen
      <3> QED BY <3>4, <3>9 DEF ExcessInv
    <2> QED BY <2>2, <2>3
  <1>8. CASE Tick
    <2>1. /\ pc' = pc /\ chain' = chain /\ drop' = drop /\ lost' = lost
          /\ Fields' \subseteq Fields
      BY <1>8 DEF Tick, Fields
    <2> QED BY <1>0, <2>1, QuietStep DEF AtWork
  <1>9. CASE UNCHANGED vars
    <2>1. /\ pc' = pc /\ chain' = chain /\ drop' = drop /\ lost' = lost
          /\ Fields' = Fields
      BY <1>9 DEF vars, Fields
    <2> QED BY <1>0, <2>1, QuietStep DEF AtWork
  <1> QED BY <1>1, <1>2, <1>3, <1>4, <1>5, <1>6, <1>7, <1>8, <1>9 DEF Next

\* At every moment the hash exceeds its bound by no more than the blocks of the
\* chains now being registered, and of those whose trim a crash has lost.
THEOREM ExcessIsRecentForAll == Spec => []ExcessIsRecent
  <1>1. Init => ExcessInv
    <2> SUFFICES ASSUME Init PROVE ExcessInv
      OBVIOUS
    <2>1. Fields = {} /\ \A h \in Hosts : pc[h] = "idle"
      BY DEF Init, Fields
    <2>2. \A S : Cardinality({} \ S) = 0
      BY FS_EmptySet
    <2>3. ExcessIsRecent
      BY <2>1, <2>2, LimitsAssumption DEF ExcessIsRecent
    <2>4. Unseen([h \in Hosts |-> {}])
      BY <2>1 DEF Unseen
    <2> QED BY <2>3, <2>4 DEF ExcessInv
  <1>2. ExcessInv => ExcessIsRecent
    BY DEF ExcessInv
  <1> QED BY InitType, StepType, ExcessStep, <1>1, <1>2, PTL DEF Spec

-----------------------------------------------------------------------------
(* The expiry of the key *)

\* Stamps lie in the past, and outside a pipeline the key outlives them.
LifeInv ==
    /\ KeyOutlivesFields
    /\ \A b \in Fields : hash[b] <= clock
    /\ \A h \in Hosts : pc[h] = "hset" => now[h] <= clock

LEMMA LifeStep ==
    ASSUME \A h \in Hosts : Skew[h] <= 0
    PROVE  TypeOK /\ LifeInv /\ [Next]_vars => LifeInv'
  <1> SUFFICES ASSUME TypeOK, LifeInv, [Next]_vars PROVE LifeInv'
    OBVIOUS
  <1> USE DEF LifeInv, KeyOutlivesFields
  <1>0. TypeOK'
    BY StepType
  <1>1. ASSUME NEW h \in Hosts, Register(h) PROVE LifeInv'
    <2>1. TimeAt(h) <= clock
      BY SkewAssumption DEF TimeAt, TypeOK
    <2> QED BY <1>1, <2>1 DEF Register, TypeOK, Fields
  <1>2. ASSUME NEW h \in Hosts, HSet(h) PROVE LifeInv'
    <2>1. \A b \in Fields' : hash'[b] <= clock
      BY <1>2 DEF HSet, Fields
    <2>2. pc'[h] = "expire" /\ \A u \in Hosts \ {h} : pc'[u] = pc[u]
      BY <1>2 DEF HSet, TypeOK
    <2> QED BY <1>2, <2>1, <2>2 DEF HSet
  <1>3. ASSUME NEW h \in Hosts, Expire(h) PROVE LifeInv'
    <2>1. hash' = hash /\ clock' = clock /\ now' = now
          /\ \A u \in Hosts : pc'[u] = "hset" => pc[u] = "hset"
      BY <1>3 DEF Expire, TypeOK
    <2>2. ASSUME NEW b \in Fields PROVE life' > TTL - (clock - hash[b])
      <3>1. life' = TTL + 1
        BY <1>3 DEF Expire
      <3>2. hash[b] <= clock /\ hash[b] \in Int /\ clock \in Int
        BY DEF TypeOK
      <3> QED BY <3>1, <3>2, LimitsAssumption
    <2> QED BY <2>1, <2>2 DEF Fields
  <1>4. ASSUME NEW h \in Hosts, HLen(h) \/ HGetAll(h) \/ Crash(h) PROVE LifeInv'
    <2>1. /\ hash' = hash /\ clock' = clock /\ now' = now /\ life' = life
          /\ \A u \in Hosts : pc'[u] = "hset" => pc[u] = "hset"
          /\ \A u \in Hosts : pc[u] = "expire" => pc'[u] = "expire"
      BY <1>4 DEF HLen, HGetAll, Crash, TypeOK
    <2> QED BY <2>1 DEF Fields
  <1>5. ASSUME NEW h \in Hosts, HDel(h) PROVE LifeInv'
    <2>1. /\ Fields' = Fields \ drop[h] /\ clock' = clock /\ now' = now
          /\ \A b \in Fields' : hash'[b] = hash[b]
          /\ \A u \in Hosts : pc'[u] = "hset" => pc[u] = "hset"
          /\ \A u \in Hosts : pc[u] = "expire" => pc'[u] = "expire"
      BY <1>5 DEF HDel, TypeOK, Fields
    <2>2. Fields' # {} => life' = life
      BY <1>5, <2>1 DEF HDel
    <2> QED BY <2>1, <2>2
  <1>6. CASE Tick
    <2>1. /\ clock' = clock + 1 /\ pc' = pc /\ now' = now
          /\ clock \in Int /\ life \in Int
          /\ \A h \in Hosts : now[h] \in Int
          /\ \A h \in Hosts : pc[h] # "expire"
      BY <1>6, LimitsAssumption DEF Tick, TypeOK
    <2>2. CASE life = 1
      <3>1. Fields' = {}
        BY <1>6, <2>2 DEF Tick, Fields
      <3> QED BY <2>1, <3>1
    <2>3. CASE life # 1
      <3>1. hash' = hash /\ Fields' = Fields /\ life' >= life - 1 /\ life' \in Int
        BY <1>6, <2>1, <2>3 DEF Tick, Fields, TypeOK
      <3>2. ASSUME NEW b \in Fields'
            PROVE  hash'[b] <= clock' /\ life' > TTL - (clock' - hash'[b])
        <4>1. /\ hash'[b] \in Int /\ hash'[b] <= clock
              /\ life > TTL - (clock - hash'[b])
          BY <2>1, <3>1 DEF TypeOK
        <4> HIDE DEF LifeInv, KeyOutlivesFields
        <4> QED BY <2>1, <3>1, <4>1, LimitsAssumption
      <3>3. \A h \in Hosts : pc'[h] = "hset" => now'[h] <= clock'
        BY <2>1
      <3> HIDE DEF LifeInv, KeyOutlivesFields
      <3>4. KeyOutlivesFields'
        BY <3>2 DEF KeyOutlivesFields
      <3> QED BY <3>2, <3>3, <3>4 DEF LifeInv
    <2> QED BY <2>2, <2>3
  <1>7. CASE UNCHANGED vars
    BY <1>7 DEF vars, Fields
  <1> QED BY <1>1, <1>2, <1>3, <1>4, <1>5, <1>6, <1>7 DEF Next

\* As long as no host's clock runs ahead, Redis never expires the key of a
\* replica while a block in it is fresh.
THEOREM KeyOutlivesFieldsForAll ==
    ASSUME \A h \in Hosts : Skew[h] <= 0
    PROVE  Spec => []KeyOutlivesFields
  <1>1. Init => LifeInv
    BY DEF Init, LifeInv, KeyOutlivesFields, Fields
  <1>2. LifeInv => KeyOutlivesFields
    BY DEF LifeInv
  <1> QED BY InitType, StepType, LifeStep, <1>1, <1>2, PTL DEF Spec
=============================================================================
