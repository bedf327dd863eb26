---------------------------- MODULE PrefixRouting ----------------------------
(***************************************************************************)
(* Router.pick inside one gateway, for one model: the configured strategy, *)
(* or prefix-aware routing over the in-memory affinity index               *)
(* (routing/affinity.py), whose cold path falls back on a strategy.        *)
(*                                                                         *)
(* A pick is one step: it awaits nothing, and on_start follows it at once. *)
(* The pool is what the failover loop and the breaker leave of the         *)
(* deployments (module Gateway), here any non-empty set.                   *)
(*                                                                         *)
(* A request's chain is its routing key, from module Keying: a block's     *)
(* hash covers the blocks before it, so it stands for a prompt prefix.     *)
(***************************************************************************)
EXTENDS Keying, Strategies

CONSTANTS
    Configurations,  \* the settings: strategy, coldFallback and deployments
    Requests,      \* the prompts, as Keying has them
    TTL,           \* affinity_ttl_s, in ticks (0 or less would turn expiry off)
    MaxBlocks,     \* max_blocks_per_replica
    WeightPrefix,  \* weight_prefix and weight_load, to one scale
    WeightLoad,
    MaxSkew,       \* max_inflight_skew
    Cycle,         \* bound: the counter is kept modulo this
    Samples,       \* the latencies an answer may have
    MaxLoad        \* bound: calls in flight on each replica

BlocksOf(c) == {c[i] : i \in DOMAIN c}

Text == [q \in Requests |-> Units(q)]
Chain == [q \in Requests |-> RoutingKey(q)]
Chains == {Chain[q] : q \in Requests}
Blocks == UNION {BlocksOf(c) : c \in Chains}

ASSUME RequestsAssumption ==
    \A q \in Requests :
        /\ q \in Seq(BlocksOf(q))
        /\ \A i \in DOMAIN q : q[i].content \in Seq(BlocksOf(q[i].content))
ASSUME LimitsAssumption == TTL \in Nat \ {0} /\ MaxBlocks \in Nat \ {0} /\ MaxLoad \in Nat
ASSUME WeightsAssumption == WeightPrefix \in Nat \ {0} /\ WeightLoad \in Nat /\ MaxSkew \in Nat
\* The counter is only used modulo the length of a list of deployments.
ASSUME CycleAssumption ==
    Cycle \in Nat \ {0} /\ \A n \in 1..Cardinality(Replicas) : Cycle % n = 0
ASSUME SamplesAssumption == Samples \subseteq Nat \ {0}
ASSUME ConfigurationsAssumption ==
    \A c \in Configurations :
        /\ c.deployments \subseteq Replicas
        /\ c.strategy \in {"round_robin", "weighted", "latency", "least_busy", "cost",
                           "prefix_kv_aware"}

VARIABLES
    config,    \* one of Configurations, for good
    counter,   \* _rr_counter, kept where the configuration reads it
    ewma,      \* ewma_latency_ms, kept where the configuration reads it; 0 before an answer
    seen,      \* _seen: the blocks of each replica, least recently used first
    age,       \* ticks since each block was registered, up to TTL + 1
    inFlight,  \* in_flight of each deployment
    served,    \* history: the requests it was picked for that left a block in its index
    turns,     \* history, with round_robin: the last pool, and how often each of it was
               \* picked since the pool last changed, less the full rounds
    answered   \* history: the deployments that have answered, while ewma is kept

index == <<seen, age, served>>
latency == <<ewma, answered>>
vars == <<config, counter, turns, latency, inFlight, index>>

Ages == 0..(TTL + 1)

Warm(r, b) == b \in BlocksOf(seen[r]) /\ age[r][b] <= TTL

\* matched_blocks: the length of the leading run of chain c that r holds.
Matched(r, c) == Cardinality({n \in DOMAIN c : \A i \in 1..n : Warm(r, c[i])})

\* Mutant: a busy replica is preferred.
ScoreForLoad(r, c) == WeightPrefix * Matched(r, c) + WeightLoad * inFlight[r]

Score(r, c) == WeightPrefix * Matched(r, c) - WeightLoad * inFlight[r]

\* The load guard.
Eligible(pool) == {r \in pool : \A q \in pool : inFlight[r] <= inFlight[q] + MaxSkew}

IsPrefixAware == config.strategy = "prefix_kv_aware"
Reads(strategies) ==
    (IF IsPrefixAware THEN config.coldFallback ELSE config.strategy) \in strategies

\* Mutant: the counter is advanced by two.
CountedTwice ==
    counter' = IF Reads({"round_robin", "weighted"}) THEN (counter + 2) % Cycle ELSE counter

\* The counter is advanced.
Counted ==
    counter' = IF Reads({"round_robin", "weighted"}) THEN (counter + 1) % Cycle ELSE counter

-----------------------------------------------------------------------------
(* The index *)

\* Mutant: a known block is not moved to the end.
RefreshedInPlace(r, c) ==
    SelectSeq(seen[r], LAMBDA b : b \in BlocksOf(c) \/ age[r][b] <= TTL)
        \o SelectSeq(c, LAMBDA b : b \notin BlocksOf(seen[r]))

\* The blocks of c are moved to the end, or appended there, and the expired
\* ones evicted.
Refreshed(r, c) ==
    AtPlaces(seen[r], {i \in DOMAIN seen[r] :
        seen[r][i] \notin BlocksOf(c) /\ age[r][seen[r][i]] <= TTL}) \o c

\* Mutant: one block too many is kept.
EvictedLate(s) ==
    IF Len(s) > MaxBlocks + 1 THEN SubSeq(s, Len(s) - MaxBlocks, Len(s)) ELSE s

\* Mutant: the blocks in excess are taken from the wrong end.
NewestEvicted(s) == IF Len(s) > MaxBlocks THEN SubSeq(s, 1, MaxBlocks) ELSE s

\* Then the least recently used ones in excess of the cap.
Evicted(s) == IF Len(s) > MaxBlocks THEN SubSeq(s, Len(s) - MaxBlocks + 1, Len(s)) ELSE s

\* Mutant: known blocks of the chain keep their age and their place.
RegisterNew(r, c) ==
    LET new == SelectSeq(c, LAMBDA b : ~Warm(r, b))
        kept == Evicted(Refreshed(r, new))
    IN  /\ seen' = [seen EXCEPT ![r] = kept]
        /\ age' = [age EXCEPT ![r] = [b \in Blocks |->
                      IF b \notin BlocksOf(kept) THEN TTL + 1
                      ELSE IF b \in BlocksOf(new) THEN 0 ELSE @[b]]]

\* register.  A block that is not indexed has no age: TTL + 1 stands for it.
Register(r, c) ==
    LET kept == Evicted(Refreshed(r, c))
    IN  /\ seen' = [seen EXCEPT ![r] = kept]
        /\ age' = [age EXCEPT ![r] = [b \in Blocks |->
                      IF b \notin BlocksOf(kept) THEN TTL + 1
                      ELSE IF b \in BlocksOf(c) THEN 0 ELSE @[b]]]

-----------------------------------------------------------------------------

Init ==
    /\ config \in Configurations
    /\ counter = 0
    /\ ewma = [r \in Replicas |-> 0]
    /\ seen = [r \in Replicas |-> << >>]
    /\ age = [r \in Replicas |-> [b \in Blocks |-> TTL + 1]]
    /\ inFlight = [r \in Replicas |-> 0]
    /\ served = [r \in Replicas |-> {}]
    /\ turns = [pool |-> {}, of |-> [r \in Replicas |-> 0]]
    /\ answered = {}

\* A replica is chosen, and on_start called on it.
Start(r) ==
    /\ inFlight' = [inFlight EXCEPT ![r] = @ + 1]
    /\ UNCHANGED <<config, latency>>

\* pick, with a strategy of its own.
PickPlain(pool, r) ==
    /\ ~IsPrefixAware
    /\ r \in Selected(config.strategy, pool,
                      IF Reads({"round_robin"}) THEN counter ELSE 0, inFlight, ewma)
    /\ IF Reads({"round_robin"})
       THEN LET of == IF pool = turns.pool THEN [turns.of EXCEPT ![r] = @ + 1]
                      ELSE [s \in Replicas |-> IF s = r THEN 1 ELSE 0]
                rounds == IF \A s \in pool : of[s] > 0 THEN 1 ELSE 0
            IN  /\ Counted
                /\ turns' = [pool |-> pool,
                             of |-> [s \in Replicas |-> IF s \in pool THEN of[s] - rounds ELSE 0]]
       ELSE UNCHANGED <<counter, turns>>
    /\ Start(r)
    /\ UNCHANGED index

\* The eligible replica with the best score for the chain c, the first of them.
Best(pool, c) == Least(Eligible(pool), [r \in Replicas |-> -Score(r, c)])

\* A replica is chosen for the request q by the affinity index.
Choose(r, q) ==
    /\ Register(r, Chain[q])
    /\ served' = [served EXCEPT ![r] =
                     {p \in @ \cup {q} : BlocksOf(Chain[p]) \cap BlocksOf(seen'[r]) # {}}]
    /\ Start(r)
    /\ UNCHANGED turns

PickWarm(pool, q, r) ==
    /\ IsPrefixAware
    /\ r \in Best(pool, Chain[q])
    /\ Matched(r, Chain[q]) > 0
    /\ Choose(r, q)
    /\ UNCHANGED counter

\* The cold path: the best score is one of a replica that matches nothing.
PickCold(pool, q, r) ==
    /\ IsPrefixAware
    /\ \E best \in Best(pool, Chain[q]) : Matched(best, Chain[q]) = 0
    /\ r \in Selected(config.coldFallback, Eligible(pool), counter, inFlight, ewma)
    /\ Choose(r, q)
    /\ Counted

\* Mutant: a call that has ended may end again.
BusyOrNot == Replicas

Busy == {r \in Replicas : inFlight[r] > 0}

\* The moving average of old after a sample: somewhere between them.
Averaged(old, sample) ==
    IF old = 0 THEN {sample}
    ELSE IF old <= sample THEN old..sample ELSE sample..old

\* on_success, with the latency measured.
Answer(r, sample) ==
    /\ r \in Busy
    /\ inFlight' = [inFlight EXCEPT ![r] = @ - 1]
    /\ IF Reads({"latency"})
       THEN /\ \E mean \in Averaged(ewma[r], sample) : ewma' = [ewma EXCEPT ![r] = mean]
            /\ answered' = answered \cup {r}
       ELSE UNCHANGED latency
    /\ UNCHANGED <<config, counter, turns, index>>

\* on_failure.
Fail(r) ==
    /\ r \in Busy
    /\ inFlight' = [inFlight EXCEPT ![r] = @ - 1]
    /\ UNCHANGED <<config, counter, turns, latency, index>>

Tick ==
    /\ age' = [r \in Replicas |-> [b \in Blocks |->
                   IF age[r][b] > TTL THEN TTL + 1 ELSE age[r][b] + 1]]
    /\ UNCHANGED <<config, counter, turns, latency, inFlight, seen, served>>

Pick(pool, q, r) == PickPlain(pool, r) \/ PickWarm(pool, q, r) \/ PickCold(pool, q, r)

Next ==
    \/ \E pool \in SUBSET config.deployments \ {{}}, q \in Requests, r \in config.deployments :
          /\ \A s \in Replicas : inFlight[s] < MaxLoad
          /\ Pick(pool, q, r)
    \/ \E r \in Replicas : (\E sample \in Samples : Answer(r, sample)) \/ Fail(r)
    \/ Tick

Spec == Init /\ [][Next]_vars

-----------------------------------------------------------------------------
(* Properties *)

\* Every variable has its type.
TypeOK ==
    /\ seen \in [Replicas -> Seq(Blocks)]
    /\ age \in [Replicas -> [Blocks -> Ages]]
    /\ inFlight \in [Replicas -> 0..MaxLoad]
    /\ served \in [Replicas -> SUBSET Requests]
    /\ config \in Configurations /\ counter \in 0..(Cycle - 1)
    /\ ewma \in [Replicas -> Nat] /\ answered \subseteq Replicas
    /\ turns \in [pool : SUBSET Replicas, of : [Replicas -> Nat]]

\* The index of a replica holds each block once and keeps to its cap, however
\* chains overlap (affinity.py:60-70).
IndexBounded ==
    \A r \in Replicas :
        /\ Len(seen[r]) <= MaxBlocks
        /\ Cardinality(BlocksOf(seen[r])) = Len(seen[r])

\* A prefix is never older than what extends it, and never further from being
\* evicted: the blocks of a chain expire from its end, so a fresh block is
\* counted by matched_blocks unless the cap has cut its chain.
PrefixIsFresher ==
    \A r \in Replicas : \A c \in Chains : \A i \in DOMAIN c \ {1} :
        c[i - 1] \in BlocksOf(seen[r]) => age[r][c[i - 1]] <= age[r][c[i]]

\* The blocks are kept in the order of their ages: what the cap evicts
\* (affinity.py:70) is never fresher than what it keeps.
OldestFirst ==
    \A r \in Replicas : \A i, j \in DOMAIN seen[r] :
        i < j => age[r][seen[r][j]] <= age[r][seen[r][i]]

\* Whatever the index held before, a prompt is warm from end to end on the
\* replica picked for it, by warmth or cold (router.py:152-153); or, when it is
\* longer than the cap, not warm at all: the cap takes its first block first.
PickedIsWarm ==
    [][\A r \in Replicas : inFlight'[r] > inFlight[r] /\ IsPrefixAware =>
          \A pool \in SUBSET config.deployments, q \in Requests :
              PickWarm(pool, q, r) \/ PickCold(pool, q, r) =>
                  Matched(r, Chain[q])' =
                      IF Len(Chain[q]) <= MaxBlocks THEN Len(Chain[q]) ELSE 0]_vars

\* A match is never false: whatever was evicted, expired and registered since,
\* a replica that matches n blocks of a prompt was picked for a prompt with the
\* same units up to there, images included (keying.py:8, 72).
MatchIsReal ==
    \A r \in Replicas : \A q \in Requests :
        LET whole == Matched(r, Chain[q]) * Step
            n == IF whole < Len(Text[q]) THEN whole ELSE Len(Text[q])
        IN  n > 0 => \E p \in served[r] :
                Len(Text[p]) >= n /\ SubSeq(Text[p], 1, n) = SubSeq(Text[q], 1, n)

\* With least_busy as the cold fallback, only load makes a pick give up warmth:
\* an eligible replica that holds more of the prompt than the chosen one is
\* busier than it.  It is so on the cold path too, which is taken while some
\* replica is warm (router.py:142).
WarmthYieldsToLoad ==
    [][\A r \in Replicas : inFlight'[r] > inFlight[r] /\ config.coldFallback = "least_busy" =>
          \A pool \in SUBSET config.deployments, q \in Requests : \A s \in Eligible(pool) :
              /\ Matched(s, Chain[q]) > Matched(r, Chain[q])
              /\ inFlight[s] <= inFlight[r]
              => ~PickWarm(pool, q, r) /\ ~PickCold(pool, q, r)]_vars

\* round_robin shares the picks of a pool evenly for as long as the pool stays
\* what it is, wherever the shared counter stood when it became so
\* (router.py:107-109): failovers and other pools have moved it before.
RotationIsEven ==
    \A r, q \in turns.pool : turns.of[r] <= turns.of[q] + 1

\* latency takes no deployment that has answered while another of the pool has
\* not, however calls overlap and fail (strategies.py:29-30).
EveryoneIsTried ==
    [][\A r \in answered : inFlight'[r] > inFlight[r] /\ config.strategy = "latency" =>
          \A pool \in SUBSET config.deployments :
              r \in pool /\ ~(pool \subseteq answered) => ~PickPlain(pool, r)]_vars
=============================================================================
