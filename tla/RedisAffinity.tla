---------------------------- MODULE RedisAffinity ----------------------------
(***************************************************************************)
(* The prefix-affinity index that gateway replicas share through Redis     *)
(* (routing/affinity_redis.py): the hash of one backend replica, and the   *)
(* commands that Router._pick_prefix_aware makes hosts send to it.         *)
(*                                                                         *)
(* Redis runs one command at a time.  The pipeline of `register` is not a  *)
(* transaction, and the trim that may follow is two more commands, so      *)
(* commands of other hosts come in between.  A host runs one pick at a     *)
(* time: the client is synchronous and blocks the host's event loop.       *)
(*                                                                         *)
(* A block is a member of Blocks; a chain is a sequence of blocks, each    *)
(* standing for the prompt prefix that ends in it (routing/keying.py).     *)
(* External: Redis itself, as these commands use it.                       *)
(***************************************************************************)
EXTENDS Integers, FiniteSets, Sequences

CONSTANTS
    Hosts,      \* gateway replicas
    Blocks,     \* block hashes
    Chains,     \* the requests' chains
    TTL,        \* affinity_ttl_s, in ticks (0 or less would turn expiry off)
    MaxBlocks,  \* max_blocks_per_replica
    Skew,       \* how far each host's clock is ahead of the reference clock
    Crashes,    \* whether hosts may crash, or lose Redis, during a pick
    MaxTime     \* bound: the reference clock

ASSUME BlocksAssumption == IsFiniteSet(Blocks)
ASSUME ChainsAssumption == Chains \subseteq Seq(Blocks)
ASSUME LimitsAssumption == TTL \in Nat \ {0} /\ MaxBlocks \in Nat \ {0} /\ MaxTime \in Nat
ASSUME SkewAssumption == Skew \in [Hosts -> Int]
ASSUME CrashesAssumption == Crashes \in BOOLEAN

VARIABLES
    hash,     \* the Redis hash: a function from its fields to their stamps
    life,     \* ticks until Redis expires the key (0: none is set)
    clock,    \* the reference clock
    pc,       \* the command each host sends next
    chain,    \* the chain it registers
    now,      \* the time it read when its pick began
    drop,     \* the fields its trim has chosen to delete
    torn,     \* a trim was lost to a crash since a host last asked for the size
    lost      \* the blocks whose trim was lost, since the hash last fitted

vars == <<hash, life, clock, pc, chain, now, drop, torn, lost>>

PCs == {"idle", "hset", "expire", "hlen", "hgetall", "hdel"}
Fields == DOMAIN hash
BlocksOf(c) == {c[i] : i \in DOMAIN c}

\* The trims that were lost no longer matter once the hash fits.
Unsettled(blocks, fields) == IF Cardinality(fields) > MaxBlocks THEN blocks ELSE {}

\* _fresh, for a host that reads the time n.
Fresh(b, n) == n - hash[b] <= TTL

\* Router._pick_prefix_aware reads time.monotonic(), which every machine
\* counts from a start of its own, and hands it to matched_blocks and register.
TimeAt(h) == clock + Skew[h]

\* matched_blocks: the length of the leading run of chain c that host h finds
\* indexed and fresh.
Matched(h, c) ==
    LET warm(i) == c[i] \in Fields /\ Fresh(c[i], TimeAt(h))
        runs == {n \in 0..Len(c) : \A i \in 1..n : warm(i)}
    IN  CHOOSE n \in runs : \A m \in runs : m <= n

-----------------------------------------------------------------------------

Init ==
    /\ hash = << >>     \* the function without fields
    /\ life = 0
    /\ clock = 0
    /\ pc = [h \in Hosts |-> "idle"]
    /\ chain = [h \in Hosts |-> << >>]
    /\ now = [h \in Hosts |-> 0]
    /\ drop = [h \in Hosts |-> {}]
    /\ torn = FALSE
    /\ lost = {}

\* A pick has read the index (Matched) and chosen this replica; register
\* returns at once for an empty chain.
Register(h) ==
    /\ pc[h] = "idle"
    /\ \E c \in Chains :
          /\ c # << >>
          /\ chain' = [chain EXCEPT ![h] = c]
    /\ now' = [now EXCEPT ![h] = TimeAt(h)]
    /\ drop' = [drop EXCEPT ![h] = {}]
    /\ pc' = [pc EXCEPT ![h] = "hset"]
    /\ UNCHANGED <<hash, life, clock, torn, lost>>

HSet(h) ==
    /\ pc[h] = "hset"
    /\ hash' = [b \in Fields \cup BlocksOf(chain[h]) |->
                    IF b \in BlocksOf(chain[h]) THEN now[h] ELSE hash[b]]
    /\ pc' = [pc EXCEPT ![h] = "expire"]
    /\ UNCHANGED <<life, clock, chain, now, drop, torn, lost>>

\* Mutant: the key lives as long as a fresh field, not one tick longer.
ExpireAtTTL(h) ==
    /\ pc[h] = "expire"
    /\ life' = IF Fields = {} THEN life ELSE TTL
    /\ pc' = [pc EXCEPT ![h] = "hlen"]
    /\ UNCHANGED <<hash, clock, chain, now, drop, torn, lost>>

\* Mutant: each registration adds to the life of the key.
ExpireAdds(h) ==
    /\ pc[h] = "expire"
    /\ life' = IF Fields = {} THEN life ELSE life + TTL + 1
    /\ pc' = [pc EXCEPT ![h] = "hlen"]
    /\ UNCHANGED <<hash, clock, chain, now, drop, torn, lost>>

\* EXPIRE does nothing to a key that is gone.
Expire(h) ==
    /\ pc[h] = "expire"
    /\ life' = IF Fields = {} THEN life ELSE TTL + 1
    /\ pc' = [pc EXCEPT ![h] = "hlen"]
    /\ UNCHANGED <<hash, clock, chain, now, drop, torn, lost>>

\* Mutant: one field too many is let through.
HLenTooHigh(h) ==
    /\ pc[h] = "hlen"
    /\ pc' = [pc EXCEPT ![h] = IF Cardinality(Fields) > MaxBlocks + 1 THEN "hgetall" ELSE "idle"]
    /\ torn' = FALSE
    /\ lost' = Unsettled(lost, Fields)
    /\ UNCHANGED <<hash, life, clock, chain, now, drop>>

\* The last reply of the pipeline tells whether to trim.
HLen(h) ==
    /\ pc[h] = "hlen"
    /\ pc' = [pc EXCEPT ![h] = IF Cardinality(Fields) > MaxBlocks THEN "hgetall" ELSE "idle"]
    /\ torn' = FALSE
    /\ lost' = Unsettled(lost, Fields)
    /\ UNCHANGED <<hash, life, clock, chain, now, drop>>

\* Mutant: a trim deletes what has expired and nothing more.
TrimsExpired(h, gone) == gone = {b \in Fields : ~Fresh(b, now[h])}

\* What _trim deletes: every field that is not fresh, and the oldest fresh
\* ones in excess of the maximum.  Fields with one stamp come in any order.
Trimmed(h, gone) ==
    LET live == {b \in Fields : Fresh(b, now[h])}
        old == gone \cap live
    IN  /\ Fields \ live \subseteq gone
        /\ Cardinality(old) = IF Cardinality(live) > MaxBlocks
                              THEN Cardinality(live) - MaxBlocks ELSE 0
        /\ \A b \in old, u \in live \ old : hash[b] <= hash[u]

HGetAll(h) ==
    /\ pc[h] = "hgetall"
    /\ \E gone \in SUBSET Fields :
          /\ Trimmed(h, gone)
          /\ drop' = [drop EXCEPT ![h] = gone]
          /\ pc' = [pc EXCEPT ![h] = IF gone = {} THEN "idle" ELSE "hdel"]
    /\ UNCHANGED <<hash, life, clock, chain, now, torn, lost>>

\* Redis removes a hash, and its expiry, with its last field.
HDel(h) ==
    /\ pc[h] = "hdel"
    /\ hash' = [b \in Fields \ drop[h] |-> hash[b]]
    /\ life' = IF Fields \subseteq drop[h] THEN 0 ELSE life
    /\ pc' = [pc EXCEPT ![h] = "idle"]
    /\ lost' = Unsettled(lost, Fields \ drop[h])
    /\ UNCHANGED <<clock, chain, now, drop, torn>>

\* The host dies, or its connection does.  Commands of the pipeline that were
\* sent are still run, so the pipeline is not cut.
Crash(h) ==
    /\ Crashes
    /\ pc[h] \in {"hset", "hgetall", "hdel"}
    /\ torn' = (torn \/ pc[h] # "hset")
    /\ lost' = IF pc[h] = "hset" THEN lost ELSE lost \cup BlocksOf(chain[h])
    /\ pc' = [pc EXCEPT ![h] = "idle"]
    /\ UNCHANGED <<hash, life, clock, chain, now, drop>>

\* A tick is long next to a pipeline: none passes inside one.
Tick ==
    /\ clock < MaxTime
    /\ \A h \in Hosts : pc[h] \notin {"expire", "hlen"}
    /\ clock' = clock + 1
    /\ life' = IF life > 0 THEN life - 1 ELSE 0
    /\ hash' = IF life = 1 THEN << >> ELSE hash
    /\ UNCHANGED <<pc, chain, now, drop, torn, lost>>

Next ==
    \/ \E h \in Hosts : \/ Register(h) \/ HSet(h) \/ Expire(h) \/ HLen(h)
                        \/ HGetAll(h) \/ HDel(h) \/ Crash(h)
    \/ Tick

Spec == Init /\ [][Next]_vars

-----------------------------------------------------------------------------
(* Properties *)

\* Every variable has its type; only known blocks are indexed.
TypeOK ==
    /\ Fields \subseteq Blocks /\ \A b \in Fields : hash[b] \in Int
    /\ life \in 0..(TTL + 1)
    /\ clock \in 0..MaxTime
    /\ pc \in [Hosts -> PCs]
    /\ chain \in [Hosts -> Seq(Blocks)]
    /\ now \in [Hosts -> Int]
    /\ drop \in [Hosts -> SUBSET Blocks]
    /\ torn \in BOOLEAN
    /\ lost \subseteq Blocks

\* However registrations and trims of several hosts interleave, the hash is
\* within its bound whenever no host is at work on it, unless a crash kept a
\* host from the trim it owed (affinity_redis.py:98-99, 101-120).
SizeSettles ==
    (\A h \in Hosts : pc[h] = "idle") /\ ~torn => Cardinality(Fields) <= MaxBlocks

\* While hosts are at work, the hash exceeds its bound by no more than what
\* they have just registered themselves, or what is left of those that crashed:
\* a trim computed from an old reply (affinity_redis.py:103, 120) deletes enough
\* even though other hosts have registered, or trimmed, since.
AtWork == {h \in Hosts : pc[h] \in {"expire", "hlen", "hgetall", "hdel"}}
Recent(hosts) == lost \cup UNION {BlocksOf(chain[h]) : h \in hosts}
ExcessIsRecent == Cardinality(Fields \ Recent(AtWork)) <= MaxBlocks

\* Redis never expires the key while a block in it is fresh: the whole-key
\* expiry (affinity_redis.py:94) only cleans up what no reader would match.
KeyOutlivesFields ==
    \A b \in Fields :
        (\A h \in Hosts : pc[h] # "expire") => life > TTL - (clock - hash[b])

\* All hosts see one index: a chain that one of them finds warm on a replica
\* is as warm for every other.  The module's header promises it: "every
\* gateway replica reads and writes the same affinity state, so they route
\* coherently".
HostsAgree ==
    \A g, h \in Hosts : \A c \in Chains : Matched(g, c) = Matched(h, c)
=============================================================================
