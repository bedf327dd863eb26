# KVGate in TLA+

TLA+ modules, TLC runs and TLAPS proofs for the KVGate gateway
(`src/src/kvgate`). Every definition is translated from the code; `PROJECT.json`
gives the lines of each one. Paths below are relative to `src/src/kvgate`.

1. [The system](#the-system)
2. [Modules](#modules)
3. [Runs](#runs)
4. [What the code does otherwise than it says](#what-the-code-does-otherwise-than-it-says)
5. [Fairness](#fairness)
6. [Proofs](#proofs)
7. [Only model-checked, and not modelled](#only-model-checked-and-not-modelled)
8. [Plan](#plan)
9. [How to run it](#how-to-run-it)

## The system

KVGate is an OpenAI-compatible gateway in front of LLM servers. One process is
one asyncio event loop, so its state needs no locks: a handler runs alone from
one `await` or `yield` to the next, and every hazard in the process sits at
those points. Several gateway replicas may share state through Redis, and there
every command is a point where another replica can come in.

A chat request passes

    auth -> rate limit -> budget check -> cache -> (router -> provider)* -> cache -> budget record

where the part in brackets is the failover loop.

| Component | State | Operations | Talks to |
|---|---|---|---|
| Chat endpoint (`api/chat.py`) | none | `chat_completions`, `_enforce_rate_limit`, `_enforce_budget`, `_record_spend` | limiter, budget, service |
| Gateway service (`service.py`) | locals of each handler: attempt, `tried`, the answer collected | `complete`, `stream`, `_cache_stream`, `_restream` | cache, router, deployment state, providers |
| Deployment state (`routing/state.py`) | `in_flight`, `consecutive_failures`, `ejected_until`, `ewma_latency_ms` | `on_start`, `on_success`, `on_failure`, `is_available` | written by all handlers |
| Router (`routing/router.py`, `strategies.py`) | round-robin counter | `pick`, `_candidate_pool`, strategies, `_pick_prefix_aware` | deployment state, affinity index |
| Affinity index (`routing/affinity.py`, `affinity_redis.py`) | per replica: blocks and when each was seen | `matched_blocks`, `register`, eviction | router; Redis |
| Routing key (`routing/keying.py`) | none | blocks of a prompt, chained hashes | router |
| Response cache (`cache/manager.py`) | store entries; semantic index (bounded deque) | `get`, `put` | embedder, store |
| Stores (`cache/memory.py`, `redis_store.py`) | key to value, with expiry | `get`, `set`, `aclose` | Redis |
| Budgets (`ratelimit/budget.py`) | per tenant: window start, spend | `check`, `record` | endpoint |
| Rate limiter (`ratelimit/limiter.py`) | per tenant: tokens, time of the last check | `check` | endpoint; Redis |
| Providers (`providers/`) | HTTP client | `complete`, `stream` | the network |
| Metrics (`observability/metrics.py`) | counters, the gauge of calls in flight | written at the steps of the service | service |
| Configuration, auth (`config.py`, `middleware/auth.py`) | the settings | maps of providers, models and keys; `get_principal` | every part, at start-up; endpoint |
| Admin, health, models, app, CLI | none | views and start-up | all |

What is hard, and what makes each part correct:

- **Requests.** Handlers interleave at every await; upstream calls fail, time
  out, break in mid-stream; clients leave; Redis fails. A request must end, must
  try each deployment at most once, must not give up while one is untried, must
  never mix two answers, and must never cache half of one.
- **Deployment state.** Three methods change one counter for all handlers. It
  must not understate the load, should not overstate it, and an open circuit
  must be the last resort.
- **Providers.** The loop over an upstream's event lines must lose no piece among
  lines it skips, must tell an end from a failure, and must not wait for ever.
- **Response cache.** Equal prompts in flight all go upstream, but no later one
  may; the entry a semantic lookup has chosen may expire before it is read; the
  answer given must be kept, near enough, and of the same model.
- **Routing key.** Prompts share blocks without sharing prefixes: a match must
  always be of a prefix that was served.
- **Affinity index.** It must keep its bound and its order when chains overlap,
  so that a chain is warm after it was picked; in Redis, under interleaved
  registrations and trims, crashes, and clocks of different hosts.
- **Prefix-aware pick.** It weighs warmth against load; only load may make it
  give up warmth.
- **Budgets.** The check comes before the request and the charge after it; the
  overshoot must be bounded, and a tenant must get in again.
- **Strategies.** One counter serves pools that failovers change; a rotation must
  be even in each, and latency must leave no deployment untried.
- **Metrics.** Two handlers turn the counters at different points of a request,
  which may end at any of them; what was answered must be counted once.
- **Configuration.** Keys of the settings may coincide, and the attempts of a
  request and the tenants of the clients follow from them.
- **Rate limiter.** In no stretch of time may more be admitted than burst and
  rate allow, with lagging clocks, scripts out of order, keys that expire, and
  keys of one tenant that have different rates.

`PROJECT.json` lists the hazards one by one under `hazards`, each at its line,
with the properties that would catch it.

## Modules

| Module | Models | Proofs |
|---|---|---|
| `Failover` | abstract: what the gateway promises of a request | safety, by `Gateway`: `GatewayProofs` |
| `Gateway` | request path, pool, breaker, exact cache; implements `Failover` | `GatewayProofs` |
| `Metering` | the handlers of `Gateway` with the meters they turn | `GatewayProofs` |
| `RedisAffinity` | the shared index, Redis command by command | `RedisAffinityProofs` |
| `Messages`, `Payload` | requests, the key of the exact cache, what each provider asks upstream | `ProviderProofs` |
| `Provider` | one call of a provider, blocking or streamed, for the requests of `Payload` | `ProviderProofs` |
| `AnswerCache` | abstract: what a response cache promises | safety, by `ResponseCache`: `ResponseCacheProofs` |
| `ResponseCache` | exact and semantic lookups, puts; implements `AnswerCache` | `ResponseCacheProofs` |
| `Embedding` | the hashing embedder and the cosine | |
| `Keying` | the routing key of a request | `PrefixRoutingProofs` |
| `Strategies` | which deployments each strategy may take | `PrefixRoutingProofs` |
| `PrefixRouting` | `Router.pick`: by each strategy, or by the in-memory index and the keys of `Keying` | `PrefixRoutingProofs` |
| `Configuration` | what the settings make of a gateway: deployments, attempts, clients | `ConfigurationProofs` |
| `Example` | no code: the settings `budget`, `rate_limit` and `prefix_routing` share | |
| `Budget` | spend caps around requests, for the clients of `Configuration` | `BudgetProofs` |
| `RateLimiter` | the token bucket of a tenant | `RateLimiterProofs` |

`Gateway`, `Metering` and `Failover` are the request path; `PrefixRouting` says more
of its choice from the pool, `Provider` how its calls end, `ResponseCache` its
cache. They are separate because each adds awaits and data the others' properties
do not tell apart; what one takes of another is said below.

A module that needs values TLC cannot read from a `.cfg` has an `MC` module. Where
a constant is what other code computes (the deployments of the settings, the rates
of the keys, the similarity of two texts), the `MC` module gives the value and an
`ASSUME` that computes it with `Configuration` or `Embedding`. A definition whose
comment begins "Mutant:" is no part of the model: it is a plausible bug, kept to
show that a property would notice it (`mutants` in `PROJECT.json`).

### Gateway

`pc[t]` says where handler `t` is suspended:

| `pc` | the handler awaits | left by |
|---|---|---|
| `get` | `cache.get` | `CacheHit`, `CacheMiss` |
| `calling` | `provider.complete`, or a stream's first chunk | `CompleteReturns`, `StreamOpens`, `Retry`, `Fatal` |
| `streaming` | the next chunk, or the client taking one | `StreamPiece`, `StreamEnds` |
| `closing` | the client taking `[DONE]` | `StreamCloses` |
| `put` | `cache.put` | `StorePut` |

Faults: `Abandon` ends a handler where it is, by an exception other than
`ProviderError` or because its client leaves, while it holds a call (`LeavesCall`)
or awaits the store (`LeavesStore`); and a pick may raise (`Route`, fault `index`:
Redis fails under the shared index, or the provider of a deployment is not
declared). The environment has `Arrive`, `Expire` (an entry's time to live) and
`Tick`. `Route` is one turn of the failover loop: it picks from `Pool`, calls
`on_start` and suspends, or ends the request. It is a part of the action that
leads to it (`CacheMiss`, `Retry`), because no await separates them.

Abstracted:

- A pick returns any member of the pool. Each strategy returns one of them, so
  every strategy is covered; which one does not matter to this module.
- An answer is who wrote it, how many pieces it has, and whether upstream ended
  it. The replay of a cached stream is one step and its content one piece.
- The store may forget an entry at any time; the semantic index is left out.
- `ejected_until` is kept as the ticks left, the consecutive failures up to the
  threshold, after which more make no difference.
- A request for an unknown model (404) ends before any state changes.

### Metering

Each action of `Gateway` with its metrics, in the groups `Begins`, `Looks`,
`Answered`, `Stored`, `Failed`, `Aborted`. `count[t]` is what the present request
of handler `t` has added to each counter, which is all that can be checked of
counters that only grow; `gauge` is `INFLIGHT`. `Metered` implies the safety part
of `Gateway` (lemma `MeteredIsGateway`) and leaves out no step of it, so the run
of `Metering` checks the properties of `Gateway` as well.

Abstracted: labels, the outcome of a hit (exact or semantic), latency histograms.
`TOKENS` is turned where `COST` is.

### Failover

Three actions, `Begin`, `Call`, `End`, and the promise: each call goes to a new
deployment, a request is refused as unavailable only when all were called, and
it ends. `Gateway` implements it under the mapping `Promise` at its end. The
deployments visited are `tried` and the one being called.

### Provider

A call waits for the answer's head (`Answered`, `Unreadable`, `Refused`,
`Opens`), then a stream reads line by line (`Read`) to `BodyEnds`; `Breaks` is
any `httpx.HTTPError`, timeouts included, and `Leave` the service dropping the
generator. `Yields`, `Ends` and `Raises` say what the loop does with each kind of
line. `Send` and `Close` are the server's, which is external. How a call ends is
what `Gateway` takes as given: `ended` is its `CompleteReturns` and `StreamEnds`,
a `ProviderError` before the first piece its `Retry` and `Fatal`, anything else
its `Abandon`. `Faults` lets a server end a body without its end mark (`cut`) or
send an error event (`error`); the run and the theorem have it empty.

`Payload` says what is asked: `OpenAIPayload`, `AnthropicPayload` (system messages
apart, images, names and `stop` dropped) and `MockRender`. `KeyedAsAsked` ties them
to `CanonicalKey`: two requests with one cache key are asked alike.

Abstracted: pieces are numbered, all other lines are of five kinds; a text is the
sequence of its words; SHA-256 has no collisions. Usage counts are left out.

### ResponseCache and AnswerCache

`pc[t]` follows the awaits of `CacheManager`: `exact` and `semantic` (`get`),
`upstream` (the service is at work), `put` (the store's set) and `index` (about to
append to the deque). A prompt stands for its canonical key, which covers the
model, the messages and the sampling parameters. Embedding and cosine are the
constant `Similarity`, whose values in the run are those of `Embedding` for two
prompts, with the places that MD5 gives their tokens. Hosts share the store and
keep an index each, which `Restart` empties; `Fail` is an error of upstream or of
the store. An entry's expiry is kept as the ticks left, and `puts` is history.

`AnswerCache` promises that a client is given the answer of a prompt that is kept
and near to its own, that only answers brought after a miss are kept, and that
every lookup ends. In the mapping a lookup is `asking` in both of its awaits, and
an answer is kept from the moment the store has it, before it is indexed.

### Keying

`UnitsOf` cuts a message into its role, its words and its images, by content or
by URL as `image_key` says; `Block` and `Hash` make the chain. A hash is the pair
that is hashed, so it stands for all the units up to it.

### RedisAffinity

One replica's Redis hash and the hosts that work on it: `Register` (the pick has
chosen the replica), `HSet`, `Expire`, `HLen` (the pipeline, which is not a
transaction), then `HGetAll` and `HDel` of the trim, and `Crash` between the
parts. Redis expires the key in `Tick`. A host has its own clock (`Skew`)
because `router.py:123` passes `time.monotonic()`. Redis itself is external and
modelled as these commands use it.

Abstracted: a crash does not cut a pipeline, which is sent in one write; no tick
falls inside a pipeline. Hashes of several backend replicas are independent, so
there is one. `torn` and `lost` are history: which trims a crash has lost.

### PrefixRouting

A configuration is chosen for good: a strategy, with its cold fallback. `PickPlain`
is `Router.pick` by strategy, with the counter kept modulo `Cycle` and the latency
average as any value between the old one and the sample (`Averaged`); variables
are kept where the configuration reads them. A pick is one step, as
`_pick_prefix_aware` awaits nothing with the in-memory
index and `on_start` follows at once. `PickWarm` and `PickCold` are the
two ways out of it; both register the chain. The pool is any non-empty set. Ties
are broken by the order of the configuration, as in the code (`Least` takes the first by
`Position`). `RequestsAssumption`
says only that a request is a sequence of messages and a message's content a sequence
of parts; that its key is then a chain of hashes is proved. A time stamp is kept
as an age. `served`, `turns` and `answered` are history.

### Configuration

Settings are records with the fields of the code's classes. `ExpandEnv` is the
expansion of `${VAR:-default}`; `Keyed` the dictionaries made of lists, where the
last of two equal keys counts; `States` the deployments a router makes of a model;
`Principal` and `CapOf` what a key stands for. Parsing YAML and the defaults of
single fields are left out.

### Budget

The headers clients send decide, by `Configuration`, who they are and what cap
they have. Handlers of keys that share tenants: `Admit` or `Refuse` (`check`),
then `CacheHit`, `Answer` and `Charge` (`record`), `Fail`, or `StreamEnds`;
`Restart` forgets the totals. A window is its age, up to its length. `used` is
history: what a tenant's answers cost, streams included, which the code does not
charge. The rounding of a cost to six places is left out.

### RateLimiter

`Allow` and `Refuse` are the two outcomes of a check, for memory and Redis alike.
A minute has `Token` ticks and a token `Token` units, so a key's rpm is what it
refills in a tick. In Redis a check reads its
clock and runs the script later, so the time it brings may be up to `MaxLag`
old: the delay and the clock's error together. `EXPIRE key, 120` is `KeyLife`, two
minutes, from every check on. `last`, `since`, `used`, `expired`
and the counts of checks that lag are history:
`Mark` starts the count anew at any moment, so the invariant `LimitHolds` speaks
of every stretch of time.

Keys of one tenant share the bucket and bring each its own rate and capacity. A
check that lags sets the bucket's time back, and another key may refill that time
at another rate: `backSince` and `backLast` count such checks, and the properties
allow `Drift` for each. A bucket that takes longer than the key's life to refill is
full again when the key expires: `expired` counts the expiries, and `LimitHolds` allows
`Forgiven` for each, which is what the fastest key would not have refilled by then.

"Limits hold across gateway replicas" (`ratelimit/limiter.py:4`) is thus true up to
three amounts: the lag once, the drift of each check that sets the time back, and what
each expiry forgives. The run has behaviours that exceed the plain limit by each of
them; `LimitHolds` says that nothing else does.

Abstracted: the bucket's numbers are whole units.

## Runs

| Run | Question | Size |
|---|---|---|
| `gateway_safety` | Do counters, failover, breaker, streams, cache and meters stay consistent, whatever fails when? | 2 handlers, 3 deployments, all faults, 1 leak per deployment; 2.2 million states |
| `gateway_live` | Is every request answered, does `Gateway` implement `Failover`, is the load exact without leaks? | 2 handlers, 2 deployments, threshold 2; 304,000 states |
| `gateway_leak` | Is the gauge of calls in flight exact? *No* | 1 handler, 2 deployments |
| `gateway_giveup` | Does a failover follow each failure that is counted as one? *No: not the last, and with fewer providers than deployments not even with a healthy one untried* | 1 handler, 2 deployments, 1 attempt |
| `redis_index` | Does the hash settle within its bound, how far may it exceed it meanwhile, and does it live as long as its blocks? | 2 hosts, 3 blocks, bound 1, crashes, 3 ticks; 4.5 million states |
| `redis_skew` | Do hosts agree on what is fresh? *No* | 2 hosts, uptimes 2 ticks apart |
| `provider` | Is an answer without an error whole; does every call end; are requests with one key asked alike? | 3 providers, 7 requests, 5 lines of a response |
| `response_cache` | Is the promise of `AnswerCache` kept; is a prompt paid for once while its answer lives? | 2 hosts, 3 prompts of 2 models, index of 2; 783,000 states |
| `prefix_routing` | Does the index keep its order and bound; are matches real; does warmth yield to load only; is a rotation even; is everyone tried? | 3 deployments, all strategies, 4 prompts of up to 3 blocks, cap 2, load up to 3; 43,000 states |
| `budget` | Is the overshoot bounded; does a refused tenant get in again? | 2 handlers, 3 keys, 2 tenants, restarts; 759,000 states |
| `budget_stream` | Is the cap kept? *No, for streams* | 1 handler |
| `rate_limit` | By how much can the limit be exceeded, do refusals cost nothing? | 2 keys with rates 1 and 2, 5 tokens of 3 units, a key life of 6 ticks, lag 1, 13 ticks; 796,000 states |

Why the bounds are enough to show what they should:

- *Two actors* reach every pairwise interleaving; nothing in the code counts
  handlers or hosts, and the theorems cover any number of them.
- *Three deployments* are the fewest with a failover to one of two, so that a pick
  after a failure still has a choice. Threshold 1 opens circuits on every failure
  in `gateway_safety`; threshold 2 in `gateway_live` reaches the count below the
  threshold.
- *`MaxPieces` 1, `MaxLeaks` 1* bound the pieces of a stream and the calls
  abandoned per deployment: the first of each already has every effect (a first
  piece is read ahead, a second is handled as the one after it).
- *A bound of 1 in `redis_index`* makes nearly every registration owe a trim, and lets
  two blocks that nobody is registering break it; three ticks outlast a life of one tick.
- *Cap 2 with chains of three, two and one* has a chain that the cap admits, one that it
  cuts, and a prefix that is evicted before its extension. With
  weights 2 : 3 one call outweighs a warm block but not two, so the best score may
  belong to a warmer and busier replica or to a colder one; with a skew of 1 and loads
  up to 3 the guard excludes replicas, warmer ones too. The prefix-aware configuration has two replicas,
  the strategies three, of which one has no weight.
- *`Cycle` 6* is a multiple of every size of a pool, so the counter loses nothing;
  *samples of 1 and 3* are a faster and a slower answer, with one between them.
- *Three prompts* are one, one near to it (0.77, with a threshold of 0.75), and
  one of another model with the text of the first; an index of two loses entries,
  and a life of one tick lets them expire between any two awaits.
- *Five lines* put a piece before and after each kind of line, and the end mark.
- *`MaxUsed`* bounds what streams and uncapped keys may use, which the code does
  not; charged spend is bounded by the code itself.
- *A burst of 5 with a key life of 6 ticks* is a bucket that even the faster key does not
  refill before the key expires. *`MaxTime` 13* has room for a full bucket to be drained,
  forgotten and drained again, with refills in between; *`MaxBack` 2* lets time be set back twice in each count.
- *Seven requests* differ in each limit the providers read in their own ways
  (none, 0, below 0, 2), in a sampling parameter, in `stop`, and in what is not
  sent.

The deployments and attempts of the runs of `MCGateway` are what `Configuration`
makes of the code's default settings, those of `gateway_giveup` (`MCMetering`) what it
makes of one provider that serves two deployments of a model.

Symmetry is used in `gateway_safety` only, which has no liveness property.
Deadlock is checked in every run.

## What the code does otherwise than it says

Each has a run that TLC refutes and an entry under `findings`.

1. `gateway_leak`: a client that leaves a stream, or an error in the middle of
   one, leaves its call in `in_flight` for ever (`service.py:213`).
2. `gateway_giveup`: the number of attempts is the number of providers, not of
   the model's deployments (`service.py:57`), so a retryable error need not "fail over to
   the next-best deployment" (`README.md:73`) though there is one.
3. `gateway_giveup` too: a retryable failure is counted as one that "triggered failover"
   (`observability/metrics.py:69`) before it is known whether one follows
   (`service.py:103`, `:200`); the last failure of a request is counted as well.
4. `redis_skew`: the shared index is stamped with each machine's monotonic
   clock (`routing/router.py:123`).
5. `budget_stream`: a streamed answer is never charged (`api/chat.py:75`).

These have no run of their own:

- The Redis bucket of the rate limiter is forgotten after 120 s
  (`ratelimit/limiter.py:80`), before a key of fewer than 30 rpm has refilled the
  default burst. `LimitHolds` bounds what is gained (`Forgiven`), the run reaches that
  bound, and `ExpiryIsFree` proves when it is nothing.
- With keys of one tenant that have different rates and clocks that lag, the limit
  drifts with every check that sets the time back (`Drift`), against "limits hold
  across gateway replicas" of `ratelimit/limiter.py:4`.
- A stream that upstream fails with an error event (Anthropic), or ends without its
  end mark, counts as whole (`providers/anthropic.py:119`);
  `EndedIsWholeWithoutFaults` needs the absence of both.
- The cold path of a pick is taken beside a warm replica if the best score belongs
  to a cold one (`routing/router.py:142`), against the comment above it; with
  `least_busy` as the fallback this is harmless, as `WarmthYieldsToLoad` shows.
- "Total chat completion requests." (`observability/metrics.py:18`) counts neither
  requests that end with a fatal error (`service.py:105`) nor streams that all
  deployments failed (`service.py:232`), so the error rate looks lower than it is.
  `AnswersAccounted` says what is counted.
- 408 and 409 are retryable for a blocking call of the OpenAI provider and final
  for a streamed one (`providers/openai.py:62`, `:92`).
- A model without deployments makes the gateway ready (`api/health.py:24`), though
  readiness is "at least one model with a deployment is configured".
- Two deployments with one provider and model become one, with the settings of the
  later and the place of the earlier (`routing/router.py:53`); `Example` has such a
  pair.

## Fairness

- `Gateway`: weak fairness of each handler's work, because the HTTP clients have a
  60 s timeout on every read, the store answers, and upstream ends its streams (a
  stream of unbounded length would keep its handler for ever, in the code too),
  and the client keeps taking chunks or leaves (one that does neither holds a stream
  suspended at its `yield`, and nothing in the code times that out);
  and of `Tick`, because time passes. No arrival, fault or expiry is promised.
- `Failover`: weak fairness of progress of each open request, implied by that.
- `Budget`: weak fairness of `Tick` only. Nothing is assumed of the clients.
- `Provider`: weak fairness of reading and of the client's timeout while nothing
  arrives (`httpx.Timeout`, 60 s for each read). That every call ends then needs
  the bound on lines: a server may keep a call open with comment lines. It also
  needs a client that keeps taking the pieces that are yielded, as in `Gateway`.
- `ResponseCache`: weak fairness of each lookup, because the store answers. None
  of what upstream or the clients do is promised.
- The other modules state safety alone.

## Proofs

All theorems hold for every value of the constants that the named assumptions
allow; the bounds of the runs (`MaxPieces`, `MaxLeaks`, `MaxUsed`, `MaxTime`,
`MaxLoad`) are constants too, so no theorem depends on their size.

**GatewayProofs.** `TypeInv` adds to `TypeOK` what a suspended handler relies
on (`WellPlaced`: a handler that holds a call knows its deployment).
`TypeOK` alone is not inductive: `Route` and the returns use `at[t]`.
- `LoadIsNotUnderstated`: `CallersMove` says that one handler's step changes the
  calls of a deployment by that handler's; `LeakStep` that each step changes
  `in_flight` by the same amount, or leaves it alone when a call is abandoned.
  The floor of the decrement (`ReleasedOne`) never applies.
- `LoadIsExact`: the same with equality, assuming no fault of `LeakyFaults`. The
  leak has no other cause.
- `AttemptsAreDistinct` and `GivesUpLast` from `FailoverInv`, which ties
  `attempt` to the size of `tried`. `GivesUpLast` assumes at least as many
  attempts as deployments, which is what `service.py:57` gets wrong.
- `OpenCircuitComesLast`, an action property, from `Pool`'s lemma. `PickRaises` is the
  step of a pick that fails.
- `CacheIsWhole` from `CacheInv`: what waits to be put, and what was put, is whole.
- `OneVoiceAlways` and `DoneIsWhole` by `SentInv`, which says at each `pc` what the
  handler has sent: nothing while it may still fail over; the role and `pieces` pieces
  of `at[t]` while it streams; those, the stop and `[DONE]` while it closes or puts.
  A stream that has begun never goes back to `calling`: this is why a client hears one
  deployment only. That a hit is replayed whole rests on `CacheInv`.
- `ImplementsSafeFailover`: `Spec => Promise!Safety`, step by step. `CacheMiss` and
  `Retry` pick a deployment and are a `Call`, or an `End` if no pick is left
  (`RouteRefines`); hits, stored answers, fatal errors and abandoned requests are an
  `End`; all else stutters. `OpenInv` says that an open request has no verdict and that
  what it called is `tried` and `at`. It assumes, as `GivesUpLast` does, at least as many
  attempts as deployments.
- Of `Metering`: `GaugeIsLoadForAll`, since every step that moves `in_flight` moves
  the gauge by the same; `AnswersAreAccounted` by an invariant on what each counter
  holds at each `pc` (a blocking answer is charged before it is stored, a stream
  counted before); `FailoversAreAccounted` by `SpentInv`: a request has
  called the deployments in `tried` and, unless it failed too, the one it is at.

**RedisAffinityProofs.** `SizeSettlesForAll` by `SizeInv`: if the hash is too
large, some host is still to ask for its size, to trim, or has chosen enough to
delete, or a crash lost a trim. `ExcessIsRecentForAll`, which bounds the hash at every
moment by the maximum and the chains being registered, by `ExcessInv`. The bound alone is
not inductive, since an `HDel` deletes what was chosen from an older reply, and the
hosts that registered since may be done before it or after it. `ExcessInv` keeps, for
each host that is about to delete, those at work that it has not seen (`Unseen`):
without their blocks the hash will fit. If a host it has not seen deletes first, then
those that one had not seen are among them, and its trim covers the rest. `KeyOutlivesFieldsForAll` by `LifeInv`, which
needs that no stamp lies in the future; it assumes that no host's clock is
ahead of the reference (take the fastest clock as the reference).

**BudgetProofs.** `SpendIsBounded` by `Reserved`: every handler that may still
charge a tenant has room set aside for the most its answer costs. The check
gives a new handler that room; a charge uses it.

**PrefixRoutingProofs.** The provers have no induction, so the module proves one:
`LeastNatural` (from the library's theorem that strict inclusion of finite sets is well
founded) and `UpTo`, which argues from the least counterexample. With it
`ChainLinks` shows that the recursive functions of `Keying` exist and what they give:
the key of a request is a chain in which each hash pairs a block with the hash before it.
- `ChainsMeet`: if two requests share a hash, they share its place, all hashes before
  it and all their blocks: the chains of all requests form a tree.
- `OldestIsFirst`, `IndexIsBounded`, `PrefixStaysFresher`, all from `IndexInv`: the list of a
  replica is without repetition and in the order of age (`ListInv`), and a hash in it
  is no older than those after it in a chain. `Registered` says what a registration
  makes of the list: the survivors in their order, then the new hashes; the eviction
  drops from the front. `PrefixStaysFresher` needs `ChainsMeet`, because a
  registration of another request may refresh a part of this one's chain.
- `PickedIsWarmForAll`, an action property: the replica just picked has the whole
  chain, if the cap admits it, and none of it otherwise (`CutChain`: the eviction then
  takes the chain's first block, without which nothing matches).
- `MatchIsRealForAll` by `ServedInv` (each hash in the index belongs to a request that
  the replica was picked for) and `SameTexts` (requests with the same blocks have the
  same text).
- `RotationIsEvenForAll` by `RotationInv`: the deployments that have had a turn more than
  the others are the last ones picked, as told from the counter's place (`Ago`,
  `LastPicked`). It needs that `Cycle` is a multiple of every pool's size, so that the
  counter modulo `Cycle` points where the code's unbounded one does.
- `WarmthYieldsToLoadForAll`, for `least_busy` as the cold fallback: a replica that is
  warmer and no busier has the better score, and on the cold path the least busy replica
  is no busier than any.
- `EveryoneIsTriedForAll`: an average is positive exactly for the deployments that have
  answered, and those without one are the least of `LeastLatency`.

Assumed are a finite set of replicas and a block size that is an integer, of any sign:
`Step` is what `max(1, block_size)` makes of it.

**ConfigurationProofs.** `AttemptsForAll`: if every provider of a model is declared and
serves one deployment of it, there are at least as many attempts as states: the map
from deployments to providers is one to one. This is what `GivesUpLast` assumes.

**ProviderProofs.** `EndedIsWhole` is not inductive: it says nothing of a call
that is under way. `Flow` adds that what was yielded is the pieces up to some
number (`Prefix`), that the pieces on the wire are the ones after it, in order
(`Rest`), and that without faults the mark is the last line (`Marks`). So the
first piece on the wire is the next one, and when the mark is read none is left.
`KeyedAsAskedForAll`: every field of a payload is a field of the key, or made of one.

**ResponseCacheProofs.** `StampedeIsBounded` by `StampInv`: while a prompt's
entry lives, the answers stored for it and the handlers that have missed it and
may still store one (`Missed`) are together no more than the handlers. A
`StoreSet` moves one from the second to the first, and a new miss needs the entry
to be gone.

`ImplementsSafeAnswerCache`: `Spec => Promise!Safety`. A step of a lookup is a `Hit`, a
`Miss` or nothing, `StoreSet` keeps an answer, `Put` and `Index` change nothing
that the mapping sees, and a failure or a restart is a `Leave`. `KeyInv` is what a hit
needs: the key a semantic lookup has chosen is near to its prompt, and no other handler
changes it before it is read; whether it is still kept is seen when it is read.

**RateLimiterProofs.** `Level` (the bucket's level, taken to the present, covers
the time since the last admission) gives `TypeCorrect` and
`RefusalsAreFreeForAll`, for keys of any rates between the bounds.
`LimitHoldsForAll` by `LimitInv`: what was used and what the bucket holds stay
within capacity and time, also when checks run out of order, since a check moves
the level and its time together. When the key expires, its bucket has had `KeyLife`
less the lag to refill, so a new one gains `Forgiven` at most: `Allowance` adds up what
lag, drift and expiries allow. `ExpiryIsFree` is the case where `Forgiven` is nothing:
in memory, or with a burst that the fastest key refills within the key's life.

## Only model-checked, and not modelled

Only model-checked, since liveness is out of the prover's reach: `EveryRequestAnswered`,
`CapReopens`, `CallEnds`, and that requests and lookups end, which is the liveness part
of `ImplementsFailover` and `ImplementsAnswerCache`. Every other property of a passing run is
stated by a theorem, under the assumptions named above where there are any. The
`ASSUME`s of the `MC` modules, which compare `Configuration` and `Embedding`
with values of constants, are evaluated and not proved.

Not modelled:

- the admin, health and model endpoints, which only read; start-up, shutdown and the
  command line, which run before and after all that is modelled;
- of the metrics, histograms, labels, the affinity series and those of budgets and
  limits, which are set to what `Budget` and `RateLimiter` compute; what an abandoned
  stream cost is in no counter;
- the embedder that is a library, and words other than the run's: the embedding is a
  pure function, checked as a value and not against a reference;
- the YAML reader and the validation of the settings, which are pydantic's;
- the dashboard, load tests, benchmarks and deployment files, which have none of
  the gateway's logic.

`PROJECT.json` lists every component with its status.

## Plan

Done, in this order of importance: `Gateway` with `Failover`, `RedisAffinity`,
`Budget`, `PrefixRouting` with `Keying`, `RateLimiter`, `ResponseCache` with
`AnswerCache`, `Provider`; then `Strategies`, the keys of the rate limiter, `Payload`
with `Messages`, `Configuration`, `Metering` and `Embedding`, each with its theorems
where there is a property of it.

Next, the model:

1. `Provider` inside the request path, so that the wholeness of what is cached
   rests on what a server may do instead of on `StreamEnds`.
2. The endpoint as a composition: rate limit, budget and request of one handler.

Next, the proofs: the properties of the two compositions above, from the theorems of their parts.

## How to run it

    tlc -workers 2 -config MCMetering.cfg MCMetering.tla
    tlapm GatewayProofs.tla

Run names and their modules, configurations and properties are under `runs` in
`PROJECT.json`.
