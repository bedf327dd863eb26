------------------------------- MODULE Gateway -------------------------------
(***************************************************************************)
(* The request path of the gateway for one logical model: the handlers     *)
(* GatewayService.complete and GatewayService.stream (service.py), the     *)
(* candidate pool of Router.pick (routing/router.py) and the load counter  *)
(* and circuit breaker of each deployment (routing/state.py).              *)
(*                                                                         *)
(* The gateway is one asyncio event loop, so a handler runs undisturbed    *)
(* from one await (or yield) to the next: every action below is one such   *)
(* stretch of one handler, or a step of the environment.                   *)
(*                                                                         *)
(* Left open: which member of the pool a strategy returns, what an answer  *)
(* says (only who wrote it, how many pieces it has and whether upstream    *)
(* finished it), and when the store forgets an entry.                      *)
(***************************************************************************)
EXTENDS Integers, FiniteSets, Sequences

CONSTANTS
    Tasks,        \* request handlers; a handler that is done takes a new request
    Deps,         \* the deployments of the logical model
    Prompts,      \* canonical cache keys
    MaxAttempts,  \* service.max_attempts: the number of configured providers
    Threshold,    \* routing.failure_threshold
    Cooldown,     \* routing.cooldown_s, in ticks
    MaxPieces,    \* bound: pieces of one streamed answer
    MaxLeaks,     \* bound: calls abandoned per deployment
    Faults        \* the faults the environment may inject

FaultKinds == {"retryable", "fatal", "broken", "gone", "store", "index"}

\* The faults under which a handler leaves a call it has started without
\* telling the deployment's state.
LeakyFaults == {"broken", "gone"}

ASSUME TasksAssumption == IsFiniteSet(Tasks)
ASSUME DepsAssumption == IsFiniteSet(Deps)
ASSUME AttemptsAssumption == MaxAttempts \in Nat \ {0}
ASSUME BreakerAssumption == Threshold \in Nat \ {0} /\ Cooldown \in Nat
ASSUME BoundsAssumption == MaxPieces \in Nat \ {0} /\ MaxLeaks \in Nat
ASSUME FaultsAssumption == Faults \subseteq FaultKinds

Store == "store"    \* stands for the response cache as a source of answers
Self == "gateway"   \* stands for the gateway as the author of an error event
Nothing == "none"
ASSUME NamesAssumption == {Store, Self, Nothing} \cap Deps = {}

VARIABLES
    inFlight,   \* DeploymentState.in_flight
    fails,      \* consecutive_failures, saturated at Threshold
    cool,       \* ticks left until ejected_until (0: the circuit is closed)
    cache,      \* what the store holds for each key
    pc,         \* where each handler is suspended
    req,        \* the request it serves
    attempt,    \* deployments it has called so far
    tried,      \* its local set `tried`
    at,         \* the deployment it is calling
    ans,        \* the answer it has collected
    out,        \* the server-sent events it has yielded
    reply       \* how the request ended

depVars == <<inFlight, fails, cool>>
vars == <<inFlight, fails, cool, cache, pc, req, attempt, tried, at, ans, out, reply>>

Requests == [prompt : Prompts, stream : BOOLEAN]
\* `whole` records whether upstream ended the answer by itself.
Answers == [from : Deps, pieces : 0..MaxPieces, whole : BOOLEAN]
NoAnswer == [from |-> Nothing, pieces |-> 0, whole |-> FALSE]
NoRequest == [prompt |-> Nothing, stream |-> FALSE]

Event(kind, from) == [kind |-> kind, from |-> from]
Kinds == {"role", "piece", "stop", "done", "error"}
Events == [kind : Kinds, from : Deps \cup {Store, Self}]

Idle == {"idle", "done"}
\* A handler at one of these points has called on_start and owes the
\* deployment an on_success or an on_failure.
Holding == {"calling", "streaming", "closing"}
PCs == Idle \cup Holding \cup {"get", "put"}
Replies == {Nothing, "ok", "upstream_error", "unavailable", "aborted"}

Callers(d) == {t \in Tasks : pc[t] \in Holding /\ at[t] = d}
Leaked(d) == inFlight[d] - Cardinality(Callers(d))

-----------------------------------------------------------------------------
(* DeploymentState *)

\* Mutant: a call is released twice, in the handler and on the way out.
ReleasedTwice(d) == [inFlight EXCEPT ![d] = IF @ > 1 THEN @ - 2 ELSE 0]

\* The decrement shared by on_success and on_failure: max(0, in_flight - 1).
Released(d) == [inFlight EXCEPT ![d] = IF @ > 0 THEN @ - 1 ELSE 0]

Counted(d) == IF fails[d] < Threshold THEN fails[d] + 1 ELSE Threshold

\* Mutant: a new ejection is added to the time that is left.
EjectedLonger(d) ==
    IF fails[d] + 1 >= Threshold THEN [cool EXCEPT ![d] = @ + Cooldown] ELSE cool

\* The cooldowns after a failure of d: the circuit opens at the threshold.
Ejected(d) == IF fails[d] + 1 >= Threshold THEN [cool EXCEPT ![d] = Cooldown] ELSE cool

OnSuccess(d) ==
    /\ inFlight' = Released(d)
    /\ fails' = [fails EXCEPT ![d] = 0]
    /\ cool' = cool

-----------------------------------------------------------------------------
(* Router *)

\* Mutant: the circuits are not asked.
PoolAnyCircuit(exclude, open) == Deps \ exclude

\* Mutant: what was tried is not excluded.
PoolWithTried(exclude, open) ==
    LET healthy == {d \in Deps : open[d] = 0}
    IN  IF healthy # {} THEN healthy ELSE Deps

\* _candidate_pool: the untried deployments whose circuit is closed, or all
\* the untried ones when every circuit is open.
Pool(exclude, open) ==
    LET candidates == Deps \ exclude
        healthy == {d \in candidates : open[d] = 0}
    IN  IF healthy # {} THEN healthy ELSE candidates

\* Mutant: one attempt short.
ExhaustedEarly(t, exclude) == attempt[t] + 1 >= MaxAttempts \/ exclude = Deps

\* The loop is over: max_attempts turns, or NoDeploymentAvailable from pick.
Exhausted(t, exclude) == attempt[t] >= MaxAttempts \/ exclude = Deps

\* One turn of the failover loop, up to the await on the provider: the loop
\* ends when its attempts are used up or nothing is left to pick.  `load`,
\* `open` and `ex` are in_flight, the cooldowns and `tried` as this stretch
\* of the handler has left them.  The pick may raise what the loop does not
\* catch, when the affinity index cannot be reached or the deployment's
\* provider is not declared: no call has begun then.
Route(t, ex, load, open) ==
    /\ cool' = open
    /\ tried' = [tried EXCEPT ![t] = ex]
    /\ \/ /\ ~Exhausted(t, ex)
          /\ \E d \in Pool(ex, open) :
                /\ at' = [at EXCEPT ![t] = d]
                /\ inFlight' = [load EXCEPT ![d] = @ + 1]
          /\ attempt' = [attempt EXCEPT ![t] = @ + 1]
          /\ pc' = [pc EXCEPT ![t] = "calling"]
          /\ UNCHANGED <<out, reply>>
       \/ /\ "index" \in Faults /\ ~Exhausted(t, ex)
          /\ inFlight' = load
          /\ pc' = [pc EXCEPT ![t] = "done"]
          /\ reply' = [reply EXCEPT ![t] = "aborted"]
          /\ UNCHANGED <<attempt, at, out>>
       \/ /\ Exhausted(t, ex)
          /\ inFlight' = load
          /\ pc' = [pc EXCEPT ![t] = "done"]
          /\ reply' = [reply EXCEPT ![t] = "unavailable"]
          /\ out' = IF req[t].stream
                    THEN [out EXCEPT ![t] = Append(@, Event("error", Self))]
                    ELSE out
          /\ UNCHANGED <<attempt, at>>

-----------------------------------------------------------------------------
(* The handlers *)

Init ==
    /\ inFlight = [d \in Deps |-> 0]
    /\ fails = [d \in Deps |-> 0]
    /\ cool = [d \in Deps |-> 0]
    /\ cache = [p \in Prompts |-> NoAnswer]
    /\ pc = [t \in Tasks |-> "idle"]
    /\ req = [t \in Tasks |-> NoRequest]
    /\ attempt = [t \in Tasks |-> 0]
    /\ tried = [t \in Tasks |-> {}]
    /\ at = [t \in Tasks |-> Nothing]
    /\ ans = [t \in Tasks |-> NoAnswer]
    /\ out = [t \in Tasks |-> << >>]
    /\ reply = [t \in Tasks |-> Nothing]

\* A request for the model arrives; its handler runs up to the await on the cache.
Arrive(t) ==
    /\ pc[t] \in Idle
    /\ \E r \in Requests : req' = [req EXCEPT ![t] = r]
    /\ pc' = [pc EXCEPT ![t] = "get"]
    /\ attempt' = [attempt EXCEPT ![t] = 0]
    /\ tried' = [tried EXCEPT ![t] = {}]
    /\ at' = [at EXCEPT ![t] = Nothing]
    /\ ans' = [ans EXCEPT ![t] = NoAnswer]
    /\ out' = [out EXCEPT ![t] = << >>]
    /\ reply' = [reply EXCEPT ![t] = Nothing]
    /\ UNCHANGED <<depVars, cache>>

\* Answered from the cache.  A cached stream is replayed by _restream; its
\* content chunks count as one piece, and a client that leaves during the
\* replay changes nothing that is modelled.
CacheHit(t) ==
    LET found == cache[req[t].prompt]
        replay == << Event("role", Store), Event("piece", Store),
                     Event("stop", Store), Event("done", Store) >>
    IN  /\ pc[t] = "get"
        /\ found # NoAnswer
        /\ ans' = [ans EXCEPT ![t] = found]
        /\ out' = IF req[t].stream THEN [out EXCEPT ![t] = replay] ELSE out
        /\ reply' = [reply EXCEPT ![t] = "ok"]
        /\ pc' = [pc EXCEPT ![t] = "done"]
        /\ UNCHANGED <<depVars, cache, req, attempt, tried, at>>

CacheMiss(t) ==
    /\ pc[t] = "get"
    /\ cache[req[t].prompt] = NoAnswer
    /\ Route(t, {}, inFlight, cool)
    /\ UNCHANGED <<fails, cache, req, ans>>

\* provider.complete returns.
CompleteReturns(t) ==
    /\ pc[t] = "calling" /\ ~req[t].stream
    /\ OnSuccess(at[t])
    /\ ans' = [ans EXCEPT ![t] = [from |-> at[t], pieces |-> 1, whole |-> TRUE]]
    /\ pc' = [pc EXCEPT ![t] = "put"]
    /\ UNCHANGED <<cache, req, attempt, tried, at, out, reply>>

\* Mutant: the piece read ahead to open the stream is not sent on.
StreamOpensAndDrops(t) ==
    /\ pc[t] = "calling" /\ req[t].stream
    /\ \E n \in 0..1 :
          ans' = [ans EXCEPT ![t] = [from |-> at[t], pieces |-> n, whole |-> FALSE]]
    /\ out' = [out EXCEPT ![t] = Append(@, Event("role", at[t]))]
    /\ pc' = [pc EXCEPT ![t] = "streaming"]
    /\ UNCHANGED <<depVars, cache, req, attempt, tried, at, reply>>

\* The provider's stream opens: the role chunk goes out, and the first piece
\* with it unless that is empty or the stream has none.
StreamOpens(t) ==
    /\ pc[t] = "calling" /\ req[t].stream
    /\ \E n \in 0..1 :
          /\ ans' = [ans EXCEPT ![t] = [from |-> at[t], pieces |-> n, whole |-> FALSE]]
          /\ out' = [out EXCEPT ![t] = @ \o << Event("role", at[t]) >>
                        \o [i \in 1..n |-> Event("piece", at[t])]]
    /\ pc' = [pc EXCEPT ![t] = "streaming"]
    /\ UNCHANGED <<depVars, cache, req, attempt, tried, at, reply>>

StreamPiece(t) ==
    /\ pc[t] = "streaming"
    /\ ans[t].pieces < MaxPieces
    /\ ans' = [ans EXCEPT ![t].pieces = @ + 1]
    /\ out' = [out EXCEPT ![t] = Append(@, Event("piece", at[t]))]
    /\ UNCHANGED <<depVars, cache, pc, req, attempt, tried, at, reply>>

\* The provider's stream ends; the handler is suspended yielding [DONE].
StreamEnds(t) ==
    /\ pc[t] = "streaming"
    /\ ans' = [ans EXCEPT ![t].whole = TRUE]
    /\ out' = [out EXCEPT ![t] = @ \o << Event("stop", at[t]), Event("done", at[t]) >>]
    /\ pc' = [pc EXCEPT ![t] = "closing"]
    /\ UNCHANGED <<depVars, cache, req, attempt, tried, at, reply>>

\* The consumer has taken [DONE]: only now is the deployment's state told.
StreamCloses(t) ==
    /\ pc[t] = "closing"
    /\ OnSuccess(at[t])
    /\ pc' = [pc EXCEPT ![t] = "put"]
    /\ UNCHANGED <<cache, req, attempt, tried, at, ans, out, reply>>

StorePut(t) ==
    /\ pc[t] = "put"
    /\ cache' = [cache EXCEPT ![req[t].prompt] = ans[t]]
    /\ reply' = [reply EXCEPT ![t] = "ok"]
    /\ pc' = [pc EXCEPT ![t] = "done"]
    /\ UNCHANGED <<depVars, req, attempt, tried, at, ans, out>>

-----------------------------------------------------------------------------
(* Faults *)

\* Mutant: the failed deployment is not remembered as tried.
RetryForgets(t) ==
    /\ "retryable" \in Faults
    /\ pc[t] = "calling"
    /\ fails' = [fails EXCEPT ![at[t]] = Counted(at[t])]
    /\ Route(t, tried[t], Released(at[t]), Ejected(at[t]))
    /\ UNCHANGED <<cache, req, ans>>

\* Mutant: failover in the middle of a response.
RetryMidStream(t) ==
    /\ "retryable" \in Faults
    /\ pc[t] \in {"calling", "streaming"}
    /\ fails' = [fails EXCEPT ![at[t]] = Counted(at[t])]
    /\ Route(t, tried[t] \cup {at[t]}, Released(at[t]), Ejected(at[t]))
    /\ UNCHANGED <<cache, req, ans>>

\* Mutant: retries go to any other deployment and are not counted.
RetryForever(t) ==
    /\ "retryable" \in Faults
    /\ pc[t] = "calling"
    /\ fails' = [fails EXCEPT ![at[t]] = Counted(at[t])]
    /\ cool' = Ejected(at[t])
    /\ \E d \in Deps \ {at[t]} :
          /\ at' = [at EXCEPT ![t] = d]
          /\ inFlight' = [Released(at[t]) EXCEPT ![d] = @ + 1]
    /\ UNCHANGED <<cache, pc, req, attempt, tried, ans, out, reply>>

\* A retryable ProviderError before any chunk went out: fail over.
Retry(t) ==
    /\ "retryable" \in Faults
    /\ pc[t] = "calling"
    /\ fails' = [fails EXCEPT ![at[t]] = Counted(at[t])]
    /\ Route(t, tried[t] \cup {at[t]}, Released(at[t]), Ejected(at[t]))
    /\ UNCHANGED <<cache, req, ans>>

\* Mutant: the error is raised before the deployment's state is told.
FatalUntold(t) ==
    /\ "fatal" \in Faults
    /\ pc[t] = "calling"
    /\ reply' = [reply EXCEPT ![t] = "upstream_error"]
    /\ pc' = [pc EXCEPT ![t] = "done"]
    /\ UNCHANGED <<depVars, cache, req, attempt, tried, at, ans, out>>

\* A ProviderError that is not retryable ends the request.  It counts
\* against the deployment all the same.
Fatal(t) ==
    /\ "fatal" \in Faults
    /\ pc[t] = "calling"
    /\ fails' = [fails EXCEPT ![at[t]] = Counted(at[t])]
    /\ cool' = Ejected(at[t])
    /\ inFlight' = Released(at[t])
    /\ tried' = [tried EXCEPT ![t] = @ \cup {at[t]}]
    /\ reply' = [reply EXCEPT ![t] = "upstream_error"]
    /\ out' = IF req[t].stream THEN [out EXCEPT ![t] = Append(@, Event("error", Self))] ELSE out
    /\ pc' = [pc EXCEPT ![t] = "done"]
    /\ UNCHANGED <<cache, req, attempt, at, ans>>

\* The handler leaves the call without on_success or on_failure:
\*   broken: an exception the handler does not catch, which is any but
\*           ProviderError while calling, and every one while streaming;
\*   gone:   the client of a stream disconnects and the server cancels the
\*           handler, at any of its awaits or yields.
LeavesCall(t) ==
    /\ \/ "broken" \in Faults /\ pc[t] \in {"calling", "streaming"}
       \/ "gone" \in Faults /\ req[t].stream /\ pc[t] \in Holding
    /\ Leaked(at[t]) < MaxLeaks

\* The store raises, or the client of a stream leaves, while no call is held.
LeavesStore(t) ==
    /\ \/ "store" \in Faults
       \/ "gone" \in Faults /\ req[t].stream
    /\ pc[t] \in {"get", "put"}

\* Mutant: what was collected is cached whatever ended the stream.
AbandonAndCache(t) ==
    /\ LeavesCall(t) /\ req[t].stream
    /\ pc' = [pc EXCEPT ![t] = "put"]
    /\ UNCHANGED <<depVars, cache, req, attempt, tried, at, ans, out, reply>>

\* An exception or a cancellation ends the handler where it is.
Abandon(t) ==
    /\ LeavesCall(t) \/ LeavesStore(t)
    /\ reply' = [reply EXCEPT ![t] = "aborted"]
    /\ pc' = [pc EXCEPT ![t] = "done"]
    /\ UNCHANGED <<depVars, cache, req, attempt, tried, at, ans, out>>

\* An entry reaches its time to live.
Expire(p) ==
    /\ cache[p] # NoAnswer
    /\ cache' = [cache EXCEPT ![p] = NoAnswer]
    /\ UNCHANGED <<depVars, pc, req, attempt, tried, at, ans, out, reply>>

\* time.monotonic() advances towards every ejected_until.
Tick ==
    /\ \E d \in Deps : cool[d] > 0
    /\ cool' = [d \in Deps |-> IF cool[d] > 0 THEN cool[d] - 1 ELSE 0]
    /\ UNCHANGED <<inFlight, fails, cache, pc, req, attempt, tried, at, ans, out, reply>>

-----------------------------------------------------------------------------

\* The steps of a handler that has a request.
Work(t) ==
    \/ CacheHit(t) \/ CacheMiss(t)
    \/ CompleteReturns(t)
    \/ StreamOpens(t) \/ StreamPiece(t) \/ StreamEnds(t) \/ StreamCloses(t)
    \/ StorePut(t)
    \/ Retry(t) \/ Fatal(t)

Next ==
    \/ \E t \in Tasks : Arrive(t) \/ Work(t) \/ Abandon(t)
    \/ \E p \in Prompts : Expire(p)
    \/ Tick

\* Upstream calls end (the providers set a 60 s timeout on each read), the
\* store answers, the client of a stream keeps taking its chunks, and time
\* passes.  No fault, arrival or expiry is promised.
Fairness ==
    /\ \A t \in Tasks : WF_vars(Work(t))
    /\ WF_vars(Tick)

Safety == Init /\ [][Next]_vars
Spec == Safety /\ Fairness

-----------------------------------------------------------------------------
(* Properties *)

\* Every variable has its type; the counter of consecutive failures never
\* passes the threshold it is saturated at.
TypeOK ==
    /\ inFlight \in [Deps -> Nat]
    /\ fails \in [Deps -> 0..Threshold]
    /\ cool \in [Deps -> 0..Cooldown]
    /\ cache \in [Prompts -> Answers \cup {NoAnswer}]
    /\ pc \in [Tasks -> PCs]
    /\ req \in [Tasks -> Requests \cup {NoRequest}]
    /\ attempt \in [Tasks -> 0..MaxAttempts]
    /\ tried \in [Tasks -> SUBSET Deps]
    /\ at \in [Tasks -> Deps \cup {Nothing}]
    /\ ans \in [Tasks -> Answers \cup {NoAnswer}]
    /\ out \in [Tasks -> Seq(Events)]
    /\ reply \in [Tasks -> Replies]

\* A deployment's load is never understated: in_flight counts at least the
\* calls the handlers hold on it, so least_busy and the load guard never see
\* a busy deployment as idle.  (on_start, on_success and on_failure of
\* concurrent handlers, state.py:34-49; the floor at 0 never hides a call.)
LoadNotUnderstated ==
    \A d \in Deps : inFlight[d] >= Cardinality(Callers(d))

\* in_flight is the number of calls in flight, as the INFLIGHT gauge says
\* (metrics.py:98).  True only without the faults of LeakyFaults.
InFlightExact ==
    \A d \in Deps : inFlight[d] = Cardinality(Callers(d))

\* A request never calls a deployment it has already tried, and every attempt
\* the loop counts was spent on a deployment of its own (service.py:85-100).
AttemptsDistinct ==
    \A t \in Tasks :
        pc[t] \in Holding \cup {"put"} =>
            at[t] \notin tried[t] /\ attempt[t] = Cardinality(tried[t]) + 1

\* A request is told that all upstream deployments failed only when it has
\* tried every one of them: failover does not stop early (service.py:153-155).
\* It depends on MaxAttempts being at least the number of deployments.
NoEarlyGiveUp ==
    \A t \in Tasks : reply[t] = "unavailable" => tried[t] = Deps

\* All the events of a stream have one author: pieces of two deployments, or
\* an answer and an error event, never mix in what one client receives,
\* whatever failovers went before.
OneVoice ==
    \A t \in Tasks : \A i, j \in 1..Len(out[t]) : out[t][i].from = out[t][j].from

\* A client that is sent [DONE] was sent the whole answer: upstream had ended
\* it, and every piece of it went out, between the role chunk and the stop chunk.
DoneMeansWhole ==
    \A t \in Tasks :
        LET o == out[t]
            n == Len(o)
        IN  n > 0 /\ o[n].kind = "done" =>
                /\ ans[t].whole
                /\ o[1].kind = "role" /\ o[n-1].kind = "stop"
                /\ \A i \in 2..(n-2) : o[i].kind = "piece"
                /\ o[1].from \in Deps => n = ans[t].pieces + 3

\* The cache only holds answers that upstream ended: a stream cut short by an
\* error or a disconnect is never kept for later requests (service.py:213-229).
CacheHoldsWhole ==
    \A p \in Prompts : cache[p] # NoAnswer => cache[p].whole

\* A deployment whose circuit is open is called only when every deployment
\* the request has not tried has an open circuit too (router.py:84), also
\* when the failure that leads to the call is the one that opened a circuit.
OpenCircuitIsLastResort ==
    [][\A t \in Tasks :
          attempt'[t] > attempt[t] /\ cool'[at'[t]] > 0 =>
              \A d \in Deps \ tried'[t] : cool'[d] > 0]_vars

\* Every request is answered, however upstream fails: failover ends.
EveryRequestAnswered ==
    \A t \in Tasks : pc[t] = "get" ~> pc[t] = "done"

\* The gateway does what Failover promises of a request.  A deployment is
\* visited once it has been called.
Promise == INSTANCE Failover WITH
    phase <- [t \in Tasks |-> IF pc[t] \in Idle THEN pc[t] ELSE "open"],
    visited <- [t \in Tasks |-> IF at[t] = Nothing THEN {} ELSE tried[t] \cup {at[t]}],
    verdict <- reply
ImplementsFailover == Promise!Spec
=============================================================================
