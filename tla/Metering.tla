------------------------------ MODULE Metering ------------------------------
(***************************************************************************)
(* What the handlers of Gateway report to Prometheus (service.py,          *)
(* observability/metrics.py): each step of a handler with the meters it    *)
(* turns.  The counters only grow; kept here is what the present request   *)
(* of each handler has added to them.                                      *)
(***************************************************************************)
EXTENDS Gateway

VARIABLES
    count,  \* what each handler's request has added to the counters
    gauge   \* INFLIGHT of each deployment

meters == <<count, gauge>>
meteredVars == <<vars, meters>>

\* CACHE_EVENTS by outcome; COST, with TOKENS; ROUTING_DECISIONS;
\* ROUTING_FAILOVERS; and REQUESTS, whatever the status.
Counters == {"hit", "miss", "cost", "decision", "failover", "request"}

Counts(t, turned) ==
    count' = [count EXCEPT ![t] =
                 [c \in Counters |-> count[t][c] + (IF c \in turned THEN 1 ELSE 0)]]

\* INFLIGHT goes down for a call that ends and up for one that begins.
Gauges(t, ended) ==
    gauge' = [d \in Deps |->
                 gauge[d] - (IF d \in ended THEN 1 ELSE 0)
                          + (IF pc'[t] = "calling" /\ at'[t] = d THEN 1 ELSE 0)]

\* The loop has ended without an answer; a stream does not report that.
GivenUp(t) == IF reply'[t] = "unavailable" /\ ~req[t].stream THEN {"request"} ELSE {}

MeteredInit ==
    /\ Init
    /\ count = [t \in Tasks |-> [c \in Counters |-> 0]]
    /\ gauge = [d \in Deps |-> 0]

Begins(t) ==
    /\ Arrive(t)
    /\ count' = [count EXCEPT ![t] = [c \in Counters |-> 0]]
    /\ UNCHANGED gauge

Looks(t) ==
    \/ CacheHit(t) /\ Counts(t, {"hit", "request"}) /\ UNCHANGED gauge
    \/ CacheMiss(t) /\ Counts(t, {"miss"} \cup GivenUp(t)) /\ Gauges(t, {})

\* Mutant: the cost of a stream is booked with its first piece as well.
AnswersTwice(t) ==
    \/ CompleteReturns(t) /\ Counts(t, {"decision", "cost"}) /\ Gauges(t, {at[t]})
    \/ StreamOpens(t) /\ Counts(t, {"decision", "cost"}) /\ UNCHANGED gauge
    \/ (StreamPiece(t) \/ StreamEnds(t)) /\ UNCHANGED meters
    \/ StreamCloses(t) /\ Counts(t, {"request", "cost"}) /\ Gauges(t, {at[t]})

\* A blocking answer is booked when it has come, a stream when the client has
\* taken it; what the client of a stream gets goes out in between.
Answered(t) ==
    \/ CompleteReturns(t) /\ Counts(t, {"decision", "cost"}) /\ Gauges(t, {at[t]})
    \/ StreamOpens(t) /\ Counts(t, {"decision"}) /\ UNCHANGED gauge
    \/ StreamPiece(t) /\ UNCHANGED meters
    \/ StreamEnds(t) /\ UNCHANGED meters
    \/ StreamCloses(t) /\ Counts(t, {"request", "cost"}) /\ Gauges(t, {at[t]})

\* A blocking request counts once its answer is stored.
Stored(t) ==
    /\ StorePut(t)
    /\ Counts(t, IF req[t].stream THEN {} ELSE {"request"})
    /\ UNCHANGED gauge

\* Mutant: a failover is counted before the error is known to be retryable.
FailedCounted(t) ==
    \/ Retry(t) /\ Counts(t, {"failover"} \cup GivenUp(t)) /\ Gauges(t, {at[t]})
    \/ Fatal(t) /\ Counts(t, {"failover"}) /\ Gauges(t, {at[t]})

\* Mutant: the gauge goes down on failover only.
FailedHeld(t) ==
    \/ Retry(t) /\ Counts(t, {"failover"} \cup GivenUp(t)) /\ Gauges(t, {at[t]})
    \/ Fatal(t) /\ UNCHANGED meters

\* A retryable failure counts as a failover, the last one of a request too; an
\* error that ends the request is not counted at all.
Failed(t) ==
    \/ Retry(t) /\ Counts(t, {"failover"} \cup GivenUp(t)) /\ Gauges(t, {at[t]})
    \/ Fatal(t) /\ UNCHANGED count /\ Gauges(t, {at[t]})

\* An exception or a cancellation passes every meter by.
Aborted(t) == Abandon(t) /\ UNCHANGED meters

MeteredNext ==
    \/ \E t \in Tasks :
          Begins(t) \/ Looks(t) \/ Answered(t) \/ Stored(t) \/ Failed(t) \/ Aborted(t)
    \/ (\E p \in Prompts : Expire(p)) /\ UNCHANGED meters
    \/ Tick /\ UNCHANGED meters

Metered == MeteredInit /\ [][MeteredNext]_meteredVars

-----------------------------------------------------------------------------
(* Properties *)

\* The counters agree on a request that was answered, blocking or streamed,
\* after whatever failovers: it counts once, and it either was a hit and cost
\* nothing or was a miss, had one deployment chosen for it and was charged
\* once.  (Cost is booked before the answer is stored, a blocking request
\* after, a streamed one before, service.py:124, 149, 226, 255.)
AnswersAccounted ==
    \A t \in Tasks :
        pc[t] = "done" /\ reply[t] = "ok" =>
            /\ count[t]["request"] = 1
            /\ count[t]["hit"] + count[t]["miss"] = 1
            /\ count[t]["cost"] = count[t]["miss"]
            /\ count[t]["decision"] = count[t]["miss"]

\* The failovers of a request that took place: its calls after the first.
Failovers(t) == IF attempt[t] = 0 THEN 0 ELSE attempt[t] - 1

\* A request reports each of its failovers once, and nothing for a call that
\* was answered, cut, abandoned or refused for good; but one too many when the
\* last failure left it without a deployment to turn to (service.py:100-105,
\* 197-203, against metrics.py:69).
FailoversAccounted ==
    \A t \in Tasks :
        LET stranded == reply[t] \in {"unavailable", "aborted"} /\ at[t] \in tried[t]
        IN  count[t]["failover"] = Failovers(t) + (IF stranded THEN 1 ELSE 0)

\* A failure that is counted as a failover "triggered failover" (metrics.py:69):
\* another deployment was called after it, as README.md:73 promises too.
FailoversFollowed ==
    \A t \in Tasks : count[t]["failover"] <= Failovers(t)

\* The gauge says what the router balances by, leaked calls included: they
\* part only if in_flight were ever held at zero (state.py:39, 49).
GaugeIsLoad == gauge = inFlight
=============================================================================
