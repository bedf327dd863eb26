----------------------------- MODULE Strategies -----------------------------
(***************************************************************************)
(* The selection strategies of routing/strategies.py.  Each operator gives *)
(* the deployments its function may return: one, but for the random        *)
(* choice of weighted.  The list a strategy is given keeps the order of    *)
(* the configuration, so it is a set here, and Position the order.         *)
(***************************************************************************)
EXTENDS Integers, FiniteSets

CONSTANTS
    Replicas,  \* the deployments' keys
    Position,  \* the place of each in its model's configuration
    Weight,    \* weight, from configuration
    Cost       \* cost_per_1k

ASSUME PositionAssumption ==
    /\ IsFiniteSet(Replicas)
    /\ Position \in [Replicas -> Nat]
    /\ \A r, q \in Replicas : Position[r] = Position[q] => r = q
ASSUME PricesAssumption == Weight \in [Replicas -> Int] /\ Cost \in [Replicas -> Nat]

\* Python's min: of the states with the least key, the first.
Least(states, key) ==
    {r \in states : \A q \in states :
        key[r] < key[q] \/ (key[r] = key[q] /\ Position[r] <= Position[q])}

RoundRobin(states, counter) ==
    {r \in states : Cardinality({q \in states : Position[q] < Position[r]})
                        = counter % Cardinality(states)}

Weighted(states, counter) ==
    LET weighty == {r \in states : Weight[r] > 0}
    IN  IF weighty = {} THEN RoundRobin(states, counter) ELSE weighty

\* Mutant: a deployment without an answer comes last.
LeastLatencyKnown(states, ewma) ==
    Least(states, [r \in states |-> IF ewma[r] > 0 THEN ewma[r] ELSE 10000])

\* A deployment without an answer counts as the fastest.
LeastLatency(states, ewma) ==
    Least(states, [r \in states |-> IF ewma[r] > 0 THEN ewma[r] ELSE -1])

\* STRATEGIES.
Selected(strategy, states, counter, inFlight, ewma) ==
    CASE strategy = "round_robin" -> RoundRobin(states, counter)
      [] strategy = "weighted"    -> Weighted(states, counter)
      [] strategy = "latency"     -> LeastLatency(states, ewma)
      [] strategy = "least_busy"  -> Least(states, inFlight)
      [] strategy = "cost"        -> Least(states, Cost)
=============================================================================
