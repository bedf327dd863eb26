------------------------------ MODULE Failover ------------------------------
(***************************************************************************)
(* What the gateway promises of a request for a model, whatever strategy,  *)
(* cache, stream or breaker is behind it: it calls deployments one after   *)
(* the other, none of them twice, blames the whole set only when it has    *)
(* called the whole set, and ends.                                         *)
(***************************************************************************)
CONSTANTS Tasks, Deps

VARIABLES
    phase,     \* idle, open or done
    visited,   \* deployments called for the present request
    verdict    \* how it ended

vars == <<phase, visited, verdict>>

Init ==
    /\ phase = [t \in Tasks |-> "idle"]
    /\ visited = [t \in Tasks |-> {}]
    /\ verdict = [t \in Tasks |-> "none"]

Begin(t) ==
    /\ phase[t] # "open"
    /\ phase' = [phase EXCEPT ![t] = "open"]
    /\ visited' = [visited EXCEPT ![t] = {}]
    /\ verdict' = [verdict EXCEPT ![t] = "none"]

Call(t) ==
    /\ phase[t] = "open" /\ verdict[t] = "none"
    /\ \E d \in Deps \ visited[t] : visited' = [visited EXCEPT ![t] = @ \cup {d}]
    /\ UNCHANGED <<phase, verdict>>

\* An upstream error is passed on only if some deployment was called, and
\* the request is refused as unavailable only if all of them were.
End(t) ==
    /\ phase[t] = "open"
    /\ \/ verdict' = [verdict EXCEPT ![t] = "ok"]
       \/ verdict' = [verdict EXCEPT ![t] = "aborted"]
       \/ visited[t] # {} /\ verdict' = [verdict EXCEPT ![t] = "upstream_error"]
       \/ visited[t] = Deps /\ verdict' = [verdict EXCEPT ![t] = "unavailable"]
    /\ phase' = [phase EXCEPT ![t] = "done"]
    /\ UNCHANGED visited

Next == \E t \in Tasks : Begin(t) \/ Call(t) \/ End(t)

Safety == Init /\ [][Next]_vars
Spec == Safety /\ \A t \in Tasks : WF_vars(Call(t) \/ End(t))
=============================================================================
