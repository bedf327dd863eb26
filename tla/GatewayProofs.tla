---------------------------- MODULE GatewayProofs ----------------------------
(***************************************************************************)
(* Proofs about Gateway and its meters, for every number of handlers,      *)
(* deployments, prompts, attempts and pieces, every breaker setting and    *)
(* every set of faults.                                                    *)
(***************************************************************************)
EXTENDS Metering, TLAPS, FiniteSetTheorems

-----------------------------------------------------------------------------
(* Type correctness *)

\* What a handler may rely on at the point where it is suspended.
WellPlaced ==
    \A t \in Tasks :
        /\ pc[t] # "idle" => req[t] \in Requests
        /\ pc[t] \in Holding \cup {"put"} => at[t] \in Deps
        /\ pc[t] \in {"streaming", "closing", "put"} => ans[t] \in Answers

TypeInv == TypeOK /\ WellPlaced

\* The names of the places where a handler may be.
LEMMA Places ==
    /\ Idle = {"idle", "done"}
    /\ Holding = {"calling", "streaming", "closing"}
    /\ PCs = {"idle", "done", "calling", "streaming", "closing", "get", "put"}
  BY DEF Idle, Holding, PCs

\* The decrement keeps the counters natural, and takes one off a positive one.
LEMMA ReleasedType ==
    ASSUME inFlight \in [Deps -> Nat], NEW d \in Deps
    PROVE  /\ Released(d) \in [Deps -> Nat]
           /\ \A e \in Deps :
                 Released(d)[e] = IF e = d /\ inFlight[d] > 0 THEN inFlight[d] - 1
                                  ELSE inFlight[e]
  BY DEF Released

\* An ejection keeps the cooldowns in range.
LEMMA EjectedType ==
    ASSUME cool \in [Deps -> 0..Cooldown], NEW d \in Deps
    PROVE  Ejected(d) \in [Deps -> 0..Cooldown]
  <1>1. Cooldown \in 0..Cooldown
    BY BreakerAssumption
  <1>2. [cool EXCEPT ![d] = Cooldown] \in [Deps -> 0..Cooldown]
    BY <1>1
  <1> QED BY <1>2, Zenon DEF Ejected

LEMMA CountedType ==
    ASSUME fails \in [Deps -> 0..Threshold], NEW d \in Deps
    PROVE  Counted(d) \in 0..Threshold
  BY BreakerAssumption DEF Counted

\* A pick is one of the untried deployments.
LEMMA PoolUntried ==
    ASSUME NEW exclude, NEW open
    PROVE  /\ Pool(exclude, open) \subseteq Deps \ exclude
           /\ \A d \in Pool(exclude, open) : open[d] # 0 =>
                 \A e \in Deps \ exclude : open[e] # 0
  BY DEF Pool

\* The events a handler adds are events.
LEMMA EventType ==
    ASSUME NEW k \in Kinds, NEW a \in Deps \cup {Store, Self}
    PROVE  Event(k, a) \in Events
  BY DEF Event, Events

\* The disjunct of Route in which the pick raises.
PickRaises(t, load) ==
    /\ inFlight' = load
    /\ pc' = [pc EXCEPT ![t] = "done"]
    /\ reply' = [reply EXCEPT ![t] = "aborted"]
    /\ UNCHANGED <<attempt, at, out>>

\* A turn of the failover loop keeps the types.
LEMMA RouteType ==
    ASSUME TypeInv, NEW t \in Tasks, pc[t] # "idle",
           NEW ex \in SUBSET Deps, NEW load \in [Deps -> Nat],
           NEW open \in [Deps -> 0..Cooldown],
           Route(t, ex, load, open)
    PROVE  /\ inFlight' \in [Deps -> Nat]
           /\ cool' \in [Deps -> 0..Cooldown]
           /\ tried' \in [Tasks -> SUBSET Deps]
           /\ attempt' \in [Tasks -> 0..MaxAttempts]
           /\ pc' \in [Tasks -> PCs]
           /\ at' \in [Tasks -> Deps \cup {Nothing}]
           /\ out' \in [Tasks -> Seq(Events)]
           /\ reply' \in [Tasks -> Replies]
           /\ pc'[t] \in {"calling", "done"}
           /\ pc'[t] = "calling" => at'[t] \in Deps
           /\ \A u \in Tasks \ {t} : pc'[u] = pc[u] /\ at'[u] = at[u]
  <1>1. Event("error", Self) \in Events
    BY EventType DEF Kinds
  <1>a. CASE PickRaises(t, load)
    BY <1>a, Places DEF PickRaises, Route, TypeInv, TypeOK, Replies
  <1>2. CASE ~Exhausted(t, ex) /\ ~PickRaises(t, load)
    <2>1. PICK d \in Pool(ex, open) :
            /\ at' = [at EXCEPT ![t] = d]
            /\ inFlight' = [load EXCEPT ![d] = @ + 1]
            /\ attempt' = [attempt EXCEPT ![t] = @ + 1]
            /\ pc' = [pc EXCEPT ![t] = "calling"]
            /\ UNCHANGED <<out, reply>>
      BY <1>2 DEF Route, PickRaises
    <2>2. d \in Deps
      BY PoolUntried
    <2>3. attempt[t] + 1 \in 0..MaxAttempts
      BY <1>2, AttemptsAssumption DEF Exhausted, TypeInv, TypeOK
    <2>4. inFlight' \in [Deps -> Nat]
      BY <2>1, <2>2
    <2>5. cool' \in [Deps -> 0..Cooldown] /\ tried' \in [Tasks -> SUBSET Deps]
      BY DEF Route, TypeInv, TypeOK
    <2> QED
      BY <2>1, <2>2, <2>3, <2>4, <2>5, Places DEF TypeInv, TypeOK
  <1>3. CASE Exhausted(t, ex)
    <2>1. /\ inFlight' = load
          /\ pc' = [pc EXCEPT ![t] = "done"]
          /\ reply' = [reply EXCEPT ![t] = "unavailable"]
          /\ out' = IF req[t].stream THEN [out EXCEPT ![t] = Append(@, Event("error", Self))]
                    ELSE out
          /\ UNCHANGED <<attempt, at>>
      BY <1>3 DEF Route
    <2>2. out' \in [Tasks -> Seq(Events)]
      BY <1>1, <2>1 DEF TypeInv, TypeOK
    <2>3. cool' \in [Deps -> 0..Cooldown] /\ tried' \in [Tasks -> SUBSET Deps]
      BY DEF Route, TypeInv, TypeOK
    <2> QED
      BY <2>1, <2>2, <2>3, Places DEF TypeInv, TypeOK, Replies
  <1> QED BY <1>a, <1>2, <1>3

-----------------------------------------------------------------------------
LEMMA InitType == Init => TypeInv
  BY BreakerAssumption, AttemptsAssumption
     DEF Init, TypeInv, TypeOK, WellPlaced, PCs, Idle, Holding, Replies, Answers

LEMMA StepType == TypeInv /\ [Next]_vars => TypeInv'
  <1> SUFFICES ASSUME TypeInv, [Next]_vars PROVE TypeInv'
    OBVIOUS
  <1> USE DEF TypeInv
  <1>1. ASSUME NEW t \in Tasks, Arrive(t) PROVE TypeInv'
    BY <1>1, AttemptsAssumption
       DEF Arrive, TypeOK, WellPlaced, PCs, Idle, Holding, Replies, depVars
  <1>2. ASSUME NEW t \in Tasks, CacheHit(t) PROVE TypeInv'
    <2>1. req[t] \in Requests /\ cache[req[t].prompt] \in Answers \cup {NoAnswer}
      BY <1>2 DEF CacheHit, TypeOK, WellPlaced, Requests
    <2>2. << Event("role", Store), Event("piece", Store),
             Event("stop", Store), Event("done", Store) >> \in Seq(Events)
      BY EventType DEF Kinds
    <2> QED
      BY <1>2, <2>1, <2>2
         DEF CacheHit, TypeOK, WellPlaced, PCs, Idle, Holding, Replies, depVars
  <1>3. ASSUME NEW t \in Tasks, CacheMiss(t) PROVE TypeInv'
    <2>1. pc[t] = "get" /\ Route(t, {}, inFlight, cool)
          /\ UNCHANGED <<fails, cache, req, ans>>
      BY <1>3 DEF CacheMiss
    <2>2. inFlight \in [Deps -> Nat] /\ cool \in [Deps -> 0..Cooldown]
      BY DEF TypeOK
    <2> HIDE DEF TypeInv
    <2>3. /\ inFlight' \in [Deps -> Nat] /\ cool' \in [Deps -> 0..Cooldown]
          /\ tried' \in [Tasks -> SUBSET Deps] /\ attempt' \in [Tasks -> 0..MaxAttempts]
          /\ pc' \in [Tasks -> PCs] /\ at' \in [Tasks -> Deps \cup {Nothing}]
          /\ out' \in [Tasks -> Seq(Events)] /\ reply' \in [Tasks -> Replies]
          /\ pc'[t] \in {"calling", "done"} /\ (pc'[t] = "calling" => at'[t] \in Deps)
          /\ \A u \in Tasks \ {t} : pc'[u] = pc[u] /\ at'[u] = at[u]
      BY <2>1, <2>2, RouteType
    <2> QED
      BY <2>1, <2>3 DEF TypeInv, TypeOK, WellPlaced, Holding
  <1>4. ASSUME NEW t \in Tasks, CompleteReturns(t) PROVE TypeInv'
    <2>1. at[t] \in Deps /\ Released(at[t]) \in [Deps -> Nat]
      BY <1>4, ReleasedType DEF CompleteReturns, TypeOK, WellPlaced, Holding
    <2>2. [from |-> at[t], pieces |-> 1, whole |-> TRUE] \in Answers
      BY <2>1, BoundsAssumption DEF Answers
    <2>3. /\ inFlight' \in [Deps -> Nat] /\ fails' \in [Deps -> 0..Threshold]
          /\ cool' \in [Deps -> 0..Cooldown]
      BY <1>4, <2>1, BreakerAssumption DEF CompleteReturns, OnSuccess, TypeOK
    <2> QED
      BY <1>4, <2>1, <2>2, <2>3 DEF CompleteReturns, TypeOK, WellPlaced, PCs, Idle, Holding
  <1>5. ASSUME NEW t \in Tasks, StreamOpens(t) PROVE TypeInv'
    <2>1. at[t] \in Deps
      BY <1>5 DEF StreamOpens, WellPlaced, Holding
    <2>2. PICK n \in 0..1 :
            /\ ans' = [ans EXCEPT ![t] = [from |-> at[t], pieces |-> n, whole |-> FALSE]]
            /\ out' = [out EXCEPT ![t] = @ \o << Event("role", at[t]) >>
                            \o [i \in 1..n |-> Event("piece", at[t])]]
      BY <1>5 DEF StreamOpens
    <2>3. [from |-> at[t], pieces |-> n, whole |-> FALSE] \in Answers
      BY <2>1, BoundsAssumption DEF Answers
    <2>4. out[t] \o << Event("role", at[t]) >> \o [i \in 1..n |-> Event("piece", at[t])]
            \in Seq(Events)
      <3>1. Event("role", at[t]) \in Events /\ Event("piece", at[t]) \in Events
        BY <2>1, EventType DEF Kinds
      <3>2. [i \in 1..n |-> Event("piece", at[t])] \in Seq(Events)
        BY <3>1
      <3> QED BY <3>1, <3>2 DEF TypeOK
    <2> QED
      BY <1>5, <2>1, <2>2, <2>3, <2>4
         DEF StreamOpens, TypeOK, WellPlaced, PCs, Idle, Holding, depVars
  <1>6. ASSUME NEW t \in Tasks, StreamPiece(t) PROVE TypeInv'
    <2>1. at[t] \in Deps /\ ans[t] \in Answers
      BY <1>6 DEF StreamPiece, WellPlaced, Holding
    <2>2. Append(out[t], Event("piece", at[t])) \in Seq(Events)
      BY <2>1, EventType DEF Kinds, TypeOK
    <2>3. [ans[t] EXCEPT !.pieces = @ + 1] \in Answers
      <3>1. ans[t].pieces + 1 \in 0..MaxPieces
        BY <1>6, <2>1, BoundsAssumption DEF StreamPiece, Answers
      <3> QED BY <2>1, <3>1 DEF Answers
    <2>4. ans' \in [Tasks -> Answers \cup {NoAnswer}] /\ ans'[t] \in Answers
          /\ \A u \in Tasks \ {t} : ans'[u] = ans[u]
      BY <1>6, <2>3 DEF StreamPiece, TypeOK
    <2> QED
      BY <1>6, <2>1, <2>2, <2>4 DEF StreamPiece, TypeOK, WellPlaced, depVars
  <1>7. ASSUME NEW t \in Tasks, StreamEnds(t) PROVE TypeInv'
    <2>1. at[t] \in Deps /\ ans[t] \in Answers
      BY <1>7 DEF StreamEnds, WellPlaced, Holding
    <2>2. out[t] \o << Event("stop", at[t]), Event("done", at[t]) >> \in Seq(Events)
      BY <2>1, EventType DEF Kinds, TypeOK
    <2>3. ans' \in [Tasks -> Answers \cup {NoAnswer}] /\ ans'[t] \in Answers
          /\ \A u \in Tasks \ {t} : ans'[u] = ans[u]
      BY <1>7, <2>1 DEF StreamEnds, TypeOK, Answers
    <2> QED
      BY <1>7, <2>1, <2>2, <2>3
         DEF StreamEnds, TypeOK, WellPlaced, PCs, Idle, Holding, depVars
  <1>8. ASSUME NEW t \in Tasks, StreamCloses(t) PROVE TypeInv'
    <2>1. at[t] \in Deps /\ Released(at[t]) \in [Deps -> Nat]
      BY <1>8, ReleasedType DEF StreamCloses, TypeOK, WellPlaced, Holding
    <2> QED
      BY <1>8, <2>1, BreakerAssumption
         DEF StreamCloses, OnSuccess, TypeOK, WellPlaced, PCs, Idle, Holding
  <1>9. ASSUME NEW t \in Tasks, StorePut(t) PROVE TypeInv'
    BY <1>9 DEF StorePut, TypeOK, WellPlaced, PCs, Idle, Holding, Replies, depVars
  <1>10. ASSUME NEW t \in Tasks, Retry(t) PROVE TypeInv'
    <2>1. /\ pc[t] = "calling" /\ at[t] \in Deps
          /\ Route(t, tried[t] \cup {at[t]}, Released(at[t]), Ejected(at[t]))
          /\ fails' = [fails EXCEPT ![at[t]] = Counted(at[t])]
          /\ UNCHANGED <<cache, req, ans>>
      BY <1>10 DEF Retry, WellPlaced, Holding
    <2>2. /\ Released(at[t]) \in [Deps -> Nat] /\ Counted(at[t]) \in 0..Threshold
          /\ Ejected(at[t]) \in [Deps -> 0..Cooldown]
          /\ tried[t] \cup {at[t]} \in SUBSET Deps
      BY <2>1, ReleasedType, CountedType, EjectedType DEF TypeOK
    <2> HIDE DEF TypeInv
    <2>3. /\ inFlight' \in [Deps -> Nat] /\ cool' \in [Deps -> 0..Cooldown]
          /\ tried' \in [Tasks -> SUBSET Deps] /\ attempt' \in [Tasks -> 0..MaxAttempts]
          /\ pc' \in [Tasks -> PCs] /\ at' \in [Tasks -> Deps \cup {Nothing}]
          /\ out' \in [Tasks -> Seq(Events)] /\ reply' \in [Tasks -> Replies]
          /\ pc'[t] \in {"calling", "done"} /\ (pc'[t] = "calling" => at'[t] \in Deps)
          /\ \A u \in Tasks \ {t} : pc'[u] = pc[u] /\ at'[u] = at[u]
      BY <2>1, <2>2, RouteType
    <2> QED
      BY <2>1, <2>2, <2>3 DEF TypeInv, TypeOK, WellPlaced, Holding
  <1>11. ASSUME NEW t \in Tasks, Fatal(t) PROVE TypeInv'
    <2>1. pc[t] = "calling" /\ at[t] \in Deps
      BY <1>11 DEF Fatal, WellPlaced, Holding
    <2>2. /\ Released(at[t]) \in [Deps -> Nat] /\ Counted(at[t]) \in 0..Threshold
          /\ Ejected(at[t]) \in [Deps -> 0..Cooldown]
      BY <2>1, ReleasedType, CountedType, EjectedType DEF TypeOK
    <2>3. Append(out[t], Event("error", Self)) \in Seq(Events)
      BY EventType DEF Kinds, TypeOK
    <2> QED
      BY <1>11, <2>1, <2>2, <2>3
         DEF Fatal, TypeOK, WellPlaced, PCs, Idle, Holding, Replies
  <1>12. ASSUME NEW t \in Tasks, Abandon(t) PROVE TypeInv'
    BY <1>12 DEF Abandon, LeavesCall, LeavesStore, TypeOK, WellPlaced, PCs, Idle,
                  Holding, Replies, depVars
  <1>13. ASSUME NEW p \in Prompts, Expire(p) PROVE TypeInv'
    BY <1>13 DEF Expire, TypeOK, WellPlaced, depVars
  <1>14. CASE Tick
    BY <1>14, BreakerAssumption DEF Tick, TypeOK, WellPlaced
  <1>15. CASE UNCHANGED vars
    BY <1>15 DEF vars, TypeOK, WellPlaced
  <1> QED
    BY <1>1, <1>2, <1>3, <1>4, <1>5, <1>6, <1>7, <1>8, <1>9, <1>10, <1>11, <1>12,
       <1>13, <1>14, <1>15 DEF Next, Work

\* Every variable keeps its type, and a handler that holds a call knows which
\* deployment and request it is for.
THEOREM TypeCorrect == Spec => []TypeOK
  <1>1. TypeInv => TypeOK
    BY DEF TypeInv
  <1> QED BY InitType, StepType, <1>1, PTL DEF Spec, Safety

-----------------------------------------------------------------------------
(* The load of a deployment *)

One(b) == IF b THEN 1 ELSE 0
Holds(t, d) == pc[t] \in Holding /\ at[t] = d

LEMMA CallersFinite ==
    ASSUME NEW d
    PROVE  IsFiniteSet(Callers(d)) /\ Cardinality(Callers(d)) \in Nat
  BY TasksAssumption, FS_Subset, FS_CardinalityType DEF Callers

\* One handler moves: the calls a deployment carries change by that handler's.
LEMMA CallersMove ==
    ASSUME NEW t \in Tasks, NEW d,
           \A u \in Tasks \ {t} : pc'[u] = pc[u] /\ at'[u] = at[u]
    PROVE  Cardinality(Callers(d)') =
               Cardinality(Callers(d)) - One(Holds(t, d)) + One(Holds(t, d)')
  <1> DEFINE rest == Callers(d) \ {t}
  <1>1. IsFiniteSet(Callers(d)) /\ IsFiniteSet(rest) /\ Cardinality(rest) \in Nat
    BY CallersFinite, FS_Subset, FS_CardinalityType
  <1>2. Cardinality(Callers(d)) = Cardinality(rest) + One(Holds(t, d))
    <2>1. CASE Holds(t, d)
      <3>1. t \in Callers(d)
        BY <2>1 DEF Holds, Callers
      <3>2. Cardinality(rest) = Cardinality(Callers(d)) - 1
        BY <1>1, <3>1, FS_RemoveElement
      <3> QED BY <1>1, <2>1, <3>2, CallersFinite DEF One
    <2>2. CASE ~Holds(t, d)
      <3>1. rest = Callers(d)
        BY <2>2 DEF Holds, Callers
      <3> QED BY <1>1, <2>2, <3>1 DEF One
    <2> QED BY <2>1, <2>2
  <1>3. Cardinality(Callers(d)') = Cardinality(rest) + One(Holds(t, d)')
    <2>1. CASE Holds(t, d)'
      <3>1. Callers(d)' = rest \cup {t}
        BY <2>1 DEF Holds, Callers
      <3>2. Cardinality(rest \cup {t}) = Cardinality(rest) + 1
        BY <1>1, FS_AddElement
      <3> QED BY <2>1, <3>1, <3>2 DEF One
    <2>2. CASE ~Holds(t, d)'
      <3>1. Callers(d)' = rest
        BY <2>2 DEF Holds, Callers
      <3> QED BY <1>1, <2>2, <3>1 DEF One
    <2> QED BY <2>1, <2>2
  <1> QED BY <1>1, <1>2, <1>3, CallersFinite DEF One

LoadInv == TypeInv /\ LoadNotUnderstated

\* The counter has room for the call that is released.
LEMMA ReleasedOne ==
    ASSUME LoadInv, NEW t \in Tasks, pc[t] \in Holding
    PROVE  /\ at[t] \in Deps
           /\ Released(at[t]) \in [Deps -> Nat]
           /\ \A d \in Deps : Released(at[t])[d] = inFlight[d] - One(Holds(t, d))
  <1>1. at[t] \in Deps /\ inFlight \in [Deps -> Nat]
    BY DEF LoadInv, TypeInv, TypeOK, WellPlaced
  <1>2. t \in Callers(at[t])
    BY DEF Callers
  <1>3. Cardinality(Callers(at[t])) # 0
    BY <1>2, CallersFinite, FS_EmptySet
  <1>4. inFlight[at[t]] > 0
    BY <1>1, <1>3, CallersFinite DEF LoadInv, LoadNotUnderstated
  <1> QED
    BY <1>1, <1>4, ReleasedType DEF Holds, One

\* A turn of the failover loop adds the call it starts to the load it is given.
LEMMA RouteLoad ==
    ASSUME TypeInv, NEW t \in Tasks, NEW ex, NEW load \in [Deps -> Nat], NEW open,
           Route(t, ex, load, open), pc[t] \in {"get", "calling"}, NEW d \in Deps
    PROVE  inFlight'[d] = load[d] + One(Holds(t, d)')
  <1>a. CASE PickRaises(t, load)
    <2>1. inFlight' = load /\ pc'[t] = "done"
      BY <1>a DEF PickRaises, TypeInv, TypeOK
    <2> QED BY <2>1, Places DEF Holds, One
  <1>1. CASE ~Exhausted(t, ex) /\ ~PickRaises(t, load)
    <2>1. PICK e \in Pool(ex, open) :
            /\ at' = [at EXCEPT ![t] = e]
            /\ inFlight' = [load EXCEPT ![e] = @ + 1]
            /\ pc' = [pc EXCEPT ![t] = "calling"]
      BY <1>1 DEF Route, PickRaises
    <2>2. Holds(t, d)' <=> e = d
      BY <2>1, Places DEF Holds, TypeInv, TypeOK
    <2> QED BY <2>1, <2>2 DEF One
  <1>2. CASE Exhausted(t, ex)
    <2>1. inFlight' = load /\ pc'[t] = "done"
      BY <1>2 DEF Route, TypeInv, TypeOK
    <2> QED BY <2>1, Places DEF Holds, One
  <1> QED BY <1>a, <1>1, <1>2

\* Only a handler that moves changes who calls whom.
LEMMA RouteOthers ==
    ASSUME TypeInv, NEW t \in Tasks, NEW ex, NEW load, NEW open, Route(t, ex, load, open)
    PROVE  \A u \in Tasks \ {t} : pc'[u] = pc[u] /\ at'[u] = at[u]
  BY DEF Route, TypeInv, TypeOK

\* What each step does to the calls a deployment has been told of and no
\* handler holds: nothing, unless a handler abandons a call.
LEMMA LeakStep ==
    ASSUME LoadInv, [Next]_vars, NEW d \in Deps
    PROVE  \/ Leaked(d)' = Leaked(d)
           \/ /\ \E t \in Tasks : Abandon(t) /\ LeavesCall(t)
              /\ Leaked(d)' >= Leaked(d)
  <1> USE DEF LoadInv, TypeInv
  <1> DEFINE Same == Leaked(d)' = Leaked(d)
  <1>0. inFlight[d] \in Nat /\ Cardinality(Callers(d)) \in Nat
    BY CallersFinite DEF TypeOK
  <1>a. ASSUME NEW t \in Tasks, UNCHANGED inFlight,
               \A u \in Tasks \ {t} : pc'[u] = pc[u] /\ at'[u] = at[u],
               Holds(t, d)' = Holds(t, d)
        PROVE  Same
    <2>1. Cardinality(Callers(d)') = Cardinality(Callers(d))
      BY <1>0, <1>a, CallersMove DEF One
    <2> QED BY <1>a, <2>1 DEF Leaked
  <1>b. ASSUME NEW t \in Tasks, pc[t] \in Holding, inFlight' = Released(at[t]),
               \A u \in Tasks \ {t} : pc'[u] = pc[u] /\ at'[u] = at[u],
               pc'[t] \notin Holding
        PROVE  Same
    <2>1. inFlight'[d] = inFlight[d] - One(Holds(t, d))
      BY <1>b, ReleasedOne
    <2>2. Cardinality(Callers(d)') = Cardinality(Callers(d)) - One(Holds(t, d))
      BY <1>0, <1>b, CallersMove DEF One, Holds
    <2> QED BY <1>0, <2>1, <2>2 DEF Leaked, One
  <1>1. ASSUME NEW t \in Tasks, Arrive(t) PROVE Same
    BY <1>1, <1>a, Places DEF Arrive, depVars, Holds, TypeOK
  <1>2. ASSUME NEW t \in Tasks, CacheHit(t) PROVE Same
    BY <1>2, <1>a, Places DEF CacheHit, depVars, Holds, TypeOK
  <1>3. ASSUME NEW t \in Tasks, CacheMiss(t) PROVE Same
    <2>1. Route(t, {}, inFlight, cool) /\ pc[t] = "get" /\ ~Holds(t, d)
      BY <1>3, Places DEF CacheMiss, Holds
    <2>2. inFlight'[d] = inFlight[d] + One(Holds(t, d)')
      BY <2>1, RouteLoad DEF TypeOK
    <2>3. Cardinality(Callers(d)') = Cardinality(Callers(d)) + One(Holds(t, d)')
      BY <1>0, <2>1, RouteOthers, CallersMove DEF One
    <2> QED BY <1>0, <2>2, <2>3 DEF Leaked, One
  <1>4. ASSUME NEW t \in Tasks, CompleteReturns(t) PROVE Same
    BY <1>4, <1>b, Places DEF CompleteReturns, OnSuccess, TypeOK
  <1>5. ASSUME NEW t \in Tasks, StreamOpens(t) \/ StreamPiece(t) \/ StreamEnds(t)
        PROVE  Same
    BY <1>5, <1>a, Places DEF StreamOpens, StreamPiece, StreamEnds, depVars, Holds, TypeOK
  <1>6. ASSUME NEW t \in Tasks, StreamCloses(t) PROVE Same
    BY <1>6, <1>b, Places DEF StreamCloses, OnSuccess, TypeOK
  <1>7. ASSUME NEW t \in Tasks, StorePut(t) \/ (Abandon(t) /\ LeavesStore(t)) PROVE Same
    BY <1>7, <1>a, Places DEF StorePut, Abandon, LeavesStore, depVars, Holds, TypeOK
  <1>8. ASSUME NEW t \in Tasks, Retry(t) PROVE Same
    <2>1. /\ pc[t] = "calling" /\ pc[t] \in Holding
          /\ Route(t, tried[t] \cup {at[t]}, Released(at[t]), Ejected(at[t]))
      BY <1>8, Places DEF Retry
    <2>2. /\ Released(at[t]) \in [Deps -> Nat]
          /\ Released(at[t])[d] = inFlight[d] - One(Holds(t, d))
      BY <2>1, ReleasedOne
    <2>3. inFlight'[d] = inFlight[d] - One(Holds(t, d)) + One(Holds(t, d)')
      BY <2>1, <2>2, RouteLoad
    <2>4. Cardinality(Callers(d)') =
              Cardinality(Callers(d)) - One(Holds(t, d)) + One(Holds(t, d)')
      BY <2>1, RouteOthers, CallersMove
    <2> QED BY <1>0, <2>3, <2>4 DEF Leaked, One
  <1>9. ASSUME NEW t \in Tasks, Fatal(t) PROVE Same
    BY <1>9, <1>b, Places DEF Fatal, TypeOK
  <1>10. ASSUME NEW t \in Tasks, Abandon(t), LeavesCall(t) PROVE Leaked(d)' >= Leaked(d)
    <2>1. /\ inFlight' = inFlight /\ pc'[t] = "done"
          /\ \A u \in Tasks \ {t} : pc'[u] = pc[u] /\ at'[u] = at[u]
      BY <1>10 DEF Abandon, depVars, TypeOK
    <2>2. Cardinality(Callers(d)') = Cardinality(Callers(d)) - One(Holds(t, d))
      BY <1>0, <2>1, CallersMove, Places DEF One, Holds
    <2> QED BY <1>0, <2>1, <2>2 DEF Leaked, One
  <1>11. CASE (\E p \in Prompts : Expire(p)) \/ Tick \/ UNCHANGED vars
    <2>1. inFlight' = inFlight /\ pc' = pc /\ at' = at
      BY <1>11 DEF Expire, Tick, vars, depVars
    <2> QED BY <2>1 DEF Leaked, Callers
  <1> QED
    BY <1>1, <1>2, <1>3, <1>4, <1>5, <1>6, <1>7, <1>8, <1>9, <1>10, <1>11
       DEF Next, Work, Abandon

LEMMA LoadInit == Init => LoadNotUnderstated
  <1> SUFFICES ASSUME Init, NEW d \in Deps PROVE inFlight[d] >= Cardinality(Callers(d))
    BY DEF LoadNotUnderstated
  <1>1. Callers(d) = {}
    BY Places DEF Init, Callers
  <1> QED BY <1>1, FS_EmptySet DEF Init

LEMMA LoadStep == LoadInv /\ [Next]_vars => LoadInv'
  <1> SUFFICES ASSUME LoadInv, [Next]_vars PROVE LoadInv'
    OBVIOUS
  <1>1. TypeInv'
    BY StepType DEF LoadInv
  <1>2. ASSUME NEW d \in Deps PROVE inFlight'[d] >= Cardinality(Callers(d)')
    <2>1. inFlight[d] \in Nat /\ inFlight'[d] \in Nat
          /\ Cardinality(Callers(d)) \in Nat /\ inFlight[d] >= Cardinality(Callers(d))
      BY <1>1, CallersFinite DEF LoadInv, LoadNotUnderstated, TypeInv, TypeOK
    <2>2. Cardinality(Callers(d)') \in Nat
      <3>1. Callers(d)' \subseteq Tasks
        BY DEF Callers
      <3> QED BY <3>1, TasksAssumption, FS_Subset, FS_CardinalityType
    <2>3. Leaked(d)' >= Leaked(d)
      BY LeakStep, <2>1, <2>2 DEF Leaked
    <2> QED BY <2>1, <2>2, <2>3 DEF Leaked
  <1> QED BY <1>1, <1>2 DEF LoadInv, LoadNotUnderstated

\* The load of a deployment is never understated, whatever faults there are.
THEOREM LoadIsNotUnderstated == Spec => []LoadNotUnderstated
  <1>1. LoadInv => LoadNotUnderstated
    BY DEF LoadInv
  <1>2. Init => LoadInv
    BY InitType, LoadInit DEF LoadInv
  <1> QED BY LoadStep, <1>1, <1>2, PTL DEF Spec, Safety

\* The load is exact when no fault makes a handler abandon a call: the leak
\* that the run gateway_leak shows has no other cause.
THEOREM LoadIsExact ==
    ASSUME Faults \cap LeakyFaults = {}
    PROVE  Spec => []InFlightExact
  <1>1. Init => InFlightExact
    <2> SUFFICES ASSUME Init, NEW d \in Deps PROVE inFlight[d] = Cardinality(Callers(d))
      BY DEF InFlightExact
    <2>1. Callers(d) = {}
      BY Places DEF Init, Callers
    <2> QED BY <2>1, FS_EmptySet DEF Init
  <1>2. LoadInv /\ InFlightExact /\ [Next]_vars => InFlightExact'
    <2> SUFFICES ASSUME LoadInv, InFlightExact, [Next]_vars, NEW d \in Deps
                 PROVE  inFlight'[d] = Cardinality(Callers(d)')
      BY DEF InFlightExact
    <2>1. \A t \in Tasks : ~LeavesCall(t)
      BY DEF LeavesCall, LeakyFaults
    <2>2. Leaked(d)' = Leaked(d)
      BY <2>1, LeakStep
    <2>3. inFlight'[d] \in Nat /\ inFlight[d] \in Nat /\ inFlight[d] = Cardinality(Callers(d))
      BY LoadStep DEF LoadInv, TypeInv, TypeOK, InFlightExact
    <2>4. Cardinality(Callers(d)') \in Nat
      <3>1. Callers(d)' \subseteq Tasks
        BY DEF Callers
      <3> QED BY <3>1, TasksAssumption, FS_Subset, FS_CardinalityType
    <2> QED BY <2>2, <2>3, <2>4 DEF Leaked
  <1>3. Init => LoadInv
    BY InitType, LoadInit DEF LoadInv
  <1> QED BY LoadStep, <1>1, <1>2, <1>3, PTL DEF Spec, Safety

-----------------------------------------------------------------------------
(* Failover *)

\* The loop counter and the set of tried deployments keep in step: `tried`
\* lags behind `attempt` exactly while a call is open or has succeeded.
FailoverInv ==
    \A t \in Tasks :
        /\ pc[t] = "get" => attempt[t] = 0
        /\ pc[t] \in Holding \cup {"put"} =>
               at[t] \notin tried[t] /\ attempt[t] = Cardinality(tried[t]) + 1
        /\ reply[t] = "unavailable" =>
               tried[t] = Deps \/ (tried[t] \subseteq Deps /\ Cardinality(tried[t]) >= MaxAttempts)
        /\ reply[t] = "unavailable" => pc[t] = "done"

AttemptInv == TypeInv /\ FailoverInv

\* A turn of the loop keeps the two in step when as many attempts were made
\* as deployments were tried.
LEMMA RouteAttempts ==
    ASSUME TypeInv, NEW t \in Tasks, NEW ex \in SUBSET Deps, NEW load, NEW open,
           Route(t, ex, load, open), attempt[t] = Cardinality(ex),
           reply[t] # "unavailable"
    PROVE  /\ tried'[t] = ex
           /\ pc'[t] \in {"calling", "done"}
           /\ pc'[t] = "calling" => at'[t] \notin ex /\ attempt'[t] = Cardinality(ex) + 1
           /\ reply'[t] = "unavailable" =>
                 pc'[t] = "done" /\ (ex = Deps \/ Cardinality(ex) >= MaxAttempts)
  <1>1. tried'[t] = ex
    BY DEF Route, TypeInv, TypeOK
  <1>2. CASE ~Exhausted(t, ex)
    BY <1>1, <1>2, PoolUntried DEF Route, TypeInv, TypeOK
  <1>3. CASE Exhausted(t, ex)
    BY <1>1, <1>3 DEF Route, Exhausted, TypeInv, TypeOK
  <1> QED BY <1>2, <1>3

\* What a turn of the loop leaves alone.
LEMMA RouteFrame ==
    ASSUME TypeInv, NEW t \in Tasks, NEW ex, NEW load, NEW open, Route(t, ex, load, open)
    PROVE  \A u \in Tasks \ {t} : /\ pc'[u] = pc[u] /\ at'[u] = at[u]
                                  /\ tried'[u] = tried[u] /\ attempt'[u] = attempt[u]
                                  /\ reply'[u] = reply[u]
  BY DEF Route, TypeInv, TypeOK

LEMMA AttemptStep == AttemptInv /\ [Next]_vars => AttemptInv'
  <1> SUFFICES ASSUME AttemptInv, [Next]_vars PROVE FailoverInv'
    BY StepType DEF AttemptInv
  <1> USE DEF AttemptInv
  <1>1. ASSUME NEW t \in Tasks, Arrive(t) PROVE FailoverInv'
    BY <1>1, Places DEF Arrive, FailoverInv, TypeInv, TypeOK, Nothing
  <1>2. ASSUME NEW t \in Tasks, CacheHit(t) PROVE FailoverInv'
    BY <1>2, Places DEF CacheHit, FailoverInv, TypeInv, TypeOK
  <1>3. ASSUME NEW t \in Tasks, CacheMiss(t) PROVE FailoverInv'
    <2>1. Route(t, {}, inFlight, cool) /\ attempt[t] = 0 /\ reply[t] # "unavailable"
      BY <1>3 DEF CacheMiss, FailoverInv
    <2>2. Cardinality({}) = 0
      BY FS_EmptySet
    <2>3. /\ tried'[t] = {} /\ pc'[t] \in {"calling", "done"}
          /\ pc'[t] = "calling" => at'[t] \notin {} /\ attempt'[t] = Cardinality({}) + 1
          /\ reply'[t] = "unavailable" =>
                pc'[t] = "done" /\ ({} = Deps \/ Cardinality({}) >= MaxAttempts)
      BY <2>1, <2>2, RouteAttempts
    <2>4. Cardinality(tried'[t]) = 0 /\ tried'[t] \subseteq Deps
      BY <2>2, <2>3
    <2>5. /\ pc'[t] \in Holding \cup {"put"} =>
                at'[t] \notin tried'[t] /\ attempt'[t] = Cardinality(tried'[t]) + 1
          /\ pc'[t] # "get"
          /\ reply'[t] = "unavailable" =>
                pc'[t] = "done" /\ (tried'[t] = Deps \/ Cardinality(tried'[t]) >= MaxAttempts)
      BY <2>3, Places
    <2> QED BY <2>1, <2>4, <2>5, RouteFrame DEF FailoverInv
  <1>4. ASSUME NEW t \in Tasks, CompleteReturns(t) PROVE FailoverInv'
    BY <1>4, Places DEF CompleteReturns, FailoverInv, TypeInv, TypeOK
  <1>5. ASSUME NEW t \in Tasks, StreamOpens(t) \/ StreamPiece(t) \/ StreamEnds(t)
        PROVE  FailoverInv'
    BY <1>5, Places DEF StreamOpens, StreamPiece, StreamEnds, FailoverInv, TypeInv, TypeOK
  <1>6. ASSUME NEW t \in Tasks, StreamCloses(t) PROVE FailoverInv'
    BY <1>6, Places DEF StreamCloses, FailoverInv, TypeInv, TypeOK
  <1>7. ASSUME NEW t \in Tasks, StorePut(t) \/ Abandon(t)
        PROVE  FailoverInv'
    BY <1>7, Places DEF StorePut, Abandon, FailoverInv, TypeInv, TypeOK
  <1>8. ASSUME NEW t \in Tasks, Retry(t) PROVE FailoverInv'
    <2> DEFINE ex == tried[t] \cup {at[t]}
    <2>1. /\ pc[t] = "calling" /\ at[t] \notin tried[t] /\ reply[t] # "unavailable"
          /\ attempt[t] = Cardinality(tried[t]) + 1
          /\ Route(t, ex, Released(at[t]), Ejected(at[t]))
      BY <1>8, Places DEF Retry, FailoverInv
    <2>2. tried[t] \subseteq Deps /\ at[t] \in Deps
      BY <2>1, Places DEF TypeInv, TypeOK, WellPlaced
    <2>3. Cardinality(ex) = Cardinality(tried[t]) + 1
      BY <2>1, <2>2, DepsAssumption, FS_Subset, FS_AddElement
    <2> HIDE DEF ex
    <2>4. /\ tried'[t] = ex /\ pc'[t] \in {"calling", "done"}
          /\ pc'[t] = "calling" => at'[t] \notin ex /\ attempt'[t] = Cardinality(ex) + 1
          /\ reply'[t] = "unavailable" =>
                pc'[t] = "done" /\ (ex = Deps \/ Cardinality(ex) >= MaxAttempts)
      <3>1. ex \in SUBSET Deps
        BY <2>2 DEF ex
      <3> QED BY <2>1, <2>3, <3>1, RouteAttempts
    <2>5. ex \subseteq Deps
      BY <2>2 DEF ex
    <2> QED BY <2>1, <2>4, <2>5, RouteFrame, Places DEF FailoverInv
  <1>9. ASSUME NEW t \in Tasks, Fatal(t) PROVE FailoverInv'
    BY <1>9, Places DEF Fatal, FailoverInv, TypeInv, TypeOK
  <1>10. CASE (\E p \in Prompts : Expire(p)) \/ Tick \/ UNCHANGED vars
    BY <1>10 DEF Expire, Tick, vars, FailoverInv
  <1> QED
    BY <1>1, <1>2, <1>3, <1>4, <1>5, <1>6, <1>7, <1>8, <1>9, <1>10 DEF Next, Work

LEMMA AttemptInit == Init => AttemptInv
  BY InitType, Places DEF Init, AttemptInv, FailoverInv, Nothing

\* Every attempt of a request goes to a deployment it has not called before.
THEOREM AttemptsAreDistinct == Spec => []AttemptsDistinct
  <1>1. AttemptInv => AttemptsDistinct
    BY DEF AttemptInv, FailoverInv, AttemptsDistinct
  <1> QED BY AttemptInit, AttemptStep, <1>1, PTL DEF Spec, Safety

\* With at least as many attempts as deployments, a request is refused as
\* unavailable only after every deployment failed it.  The assumption is what
\* service.py:57 gets wrong: it counts providers.
THEOREM GivesUpLast ==
    ASSUME MaxAttempts >= Cardinality(Deps)
    PROVE  Spec => []NoEarlyGiveUp
  <1>1. ASSUME NEW S \in SUBSET Deps, Cardinality(S) >= MaxAttempts
        PROVE  S = Deps
    <2>1. Cardinality(S) \in Nat /\ Cardinality(Deps) \in Nat
      BY DepsAssumption, FS_Subset, FS_CardinalityType
    <2>2. Cardinality(S) >= Cardinality(Deps)
      BY <1>1, <2>1, AttemptsAssumption
    <2> QED BY <2>1, <2>2, DepsAssumption, FS_Subset
  <1>2. AttemptInv => NoEarlyGiveUp
    BY <1>1 DEF AttemptInv, FailoverInv, NoEarlyGiveUp
  <1> QED BY AttemptInit, AttemptStep, <1>2, PTL DEF Spec, Safety

-----------------------------------------------------------------------------
(* The circuit breaker and the cache *)

\* An open circuit is called only when every untried deployment's is open.
THEOREM OpenCircuitComesLast == Spec => OpenCircuitIsLastResort
  <1> DEFINE A == \A t \in Tasks :
                     attempt'[t] > attempt[t] /\ cool'[at'[t]] > 0 =>
                         \A d \in Deps \ tried'[t] : cool'[d] > 0
  <1>1. TypeInv /\ [Next]_vars => [A]_vars
    <2> SUFFICES ASSUME TypeInv, Next, NEW t \in Tasks,
                        attempt'[t] > attempt[t], cool'[at'[t]] > 0,
                        NEW d \in Deps \ tried'[t]
                 PROVE  cool'[d] > 0
      OBVIOUS
    <2>0. TypeInv'
      BY StepType
    <2>1. /\ attempt \in [Tasks -> Nat]
          /\ cool' \in [Deps -> 0..Cooldown]
      BY <2>0 DEF TypeInv, TypeOK
    <2>2. ASSUME NEW ex, NEW load, NEW open, Route(t, ex, load, open)
          PROVE  cool'[d] > 0
      <3>1. attempt' # attempt
        BY <2>1
      <3>2. PICK e \in Pool(ex, open) : at' = [at EXCEPT ![t] = e]
        BY <2>2, <3>1 DEF Route
      <3>3. at'[t] = e /\ tried'[t] = ex /\ cool' = open
        BY <2>2, <3>2 DEF Route, TypeInv, TypeOK
      <3>4. open[e] # 0
        BY <3>3
      <3>5. open[d] # 0
        BY <3>2, <3>3, <3>4, PoolUntried
      <3> QED BY <2>1, <3>3, <3>5, BreakerAssumption
    <2>3. ASSUME NEW u \in Tasks, CacheMiss(u) \/ Retry(u) PROVE cool'[d] > 0
      <3>1. PICK ex, load, open : Route(u, ex, load, open)
        BY <2>3 DEF CacheMiss, Retry
      <3>2. u = t
        BY <2>1, <3>1, RouteFrame
      <3> QED BY <2>2, <3>1, <3>2
    <2>4. ASSUME NEW u \in Tasks,
                 \/ Arrive(u) \/ CacheHit(u) \/ CompleteReturns(u) \/ StreamOpens(u)
                 \/ StreamPiece(u) \/ StreamEnds(u) \/ StreamCloses(u) \/ StorePut(u)
                 \/ Fatal(u) \/ Abandon(u)
          PROVE  FALSE
      <3>1. attempt' = attempt \/ attempt' = [attempt EXCEPT ![u] = 0]
        BY <2>4 DEF Arrive, CacheHit, CompleteReturns, StreamOpens, StreamPiece,
                    StreamEnds, StreamCloses, StorePut, Fatal, Abandon
      <3> QED BY <2>1, <3>1
    <2>5. ASSUME (\E p \in Prompts : Expire(p)) \/ Tick PROVE FALSE
      BY <2>1, <2>5 DEF Expire, Tick
    <2> QED BY <2>3, <2>4, <2>5 DEF Next, Work
  <1> QED BY InitType, StepType, <1>1, PTL DEF Spec, Safety, OpenCircuitIsLastResort

\* Whatever upstream and the clients do, the cache keeps only whole answers.
CacheInv ==
    /\ CacheHoldsWhole
    /\ \A t \in Tasks : pc[t] \in {"closing", "put"} => ans[t].whole

LEMMA CacheStep == TypeInv /\ CacheInv /\ [Next]_vars => CacheInv'
  <1> SUFFICES ASSUME TypeInv, CacheInv, [Next]_vars PROVE CacheInv'
    OBVIOUS
  <1> USE DEF CacheInv, CacheHoldsWhole, TypeInv
  <1>1. ASSUME NEW t \in Tasks, Arrive(t) \/ CacheHit(t) PROVE CacheInv'
    BY <1>1 DEF Arrive, CacheHit, TypeOK, depVars
  <1>2. ASSUME NEW t \in Tasks, CacheMiss(t) \/ Retry(t) PROVE CacheInv'
    <2>1. PICK ex, load, open : Route(t, ex, load, open)
      BY <1>2 DEF CacheMiss, Retry
    <2>2. cache' = cache /\ ans' = ans
      BY <1>2 DEF CacheMiss, Retry
    <2>3. pc'[t] \in {"calling", "done"}
      BY <2>1 DEF Route, TypeOK
    <2> QED BY <2>1, <2>2, <2>3, RouteOthers
  <1>3. ASSUME NEW t \in Tasks, CompleteReturns(t) PROVE CacheInv'
    BY <1>3 DEF CompleteReturns, TypeOK
  <1>4. ASSUME NEW t \in Tasks, StreamOpens(t) \/ StreamPiece(t) PROVE CacheInv'
    BY <1>4 DEF StreamOpens, StreamPiece, TypeOK
  <1>5. ASSUME NEW t \in Tasks, StreamEnds(t) PROVE CacheInv'
    <2>1. ans[t] \in Answers
      BY <1>5 DEF StreamEnds, WellPlaced
    <2>2. ans'[t].whole
      BY <1>5, <2>1 DEF StreamEnds, TypeOK, Answers
    <2> QED BY <1>5, <2>2 DEF StreamEnds, TypeOK
  <1>6. ASSUME NEW t \in Tasks, StreamCloses(t) PROVE CacheInv'
    BY <1>6 DEF StreamCloses, TypeOK
  <1>7. ASSUME NEW t \in Tasks, StorePut(t) PROVE CacheInv'
    BY <1>7 DEF StorePut, TypeOK
  <1>8. ASSUME NEW t \in Tasks, Fatal(t) \/ Abandon(t) PROVE CacheInv'
    BY <1>8 DEF Fatal, Abandon, TypeOK
  <1>9. ASSUME NEW p \in Prompts, Expire(p) PROVE CacheInv'
    BY <1>9 DEF Expire, TypeOK
  <1>10. CASE Tick \/ UNCHANGED vars
    BY <1>10 DEF Tick, vars
  <1> QED
    BY <1>1, <1>2, <1>3, <1>4, <1>5, <1>6, <1>7, <1>8, <1>9, <1>10 DEF Next, Work

\* The cache holds only answers that upstream ended, however clients and
\* upstream interrupt the streams that are collected for it (service.py:229).
THEOREM CacheIsWhole == Spec => []CacheHoldsWhole
  <1>1. Init => CacheInv
    BY DEF Init, CacheInv, CacheHoldsWhole
  <1>2. CacheInv => CacheHoldsWhole
    BY DEF CacheInv
  <1> QED BY InitType, StepType, CacheStep, <1>1, <1>2, PTL DEF Spec, Safety

-----------------------------------------------------------------------------
(* What a client receives *)

\* The events a handler has sent have one author.
OneAuthor(o) == \A i, j \in 1..Len(o) : o[i].from = o[j].from

\* [DONE] only after all of the answer.
WholeIfDone(o, answer) ==
    LET n == Len(o)
    IN  n > 0 /\ o[n].kind = "done" =>
            /\ answer.whole
            /\ o[1].kind = "role" /\ o[n-1].kind = "stop"
            /\ \A i \in 2..(n-2) : o[i].kind = "piece"
            /\ o[1].from \in Deps => n = answer.pieces + 3

\* The first n events of a stream: the role chunk and the pieces, all from the
\* deployment the handler calls.
Opened(t, n) ==
    /\ out[t][1] = Event("role", at[t])
    /\ \A i \in 2..n : out[t][i] = Event("piece", at[t])

\* What a handler has sent at the point where it is suspended: nothing before
\* the stream opens, and nothing at all for a blocking request, until it is done.
SentAt(t) ==
    /\ pc[t] \in {"get", "calling"} => out[t] = << >>
    /\ pc[t] = "put" /\ ~req[t].stream => out[t] = << >>
    /\ pc[t] \in {"streaming", "closing"} => req[t].stream
    /\ pc[t] = "streaming" => Len(out[t]) = ans[t].pieces + 1 /\ Opened(t, ans[t].pieces + 1)
    /\ pc[t] = "closing" \/ (pc[t] = "put" /\ req[t].stream) =>
           /\ Len(out[t]) = ans[t].pieces + 3 /\ Opened(t, ans[t].pieces + 1)
           /\ out[t][ans[t].pieces + 2] = Event("stop", at[t])
           /\ out[t][ans[t].pieces + 3] = Event("done", at[t])
    /\ pc[t] \in Idle => OneAuthor(out[t]) /\ WholeIfDone(out[t], ans[t])

SentInv == \A t \in Tasks : SentAt(t)

\* What a suspended handler has sent is as the two properties ask.
LEMMA SentIsSound ==
    ASSUME TypeInv, CacheInv, NEW t \in Tasks, SentAt(t)
    PROVE  OneAuthor(out[t]) /\ WholeIfDone(out[t], ans[t])
  <1>0. pc[t] \in PCs /\ out[t] \in Seq(Events)
    BY DEF TypeInv, TypeOK
  <1>1. CASE pc[t] \in Idle
    BY <1>1 DEF SentAt
  <1>2. CASE pc[t] \in {"get", "calling"} \/ (pc[t] = "put" /\ ~req[t].stream)
    <2>1. out[t] = << >> /\ Len(out[t]) = 0
      BY <1>2 DEF SentAt
    <2> QED BY <2>1 DEF OneAuthor, WholeIfDone
  <1>3. CASE pc[t] = "streaming"
    <2>1. ans[t].pieces \in Nat
      BY <1>3, BoundsAssumption DEF TypeInv, WellPlaced, Answers
    <2>2. Len(out[t]) = ans[t].pieces + 1 /\ Opened(t, ans[t].pieces + 1)
      BY <1>3 DEF SentAt
    <2>3. \A i \in 1..Len(out[t]) :
              out[t][i].from = at[t] /\ out[t][i].kind \in {"role", "piece"}
      BY <2>1, <2>2 DEF Opened, Event
    <2> QED BY <2>1, <2>2, <2>3 DEF OneAuthor, WholeIfDone
  <1>4. CASE pc[t] = "closing" \/ (pc[t] = "put" /\ req[t].stream)
    <2>0. ans[t].pieces \in Nat /\ ans[t].whole
      BY <1>4, BoundsAssumption DEF TypeInv, WellPlaced, Answers, CacheInv
    <2>1. PICK p \in Nat : p = ans[t].pieces
      BY <2>0
    <2>2. /\ Len(out[t]) = p + 3 /\ Opened(t, p + 1)
          /\ out[t][p + 2] = Event("stop", at[t]) /\ out[t][p + 3] = Event("done", at[t])
      BY <1>4, <2>1 DEF SentAt
    <2>3. \A i \in 1..Len(out[t]) : out[t][i].from = at[t]
      <3>1. \A i \in 1..Len(out[t]) : i = 1 \/ i \in 2..(p + 1) \/ i = p + 2 \/ i = p + 3
        BY <2>2
      <3>2. \A k : Event(k, at[t]).from = at[t]
        BY DEF Event
      <3> QED BY <2>2, <3>1, <3>2 DEF Opened
    <2>4. out[t][1].kind = "role" /\ \A i \in 2..(p + 1) : out[t][i].kind = "piece"
      BY <2>2 DEF Opened, Event
    <2>5. out[t][p + 2].kind = "stop"
      BY <2>2 DEF Event
    <2>6. OneAuthor(out[t])
      BY <2>3 DEF OneAuthor
    <2>7. WholeIfDone(out[t], ans[t])
      <3>1. Len(out[t]) - 1 = p + 2 /\ Len(out[t]) - 2 = p + 1 /\ Len(out[t]) = p + 3
        BY <2>1, <2>2
      <3> QED BY <2>0, <2>1, <2>4, <2>5, <3>1 DEF WholeIfDone
    <2> QED BY <2>6, <2>7
  <1> QED BY <1>0, <1>1, <1>2, <1>3, <1>4, Places

\* An answer that is one error event, or no event, is sound.
LEMMA BriefIsSound ==
    ASSUME NEW o \in {<< >>, << Event("error", Self) >>}, NEW answer
    PROVE  OneAuthor(o) /\ WholeIfDone(o, answer)
  <1>1. CASE o = << >>
    BY <1>1 DEF OneAuthor, WholeIfDone
  <1>2. CASE o = << Event("error", Self) >>
    <2>1. Len(o) = 1 /\ o[1].kind = "error"
      BY <1>2 DEF Event
    <2> QED BY <2>1 DEF OneAuthor, WholeIfDone
  <1> QED BY <1>1, <1>2

\* A turn of the loop sends at most one error event, to a client that has been
\* sent nothing.
LEMMA RouteSends ==
    ASSUME TypeInv, NEW t \in Tasks, NEW ex, NEW load, NEW open, Route(t, ex, load, open),
           out[t] = << >>
    PROVE  /\ \/ pc'[t] = "calling" /\ out'[t] = << >>
              \/ pc'[t] = "done" /\ out'[t] \in {<< >>, << Event("error", Self) >>}
           /\ \A u \in Tasks \ {t} : pc'[u] = pc[u] /\ at'[u] = at[u] /\ out'[u] = out[u]
  <1>0. pc \in [Tasks -> PCs] /\ at \in [Tasks -> Deps \cup {Nothing}]
        /\ out \in [Tasks -> Seq(Events)]
    BY DEF TypeInv, TypeOK
  <1>1. CASE UNCHANGED out
    BY <1>0, <1>1, RouteOthers DEF Route
  <1>2. CASE out' = [out EXCEPT ![t] = Append(@, Event("error", Self))] /\ Exhausted(t, ex)
    <2>1. out'[t] = << Event("error", Self) >>
      BY <1>0, <1>2
    <2> QED BY <1>0, <1>2, <2>1, RouteOthers DEF Route
  <1> QED BY <1>1, <1>2 DEF Route

\* The events, requests and answers of the other handlers stay.
Silent(t) ==
    \A u \in Tasks \ {t} :
        /\ pc'[u] = pc[u] /\ at'[u] = at[u] /\ out'[u] = out[u]
        /\ ans'[u] = ans[u] /\ req'[u] = req[u]

LEMMA SentAlone ==
    ASSUME SentInv, NEW t \in Tasks, Silent(t), SentAt(t)'
    PROVE  SentInv'
  <1>1. ASSUME NEW u \in Tasks \ {t} PROVE SentAt(u)'
    <2>1. /\ SentAt(u) /\ pc'[u] = pc[u] /\ at'[u] = at[u] /\ out'[u] = out[u]
          /\ ans'[u] = ans[u] /\ req'[u] = req[u]
      BY DEF SentInv, Silent
    <2> QED BY <2>1 DEF SentAt, Opened, OneAuthor, WholeIfDone
  <1> QED BY <1>1 DEF SentInv

\* Two events at the end of those sent before.
LEMMA TwoMore ==
    ASSUME NEW S, NEW o \in Seq(S), NEW a, NEW b
    PROVE  /\ Len(o \o <<a, b>>) = Len(o) + 2
           /\ (o \o <<a, b>>)[Len(o) + 1] = a /\ (o \o <<a, b>>)[Len(o) + 2] = b
           /\ \A i \in 1..Len(o) : (o \o <<a, b>>)[i] = o[i]
  OBVIOUS

LEMMA SentStep == TypeInv /\ CacheInv /\ SentInv /\ [Next]_vars => SentInv'
  <1> SUFFICES ASSUME TypeInv, CacheInv, SentInv, [Next]_vars PROVE SentInv'
    OBVIOUS
  <1>0. /\ pc \in [Tasks -> PCs] /\ at \in [Tasks -> Deps \cup {Nothing}]
        /\ out \in [Tasks -> Seq(Events)] /\ req \in [Tasks -> Requests \cup {NoRequest}]
        /\ ans \in [Tasks -> Answers \cup {NoAnswer}]
        /\ \A t \in Tasks : SentAt(t)
    BY DEF TypeInv, TypeOK, SentInv
  <1>1. ASSUME NEW t \in Tasks, Arrive(t) PROVE SentInv'
    <2>1. Silent(t) /\ pc'[t] = "get" /\ out'[t] = << >>
      BY <1>0, <1>1 DEF Arrive, Silent
    <2>2. SentAt(t)'
      BY <2>1, Places DEF SentAt
    <2> QED BY <2>1, <2>2, SentAlone
  <1>2. ASSUME NEW t \in Tasks, CacheHit(t) PROVE SentInv'
    <2> DEFINE replay == << Event("role", Store), Event("piece", Store),
                            Event("stop", Store), Event("done", Store) >>
    <2>1. /\ Silent(t) /\ pc'[t] = "done" /\ pc[t] = "get"
          /\ ans'[t] = cache[req[t].prompt] /\ cache[req[t].prompt] # NoAnswer
          /\ out'[t] = IF req[t].stream THEN replay ELSE out[t]
      BY <1>0, <1>2 DEF CacheHit, Silent
    <2>2. req[t].prompt \in Prompts
      BY <2>1 DEF TypeInv, WellPlaced, Requests
    <2>3. ans'[t].whole
      BY <2>1, <2>2 DEF CacheInv, CacheHoldsWhole
    <2>4. CASE ~req[t].stream
      <3>1. out'[t] = << >>
        BY <1>0, <2>1, <2>4 DEF SentAt
      <3>2. OneAuthor(out'[t]) /\ WholeIfDone(out'[t], ans'[t])
        BY <3>1 DEF OneAuthor, WholeIfDone
      <3>3. SentAt(t)'
        BY <2>1, <3>2, Places DEF SentAt
      <3> QED BY <2>1, <3>3, SentAlone
    <2>5. CASE req[t].stream
      <3>1. /\ Len(out'[t]) = 4
            /\ out'[t][1] = Event("role", Store) /\ out'[t][2] = Event("piece", Store)
            /\ out'[t][3] = Event("stop", Store) /\ out'[t][4] = Event("done", Store)
        BY <2>1, <2>5
      <3>2. \A i \in 1..4 : out'[t][i].from = Store
        BY <3>1 DEF Event
      <3>3. /\ out'[t][1].kind = "role" /\ out'[t][2].kind = "piece"
            /\ out'[t][3].kind = "stop"
        BY <3>1 DEF Event
      <3>4. Store \notin Deps
        BY NamesAssumption
      <3>5. OneAuthor(out'[t]) /\ WholeIfDone(out'[t], ans'[t])
        BY <2>3, <3>1, <3>2, <3>3, <3>4 DEF OneAuthor, WholeIfDone
      <3>6. SentAt(t)'
        BY <2>1, <3>5, Places DEF SentAt
      <3> QED BY <2>1, <3>6, SentAlone
    <2> QED BY <2>4, <2>5
  <1>3. ASSUME NEW t \in Tasks, CacheMiss(t) \/ Retry(t) PROVE SentInv'
    <2>1. PICK ex, load, open : Route(t, ex, load, open)
      BY <1>3 DEF CacheMiss, Retry
    <2>2. out[t] = << >> /\ req' = req /\ ans' = ans
      BY <1>0, <1>3 DEF CacheMiss, Retry, SentAt
    <2>3. /\ \/ pc'[t] = "calling" /\ out'[t] = << >>
             \/ pc'[t] = "done" /\ out'[t] \in {<< >>, << Event("error", Self) >>}
          /\ Silent(t)
      BY <2>1, <2>2, RouteSends DEF Silent
    <2>4. CASE pc'[t] = "calling" /\ out'[t] = << >>
      BY <2>3, <2>4, SentAlone, Places DEF SentAt
    <2>5. CASE pc'[t] = "done" /\ out'[t] \in {<< >>, << Event("error", Self) >>}
      <3>1. OneAuthor(out'[t]) /\ WholeIfDone(out'[t], ans'[t])
        BY <2>5, BriefIsSound
      <3> QED BY <2>3, <2>5, <3>1, SentAlone, Places DEF SentAt
    <2> QED BY <2>3, <2>4, <2>5
  <1>4. ASSUME NEW t \in Tasks, CompleteReturns(t) PROVE SentInv'
    <2>1. /\ Silent(t) /\ pc'[t] = "put" /\ out'[t] = << >> /\ ~req'[t].stream
      BY <1>0, <1>4 DEF CompleteReturns, Silent, SentAt
    <2>2. SentAt(t)'
      BY <2>1, Places DEF SentAt
    <2> QED BY <2>1, <2>2, SentAlone
  <1>5. ASSUME NEW t \in Tasks, StreamOpens(t) PROVE SentInv'
    <2>1. PICK n \in 0..1 :
            /\ ans' = [ans EXCEPT ![t] = [from |-> at[t], pieces |-> n, whole |-> FALSE]]
            /\ out' = [out EXCEPT ![t] = @ \o << Event("role", at[t]) >>
                            \o [i \in 1..n |-> Event("piece", at[t])]]
      BY <1>5 DEF StreamOpens
    <2>2. /\ Silent(t) /\ pc'[t] = "streaming" /\ ans'[t].pieces = n /\ at'[t] = at[t]
          /\ req'[t].stream /\ out[t] = << >>
      BY <1>0, <1>5, <2>1 DEF StreamOpens, Silent, SentAt
    <2>3. out'[t] = << >> \o << Event("role", at[t]) >> \o [i \in 1..n |-> Event("piece", at[t])]
      BY <1>0, <2>1, <2>2
    <2>4. /\ Len(out'[t]) = n + 1 /\ out'[t][1] = Event("role", at[t])
          /\ \A i \in 2..(n + 1) : out'[t][i] = Event("piece", at[t])
      BY <2>3
    <2>5. SentAt(t)'
      BY <2>2, <2>4, Places DEF SentAt, Opened
    <2> QED BY <2>2, <2>5, SentAlone
  <1>6. ASSUME NEW t \in Tasks, StreamPiece(t) PROVE SentInv'
    <2>0. ans[t] \in Answers /\ ans[t].pieces \in Nat
      BY <1>6, BoundsAssumption DEF StreamPiece, TypeInv, WellPlaced, Answers
    <2>1. PICK p \in Nat : p = ans[t].pieces
      BY <2>0
    <2>2. /\ Silent(t) /\ pc'[t] = "streaming" /\ ans'[t].pieces = p + 1 /\ at'[t] = at[t]
          /\ req'[t].stream /\ out'[t] = Append(out[t], Event("piece", at[t]))
      BY <1>0, <1>6, <2>0, <2>1 DEF StreamPiece, Silent, SentAt, Answers
    <2>3. Len(out[t]) = p + 1 /\ Opened(t, p + 1)
      BY <1>0, <1>6, <2>1 DEF StreamPiece, SentAt
    <2>4. Len(out'[t]) = p + 2 /\ out'[t][p + 2] = Event("piece", at[t])
          /\ \A i \in 1..(p + 1) : out'[t][i] = out[t][i]
      BY <1>0, <2>1, <2>2, <2>3
    <2>5. Opened(t, p + 2)'
      <3>1. 1 \in 1..(p + 1)
        OBVIOUS
      <3>2. \A i \in 2..(p + 2) : i = p + 2 \/ (i \in 2..(p + 1) /\ i \in 1..(p + 1))
        OBVIOUS
      <3> QED BY <2>2, <2>3, <2>4, <3>1, <3>2 DEF Opened
    <2>6. SentAt(t)'
      BY <2>1, <2>2, <2>4, <2>5, Places DEF SentAt
    <2> QED BY <2>2, <2>6, SentAlone
  <1>7. ASSUME NEW t \in Tasks, StreamEnds(t) PROVE SentInv'
    <2>0. ans[t] \in Answers /\ ans[t].pieces \in Nat
      BY <1>7, BoundsAssumption DEF StreamEnds, TypeInv, WellPlaced, Answers
    <2>1. PICK p \in Nat : p = ans[t].pieces
      BY <2>0
    <2>2. /\ Silent(t) /\ pc'[t] = "closing" /\ ans'[t].pieces = p /\ at'[t] = at[t]
          /\ req'[t].stream
          /\ out'[t] = out[t] \o << Event("stop", at[t]), Event("done", at[t]) >>
      BY <1>0, <1>7, <2>0, <2>1 DEF StreamEnds, Silent, SentAt, Answers
    <2>3. Len(out[t]) = p + 1 /\ Opened(t, p + 1)
      BY <1>0, <1>7, <2>1 DEF StreamEnds, SentAt
    <2>4. /\ Len(out'[t]) = p + 3
          /\ out'[t][p + 2] = Event("stop", at[t]) /\ out'[t][p + 3] = Event("done", at[t])
          /\ \A i \in 1..(p + 1) : out'[t][i] = out[t][i]
      <3>1. out[t] \in Seq(Events)
        BY <1>0
      <3> DEFINE o == out[t]
                 a == Event("stop", at[t])
                 b == Event("done", at[t])
      <3> HIDE DEF o, a, b
      <3>2. /\ Len(o \o <<a, b>>) = Len(o) + 2
            /\ (o \o <<a, b>>)[Len(o) + 1] = a /\ (o \o <<a, b>>)[Len(o) + 2] = b
            /\ \A i \in 1..Len(o) : (o \o <<a, b>>)[i] = o[i]
        BY <3>1, TwoMore DEF o
      <3>3. out'[t] = o \o <<a, b>> /\ Len(o) = p + 1
        BY <2>2, <2>3 DEF o, a, b
      <3>4. Len(o) + 1 = p + 2 /\ Len(o) + 2 = p + 3
        BY <3>3
      <3> QED BY <3>2, <3>3, <3>4 DEF o, a, b
    <2>5. Opened(t, p + 1)'
      BY <2>1, <2>2, <2>3, <2>4 DEF Opened
    <2>6. SentAt(t)'
      BY <2>1, <2>2, <2>4, <2>5, Places DEF SentAt
    <2> QED BY <2>2, <2>6, SentAlone
  <1>8. ASSUME NEW t \in Tasks, StreamCloses(t) PROVE SentInv'
    <2>1. /\ Silent(t) /\ pc'[t] = "put" /\ pc[t] = "closing"
          /\ at' = at /\ ans' = ans /\ out' = out /\ req' = req
      BY <1>0, <1>8 DEF StreamCloses, Silent
    <2>2. SentAt(t)'
      BY <1>0, <2>1, Places DEF SentAt, Opened
    <2> QED BY <2>1, <2>2, SentAlone
  <1>9. ASSUME NEW t \in Tasks, StorePut(t) \/ Abandon(t) PROVE SentInv'
    <2>1. /\ Silent(t) /\ pc'[t] = "done" /\ ans' = ans /\ out' = out
      BY <1>0, <1>9 DEF StorePut, Abandon, Silent
    <2>2. OneAuthor(out[t]) /\ WholeIfDone(out[t], ans[t])
      BY <1>0, SentIsSound
    <2>3. SentAt(t)'
      BY <2>1, <2>2, Places DEF SentAt, OneAuthor, WholeIfDone
    <2> QED BY <2>1, <2>3, SentAlone
  <1>10. ASSUME NEW t \in Tasks, Fatal(t) PROVE SentInv'
    <2>1. /\ Silent(t) /\ pc'[t] = "done" /\ out[t] = << >>
          /\ out'[t] \in {out[t], Append(out[t], Event("error", Self))}
      BY <1>0, <1>10 DEF Fatal, Silent, SentAt
    <2>2. OneAuthor(out'[t]) /\ WholeIfDone(out'[t], ans'[t])
      <3>1. out'[t] \in {<< >>, << Event("error", Self) >>}
        BY <2>1
      <3> QED BY <3>1, BriefIsSound
    <2>3. SentAt(t)'
      BY <2>1, <2>2, Places DEF SentAt
    <2> QED BY <2>1, <2>3, SentAlone
  <1>11. CASE (\E p \in Prompts : Expire(p)) \/ Tick \/ UNCHANGED vars
    <2>1. UNCHANGED <<pc, req, at, ans, out>>
      BY <1>11 DEF Expire, Tick, vars
    <2> QED BY <2>1 DEF SentInv, SentAt, Opened, OneAuthor, WholeIfDone
  <1> QED
    BY <1>1, <1>2, <1>3, <1>4, <1>5, <1>6, <1>7, <1>8, <1>9, <1>10, <1>11 DEF Next, Work

LEMMA SentInit == Init => CacheInv /\ SentInv
  <1> SUFFICES ASSUME Init PROVE CacheInv /\ SentInv
    OBVIOUS
  <1>1. CacheInv
    BY DEF Init, CacheInv, CacheHoldsWhole
  <1>2. ASSUME NEW t \in Tasks PROVE SentAt(t)
    <2>1. pc[t] = "idle" /\ out[t] = << >>
      BY DEF Init
    <2> QED BY <2>1, BriefIsSound, Places DEF SentAt
  <1> QED BY <1>1, <1>2 DEF SentInv

\* Pieces of two deployments, or an answer and an error event, never mix in
\* what one client receives, whatever failovers and faults there are.
THEOREM OneVoiceAlways == Spec => []OneVoice
  <1>1. TypeInv /\ CacheInv /\ SentInv => OneVoice
    BY SentIsSound DEF SentInv, OneVoice, OneAuthor
  <1> QED BY InitType, SentInit, StepType, CacheStep, SentStep, <1>1, PTL DEF Spec, Safety

\* A client that is sent [DONE] was sent the whole answer.
THEOREM DoneIsWhole == Spec => []DoneMeansWhole
  <1>1. TypeInv /\ CacheInv /\ SentInv => DoneMeansWhole
    BY SentIsSound DEF SentInv, DoneMeansWhole, WholeIfDone
  <1> QED BY InitType, SentInit, StepType, CacheStep, SentStep, <1>1, PTL DEF Spec, Safety

-----------------------------------------------------------------------------
(* The gateway implements Failover *)

\* Failover's variables, at a handler: the mapping of Promise.
PhaseOf(t) == IF pc[t] \in Idle THEN pc[t] ELSE "open"
VisitedBy(t) == IF at[t] = Nothing THEN {} ELSE tried[t] \cup {at[t]}

\* A request has no verdict while a handler serves it, and has visited nothing
\* while the handler awaits the cache.
OpenInv ==
    \A t \in Tasks :
        /\ pc[t] \notin Idle => reply[t] = Nothing
        /\ pc[t] = "get" => at[t] = Nothing /\ tried[t] = {}

LEMMA OpenStep == TypeInv /\ OpenInv /\ [Next]_vars => OpenInv'
  <1> SUFFICES ASSUME TypeInv, OpenInv, [Next]_vars PROVE OpenInv'
    OBVIOUS
  <1>0. /\ pc \in [Tasks -> PCs] /\ reply \in [Tasks -> Replies]
        /\ at \in [Tasks -> Deps \cup {Nothing}] /\ tried \in [Tasks -> SUBSET Deps]
    BY DEF TypeInv, TypeOK
  <1>1. ASSUME NEW t \in Tasks, Arrive(t) PROVE OpenInv'
    BY <1>0, <1>1 DEF Arrive, OpenInv
  <1>2. ASSUME NEW t \in Tasks, CacheMiss(t) \/ Retry(t) PROVE OpenInv'
    <2>1. PICK ex, load, open : Route(t, ex, load, open)
      BY <1>2 DEF CacheMiss, Retry
    <2>2. reply[t] = Nothing
      BY <1>2, Places DEF CacheMiss, Retry, OpenInv
    <2>3. pc'[t] \in {"calling", "done"} /\ (pc'[t] = "calling" => reply'[t] = Nothing)
      BY <1>0, <2>1, <2>2 DEF Route
    <2> QED BY <2>1, <2>3, RouteFrame, Places DEF OpenInv
  <1>3. ASSUME NEW t \in Tasks,
               \/ CompleteReturns(t) \/ StreamOpens(t) \/ StreamPiece(t)
               \/ StreamEnds(t) \/ StreamCloses(t)
        PROVE  OpenInv'
    BY <1>0, <1>3, Places
       DEF CompleteReturns, StreamOpens, StreamPiece, StreamEnds, StreamCloses, OpenInv
  <1>4. ASSUME NEW t \in Tasks, CacheHit(t) \/ StorePut(t) \/ Fatal(t) \/ Abandon(t)
        PROVE  OpenInv'
    BY <1>0, <1>4, Places DEF CacheHit, StorePut, Fatal, Abandon, OpenInv
  <1>5. CASE (\E p \in Prompts : Expire(p)) \/ Tick \/ UNCHANGED vars
    BY <1>5 DEF Expire, Tick, vars, OpenInv
  <1> QED BY <1>1, <1>2, <1>3, <1>4, <1>5 DEF Next, Work

\* What Failover sees of the other handlers stays.
Unseen(t) ==
    \A u \in Tasks \ {t} :
        /\ PhaseOf(u)' = PhaseOf(u) /\ VisitedBy(u)' = VisitedBy(u)
        /\ reply'[u] = reply[u]

\* A step that calls one more deployment is a Call.
LEMMA IsCall ==
    ASSUME TypeInv, TypeInv', NEW t \in Tasks, Unseen(t),
           PhaseOf(t) = "open", PhaseOf(t)' = "open", reply[t] = Nothing, reply'[t] = Nothing,
           NEW d \in Deps \ VisitedBy(t), VisitedBy(t)' = VisitedBy(t) \cup {d}
    PROVE  Promise!Call(t)
  <1>1. [u \in Tasks |-> PhaseOf(u)]' = [u \in Tasks |-> PhaseOf(u)]
    BY DEF Unseen
  <1>2. [u \in Tasks |-> VisitedBy(u)]' =
            [[u \in Tasks |-> VisitedBy(u)] EXCEPT ![t] = @ \cup {d}]
    BY DEF Unseen
  <1>3. reply' = reply
    BY DEF Unseen, TypeInv, TypeOK
  <1>4. reply[t] = "none"
    BY DEF Nothing
  <1> QED BY <1>1, <1>2, <1>3, <1>4 DEF Promise!Call, PhaseOf, VisitedBy

\* A step that ends a request with a verdict it may end with is an End.
LEMMA IsEnd ==
    ASSUME TypeInv, TypeInv', NEW t \in Tasks, Unseen(t),
           PhaseOf(t) = "open", PhaseOf(t)' = "done", VisitedBy(t)' = VisitedBy(t),
           reply'[t] \in {"ok", "aborted", "upstream_error", "unavailable"},
           reply'[t] = "upstream_error" => VisitedBy(t) # {},
           reply'[t] = "unavailable" => VisitedBy(t) = Deps
    PROVE  Promise!End(t)
  <1> DEFINE verdict == reply'[t]
  <1>1. [u \in Tasks |-> PhaseOf(u)]' = [[u \in Tasks |-> PhaseOf(u)] EXCEPT ![t] = "done"]
    BY DEF Unseen
  <1>2. [u \in Tasks |-> VisitedBy(u)]' = [u \in Tasks |-> VisitedBy(u)]
    BY DEF Unseen
  <1>3. reply' = [reply EXCEPT ![t] = verdict]
    BY DEF Unseen, TypeInv, TypeOK
  <1> QED BY <1>1, <1>2, <1>3 DEF Promise!End, PhaseOf, VisitedBy

\* A step that Failover does not see.
LEMMA IsStutter ==
    ASSUME TypeInv, TypeInv',
           \A u \in Tasks : /\ PhaseOf(u)' = PhaseOf(u) /\ VisitedBy(u)' = VisitedBy(u)
                            /\ reply'[u] = reply[u]
    PROVE  UNCHANGED Promise!vars
  <1>1. [u \in Tasks |-> PhaseOf(u)]' = [u \in Tasks |-> PhaseOf(u)]
    OBVIOUS
  <1>2. [u \in Tasks |-> VisitedBy(u)]' = [u \in Tasks |-> VisitedBy(u)]
    OBVIOUS
  <1>3. reply' = reply
    BY DEF TypeInv, TypeOK
  <1> QED BY <1>1, <1>2, <1>3 DEF Promise!vars, PhaseOf, VisitedBy

\* A turn of the loop is a Call or an End, when what it excludes is what the
\* request has visited and counts as many attempts.
LEMMA RouteRefines ==
    ASSUME MaxAttempts >= Cardinality(Deps),
           TypeInv, TypeInv', NEW t \in Tasks, pc[t] \in {"get", "calling"},
           NEW load, NEW open, Route(t, VisitedBy(t), load, open),
           attempt[t] = Cardinality(VisitedBy(t)), VisitedBy(t) \subseteq Deps,
           reply[t] = Nothing
    PROVE  Promise!Call(t) \/ Promise!End(t)
  <1> DEFINE ex == VisitedBy(t)
  <1>0. /\ pc \in [Tasks -> PCs] /\ at \in [Tasks -> Deps \cup {Nothing}]
        /\ tried \in [Tasks -> SUBSET Deps] /\ reply \in [Tasks -> Replies]
        /\ Nothing \notin Deps
    BY NamesAssumption DEF TypeInv, TypeOK
  <1>1. Unseen(t) /\ PhaseOf(t) = "open" /\ tried'[t] = ex
    <2>1. \A u \in Tasks \ {t} : /\ pc'[u] = pc[u] /\ at'[u] = at[u]
                                  /\ tried'[u] = tried[u] /\ reply'[u] = reply[u]
      BY RouteFrame
    <2>2. Unseen(t)
      BY <2>1 DEF Unseen, PhaseOf, VisitedBy
    <2>3. PhaseOf(t) = "open"
      BY Places DEF PhaseOf
    <2>4. tried'[t] = ex
      BY <1>0 DEF Route
    <2> QED BY <2>2, <2>3, <2>4
  <1>2. at'[t] = at[t] => VisitedBy(t)' = ex
    BY <1>0, <1>1 DEF VisitedBy
  <1>3. CASE ~Exhausted(t, ex) /\ ~PickRaises(t, load)
    <2>1. PICK d \in Pool(ex, open) :
            /\ at' = [at EXCEPT ![t] = d]
            /\ pc' = [pc EXCEPT ![t] = "calling"]
            /\ UNCHANGED <<out, reply>>
      BY <1>3 DEF Route, PickRaises
    <2>2. d \in Deps \ VisitedBy(t)
      BY PoolUntried
    <2>3. VisitedBy(t)' = VisitedBy(t) \cup {d}
      BY <1>0, <1>1, <2>1, <2>2 DEF VisitedBy
    <2>4. PhaseOf(t)' = "open" /\ reply'[t] = Nothing
      BY <1>0, <2>1, Places DEF PhaseOf
    <2>5. Promise!Call(t)
      BY <1>1, <2>2, <2>3, <2>4, IsCall
    <2> QED BY <2>5
  <1>4. CASE PickRaises(t, load)
    <2>1. PhaseOf(t)' = "done" /\ reply'[t] = "aborted" /\ at'[t] = at[t]
      BY <1>0, <1>4, Places DEF PickRaises, PhaseOf
    <2>2. Promise!End(t)
      BY <1>1, <1>2, <2>1, IsEnd
    <2> QED BY <2>2
  <1>5. CASE Exhausted(t, ex)
    <2>1. PhaseOf(t)' = "done" /\ reply'[t] = "unavailable" /\ at'[t] = at[t]
      BY <1>0, <1>5, Places DEF Route, PhaseOf
    <2>2. ex = Deps
      <3>1. Cardinality(ex) \in Nat /\ Cardinality(Deps) \in Nat
            /\ Cardinality(ex) <= Cardinality(Deps)
            /\ (Cardinality(ex) = Cardinality(Deps) => ex = Deps)
        BY DepsAssumption, FS_Subset, FS_CardinalityType
      <3> QED BY <1>5, <3>1, AttemptsAssumption DEF Exhausted
    <2>3. Promise!End(t)
      BY <1>1, <1>2, <2>1, <2>2, IsEnd
    <2> QED BY <2>3
  <1> QED BY <1>3, <1>4, <1>5

LEMMA FailoverStep ==
    ASSUME MaxAttempts >= Cardinality(Deps), AttemptInv, AttemptInv', OpenInv, [Next]_vars
    PROVE  [Promise!Next]_(Promise!vars)
  <1>0. /\ pc \in [Tasks -> PCs] /\ at \in [Tasks -> Deps \cup {Nothing}]
        /\ tried \in [Tasks -> SUBSET Deps] /\ reply \in [Tasks -> Replies]
        /\ Nothing \notin Deps /\ TypeInv /\ TypeInv'
    BY NamesAssumption DEF AttemptInv, TypeInv, TypeOK
  <1>1. ASSUME NEW t \in Tasks, Arrive(t) PROVE Promise!Begin(t)
    <2>1. /\ PhaseOf(t) # "open" /\ PhaseOf(t)' = "open"
          /\ VisitedBy(t)' = {} /\ Unseen(t)
      BY <1>0, <1>1, Places DEF Arrive, PhaseOf, VisitedBy, Unseen
    <2>2. [u \in Tasks |-> PhaseOf(u)]' = [[u \in Tasks |-> PhaseOf(u)] EXCEPT ![t] = "open"]
      BY <2>1 DEF Unseen
    <2>3. [u \in Tasks |-> VisitedBy(u)]' = [[u \in Tasks |-> VisitedBy(u)] EXCEPT ![t] = {}]
      BY <2>1 DEF Unseen
    <2>4. reply' = [reply EXCEPT ![t] = "none"]
      BY <1>1 DEF Arrive, Nothing
    <2> QED BY <2>1, <2>2, <2>3, <2>4 DEF Promise!Begin, PhaseOf, VisitedBy
  <1>2. ASSUME NEW t \in Tasks, CacheMiss(t) PROVE Promise!Call(t) \/ Promise!End(t)
    <2>1. VisitedBy(t) = {} /\ attempt[t] = Cardinality(VisitedBy(t)) /\ reply[t] = Nothing
      BY <1>0, <1>2, FS_EmptySet, Places DEF CacheMiss, VisitedBy, OpenInv, AttemptInv, FailoverInv
    <2>2. Route(t, VisitedBy(t), inFlight, cool) /\ pc[t] = "get"
      BY <1>2, <2>1 DEF CacheMiss
    <2> QED BY <1>0, <2>1, <2>2, RouteRefines
  <1>3. ASSUME NEW t \in Tasks, Retry(t) PROVE Promise!Call(t) \/ Promise!End(t)
    <2>1. pc[t] = "calling" /\ at[t] \in Deps /\ at[t] \notin tried[t]
          /\ attempt[t] = Cardinality(tried[t]) + 1 /\ reply[t] = Nothing
      BY <1>3, Places DEF Retry, AttemptInv, TypeInv, WellPlaced, FailoverInv, OpenInv
    <2>2. VisitedBy(t) = tried[t] \cup {at[t]} /\ VisitedBy(t) \subseteq Deps
      BY <1>0, <2>1 DEF VisitedBy
    <2>3. attempt[t] = Cardinality(VisitedBy(t))
      BY <1>0, <2>1, <2>2, DepsAssumption, FS_Subset, FS_AddElement
    <2>4. Route(t, VisitedBy(t), Released(at[t]), Ejected(at[t]))
      BY <1>3, <2>2 DEF Retry
    <2> QED BY <1>0, <2>1, <2>2, <2>3, <2>4, RouteRefines
  <1>4. ASSUME NEW t \in Tasks, CacheHit(t) \/ StorePut(t) \/ Abandon(t)
        PROVE  Promise!End(t)
    <2>1. /\ pc[t] \notin Idle /\ UNCHANGED <<tried, at>>
          /\ pc' = [pc EXCEPT ![t] = "done"]
          /\ \E r \in {"ok", "aborted"} : reply' = [reply EXCEPT ![t] = r]
      BY <1>4, Places DEF CacheHit, StorePut, Abandon, LeavesCall, LeavesStore
    <2>2. /\ Unseen(t) /\ PhaseOf(t) = "open" /\ PhaseOf(t)' = "done"
          /\ VisitedBy(t)' = VisitedBy(t) /\ reply'[t] \in {"ok", "aborted"}
      BY <1>0, <2>1, Places DEF Unseen, PhaseOf, VisitedBy
    <2> QED BY <1>0, <2>2, IsEnd
  <1>5. ASSUME NEW t \in Tasks, Fatal(t) PROVE Promise!End(t)
    <2>1. /\ pc[t] = "calling" /\ at[t] \in Deps /\ UNCHANGED at
          /\ pc' = [pc EXCEPT ![t] = "done"]
          /\ tried' = [tried EXCEPT ![t] = @ \cup {at[t]}]
          /\ reply' = [reply EXCEPT ![t] = "upstream_error"]
      BY <1>5, Places DEF Fatal, AttemptInv, TypeInv, WellPlaced
    <2>2. /\ Unseen(t) /\ PhaseOf(t) = "open" /\ PhaseOf(t)' = "done"
          /\ VisitedBy(t)' = VisitedBy(t) /\ VisitedBy(t) # {}
          /\ reply'[t] = "upstream_error"
      BY <1>0, <2>1, Places DEF Unseen, PhaseOf, VisitedBy
    <2> QED BY <1>0, <2>2, IsEnd
  <1>6. ASSUME NEW t \in Tasks,
               \/ CompleteReturns(t) \/ StreamOpens(t) \/ StreamPiece(t)
               \/ StreamEnds(t) \/ StreamCloses(t)
        PROVE  UNCHANGED Promise!vars
    <2>1. /\ UNCHANGED <<tried, at, reply>> /\ pc[t] \notin Idle
          /\ \E p \in PCs \ Idle : pc' = [pc EXCEPT ![t] = p]
      BY <1>0, <1>6, Places
         DEF CompleteReturns, StreamOpens, StreamPiece, StreamEnds, StreamCloses
    <2>2. \A u \in Tasks : /\ PhaseOf(u)' = PhaseOf(u) /\ VisitedBy(u)' = VisitedBy(u)
                           /\ reply'[u] = reply[u]
      BY <1>0, <2>1 DEF PhaseOf, VisitedBy
    <2> QED BY <1>0, <2>2, IsStutter
  <1>7. CASE (\E p \in Prompts : Expire(p)) \/ Tick \/ UNCHANGED vars
    <2>1. UNCHANGED <<pc, tried, at, reply>>
      BY <1>7 DEF Expire, Tick, vars
    <2>2. \A u \in Tasks : /\ PhaseOf(u)' = PhaseOf(u) /\ VisitedBy(u)' = VisitedBy(u)
                           /\ reply'[u] = reply[u]
      BY <2>1 DEF PhaseOf, VisitedBy
    <2>3. UNCHANGED Promise!vars
      BY <1>0, <2>2, IsStutter
    <2> QED BY <2>3
  <1> QED
    BY <1>1, <1>2, <1>3, <1>4, <1>5, <1>6, <1>7 DEF Next, Work, Promise!Next

\* The gateway implements the safety of Failover: whatever strategy, breaker,
\* cache, stream or fault there is, a request calls deployments one after the
\* other and none twice, and blames the whole set only when it has called it.
\* That it ends is liveness, which the run gateway_live checks.
THEOREM ImplementsSafeFailover ==
    ASSUME MaxAttempts >= Cardinality(Deps)
    PROVE  Spec => Promise!Safety
  <1>1. Init => Promise!Init /\ OpenInv
    BY Places DEF Init, Promise!Init, OpenInv, Nothing
  <1>2. AttemptInv /\ AttemptInv' /\ OpenInv /\ [Next]_vars => [Promise!Next]_(Promise!vars)
    BY FailoverStep
  <1>3. AttemptInv => TypeInv
    BY DEF AttemptInv
  <1> QED
    BY AttemptInit, AttemptStep, OpenStep, <1>1, <1>2, <1>3, PTL
       DEF Spec, Safety, Promise!Safety

-----------------------------------------------------------------------------
(* The meters *)

\* The meters only watch: a metered step is a step of the gateway.
LEMMA MeteredIsGateway ==
    /\ MeteredInit => Init
    /\ [MeteredNext]_meteredVars => [Next]_vars
  <1>1. MeteredNext => Next
    BY DEF MeteredNext, Begins, Looks, Answered, Stored, Failed, Aborted, Next, Work
  <1> QED BY <1>1 DEF MeteredInit, meteredVars

\* A handler that starts a call, ends one, or both, moves the load as it moves
\* the gauge.
LEMMA GaugesLoad ==
    ASSUME LoadInv, TypeInv', GaugeIsLoad, NEW t \in Tasks,
           \/ CacheMiss(t) /\ Gauges(t, {})
           \/ (Retry(t) \/ Fatal(t) \/ CompleteReturns(t) \/ StreamCloses(t)) /\ Gauges(t, {at[t]})
    PROVE  GaugeIsLoad'
  <1> DEFINE Begun(d) == pc'[t] = "calling" /\ at'[t] = d
             Ended == IF CacheMiss(t) THEN {} ELSE {at[t]}
  <1>1. /\ inFlight \in [Deps -> Nat] /\ inFlight' \in [Deps -> Nat]
        /\ pc \in [Tasks -> PCs] /\ gauge = inFlight
    BY DEF LoadInv, TypeInv, TypeOK, GaugeIsLoad
  <1>2. ASSUME NEW d \in Deps, CacheMiss(t) PROVE inFlight'[d] = inFlight[d] + One(Begun(d))
    <2>1. Route(t, {}, inFlight, cool) /\ pc[t] = "get"
      BY <1>2 DEF CacheMiss
    <2>2. inFlight'[d] = inFlight[d] + One(Holds(t, d)')
      BY <1>1, <2>1, RouteLoad DEF LoadInv
    <2>3. pc'[t] \in {"calling", "done"}
      BY <2>1, <1>1 DEF Route
    <2> QED BY <2>2, <2>3, Places DEF Holds, One
  <1>3. ASSUME NEW d \in Deps, Retry(t)
        PROVE  inFlight'[d] = inFlight[d] - One(at[t] = d) + One(Begun(d))
    <2>1. /\ Route(t, tried[t] \cup {at[t]}, Released(at[t]), Ejected(at[t]))
          /\ pc[t] = "calling" /\ pc[t] \in Holding
      BY <1>3, Places DEF Retry
    <2>2. /\ Released(at[t]) \in [Deps -> Nat]
          /\ Released(at[t])[d] = inFlight[d] - One(Holds(t, d))
      BY <2>1, ReleasedOne
    <2>3. inFlight'[d] = Released(at[t])[d] + One(Holds(t, d)')
      BY <2>1, <2>2, RouteLoad DEF LoadInv
    <2>4. pc'[t] \in {"calling", "done"}
      BY <2>1, <1>1 DEF Route
    <2> QED BY <2>1, <2>2, <2>3, <2>4, Places DEF Holds, One
  <1>4. ASSUME NEW d \in Deps, Fatal(t) \/ CompleteReturns(t) \/ StreamCloses(t)
        PROVE  inFlight'[d] = inFlight[d] - One(at[t] = d) + One(Begun(d))
    <2>1. /\ inFlight' = Released(at[t]) /\ pc[t] \in Holding
          /\ pc'[t] # "calling"
      BY <1>1, <1>4, Places DEF Fatal, CompleteReturns, StreamCloses, OnSuccess
    <2>2. inFlight'[d] = inFlight[d] - One(Holds(t, d))
      BY <2>1, ReleasedOne
    <2> QED BY <1>1, <2>1, <2>2 DEF Holds, One
  <1>5. CASE CacheMiss(t) /\ Gauges(t, {})
    <2>1. gauge' = [d \in Deps |-> gauge[d] - 0 + One(Begun(d))]
      BY <1>5 DEF Gauges, One
    <2>2. \A d \in Deps : gauge'[d] = inFlight'[d]
      BY <1>1, <1>2, <1>5, <2>1 DEF One
    <2> QED BY <1>1, <2>1, <2>2 DEF GaugeIsLoad
  <1>6. CASE /\ Retry(t) \/ Fatal(t) \/ CompleteReturns(t) \/ StreamCloses(t)
             /\ Gauges(t, {at[t]})
    <2>1. gauge' = [d \in Deps |-> gauge[d] - One(at[t] = d) + One(Begun(d))]
      BY <1>6 DEF Gauges, One
    <2>2. \A d \in Deps : gauge'[d] = inFlight'[d]
      BY <1>1, <1>3, <1>4, <1>6, <2>1
    <2> QED BY <1>1, <2>1, <2>2 DEF GaugeIsLoad
  <1> QED BY <1>5, <1>6

\* The gauge is in_flight of each deployment, whatever faults there are: the
\* floor of on_success and on_failure is never hit.
THEOREM GaugeIsLoadForAll == Metered => []GaugeIsLoad
  <1>1. MeteredInit => LoadInv /\ GaugeIsLoad
    BY MeteredIsGateway, InitType, LoadInit DEF MeteredInit, Init, LoadInv, GaugeIsLoad
  <1>2. LoadInv /\ GaugeIsLoad /\ [MeteredNext]_meteredVars => LoadInv' /\ GaugeIsLoad'
    <2> SUFFICES ASSUME LoadInv, GaugeIsLoad, [MeteredNext]_meteredVars
                 PROVE  LoadInv' /\ GaugeIsLoad'
      OBVIOUS
    <2>1. LoadInv' /\ TypeInv'
      BY MeteredIsGateway, LoadStep DEF LoadInv
    <2>2. ASSUME UNCHANGED <<gauge, inFlight>> PROVE GaugeIsLoad'
      BY <2>2 DEF GaugeIsLoad
    <2>3. ASSUME NEW t \in Tasks, Begins(t) \/ Looks(t) PROVE GaugeIsLoad'
      BY <2>1, <2>2, <2>3, GaugesLoad DEF Begins, Looks, Arrive, CacheHit, depVars
    <2>4. ASSUME NEW t \in Tasks, Answered(t) \/ Failed(t) PROVE GaugeIsLoad'
      BY <2>1, <2>2, <2>4, GaugesLoad
         DEF Answered, Failed, StreamOpens, StreamPiece, StreamEnds, depVars, meters
    <2>5. ASSUME NEW t \in Tasks, Stored(t) \/ Aborted(t) PROVE GaugeIsLoad'
      BY <2>2, <2>5 DEF Stored, Aborted, StorePut, Abandon, depVars, meters
    <2>6. CASE (\E p \in Prompts : Expire(p)) /\ UNCHANGED meters
      BY <2>1, <2>2, <2>6 DEF Expire, depVars, meters
    <2>7. CASE (Tick /\ UNCHANGED meters) \/ UNCHANGED meteredVars
      BY <2>1, <2>2, <2>7 DEF Tick, meters, meteredVars, vars
    <2> QED BY <2>1, <2>3, <2>4, <2>5, <2>6, <2>7 DEF MeteredNext
  <1> QED BY <1>1, <1>2, PTL DEF Metered

\* What a request has added to the counters at the point where its handler is.
Booked(t, hit, miss, decision, cost, request) ==
    /\ count[t]["hit"] = hit /\ count[t]["miss"] = miss
    /\ count[t]["decision"] = decision /\ count[t]["cost"] = cost
    /\ count[t]["request"] = request

CountedAt(t) ==
    /\ pc[t] = "get" => Booked(t, 0, 0, 0, 0, 0)
    /\ pc[t] = "calling" => Booked(t, 0, 1, 0, 0, 0)
    /\ pc[t] \in {"streaming", "closing"} => req[t].stream /\ Booked(t, 0, 1, 1, 0, 0)
    /\ pc[t] = "put" => Booked(t, 0, 1, 1, 1, One(req[t].stream))
    /\ pc[t] = "done" /\ reply[t] = "ok" =>
          Booked(t, 1, 0, 0, 0, 1) \/ Booked(t, 0, 1, 1, 1, 1)
    /\ pc[t] \notin Idle => reply[t] = Nothing

CountInv ==
    /\ count \in [Tasks -> [Counters -> Nat]]
    /\ \A t \in Tasks : CountedAt(t)

RouteEnds(t) ==
    \/ pc'[t] = "calling" /\ reply'[t] = Nothing
    \/ pc'[t] = "done" /\ reply'[t] \notin {"ok", "upstream_error"}

\* A turn of the loop answers nothing.
LEMMA RouteAnswers ==
    ASSUME TypeInv, NEW t \in Tasks, NEW ex, NEW load, NEW open, Route(t, ex, load, open),
           reply[t] = Nothing
    PROVE  RouteEnds(t)
  BY DEF Route, RouteEnds, TypeInv, TypeOK

\* The counters of the other handlers stay, and those of t grow by what it turned.
LEMMA CountsType ==
    ASSUME NEW t \in Tasks, count \in [Tasks -> [Counters -> Nat]],
           NEW turned, Counts(t, turned)
    PROVE  /\ count' \in [Tasks -> [Counters -> Nat]]
           /\ \A u \in Tasks \ {t} : count'[u] = count[u]
           /\ \A c \in Counters :
                 count'[t][c] = count[t][c] + (IF c \in turned THEN 1 ELSE 0)
  BY DEF Counts

\* Nothing of the other handlers changes.
Alone(t) ==
    \A u \in Tasks \ {t} :
        pc'[u] = pc[u] /\ reply'[u] = reply[u] /\ req'[u] = req[u] /\ count'[u] = count[u]

LEMMA CountAlone ==
    ASSUME CountInv, NEW t \in Tasks, Alone(t), CountedAt(t)',
           count' \in [Tasks -> [Counters -> Nat]]
    PROVE  CountInv'
  <1>1. ASSUME NEW u \in Tasks \ {t} PROVE CountedAt(u)'
    <2>1. CountedAt(u) /\ pc'[u] = pc[u] /\ reply'[u] = reply[u] /\ req'[u] = req[u]
          /\ count'[u] = count[u]
      BY DEF CountInv, Alone
    <2> QED BY <2>1 DEF CountedAt, Booked
  <1> QED BY <1>1 DEF CountInv

LEMMA CountStep == TypeInv /\ CountInv /\ [MeteredNext]_meteredVars => CountInv'
  <1> SUFFICES ASSUME TypeInv, CountInv, [MeteredNext]_meteredVars PROVE CountInv'
    OBVIOUS
  <1>0. /\ pc \in [Tasks -> PCs] /\ reply \in [Tasks -> Replies]
        /\ req \in [Tasks -> Requests \cup {NoRequest}]
        /\ count \in [Tasks -> [Counters -> Nat]]
        /\ \A t \in Tasks : CountedAt(t)
    BY DEF TypeInv, TypeOK, CountInv
  <1> DEFINE Fine(t) ==
        Alone(t) /\ CountedAt(t)' /\ count' \in [Tasks -> [Counters -> Nat]]
  <1> USE DEF CountedAt, Booked, Alone, Counters, Idle, Nothing
  <1>1. ASSUME NEW t \in Tasks, Begins(t) PROVE Fine(t)
    BY <1>0, <1>1 DEF Begins, Arrive
  <1>2. ASSUME NEW t \in Tasks, CacheHit(t), Counts(t, {"hit", "request"}) PROVE Fine(t)
    <2>1. /\ count' \in [Tasks -> [Counters -> Nat]]
          /\ \A u \in Tasks \ {t} : count'[u] = count[u]
          /\ \A c \in Counters : count'[t][c] = count[t][c] + (IF c \in {"hit", "request"} THEN 1 ELSE 0)
      BY <1>0, <1>2, CountsType
    <2>2. /\ pc' = [pc EXCEPT ![t] = "done"] /\ req' = req
          /\ reply' = [reply EXCEPT ![t] = "ok"]
          /\ CountedAt(t) /\ pc[t] = "get"
      BY <1>0, <1>2 DEF CacheHit
    <2>3. Alone(t)
      BY <1>0, <2>1, <2>2
    <2>4. CountedAt(t)'
      BY <1>0, <2>1, <2>2 DEF One
    <2> QED BY <2>1, <2>3, <2>4
  <1>3. ASSUME NEW t \in Tasks, CacheMiss(t), Counts(t, {"miss"} \cup GivenUp(t))
        PROVE  Fine(t)
    <2>1. Route(t, {}, inFlight, cool) /\ pc[t] = "get" /\ req' = req
      BY <1>3 DEF CacheMiss
    <2>2. RouteEnds(t)
      BY <1>0, <2>1, RouteAnswers
    <2>3. pc'[t] = "calling" => GivenUp(t) = {}
      BY <2>2 DEF GivenUp, RouteEnds
    <2>4. GivenUp(t) \subseteq {"request"}
      BY DEF GivenUp
    <2>5. CountedAt(t)'
      BY <1>0, <1>3, <2>1, <2>2, <2>3, <2>4, CountsType DEF RouteEnds
    <2>6. /\ count' \in [Tasks -> [Counters -> Nat]]
          /\ \A u \in Tasks \ {t} : count'[u] = count[u]
      BY <1>0, <1>3, CountsType
    <2>7. \A u \in Tasks \ {t} : pc'[u] = pc[u] /\ reply'[u] = reply[u]
      BY <2>1, RouteFrame
    <2> QED BY <2>1, <2>5, <2>6, <2>7
  <1>4. ASSUME NEW t \in Tasks, CompleteReturns(t), Counts(t, {"decision", "cost"})
        PROVE  Fine(t)
    <2>1. /\ count' \in [Tasks -> [Counters -> Nat]]
          /\ \A u \in Tasks \ {t} : count'[u] = count[u]
          /\ \A c \in Counters : count'[t][c] = count[t][c] + (IF c \in {"decision", "cost"} THEN 1 ELSE 0)
      BY <1>0, <1>4, CountsType
    <2>2. /\ pc' = [pc EXCEPT ![t] = "put"] /\ req' = req
          /\ reply' = reply
          /\ CountedAt(t) /\ pc[t] = "calling" /\ ~req[t].stream
      BY <1>0, <1>4 DEF CompleteReturns
    <2>3. Alone(t)
      BY <1>0, <2>1, <2>2
    <2>4. CountedAt(t)'
      BY <1>0, <2>1, <2>2 DEF One
    <2> QED BY <2>1, <2>3, <2>4
  <1>5. ASSUME NEW t \in Tasks, StreamOpens(t), Counts(t, {"decision"}) PROVE Fine(t)
    <2>1. /\ count' \in [Tasks -> [Counters -> Nat]]
          /\ \A u \in Tasks \ {t} : count'[u] = count[u]
          /\ \A c \in Counters : count'[t][c] = count[t][c] + (IF c \in {"decision"} THEN 1 ELSE 0)
      BY <1>0, <1>5, CountsType
    <2>2. /\ pc' = [pc EXCEPT ![t] = "streaming"] /\ req' = req
          /\ reply' = reply
          /\ CountedAt(t) /\ pc[t] = "calling" /\ req[t].stream
      BY <1>0, <1>5 DEF StreamOpens
    <2>3. Alone(t)
      BY <1>0, <2>1, <2>2
    <2>4. CountedAt(t)'
      BY <1>0, <2>1, <2>2 DEF One
    <2> QED BY <2>1, <2>3, <2>4
  <1>6. ASSUME NEW t \in Tasks, StreamPiece(t) \/ StreamEnds(t), count' = count
        PROVE  Fine(t)
    BY <1>0, <1>6 DEF StreamPiece, StreamEnds
  <1>7. ASSUME NEW t \in Tasks, StreamCloses(t), Counts(t, {"request", "cost"})
        PROVE  Fine(t)
    <2>1. /\ count' \in [Tasks -> [Counters -> Nat]]
          /\ \A u \in Tasks \ {t} : count'[u] = count[u]
          /\ \A c \in Counters : count'[t][c] = count[t][c] + (IF c \in {"request", "cost"} THEN 1 ELSE 0)
      BY <1>0, <1>7, CountsType
    <2>2. /\ pc' = [pc EXCEPT ![t] = "put"] /\ req' = req /\ reply' = reply
          /\ CountedAt(t) /\ pc[t] = "closing"
      BY <1>0, <1>7 DEF StreamCloses
    <2>3. Alone(t)
      BY <1>0, <2>1, <2>2
    <2>4. CountedAt(t)'
      BY <1>0, <2>1, <2>2 DEF One
    <2> QED BY <2>1, <2>3, <2>4
  <1>8. ASSUME NEW t \in Tasks, Stored(t) PROVE Fine(t)
    <2> DEFINE turned == IF req[t].stream THEN {} ELSE {"request"}
    <2>1. /\ count' \in [Tasks -> [Counters -> Nat]]
          /\ \A u \in Tasks \ {t} : count'[u] = count[u]
          /\ \A c \in Counters : count'[t][c] = count[t][c] + (IF c \in turned THEN 1 ELSE 0)
      <3>1. Counts(t, turned)
        BY <1>8 DEF Stored
      <3> HIDE DEF turned
      <3> QED BY <1>0, <3>1, CountsType
    <2>2. /\ pc' = [pc EXCEPT ![t] = "done"] /\ req' = req
          /\ reply' = [reply EXCEPT ![t] = "ok"]
          /\ CountedAt(t) /\ pc[t] = "put"
      BY <1>0, <1>8 DEF Stored, StorePut
    <2>3. Alone(t)
      BY <1>0, <2>1, <2>2
    <2>4. CASE req[t].stream
      <3>1. CountedAt(t)'
        BY <1>0, <2>1, <2>2, <2>4 DEF One
      <3> QED BY <2>1, <2>3, <3>1
    <2>5. CASE ~req[t].stream
      <3>1. CountedAt(t)'
        BY <1>0, <2>1, <2>2, <2>5 DEF One
      <3> QED BY <2>1, <2>3, <3>1
    <2> QED BY <2>4, <2>5
  <1>9. ASSUME NEW t \in Tasks, Retry(t), Counts(t, {"failover"} \cup GivenUp(t))
        PROVE  Fine(t)
    <2>1. Route(t, tried[t] \cup {at[t]}, Released(at[t]), Ejected(at[t]))
          /\ pc[t] = "calling" /\ req' = req
      BY <1>9 DEF Retry
    <2>2. RouteEnds(t)
      BY <1>0, <2>1, RouteAnswers
    <2>3. pc'[t] = "calling" => GivenUp(t) = {}
      BY <2>2 DEF GivenUp, RouteEnds
    <2>4. CountedAt(t)'
      <3> DEFINE turned == {"failover"} \cup GivenUp(t)
      <3>1. \A c \in Counters : count'[t][c] = count[t][c] + (IF c \in turned THEN 1 ELSE 0)
        <4>1. Counts(t, turned)
          BY <1>9
        <4> HIDE DEF turned
        <4> QED BY <1>0, <4>1, CountsType
      <3>2. CountedAt(t)
        BY <1>0
      <3> QED BY <1>0, <2>1, <2>2, <2>3, <3>1, <3>2 DEF RouteEnds, GivenUp
    <2>5. /\ count' \in [Tasks -> [Counters -> Nat]]
          /\ \A u \in Tasks \ {t} : count'[u] = count[u]
      BY <1>0, <1>9, CountsType
    <2>6. \A u \in Tasks \ {t} : pc'[u] = pc[u] /\ reply'[u] = reply[u]
      BY <2>1, RouteFrame
    <2> QED BY <2>1, <2>4, <2>5, <2>6
  <1>10. ASSUME NEW t \in Tasks, Fatal(t) \/ Abandon(t), count' = count
         PROVE  Fine(t)
    BY <1>0, <1>10 DEF Fatal, Abandon
  <1>11. ASSUME UNCHANGED <<pc, reply, req, count>> PROVE CountInv'
    BY <1>11 DEF CountInv
  <1>12. CASE \/ (\E p \in Prompts : Expire(p)) /\ UNCHANGED meters
              \/ Tick /\ UNCHANGED meters
              \/ UNCHANGED meteredVars
    BY <1>11, <1>12 DEF Expire, Tick, meters, meteredVars, vars
  <1> HIDE DEF CountedAt, Booked, Alone, Counters, Idle, Nothing
  <1>13. ASSUME NEW t \in Tasks, Fine(t) PROVE CountInv'
    BY <1>13, CountAlone
  <1> HIDE DEF Fine
  <1> QED
    BY <1>1, <1>2, <1>3, <1>4, <1>5, <1>6, <1>7, <1>8, <1>9, <1>10, <1>12, <1>13
       DEF MeteredNext, Looks, Answered, Failed, Aborted, meters

\* An answered request counts once, and as either a hit or a charged miss.
THEOREM AnswersAreAccounted == Metered => []AnswersAccounted
  <1>1. MeteredInit => TypeInv /\ CountInv
    BY MeteredIsGateway, InitType
       DEF MeteredInit, Init, CountInv, CountedAt, Counters, Idle, Nothing
  <1>2. TypeInv /\ CountInv /\ [MeteredNext]_meteredVars => TypeInv' /\ CountInv'
    BY MeteredIsGateway, StepType, CountStep
  <1>3. CountInv => AnswersAccounted
    BY DEF CountInv, CountedAt, Booked, AnswersAccounted
  <1> QED BY <1>1, <1>2, <1>3, PTL DEF Metered

\* The failures a request reports are the deployments that failed it, but for
\* the one whose error ended it.
FailedTold ==
    \A t \in Tasks :
        count[t]["failover"] + (IF reply[t] = "upstream_error" THEN 1 ELSE 0)
            = Cardinality(tried[t])

FailInv ==
    /\ FailedTold
    /\ \A t \in Tasks : pc[t] = "get" => count[t]["failover"] = 0

\* A call that fails puts one more deployment among the tried ones.
LEMMA TriedGrows ==
    ASSUME AttemptInv, NEW t \in Tasks, pc[t] = "calling"
    PROVE  /\ Cardinality(tried[t]) \in Nat
           /\ Cardinality(tried[t] \cup {at[t]}) = Cardinality(tried[t]) + 1
  <1>1. tried[t] \subseteq Deps /\ at[t] \in Deps
    BY Places DEF AttemptInv, TypeInv, TypeOK, WellPlaced
  <1>2. at[t] \notin tried[t]
    BY Places DEF AttemptInv, FailoverInv
  <1> QED BY <1>1, <1>2, DepsAssumption, FS_Subset, FS_AddElement, FS_CardinalityType

LEMMA FailStep == AttemptInv /\ CountInv /\ FailInv /\ [MeteredNext]_meteredVars => FailInv'
  <1> SUFFICES ASSUME AttemptInv, CountInv, FailInv, [MeteredNext]_meteredVars
               PROVE  FailInv'
    OBVIOUS
  <1>0. /\ pc \in [Tasks -> PCs] /\ reply \in [Tasks -> Replies]
        /\ tried \in [Tasks -> SUBSET Deps]
        /\ count \in [Tasks -> [Counters -> Nat]] /\ "failover" \in Counters
        /\ \A t \in Tasks : pc[t] \notin Idle => reply[t] = Nothing
        /\ Nothing # "upstream_error"
    BY DEF AttemptInv, TypeInv, TypeOK, CountInv, CountedAt, Counters, Nothing
  <1> DEFINE Told(t) == count[t]["failover"] + (IF reply[t] = "upstream_error" THEN 1 ELSE 0)
             Rest(t) == \A u \in Tasks \ {t} :
                 pc'[u] = pc[u] /\ reply'[u] = reply[u] /\ tried'[u] = tried[u]
                 /\ count'[u] = count[u]
  <1>a. ASSUME NEW t \in Tasks, Rest(t), Told(t)' = Cardinality(tried'[t]), pc'[t] # "get"
        PROVE  FailInv'
    BY <1>a DEF FailInv, FailedTold
  <1>b. ASSUME NEW t \in Tasks, Rest(t), tried' = tried, pc'[t] # "get",
               count'[t]["failover"] = count[t]["failover"],
               reply'[t] # "upstream_error", reply[t] # "upstream_error"
        PROVE  FailInv'
    BY <1>a, <1>b DEF FailInv, FailedTold
  <1>1. ASSUME NEW t \in Tasks, Begins(t) PROVE FailInv'
    <2>1. Rest(t)
      BY <1>0, <1>1 DEF Begins, Arrive
    <2>2. /\ count'[t]["failover"] = 0 /\ reply'[t] = Nothing /\ tried'[t] = {}
      BY <1>0, <1>1 DEF Begins, Arrive
    <2>3. Told(t)' = Cardinality(tried'[t])
      BY <1>0, <2>2, FS_EmptySet
    <2> QED BY <2>1, <2>2, <2>3 DEF FailInv, FailedTold
  <1>2. ASSUME NEW t \in Tasks, NEW turned,
               \/ CacheHit(t) \/ CompleteReturns(t) \/ StreamOpens(t)
               \/ StreamCloses(t) \/ StorePut(t),
               Counts(t, turned), "failover" \notin turned
        PROVE  FailInv'
    <2>1. pc[t] \notin Idle /\ tried' = tried /\ pc'[t] # "get"
      BY <1>0, <1>2, Places DEF CacheHit, CompleteReturns, StreamOpens, StreamCloses, StorePut
    <2>2. /\ \E p : pc' = [pc EXCEPT ![t] = p]
          /\ reply' = reply \/ reply' = [reply EXCEPT ![t] = "ok"]
      BY <1>2 DEF CacheHit, CompleteReturns, StreamOpens, StreamCloses, StorePut
    <2>3. /\ count'[t]["failover"] = count[t]["failover"]
          /\ \A u \in Tasks \ {t} : count'[u] = count[u]
      BY <1>0, <1>2, CountsType
    <2>4. Rest(t) /\ reply'[t] # "upstream_error"
      BY <1>0, <2>1, <2>2, <2>3
    <2> QED BY <1>0, <1>b, <2>1, <2>3, <2>4
  <1>3. ASSUME NEW t \in Tasks, count' = count,
               StreamPiece(t) \/ StreamEnds(t) \/ Abandon(t)
        PROVE  FailInv'
    <2>1. pc[t] \notin Idle /\ tried' = tried /\ pc'[t] # "get"
      BY <1>0, <1>3, Places DEF StreamPiece, StreamEnds, Abandon, LeavesCall, LeavesStore
    <2>2. Rest(t) /\ reply'[t] # "upstream_error"
      BY <1>0, <1>3, <2>1 DEF StreamPiece, StreamEnds, Abandon
    <2> QED BY <1>0, <1>3, <1>b, <2>1, <2>2
  <1>4. ASSUME NEW t \in Tasks, CacheMiss(t), Counts(t, {"miss"} \cup GivenUp(t))
        PROVE  FailInv'
    <2>1. Route(t, {}, inFlight, cool) /\ pc[t] = "get" /\ "failover" \notin GivenUp(t)
      BY <1>4 DEF CacheMiss, GivenUp
    <2>a. tried'[t] = {}
      BY <1>0, <2>1 DEF Route
    <2>b. TypeInv /\ reply[t] = Nothing
      BY <1>0, <2>1, Places DEF AttemptInv
    <2>c. RouteEnds(t)
      BY <2>1, <2>b, RouteAnswers
    <2>d. \A u \in Tasks \ {t} : pc'[u] = pc[u] /\ reply'[u] = reply[u] /\ tried'[u] = tried[u]
      BY <2>1, <2>b, RouteFrame
    <2>2. RouteEnds(t) /\ Rest(t) /\ tried'[t] = {}
      BY <1>0, <1>4, <2>a, <2>c, <2>d, CountsType
    <2>3. count'[t]["failover"] = 0
      <3>1. PICK turned : Counts(t, turned) /\ "failover" \notin turned
        BY <1>4, <2>1
      <3>2. count'[t]["failover"] = count[t]["failover"]
        BY <1>0, <3>1, CountsType
      <3> QED BY <2>1, <3>2 DEF FailInv
    <2>4. Told(t)' = Cardinality(tried'[t])
      BY <1>0, <2>2, <2>3, FS_EmptySet DEF RouteEnds
    <2> QED BY <1>a, <2>2, <2>4 DEF RouteEnds
  <1>5. ASSUME NEW t \in Tasks, Retry(t), Counts(t, {"failover"} \cup GivenUp(t))
        PROVE  FailInv'
    <2>1. Route(t, tried[t] \cup {at[t]}, Released(at[t]), Ejected(at[t])) /\ pc[t] = "calling"
      BY <1>5 DEF Retry
    <2>a. tried'[t] = tried[t] \cup {at[t]}
      BY <1>0, <2>1 DEF Route
    <2>b. TypeInv /\ reply[t] = Nothing
      BY <1>0, <2>1, Places DEF AttemptInv
    <2>c. RouteEnds(t)
      BY <2>1, <2>b, RouteAnswers
    <2>d. \A u \in Tasks \ {t} : pc'[u] = pc[u] /\ reply'[u] = reply[u] /\ tried'[u] = tried[u]
      BY <2>1, <2>b, RouteFrame
    <2>2. RouteEnds(t) /\ Rest(t) /\ tried'[t] = tried[t] \cup {at[t]}
      BY <1>0, <1>5, <2>a, <2>c, <2>d, CountsType
    <2>3. count'[t]["failover"] = count[t]["failover"] + 1
      BY <1>0, <1>5, CountsType
    <2>4. count[t]["failover"] = Cardinality(tried[t]) /\ Cardinality(tried[t]) \in Nat
      BY <1>0, <2>1, TriedGrows, Places DEF FailInv, FailedTold
    <2>5. Told(t)' = Cardinality(tried'[t])
      BY <1>0, <2>1, <2>2, <2>3, <2>4, TriedGrows DEF RouteEnds
    <2> QED BY <1>a, <2>2, <2>5 DEF RouteEnds
  <1>6. ASSUME NEW t \in Tasks, Fatal(t), count' = count PROVE FailInv'
    <2>1. /\ pc[t] = "calling" /\ tried'[t] = tried[t] \cup {at[t]}
          /\ reply'[t] = "upstream_error" /\ pc'[t] = "done" /\ Rest(t)
      BY <1>0, <1>6 DEF Fatal
    <2>2. count[t]["failover"] = Cardinality(tried[t]) /\ Cardinality(tried[t]) \in Nat
      BY <1>0, <2>1, TriedGrows, Places DEF FailInv, FailedTold
    <2>3. Told(t)' = Cardinality(tried'[t])
      BY <1>6, <2>1, <2>2, TriedGrows
    <2> QED BY <1>a, <2>1, <2>3
  <1>7. CASE \/ (\E p \in Prompts : Expire(p)) /\ UNCHANGED meters
             \/ Tick /\ UNCHANGED meters
             \/ UNCHANGED meteredVars
    BY <1>7 DEF Expire, Tick, meters, meteredVars, vars, FailInv, FailedTold
  <1>8. ASSUME NEW t \in Tasks, Stored(t) PROVE FailInv'
    <2>1. PICK turned \in {{}, {"request"}} : Counts(t, turned)
      BY <1>8 DEF Stored
    <2> QED BY <1>2, <1>8, <2>1 DEF Stored
  <1> HIDE DEF Told, Rest
  <1> QED
    BY <1>1, <1>2, <1>3, <1>4, <1>5, <1>6, <1>7, <1>8
       DEF MeteredNext, Looks, Answered, Failed, Aborted, meters

\* What a request has tried is what it has called, but for the deployment whose
\* call is open or was its last and did not fail.
SpentInv ==
    \A t \in Tasks :
        /\ at[t] = Nothing => tried[t] = {}
        /\ attempt[t] = Cardinality(tried[t])
                            + (IF at[t] = Nothing \/ at[t] \in tried[t] THEN 0 ELSE 1)
        /\ at[t] \in tried[t] => reply[t] \notin {Nothing, "ok"}
        /\ reply[t] = "upstream_error" => at[t] \in tried[t]
        /\ pc[t] = "get" => at[t] = Nothing
        /\ pc[t] \notin Idle => reply[t] = Nothing

LEMMA SpentStep == AttemptInv /\ SpentInv /\ [Next]_vars => SpentInv'
  <1> SUFFICES ASSUME AttemptInv, SpentInv, [Next]_vars PROVE SpentInv'
    OBVIOUS
  <1>0. /\ pc \in [Tasks -> PCs] /\ reply \in [Tasks -> Replies]
        /\ tried \in [Tasks -> SUBSET Deps] /\ at \in [Tasks -> Deps \cup {Nothing}]
        /\ attempt \in [Tasks -> 0..MaxAttempts] /\ Nothing \notin Deps
        /\ Cardinality({}) = 0
    BY NamesAssumption, FS_EmptySet DEF AttemptInv, TypeInv, TypeOK
  <1>1. ASSUME NEW t \in Tasks, Arrive(t) PROVE SpentInv'
    BY <1>0, <1>1 DEF Arrive, SpentInv, Idle, Nothing
  <1>2. ASSUME NEW t \in Tasks,
               \/ CacheHit(t) \/ CompleteReturns(t) \/ StreamOpens(t) \/ StreamPiece(t)
               \/ StreamEnds(t) \/ StreamCloses(t) \/ StorePut(t) \/ Abandon(t)
        PROVE  SpentInv'
    <2>1. /\ pc[t] \notin Idle /\ pc'[t] # "get"
          /\ tried' = tried /\ at' = at /\ attempt' = attempt
          /\ \A u \in Tasks \ {t} : pc'[u] = pc[u] /\ reply'[u] = reply[u]
          /\ reply'[t] \in {Nothing, "ok", "aborted"}
          /\ pc'[t] \notin Idle => reply'[t] = Nothing
      BY <1>0, <1>2, Places
         DEF CacheHit, CompleteReturns, StreamOpens, StreamPiece, StreamEnds, StreamCloses,
             StorePut, Abandon, LeavesCall, LeavesStore, SpentInv
    <2>2. at[t] \notin tried[t]
      BY <1>0, <2>1, Places DEF SpentInv
    <2>3. Nothing # "upstream_error"
      BY DEF Nothing
    <2> QED BY <2>1, <2>2, <2>3 DEF SpentInv
  <1>3. ASSUME NEW t \in Tasks, NEW ex \in SUBSET Deps, NEW load, NEW open,
               Route(t, ex, load, open), pc[t] \notin Idle,
               attempt[t] = Cardinality(ex),
               (ex = {} /\ at[t] = Nothing) \/ at[t] \in ex
        PROVE  SpentInv'
    <2>1. TypeInv /\ reply[t] = Nothing
      BY <1>3 DEF AttemptInv, SpentInv
    <2>2. /\ tried'[t] = ex
          /\ \A u \in Tasks \ {t} : /\ pc'[u] = pc[u] /\ at'[u] = at[u]
                                    /\ tried'[u] = tried[u] /\ attempt'[u] = attempt[u]
                                    /\ reply'[u] = reply[u]
      BY <1>0, <1>3, <2>1, RouteFrame DEF Route
    <2>3. \/ /\ pc'[t] = "calling" /\ at'[t] \in Deps \ ex /\ reply'[t] = Nothing
             /\ attempt'[t] = Cardinality(ex) + 1
          \/ /\ pc'[t] = "done" /\ at'[t] = at[t] /\ reply'[t] \in {"aborted", "unavailable"}
             /\ attempt'[t] = Cardinality(ex)
      BY <1>0, <1>3, <2>1, PoolUntried DEF Route
    <2>4. Nothing # "aborted" /\ Nothing # "unavailable" /\ Nothing # "upstream_error"
      BY DEF Nothing
    <2>5. Cardinality(ex) \in Nat
      BY DepsAssumption, FS_Subset, FS_CardinalityType
    <2>6. /\ at'[t] = Nothing => tried'[t] = {}
          /\ attempt'[t] = Cardinality(tried'[t])
                              + (IF at'[t] = Nothing \/ at'[t] \in tried'[t] THEN 0 ELSE 1)
          /\ at'[t] \in tried'[t] => reply'[t] \notin {Nothing, "ok"}
          /\ reply'[t] = "upstream_error" => at'[t] \in tried'[t]
          /\ pc'[t] = "get" => at'[t] = Nothing
          /\ pc'[t] \notin Idle => reply'[t] = Nothing
      BY <1>0, <1>3, <2>2, <2>3, <2>4, <2>5 DEF Idle
    <2> QED BY <2>2, <2>6 DEF SpentInv
  <1>4. ASSUME NEW t \in Tasks, CacheMiss(t) PROVE SpentInv'
    <2>1. Route(t, {}, inFlight, cool) /\ pc[t] = "get"
      BY <1>4 DEF CacheMiss
    <2>2. pc[t] \notin Idle /\ at[t] = Nothing /\ attempt[t] = Cardinality({})
      BY <1>0, <2>1, Places DEF SpentInv, AttemptInv, FailoverInv
    <2> QED BY <1>3, <2>1, <2>2
  <1>5. ASSUME NEW t \in Tasks, Retry(t) PROVE SpentInv'
    <2>1. /\ Route(t, tried[t] \cup {at[t]}, Released(at[t]), Ejected(at[t]))
          /\ pc[t] = "calling"
      BY <1>5 DEF Retry
    <2>2. /\ at[t] \in Deps /\ pc[t] \notin Idle
          /\ attempt[t] = Cardinality(tried[t]) + 1
      BY <1>0, <2>1, Places DEF AttemptInv, FailoverInv, TypeInv, WellPlaced
    <2>3. tried[t] \cup {at[t]} \in SUBSET Deps
      BY <1>0, <2>2
    <2>4. attempt[t] = Cardinality(tried[t] \cup {at[t]})
      BY <2>1, <2>2, TriedGrows
    <2> QED BY <1>3, <2>1, <2>2, <2>3, <2>4
  <1>6. ASSUME NEW t \in Tasks, Fatal(t) PROVE SpentInv'
    <2>1. /\ pc[t] = "calling" /\ pc'[t] = "done" /\ reply'[t] = "upstream_error"
          /\ tried'[t] = tried[t] \cup {at[t]} /\ at' = at /\ attempt' = attempt
          /\ \A u \in Tasks \ {t} : /\ pc'[u] = pc[u] /\ tried'[u] = tried[u]
                                    /\ reply'[u] = reply[u]
      BY <1>0, <1>6 DEF Fatal
    <2>2. at[t] \in Deps /\ attempt[t] = Cardinality(tried[t]) + 1
      BY <1>0, <2>1, Places DEF AttemptInv, FailoverInv, TypeInv, WellPlaced
    <2>3. /\ Cardinality(tried[t]) \in Nat
          /\ Cardinality(tried'[t]) = Cardinality(tried[t]) + 1
      BY <2>1, TriedGrows
    <2>4. "upstream_error" \notin {Nothing, "ok"} /\ "done" \in Idle
      BY DEF Nothing, Idle
    <2>5. /\ at'[t] \in tried'[t] /\ at'[t] # Nothing /\ attempt'[t] = Cardinality(tried'[t])
          /\ reply'[t] \notin {Nothing, "ok"} /\ pc'[t] # "get" /\ pc'[t] \in Idle
      BY <1>0, <2>1, <2>2, <2>3, <2>4
    <2>6. ASSUME NEW u \in Tasks \ {t}
          PROVE  /\ pc'[u] = pc[u] /\ tried'[u] = tried[u] /\ reply'[u] = reply[u]
                 /\ at'[u] = at[u] /\ attempt'[u] = attempt[u]
      BY <2>1
    <2>7. Cardinality(tried'[t]) \in Nat
      BY <2>3
    <2> QED BY <2>5, <2>6, <2>7 DEF SpentInv
  <1>7. CASE (\E p \in Prompts : Expire(p)) \/ Tick \/ UNCHANGED vars
    BY <1>7 DEF Expire, Tick, vars, SpentInv
  <1> QED BY <1>1, <1>2, <1>4, <1>5, <1>6, <1>7 DEF Next, Work

LEMMA SpentInit == Init => SpentInv
  BY FS_EmptySet DEF Init, SpentInv, Idle, Nothing

\* A request reports its failovers, and a last failure that none followed,
\* whatever else goes wrong.
THEOREM FailoversAreAccounted == Metered => []FailoversAccounted
  <1>1. MeteredInit => AttemptInv /\ CountInv /\ FailInv /\ SpentInv
    BY MeteredIsGateway, AttemptInit, SpentInit, FS_EmptySet
       DEF MeteredInit, Init, CountInv, CountedAt, Counters, Idle, Nothing,
           FailInv, FailedTold
  <1>2. AttemptInv /\ CountInv /\ FailInv /\ SpentInv /\ [MeteredNext]_meteredVars
            => AttemptInv' /\ CountInv' /\ FailInv' /\ SpentInv'
    BY MeteredIsGateway, AttemptStep, CountStep, FailStep, SpentStep DEF AttemptInv
  <1>3. AttemptInv /\ CountInv /\ FailInv /\ SpentInv => FailoversAccounted
    <2> SUFFICES ASSUME AttemptInv, CountInv, FailInv, SpentInv, NEW t \in Tasks
                 PROVE  count[t]["failover"] = Failovers(t)
                            + (IF reply[t] \in {"unavailable", "aborted"} /\ at[t] \in tried[t]
                               THEN 1 ELSE 0)
      BY DEF FailoversAccounted
    <2>1. /\ tried[t] \subseteq Deps /\ Nothing \notin Deps /\ reply[t] \in Replies
          /\ attempt[t] \in Nat /\ count[t]["failover"] \in Nat
      BY NamesAssumption, AttemptsAssumption
         DEF AttemptInv, TypeInv, TypeOK, CountInv, Counters
    <2>2. /\ at[t] = Nothing => tried[t] = {}
          /\ attempt[t] = Cardinality(tried[t])
                              + (IF at[t] = Nothing \/ at[t] \in tried[t] THEN 0 ELSE 1)
          /\ at[t] \in tried[t] => reply[t] \notin {Nothing, "ok"}
          /\ reply[t] = "upstream_error" => at[t] \in tried[t]
      BY DEF SpentInv
    <2>3. count[t]["failover"] + (IF reply[t] = "upstream_error" THEN 1 ELSE 0)
              = Cardinality(tried[t])
      BY DEF FailInv, FailedTold
    <2>4. Cardinality(tried[t]) \in Nat /\ (at[t] \in tried[t] => Cardinality(tried[t]) > 0)
      <3>1. IsFiniteSet(tried[t])
        BY <2>1, DepsAssumption, FS_Subset
      <3> QED BY <3>1, FS_CardinalityType, FS_EmptySet
    <2>5. CASE at[t] = Nothing
      <3>1. Cardinality(tried[t]) = 0 /\ at[t] \notin tried[t]
        BY <2>2, <2>5, FS_EmptySet
      <3> QED BY <2>1, <2>2, <2>3, <2>5, <3>1 DEF Failovers
    <2>6. CASE at[t] # Nothing /\ at[t] \notin tried[t]
      BY <2>1, <2>2, <2>3, <2>4, <2>6 DEF Failovers
    <2>7. CASE at[t] # Nothing /\ at[t] \in tried[t]
      BY <2>1, <2>2, <2>3, <2>4, <2>7 DEF Failovers, Replies
    <2> QED BY <2>5, <2>6, <2>7
  <1> QED BY <1>1, <1>2, <1>3, PTL DEF Metered
=============================================================================
