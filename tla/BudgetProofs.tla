---------------------------- MODULE BudgetProofs ----------------------------
(***************************************************************************)
(* Proofs about Budget, for every number of handlers, keys and tenants,    *)
(* every cap and every cost.                                               *)
(***************************************************************************)
EXTENDS Budget, TLAPS, FiniteSetTheorems

LEMMA PlaceNames == PCs = {"idle", "complete", "put", "stream"}
  BY DEF PCs

LEMMA TenantsHaveKeys == \A k \in Keys : TenantOf[k] \in Tenants
  BY DEF Tenants

LEMMA SpentType ==
    ASSUME TypeOK, NEW t \in Tenants
    PROVE  Spent(t) \in Nat /\ Spent(t) <= spent[t]
  BY DEF TypeOK, Spent

\* Renewing a window, and recording a cost in it, keep the types.
LEMMA RenewType ==
    ASSUME TypeOK, NEW t \in Tenants, Renew(t)
    PROVE  /\ spent' \in [Tenants -> Nat] /\ used' \in [Tenants -> Nat]
           /\ age' \in [Tenants -> {Unset} \cup 0..Window]
           /\ \A u \in Tenants : spent'[u] <= spent[u]
           /\ spent'[t] = Spent(t)
  <1>1. 0 \in 0..Window
    BY BoundsAssumption
  <1> QED BY <1>1, SpentType DEF Renew, TypeOK

LEMMA RecordType ==
    ASSUME TypeOK, NEW t \in Tenants, NEW c \in 0..MaxCost, Record(t, c)
    PROVE  /\ spent' \in [Tenants -> Nat] /\ used' \in [Tenants -> Nat]
           /\ age' \in [Tenants -> {Unset} \cup 0..Window]
           /\ spent'[t] <= spent[t] + c
           /\ \A u \in Tenants \ {t} : spent'[u] = spent[u]
  <1>1. 0 \in 0..Window /\ c \in Nat
    BY BoundsAssumption, CostsAssumption
  <1>2. CASE c = 0
    BY <1>2, RenewType DEF Record, Renew, TypeOK
  <1>3. CASE c # 0
    BY <1>1, <1>3, SpentType DEF Record, TypeOK
  <1> QED BY <1>2, <1>3

LEMMA InitType == Init => TypeOK
  BY CostsAssumption, BoundsAssumption, PlaceNames DEF Init, TypeOK

LEMMA StepType == TypeOK /\ [Next]_vars => TypeOK'
  <1> SUFFICES ASSUME TypeOK, [Next]_vars PROVE TypeOK'
    OBVIOUS
  <1>0. \A task \in Tasks : Tenant(task) \in Tenants
    BY TenantsHaveKeys DEF Tenant, TypeOK
  <1>1. ASSUME NEW task \in Tasks, Admit(task) PROVE TypeOK'
    <2>1. PICK k \in Keys, start \in {"complete", "stream"} :
            /\ IF Capped(k) THEN Renew(TenantOf[k]) ELSE UNCHANGED <<spent, age, used>>
            /\ key' = [key EXCEPT ![task] = k]
            /\ pc' = [pc EXCEPT ![task] = start]
      BY <1>1 DEF Admit
    <2>2. /\ spent' \in [Tenants -> Nat] /\ used' \in [Tenants -> Nat]
          /\ age' \in [Tenants -> {Unset} \cup 0..Window]
      BY <2>1, TenantsHaveKeys, RenewType DEF TypeOK
    <2> QED BY <1>1, <2>1, <2>2, PlaceNames DEF Admit, TypeOK
  <1>2. ASSUME NEW task \in Tasks, Refuse(task) PROVE TypeOK'
    BY <1>2, TenantsHaveKeys, RenewType DEF Refuse, TypeOK
  <1>3. ASSUME NEW task \in Tasks, CacheHit(task) PROVE TypeOK'
    <2>1. 0 \in 0..MaxCost
      BY CostsAssumption
    <2> QED BY <1>0, <1>3, <2>1, RecordType, PlaceNames DEF CacheHit, TypeOK
  <1>4. ASSUME NEW task \in Tasks, Answer(task) PROVE TypeOK'
    BY <1>4, CostsAssumption, PlaceNames DEF Answer, TypeOK
  <1>5. ASSUME NEW task \in Tasks, Charge(task) PROVE TypeOK'
    <2>1. cost[task] \in 0..MaxCost /\ 0 \in 0..MaxCost
      BY CostsAssumption DEF TypeOK
    <2> QED BY <1>0, <1>5, <2>1, RecordType, PlaceNames DEF Charge, TypeOK
  <1>6. ASSUME NEW task \in Tasks, Fail(task) PROVE TypeOK'
    <2>1. 0 \in 0..MaxCost
      BY CostsAssumption
    <2> QED BY <1>6, <2>1, PlaceNames DEF Fail, TypeOK
  <1>7. ASSUME NEW task \in Tasks, StreamEnds(task) PROVE TypeOK'
    BY <1>0, <1>7, CostsAssumption, PlaceNames DEF StreamEnds, TypeOK
  <1>8. CASE Tick
    BY <1>8, BoundsAssumption DEF Tick, TypeOK, Unset
  <1>9. CASE Restart
    BY <1>9, CostsAssumption, PlaceNames DEF Restart, TypeOK
  <1>10. CASE UNCHANGED vars
    BY <1>10 DEF vars, TypeOK
  <1> QED BY <1>1, <1>2, <1>3, <1>4, <1>5, <1>6, <1>7, <1>8, <1>9, <1>10 DEF Next

\* Every variable keeps its type.
THEOREM TypeCorrect == Spec => []TypeOK
  BY InitType, StepType, PTL DEF Spec

-----------------------------------------------------------------------------
(* The bound on a window's spend *)

\* The handlers that may still charge the tenant t.
Open(t) == {task \in Tasks : pc[task] \in {"complete", "put"} /\ Tenant(task) = t}

\* Why spend is bounded: every handler that may still charge the tenant has
\* room reserved for the most an answer costs.
Reserved(t, cap) ==
    spent[t] + MaxCost * Cardinality(Open(t)) < cap + MaxCost * Cardinality(Tasks)

BoundInv == \A k \in Keys : LargestCap(k) => Reserved(TenantOf[k], Cap[k])

LEMMA OpenFinite ==
    ASSUME NEW t
    PROVE  /\ IsFiniteSet(Open(t)) /\ Cardinality(Open(t)) \in Nat
           /\ Cardinality(Open(t)) <= Cardinality(Tasks)
           /\ Cardinality(Tasks) \in Nat
  <1>1. Open(t) \subseteq Tasks
    BY DEF Open
  <1> QED BY <1>1, TasksAssumption, FS_Subset, FS_CardinalityType

LEMMA Products ==
    ASSUME NEW m \in Nat, NEW n \in Nat, NEW p \in Nat, n <= p
    PROVE  m * n \in Nat /\ m * p \in Nat /\ m * n <= m * p /\ m * (n + 1) = m * n + m
  OBVIOUS

\* A step that neither charges the tenant nor admits one of its requests.
LEMMA ReserveKept ==
    ASSUME TypeOK, TypeOK', NEW t \in Tenants, NEW cap \in Nat, Reserved(t, cap),
           spent'[t] <= spent[t], Open(t)' \subseteq Open(t)
    PROVE  Reserved(t, cap)'
  <1>1. /\ Cardinality(Open(t)') \in Nat /\ Cardinality(Open(t)) \in Nat
        /\ Cardinality(Open(t)') <= Cardinality(Open(t)) /\ Cardinality(Tasks) \in Nat
    BY OpenFinite, FS_Subset, FS_CardinalityType
  <1>2. /\ MaxCost * Cardinality(Open(t)') <= MaxCost * Cardinality(Open(t))
        /\ MaxCost * Cardinality(Open(t)') \in Nat /\ MaxCost * Cardinality(Open(t)) \in Nat
        /\ MaxCost * Cardinality(Tasks) \in Nat
    BY <1>1, Products, CostsAssumption
  <1>3. spent[t] \in Nat /\ spent'[t] \in Nat
    BY DEF TypeOK
  <1> QED BY <1>2, <1>3 DEF Reserved

\* A request of the tenant passed the check.
LEMMA ReserveMade ==
    ASSUME TypeOK', NEW t \in Tenants, NEW cap \in Nat, spent'[t] < cap
    PROVE  Reserved(t, cap)'
  <1>1. /\ Cardinality(Open(t)') \in Nat /\ Cardinality(Tasks) \in Nat
        /\ Cardinality(Open(t)') <= Cardinality(Tasks)
    <2>1. Open(t)' \subseteq Tasks
      BY DEF Open
    <2> QED BY <2>1, TasksAssumption, FS_Subset, FS_CardinalityType
  <1>2. /\ MaxCost * Cardinality(Open(t)') <= MaxCost * Cardinality(Tasks)
        /\ MaxCost * Cardinality(Open(t)') \in Nat /\ MaxCost * Cardinality(Tasks) \in Nat
    BY <1>1, Products, CostsAssumption
  <1>3. spent'[t] \in Nat
    BY DEF TypeOK
  <1> QED BY <1>2, <1>3 DEF Reserved

\* A request of the tenant is charged, from the room reserved for it.
LEMMA ReserveUsed ==
    ASSUME TypeOK, TypeOK', NEW task \in Tasks, NEW t \in Tenants, NEW cap \in Nat,
           Reserved(t, cap), task \in Open(t), Open(t)' = Open(t) \ {task},
           spent'[t] <= spent[t] + MaxCost
    PROVE  Reserved(t, cap)'
  <1>1. /\ Cardinality(Open(t)') = Cardinality(Open(t)) - 1
        /\ Cardinality(Open(t)') \in Nat /\ Cardinality(Open(t)) \in Nat
        /\ Cardinality(Tasks) \in Nat
    <2>1. IsFiniteSet(Open(t)) /\ Cardinality(Open(t)) \in Nat /\ Cardinality(Tasks) \in Nat
      BY OpenFinite
    <2>2. IsFiniteSet(Open(t)') /\ Cardinality(Open(t)') = Cardinality(Open(t)) - 1
      BY <2>1, FS_RemoveElement
    <2> QED BY <2>1, <2>2, FS_CardinalityType
  <1>2. Cardinality(Open(t)) = Cardinality(Open(t)') + 1
    BY <1>1
  <1>3. /\ MaxCost * Cardinality(Open(t)) = MaxCost * Cardinality(Open(t)') + MaxCost
        /\ MaxCost * Cardinality(Open(t)') \in Nat /\ MaxCost * Cardinality(Tasks) \in Nat
    BY <1>1, <1>2, Products, CostsAssumption
  <1>4. spent[t] \in Nat /\ spent'[t] \in Nat /\ MaxCost \in Nat
    BY CostsAssumption DEF TypeOK
  <1> QED BY <1>3, <1>4 DEF Reserved

LEMMA BoundStep == TypeOK /\ BoundInv /\ [Next]_vars => BoundInv'
  <1> SUFFICES ASSUME TypeOK, BoundInv, [Next]_vars,
                      NEW k \in Keys, LargestCap(k)
               PROVE  Reserved(TenantOf[k], Cap[k])'
    BY DEF BoundInv, LargestCap
  <1> DEFINE t == TenantOf[k]
  <1>0. /\ TypeOK' /\ t \in Tenants /\ Cap[k] \in Nat /\ Reserved(t, Cap[k])
        /\ \A task \in Tasks : Tenant(task) \in Tenants
    BY StepType, TenantsHaveKeys, KeysAssumption DEF BoundInv, LargestCap, Tenant, TypeOK
  <1> HIDE DEF t
  <1>a. ASSUME spent'[t] <= spent[t], Open(t)' \subseteq Open(t)
        PROVE  Reserved(t, Cap[k])'
    BY <1>0, <1>a, ReserveKept
  <1>b. ASSUME NEW task \in Tasks, pc' = [pc EXCEPT ![task] = "idle"], key' = key
        PROVE  Open(t)' = Open(t) \ {task}
    BY <1>b DEF Open, Tenant, TypeOK
  <1>1. ASSUME NEW task \in Tasks, Admit(task) PROVE Reserved(t, Cap[k])'
    <2>1. PICK j \in Keys, start \in {"complete", "stream"} :
            /\ Allows(j)
            /\ IF Capped(j) THEN Renew(TenantOf[j]) ELSE UNCHANGED <<spent, age, used>>
            /\ key' = [key EXCEPT ![task] = j]
            /\ pc' = [pc EXCEPT ![task] = start]
      BY <1>1 DEF Admit
    <2>2. CASE TenantOf[j] = t
      <3>1. Cap[j] \in 0..Cap[k]
        BY <2>2 DEF LargestCap, t
      <3>2. Capped(j) /\ Cap[j] <= Cap[k] /\ Cap[j] \in Int
        BY <1>0, <3>1 DEF Capped, Unlimited
      <3>3. spent'[t] = Spent(t) /\ Spent(t) < Cap[j] /\ Spent(t) \in Nat
        BY <1>0, <2>1, <2>2, <3>2, RenewType, SpentType DEF Allows
      <3>4. spent'[t] < Cap[k]
        BY <1>0, <3>2, <3>3
      <3> QED BY <1>0, <3>4, ReserveMade
    <2>3. CASE TenantOf[j] # t
      <3>1. spent'[t] <= spent[t]
        BY <1>0, <2>1, TenantsHaveKeys, RenewType DEF TypeOK
      <3>2. Open(t)' \subseteq Open(t)
        BY <2>1, <2>3 DEF Open, Tenant, TypeOK
      <3> QED BY <1>a, <3>1, <3>2
    <2> QED BY <2>2, <2>3
  <1>2. ASSUME NEW task \in Tasks, Refuse(task) PROVE Reserved(t, Cap[k])'
    <2>1. spent'[t] <= spent[t]
      BY <1>0, <1>2, TenantsHaveKeys, RenewType DEF Refuse
    <2>2. Open(t)' = Open(t)
      BY <1>2 DEF Refuse, Open, Tenant
    <2> QED BY <1>a, <2>1, <2>2
  <1>3. ASSUME NEW task \in Tasks, CacheHit(task) PROVE Reserved(t, Cap[k])'
    <2>1. spent'[t] <= spent[t]
      BY <1>0, <1>3, RenewType DEF CacheHit, Record
    <2>2. Open(t)' \subseteq Open(t)
      BY <1>3, <1>b DEF CacheHit
    <2> QED BY <1>a, <2>1, <2>2
  <1>4. ASSUME NEW task \in Tasks, Answer(task) PROVE Reserved(t, Cap[k])'
    <2>1. spent'[t] <= spent[t]
      BY <1>0, <1>4 DEF Answer, TypeOK
    <2>2. Open(t)' \subseteq Open(t)
      BY <1>4 DEF Answer, Open, Tenant, TypeOK
    <2> QED BY <1>a, <2>1, <2>2
  <1>5. ASSUME NEW task \in Tasks, Charge(task) PROVE Reserved(t, Cap[k])'
    <2>1. Open(t)' = Open(t) \ {task}
      BY <1>5, <1>b DEF Charge
    <2>2. cost[task] \in 0..MaxCost /\ Record(Tenant(task), cost[task])
      BY <1>5 DEF Charge, TypeOK
    <2>3. CASE Tenant(task) = t
      <3>1. task \in Open(t)
        BY <1>5, <2>3 DEF Charge, Open
      <3>2. spent'[t] <= spent[t] + cost[task]
        BY <1>0, <2>2, <2>3, RecordType
      <3>3. spent'[t] \in Nat /\ spent[t] \in Nat
        BY <1>0 DEF TypeOK
      <3>4. spent'[t] <= spent[t] + MaxCost
        BY <2>2, <3>2, <3>3, CostsAssumption
      <3> QED BY <1>0, <2>1, <3>1, <3>4, ReserveUsed
    <2>4. CASE Tenant(task) # t
      <3>1. spent'[t] = spent[t] /\ spent[t] \in Nat
        BY <1>0, <2>2, <2>4, RecordType DEF TypeOK
      <3> QED BY <1>a, <2>1, <3>1
    <2> QED BY <2>3, <2>4
  <1>6. ASSUME NEW task \in Tasks, Fail(task) \/ StreamEnds(task)
        PROVE  Reserved(t, Cap[k])'
    <2>1. spent' = spent /\ spent[t] \in Nat
      BY <1>0, <1>6 DEF Fail, StreamEnds, TypeOK
    <2>2. Open(t)' \subseteq Open(t)
      BY <1>6, <1>b DEF Fail, StreamEnds
    <2> QED BY <1>a, <2>1, <2>2
  <1>7. ASSUME Tick \/ UNCHANGED vars PROVE Reserved(t, Cap[k])'
    <2>1. spent' = spent /\ spent[t] \in Nat
      BY <1>0, <1>7 DEF Tick, vars, TypeOK
    <2>2. Open(t)' = Open(t)
      BY <1>7 DEF Tick, vars, Open, Tenant
    <2> QED BY <1>a, <2>1, <2>2
  <1>8. ASSUME Restart PROVE Reserved(t, Cap[k])'
    <2>1. spent'[t] = 0 /\ spent[t] \in Nat
      BY <1>0, <1>8 DEF Restart, TypeOK
    <2>2. Open(t)' \subseteq Open(t)
      BY <1>8, PlaceNames DEF Restart, Open
    <2> QED BY <1>a, <2>1, <2>2
  <1>9. Reserved(t, Cap[k])'
    BY <1>1, <1>2, <1>3, <1>4, <1>5, <1>6, <1>7, <1>8 DEF Next
  <1> QED BY <1>9 DEF t

\* However many requests of a tenant are in flight together, its spend in a
\* window stays below its cap plus one answer for each handler.
THEOREM SpendIsBounded == Spec => []SpendBounded
  <1>1. Init => BoundInv
    <2> SUFFICES ASSUME Init, NEW k \in Keys, LargestCap(k)
                 PROVE  Reserved(TenantOf[k], Cap[k])
      BY DEF BoundInv
    <2>1. Open(TenantOf[k]) = {} /\ spent[TenantOf[k]] = 0
      BY TenantsHaveKeys DEF Init, Open
    <2>2. Cap[k] \in Nat /\ Cap[k] > 0
      BY KeysAssumption DEF LargestCap, Unlimited
    <2>3. /\ Cardinality({}) = 0 /\ Cardinality(Tasks) \in Nat /\ MaxCost * 0 = 0
          /\ MaxCost * Cardinality(Tasks) \in Nat
      BY FS_EmptySet, FS_CardinalityType, TasksAssumption, CostsAssumption, Products
    <2> QED BY <2>1, <2>2, <2>3 DEF Reserved
  <1>2. TypeOK /\ BoundInv => SpendBounded
    <2> SUFFICES ASSUME TypeOK, BoundInv, NEW k \in Keys, LargestCap(k)
                 PROVE  spent[TenantOf[k]] < Cap[k] + MaxCost * Cardinality(Tasks)
      BY DEF SpendBounded
    <2> DEFINE n == Cardinality(Open(TenantOf[k]))
    <2>1. n \in Nat /\ n <= Cardinality(Tasks) /\ Cardinality(Tasks) \in Nat
      BY OpenFinite
    <2>2. MaxCost * n \in Nat /\ MaxCost * Cardinality(Tasks) \in Nat
      BY <2>1, Products, CostsAssumption
    <2>3. spent[TenantOf[k]] \in Nat /\ Cap[k] \in Nat
      BY TenantsHaveKeys, KeysAssumption DEF TypeOK, LargestCap, Unlimited
    <2>4. spent[TenantOf[k]] + MaxCost * n < Cap[k] + MaxCost * Cardinality(Tasks)
      BY DEF BoundInv, Reserved
    <2> HIDE DEF n
    <2> QED BY <2>2, <2>3, <2>4
  <1> QED BY InitType, StepType, BoundStep, <1>1, <1>2, PTL DEF Spec
=============================================================================
