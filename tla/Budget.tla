------------------------------- MODULE Budget -------------------------------
(***************************************************************************)
(* Spend caps (ratelimit/budget.py) as the chat endpoint applies them      *)
(* (api/chat.py): the cap is checked before a request, and the cost is     *)
(* recorded when a blocking request has been answered.  Concurrent         *)
(* requests of one tenant share a total, and the handler awaits between    *)
(* the check and the record.                                               *)
(*                                                                         *)
(* A window is kept by its age, which stops at Window: the code compares   *)
(* it with window_s and nothing else.  Costs are whole units.  Several     *)
(* keys may bear one tenant's name, each with a cap of its own.  A request *)
(* whose key is not known ends before the check and is left out, as is one *)
(* the rate limiter refuses.                                               *)
(***************************************************************************)
EXTENDS Configuration, FiniteSets

CONSTANTS
    Tasks,     \* handlers
    Settings,  \* the settings of the gateway
    Headers,   \* the Authorization headers clients send
    Costs,     \* what an upstream answer may cost
    MaxCost,   \* the most it costs
    MaxUsed    \* bound: what a tenant may use without the cap in its way

Unlimited == -1
Unset == -1

\* The headers of requests that reach the check, the tenant each stands for
\* and the cap it has.
Keys == {h \in Headers : Authenticated(Settings, h)}
TenantOf == [k \in Keys |-> Principal(Settings, k).tenant]
Cap == [k \in Keys |->
           LET cap == CapOf(Settings, Principal(Settings, k))
           IN  IF cap = None THEN Unlimited ELSE cap]
Tenants == {TenantOf[k] : k \in Keys}

\* The length of a window, in ticks.
Window == IF Settings.budget.window_s > 1 THEN Settings.budget.window_s ELSE 1

ASSUME KeysAssumption == Cap \in [Keys -> Nat \cup {Unlimited}]
ASSUME TasksAssumption == IsFiniteSet(Tasks)
ASSUME CostsAssumption == MaxCost \in Nat /\ Costs \subseteq 0..MaxCost
ASSUME BoundsAssumption == Window \in Nat \ {0} /\ MaxUsed \in Nat
ASSUME EnabledAssumption == Settings.budget.enabled

VARIABLES
    spent,  \* _state[tenant]: the total of its window ...
    age,    \* ... and the window's age, or Unset without an entry
    pc,     \* where each handler is suspended
    key,    \* the key it serves
    cost,   \* what its answer cost, once upstream has given one
    used    \* history: what the tenant's answers cost, streams included

vars == <<spent, age, pc, key, cost, used>>

PCs == {"idle", "complete", "put", "stream"}
Capped(k) == Cap[k] # Unlimited
Tenant(task) == TenantOf[key[task]]

\* What _window returns, and writes back if the window has expired.
Expired(t) == age[t] = Window
Spent(t) == IF Expired(t) THEN 0 ELSE spent[t]
Renew(t) ==
    /\ spent' = [spent EXCEPT ![t] = Spent(t)]
    /\ age' = [age EXCEPT ![t] = IF Expired(t) THEN 0 ELSE @]
    /\ used' = [used EXCEPT ![t] = IF Expired(t) THEN 0 ELSE @]

\* record, for a tenant t and a cost c: a cost of zero renews the window only.
Record(t, c) ==
    IF c = 0 THEN Renew(t)
    ELSE /\ spent' = [spent EXCEPT ![t] = Spent(t) + c]
         /\ age' = [age EXCEPT ![t] = IF @ = Unset \/ Expired(t) THEN 0 ELSE @]
         /\ used' = [used EXCEPT ![t] = IF Expired(t) THEN c ELSE @ + c]

-----------------------------------------------------------------------------

Init ==
    /\ spent = [t \in Tenants |-> 0]
    /\ age = [t \in Tenants |-> Unset]
    /\ pc = [task \in Tasks |-> "idle"]
    /\ key \in [Tasks -> Keys]
    /\ cost = [task \in Tasks |-> 0]
    /\ used = [t \in Tenants |-> 0]

\* Mutant: a request that reaches the cap exactly is let through.
AllowsAtCap(k) == Capped(k) => Spent(TenantOf[k]) <= Cap[k]

\* check.
Allows(k) == Capped(k) => Spent(TenantOf[k]) < Cap[k]

Admit(task) ==
    /\ pc[task] = "idle"
    /\ \E k \in Keys, start \in {"complete", "stream"} :
          /\ ~Capped(k) \/ start = "stream" => used[TenantOf[k]] < MaxUsed
          /\ Allows(k)
          /\ IF Capped(k) THEN Renew(TenantOf[k]) ELSE UNCHANGED <<spent, age, used>>
          /\ key' = [key EXCEPT ![task] = k]
          /\ pc' = [pc EXCEPT ![task] = start]
    /\ UNCHANGED cost

\* Mutant: a refusal starts the window anew, so it slides.
RefuseSlides(task) ==
    /\ pc[task] = "idle"
    /\ \E k \in Keys :
          /\ ~Allows(k)
          /\ age' = [age EXCEPT ![TenantOf[k]] = 0]
    /\ UNCHANGED <<spent, pc, key, cost, used>>

\* 402.  The tenant's window is not expired, for an expired one has no spend
\* in it, unless the cap is zero.
Refuse(task) ==
    /\ pc[task] = "idle"
    /\ \E k \in Keys :
          /\ ~Allows(k)
          /\ Renew(TenantOf[k])
    /\ UNCHANGED <<pc, key, cost>>

\* Mutant: an answer from the cache refunds what it saved.
CacheHitRefunds(task) ==
    /\ pc[task] = "complete"
    /\ spent' = [spent EXCEPT ![Tenant(task)] = Spent(Tenant(task)) - 1]
    /\ pc' = [pc EXCEPT ![task] = "idle"]
    /\ UNCHANGED <<age, key, cost, used>>

\* An answer from the cache has no estimated cost.
CacheHit(task) ==
    /\ pc[task] = "complete"
    /\ Record(Tenant(task), 0)
    /\ pc' = [pc EXCEPT ![task] = "idle"]
    /\ UNCHANGED <<key, cost>>

\* Upstream has answered; the handler awaits the cache's put.
Answer(task) ==
    /\ pc[task] = "complete"
    /\ \E c \in Costs : cost' = [cost EXCEPT ![task] = c]
    /\ pc' = [pc EXCEPT ![task] = "put"]
    /\ UNCHANGED <<spent, age, key, used>>

Charge(task) ==
    /\ pc[task] = "put"
    /\ Record(Tenant(task), cost[task])
    /\ cost' = [cost EXCEPT ![task] = 0]
    /\ pc' = [pc EXCEPT ![task] = "idle"]
    /\ UNCHANGED key

\* A GatewayError, or an exception of the cache's put: nothing is recorded.
Fail(task) ==
    /\ pc[task] \in {"complete", "put", "stream"}
    /\ cost' = [cost EXCEPT ![task] = 0]
    /\ pc' = [pc EXCEPT ![task] = "idle"]
    /\ UNCHANGED <<spent, age, key, used>>

\* A stream is metered (service._cache_stream) but not recorded.
StreamEnds(task) ==
    /\ pc[task] = "stream"
    /\ \E c \in Costs : used' = [used EXCEPT ![Tenant(task)] = @ + c]
    /\ pc' = [pc EXCEPT ![task] = "idle"]
    /\ UNCHANGED <<spent, age, key, cost>>

\* The process is started anew: the totals were in its memory only.
Restart ==
    /\ spent' = [t \in Tenants |-> 0]
    /\ age' = [t \in Tenants |-> Unset]
    /\ pc' = [task \in Tasks |-> "idle"]
    /\ cost' = [task \in Tasks |-> 0]
    /\ used' = [t \in Tenants |-> 0]
    /\ UNCHANGED key

Tick ==
    /\ age' = [t \in Tenants |-> IF age[t] \in {Unset, Window} THEN age[t] ELSE age[t] + 1]
    /\ UNCHANGED <<spent, pc, key, cost, used>>

Next ==
    \/ \E task \in Tasks :
          \/ Admit(task) \/ Refuse(task) \/ CacheHit(task) \/ Answer(task)
          \/ Charge(task) \/ Fail(task) \/ StreamEnds(task)
    \/ Restart
    \/ Tick

\* Time passes; nothing is assumed of the clients.
Spec == Init /\ [][Next]_vars /\ WF_vars(Tick)

-----------------------------------------------------------------------------
(* Properties *)

\* Every variable has its type; a window without an entry has no spend.
TypeOK ==
    /\ spent \in [Tenants -> Nat]
    /\ age \in [Tenants -> {Unset} \cup 0..Window]
    /\ pc \in [Tasks -> PCs]
    /\ key \in [Tasks -> Keys]
    /\ cost \in [Tasks -> 0..MaxCost]
    /\ used \in [Tenants -> Nat]

\* k has the largest cap of the tenant's keys, all of them capped.
LargestCap(k) ==
    /\ Cap[k] > 0
    /\ \A j \in Keys : TenantOf[j] = TenantOf[k] => Cap[j] \in 0..Cap[k]

\* What a tenant is charged in a window exceeds its cap by less than one
\* answer for each handler, late answers to an earlier window's requests
\* included: at most that many had passed the check (budget.py:51) before the
\* charges that fill the cap were recorded (chat.py:85).
SpendBounded ==
    \A k \in Keys :
        LargestCap(k) => spent[TenantOf[k]] < Cap[k] + MaxCost * Cardinality(Tasks)

\* A tenant over its cap is let in again, however often it asks meanwhile
\* (budget.py:38): the window is fixed, and refusals do not prolong it.
CapReopens ==
    \A k \in Keys : Cap[k] > 0 => []<>Allows(k)

\* The README's promise of the cap: once the tenant's estimated spend has
\* reached it, no request of the tenant is admitted until the window resets.
CapIsKept ==
    [][\A task \in Tasks :
          pc[task] = "idle" /\ pc'[task] # "idle" =>
              LET k == key'[task]
              IN  Capped(k) /\ ~Expired(TenantOf[k]) => used[TenantOf[k]] < Cap[k]]_vars
=============================================================================
