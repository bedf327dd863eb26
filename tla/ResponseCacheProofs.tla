-------------------------- MODULE ResponseCacheProofs --------------------------
(***************************************************************************)
(* Proofs about ResponseCache, for any hosts, handlers and prompts, every  *)
(* similarity and every limit.                                             *)
(***************************************************************************)
EXTENDS ResponseCache, TLAPS, FiniteSetTheorems

\* What a handler relies on: it has a prompt while it serves one, and its
\* first lookup is for that prompt.
TypeInv ==
    /\ TypeOK
    /\ \A t \in Tasks : pc[t] # "idle" => prompt[t] \in Prompts
    /\ \A t \in Tasks : pc[t] = "exact" => key[t] = prompt[t]
    /\ \A t \in Tasks : pc[t] = "semantic" => key[t] \in Prompts

LEMMA MatchesType ==
    ASSUME TypeOK, NEW h \in Hosts, NEW p
    PROVE  Matches(h, p) \subseteq Prompts
  <1>1. \A i \in DOMAIN index[h] : index[h][i] \in Prompts
    BY DEF TypeOK
  <1> QED BY <1>1 DEF Matches, Nearest

LEMMA AppendedType ==
    ASSUME TypeOK, NEW h \in Hosts, NEW p \in Prompts
    PROVE  Appended(h, p) \in Seq(Prompts) /\ Len(Appended(h, p)) <= MaxEntries
  <1> DEFINE s == Append(index[h], p)
  <1>1. /\ index[h] \in Seq(Prompts) /\ Len(index[h]) \in Nat
        /\ Len(index[h]) <= MaxEntries /\ MaxEntries \in Nat
    BY LimitsAssumption DEF TypeOK
  <1>2. s \in Seq(Prompts) /\ Len(s) = Len(index[h]) + 1 /\ s # << >>
    BY <1>1
  <1>3. Tail(s) \in Seq(Prompts) /\ Len(Tail(s)) = Len(s) - 1
    BY <1>2
  <1> QED BY <1>1, <1>2, <1>3 DEF Appended

LEMMA InitType == Init => TypeInv
  BY LimitsAssumption DEF Init, TypeInv, TypeOK, PCs

LEMMA StepType == TypeInv /\ [Next]_vars => TypeInv'
  <1> SUFFICES ASSUME TypeInv, [Next]_vars PROVE TypeInv'
    OBVIOUS
  <1> USE DEF TypeInv, TypeOK, PCs
  <1>1. ASSUME NEW t \in Tasks, Get(t) PROVE TypeInv'
    BY <1>1 DEF Get
  <1>2. ASSUME NEW t \in Tasks, Hit(t) PROVE TypeInv'
    BY <1>2 DEF Hit
  <1>3. ASSUME NEW t \in Tasks, ExactMiss(t) PROVE TypeInv'
    <2>1. Matches(HostOf[t], prompt[t]) \subseteq Prompts
      BY MatchesType, TasksAssumption
    <2> QED BY <1>3, <2>1 DEF ExactMiss
  <1>4. ASSUME NEW t \in Tasks, SemanticMiss(t) PROVE TypeInv'
    BY <1>4 DEF SemanticMiss
  <1>5. ASSUME NEW t \in Tasks, Put(t) PROVE TypeInv'
    BY <1>5 DEF Put
  <1>6. ASSUME NEW t \in Tasks, StoreSet(t) PROVE TypeInv'
    BY <1>6, LimitsAssumption DEF StoreSet
  <1>7. ASSUME NEW t \in Tasks, Index(t) PROVE TypeInv'
    <2>1. HostOf[t] \in Hosts /\ prompt[t] \in Prompts
      BY <1>7, TasksAssumption DEF Index
    <2>2. /\ Appended(HostOf[t], prompt[t]) \in Seq(Prompts)
          /\ Len(Appended(HostOf[t], prompt[t])) <= MaxEntries
      BY <2>1, AppendedType
    <2> QED BY <1>7, <2>1, <2>2 DEF Index
  <1>8. ASSUME NEW t \in Tasks, Fail(t) PROVE TypeInv'
    BY <1>8 DEF Fail
  <1>9. ASSUME NEW h \in Hosts, Restart(h) PROVE TypeInv'
    <2>1. << >> \in Seq(Prompts) /\ Len(<< >>) = 0 /\ 0 <= MaxEntries
      BY LimitsAssumption
    <2> QED BY <1>9, <2>1 DEF Restart
  <1>10. CASE Tick
    BY <1>10, LimitsAssumption DEF Tick, Live
  <1>11. CASE UNCHANGED vars
    BY <1>11 DEF vars
  <1> QED
    BY <1>1, <1>2, <1>3, <1>4, <1>5, <1>6, <1>7, <1>8, <1>9, <1>10, <1>11 DEF Next, Lookup

\* Every variable keeps its type, and no index passes its bound.
THEOREM TypeCorrect == Spec => []TypeOK
  <1>1. TypeInv => TypeOK
    BY DEF TypeInv
  <1> QED BY InitType, StepType, <1>1, PTL DEF Spec

-----------------------------------------------------------------------------
(* The stampede *)

\* The handlers that have missed p and may still store an answer for it.
Missed(p) == {t \in Tasks : pc[t] \in {"semantic", "upstream", "put"} /\ prompt[t] = p}

\* Why a stampede is bounded: while an entry lives no handler misses it, so
\* the handlers that may still store it are among those that have not yet.
StampInv ==
    \A p \in Prompts :
        IF Live(p) THEN puts[p] + Cardinality(Missed(p)) <= Cardinality(Tasks)
        ELSE puts[p] = 0

LEMMA MissedFinite ==
    ASSUME NEW p
    PROVE  /\ IsFiniteSet(Missed(p)) /\ Cardinality(Missed(p)) \in Nat
           /\ Cardinality(Missed(p)) <= Cardinality(Tasks) /\ Cardinality(Tasks) \in Nat
  <1>1. Missed(p) \subseteq Tasks
    BY DEF Missed
  <1> QED BY <1>1, TasksAssumption, FS_Subset, FS_CardinalityType

\* A step that makes nobody miss p, and leaves its entry and its count alone,
\* keeps the invariant for it.
LEMMA Quiet ==
    ASSUME TypeInv, StampInv, NEW p \in Prompts,
           life'[p] = life[p], puts'[p] = puts[p],
           \A t \in Tasks : t \in Missed(p)' => t \in Missed(p)
    PROVE  IF Live(p)' THEN puts'[p] + Cardinality(Missed(p)') <= Cardinality(Tasks)
           ELSE puts'[p] = 0
  <1>1. Missed(p)' \subseteq Missed(p)
    BY DEF Missed
  <1>2. Cardinality(Missed(p)') <= Cardinality(Missed(p)) /\ Cardinality(Missed(p)') \in Nat
    BY <1>1, MissedFinite, FS_Subset, FS_CardinalityType
  <1>3. Live(p)' = Live(p)
    BY DEF Live
  <1>4. CASE Live(p)
    BY <1>2, <1>3, <1>4, MissedFinite DEF StampInv, TypeInv, TypeOK
  <1>5. CASE ~Live(p)
    BY <1>3, <1>5 DEF StampInv
  <1> QED BY <1>4, <1>5

LEMMA StampStep == TypeInv /\ StampInv /\ [Next]_vars => StampInv'
  <1> SUFFICES ASSUME TypeInv, StampInv, [Next]_vars, NEW p \in Prompts
               PROVE  IF Live(p)' THEN puts'[p] + Cardinality(Missed(p)') <= Cardinality(Tasks)
                      ELSE puts'[p] = 0
    BY DEF StampInv
  <1> DEFINE Goal == IF Live(p)' THEN puts'[p] + Cardinality(Missed(p)') <= Cardinality(Tasks)
                     ELSE puts'[p] = 0
  <1>1. ASSUME NEW t \in Tasks,
               Get(t) \/ Hit(t) \/ SemanticMiss(t) \/ Put(t) \/ Index(t) \/ Fail(t)
        PROVE  Goal
    <2>1. life' = life /\ puts' = puts
      BY <1>1 DEF Get, Hit, SemanticMiss, Put, Index, Fail
    <2>2. \A u \in Tasks : u \in Missed(p)' => u \in Missed(p)
      BY <1>1 DEF Get, Hit, SemanticMiss, Put, Index, Fail, Missed, TypeInv, TypeOK
    <2> QED BY <2>1, <2>2, Quiet
  <1>2. ASSUME NEW t \in Tasks, ExactMiss(t) PROVE Goal
    <2>1. life' = life /\ puts' = puts /\ prompt' = prompt
      BY <1>2 DEF ExactMiss
    <2>2. CASE Live(p)
      <3>1. prompt[t] # p
        BY <1>2, <2>2 DEF ExactMiss, TypeInv
      <3>2. \A u \in Tasks \ {t} : pc'[u] = pc[u]
        BY <1>2 DEF ExactMiss, TypeInv, TypeOK
      <3>3. \A u \in Tasks : u \in Missed(p)' => u \in Missed(p)
        BY <2>1, <3>1, <3>2 DEF Missed
      <3> QED BY <2>1, <3>3, Quiet
    <2>3. CASE ~Live(p)
      BY <2>1, <2>3 DEF Live, StampInv
    <2> QED BY <2>2, <2>3
  <1>3. ASSUME NEW t \in Tasks, StoreSet(t) PROVE Goal
    <2>1. CASE prompt[t] # p
      <3>1. life'[p] = life[p] /\ puts'[p] = puts[p]
        BY <1>3, <2>1 DEF StoreSet, TypeInv, TypeOK
      <3>2. \A u \in Tasks : u \in Missed(p)' => u \in Missed(p)
        BY <1>3 DEF StoreSet, Missed, TypeInv, TypeOK
      <3> QED BY <3>1, <3>2, Quiet
    <2>2. CASE prompt[t] = p
      <3>1. puts'[p] = puts[p] + 1 /\ puts[p] \in Nat
        BY <1>3, <2>2 DEF StoreSet, TypeInv, TypeOK
      <3>2. t \in Missed(p) /\ Missed(p)' = Missed(p) \ {t}
        BY <1>3, <2>2 DEF StoreSet, Missed, TypeInv, TypeOK
      <3>3. Cardinality(Missed(p)') = Cardinality(Missed(p)) - 1
        BY <3>2, MissedFinite, FS_RemoveElement
      <3>4. Live(p)'
        BY <1>3, <2>2, LimitsAssumption DEF StoreSet, Live, TypeInv, TypeOK
      <3>5. CASE Live(p)
        BY <3>1, <3>3, <3>4, <3>5, MissedFinite DEF StampInv
      <3>6. CASE ~Live(p)
        BY <3>1, <3>3, <3>4, <3>6, MissedFinite DEF StampInv
      <3> QED BY <3>5, <3>6
    <2> QED BY <2>1, <2>2
  <1>4. ASSUME NEW h \in Hosts, Restart(h) PROVE Goal
    <2>1. life' = life /\ puts' = puts
      BY <1>4 DEF Restart
    <2>2. \A u \in Tasks : u \in Missed(p)' => u \in Missed(p)
      BY <1>4 DEF Restart, Missed
    <2> QED BY <2>1, <2>2, Quiet
  <1>5. CASE Tick
    <2>1. /\ life'[p] = (IF Live(p) THEN life[p] - 1 ELSE 0)
          /\ puts'[p] = (IF life[p] > 1 THEN puts[p] ELSE 0)
          /\ life[p] \in Nat
      BY <1>5, LimitsAssumption DEF Tick, TypeInv, TypeOK
    <2>2. Missed(p)' = Missed(p)
      BY <1>5 DEF Tick, Missed
    <2>3. CASE life[p] > 1
      BY <2>1, <2>2, <2>3 DEF Live, StampInv
    <2>4. CASE ~(life[p] > 1)
      BY <2>1, <2>4 DEF Live
    <2> QED BY <2>3, <2>4
  <1>6. CASE UNCHANGED vars
    BY <1>6, Quiet DEF vars, Missed
  <1> QED BY <1>1, <1>2, <1>3, <1>4, <1>5, <1>6 DEF Next, Lookup

\* However many hosts and handlers there are, upstream is paid for one prompt
\* at most once by each handler while the prompt's entry lives.
THEOREM StampedeIsBounded == Spec => []StampedeBounded
  <1>1. Init => StampInv
    BY DEF Init, StampInv, Live
  <1>2. TypeInv /\ StampInv => StampedeBounded
    <2> SUFFICES ASSUME TypeInv, StampInv, NEW p \in Prompts
                 PROVE  puts[p] <= Cardinality(Tasks)
      BY DEF StampedeBounded
    <2> QED BY MissedFinite DEF StampInv, TypeInv, TypeOK
  <1> QED BY InitType, StepType, StampStep, <1>1, <1>2, PTL DEF Spec

-----------------------------------------------------------------------------
(* The cache implements AnswerCache *)

\* AnswerCache's variables at a handler: the mapping of Promise.
PhaseOf(t) ==
    CASE pc[t] \in {"exact", "semantic"} -> "asking"
      [] pc[t] \in {"upstream", "put"} -> "missed"
      [] OTHER -> "idle"
PromptOf(t) == IF pc[t] = "index" THEN None ELSE prompt[t]
GivenTo(t) == IF pc[t] = "idle" THEN key[t] ELSE None
Kept == {p \in Prompts : Live(p)}

\* A handler has no prompt when it has no request, looks up only a key that
\* will do for its prompt, and forgets it once it has missed.
KeyInv ==
    \A t \in Tasks :
        /\ pc[t] = "idle" => prompt[t] = None
        /\ pc[t] = "semantic" => Near(key[t], prompt[t])
        /\ pc[t] \in {"upstream", "put", "index"} => key[t] = None

\* What the semantic lookup takes is near enough, and of the model.
LEMMA MatchesNear ==
    ASSUME NEW h \in Hosts, NEW p
    PROVE  \A k \in Matches(h, p) : Near(k, p)
  BY DEF Matches, Nearest, Near

LEMMA KeyStep == TypeInv /\ KeyInv /\ [Next]_vars => KeyInv'
  <1> SUFFICES ASSUME TypeInv, KeyInv, [Next]_vars PROVE KeyInv'
    OBVIOUS
  <1>0. /\ pc \in [Tasks -> PCs] /\ prompt \in [Tasks -> Prompts \cup {None}]
        /\ key \in [Tasks -> Prompts \cup {None}]
    BY DEF TypeInv, TypeOK
  <1>1. ASSUME NEW t \in Tasks,
               Get(t) \/ Hit(t) \/ SemanticMiss(t) \/ Put(t) \/ StoreSet(t) \/ Index(t) \/ Fail(t)
        PROVE  KeyInv'
    BY <1>0, <1>1 DEF Get, Hit, SemanticMiss, Put, StoreSet, Index, Fail, KeyInv, Near
  <1>2. ASSUME NEW t \in Tasks, ExactMiss(t) PROVE KeyInv'
    <2>1. \A k \in Matches(HostOf[t], prompt[t]) : Near(k, prompt[t])
      BY MatchesNear, TasksAssumption
    <2> QED BY <1>0, <1>2, <2>1 DEF ExactMiss, KeyInv, Near
  <1>3. ASSUME NEW h \in Hosts, Restart(h) PROVE KeyInv'
    BY <1>0, <1>3 DEF Restart, KeyInv, Near
  <1>4. CASE Tick \/ UNCHANGED vars
    BY <1>4 DEF Tick, vars, KeyInv, Near
  <1> QED BY <1>1, <1>2, <1>3, <1>4 DEF Next, Lookup

\* What AnswerCache sees of the other handlers stays.
Unseen(t) ==
    \A u \in Tasks \ {t} :
        PhaseOf(u)' = PhaseOf(u) /\ PromptOf(u)' = PromptOf(u) /\ GivenTo(u)' = GivenTo(u)

\* A step of one handler that AnswerCache does not see.
LEMMA IsStutter ==
    ASSUME NEW t \in Tasks, Unseen(t), life' = life,
           PhaseOf(t)' = PhaseOf(t), PromptOf(t)' = PromptOf(t), GivenTo(t)' = GivenTo(t)
    PROVE  UNCHANGED Promise!vars
  <1>1. [u \in Tasks |-> PhaseOf(u)]' = [u \in Tasks |-> PhaseOf(u)]
    BY DEF Unseen
  <1>2. [u \in Tasks |-> PromptOf(u)]' = [u \in Tasks |-> PromptOf(u)]
    BY DEF Unseen
  <1>3. [u \in Tasks |-> GivenTo(u)]' = [u \in Tasks |-> GivenTo(u)]
    BY DEF Unseen
  <1>4. Kept' = Kept
    BY DEF Kept, Live
  <1> QED BY <1>1, <1>2, <1>3, <1>4 DEF Promise!vars, PhaseOf, PromptOf, GivenTo, Kept

\* A step in which some handlers go, and the others stay as they were.
LEMMA IsLeave ==
    ASSUME NEW gone \in SUBSET Tasks, life' = life,
           \A u \in Tasks : /\ PhaseOf(u)' = (IF u \in gone THEN "idle" ELSE PhaseOf(u))
                            /\ PromptOf(u)' = (IF u \in gone THEN None ELSE PromptOf(u))
                            /\ GivenTo(u)' = GivenTo(u)
    PROVE  Promise!Leave
  <1>1. [u \in Tasks |-> PhaseOf(u)]' =
            [u \in Tasks |-> IF u \in gone THEN "idle" ELSE PhaseOf(u)]
    OBVIOUS
  <1>2. [u \in Tasks |-> PromptOf(u)]' =
            [u \in Tasks |-> IF u \in gone THEN None ELSE PromptOf(u)]
    OBVIOUS
  <1>3. [u \in Tasks |-> GivenTo(u)]' = [u \in Tasks |-> GivenTo(u)]
    OBVIOUS
  <1>4. Kept' = Kept
    BY DEF Kept, Live
  <1> QED BY <1>1, <1>2, <1>3, <1>4 DEF Promise!Leave, PhaseOf, PromptOf, GivenTo, Kept

LEMMA AnswerStep ==
    ASSUME TypeInv, TypeInv', KeyInv, [Next]_vars
    PROVE  [Promise!Next]_(Promise!vars)
  <1>0. /\ pc \in [Tasks -> PCs] /\ prompt \in [Tasks -> Prompts \cup {None}]
        /\ key \in [Tasks -> Prompts \cup {None}] /\ life \in [Prompts -> 0..(TTL + 1)]
    BY DEF TypeInv, TypeOK
  <1> DEFINE phase == [u \in Tasks |-> PhaseOf(u)]
             asked == [u \in Tasks |-> PromptOf(u)]
             given == [u \in Tasks |-> GivenTo(u)]
  <1>a. ASSUME life' = life PROVE Kept' = Kept
    BY <1>a DEF Kept, Live
  <1>1. ASSUME NEW t \in Tasks, Get(t) PROVE Promise!Ask(t)
    <2>1. PICK p \in Prompts : prompt' = [prompt EXCEPT ![t] = p] /\ key' = [key EXCEPT ![t] = p]
      BY <1>1 DEF Get
    <2>2. pc[t] = "idle" /\ pc' = [pc EXCEPT ![t] = "exact"] /\ life' = life
      BY <1>1 DEF Get
    <2>3. /\ PhaseOf(t) = "idle" /\ PhaseOf(t)' = "asking"
          /\ PromptOf(t)' = p /\ GivenTo(t)' = None /\ Unseen(t)
      BY <1>0, <2>1, <2>2 DEF PhaseOf, PromptOf, GivenTo, Unseen
    <2>4. /\ phase' = [phase EXCEPT ![t] = "asking"]
          /\ asked' = [asked EXCEPT ![t] = p]
          /\ given' = [given EXCEPT ![t] = None]
      BY <2>3 DEF Unseen
    <2> QED BY <1>a, <2>2, <2>3, <2>4 DEF Promise!Ask, PhaseOf, PromptOf, GivenTo, Kept
  <1>2. ASSUME NEW t \in Tasks, Hit(t) PROVE Promise!Hit(t)
    <2>1. /\ pc[t] \in {"exact", "semantic"} /\ pc' = [pc EXCEPT ![t] = "idle"]
          /\ prompt' = [prompt EXCEPT ![t] = None] /\ UNCHANGED <<life, key>>
      BY <1>2 DEF Hit
    <2>2. key[t] \in Kept /\ Near(key[t], prompt[t])
      BY <1>2, <2>1 DEF Hit, Kept, TypeInv, KeyInv, Near
    <2>3. /\ PhaseOf(t) = "asking" /\ PhaseOf(t)' = "idle" /\ PromptOf(t) = prompt[t]
          /\ PromptOf(t)' = None /\ GivenTo(t)' = key[t] /\ Unseen(t)
      BY <1>0, <2>1 DEF PhaseOf, PromptOf, GivenTo, Unseen
    <2>4. /\ phase' = [phase EXCEPT ![t] = "idle"]
          /\ asked' = [asked EXCEPT ![t] = None]
          /\ given' = [given EXCEPT ![t] = key[t]]
      BY <2>3 DEF Unseen
    <2> QED BY <1>a, <2>1, <2>2, <2>3, <2>4 DEF Promise!Hit, PhaseOf, PromptOf, GivenTo, Kept
  <1>3. ASSUME NEW t \in Tasks, pc[t] \in {"exact", "semantic"},
               pc' = [pc EXCEPT ![t] = "upstream"], UNCHANGED <<life, prompt>>,
               key' = [key EXCEPT ![t] = None]
        PROVE  Promise!Miss(t)
    <2>1. /\ PhaseOf(t) = "asking" /\ PhaseOf(t)' = "missed"
          /\ PromptOf(t)' = PromptOf(t) /\ GivenTo(t)' = GivenTo(t) /\ Unseen(t)
      BY <1>0, <1>3 DEF PhaseOf, PromptOf, GivenTo, Unseen
    <2>2. phase' = [phase EXCEPT ![t] = "missed"] /\ asked' = asked /\ given' = given
      BY <2>1 DEF Unseen
    <2> QED BY <1>3, <1>a, <2>1, <2>2 DEF Promise!Miss, PhaseOf, PromptOf, GivenTo, Kept
  <1>4. ASSUME NEW t \in Tasks, ExactMiss(t) PROVE Promise!Miss(t) \/ UNCHANGED Promise!vars
    <2>1. CASE pc' = [pc EXCEPT ![t] = "upstream"] /\ key' = [key EXCEPT ![t] = None]
      BY <1>3, <1>4, <2>1 DEF ExactMiss
    <2>2. CASE pc' = [pc EXCEPT ![t] = "semantic"]
      <3>1. /\ pc[t] = "exact" /\ UNCHANGED <<life, prompt>>
            /\ \E k : key' = [key EXCEPT ![t] = k]
        BY <1>4, <2>2 DEF ExactMiss
      <3>2. /\ PhaseOf(t)' = PhaseOf(t) /\ PromptOf(t)' = PromptOf(t)
            /\ GivenTo(t)' = GivenTo(t) /\ Unseen(t)
        BY <1>0, <2>2, <3>1 DEF PhaseOf, PromptOf, GivenTo, Unseen
      <3> QED BY <3>1, <3>2, IsStutter
    <2> QED BY <1>4, <2>1, <2>2 DEF ExactMiss
  <1>5. ASSUME NEW t \in Tasks, SemanticMiss(t) PROVE Promise!Miss(t)
    BY <1>3, <1>5 DEF SemanticMiss
  <1>6. ASSUME NEW t \in Tasks, Put(t) \/ Index(t) PROVE UNCHANGED Promise!vars
    <2>1. /\ PhaseOf(t)' = PhaseOf(t) /\ PromptOf(t)' = PromptOf(t)
          /\ GivenTo(t)' = GivenTo(t) /\ Unseen(t) /\ life' = life
      BY <1>0, <1>6 DEF Put, Index, PhaseOf, PromptOf, GivenTo, Unseen, KeyInv
    <2> QED BY <2>1, IsStutter
  <1>7. ASSUME NEW t \in Tasks, StoreSet(t) PROVE Promise!Keep(t)
    <2>1. /\ pc[t] = "put" /\ pc' = [pc EXCEPT ![t] = "index"] /\ UNCHANGED <<prompt, key>>
          /\ life' = [life EXCEPT ![prompt[t]] = IF TTL > 0 THEN TTL ELSE 1]
          /\ prompt[t] \in Prompts
      BY <1>7 DEF StoreSet, TypeInv
    <2>2. Kept' = Kept \cup {prompt[t]}
      BY <1>0, <2>1, LimitsAssumption DEF Kept, Live
    <2>3. /\ PhaseOf(t) = "missed" /\ PhaseOf(t)' = "idle" /\ PromptOf(t) = prompt[t]
          /\ PromptOf(t)' = None /\ GivenTo(t)' = GivenTo(t) /\ Unseen(t)
      BY <1>0, <2>1 DEF PhaseOf, PromptOf, GivenTo, Unseen
    <2>4. /\ phase' = [phase EXCEPT ![t] = "idle"]
          /\ asked' = [asked EXCEPT ![t] = None] /\ given' = given
      BY <2>3 DEF Unseen
    <2> QED BY <2>2, <2>3, <2>4 DEF Promise!Keep, PhaseOf, PromptOf, GivenTo, Kept
  <1>8. ASSUME NEW t \in Tasks, Fail(t) PROVE Promise!Leave
    <2>1. \A u \in Tasks : /\ PhaseOf(u)' = (IF u \in {t} THEN "idle" ELSE PhaseOf(u))
                           /\ PromptOf(u)' = (IF u \in {t} THEN None ELSE PromptOf(u))
                           /\ GivenTo(u)' = GivenTo(u)
      BY <1>0, <1>8 DEF Fail, PhaseOf, PromptOf, GivenTo
    <2>2. {t} \in SUBSET Tasks /\ life' = life
      BY <1>8 DEF Fail
    <2> QED BY <2>1, <2>2, IsLeave
  <1>9. ASSUME NEW h \in Hosts, Restart(h) PROVE Promise!Leave
    <2> DEFINE gone == {u \in Tasks : HostOf[u] = h}
    <2>1. \A u \in Tasks : /\ PhaseOf(u)' = (IF u \in gone THEN "idle" ELSE PhaseOf(u))
                           /\ PromptOf(u)' = (IF u \in gone THEN None ELSE PromptOf(u))
                           /\ GivenTo(u)' = GivenTo(u)
      BY <1>0, <1>9 DEF Restart, PhaseOf, PromptOf, GivenTo
    <2>2. gone \in SUBSET Tasks /\ life' = life
      BY <1>9 DEF Restart
    <2> QED BY <2>1, <2>2, IsLeave
  <1>10. CASE Tick
    <2>1. Kept' \subseteq Kept
      BY <1>0, <1>10 DEF Tick, Kept, Live
    <2>2. UNCHANGED <<pc, prompt, key>>
      BY <1>10 DEF Tick
    <2> QED BY <2>1, <2>2 DEF Promise!Next, Promise!Forget, Kept
  <1>11. CASE UNCHANGED vars
    BY <1>11 DEF vars, Promise!vars, Live
  <1> QED
    BY <1>1, <1>2, <1>4, <1>5, <1>6, <1>7, <1>8, <1>9, <1>10, <1>11
       DEF Next, Lookup, Promise!Next

\* The cache implements the safety of AnswerCache: although an entry that a
\* lookup has chosen may expire, be replaced or lose its index before it is
\* read, on whatever hosts, what is given is a kept answer of the model that is
\* near enough.  That lookups end is liveness, which the run response_cache checks.
THEOREM ImplementsSafeAnswerCache == Spec => Promise!Safety
  <1>1. Init => Promise!Init /\ KeyInv
    BY LimitsAssumption DEF Init, Promise!Init, KeyInv, Live
  <1> QED
    BY InitType, StepType, KeyStep, AnswerStep, <1>1, PTL DEF Spec, Promise!Safety
=============================================================================
