---------------------------- MODULE ResponseCache ----------------------------
(***************************************************************************)
(* The response cache (cache/manager.py) of gateway replicas that share a  *)
(* store: exact answers by the canonical key of a request, and a semantic  *)
(* index, which every replica keeps for itself, of the prompts it stored.  *)
(*                                                                         *)
(* A handler awaits the store between the exact lookup and the semantic    *)
(* one, and between storing an answer and indexing it.  With the in-memory *)
(* store there is one host; its awaits do not suspend, and a restart       *)
(* begins anew.                                                            *)
(*                                                                         *)
(* A prompt stands for its canonical key.  Its text is what the embedder   *)
(* sees; how similar two texts are is a constant.                          *)
(***************************************************************************)
EXTENDS Integers, FiniteSets, Sequences

CONSTANTS
    Hosts,       \* gateway replicas
    Tasks,       \* handlers
    HostOf,      \* the host of each handler
    Prompts,     \* canonical keys
    Model,       \* the logical model each names
    Similarity,  \* Similarity[p][k]: of the texts of p and k
    Threshold,   \* semantic.threshold
    MaxEntries,  \* semantic.max_entries
    TTL,         \* ttl_seconds, in ticks (0: entries do not expire)
    None

ASSUME TasksAssumption == IsFiniteSet(Tasks) /\ HostOf \in [Tasks -> Hosts]
ASSUME PromptsAssumption ==
    /\ None \notin Prompts
    /\ DOMAIN Model = Prompts
    /\ Similarity \in [Prompts -> [Prompts -> Int]]
    /\ Threshold \in Int
ASSUME LimitsAssumption == MaxEntries \in Nat /\ TTL \in Nat

VARIABLES
    life,    \* ticks each prompt's entry in the store has left; 0: no entry
    index,   \* _index of each host, oldest first
    pc,      \* where each handler is suspended
    prompt,  \* the prompt of its request, while it has one
    key,     \* the key it looks up, or whose answer it was given; else None
    puts     \* history: answers stored since a prompt last had no entry

vars == <<life, index, pc, prompt, key, puts>>

PCs == {"idle", "exact", "semantic", "upstream", "put", "index"}
Live(k) == life[k] > 0

\* The answer of k will do for p.
Near(k, p) == k = p \/ (Model[k] = Model[p] /\ Similarity[p][k] >= Threshold)

\* Mutant: the models are not compared.
NearestOfAll(h, p) ==
    LET entry == index[h]
    IN  {entry[i] : i \in {i \in DOMAIN entry : \A j \in DOMAIN entry :
            LET si == Similarity[p][entry[i]]
                sj == Similarity[p][entry[j]]
            IN  sj < si \/ (sj = si /\ i <= j)}}

\* _nearest: the indexed prompt of the model that is most similar, the oldest
\* of several; empty if there is none.
Nearest(h, p) ==
    LET entry == index[h]
        same == {i \in DOMAIN entry : Model[entry[i]] = Model[p]}
        first(i) == \A j \in same :
            LET si == Similarity[p][entry[i]]
                sj == Similarity[p][entry[j]]
            IN  sj < si \/ (sj = si /\ i <= j)
    IN  {entry[i] : i \in {i \in same : first(i)}}

Matches(h, p) == {k \in Nearest(h, p) : Similarity[p][k] >= Threshold}

-----------------------------------------------------------------------------

Init ==
    /\ life = [p \in Prompts |-> 0]
    /\ index = [h \in Hosts |-> << >>]
    /\ pc = [t \in Tasks |-> "idle"]
    /\ prompt = [t \in Tasks |-> None]
    /\ key = [t \in Tasks |-> None]
    /\ puts = [p \in Prompts |-> 0]

\* A request: get awaits the exact lookup.
Get(t) ==
    /\ pc[t] = "idle"
    /\ \E p \in Prompts :
          /\ prompt' = [prompt EXCEPT ![t] = p]
          /\ key' = [key EXCEPT ![t] = p]
    /\ pc' = [pc EXCEPT ![t] = "exact"]
    /\ UNCHANGED <<life, index, puts>>

\* The store has the entry, exact or semantic.
Hit(t) ==
    /\ pc[t] \in {"exact", "semantic"}
    /\ Live(key[t])
    /\ pc' = [pc EXCEPT ![t] = "idle"]
    /\ prompt' = [prompt EXCEPT ![t] = None]
    /\ UNCHANGED <<life, index, key, puts>>

\* Mutant: the exact lookup is skipped.
ExactMissAlways(t) ==
    /\ pc[t] = "exact"
    /\ pc' = [pc EXCEPT ![t] = "upstream"]
    /\ key' = [key EXCEPT ![t] = None]
    /\ UNCHANGED <<life, index, prompt, puts>>

\* The nearest prompt of the host's index is looked up next, if it is near enough.
ExactMiss(t) ==
    /\ pc[t] = "exact" /\ ~Live(key[t])
    /\ LET matches == Matches(HostOf[t], prompt[t])
       IN  \/ /\ matches = {}
              /\ pc' = [pc EXCEPT ![t] = "upstream"]
              /\ key' = [key EXCEPT ![t] = None]
           \/ /\ pc' = [pc EXCEPT ![t] = "semantic"]
              /\ \E k \in matches : key' = [key EXCEPT ![t] = k]
    /\ UNCHANGED <<life, index, prompt, puts>>

\* The nearest entry has expired; no other is tried.
SemanticMiss(t) ==
    /\ pc[t] = "semantic" /\ ~Live(key[t])
    /\ pc' = [pc EXCEPT ![t] = "upstream"]
    /\ key' = [key EXCEPT ![t] = None]
    /\ UNCHANGED <<life, index, prompt, puts>>

\* The service has the answer: put awaits the store.
Put(t) ==
    /\ pc[t] = "upstream"
    /\ pc' = [pc EXCEPT ![t] = "put"]
    /\ UNCHANGED <<life, index, prompt, key, puts>>

\* The store sets the entry, whatever it held.
StoreSet(t) ==
    /\ pc[t] = "put"
    /\ life' = [life EXCEPT ![prompt[t]] = IF TTL > 0 THEN TTL ELSE 1]
    /\ puts' = [puts EXCEPT ![prompt[t]] = @ + 1]
    /\ pc' = [pc EXCEPT ![t] = "index"]
    /\ UNCHANGED <<index, prompt, key>>

\* Mutant: the entries are never pushed out.
AppendedAll(h, p) == Append(index[h], p)

\* The deque drops its oldest entry when it is full.
Appended(h, p) ==
    LET s == Append(index[h], p)
    IN  IF Len(s) > MaxEntries THEN Tail(s) ELSE s

\* The handler resumes and indexes the prompt, without looking for it first.
Index(t) ==
    /\ pc[t] = "index"
    /\ index' = [index EXCEPT ![HostOf[t]] = Appended(HostOf[t], prompt[t])]
    /\ pc' = [pc EXCEPT ![t] = "idle"]
    /\ prompt' = [prompt EXCEPT ![t] = None]
    /\ UNCHANGED <<life, key, puts>>

-----------------------------------------------------------------------------
(* Faults and time *)

\* Upstream fails, or the store raises: before a command, or after SET was run.
Fail(t) ==
    /\ pc[t] # "idle"
    /\ pc' = [pc EXCEPT ![t] = "idle"]
    /\ prompt' = [prompt EXCEPT ![t] = None]
    /\ key' = [key EXCEPT ![t] = None]
    /\ UNCHANGED <<life, index, puts>>

\* A host restarts: its handlers and its index are gone, the store is not.
Restart(h) ==
    /\ index' = [index EXCEPT ![h] = << >>]
    /\ pc' = [t \in Tasks |-> IF HostOf[t] = h THEN "idle" ELSE pc[t]]
    /\ prompt' = [t \in Tasks |-> IF HostOf[t] = h THEN None ELSE prompt[t]]
    /\ key' = [t \in Tasks |-> IF HostOf[t] = h /\ pc[t] # "idle" THEN None ELSE key[t]]
    /\ UNCHANGED <<life, puts>>

Tick ==
    /\ TTL > 0
    /\ life' = [p \in Prompts |-> IF Live(p) THEN life[p] - 1 ELSE 0]
    /\ puts' = [p \in Prompts |-> IF life[p] > 1 THEN puts[p] ELSE 0]
    /\ UNCHANGED <<index, pc, prompt, key>>

\* The store answers a lookup.
Lookup(t) == Hit(t) \/ ExactMiss(t) \/ SemanticMiss(t)

Next ==
    \/ \E t \in Tasks :
          \/ Get(t) \/ Lookup(t) \/ Put(t) \/ StoreSet(t) \/ Index(t) \/ Fail(t)
    \/ \E h \in Hosts : Restart(h)
    \/ Tick

\* The store answers.
Spec == Init /\ [][Next]_vars /\ \A t \in Tasks : WF_vars(Lookup(t))

-----------------------------------------------------------------------------
(* Properties *)

\* Every variable has its type; an index keeps to its bound.
TypeOK ==
    /\ life \in [Prompts -> 0..(TTL + 1)]
    /\ index \in [Hosts -> Seq(Prompts)]
    /\ \A h \in Hosts : Len(index[h]) <= MaxEntries
    /\ pc \in [Tasks -> PCs]
    /\ prompt \in [Tasks -> Prompts \cup {None}]
    /\ key \in [Tasks -> Prompts \cup {None}]
    /\ puts \in [Prompts -> Nat]

\* Upstream is paid for one prompt at most once by each handler while the
\* prompt's entry lives, on whichever hosts the handlers are: requests that
\* came before the first answer may all go upstream, but none that comes
\* after it (manager.py:50, 79).
StampedeBounded == \A p \in Prompts : puts[p] <= Cardinality(Tasks)

\* The cache keeps the promise of AnswerCache: although the entry that a
\* semantic lookup has chosen may expire, be replaced, or lose its index
\* before it is read (manager.py:58-60), what is given is a kept answer of the
\* same model that is near enough, and every lookup ends.
Promise == INSTANCE AnswerCache WITH
    Clients <- Tasks,
    phase <- [t \in Tasks |-> CASE pc[t] \in {"exact", "semantic"} -> "asking"
                                [] pc[t] \in {"upstream", "put"} -> "missed"
                                [] OTHER -> "idle"],
    prompt <- [t \in Tasks |-> IF pc[t] = "index" THEN None ELSE prompt[t]],
    given <- [t \in Tasks |-> IF pc[t] = "idle" THEN key[t] ELSE None],
    kept <- {p \in Prompts : Live(p)}
ImplementsAnswerCache == Promise!Spec
=============================================================================
