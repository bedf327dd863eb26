----------------------------- MODULE AnswerCache -----------------------------
(***************************************************************************)
(* What a response cache promises, however it looks answers up: it answers *)
(* a prompt with an answer it keeps for a prompt near to it, or misses;    *)
(* and it keeps only answers its clients bring after a miss, each once.    *)
(***************************************************************************)
CONSTANTS
    Clients,
    Prompts,
    Near(_, _),  \* Near(k, p): the answer of k will do for p
    None

VARIABLES
    phase,   \* idle, asking, or missed
    prompt,  \* what each client asks, until it is done
    given,   \* the prompt whose answer it was given, or None
    kept     \* the prompts with an answer

vars == <<phase, prompt, given, kept>>

Init ==
    /\ phase = [c \in Clients |-> "idle"]
    /\ prompt = [c \in Clients |-> None]
    /\ given = [c \in Clients |-> None]
    /\ kept = {}

Ask(c) ==
    /\ phase[c] = "idle"
    /\ \E p \in Prompts : prompt' = [prompt EXCEPT ![c] = p]
    /\ phase' = [phase EXCEPT ![c] = "asking"]
    /\ given' = [given EXCEPT ![c] = None]
    /\ UNCHANGED kept

Hit(c) ==
    /\ phase[c] = "asking"
    /\ \E k \in kept : Near(k, prompt[c]) /\ given' = [given EXCEPT ![c] = k]
    /\ phase' = [phase EXCEPT ![c] = "idle"]
    /\ prompt' = [prompt EXCEPT ![c] = None]
    /\ UNCHANGED kept

Miss(c) ==
    /\ phase[c] = "asking"
    /\ phase' = [phase EXCEPT ![c] = "missed"]
    /\ UNCHANGED <<prompt, given, kept>>

Keep(c) ==
    /\ phase[c] = "missed"
    /\ kept' = kept \cup {prompt[c]}
    /\ phase' = [phase EXCEPT ![c] = "idle"]
    /\ prompt' = [prompt EXCEPT ![c] = None]
    /\ UNCHANGED given

\* Clients go without an answer, or without bringing one.
Leave ==
    /\ \E gone \in SUBSET Clients :
          /\ phase' = [c \in Clients |-> IF c \in gone THEN "idle" ELSE phase[c]]
          /\ prompt' = [c \in Clients |-> IF c \in gone THEN None ELSE prompt[c]]
    /\ UNCHANGED <<given, kept>>

Forget ==
    /\ \E rest \in SUBSET kept : kept' = rest
    /\ UNCHANGED <<phase, prompt, given>>

Next ==
    \/ \E c \in Clients : Ask(c) \/ Hit(c) \/ Miss(c) \/ Keep(c)
    \/ Leave \/ Forget

Safety == Init /\ [][Next]_vars
Spec == Safety /\ \A c \in Clients : WF_vars(Hit(c) \/ Miss(c))
=============================================================================
