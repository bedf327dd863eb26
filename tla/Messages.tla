------------------------------ MODULE Messages ------------------------------
(***************************************************************************)
(* Requests and their messages (models.py), and the key of the exact cache *)
(* (cache/base.py).                                                        *)
(*                                                                         *)
(* A message has a role, a name or None, and as content a sequence of      *)
(* parts, words of text and references to images.  A text is the sequence  *)
(* of its words, so texts that are joined stay apart, and SHA-256 has no   *)
(* collisions: a hash is what is hashed.                                   *)
(***************************************************************************)
EXTENDS Integers, Sequences, FiniteSets

CONSTANT None  \* what is absent

\* The elements of s at the given places, in their order.
AtPlaces(s, places) ==
    [k \in 1..Cardinality(places) |->
        s[CHOOSE i \in places : Cardinality({j \in places : j <= i}) = k]]

PartsOf(kind, content) == AtPlaces(content, {i \in DOMAIN content : content[i].kind = kind})

\* text_content and image_refs: the order of words and images among each
\* other is not kept.
WordsOf(message) == PartsOf("word", message.content)
ImagesOf(message) == PartsOf("image", message.content)

\* The texts of some messages, one for each.
Texts(messages) == [i \in DOMAIN messages |-> WordsOf(messages[i])]

PromptText(request) ==
    [i \in DOMAIN request.messages |->
        <<request.messages[i].role, WordsOf(request.messages[i])>>]

\* Mutant: the limit on the length of the answer is not part of the key.
UnlimitedKey(request) ==
    [model |-> request.model, messages |-> request.messages,
     temperature |-> request.temperature, top_p |-> request.top_p, stop |-> request.stop]

CanonicalKey(request) ==
    [model |-> request.model, messages |-> request.messages,
     temperature |-> request.temperature, top_p |-> request.top_p,
     max_tokens |-> request.max_tokens, stop |-> request.stop]
=============================================================================
