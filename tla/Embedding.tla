------------------------------ MODULE Embedding ------------------------------
(***************************************************************************)
(* The embedder of the semantic cache that needs no model, and the cosine  *)
(* by which the cache compares embeddings (cache/embedders.py).            *)
(*                                                                         *)
(* A text is the sequence of its words; the punctuation between them is    *)
(* not seen.  A prompt has words, those of its roles, so the fallback for  *)
(* a text without words is left out.                                       *)
(***************************************************************************)
EXTENDS Integers, Sequences, FiniteSetsExt

CONSTANTS
    Bucket(_),  \* the place of a token in an embedding, and
    Sign(_)     \* 1 or -1, both from the token's MD5 digest

Grams(words, n) == [i \in 1..(Len(words) - n + 1) |-> SubSeq(words, i, i + n - 1)]

\* _tokens: the words, their pairs and their triples.
Tokens(words) == Grams(words, 1) \o Grams(words, 2) \o Grams(words, 3)

\* embed, before it is scaled to length one; the places not listed hold 0.
Embed(words) ==
    LET tokens == Tokens(words)
    IN  [b \in {Bucket(tokens[i]) : i \in DOMAIN tokens} |->
            MapThenSumSet(LAMBDA i : Sign(tokens[i]),
                          {i \in DOMAIN tokens : Bucket(tokens[i]) = b})]

Dot(v, w) == MapThenSumSet(LAMBDA b : v[b] * w[b], DOMAIN v \cap DOMAIN w)

\* cosine_similarity in whole percents, rounded towards zero; 0 if either
\* vector is, as when all the tokens of a text cancel out.
Cosine(v, w) ==
    LET dot == Dot(v, w)
        norms == Dot(v, v) * Dot(w, w)
        percent == Max({s \in 0..100 : s * s * norms <= 10000 * dot * dot})
    IN  CASE norms = 0 -> 0
          [] norms > 0 /\ dot >= 0 -> percent
          [] norms > 0 /\ dot < 0 -> -percent
=============================================================================
