-------------------------- MODULE MCResponseCache --------------------------
(* ResponseCache with the values TLC checks it for: two near prompts of one *)
(* model, and one of another model with the text of the first.  How near    *)
(* they are is what the hashing embedder makes of their texts, in which a   *)
(* pair of words and a triple have the same place.                          *)
EXTENDS ResponseCache, TLC

CONSTANTS g1, g2, t1, t2, p, q, r

TwoHosts == {g1, g2}
TwoTasks == {t1, t2}
OneEach == [t \in TwoTasks |-> IF t = t1 THEN g1 ELSE g2]
ThreePrompts == {p, q, r}
TwoModels == [k \in ThreePrompts |-> IF k = r THEN "big" ELSE "small"]
Texts == [j \in ThreePrompts |-> [k \in ThreePrompts |->
             IF (j = q) = (k = q) THEN 100 ELSE 77]]

Words(k) == <<"user", "capital", "of", IF k = q THEN "spain" ELSE "france">>

\* The places MD5 gives the tokens; those of PositiveTokens count up.
Places ==
    <<"user">> :> 238 @@ <<"capital">> :> 233 @@ <<"of">> :> 228
    @@ <<"france">> :> 235 @@ <<"spain">> :> 190
    @@ <<"user", "capital">> :> 152 @@ <<"capital", "of">> :> 199
    @@ <<"of", "france">> :> 186 @@ <<"of", "spain">> :> 123
    @@ <<"user", "capital", "of">> :> 67
    @@ <<"capital", "of", "france">> :> 123 @@ <<"capital", "of", "spain">> :> 180
PositiveTokens == {<<"user">>, <<"spain">>}

E == INSTANCE Embedding WITH
    Bucket <- LAMBDA token : Places[token],
    Sign <- LAMBDA token : IF token \in PositiveTokens THEN 1 ELSE -1

ASSUME TextsAreEmbedded ==
    \A j, k \in ThreePrompts : Texts[j][k] = E!Cosine(E!Embed(Words(j)), E!Embed(Words(k)))
=============================================================================
