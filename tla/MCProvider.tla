----------------------------- MODULE MCProvider -----------------------------
(* Provider with the requests TLC checks it for: one prompt with a system     *)
(* message and an image, its limits and sampling varied, and two requests     *)
(* that differ in what is not sent.                                           *)
EXTENDS Provider

Word(w) == [kind |-> "word", value |-> w]
Cat == [kind |-> "image", value |-> "cat"]
Message(role, content) == [role |-> role, name |-> None, content |-> content]
Prompt == <<Message("system", <<Word("brief")>>), Message("user", <<Word("what"), Cat>>),
            Message("tool", <<Word("sun")>>)>>
Ask(limit, temperature, stop, user) ==
    [model |-> "m", messages |-> Prompt, temperature |-> temperature, top_p |-> 1,
     max_tokens |-> limit, stop |-> stop, user |-> user]
Variants == {Ask(None, 1, None, "ann"), Ask(None, 1, None, "bob"), Ask(0, 1, None, "ann"),
             Ask(2, 1, None, "ann"), Ask(-1, 1, None, "ann"), Ask(2, 0, None, "ann"), Ask(None, 1, "sun", "ann")}
=============================================================================
