------------------------------- MODULE Payload -------------------------------
(***************************************************************************)
(* What a provider asks its upstream server for a request, and what the    *)
(* mock makes of one (_payload of providers/openai.py and anthropic.py,    *)
(* _render of mock.py).  A field of a payload that is None is not sent.    *)
(***************************************************************************)
EXTENDS Messages

OpenAIPayload(request, model, stream) ==
    [model |-> model, messages |-> request.messages,
     temperature |-> request.temperature, top_p |-> request.top_p, stream |-> stream,
     max_tokens |-> request.max_tokens, stop |-> request.stop]

\* _split_system: the texts of the system messages, if there is any text ...
System(messages) ==
    LET texts == Texts(SelectSeq(messages, LAMBDA m : m.role = "system"))
    IN  IF texts = << << >> >> THEN << >> ELSE texts

\* ... and the others, with their texts.
Convo(messages) ==
    LET others == SelectSeq(messages, LAMBDA m : m.role # "system")
    IN  [i \in DOMAIN others |->
            [role |-> IF others[i].role = "assistant" THEN "assistant" ELSE "user",
             content |-> WordsOf(others[i])]]

\* 0 counts as no limit.
AnthropicPayload(request, model, stream) ==
    [model |-> model, messages |-> Convo(request.messages),
     max_tokens |-> IF request.max_tokens \in {None, 0} THEN 1024 ELSE request.max_tokens,
     temperature |-> request.temperature, top_p |-> request.top_p, stream |-> stream,
     system |-> System(request.messages)]

\* _render: the mock's answer, by its prompt, and how many of the words of the
\* full answer it has.
MockRender(request, full) ==
    [fingerprint |-> PromptText(request),
     words |-> IF request.max_tokens \in {None, 0} \/ request.max_tokens > full THEN full
               ELSE IF request.max_tokens < 1 THEN 1 ELSE request.max_tokens]
=============================================================================
