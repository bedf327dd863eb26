------------------------------ MODULE Provider ------------------------------
(***************************************************************************)
(* One call of a provider to its upstream server: complete() and stream()  *)
(* of providers/openai.py and providers/anthropic.py, and of the mock,     *)
(* which answers by itself (providers/mock.py).                            *)
(*                                                                         *)
(* The server is external.  It answers with a status and, to a stream,     *)
(* with lines of server-sent events, of which only the kinds the providers *)
(* tell apart are kept; pieces of text are numbered.  How a call ends is   *)
(* what module Gateway takes as given: "ended" is a normal return,         *)
(* "retryable" and "fatal" are ProviderErrors, "broken" is any other       *)
(* exception.                                                              *)
(***************************************************************************)
EXTENDS Payload

CONSTANTS
    Requests,  \* the requests
    MaxLines,  \* bound: lines of one response, and words of the mock's
    Faults     \* what a server may do wrong: "cut", "error"

ASSUME ProviderAssumption ==
    /\ MaxLines \in Nat \ {0} /\ Faults \subseteq {"cut", "error"}
    /\ \A q \in Requests : q.max_tokens \in Int \cup {None}
    /\ None \notin Int

Providers == {"openai", "anthropic", "mock"}
Modes == {"complete", "stream"}
Busy == "busy"          \* 429, 500, 502, 503, 504
Conflict == "conflict"  \* 408, 409
Rejected == "rejected"  \* any other status from 400 on

VARIABLES
    provider,  \* the class of the provider
    mode,      \* the method that was called
    request,   \* the request it was called for
    pc,        \* where the call is suspended, or how it ended
    up,        \* the server's side of the response
    wire,      \* lines sent and not yet read
    lines,     \* how many lines were sent
    sent,      \* how many pieces of text were sent
    got        \* the pieces yielded

vars == <<provider, mode, request, pc, up, wire, lines, sent, got>>

Running == {"waiting", "reading"}
Outcomes == {"ended", "retryable", "fatal", "broken", "left"}

\* A piece; a delta without text; a line that is not read as an event; the
\* end mark ([DONE] or message_stop); an error event; an event without the
\* fields the provider reads.
LineKinds == {"piece", "empty", "noise", "mark", "error", "odd"}
Line(kind, n) == [kind |-> kind, n |-> n]
Lines == [kind : LineKinds, n : 0..MaxLines]

\* What is asked of the server, or rendered by the mock, for the request q.
Asked(q) ==
    CASE provider = "openai"    -> OpenAIPayload(q, "upstream model", mode = "stream")
      [] provider = "anthropic" -> AnthropicPayload(q, "upstream model", mode = "stream")
      [] provider = "mock"      -> MockRender(q, MaxLines)

\* The statuses that make a retryable ProviderError.
Retryable == IF provider = "openai" /\ mode = "complete" THEN {Busy, Conflict} ELSE {Busy}

\* Mutant: a delta is yielded whether it has text or not.
YieldsUnasked(kind) == kind \in {"piece", "empty"}

\* What the loop over the lines does with each kind; the rest it skips.  The
\* Anthropic provider knows neither message_stop nor error events: it reads
\* on to the end of the body.
Yields(kind) == kind = "piece"

\* Mutant: a line that cannot be parsed ends the stream.
EndsAtNoise(kind) == kind = "noise" \/ (kind = "mark" /\ provider = "openai")

Ends(kind) == kind = "mark" /\ provider = "openai"

Raises(kind) == kind = "odd" \/ (kind = "error" /\ provider = "openai")

-----------------------------------------------------------------------------

Init ==
    /\ provider \in Providers
    /\ mode \in Modes
    /\ request \in Requests
    /\ pc = "waiting"
    /\ up = "none"
    /\ wire = << >>
    /\ lines = 0
    /\ sent = 0
    /\ got = << >>

\* The request is sent; a call that is over has left nothing behind.
Begin ==
    /\ pc \in Outcomes
    /\ provider' \in Providers
    /\ mode' \in Modes
    /\ request' \in Requests
    /\ pc' = "waiting"
    /\ up' = "none"
    /\ wire' = << >>
    /\ lines' = 0
    /\ sent' = 0
    /\ got' = << >>

Refused(status) ==
    /\ pc = "waiting" /\ provider # "mock"
    /\ pc' = IF status \in Retryable THEN "retryable" ELSE "fatal"
    /\ UNCHANGED <<provider, mode, request, up, wire, lines, sent, got>>

\* complete: the body arrives as a whole, as one piece.
Answered ==
    /\ pc = "waiting" /\ mode = "complete"
    /\ pc' = "ended"
    /\ up' = "closed"
    /\ sent' = 1
    /\ got' = <<1>>
    /\ UNCHANGED <<provider, mode, request, wire, lines>>

\* complete: the body is not JSON, or not of the form that is read.
Unreadable ==
    /\ pc = "waiting" /\ mode = "complete" /\ provider # "mock"
    /\ pc' = "broken"
    /\ UNCHANGED <<provider, mode, request, up, wire, lines, sent, got>>

Opens ==
    /\ pc = "waiting" /\ mode = "stream" /\ provider # "mock"
    /\ pc' = "reading"
    /\ up' = "open"
    /\ UNCHANGED <<provider, mode, request, wire, lines, sent, got>>

\* stream of the mock: its words come one by one.
Renders ==
    /\ pc = "waiting" /\ mode = "stream" /\ provider = "mock"
    /\ pc' = "reading"
    /\ up' = "closed"
    /\ wire' = [i \in 1..Asked(request).words |-> Line("piece", i)]
    /\ sent' = Asked(request).words
    /\ lines' = sent'
    /\ UNCHANGED <<provider, mode, request, got>>

\* One turn of the loop over the lines, or over the mock's words.
Read ==
    /\ pc = "reading" /\ wire # << >>
    /\ LET line == Head(wire)
       IN  /\ got' = IF Yields(line.kind) THEN Append(got, line.n) ELSE got
           /\ pc' = IF Ends(line.kind) THEN "ended"
                    ELSE IF Raises(line.kind) THEN "broken" ELSE "reading"
    /\ wire' = Tail(wire)
    /\ UNCHANGED <<provider, mode, request, up, lines, sent>>

\* Mutant: a stream is read up to [DONE], which not every server sends.
BodyEndsAtDone ==
    /\ pc = "reading" /\ wire = << >> /\ up \in {"closed", "cut"}
    /\ provider = "openai"
    /\ pc' = "ended"
    /\ UNCHANGED <<provider, mode, request, up, wire, lines, sent, got>>

\* The loop is over at the end of the body.
BodyEnds ==
    /\ pc = "reading" /\ wire = << >> /\ up \in {"closed", "cut"}
    /\ pc' = "ended"
    /\ UNCHANGED <<provider, mode, request, up, wire, lines, sent, got>>

\* httpx.HTTPError: the connection fails or a read times out, and with it
\* what was not read is lost.
Breaks ==
    /\ pc \in Running /\ provider # "mock" /\ up \notin {"closed", "cut"}
    /\ pc' = "retryable"
    /\ UNCHANGED <<provider, mode, request, up, wire, lines, sent, got>>

TimesOut == wire = << >> /\ Breaks

\* The service drops the generator, as its client has left.
Leave ==
    /\ pc \in Running /\ mode = "stream"
    /\ pc' = "left"
    /\ UNCHANGED <<provider, mode, request, up, wire, lines, sent, got>>

-----------------------------------------------------------------------------
(* The server *)

Send(kind) ==
    /\ pc = "reading" /\ up = "open" /\ lines < MaxLines
    /\ kind = "error" => "error" \in Faults
    /\ lines' = lines + 1
    /\ sent' = IF kind = "piece" THEN sent + 1 ELSE sent
    /\ wire' = Append(wire, Line(kind, IF kind = "piece" THEN sent + 1 ELSE 0))
    /\ up' = CASE kind = "mark" -> "marked"
               [] kind = "error" -> "failed"
               [] OTHER -> "open"
    /\ UNCHANGED <<provider, mode, request, pc, got>>

\* The body ends, as HTTP has it.
Close ==
    /\ pc = "reading"
    /\ \/ up = "marked"
       \/ up = "failed"
       \/ up = "open" /\ "cut" \in Faults
    /\ up' = IF up = "marked" THEN "closed" ELSE "cut"
    /\ UNCHANGED <<provider, mode, request, pc, wire, lines, sent, got>>

Next ==
    \/ Begin
    \/ \E status \in {Busy, Conflict, Rejected} : Refused(status)
    \/ Answered \/ Unreadable
    \/ Opens \/ Renders \/ Read \/ BodyEnds \/ Breaks \/ Leave
    \/ \E kind \in LineKinds : Send(kind)
    \/ Close

MockAnswers == provider = "mock" /\ (Answered \/ Renders)

\* The providers run, and the mock's sleeps end; the HTTP client has a timeout
\* for each read.  What is yielded is taken.
Spec ==
    /\ Init /\ [][Next]_vars
    /\ WF_vars(MockAnswers)
    /\ WF_vars(Read) /\ WF_vars(BodyEnds) /\ WF_vars(TimesOut)

-----------------------------------------------------------------------------
(* Properties *)

\* Every variable has its type; only pieces of text are yielded.
TypeOK ==
    /\ provider \in Providers
    /\ mode \in Modes
    /\ request \in Requests
    /\ pc \in Running \cup Outcomes
    /\ up \in {"none", "open", "marked", "failed", "closed", "cut"}
    /\ wire \in Seq(Lines)
    /\ lines \in 0..MaxLines
    /\ sent \in 0..(MaxLines + 1)
    /\ got \in Seq(1..(MaxLines + 1))

\* A call that ends without an error has given the whole answer: the server
\* said it was finished, and every piece it sent was yielded, once and in
\* order, whatever came in between (openai.py:94-107, anthropic.py:111-122).
\* True of servers that end a response only after its end mark (no Faults).
EndedIsWhole ==
    pc = "ended" =>
        /\ up \in {"marked", "closed"}
        /\ got = [i \in 1..sent |-> i]

\* The exact cache may answer for any provider: requests it takes for one are
\* asked of each upstream server in the same way, streamed or not, and the mock
\* renders the same for them (base.py:20-35).
KeyedAsAsked ==
    \A q \in Requests : CanonicalKey(q) = CanonicalKey(request) => Asked(q) = Asked(request)

\* No call outlives a silent server, or waits for what its server never sends.
CallEnds == pc \in Running ~> pc \in Outcomes
=============================================================================
