--------------------------- MODULE ProviderProofs ---------------------------
(***************************************************************************)
(* Proofs about Provider, for every length of a response.                  *)
(***************************************************************************)
EXTENDS Provider, TLAPS

\* The types, but for the ranges of the numbers.
Types ==
    /\ provider \in Providers
    /\ mode \in Modes
    /\ request \in Requests
    /\ pc \in Running \cup Outcomes
    /\ up \in {"none", "open", "marked", "failed", "closed", "cut"}
    /\ wire \in Seq(Lines)
    /\ lines \in 0..MaxLines
    /\ sent \in 0..(MaxLines + 1)
    /\ got \in Seq(Nat)

\* The places of the pieces on the wire.
Pieces == {i \in 1..Len(wire) : wire[i].kind = "piece"}

\* While a call runs the pieces on the wire are those that were not yielded,
\* in order.
Rest ==
    /\ sent <= lines
    /\ \A n \in (Len(got) + 1)..sent : \E i \in Pieces : wire[i].n = n
    /\ \A i \in Pieces : wire[i].n \in (Len(got) + 1)..sent
    /\ \A i, j \in Pieces : i < j => wire[i].n < wire[j].n

\* What was yielded is the pieces up to some number.
Prefix ==
    /\ Len(got) <= sent
    /\ \A i \in 1..Len(got) : got[i] = i

\* Before a stream is opened there is nothing.
Fresh ==
    pc = "waiting" => wire = << >> /\ got = << >> /\ sent = 0 /\ lines = 0 /\ up = "none"

\* Without faults, the end mark is the last line and nothing ends before it.
Marks ==
    /\ up \in {"none", "open", "marked", "closed"}
    /\ \A i \in 1..Len(wire) :
          /\ wire[i].kind # "error"
          /\ wire[i].kind = "mark" => i = Len(wire) /\ up \in {"marked", "closed"}
    /\ pc = "ended" => up \in {"marked", "closed"} /\ Len(got) = sent

Flow == Types /\ Prefix /\ Fresh /\ (pc \in Running => Rest) /\ (Faults = {} => Marks)

LEMMA FlowInit == Init => Flow
  <1> SUFFICES ASSUME Init PROVE Flow
    OBVIOUS
  <1> USE ProviderAssumption DEF Init
  <1>1. Types
    BY DEF Types, Running
  <1>2. Prefix /\ Fresh /\ Rest /\ Marks
    BY DEF Prefix, Fresh, Rest, Marks, Pieces
  <1> QED BY <1>1, <1>2 DEF Flow

\* Reading a line keeps what was yielded and what is left in order.
LEMMA ReadKeepsFlow ==
    ASSUME Flow, Read
    PROVE  Flow'
  <1> DEFINE line == Head(wire)
  <1> USE DEF Flow, Types
  <1>1. /\ pc = "reading" /\ Rest /\ Prefix
        /\ Len(wire) \in Nat \ {0} /\ line = wire[1] /\ line \in Lines
        /\ wire' = Tail(wire) /\ wire' \in Seq(Lines) /\ Len(wire') = Len(wire) - 1
        /\ \A i \in 1..Len(wire') : wire'[i] = wire[i + 1]
        /\ got' = IF line.kind = "piece" THEN Append(got, line.n) ELSE got
        /\ pc' = IF Ends(line.kind) THEN "ended"
                 ELSE IF Raises(line.kind) THEN "broken" ELSE "reading"
        /\ UNCHANGED <<provider, mode, request, up, lines, sent>>
    BY DEF Read, Yields, Running
  <1> HIDE DEF line
  <1>2. line.kind \in LineKinds /\ line.n \in Nat
    BY <1>1, ProviderAssumption DEF Lines
  <1>3. Types'
    BY <1>1, <1>2 DEF Running, Outcomes
  <1>4. Fresh'
    BY <1>1 DEF Fresh
  <1>5. \A i \in Pieces' : i + 1 \in Pieces /\ wire'[i].n = wire[i + 1].n
    BY <1>1 DEF Pieces
  <1>6. ASSUME line.kind = "piece"
        PROVE  line.n = Len(got) + 1 /\ 1 \in Pieces /\ Len(got) + 1 <= sent
    <2>1. 1 \in Pieces
      BY <1>1, <1>6 DEF Pieces
    <2>2. line.n \in (Len(got) + 1)..sent
      BY <1>1, <2>1 DEF Rest
    <2>3. Len(got) + 1 \in (Len(got) + 1)..sent
      BY <2>2, ProviderAssumption
    <2>4. PICK i \in Pieces : wire[i].n = Len(got) + 1
      BY <1>1, <2>3 DEF Rest
    <2>5. CASE i = 1
      BY <1>1, <2>1, <2>3, <2>4, <2>5, ProviderAssumption
    <2>6. CASE i > 1
      <3>1. line.n < Len(got) + 1
        BY <1>1, <2>1, <2>4, <2>6 DEF Rest
      <3> QED BY <3>1, <2>2, ProviderAssumption
    <2> QED BY <2>5, <2>6 DEF Pieces
  <1>7. Prefix'
    BY <1>1, <1>6 DEF Prefix
  <1>8. Rest'
    <2>1. \A i, j \in Pieces' : i < j => wire'[i].n < wire'[j].n
      <3> SUFFICES ASSUME NEW i \in Pieces', NEW j \in Pieces', i < j
                   PROVE  wire'[i].n < wire'[j].n
        OBVIOUS
      <3>1. i + 1 < j + 1 /\ i + 1 \in Pieces /\ j + 1 \in Pieces
        BY <1>5, <1>1 DEF Pieces
      <3> QED BY <3>1, <1>1, <1>5 DEF Rest
    <2>2. CASE line.kind = "piece"
      <3>1. Len(got') = Len(got) + 1
        BY <1>1, <2>2
      <3>2. \A i \in Pieces' : wire'[i].n \in (Len(got') + 1)..sent
        <4> SUFFICES ASSUME NEW i \in Pieces'
                     PROVE  wire'[i].n \in (Len(got') + 1)..sent
          OBVIOUS
        <4>1. i + 1 \in Pieces /\ 1 < i + 1 /\ wire'[i].n = wire[i + 1].n
          BY <1>1, <1>5 DEF Pieces
        <4>2. wire[1].n < wire[i + 1].n /\ wire[i + 1].n \in (Len(got) + 1)..sent
          BY <1>1, <1>6, <2>2, <4>1 DEF Rest
        <4>3. wire[1].n = Len(got) + 1 /\ Len(got) \in Nat /\ sent \in Nat
          BY <1>1, <1>6, <2>2, ProviderAssumption
        <4>4. wire[i + 1].n \in Int /\ wire[i + 1].n <= sent /\ Len(got) + 1 < wire[i + 1].n
          BY <4>2, <4>3
        <4> QED BY <3>1, <4>1, <4>3, <4>4
      <3>3. \A n \in (Len(got') + 1)..sent : \E i \in Pieces' : wire'[i].n = n
        <4> SUFFICES ASSUME NEW n \in (Len(got') + 1)..sent
                     PROVE  \E i \in Pieces' : wire'[i].n = n
          OBVIOUS
        <4>1. n \in (Len(got) + 1)..sent /\ n # Len(got) + 1
          BY <3>1, ProviderAssumption
        <4>2. PICK i \in Pieces : wire[i].n = n
          BY <1>1, <4>1 DEF Rest
        <4>3. i # 1
          BY <1>1, <1>6, <2>2, <4>1, <4>2
        <4>4. i - 1 \in Pieces' /\ wire'[i - 1].n = n
          BY <1>1, <4>2, <4>3 DEF Pieces
        <4> QED BY <4>4
      <3> QED BY <1>1, <2>1, <3>2, <3>3 DEF Rest
    <2>3. CASE line.kind # "piece"
      <3>1. got' = got
        BY <1>1, <2>3
      <3>2. \A i \in Pieces' : wire'[i].n \in (Len(got') + 1)..sent
        BY <1>1, <1>5, <3>1 DEF Rest
      <3>3. \A n \in (Len(got') + 1)..sent : \E i \in Pieces' : wire'[i].n = n
        <4> SUFFICES ASSUME NEW n \in (Len(got') + 1)..sent
                     PROVE  \E i \in Pieces' : wire'[i].n = n
          OBVIOUS
        <4>1. PICK i \in Pieces : wire[i].n = n
          BY <1>1, <3>1 DEF Rest
        <4>2. i # 1
          BY <1>1, <2>3, <4>1 DEF Pieces
        <4>3. i - 1 \in Pieces' /\ wire'[i - 1].n = n
          BY <1>1, <4>1, <4>2 DEF Pieces
        <4> QED BY <4>3
      <3> QED BY <1>1, <2>1, <3>2, <3>3 DEF Rest
    <2> QED BY <2>2, <2>3
  <1>9. ASSUME Faults = {} PROVE Marks'
    <2>1. Marks
      BY <1>9
    <2>2. \A i \in 1..Len(wire') :
             /\ wire'[i].kind # "error"
             /\ wire'[i].kind = "mark" => i = Len(wire') /\ up' \in {"marked", "closed"}
      <3> SUFFICES ASSUME NEW i \in 1..Len(wire')
                   PROVE  /\ wire'[i].kind # "error"
                          /\ wire'[i].kind = "mark" =>
                                i = Len(wire') /\ up' \in {"marked", "closed"}
        OBVIOUS
      <3>1. i + 1 \in 1..Len(wire) /\ wire'[i] = wire[i + 1] /\ up' = up
        BY <1>1
      <3>2. /\ wire[i + 1].kind # "error"
            /\ wire[i + 1].kind = "mark" => i + 1 = Len(wire) /\ up \in {"marked", "closed"}
        BY <2>1, <3>1 DEF Marks
      <3>3. i \in Int /\ Len(wire') = Len(wire) - 1 /\ Len(wire) \in Nat
        BY <1>1
      <3> QED BY <3>1, <3>2, <3>3
    <2>3. ASSUME pc' = "ended"
          PROVE  up' \in {"marked", "closed"} /\ Len(got') = sent'
      <3>0. line.kind = "mark" /\ line = wire[1] /\ 1 \in 1..Len(wire)
        BY <1>1, <2>3 DEF Ends
      <3>1. line.kind = "mark" /\ Len(wire) = 1 /\ up \in {"marked", "closed"}
        BY <2>1, <3>0 DEF Marks
      <3>2. Pieces = {} /\ got' = got
        BY <1>1, <3>1 DEF Pieces
      <3>3. ~(Len(got) + 1 <= sent)
        BY <1>1, <3>2, ProviderAssumption DEF Rest
      <3> QED BY <1>1, <3>1, <3>2, <3>3, ProviderAssumption DEF Prefix
    <2> QED BY <1>1, <2>1, <2>2, <2>3 DEF Marks
  <1> QED BY <1>3, <1>4, <1>7, <1>8, <1>9

\* A line that is sent comes after the others.
LEMMA SendKeepsFlow ==
    ASSUME Flow, NEW kind \in LineKinds, Send(kind)
    PROVE  Flow'
  <1> DEFINE line == Line(kind, IF kind = "piece" THEN sent + 1 ELSE 0)
  <1> USE DEF Flow, Types
  <1>1. /\ pc = "reading" /\ Rest /\ Prefix /\ lines < MaxLines /\ up = "open"
        /\ wire' = Append(wire, line)
        /\ sent' = IF kind = "piece" THEN sent + 1 ELSE sent
        /\ lines' = lines + 1
        /\ kind = "error" => "error" \in Faults
        /\ up' = CASE kind = "mark" -> "marked" [] kind = "error" -> "failed" [] OTHER -> "open"
        /\ UNCHANGED <<provider, mode, request, pc, got>>
    BY DEF Send, Running
  <1>2. sent <= lines /\ sent + 1 <= MaxLines
    BY <1>1, ProviderAssumption DEF Rest
  <1>3. line \in Lines /\ line.kind = kind /\ (kind = "piece" => line.n = sent + 1)
    BY <1>2, ProviderAssumption DEF Line, Lines
  <1> HIDE DEF line
  <1>4. /\ wire' \in Seq(Lines) /\ Len(wire') = Len(wire) + 1 /\ wire'[Len(wire) + 1] = line
        /\ \A i \in 1..Len(wire) : wire'[i] = wire[i]
    BY <1>1, <1>3
  <1>5. Types'
    BY <1>1, <1>2, <1>4, ProviderAssumption
  <1>6. Prefix' /\ Fresh'
    BY <1>1, ProviderAssumption DEF Prefix, Fresh
  <1>7. /\ kind = "piece" => Pieces' = Pieces \cup {Len(wire) + 1}
        /\ kind # "piece" => Pieces' = Pieces
    BY <1>3, <1>4 DEF Pieces
  <1>8. Rest'
    <2>1. CASE kind = "piece"
      <3>1. \A i \in Pieces' : IF i = Len(wire) + 1 THEN wire'[i].n = sent + 1
                               ELSE i \in Pieces /\ i < Len(wire) + 1 /\ wire'[i].n = wire[i].n
        BY <1>3, <1>4, <1>7, <2>1 DEF Pieces
      <3>2. \A i \in Pieces' : wire'[i].n \in (Len(got') + 1)..sent'
        <4>1. /\ Len(got') = Len(got) /\ sent' = sent + 1
              /\ Len(got) \in Nat /\ sent \in Nat /\ Len(got) <= sent
          BY <1>1, <2>1, ProviderAssumption DEF Prefix
        <4>2. \A i \in Pieces : wire[i].n \in (Len(got) + 1)..sent
          BY <1>1 DEF Rest
        <4> QED BY <3>1, <4>1, <4>2
      <3>3. \A i, j \in Pieces' : i < j => wire'[i].n < wire'[j].n
        <4> SUFFICES ASSUME NEW i \in Pieces', NEW j \in Pieces', i < j
                     PROVE  wire'[i].n < wire'[j].n
          OBVIOUS
        <4>1. i \in Pieces /\ wire'[i].n = wire[i].n /\ wire[i].n \in (Len(got) + 1)..sent
          BY <1>1, <1>4, <3>1 DEF Rest, Pieces
        <4>2. CASE j = Len(wire) + 1
          BY <3>1, <4>1, <4>2, ProviderAssumption
        <4>3. CASE j # Len(wire) + 1
          BY <1>1, <3>1, <4>1, <4>3 DEF Rest
        <4> QED BY <4>2, <4>3
      <3>4. \A n \in (Len(got') + 1)..sent' : \E i \in Pieces' : wire'[i].n = n
        <4> SUFFICES ASSUME NEW n \in (Len(got') + 1)..sent'
                     PROVE  \E i \in Pieces' : wire'[i].n = n
          OBVIOUS
        <4>1. CASE n = sent + 1
          BY <1>3, <1>4, <1>7, <2>1, <4>1
        <4>2. CASE n # sent + 1
          <5>1. n \in (Len(got) + 1)..sent
            BY <1>1, <2>1, <4>2, ProviderAssumption
          <5>2. PICK i \in Pieces : wire[i].n = n
            BY <1>1, <5>1 DEF Rest
          <5> QED BY <1>4, <1>7, <2>1, <5>2 DEF Pieces
        <4> QED BY <4>1, <4>2
      <3>5. sent' <= lines'
        BY <1>1, <1>2, <2>1, ProviderAssumption
      <3> QED BY <3>2, <3>3, <3>4, <3>5 DEF Rest
    <2>2. CASE kind # "piece"
      <3>1. Pieces' = Pieces /\ sent' = sent /\ got' = got
        BY <1>1, <1>7, <2>2
      <3>2. \A i \in Pieces : wire'[i].n = wire[i].n
        BY <1>4 DEF Pieces
      <3>3. sent' <= lines'
        BY <1>1, <1>2, <2>2, ProviderAssumption
      <3> QED BY <1>1, <3>1, <3>2, <3>3 DEF Rest
    <2> QED BY <2>1, <2>2
  <1>9. ASSUME Faults = {} PROVE Marks'
    <2>1. Marks /\ kind # "error"
      BY <1>1, <1>9
    <2>2. \A i \in 1..Len(wire) : wire[i].kind # "mark"
      BY <1>1, <2>1 DEF Marks
    <2>3. \A i \in 1..Len(wire') : IF i = Len(wire') THEN wire'[i].kind = kind
                                   ELSE wire'[i].kind \notin {"mark", "error"}
      <3> SUFFICES ASSUME NEW i \in 1..Len(wire')
                   PROVE  IF i = Len(wire') THEN wire'[i].kind = kind
                          ELSE wire'[i].kind \notin {"mark", "error"}
        OBVIOUS
      <3>1. CASE i = Len(wire')
        BY <1>3, <1>4, <3>1
      <3>2. CASE i # Len(wire')
        <4>1. i \in 1..Len(wire) /\ wire'[i] = wire[i]
          BY <1>4, <3>2
        <4>2. wire[i].kind # "error"
          BY <2>1, <4>1 DEF Marks
        <4> QED BY <2>2, <3>2, <4>1, <4>2
      <3> QED BY <3>1, <3>2
    <2> QED BY <1>1, <2>1, <2>3 DEF Marks
  <1> QED BY <1>5, <1>6, <1>8, <1>9

\* The mock has a word to say, and no more than its full answer.
LEMMA WordsOfMock ==
    ASSUME provider = "mock", request \in Requests
    PROVE  Asked(request).words \in 1..MaxLines
  <1>1. Asked(request) = MockRender(request, MaxLines)
    BY DEF Asked
  <1>2. request.max_tokens \in Int \/ request.max_tokens = None
    BY ProviderAssumption
  <1> QED BY <1>1, <1>2, ProviderAssumption DEF MockRender

LEMMA RendersKeepsFlow ==
    ASSUME Flow, Renders
    PROVE  Flow'
  <1> DEFINE n == Asked(request).words
  <1> USE DEF Flow, Types
  <1>1. n \in 1..MaxLines
    BY WordsOfMock DEF Renders
  <1> HIDE DEF n
  <1>2. /\ pc' = "reading" /\ up' = "closed" /\ sent' = n /\ lines' = n
        /\ wire' = [i \in 1..n |-> Line("piece", i)]
        /\ UNCHANGED <<provider, mode, request, got>>
    BY DEF Renders, n
  <1>3. got = << >>
    BY DEF Renders, Fresh
  <1>4. \A i \in 1..n : Line("piece", i) \in Lines
    BY <1>1, ProviderAssumption DEF Line, Lines, LineKinds
  <1>5. /\ wire' \in Seq(Lines) /\ Len(wire') = n /\ n \in Nat
        /\ \A i \in 1..n : wire'[i].kind = "piece" /\ wire'[i].n = i
    BY <1>1, <1>2, <1>4, ProviderAssumption DEF Line
  <1>6. Types'
    BY <1>1, <1>2, <1>3, <1>5, ProviderAssumption DEF Running
  <1>7. Prefix' /\ Fresh' /\ Marks'
    BY <1>2, <1>3, <1>5 DEF Prefix, Fresh, Marks
  <1>8. Pieces' = 1..n
    BY <1>5 DEF Pieces
  <1>9. Rest'
    BY <1>2, <1>3, <1>5, <1>8 DEF Rest
  <1> QED BY <1>6, <1>7, <1>9

LEMMA FlowStep == Flow /\ [Next]_vars => Flow'
  <1> SUFFICES ASSUME Flow, [Next]_vars PROVE Flow'
    OBVIOUS
  <1> USE DEF Flow, Types
  <1>1. CASE Begin
    BY <1>1, ProviderAssumption
       DEF Begin, Running, Outcomes, Prefix, Fresh, Rest, Marks, Pieces
  <1>2. ASSUME NEW status \in {Busy, Conflict, Rejected}, Refused(status) PROVE Flow'
    BY <1>2 DEF Refused, Running, Outcomes, Prefix, Fresh, Marks
  <1>3. CASE Answered
    BY <1>3, ProviderAssumption DEF Answered, Running, Outcomes, Prefix, Fresh, Marks
  <1>4. CASE Unreadable
    BY <1>4 DEF Unreadable, Running, Outcomes, Prefix, Fresh, Marks
  <1>5. CASE Opens
    BY <1>5 DEF Opens, Running, Prefix, Fresh, Rest, Pieces, Marks
  <1>6. CASE Read
    BY <1>6, ReadKeepsFlow
  <1>7. CASE BodyEnds
    <2>1. /\ pc = "reading" /\ Rest /\ wire = << >> /\ pc' = "ended"
          /\ UNCHANGED <<provider, mode, request, up, wire, lines, sent, got>>
      BY <1>7 DEF BodyEnds, Running
    <2>2. Pieces = {}
      BY <2>1 DEF Pieces
    <2>3. Len(got) = sent
      BY <2>1, <2>2, ProviderAssumption DEF Rest, Prefix
    <2>4. Faults = {} => up = "closed"
      BY <1>7 DEF BodyEnds, Marks
    <2> QED BY <2>1, <2>3, <2>4 DEF Running, Outcomes, Prefix, Fresh, Marks
  <1>8. CASE Breaks
    BY <1>8 DEF Breaks, Running, Outcomes, Prefix, Fresh, Marks
  <1>9. CASE Leave
    BY <1>9 DEF Leave, Running, Outcomes, Prefix, Fresh, Marks
  <1>10. ASSUME NEW kind \in LineKinds, Send(kind) PROVE Flow'
    BY <1>10, SendKeepsFlow
  <1>11. CASE Close
    BY <1>11 DEF Close, Running, Prefix, Fresh, Rest, Pieces, Marks
  <1>12. CASE UNCHANGED vars
    BY <1>12 DEF vars, Running, Prefix, Fresh, Rest, Pieces, Marks
  <1>13. CASE Renders
    BY <1>13, RendersKeepsFlow
  <1> QED
    BY <1>1, <1>2, <1>3, <1>4, <1>5, <1>6, <1>7, <1>8, <1>9, <1>10, <1>11, <1>12, <1>13 DEF Next

LEMMA FlowAlways == Spec => []Flow
  BY FlowInit, FlowStep, PTL DEF Spec

\* Every variable has its type; only pieces of text are yielded.
THEOREM TypeCorrect == Spec => []TypeOK
  <1>1. Flow => TypeOK
    BY ProviderAssumption DEF Flow, Types, Prefix, TypeOK
  <1> QED BY <1>1, FlowAlways, PTL

\* If servers end a response only after its end mark, a call that ends
\* without an error has given the whole answer, once and in order.
THEOREM EndedIsWholeWithoutFaults ==
    ASSUME Faults = {}
    PROVE  Spec => []EndedIsWhole
  <1>1. Flow => EndedIsWhole
    BY DEF Flow, Types, Prefix, Marks, EndedIsWhole
  <1> QED BY <1>1, FlowAlways, PTL

\* Whatever the requests: those the exact cache takes for one are asked of
\* every provider in the same way.
THEOREM KeyedAsAskedForAll == Spec => []KeyedAsAsked
  <1>1. Types => KeyedAsAsked
    <2> SUFFICES ASSUME Types, NEW q \in Requests, CanonicalKey(q) = CanonicalKey(request)
                 PROVE  Asked(q) = Asked(request)
      BY DEF KeyedAsAsked
    <2>1. /\ q.messages = request.messages /\ q.temperature = request.temperature
          /\ q.top_p = request.top_p /\ q.max_tokens = request.max_tokens
          /\ q.stop = request.stop
      BY DEF CanonicalKey
    <2>2. \A m, s : OpenAIPayload(q, m, s) = OpenAIPayload(request, m, s)
      BY <2>1 DEF OpenAIPayload
    <2>3. \A m, s : AnthropicPayload(q, m, s) = AnthropicPayload(request, m, s)
      BY <2>1 DEF AnthropicPayload
    <2>4. PromptText(q) = PromptText(request)
      BY <2>1 DEF PromptText
    <2>5. \A n : MockRender(q, n) = MockRender(request, n)
      BY <2>1, <2>4 DEF MockRender
    <2>6. provider = "openai" \/ provider = "anthropic" \/ provider = "mock"
      BY DEF Types, Providers
    <2>7. CASE provider = "openai"
      BY <2>2, <2>7 DEF Asked
    <2>8. CASE provider = "anthropic"
      BY <2>3, <2>8 DEF Asked
    <2>9. CASE provider = "mock"
      BY <2>5, <2>9 DEF Asked
    <2> QED BY <2>6, <2>7, <2>8, <2>9
  <1> QED BY <1>1, FlowAlways, PTL DEF Flow
=============================================================================
