------------------------ MODULE ToolCallStreamProofs ------------------------
(***************************************************************************)
(* Proofs about ToolCallStream: what AccumulateStream makes of a stream is *)
(* right for every response and every interleaving of its events.          *)
(***************************************************************************)
EXTENDS ToolCallStream, SequenceTheorems, TLAPS

\* How far the adapter is.
Progress ==
    /\ plan \in Plans
    /\ told \in 0 .. Len(plan.text)
    /\ opened \in 0 .. Len(plan.calls)
    /\ sent \in [Index -> Nat]
    /\ \A i \in 0 .. opened - 1 : sent[i] \in 0 .. Len(Planned(i).args)
    /\ done \in BOOLEAN
    /\ pc \in {"loop", "closing", "returned"}

\* Done comes last and alone sets usage and finish reason.
DoneLast == IF done THEN /\ AllSent
                         /\ out.usage = plan.usage /\ out.finish = plan.finish
                    ELSE out.usage = Nil /\ out.finish = Empty

\* What was returned without an error is what had been accumulated.
Returned == pc # "loop" /\ result.err = Nil =>
              /\ result.resp = out
              /\ result.toolCalls = [k \in 1 .. Len(order) |-> byIndex[order[k]]]

\* DeliveredSoFar says nothing of entries that should not be there.
NothingElse ==
    /\ DOMAIN byIndex = 0 .. opened - 1
    /\ out = [text |-> out.text, usage |-> out.usage, finish |-> out.finish]

StreamInv == Progress /\ DeliveredSoFar /\ NothingElse /\ DoneLast /\ Returned

-----------------------------------------------------------------------------
\* One more element of a sequence.
LEMMA OneMore ==
    ASSUME NEW S, NEW s \in Seq(S), NEW n \in 0 .. Len(s) - 1
    PROVE  /\ Append(SubSeq(s, 1, n), s[n + 1]) = SubSeq(s, 1, n + 1)
           /\ SubSeq(s, 1, n) \o <<s[n + 1]>> = SubSeq(s, 1, n + 1)
  OBVIOUS

LEMMA NoneAll ==
    ASSUME NEW S, NEW s \in Seq(S)
    PROVE  SubSeq(s, 1, 0) = <<>> /\ SubSeq(s, 1, Len(s)) = s
  OBVIOUS

LEMMA WithArgs ==
    ASSUME NEW tc, NEW a, tc = [id |-> tc.id, name |-> tc.name, args |-> tc.args]
    PROVE  [tc EXCEPT !.args = a] = [id |-> tc.id, name |-> tc.name, args |-> a]
  OBVIOUS

\* The types of a planned response and of its calls.
LEMMA PlanTypes ==
    ASSUME Progress
    PROVE  /\ plan.text \in Seq(Chunk) /\ plan.calls \in Seq(ToolCall)
           /\ plan.usage \in Usage /\ plan.finish \in FinishReason
           /\ 0 .. Len(plan.calls) - 1 \subseteq Index
           /\ \A i \in 0 .. Len(plan.calls) - 1 :
                /\ Planned(i) \in ToolCall
                /\ Planned(i).args \in Seq(Chunk)
                /\ Planned(i) = [id |-> Planned(i).id, name |-> Planned(i).name,
                                 args |-> Planned(i).args]
<1>1. plan.calls \in Seq(ToolCall) /\ plan.text \in Seq(Chunk) /\ plan.usage \in Usage
      /\ plan.finish \in FinishReason /\ 0 .. Len(plan.calls) - 1 \subseteq Index
  BY PlansAssumption DEF Progress
<1>2. \A i \in 0 .. Len(plan.calls) - 1 : Planned(i) \in ToolCall
  BY <1>1 DEF Planned
<1> QED
  BY <1>1, <1>2 DEF ToolCall

LEMMA StreamInit == InitStream => StreamInv
<1> SUFFICES ASSUME InitStream PROVE StreamInv
  OBVIOUS
<1>1. Progress
  <2>1. plan.text \in Seq(Chunk) /\ plan.calls \in Seq(ToolCall) /\ plan \in Plans
    BY PlansAssumption DEF InitStream
  <2>2. 0 \in 0 .. Len(plan.text) /\ 0 \in 0 .. Len(plan.calls)
    BY <2>1
  <2>3. \A i \in 0 .. 0 - 1 : FALSE
    OBVIOUS
  <2> QED
    BY <2>1, <2>2, <2>3 DEF InitStream, Init, Progress
<1>2. DeliveredSoFar
  <2>1. plan.text \in Seq(Chunk)
    BY <1>1, PlanTypes
  <2>2. SubSeq(plan.text, 1, 0) = <<>>
    BY <2>1, NoneAll
  <2> QED
    BY <2>2 DEF InitStream, Init, NoResponse, DeliveredSoFar
<1>3. NothingElse /\ DoneLast /\ Returned
  BY DEF InitStream, Init, NoResponse, NothingElse, DoneLast, Returned
<1> QED
  BY <1>1, <1>2, <1>3 DEF StreamInv

LEMMA SendTextInv ==
    ASSUME StreamInv, SendText
    PROVE  StreamInv'
<1>1. plan.text \in Seq(Chunk) /\ told \in 0 .. Len(plan.text) - 1
  BY PlanTypes DEF StreamInv, Progress, SendText
<1>2. out' = [out EXCEPT !.text = Append(@, plan.text[told + 1])]
  BY DEF SendText, OnTextDelta
<1>3. Append(out.text, plan.text[told + 1]) = SubSeq(plan.text, 1, told + 1)
  BY <1>1, OneMore DEF StreamInv, DeliveredSoFar
<1>4. /\ out'.text = SubSeq(plan.text, 1, told + 1)
      /\ out'.usage = out.usage /\ out'.finish = out.finish
      /\ out' = [text |-> out'.text, usage |-> out'.usage, finish |-> out'.finish]
  BY <1>2, <1>3 DEF StreamInv, NothingElse
<1>5. /\ UNCHANGED <<plan, opened, sent, done, pc, byIndex, order, result>>
      /\ told' = told + 1 /\ ~done /\ pc = "loop"
  BY DEF SendText, OnTextDelta, Received
<1>6. Progress'
  BY <1>1, <1>5 DEF StreamInv, Progress, Planned
<1>7. DeliveredSoFar' /\ NothingElse'
  BY <1>4, <1>5 DEF StreamInv, DeliveredSoFar, NothingElse, Planned
<1>8. DoneLast' /\ Returned'
  BY <1>4, <1>5 DEF StreamInv, DoneLast, Returned
<1> QED
  BY <1>6, <1>7, <1>8 DEF StreamInv

LEMMA SendThinkingInv ==
    ASSUME StreamInv, SendThinking
    PROVE  StreamInv'
<1>1. UNCHANGED <<plan, told, opened, sent, done, pc, out, byIndex, order, result>>
  BY DEF SendThinking, OnIgnored, Received
<1> QED
  BY <1>1 DEF StreamInv, Progress, DeliveredSoFar, NothingElse, DoneLast, AllSent, Returned,
     Planned

LEMMA SendEndInv ==
    ASSUME StreamInv, NEW i \in Index, SendEnd(i)
    PROVE  StreamInv'
<1>1. UNCHANGED <<plan, told, opened, sent, done, pc, out, byIndex, order, result>>
  BY DEF SendEnd, OnIgnored, Received
<1> QED
  BY <1>1 DEF StreamInv, Progress, DeliveredSoFar, NothingElse, DoneLast, AllSent, Returned,
     Planned

\* A Start makes a new entry, with the first piece of the arguments or none.
LEMMA SendStartInv ==
    ASSUME StreamInv, SendStart
    PROVE  StreamInv'
<1> DEFINE tc == Planned(opened)
           d(n) == [index |-> opened, id |-> tc.id, name |-> tc.name,
                    args |-> IF n = 1 THEN tc.args[1] ELSE Empty]
<1>1. PICK n \in 0 .. 1 :
        /\ n <= Len(tc.args)
        /\ OnToolCallStart(ToolEvent("ToolCallStart", opened, tc.id, tc.name,
                                     IF n = 1 THEN tc.args[1] ELSE Empty))
        /\ sent' = [sent EXCEPT ![opened] = n]
  BY DEF SendStart
<1>2. /\ opened \in Nat /\ opened < Len(plan.calls) /\ opened \in Index
      /\ tc \in ToolCall /\ tc.args \in Seq(Chunk)
      /\ tc = [id |-> tc.id, name |-> tc.name, args |-> tc.args]
  <2>1. opened \in 0 .. Len(plan.calls) - 1
    BY PlanTypes DEF StreamInv, Progress, SendStart
  <2> QED
    BY <2>1, PlanTypes DEF StreamInv
<1>3. /\ UNCHANGED <<plan, told, done, pc, out, result>>
      /\ opened' = opened + 1 /\ ~done /\ pc = "loop"
  BY <1>1 DEF SendStart, OnToolCallStart, Received
<1>4. Ensure(opened, Started(Ensured(opened), d(n)))
  BY <1>1 DEF OnToolCallStart, ToolEvent
<1>5. opened \notin DOMAIN byIndex
  BY <1>2 DEF StreamInv, NothingElse
<1>6. Started(Ensured(opened), d(n)) = [tc EXCEPT !.args = SubSeq(tc.args, 1, n)]
  <2>1. Ensured(opened) = [id |-> Empty, name |-> Empty, args |-> <<>>]
    BY <1>5 DEF Ensured, NewCall
  <2>2. Or(tc.id, Empty) = tc.id /\ Or(tc.name, Empty) = tc.name
    BY DEF Or
  <2>3. <<>> \o Piece(d(n).args) = SubSeq(tc.args, 1, n)
    <3>1. CASE n = 0
      BY <1>2, <3>1, NoneAll DEF Piece
    <3>2. CASE n = 1
      <4>1. 0 \in 0 .. Len(tc.args) - 1 /\ tc.args[1] \in Chunk
        BY <1>1, <1>2, <3>2
      <4>2. SubSeq(tc.args, 1, 0) \o <<tc.args[0 + 1]>> = SubSeq(tc.args, 1, 0 + 1)
        BY <1>2, <4>1, OneMore
      <4>3. Piece(tc.args[1]) = <<tc.args[1]>>
        BY <4>1, EmptyAssumption DEF Piece
      <4> QED
        BY <1>2, <3>2, <4>2, <4>3, NoneAll
    <3> QED
      BY <3>1, <3>2
  <2>4. Started(Ensured(opened), d(n))
          = [id |-> tc.id, name |-> tc.name, args |-> SubSeq(tc.args, 1, n)]
    <3>1. Ensured(opened).id = Empty /\ Ensured(opened).name = Empty
          /\ Ensured(opened).args = <<>>
      BY <2>1
    <3>2. d(n).id = tc.id /\ d(n).name = tc.name
      OBVIOUS
    <3> HIDE DEF d
    <3> QED
      BY <2>2, <2>3, <3>1, <3>2 DEF Started
  <2>5. [tc EXCEPT !.args = SubSeq(tc.args, 1, n)]
          = [id |-> tc.id, name |-> tc.name, args |-> SubSeq(tc.args, 1, n)]
    BY <1>2
  <2> QED
    BY <2>4, <2>5
<1>7. /\ order' = Append(order, opened)
      /\ DOMAIN byIndex' = 0 .. opened
      /\ byIndex'[opened] = [tc EXCEPT !.args = SubSeq(tc.args, 1, n)]
      /\ \A i \in 0 .. opened - 1 : byIndex'[i] = byIndex[i]
  BY <1>2, <1>4, <1>5, <1>6 DEF Ensure, StreamInv, NothingElse
<1>8. order' = [k \in 1 .. opened + 1 |-> k - 1]
  BY <1>2, <1>7 DEF StreamInv, DeliveredSoFar
<1>9. sent'[opened] = n /\ \A i \in 0 .. opened - 1 : sent'[i] = sent[i]
  BY <1>1, <1>2, PlanTypes DEF StreamInv, Progress
<1>10. Progress'
  <2>1. opened' \in 0 .. Len(plan'.calls) /\ sent' \in [Index -> Nat]
    BY <1>1, <1>2, <1>3 DEF StreamInv, Progress
  <2>2. ASSUME NEW i \in 0 .. opened PROVE sent'[i] \in 0 .. Len(Planned(i).args)
    <3>1. CASE i = opened
      BY <1>1, <1>2, <1>9, <3>1
    <3>2. CASE i # opened
      <4>1. i \in 0 .. opened - 1
        BY <1>2, <3>2
      <4> QED
        BY <1>9, <4>1 DEF StreamInv, Progress
    <3> QED
      BY <3>1, <3>2
  <2>3. \A i \in 0 .. opened' - 1 : sent'[i] \in 0 .. Len(Planned(i).args)
    BY <1>2, <1>3, <2>2
  <2> QED
    BY <1>3, <2>1, <2>3 DEF StreamInv, Progress, Planned
<1>11. DeliveredSoFar' /\ NothingElse'
  <2>1. out'.text = SubSeq(plan'.text, 1, told') /\ order' = [k \in 1 .. opened' |-> k - 1]
    BY <1>3, <1>8 DEF StreamInv, DeliveredSoFar
  <2>2. ASSUME NEW i \in 0 .. opened' - 1
        PROVE  byIndex'[i] = [Planned(i)' EXCEPT !.args = SubSeq(@, 1, sent'[i])]
    <3>1. Planned(i)' = Planned(i)
      BY <1>3 DEF Planned
    <3>2. CASE i = opened
      BY <1>7, <1>9, <3>1, <3>2
    <3>3. CASE i # opened
      <4>1. i \in 0 .. opened - 1
        BY <1>2, <1>3, <3>3
      <4> QED
        BY <1>7, <1>9, <3>1, <4>1 DEF StreamInv, DeliveredSoFar
    <3> QED
      BY <3>2, <3>3
  <2>3. NothingElse'
    BY <1>2, <1>3, <1>7 DEF StreamInv, NothingElse
  <2> QED
    BY <2>1, <2>2, <2>3 DEF DeliveredSoFar
<1>12. DoneLast' /\ Returned'
  BY <1>3 DEF StreamInv, DoneLast, Returned
<1> QED
  BY <1>10, <1>11, <1>12 DEF StreamInv

\* An ArgsDelta extends the arguments of its own entry by the next piece.
LEMMA SendArgsInv ==
    ASSUME StreamInv, NEW i \in Index, SendArgs(i)
    PROVE  StreamInv'
<1> DEFINE tc == Planned(i)
           d(id) == [index |-> i, id |-> id, name |-> Empty, args |-> tc.args[sent[i] + 1]]
<1>1. PICK id \in {Empty, tc.id} :
        OnToolCallArgsDelta(ToolEvent("ToolCallArgsDelta", i, id, Empty, tc.args[sent[i] + 1]))
  BY DEF SendArgs
<1>2. /\ UNCHANGED <<plan, told, opened, done, pc, out, result>>
      /\ sent' = [sent EXCEPT ![i] = @ + 1] /\ ~done /\ pc = "loop"
  BY <1>1 DEF SendArgs, OnToolCallArgsDelta, Received
<1>3. /\ opened \in Nat /\ i \in 0 .. opened - 1 /\ i \in DOMAIN byIndex
      /\ tc \in ToolCall /\ tc.args \in Seq(Chunk)
      /\ tc = [id |-> tc.id, name |-> tc.name, args |-> tc.args]
      /\ sent[i] \in 0 .. Len(tc.args) - 1
  <2>1. 0 .. Len(plan.calls) - 1 \subseteq Index /\ plan.calls \in Seq(ToolCall)
    BY PlanTypes DEF StreamInv
  <2>2. opened \in 0 .. Len(plan.calls) /\ i \in 0 .. opened - 1
    BY DEF StreamInv, Progress, SendArgs
  <2>3. i \in 0 .. Len(plan.calls) - 1
    BY <2>1, <2>2
  <2>4. /\ tc \in ToolCall /\ tc.args \in Seq(Chunk)
        /\ tc = [id |-> tc.id, name |-> tc.name, args |-> tc.args]
    BY <2>3, PlanTypes DEF StreamInv
  <2>5. sent[i] \in 0 .. Len(tc.args) /\ sent[i] < Len(tc.args)
    BY <2>2 DEF StreamInv, Progress, SendArgs
  <2>6. sent[i] \in 0 .. Len(tc.args) - 1
    BY <2>4, <2>5
  <2> QED
    BY <2>2, <2>4, <2>6 DEF StreamInv, NothingElse
<1>4. Ensure(i, Extended(Ensured(i), d(id)))
  BY <1>1 DEF OnToolCallArgsDelta, ToolEvent
<1>5. Extended(Ensured(i), d(id)) = [tc EXCEPT !.args = SubSeq(tc.args, 1, sent[i] + 1)]
  <2>1. Ensured(i) = [tc EXCEPT !.args = SubSeq(tc.args, 1, sent[i])]
    BY <1>3 DEF Ensured, StreamInv, DeliveredSoFar
  <2>2. /\ Ensured(i).id = tc.id /\ Ensured(i).name = tc.name
        /\ Ensured(i).args = SubSeq(tc.args, 1, sent[i])
    BY <1>3, <2>1 DEF ToolCall
  <2>3. Or(tc.id, id) = tc.id /\ Or(tc.name, Empty) = tc.name
    BY DEF Or
  <2>4. SubSeq(tc.args, 1, sent[i]) \o Piece(tc.args[sent[i] + 1])
          = SubSeq(tc.args, 1, sent[i] + 1)
    <3>1. tc.args[sent[i] + 1] \in Chunk
      BY <1>3
    <3>2. Piece(tc.args[sent[i] + 1]) = <<tc.args[sent[i] + 1]>>
      BY <3>1, EmptyAssumption DEF Piece
    <3> QED
      BY <1>3, <3>2, OneMore
  <2>5. Extended(Ensured(i), d(id))
          = [id |-> tc.id, name |-> tc.name, args |-> SubSeq(tc.args, 1, sent[i] + 1)]
    <3>1. d(id).id = id /\ d(id).name = Empty /\ d(id).args = tc.args[sent[i] + 1]
      OBVIOUS
    <3> HIDE DEF d
    <3> QED
      BY <2>2, <2>3, <2>4, <3>1 DEF Extended
  <2>6. [tc EXCEPT !.args = SubSeq(tc.args, 1, sent[i] + 1)]
          = [id |-> tc.id, name |-> tc.name, args |-> SubSeq(tc.args, 1, sent[i] + 1)]
    BY <1>3, WithArgs
  <2> QED
    BY <2>5, <2>6
<1>6. /\ UNCHANGED order
      /\ DOMAIN byIndex' = DOMAIN byIndex
      /\ byIndex'[i] = [tc EXCEPT !.args = SubSeq(tc.args, 1, sent[i] + 1)]
      /\ \A j \in DOMAIN byIndex \ {i} : byIndex'[j] = byIndex[j]
  BY <1>3, <1>4, <1>5 DEF Ensure
<1>7. /\ sent' \in [Index -> Nat] /\ sent'[i] = sent[i] + 1
      /\ \A j \in Index \ {i} : sent'[j] = sent[j]
  BY <1>2, <1>3 DEF StreamInv, Progress
<1>8. 0 .. opened - 1 \subseteq Index
  BY PlanTypes DEF StreamInv, Progress
<1>9. Progress'
  <2>1. ASSUME NEW j \in 0 .. opened - 1
        PROVE  sent'[j] \in 0 .. Len(Planned(j).args)
    <3>1. CASE j = i
      BY <1>3, <1>7, <3>1
    <3>2. CASE j # i
      BY <1>7, <1>8, <3>2 DEF StreamInv, Progress
    <3> QED
      BY <3>1, <3>2
  <2> QED
    BY <1>2, <1>7, <2>1 DEF StreamInv, Progress, Planned
<1>10. DeliveredSoFar'
  <2>1. out'.text = SubSeq(plan'.text, 1, told') /\ order' = [k \in 1 .. opened' |-> k - 1]
    BY <1>2, <1>6 DEF StreamInv, DeliveredSoFar
  <2>2. ASSUME NEW j \in 0 .. opened' - 1
        PROVE  byIndex'[j] = [Planned(j)' EXCEPT !.args = SubSeq(@, 1, sent'[j])]
    <3>1. Planned(j)' = Planned(j) /\ j \in 0 .. opened - 1
      BY <1>2 DEF Planned
    <3>2. CASE j = i
      BY <1>6, <1>7, <3>1, <3>2
    <3>3. CASE j # i
      BY <1>6, <1>7, <1>8, <3>1, <3>3 DEF StreamInv, DeliveredSoFar, NothingElse
    <3> QED
      BY <3>2, <3>3
  <2> QED
    BY <2>1, <2>2 DEF DeliveredSoFar
<1>11. NothingElse' /\ DoneLast' /\ Returned'
  BY <1>2, <1>6 DEF StreamInv, NothingElse, DoneLast, Returned
<1> QED
  BY <1>9, <1>10, <1>11 DEF StreamInv

LEMMA SendDoneInv ==
    ASSUME StreamInv, SendDone
    PROVE  StreamInv'
<1>1. /\ UNCHANGED <<plan, told, opened, sent, pc, byIndex, order, result>>
      /\ pc = "loop" /\ done' = TRUE /\ AllSent
      /\ out' = [out EXCEPT !.usage = IF plan.usage # Nil THEN plan.usage ELSE @,
                            !.finish = plan.finish]
  BY DEF SendDone, OnDone, Received
<1>2. plan.usage # Nil
  BY PlanTypes, EmptyAssumption DEF StreamInv
<1>3. /\ out'.text = out.text
      /\ out'.usage = plan.usage /\ out'.finish = plan.finish
      /\ out' = [text |-> out'.text, usage |-> out'.usage, finish |-> out'.finish]
  BY <1>1, <1>2 DEF StreamInv, NothingElse
<1>4. Progress' /\ AllSent'
  BY <1>1 DEF StreamInv, Progress, AllSent, Planned
<1>5. DeliveredSoFar' /\ NothingElse'
  BY <1>1, <1>3 DEF StreamInv, DeliveredSoFar, NothingElse, Planned
<1>6. DoneLast' /\ Returned'
  BY <1>1, <1>3, <1>4 DEF StreamInv, DoneLast, Returned
<1> QED
  BY <1>4, <1>5, <1>6 DEF StreamInv

\* The end of the stream, wherever it comes, changes only what is returned.
LEMMA EndInv ==
    ASSUME StreamInv, UNCHANGED adapter,
           \/ \E err \in Error : OnEOF(err) \/ OnError(err)
           \/ Close
    PROVE  StreamInv'
<1>1. /\ UNCHANGED <<plan, told, opened, sent, done, out, byIndex, order>>
      /\ pc' \in {"closing", "returned"}
  BY DEF adapter, OnEOF, OnError, Close
<1>2. Returned'
  <2>1. CASE \E err \in Error : OnEOF(err)
    BY <1>1, <2>1 DEF OnEOF, Returned
  <2>2. CASE \E err \in Error : OnError(err)
    <3>1. PICK err \in Error : OnError(err)
      BY <2>2
    <3>2. result'.err = err
      BY <3>1 DEF OnError
    <3>3. err # Nil
      BY <3>1, EmptyAssumption
    <3> QED
      BY <3>2, <3>3 DEF Returned
  <2>3. CASE Close
    BY <1>1, <2>3 DEF Close, StreamInv, Returned
  <2> QED
    BY <2>1, <2>2, <2>3
<1> QED
  BY <1>1, <1>2 DEF StreamInv, Progress, DeliveredSoFar, NothingElse, DoneLast, AllSent,
     Planned

LEMMA StreamStep == StreamInv /\ [NextStream]_StreamVars => StreamInv'
<1> SUFFICES ASSUME StreamInv, [NextStream]_StreamVars PROVE StreamInv'
  OBVIOUS
<1>1. CASE SendText
  BY <1>1, SendTextInv
<1>2. CASE SendThinking
  BY <1>2, SendThinkingInv
<1>3. CASE SendStart
  BY <1>3, SendStartInv
<1>4. CASE SendDone
  BY <1>4, SendDoneInv
<1>5. ASSUME NEW i \in Index, SendArgs(i) PROVE StreamInv'
  BY <1>5, SendArgsInv
<1>6. ASSUME NEW i \in Index, SendEnd(i) PROVE StreamInv'
  BY <1>6, SendEndInv
<1>7. CASE EndOfStream \/ Cut \/ Break \/ (Close /\ UNCHANGED adapter)
  <2>1. EOF \in Error
    BY DEF EOF, Error
  <2>2. Errors \subseteq Error
    BY EmptyAssumption
  <2>3. UNCHANGED adapter
    BY <1>7 DEF EndOfStream, Cut, Break
  <2>4. (\E err \in Error : OnEOF(err) \/ OnError(err)) \/ Close
    BY <1>7, <2>1, <2>2 DEF EndOfStream, Cut, Break
  <2> QED
    BY <2>3, <2>4, EndInv
<1>8. CASE UNCHANGED StreamVars
  BY <1>8 DEF StreamInv, Progress, DeliveredSoFar, NothingElse, DoneLast, AllSent,
     Returned, Planned, StreamVars, vars, adapter
<1> QED
  BY <1>1, <1>2, <1>3, <1>4, <1>5, <1>6, <1>7, <1>8 DEF NextStream, Send

\* Every response an adapter streams.
LEMMA StreamInvariance == SpecStream => []StreamInv
  BY StreamInit, StreamStep, PTL DEF SpecStream

-----------------------------------------------------------------------------
\* At every moment of every interleaving, what has been accumulated is exactly
\* what has been sent: nothing is lost, mixed up between calls or made up
\* (stream.go:134-163).
THEOREM Accumulation == SpecStream => []DeliveredSoFar
  BY StreamInvariance, PTL DEF StreamInv

\* A response that was streamed to its Done comes back whole (stream.go:77-94).
THEOREM WholeResponse == SpecStream => []RoundTrip
<1>1. StreamInv => RoundTrip
  <2> SUFFICES ASSUME StreamInv, pc # "loop", done, result.err = Nil
               PROVE  /\ result.resp = [text |-> plan.text, usage |-> plan.usage,
                                        finish |-> plan.finish]
                      /\ result.toolCalls = plan.calls
    BY DEF RoundTrip
  <2>1. /\ plan.text \in Seq(Chunk) /\ plan.calls \in Seq(ToolCall)
        /\ \A i \in 0 .. Len(plan.calls) - 1 :
             /\ Planned(i).args \in Seq(Chunk)
             /\ Planned(i) = [id |-> Planned(i).id, name |-> Planned(i).name,
                              args |-> Planned(i).args]
    BY PlanTypes DEF StreamInv
  <2>2. /\ result.resp = out /\ result.toolCalls = [k \in 1 .. Len(order) |-> byIndex[order[k]]]
        /\ out = [text |-> out.text, usage |-> plan.usage, finish |-> plan.finish]
        /\ AllSent
    BY DEF StreamInv, Returned, NothingElse, DoneLast
  <2>3. out.text = plan.text
    BY <2>1, <2>2, NoneAll DEF AllSent, StreamInv, DeliveredSoFar
  <2>4. /\ Len(order) = Len(plan.calls)
        /\ \A k \in 1 .. Len(plan.calls) : order[k] = k - 1
    BY <2>1, <2>2 DEF AllSent, StreamInv, DeliveredSoFar
  <2>5. ASSUME NEW k \in 1 .. Len(plan.calls)
        PROVE  byIndex[k - 1] = plan.calls[k]
    <3>1. k - 1 \in 0 .. Len(plan.calls) - 1 /\ Planned(k - 1) = plan.calls[k]
      BY <2>1 DEF Planned
    <3>2. sent[k - 1] = Len(Planned(k - 1).args)
      BY <2>2, <3>1 DEF AllSent
    <3>3. byIndex[k - 1] = [Planned(k - 1) EXCEPT !.args = SubSeq(@, 1, sent[k - 1])]
      BY <2>2, <3>1 DEF AllSent, StreamInv, DeliveredSoFar
    <3>4. SubSeq(Planned(k - 1).args, 1, sent[k - 1]) = Planned(k - 1).args
      BY <2>1, <3>1, <3>2, NoneAll
    <3> QED
      BY <2>1, <3>1, <3>3, <3>4
  <2>6. result.toolCalls = [k \in 1 .. Len(plan.calls) |-> plan.calls[k]]
    BY <2>2, <2>4, <2>5
  <2> QED
    BY <2>1, <2>2, <2>3, <2>6
<1> QED
  BY <1>1, StreamInvariance, PTL

\* A nil error with an empty finish reason, and nothing else, means that the
\* stream ended before its Done (stream.go:123-127, 175).
THEOREM Truncation == SpecStream => []TruncationVisible
<1>1. StreamInv => TruncationVisible
  BY PlanTypes, EmptyAssumption DEF StreamInv, DoneLast, Returned, TruncationVisible
<1> QED
  BY <1>1, StreamInvariance, PTL
=============================================================================
