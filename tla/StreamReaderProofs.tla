------------------------- MODULE StreamReaderProofs -------------------------
(***************************************************************************)
(* Proofs about AccumulateStream with readers that promise it nothing      *)
(* (AnyStream), and about the scripted reader that several goroutines hold *)
(* (ScriptedStream).                                                       *)
(***************************************************************************)
EXTENDS AnyStream, ScriptedStream, Flattening, SequenceTheorems, FiniteSetTheorems, TLAPS

-----------------------------------------------------------------------------
(***************************************************************************)
(* Any reader.                                                             *)
(***************************************************************************)
\* What NothingTakenBack says of a step.
OnlyStart(i, f) ==
    byIndex[i][f] # Empty /\ byIndex'[i][f] # byIndex[i][f] =>
      byIndex'[i][f] # Empty /\ Last(seen').kind = "ToolCallStart"
NothingTaken ==
    /\ IsPrefix(out.text, out'.text)
    /\ IsPrefix(order, order')
    /\ out.usage # Nil => out'.usage # Nil
    /\ \A i \in DOMAIN byIndex :
         /\ i \in DOMAIN byIndex'
         /\ IsPrefix(byIndex[i].args, byIndex'[i].args)
         /\ \A f \in {"id", "name"} : OnlyStart(i, f)

LEMMA PrefixOfItself ==
    ASSUME NEW S, NEW s \in Seq(S)
    PROVE  IsPrefix(s, s)
  BY DEF IsPrefix

LEMMA PrefixOfLonger ==
    ASSUME NEW S, NEW s \in Seq(S), NEW t \in Seq(S)
    PROVE  IsPrefix(s, s \o t)
  BY DEF IsPrefix

LEMMA PrefixOfAppended ==
    ASSUME NEW S, NEW s \in Seq(S), NEW e \in S
    PROVE  IsPrefix(s, Append(s, e))
  BY DEF IsPrefix

\* The types of the parts of a state, and what they are prefixes of.
LEMMA Parts ==
    ASSUME TypeOK
    PROVE  /\ out.text \in Seq(Chunk) /\ order \in Seq(Index)
           /\ out.usage \in Usage \union {Nil} /\ out.finish \in FinishReason \union {Empty}
           /\ out = [text |-> out.text, usage |-> out.usage, finish |-> out.finish]
           /\ \A i \in DOMAIN byIndex :
                /\ byIndex[i].id \in ID \union {Empty}
                /\ byIndex[i].name \in Name \union {Empty}
                /\ byIndex[i].args \in Seq(Chunk)
  BY DEF TypeOK, ToolCall

LEMMA PiecesTyped ==
    ASSUME NEW a \in Chunk \union {Empty}
    PROVE  Piece(a) \in Seq(Chunk)
  BY DEF Piece

\* The entry a tool call event works on.
LEMMA EntryTyped ==
    ASSUME TypeOK, NEW i \in Index
    PROVE  /\ Ensured(i) \in ToolCall
           /\ Ensured(i).args \in Seq(Chunk)
           /\ Ensured(i).id \in ID \union {Empty}
           /\ Ensured(i).name \in Name \union {Empty}
<1>1. NewCall \in ToolCall
  BY DEF NewCall, ToolCall
<1>2. Ensured(i) \in ToolCall
  BY <1>1 DEF Ensured, TypeOK
<1> QED
  BY <1>2 DEF ToolCall

\* Both kinds of tool call events keep the entries well formed ...
LEMMA MergedTyped ==
    ASSUME NEW tc \in ToolCall, NEW d \in Delta
    PROVE  /\ Started(tc, d) \in ToolCall
           /\ Extended(tc, d) \in ToolCall
<1>1. /\ tc.id \in ID \union {Empty} /\ tc.name \in Name \union {Empty}
      /\ tc.args \in Seq(Chunk)
      /\ d.id \in ID \union {Empty} /\ d.name \in Name \union {Empty}
      /\ d.args \in Chunk \union {Empty}
  BY DEF ToolCall, Delta
<1>2. tc.args \o Piece(d.args) \in Seq(Chunk)
  BY <1>1, PiecesTyped
<1> QED
  BY <1>1, <1>2 DEF Started, Extended, Or, ToolCall

LEMMA EnsureInv ==
    ASSUME TypeOK, NEW i \in Index, NEW tc \in ToolCall, Ensure(i, tc), Received,
           UNCHANGED out
    PROVE  TypeOK'
<1>1. /\ byIndex' = [j \in DOMAIN byIndex \union {i} |-> IF j = i THEN tc ELSE byIndex[j]]
      /\ order' = IF i \in DOMAIN byIndex THEN order ELSE Append(order, i)
      /\ UNCHANGED <<pc, out, result, closes>>
  BY DEF Ensure, Received
<1>2. /\ DOMAIN byIndex' = DOMAIN byIndex \union {i}
      /\ \A j \in DOMAIN byIndex' : byIndex'[j] \in ToolCall
  BY <1>1 DEF TypeOK
<1>3. order' \in Seq(Index) /\ \A k \in 1 .. Len(order') : order'[k] \in DOMAIN byIndex'
  BY <1>1, <1>2 DEF TypeOK
<1> QED
  BY <1>1, <1>2, <1>3 DEF TypeOK

\* ... and take nothing back.
LEMMA EnsureKeeps ==
    ASSUME TypeOK, NEW i \in Index, NEW tc \in ToolCall, Ensure(i, tc), UNCHANGED out,
           IsPrefix(Ensured(i).args, tc.args),
           i \in DOMAIN byIndex => \A f \in {"id", "name"} :
             byIndex[i][f] # Empty /\ tc[f] # byIndex[i][f] =>
               tc[f] # Empty /\ Last(seen').kind = "ToolCallStart"
    PROVE  NothingTaken
<1>1. byIndex' = [j \in DOMAIN byIndex \union {i} |-> IF j = i THEN tc ELSE byIndex[j]]
  BY DEF Ensure
<1>2. IsPrefix(order, order')
  BY PrefixOfItself, PrefixOfAppended DEF TypeOK, Ensure
<1>3. ASSUME NEW j \in DOMAIN byIndex
      PROVE  /\ j \in DOMAIN byIndex'
             /\ IsPrefix(byIndex[j].args, byIndex'[j].args)
             /\ \A f \in {"id", "name"} : OnlyStart(j, f)
  <2>1. CASE j = i
    <3>1. byIndex'[j] = tc /\ Ensured(i) = byIndex[i]
      BY <1>1, <1>3, <2>1 DEF Ensured
    <3> QED
      BY <1>1, <1>3, <2>1, <3>1 DEF OnlyStart
  <2>2. CASE j # i
    <3>1. byIndex'[j] = byIndex[j] /\ byIndex[j].args \in Seq(Chunk)
      BY <1>1, <1>3, <2>2, Parts
    <3> QED
      BY <1>1, <1>3, <3>1, PrefixOfItself DEF OnlyStart
  <2> QED
    BY <2>1, <2>2
<1>4. IsPrefix(out.text, out'.text)
  BY PrefixOfItself, Parts
<1> QED
  BY <1>2, <1>3, <1>4 DEF NothingTaken

\* An event that leaves the tool calls alone.
LEMMA OthersKeep ==
    ASSUME TypeOK, UNCHANGED <<byIndex, order>>, IsPrefix(out.text, out'.text),
           out.usage # Nil => out'.usage # Nil
    PROVE  NothingTaken
<1>1. IsPrefix(order, order')
  BY PrefixOfItself DEF TypeOK
<1>2. ASSUME NEW i \in DOMAIN byIndex
      PROVE  /\ IsPrefix(byIndex[i].args, byIndex'[i].args)
             /\ \A f \in {"id", "name"} : OnlyStart(i, f)
  BY <1>2, PrefixOfItself, Parts DEF OnlyStart
<1> QED
  BY <1>1, <1>2 DEF NothingTaken

LEMMA StartStep ==
    ASSUME TypeOK, NEW ev \in Event, OnToolCallStart(ev), Last(seen') = ev
    PROVE  TypeOK' /\ NothingTaken
<1> DEFINE d == ev.toolCall
           i == d.index
           tc == Started(Ensured(i), d)
<1>1. ev.kind = "ToolCallStart" /\ d \in Delta
  BY DEF OnToolCallStart, Event
<1>2. /\ i \in Index /\ d.args \in Chunk \union {Empty}
      /\ tc \in ToolCall /\ Ensured(i).args \in Seq(Chunk)
  BY <1>1, EntryTyped, MergedTyped DEF Delta
<1>3. Ensure(i, tc) /\ Received /\ UNCHANGED out
  BY DEF OnToolCallStart
<1>4. IsPrefix(Ensured(i).args, tc.args)
  BY <1>2, PiecesTyped, PrefixOfLonger DEF Started
<1>5. ASSUME i \in DOMAIN byIndex, NEW f \in {"id", "name"}, tc[f] # byIndex[i][f],
             byIndex[i][f] # Empty
      PROVE  tc[f] # Empty /\ Last(seen').kind = "ToolCallStart"
  <2>1. Ensured(i) = byIndex[i]
    BY <1>5 DEF Ensured
  <2>2. CASE f = "id"
    BY <1>1, <1>5, <2>1, <2>2 DEF Started, Or
  <2>3. CASE f = "name"
    BY <1>1, <1>5, <2>1, <2>3 DEF Started, Or
  <2> QED
    BY <2>2, <2>3
<1> HIDE DEF d, i, tc
<1> QED
  BY <1>2, <1>3, <1>4, <1>5, EnsureInv, EnsureKeeps

LEMMA ArgsDeltaStep ==
    ASSUME TypeOK, NEW ev \in Event, OnToolCallArgsDelta(ev)
    PROVE  TypeOK' /\ NothingTaken
<1> DEFINE d == ev.toolCall
           i == d.index
           tc == Extended(Ensured(i), d)
<1>1. ev.kind = "ToolCallArgsDelta" /\ d \in Delta
  BY DEF OnToolCallArgsDelta, Event
<1>2. /\ i \in Index /\ d.args \in Chunk \union {Empty}
      /\ tc \in ToolCall /\ Ensured(i).args \in Seq(Chunk)
  BY <1>1, EntryTyped, MergedTyped DEF Delta
<1>3. Ensure(i, tc) /\ Received /\ UNCHANGED out
  BY DEF OnToolCallArgsDelta
<1>4. IsPrefix(Ensured(i).args, tc.args)
  BY <1>2, PiecesTyped, PrefixOfLonger DEF Extended
<1>5. ASSUME i \in DOMAIN byIndex, NEW f \in {"id", "name"}, byIndex[i][f] # Empty
      PROVE  tc[f] = byIndex[i][f]
  <2>1. Ensured(i) = byIndex[i]
    BY <1>5 DEF Ensured
  <2>2. CASE f = "id"
    BY <1>5, <2>1, <2>2 DEF Extended, Or
  <2>3. CASE f = "name"
    BY <1>5, <2>1, <2>3 DEF Extended, Or
  <2> QED
    BY <2>2, <2>3
<1> HIDE DEF d, i, tc
<1> QED
  BY <1>2, <1>3, <1>4, <1>5, EnsureInv, EnsureKeeps

LEMMA TextStep ==
    ASSUME TypeOK, NEW ev \in Event, OnTextDelta(ev)
    PROVE  TypeOK' /\ NothingTaken
<1>1. ev.text \in Chunk
  BY DEF OnTextDelta, Event
<1>2. /\ out' = [out EXCEPT !.text = Append(@, ev.text)]
      /\ UNCHANGED <<pc, byIndex, order, result, closes>>
  BY DEF OnTextDelta, Received
<1>3. /\ out'.text = Append(out.text, ev.text) /\ out'.usage = out.usage
      /\ out' \in [text : Seq(Chunk), usage : Usage \union {Nil},
                   finish : FinishReason \union {Empty}]
  <2>1. out'.text = Append(out.text, ev.text) /\ Append(out.text, ev.text) \in Seq(Chunk)
    BY <1>1, <1>2, Parts
  <2>2. out' = [text |-> Append(out.text, ev.text), usage |-> out.usage,
                finish |-> out.finish]
    BY <1>2, Parts
  <2> QED
    BY <2>1, <2>2, Parts
<1>4. TypeOK'
  BY <1>2, <1>3 DEF TypeOK
<1> QED
  BY <1>1, <1>2, <1>3, <1>4, PrefixOfAppended, Parts, OthersKeep

LEMMA DoneStep ==
    ASSUME TypeOK, NEW ev \in Event, OnDone(ev)
    PROVE  TypeOK' /\ NothingTaken
<1>1. ev.usage \in Usage \union {Nil} /\ ev.finish \in FinishReason \union {Empty}
  BY DEF OnDone, Event
<1>2. /\ out' = [out EXCEPT !.usage = IF ev.usage # Nil THEN ev.usage ELSE @,
                            !.finish = ev.finish]
      /\ UNCHANGED <<pc, byIndex, order, result, closes>>
  BY DEF OnDone, Received
<1>3. /\ out'.text = out.text
      /\ out.usage # Nil => out'.usage # Nil
      /\ out' \in [text : Seq(Chunk), usage : Usage \union {Nil},
                   finish : FinishReason \union {Empty}]
  BY <1>1, <1>2 DEF TypeOK
<1>4. TypeOK'
  BY <1>2, <1>3 DEF TypeOK
<1> QED
  BY <1>2, <1>3, <1>4, PrefixOfItself, Parts, OthersKeep

LEMMA IgnoredStep ==
    ASSUME TypeOK, NEW ev \in Event, OnIgnored(ev)
    PROVE  TypeOK' /\ NothingTaken
<1>1. UNCHANGED vars
  BY DEF OnIgnored, Received, vars
<1>2. TypeOK'
  BY <1>1 DEF TypeOK, vars
<1> QED
  BY <1>1, <1>2, PrefixOfItself, Parts, OthersKeep DEF vars

\* The end, whatever the error, and the deferred Close.
LEMMA EndStep ==
    ASSUME TypeOK, (\E err \in Error : OnEOF(err) \/ OnError(err)) \/ Close
    PROVE  TypeOK' /\ NothingTaken
<1>1. UNCHANGED <<out, byIndex, order>>
  BY DEF OnEOF, OnError, Close
<1>2. NothingTaken
  BY <1>1, PrefixOfItself, Parts, OthersKeep
<1>3. CASE \E err \in Error : OnEOF(err)
  <2>1. \A k \in 1 .. Len(order) : byIndex[order[k]] \in ToolCall
    BY DEF TypeOK
  <2>2. result'.toolCalls \in Seq(ToolCall) /\ result'.err = Nil /\ result'.resp = out
    BY <1>3, <2>1 DEF OnEOF, TypeOK
  <2>3. pc' = "closing" /\ pc = "loop" /\ UNCHANGED closes
    BY <1>3 DEF OnEOF
  <2> QED
    BY <1>1, <1>2, <2>2, <2>3 DEF TypeOK
<1>4. CASE \E err \in Error : OnError(err)
  <2>1. result'.toolCalls \in Seq(ToolCall) /\ result'.err \in Error /\ result'.resp = out
    BY <1>4 DEF OnError
  <2>2. pc' = "closing" /\ pc = "loop" /\ UNCHANGED closes
    BY <1>4 DEF OnError
  <2> QED
    BY <1>1, <1>2, <2>1, <2>2 DEF TypeOK
<1>5. CASE Close
  BY <1>1, <1>2, <1>5 DEF TypeOK, Close
<1> QED
  BY <1>3, <1>4, <1>5

LEMMA SeenStep == seen \in Seq(Event) /\ [NextAny]_AnyVars => seen' \in Seq(Event)
  BY EventsAssumption DEF NextAny, AnyVars, Give, Stop

LEMMA AnyStep ==
    TypeOK /\ seen \in Seq(Event) /\ [NextAny]_AnyVars => TypeOK' /\ [NothingTaken]_AnyVars
<1> SUFFICES ASSUME TypeOK, seen \in Seq(Event), [NextAny]_AnyVars
             PROVE  TypeOK' /\ [NothingTaken]_AnyVars
  OBVIOUS
<1>1. ASSUME NEW ev \in Events, Give(ev) PROVE TypeOK' /\ NothingTaken
  <2>1. ev \in Event
    BY EventsAssumption
  <2>2. CASE OnToolCallStart(ev)
    <3>1. Last(seen') = ev
      BY <1>1, <2>1 DEF Give, Last
    <3> QED
      BY <2>1, <2>2, <3>1, StartStep
  <2>3. CASE ~OnToolCallStart(ev)
    BY <1>1, <2>1, <2>3, ArgsDeltaStep, TextStep, DoneStep, IgnoredStep DEF Give, OnEvent
  <2> QED
    BY <2>2, <2>3
<1>2. ASSUME NEW err \in Errors, Stop(err) PROVE TypeOK' /\ NothingTaken
  BY <1>2, EmptyAssumption, EndStep DEF Stop
<1>3. CASE Close /\ UNCHANGED <<seen, last>>
  BY <1>3, EndStep
<1>4. CASE UNCHANGED AnyVars
  BY <1>4 DEF TypeOK, AnyVars, vars
<1> QED
  BY <1>1, <1>2, <1>3, <1>4 DEF NextAny

LEMMA AnyInit == InitAny => TypeOK /\ seen \in Seq(Event)
<1> SUFFICES ASSUME InitAny PROVE TypeOK /\ seen \in Seq(Event)
  OBVIOUS
<1>1. NoResponse \in [text : Seq(Chunk), usage : Usage \union {Nil},
                      finish : FinishReason \union {Empty}]
  BY DEF NoResponse
<1>2. /\ DOMAIN byIndex = {} /\ order = <<>> /\ pc = "loop" /\ closes = 0
      /\ out = NoResponse /\ result = NoResult
      /\ result.resp = NoResponse /\ result.err = Nil /\ result.toolCalls = <<>>
  BY DEF InitAny, Init, NoResult
<1> QED
  BY <1>1, <1>2 DEF InitAny, TypeOK

LEMMA AnyInvariance == SpecAny => [](TypeOK /\ seen \in Seq(Event))
<1>1. TypeOK /\ seen \in Seq(Event) /\ [NextAny]_AnyVars => (TypeOK /\ seen \in Seq(Event))'
  BY AnyStep, SeenStep
<1> QED
  BY <1>1, AnyInit, PTL DEF SpecAny

\* With any reader whatsoever, AccumulateStream is in one of its states: every
\* listed index has an entry, nothing is returned before the loop has ended and
\* then a response with whole tool calls, and the reader is not closed before the
\* return and has been closed once after it, on the clean path and on the other.
THEOREM AnyTypeCorrectness == SpecAny => []TypeOK
  BY AnyInvariance, PTL

\* With any reader whatsoever, whatever an event brought stays: text, arguments
\* and list grow at their end, and only a Start changes an ID or a name.
THEOREM NothingLost == SpecAny => NothingTakenBack
<1>1. TypeOK /\ seen \in Seq(Event) /\ [NextAny]_AnyVars =>
        [/\ IsPrefix(out.text, out'.text)
         /\ IsPrefix(order, order')
         /\ out.usage # Nil => out'.usage # Nil
         /\ \A i \in DOMAIN byIndex :
              /\ i \in DOMAIN byIndex'
              /\ IsPrefix(byIndex[i].args, byIndex'[i].args)
              /\ \A f \in {"id", "name"} :
                   byIndex[i][f] # Empty /\ byIndex'[i][f] # byIndex[i][f] =>
                     byIndex'[i][f] # Empty /\ Last(seen').kind = "ToolCallStart"]_AnyVars
  BY AnyStep DEF NothingTaken, OnlyStart
<1> QED
  BY <1>1, AnyInvariance, PTL DEF SpecAny, NothingTakenBack

-----------------------------------------------------------------------------
(***************************************************************************)
(* The response, told from the events.                                     *)
(***************************************************************************)
LEMMA MinIs ==
    ASSUME NEW D, D \subseteq Nat, NEW m \in D, \A k \in D : m <= k
    PROVE  Min(D) = m
<1> DEFINE x == Min(D)
<1>1. x \in D /\ \A k \in D : x <= k
  BY DEF Min
<1> HIDE DEF x
<1>2. x \in Nat /\ m \in Nat /\ x <= m /\ m <= x
  BY <1>1
<1>3. x = m
  BY <1>2
<1> QED
  BY <1>3 DEF x

LEMMA MaxIs ==
    ASSUME NEW D, D \subseteq Nat, NEW m \in D, \A k \in D : m >= k
    PROVE  Max(D) = m
<1> DEFINE x == Max(D)
<1>1. x \in D /\ \A k \in D : x >= k
  BY DEF Max
<1> HIDE DEF x
<1>2. x \in Nat /\ m \in Nat /\ x >= m /\ m >= x
  BY <1>1
<1>3. x = m
  BY <1>2
<1> QED
  BY <1>3 DEF x

LEMMA HasMin ==
    ASSUME NEW D, D \subseteq Nat, D # {}
    PROVE  Min(D) \in D /\ \A k \in D : Min(D) <= k
<1>1. PICK m \in D : \A k \in D : m <= k
  BY LeastElement
<1> QED
  BY <1>1, MinIs

LEMMA HasMax ==
    ASSUME NEW n \in Nat, NEW D, D \subseteq 1 .. n, D # {}
    PROVE  Max(D) \in D /\ \A k \in D : Max(D) >= k
<1>1. D \subseteq Nat
  OBVIOUS
<1>2. PICK m \in D : \A k \in D : k <= m
  BY GreatestElement
<1>3. \A k \in D : m >= k
  BY <1>1, <1>2
<1> QED
  BY <1>1, <1>3, MaxIs

\* The least position stays, the greatest is the new one.
LEMMA NewPosition ==
    ASSUME NEW n \in Nat, NEW D, D \subseteq 1 .. n
    PROVE  /\ Max(D \union {n + 1}) = n + 1
           /\ Min(D \union {n + 1}) = IF D = {} THEN n + 1 ELSE Min(D)
<1> DEFINE E == D \union {n + 1}
<1>1. /\ D \subseteq Nat /\ E \subseteq Nat /\ n + 1 \in E
      /\ \A k \in E : n + 1 >= k
      /\ D = {} => \A k \in E : n + 1 <= k
      /\ \A k \in E : k \in D \/ k = n + 1
      /\ D \subseteq E
  OBVIOUS
<1> HIDE DEF E
<1>2. Max(E) = n + 1
  BY <1>1, MaxIs
<1>3. CASE D = {}
  <2>1. Min(E) = n + 1
    BY <1>1, <1>3, MinIs
  <2> QED
    BY <1>2, <1>3, <2>1 DEF E
<1>4. CASE D # {}
  <2>1. Min(D) \in D /\ \A k \in D : Min(D) <= k
    BY <1>1, <1>4, HasMin
  <2> DEFINE m == Min(D)
  <2> HIDE DEF m
  <2>2. m \in E /\ \A k \in E : m <= k
    <3>1. m \in D /\ \A k \in D : m <= k
      BY <2>1 DEF m
    <3> QED
      BY <1>1, <3>1
  <2>3. Min(E) = m
    BY <1>1, <2>2, MinIs
  <2> QED
    BY <1>2, <1>4, <2>3 DEF E, m
<1> QED
  BY <1>3, <1>4

\* Positions are finitely many, and each has its rank among them.
LEMMA Ranks ==
    ASSUME NEW n \in Nat, NEW D, D \subseteq 1 .. n
    PROVE  /\ IsFiniteSet(D) /\ Cardinality(D) \in Nat
           /\ \A k \in D : Cardinality({j \in D : j <= k}) \in 1 .. Cardinality(D)
<1>1. IsFiniteSet(1 .. n)
  BY FS_Interval
<1>2. IsFiniteSet(D) /\ Cardinality(D) \in Nat
  BY <1>1, FS_Subset, FS_CardinalityType
<1>3. ASSUME NEW k \in D PROVE Cardinality({j \in D : j <= k}) \in 1 .. Cardinality(D)
  <2> DEFINE E == {j \in D : j <= k}
  <2>1. E \subseteq D /\ k \in E
    OBVIOUS
  <2> HIDE DEF E
  <2>2. IsFiniteSet(E) /\ Cardinality(E) <= Cardinality(D)
    BY <1>2, <2>1, FS_Subset
  <2>3. Cardinality(E) \in Nat /\ Cardinality(E) # 0
    BY <2>1, <2>2, FS_CardinalityType, FS_EmptySet
  <2> QED
    BY <1>2, <2>2, <2>3 DEF E
<1> QED
  BY <1>2, <1>3

\* w is v with the value e at the position n + 1, which comes after all of v's.
Longer(w, v, n, e) ==
    /\ DOMAIN v \subseteq 1 .. n
    /\ DOMAIN w = DOMAIN v \union {n + 1}
    /\ w[n + 1] = e
    /\ \A k \in DOMAIN v : w[k] = v[k]

\* What is appended for a new position is in its place.
LEMMA InOrderAppended ==
    ASSUME NEW S, NEW s \in Seq(S), NEW e \in S, NEW n \in Nat,
           NEW v, InOrder(s, v), NEW w, Longer(w, v, n, e)
    PROVE  InOrder(Append(s, e), w)
<1>0. /\ DOMAIN v \subseteq 1 .. n /\ DOMAIN w = DOMAIN v \union {n + 1}
      /\ w[n + 1] = e /\ \A k \in DOMAIN v : w[k] = v[k]
  BY DEF Longer
<1> DEFINE D == DOMAIN v
           t == Append(s, e)
           rank(k) == Cardinality({j \in DOMAIN w : j <= k})
<1>1. IsFiniteSet(D) /\ Cardinality(D) = Len(s) /\ Len(s) \in Nat /\ D \subseteq 1 .. n
  BY <1>0, Ranks DEF InOrder
<1>2. Cardinality(DOMAIN w) = Len(s) + 1
  <2>1. n + 1 \notin D
    BY <1>1
  <2> QED
    BY <1>0, <1>1, <2>1, FS_AddElement
<1>3. Len(t) = Len(s) + 1 /\ t[Len(s) + 1] = e /\ \A k \in 1 .. Len(s) : t[k] = s[k]
  OBVIOUS
<1>4. ASSUME NEW k \in D PROVE t[rank(k)] = w[k]
  <2>1. {j \in DOMAIN w : j <= k} = {j \in D : j <= k}
    BY <1>0, <1>1
  <2>2. rank(k) \in 1 .. Len(s) /\ s[rank(k)] = v[k]
    BY <1>1, <1>4, <2>1, Ranks DEF InOrder
  <2> HIDE DEF rank, t
  <2> QED
    BY <1>0, <1>3, <1>4, <2>2
<1>5. t[rank(n + 1)] = w[n + 1]
  <2>1. {j \in DOMAIN w : j <= n + 1} = DOMAIN w
    BY <1>0, <1>1
  <2>2. rank(n + 1) = Len(s) + 1
    BY <1>2, <2>1
  <2> HIDE DEF rank, t
  <2> QED
    BY <1>0, <1>3, <2>2
<1> HIDE DEF t
<1>6. \A k \in DOMAIN w : t[rank(k)] = w[k]
  BY <1>0, <1>4, <1>5
<1> QED
  BY <1>2, <1>3, <1>6 DEF InOrder, t

\* No positions, no list.
LEMMA InOrderNone ==
    ASSUME NEW v, DOMAIN v = {}
    PROVE  InOrder(<<>>, v)
  BY FS_EmptySet DEF InOrder

About(ev, kinds, i) == ev.kind \in kinds /\ ev.toolCall # Nil /\ ev.toolCall.index = i

\* The positions before an event and after it.
LEMMA Positions ==
    ASSUME seen \in Seq(Event)
    PROVE  /\ Len(seen) \in Nat /\ DOMAIN seen = 1 .. Len(seen)
           /\ \A kinds : OfKind(kinds) \subseteq 1 .. Len(seen)
           /\ \A kinds, i : EventsOf(kinds, i) \subseteq 1 .. Len(seen)
           /\ \A kinds, i, f : Filling(EventsOf(kinds, i), f) \subseteq 1 .. Len(seen)
  BY DEF OfKind, EventsOf, Filling

LEMMA Later ==
    ASSUME seen \in Seq(Event), NEW ev \in Event, seen' = Append(seen, ev)
    PROVE  /\ DOMAIN seen' = DOMAIN seen \union {Len(seen) + 1}
           /\ seen'[Len(seen) + 1] = ev /\ \A k \in DOMAIN seen : seen'[k] = seen[k]
           /\ \A kinds : OfKind(kinds)' =
                OfKind(kinds) \union IF ev.kind \in kinds THEN {Len(seen) + 1} ELSE {}
           /\ \A kinds, i : EventsOf(kinds, i)' =
                EventsOf(kinds, i) \union IF About(ev, kinds, i) THEN {Len(seen) + 1} ELSE {}
           /\ \A kinds, i, f : Filling(EventsOf(kinds, i), f)' =
                Filling(EventsOf(kinds, i), f)
                  \union IF About(ev, kinds, i) /\ ev.toolCall[f] # Empty THEN {Len(seen) + 1}
                                                                         ELSE {}
<1>1. /\ DOMAIN seen' = DOMAIN seen \union {Len(seen) + 1} /\ Len(seen) + 1 \notin DOMAIN seen
      /\ seen'[Len(seen) + 1] = ev /\ \A k \in DOMAIN seen : seen'[k] = seen[k]
  OBVIOUS
<1>2. ASSUME NEW kinds
      PROVE  OfKind(kinds)' =
               OfKind(kinds) \union IF ev.kind \in kinds THEN {Len(seen) + 1} ELSE {}
  BY <1>1 DEF OfKind
<1>3. ASSUME NEW kinds, NEW i
      PROVE  EventsOf(kinds, i)' =
               EventsOf(kinds, i) \union IF About(ev, kinds, i) THEN {Len(seen) + 1} ELSE {}
  <2>1. OfKind(kinds) \subseteq DOMAIN seen
    BY DEF OfKind
  <2> QED
    BY <1>1, <1>2, <2>1 DEF EventsOf, About
<1>4. ASSUME NEW kinds, NEW i, NEW f
      PROVE  Filling(EventsOf(kinds, i), f)' =
               Filling(EventsOf(kinds, i), f)
                 \union IF About(ev, kinds, i) /\ ev.toolCall[f] # Empty THEN {Len(seen) + 1}
                                                                        ELSE {}
  <2>1. EventsOf(kinds, i) \subseteq DOMAIN seen
    BY DEF EventsOf, OfKind
  <2> QED
    BY <1>1, <1>3, <2>1 DEF Filling
<1> QED
  BY <1>1, <1>2, <1>3, <1>4

Merging == {"ToolCallStart", "ToolCallArgsDelta"}
Pieces(i) == [k \in Filling(Merged(i), "args") |-> seen[k].toolCall.args]

\* An event that is not about an index changes nothing of what its events say.
LEMMA Untouched ==
    ASSUME seen \in Seq(Event), NEW ev \in Event, seen' = Append(seen, ev), NEW i,
           ~About(ev, Merging, i)
    PROVE  /\ Merged(i)' = Merged(i)
           /\ \A f : Identity(i, f)' = Identity(i, f)
           /\ Pieces(i)' = Pieces(i)
<1>1. \A K \in SUBSET Merging : ~About(ev, K, i)
  BY DEF About
<1>2. {"ToolCallStart"} \in SUBSET Merging /\ {"ToolCallArgsDelta"} \in SUBSET Merging
  BY DEF Merging
<1>3. /\ \A K \in SUBSET Merging : EventsOf(K, i)' = EventsOf(K, i)
      /\ \A K \in SUBSET Merging : \A f :
           Filling(EventsOf(K, i), f)' = Filling(EventsOf(K, i), f)
  <2>1. ASSUME NEW K \in SUBSET Merging PROVE EventsOf(K, i)' = EventsOf(K, i)
    <3>1. EventsOf(K, i)' =
            EventsOf(K, i) \union IF About(ev, K, i) THEN {Len(seen) + 1} ELSE {}
      BY Later
    <3> QED
      BY <1>1, <3>1
  <2>2. ASSUME NEW K \in SUBSET Merging, NEW f
        PROVE Filling(EventsOf(K, i), f)' = Filling(EventsOf(K, i), f)
    <3>1. Filling(EventsOf(K, i), f)' =
            Filling(EventsOf(K, i), f)
              \union IF About(ev, K, i) /\ ev.toolCall[f] # Empty THEN {Len(seen) + 1} ELSE {}
      BY Later
    <3> QED
      BY <1>1, <3>1
  <2> QED
    BY <2>1, <2>2
<1>4. Merged(i)' = Merged(i) /\ \A f : Filling(Merged(i), f)' = Filling(Merged(i), f)
  BY <1>3 DEF Merged, Merging
<1>5. \A k \in DOMAIN seen : seen'[k] = seen[k]
  BY Later
<1>6. Pieces(i)' = Pieces(i)
  <2>1. Filling(Merged(i), "args") \subseteq DOMAIN seen
    BY Positions DEF Merged
  <2> QED
    BY <1>4, <1>5, <2>1 DEF Pieces
<1>7. ASSUME NEW f PROVE Identity(i, f)' = Identity(i, f)
  <2> DEFINE starts == Filling(EventsOf({"ToolCallStart"}, i), f)
             deltas == Filling(EventsOf({"ToolCallArgsDelta"}, i), f)
  <2>1. starts' = starts /\ deltas' = deltas
    BY <1>2, <1>3
  <2>2. starts # {} => Max(starts) \in DOMAIN seen
    <3>1. starts \subseteq 1 .. Len(seen) /\ Len(seen) \in Nat /\ DOMAIN seen = 1 .. Len(seen)
      BY Positions
    <3> HIDE DEF starts
    <3> QED
      BY <3>1, HasMax
  <2>3. deltas # {} => Min(deltas) \in DOMAIN seen
    <3>1. deltas \subseteq Nat /\ deltas \subseteq DOMAIN seen
      BY Positions
    <3> HIDE DEF deltas
    <3> QED
      BY <3>1, HasMin
  <2>4. Identity(i, f) = IF starts # {} THEN seen[Max(starts)].toolCall[f]
                         ELSE IF deltas # {} THEN seen[Min(deltas)].toolCall[f] ELSE Empty
    BY DEF Identity
  <2>5. Identity(i, f)' = IF starts' # {} THEN seen'[Max(starts')].toolCall[f]
                          ELSE IF deltas' # {} THEN seen'[Min(deltas')].toolCall[f] ELSE Empty
    BY DEF Identity, Max, Min
  <2> HIDE DEF starts, deltas
  <2> QED
    BY <1>5, <2>1, <2>2, <2>3, <2>4, <2>5
<1> QED
  BY <1>4, <1>6, <1>7

\* One that is: a Start overrides the identity so far, a chunk gives way to it.
LEMMA IdentityAfter ==
    ASSUME seen \in Seq(Event), NEW ev \in Event, seen' = Append(seen, ev), NEW i,
           About(ev, Merging, i), NEW f
    PROVE  /\ ev.kind = "ToolCallStart" =>
                Identity(i, f)' = Or(ev.toolCall[f], Identity(i, f))
           /\ ev.kind = "ToolCallArgsDelta" =>
                Identity(i, f)' = Or(Identity(i, f), ev.toolCall[f])
<1> DEFINE starts == Filling(EventsOf({"ToolCallStart"}, i), f)
           deltas == Filling(EventsOf({"ToolCallArgsDelta"}, i), f)
           n == Len(seen) + 1
           x == ev.toolCall[f]
<1>1. /\ Len(seen) \in Nat /\ DOMAIN seen = 1 .. Len(seen)
      /\ starts \subseteq 1 .. Len(seen) /\ deltas \subseteq 1 .. Len(seen)
      /\ deltas \subseteq Nat
  BY Positions
<1>2. seen'[n] = ev /\ \A k \in DOMAIN seen : seen'[k] = seen[k]
  BY Later
<1>3. /\ starts' = starts \union IF ev.kind = "ToolCallStart" /\ x # Empty THEN {n} ELSE {}
      /\ deltas' = deltas \union IF ev.kind = "ToolCallArgsDelta" /\ x # Empty THEN {n} ELSE {}
  BY Later DEF About
<1>4. \A k \in starts \union deltas : seen[k].toolCall[f] # Empty
  BY DEF Filling
<1>5. Identity(i, f) = IF starts # {} THEN seen[Max(starts)].toolCall[f]
                       ELSE IF deltas # {} THEN seen[Min(deltas)].toolCall[f] ELSE Empty
  BY DEF Identity
<1>6. Identity(i, f)' = IF starts' # {} THEN seen'[Max(starts')].toolCall[f]
                        ELSE IF deltas' # {} THEN seen'[Min(deltas')].toolCall[f] ELSE Empty
  BY DEF Identity, Max, Min
<1> DEFINE A == starts'
           B == deltas'
<1>7. /\ A = starts \union IF ev.kind = "ToolCallStart" /\ x # Empty THEN {n} ELSE {}
      /\ B = deltas \union IF ev.kind = "ToolCallArgsDelta" /\ x # Empty THEN {n} ELSE {}
  BY <1>3
<1>8. Identity(i, f)' = IF A # {} THEN seen'[Max(A)].toolCall[f]
                        ELSE IF B # {} THEN seen'[Min(B)].toolCall[f] ELSE Empty
  BY <1>6
<1> HIDE DEF starts, deltas, A, B, x
<1>9. starts # {} => Max(starts) \in starts
  BY <1>1, HasMax
<1>10. deltas # {} => Min(deltas) \in deltas
  BY <1>1, HasMin
<1>11. /\ Max(starts \union {n}) = n
       /\ Min(deltas \union {n}) = IF deltas = {} THEN n ELSE Min(deltas)
  BY <1>1, NewPosition
<1> HIDE DEF n
<1>12. starts # {} => seen'[Max(starts)] = seen[Max(starts)] /\ seen[Max(starts)].toolCall[f] # Empty
  BY <1>1, <1>2, <1>4, <1>9
<1>13. deltas # {} => seen'[Min(deltas)] = seen[Min(deltas)] /\ seen[Min(deltas)].toolCall[f] # Empty
  BY <1>1, <1>2, <1>4, <1>10
<1>14. CASE ev.kind = "ToolCallStart"
  <2>1. CASE x # Empty
    <3>1. A = starts \union {n} /\ A # {}
      BY <1>7, <1>14, <2>1
    <3>2. Identity(i, f)' = ev.toolCall[f]
      BY <1>2, <1>8, <1>11, <3>1
    <3> QED
      BY <1>14, <2>1, <3>2 DEF Or, x
  <2>2. CASE x = Empty
    <3>1. A = starts /\ B = deltas
      BY <1>7, <1>14, <2>2
    <3>2. Identity(i, f)' = IF starts # {} THEN seen'[Max(starts)].toolCall[f]
                            ELSE IF deltas # {} THEN seen'[Min(deltas)].toolCall[f] ELSE Empty
      BY <1>8, <3>1
    <3>3. Identity(i, f)' = Identity(i, f)
      <4>1. CASE starts # {}
        BY <1>5, <1>12, <3>2, <4>1
      <4>2. CASE starts = {}
        BY <1>5, <1>13, <3>2, <4>2
      <4> QED
        BY <4>1, <4>2
    <3> QED
      BY <1>14, <2>2, <3>3 DEF Or, x
  <2> QED
    BY <2>1, <2>2
<1>15. CASE ev.kind = "ToolCallArgsDelta"
  <2>1. A = starts
    BY <1>7, <1>15
  <2>2. CASE starts # {} \/ deltas # {}
    <3>1. Identity(i, f) # Empty
      BY <1>5, <1>12, <1>13, <2>2
    <3>2. deltas # {} => B # {} /\ Min(B) = Min(deltas)
      BY <1>7, <1>11
    <3>3. Identity(i, f)' = Identity(i, f)
      BY <1>5, <1>8, <1>12, <1>13, <2>1, <2>2, <3>2
    <3> QED
      BY <1>15, <3>1, <3>3 DEF Or
  <2>3. CASE starts = {} /\ deltas = {}
    <3>1. Identity(i, f) = Empty
      BY <1>5, <2>3
    <3>2. CASE x # Empty
      <4>1. B = deltas \union {n} /\ B # {} /\ Min(B) = n
        BY <1>7, <1>11, <1>15, <2>3, <3>2
      <4>2. Identity(i, f)' = ev.toolCall[f]
        BY <1>2, <1>8, <2>1, <2>3, <4>1
      <4> QED
        BY <1>15, <3>1, <4>2 DEF Or
    <3>3. CASE x = Empty
      <4>1. B = {}
        BY <1>7, <2>3, <3>3
      <4>2. Identity(i, f)' = Empty
        BY <1>8, <2>1, <2>3, <4>1
      <4> QED
        BY <1>15, <3>1, <3>3, <4>2 DEF Or, x
    <3> QED
      BY <3>2, <3>3
  <2> QED
    BY <2>2, <2>3
<1> QED
  BY <1>14, <1>15

\* And its piece of arguments comes last.
LEMMA PiecesAfter ==
    ASSUME seen \in Seq(Event), NEW ev \in Event, seen' = Append(seen, ev), NEW i,
           About(ev, Merging, i), ev.toolCall.args \in Chunk \union {Empty},
           NEW s \in Seq(Chunk), InOrder(s, Pieces(i))
    PROVE  InOrder(s \o Piece(ev.toolCall.args), Pieces(i)')
<1> DEFINE D == Filling(Merged(i), "args")
           n == Len(seen) + 1
           a == ev.toolCall.args
           v == Pieces(i)
           w == Pieces(i)'
<1>1. /\ Len(seen) \in Nat /\ D \subseteq 1 .. Len(seen) /\ DOMAIN seen = 1 .. Len(seen)
  BY Positions DEF Merged
<1>2. seen'[n] = ev /\ \A k \in DOMAIN seen : seen'[k] = seen[k]
  BY Later
<1>3. D' = D \union IF a # Empty THEN {n} ELSE {}
  BY Later DEF Merged, Merging
<1>4. /\ v = [k \in D |-> seen[k].toolCall.args]
      /\ w = [k \in D' |-> seen'[k].toolCall.args]
  BY DEF Pieces
<1> HIDE DEF D, v, w, n
<1>5. CASE a = Empty
  <2>1. D' = D
    BY <1>3, <1>5
  <2>2. w = v
    BY <1>1, <1>2, <1>4, <2>1
  <2>3. s \o Piece(a) = s
    BY <1>5 DEF Piece
  <2> QED
    BY <2>2, <2>3 DEF v, w
<1>6. CASE a # Empty
  <2>1. D' = D \union {n}
    BY <1>3, <1>6
  <2>2. /\ DOMAIN v = D /\ DOMAIN w = DOMAIN v \union {n} /\ w[n] = a
        /\ \A k \in DOMAIN v : w[k] = v[k]
    BY <1>1, <1>2, <1>4, <2>1
  <2>3. a \in Chunk
    BY <1>6
  <2>4. InOrder(s, v)
    BY DEF v
  <2> HIDE DEF a
  <2>6. InOrder(Append(s, a), w)
    <3>1. Longer(w, v, Len(seen), a)
      BY <1>1, <2>2 DEF n, Longer
    <3> QED
      BY <1>1, <2>3, <2>4, <3>1, InOrderAppended
  <2>7. s \o Piece(a) = Append(s, a)
    BY <1>6, <2>3 DEF Piece
  <2> QED
    BY <2>6, <2>7 DEF w, a
<1> QED
  BY <1>5, <1>6

\* What the loop has so far is what the events say, and what it returned is that.
Ended ==
    pc # "loop" =>
      /\ result.resp = out /\ last \in Error
      /\ last.cause = "io.EOF" =>
           /\ result.err = Nil
           /\ result.toolCalls = [k \in 1 .. Len(order) |-> byIndex[order[k]]]
      /\ last.cause = "other" => result.err = last /\ result.toolCalls = <<>>
CallsInv == JoinedByIndex /\ OrderedByFirstEvent
EventInv == TypeOK /\ seen \in Seq(Event) /\ CallsInv /\ Summary(out) /\ Ended

\* An entry says what the events of its index say, a blank one that there are none.
LEMMA EntryIs ==
    ASSUME JoinedByIndex, NEW i \in Index
    PROVE  /\ Ensured(i).id = Identity(i, "id") /\ Ensured(i).name = Identity(i, "name")
           /\ InOrder(Ensured(i).args, Pieces(i))
<1>1. CASE i \in SeenIndexes
  <2>1. i \in DOMAIN byIndex /\ Ensured(i) = byIndex[i]
    BY <1>1 DEF JoinedByIndex, Ensured
  <2> QED
    BY <1>1, <2>1 DEF JoinedByIndex, Pieces
<1>2. CASE i \notin SeenIndexes
  <2>1. i \notin DOMAIN byIndex /\ Ensured(i) = NewCall /\ Merged(i) = {}
    BY <1>2 DEF JoinedByIndex, Ensured, SeenIndexes
  <2>2. EventsOf({"ToolCallStart"}, i) = {} /\ EventsOf({"ToolCallArgsDelta"}, i) = {}
    BY <2>1 DEF Merged, EventsOf, OfKind
  <2>3. \A f : Identity(i, f) = Empty
    BY <2>2 DEF Identity, Filling
  <2>4. DOMAIN Pieces(i) = {}
    BY <2>1 DEF Pieces, Filling
  <2> QED
    BY <2>1, <2>3, <2>4, InOrderNone DEF NewCall
<1> QED
  BY <1>1, <1>2

\* An event that is about no call.
LEMMA Unmoved ==
    ASSUME seen \in Seq(Event), CallsInv, NEW ev \in Event, seen' = Append(seen, ev),
           ev.kind \notin Merging \/ ev.toolCall = Nil, UNCHANGED <<byIndex, order>>
    PROVE  CallsInv'
<1>1. \A i : /\ Merged(i)' = Merged(i) /\ Pieces(i)' = Pieces(i)
             /\ \A f : Identity(i, f)' = Identity(i, f)
  BY Untouched DEF About
<1>2. SeenIndexes' = SeenIndexes
  BY <1>1 DEF SeenIndexes
<1>3. JoinedByIndex'
  <2>1. /\ DOMAIN byIndex = SeenIndexes
        /\ \A i \in SeenIndexes :
             /\ byIndex[i].id = Identity(i, "id") /\ byIndex[i].name = Identity(i, "name")
             /\ InOrder(byIndex[i].args, Pieces(i))
    BY DEF CallsInv, JoinedByIndex, Pieces
  <2>2. /\ DOMAIN byIndex' = SeenIndexes'
        /\ \A i \in SeenIndexes' :
             /\ byIndex'[i].id = Identity(i, "id")' /\ byIndex'[i].name = Identity(i, "name")'
             /\ InOrder(byIndex'[i].args, Pieces(i)')
    BY <1>1, <1>2, <2>1
  <2> QED
    BY <2>2 DEF JoinedByIndex, Pieces, InOrder
<1>4. OrderedByFirstEvent'
  <2>1. ToSet(order') = SeenIndexes'
    BY <1>2 DEF CallsInv, OrderedByFirstEvent
  <2>2. \A j : Min(Merged(j))' = Min(Merged(j))
    BY <1>1 DEF Min
  <2>3. \A j, k \in 1 .. Len(order') : j < k =>
          Min(Merged(order[j]))' < Min(Merged(order[k]))'
    BY <2>2 DEF CallsInv, OrderedByFirstEvent
  <2> QED
    BY <2>1, <2>3 DEF OrderedByFirstEvent, ToSet
<1> QED
  BY <1>3, <1>4 DEF CallsInv

\* An event that is.
LEMMA Moved ==
    ASSUME seen \in Seq(Event), order \in Seq(Index), CallsInv, NEW ev \in Event,
           seen' = Append(seen, ev), NEW i \in Index, About(ev, Merging, i),
           NEW tc, Ensure(i, tc), tc.id = Identity(i, "id")', tc.name = Identity(i, "name")',
           InOrder(tc.args, Pieces(i)')
    PROVE  CallsInv'
<1>1. /\ byIndex' = [j \in DOMAIN byIndex \union {i} |-> IF j = i THEN tc ELSE byIndex[j]]
      /\ order' = IF i \in DOMAIN byIndex THEN order ELSE Append(order, i)
  BY DEF Ensure
<1>2. /\ DOMAIN byIndex = SeenIndexes
      /\ \A j \in SeenIndexes :
           /\ byIndex[j].id = Identity(j, "id") /\ byIndex[j].name = Identity(j, "name")
           /\ InOrder(byIndex[j].args, Pieces(j))
  BY DEF CallsInv, JoinedByIndex, Pieces
<1>3. \A j : j # i => /\ Merged(j)' = Merged(j) /\ Pieces(j)' = Pieces(j)
                      /\ \A f : Identity(j, f)' = Identity(j, f)
  BY Untouched DEF About
<1>4. Merged(i)' = Merged(i) \union {Len(seen) + 1}
  BY Later DEF Merged, Merging
<1>5. SeenIndexes' = SeenIndexes \union {i}
  BY <1>3, <1>4 DEF SeenIndexes
<1>6. JoinedByIndex'
  <2>1. ASSUME NEW j \in SeenIndexes'
        PROVE  /\ byIndex'[j].id = Identity(j, "id")' /\ byIndex'[j].name = Identity(j, "name")'
               /\ InOrder(byIndex'[j].args, Pieces(j)')
    <3>1. CASE j = i
      BY <1>1, <3>1
    <3>2. CASE j # i
      <4>1. j \in SeenIndexes /\ byIndex'[j] = byIndex[j]
        BY <1>1, <1>2, <1>5, <2>1, <3>2
      <4>2. Pieces(j)' = Pieces(j) /\ \A f : Identity(j, f)' = Identity(j, f)
        BY <1>3, <3>2
      <4> QED
        BY <1>2, <4>1, <4>2
    <3> QED
      BY <3>1, <3>2
  <2>2. DOMAIN byIndex' = SeenIndexes'
    BY <1>1, <1>2, <1>5
  <2> QED
    BY <2>1, <2>2 DEF JoinedByIndex, Pieces, InOrder
<1>7. OrderedByFirstEvent'
  <2> DEFINE least(j) == Min(Merged(j))
             later == [j \in Index |-> Min(Merged(j)')]
  <2>1. Len(seen) \in Nat /\ \A j : Merged(j) \subseteq 1 .. Len(seen) /\ Merged(j) \subseteq Nat
    BY Positions DEF Merged
  <2>2. ASSUME NEW j \in SeenIndexes PROVE later[j] = least(j) /\ least(j) \in 1 .. Len(seen)
    <3>0. j \in Index
      BY DEF SeenIndexes
    <3>1. Merged(j) # {}
      BY DEF SeenIndexes
    <3>2. least(j) \in 1 .. Len(seen)
      BY <2>1, <3>1, HasMin
    <3>3. CASE j = i
      <4>1. Min(Merged(i) \union {Len(seen) + 1}) = Min(Merged(i))
        BY <2>1, <3>1, <3>3, NewPosition
      <4> QED
        BY <1>4, <3>0, <3>2, <3>3, <4>1
    <3>4. CASE j # i
      BY <1>3, <3>0, <3>2, <3>4
    <3> QED
      BY <3>3, <3>4
  <2>3. /\ \A k \in 1 .. Len(order) : order[k] \in SeenIndexes
        /\ \A j \in SeenIndexes : \E k \in 1 .. Len(order) : order[k] = j
        /\ \A j, k \in 1 .. Len(order) : j < k => least(order[j]) < least(order[k])
        /\ Len(order) \in Nat /\ DOMAIN order = 1 .. Len(order)
    BY DEF CallsInv, OrderedByFirstEvent, ToSet
  <2>4. \A j \in Index : later[j] = Min(Merged(j))'
    BY DEF Min
  <2> HIDE DEF least, later
  <2> DEFINE Rising == \A j, k \in 1 .. Len(order') : j < k => later[order'[j]] < later[order'[k]]
             Complete == /\ \A k \in 1 .. Len(order') : order'[k] \in SeenIndexes'
                         /\ \A j \in SeenIndexes' : \E k \in 1 .. Len(order') : order'[k] = j
                         /\ DOMAIN order' = 1 .. Len(order')
  <2>5. ASSUME Rising, Complete PROVE OrderedByFirstEvent'
    <3>1. ToSet(order') = SeenIndexes'
      BY <2>5 DEF ToSet
    <3>2. \A k \in 1 .. Len(order') : order'[k] \in Index
      BY <2>5 DEF SeenIndexes
    <3>3. \A j, k \in 1 .. Len(order') : j < k =>
            Min(Merged(order[j]))' < Min(Merged(order[k]))'
      BY <2>4, <2>5, <3>2
    <3> QED
      BY <3>1, <3>3 DEF OrderedByFirstEvent, ToSet
  <2>6. CASE i \in SeenIndexes
    <3>1. order' = order /\ SeenIndexes' = SeenIndexes
      BY <1>1, <1>2, <1>5, <2>6
    <3>2. Rising
      BY <2>2, <2>3, <3>1
    <3>3. Complete
      BY <2>3, <3>1
    <3> HIDE DEF Rising, Complete
    <3> QED
      BY <2>5, <3>2, <3>3
  <2>7. CASE i \notin SeenIndexes
    <3>1. later[i] = Len(seen) + 1
      <4>1. Merged(i) = {}
        BY <2>7 DEF SeenIndexes
      <4>2. Min(Merged(i) \union {Len(seen) + 1}) = Len(seen) + 1
        BY <2>1, <4>1, NewPosition
      <4> QED
        BY <1>4, <4>2 DEF later
    <3>2. order' = Append(order, i) /\ SeenIndexes' = SeenIndexes \union {i}
      BY <1>1, <1>2, <1>5, <2>7
    <3>3. /\ Len(order') = Len(order) + 1 /\ order'[Len(order) + 1] = i
          /\ \A k \in 1 .. Len(order) : order'[k] = order[k]
          /\ DOMAIN order' = 1 .. Len(order) + 1
      BY <3>2
    <3>4. ASSUME NEW j \in 1 .. Len(order'), NEW k \in 1 .. Len(order'), j < k
          PROVE later[order'[j]] < later[order'[k]]
      <4>1. j \in 1 .. Len(order) /\ order'[j] = order[j] /\ order[j] \in SeenIndexes
        BY <2>3, <3>3, <3>4
      <4>2. CASE k \in 1 .. Len(order)
        <5>1. order'[k] = order[k] /\ order[k] \in SeenIndexes
          BY <2>3, <3>3, <4>2
        <5>2. least(order[j]) < least(order[k])
          BY <2>3, <3>4, <4>1, <4>2
        <5> QED
          BY <2>2, <4>1, <5>1, <5>2
      <4>3. CASE k = Len(order) + 1
        <5>1. order'[k] = i
          BY <3>3, <4>3
        <5>2. later[order[j]] \in 1 .. Len(seen)
          BY <2>2, <4>1
        <5> QED
          BY <2>1, <3>1, <4>1, <5>1, <5>2
      <4> QED
        BY <2>3, <3>3, <4>2, <4>3
    <3>5. \A k \in 1 .. Len(order') : order'[k] \in SeenIndexes'
      BY <2>3, <3>2, <3>3
    <3>6. ASSUME NEW j \in SeenIndexes' PROVE \E k \in 1 .. Len(order') : order'[k] = j
      <4>1. CASE j = i
        <5>1. Len(order) + 1 \in 1 .. Len(order') /\ order'[Len(order) + 1] = j
          BY <2>3, <3>3, <4>1
        <5> QED
          BY <5>1
      <4>2. CASE j # i
        <5>1. PICK k \in 1 .. Len(order) : order[k] = j
          BY <2>3, <3>2, <4>2
        <5>2. k \in 1 .. Len(order') /\ order'[k] = j
          BY <2>3, <3>3, <5>1
        <5> QED
          BY <5>2
      <4> QED
        BY <4>1, <4>2
    <3>7. Rising /\ Complete
      BY <3>3, <3>4, <3>5, <3>6
    <3> HIDE DEF Rising, Complete
    <3> QED
      BY <2>5, <3>7
  <2> QED
    BY <2>6, <2>7
<1> QED
  BY <1>6, <1>7 DEF CallsInv

\* Both kinds of tool call events join their index.
LEMMA CallEvent ==
    ASSUME TypeOK, seen \in Seq(Event), CallsInv, NEW ev \in Event, seen' = Append(seen, ev),
           OnToolCallStart(ev) \/ OnToolCallArgsDelta(ev)
    PROVE  CallsInv'
<1> DEFINE d == ev.toolCall
           i == d.index
           tc == Ensured(i)
<1>1. ev.kind \in Merging /\ ev.toolCall \in Delta /\ ev.toolCall # Nil
  BY DEF OnToolCallStart, OnToolCallArgsDelta, Event, Merging
<1>2. /\ i \in Index /\ d.args \in Chunk \union {Empty} /\ About(ev, Merging, i)
      /\ order \in Seq(Index)
  BY <1>1 DEF Delta, About, TypeOK
<1>3. /\ tc.id = Identity(i, "id") /\ tc.name = Identity(i, "name")
      /\ InOrder(tc.args, Pieces(i)) /\ tc.args \in Seq(Chunk)
  BY <1>2, EntryIs, EntryTyped DEF CallsInv
<1> HIDE DEF tc, i
<1>4. InOrder(tc.args \o Piece(d.args), Pieces(i)')
  BY <1>2, <1>3, PiecesAfter
<1>5. CASE OnToolCallStart(ev)
  <2>1. ev.kind = "ToolCallStart" /\ Ensure(i, Started(tc, d))
    BY <1>5 DEF OnToolCallStart, tc, i
  <2>2. /\ Identity(i, "id")' = Or(d.id, Identity(i, "id"))
        /\ Identity(i, "name")' = Or(d.name, Identity(i, "name"))
    BY <1>2, <2>1, IdentityAfter
  <2>3. /\ Started(tc, d).id = Or(d.id, tc.id) /\ Started(tc, d).name = Or(d.name, tc.name)
        /\ Started(tc, d).args = tc.args \o Piece(d.args)
    BY DEF Started
  <2> QED
    BY <1>2, <1>3, <1>4, <2>1, <2>2, <2>3, Moved
<1>6. CASE OnToolCallArgsDelta(ev)
  <2>1. ev.kind = "ToolCallArgsDelta" /\ Ensure(i, Extended(tc, d))
    BY <1>6 DEF OnToolCallArgsDelta, tc, i
  <2>2. /\ Identity(i, "id")' = Or(Identity(i, "id"), d.id)
        /\ Identity(i, "name")' = Or(Identity(i, "name"), d.name)
    BY <1>2, <2>1, IdentityAfter
  <2>3. /\ Extended(tc, d).id = Or(tc.id, d.id) /\ Extended(tc, d).name = Or(tc.name, d.name)
        /\ Extended(tc, d).args = tc.args \o Piece(d.args)
    BY DEF Extended
  <2> QED
    BY <1>2, <1>3, <1>4, <2>1, <2>2, <2>3, Moved
<1> QED
  BY <1>5, <1>6

\* The parts of a Summary: the positions of texts, of Dones and of usage reports.
Texts == [k \in OfKind({"TextDelta"}) |-> seen[k].text]
Dones == OfKind({"Done"})
Reports == {k \in Dones : seen[k].usage # Nil}

LEMMA SummaryIs ==
    ASSUME NEW resp
    PROVE  Summary(resp) <=>
             /\ InOrder(resp.text, Texts)
             /\ resp.usage = IF Reports = {} THEN Nil ELSE seen[Max(Reports)].usage
             /\ resp.finish = IF Dones = {} THEN Empty ELSE seen[Max(Dones)].finish
  BY DEF Summary, Texts, Dones, Reports

\* The positions after an event.
LEMMA SummaryPositions ==
    ASSUME seen \in Seq(Event), NEW ev \in Event, seen' = Append(seen, ev)
    PROVE  /\ Len(seen) \in Nat /\ DOMAIN seen = 1 .. Len(seen)
           /\ Dones \subseteq 1 .. Len(seen) /\ Reports \subseteq 1 .. Len(seen)
           /\ seen'[Len(seen) + 1] = ev /\ \A k \in DOMAIN seen : seen'[k] = seen[k]
           /\ Dones' = Dones \union IF ev.kind = "Done" THEN {Len(seen) + 1} ELSE {}
           /\ Reports' = Reports \union IF ev.kind = "Done" /\ ev.usage # Nil
                                          THEN {Len(seen) + 1} ELSE {}
           /\ ev.kind # "TextDelta" => Texts' = Texts
           /\ ev.kind = "TextDelta" => Longer(Texts', Texts, Len(seen), ev.text)
<1>1. /\ Len(seen) \in Nat /\ DOMAIN seen = 1 .. Len(seen)
      /\ Dones \subseteq 1 .. Len(seen) /\ Reports \subseteq 1 .. Len(seen)
      /\ OfKind({"TextDelta"}) \subseteq 1 .. Len(seen)
  BY Positions DEF Dones, Reports
<1>2. seen'[Len(seen) + 1] = ev /\ \A k \in DOMAIN seen : seen'[k] = seen[k]
  BY Later
<1>3. Dones' = Dones \union IF ev.kind = "Done" THEN {Len(seen) + 1} ELSE {}
  BY Later DEF Dones
<1>4. Reports' = Reports \union IF ev.kind = "Done" /\ ev.usage # Nil
                                  THEN {Len(seen) + 1} ELSE {}
  BY <1>1, <1>2, <1>3 DEF Reports
<1>5. OfKind({"TextDelta"})' =
        OfKind({"TextDelta"}) \union IF ev.kind = "TextDelta" THEN {Len(seen) + 1} ELSE {}
  BY Later
<1>6. ev.kind # "TextDelta" => Texts' = Texts
  BY <1>1, <1>2, <1>5 DEF Texts
<1>7. ev.kind = "TextDelta" => Longer(Texts', Texts, Len(seen), ev.text)
  BY <1>1, <1>2, <1>5 DEF Texts, Longer
<1> QED
  BY <1>1, <1>2, <1>3, <1>4, <1>6, <1>7

LEMMA SummaryStep ==
    ASSUME TypeOK, seen \in Seq(Event), Summary(out), NEW ev \in Event,
           seen' = Append(seen, ev), OnEvent(ev)
    PROVE  Summary(out)'
<1> DEFINE n == Len(seen) + 1
           D == Dones'
           R == Reports'
<1>1. /\ InOrder(out.text, Texts)
      /\ out.usage = IF Reports = {} THEN Nil ELSE seen[Max(Reports)].usage
      /\ out.finish = IF Dones = {} THEN Empty ELSE seen[Max(Dones)].finish
  BY SummaryIs
<1>2. /\ Len(seen) \in Nat /\ DOMAIN seen = 1 .. Len(seen)
      /\ Dones \subseteq 1 .. Len(seen) /\ Reports \subseteq 1 .. Len(seen)
      /\ seen'[n] = ev /\ \A k \in DOMAIN seen : seen'[k] = seen[k]
      /\ D = Dones \union IF ev.kind = "Done" THEN {n} ELSE {}
      /\ R = Reports \union IF ev.kind = "Done" /\ ev.usage # Nil THEN {n} ELSE {}
      /\ ev.kind # "TextDelta" => Texts' = Texts
      /\ ev.kind = "TextDelta" => Longer(Texts', Texts, Len(seen), ev.text)
  BY SummaryPositions
<1>3. Summary(out)' <=>
        /\ InOrder(out'.text, Texts')
        /\ out'.usage = IF R = {} THEN Nil ELSE seen'[Max(R)].usage
        /\ out'.finish = IF D = {} THEN Empty ELSE seen'[Max(D)].finish
  BY DEF Summary, Texts, Dones, Reports, InOrder, Max
<1>4. /\ Dones # {} => seen'[Max(Dones)] = seen[Max(Dones)]
      /\ Reports # {} => seen'[Max(Reports)] = seen[Max(Reports)]
  BY <1>2, HasMax
<1>5. Max(Dones \union {n}) = n /\ Max(Reports \union {n}) = n
  BY <1>2, NewPosition
<1> HIDE DEF n, D, R
<1>6. CASE OnTextDelta(ev)
  <2>1. /\ ev.kind = "TextDelta" /\ ev.text \in Chunk /\ out.text \in Seq(Chunk)
        /\ out' = [out EXCEPT !.text = Append(@, ev.text)]
    BY <1>6, Parts DEF OnTextDelta, Event
  <2>2. out'.text = Append(out.text, ev.text) /\ out'.usage = out.usage /\ out'.finish = out.finish
    BY <2>1, Parts
  <2>3. InOrder(out'.text, Texts')
    BY <1>1, <1>2, <2>1, <2>2, InOrderAppended
  <2>4. D = Dones /\ R = Reports
    BY <1>2, <2>1
  <2> QED
    BY <1>1, <1>3, <1>4, <2>2, <2>3, <2>4
<1>7. CASE OnDone(ev)
  <2>1. /\ ev.kind = "Done" /\ ev.kind # "TextDelta"
        /\ out' = [out EXCEPT !.usage = IF ev.usage # Nil THEN ev.usage ELSE @,
                              !.finish = ev.finish]
    BY <1>7 DEF OnDone
  <2>2. /\ out'.text = out.text /\ out'.finish = ev.finish
        /\ out'.usage = IF ev.usage # Nil THEN ev.usage ELSE out.usage
    BY <2>1, Parts
  <2>3. InOrder(out'.text, Texts')
    BY <1>1, <1>2, <2>1, <2>2
  <2>4. out'.finish = IF D = {} THEN Empty ELSE seen'[Max(D)].finish
    <3>1. D = Dones \union {n} /\ D # {}
      BY <1>2, <2>1
    <3> QED
      BY <1>2, <1>5, <2>2, <3>1
  <2>5. out'.usage = IF R = {} THEN Nil ELSE seen'[Max(R)].usage
    <3>1. CASE ev.usage # Nil
      <4>1. R = Reports \union {n} /\ R # {}
        BY <1>2, <2>1, <3>1
      <4> QED
        BY <1>2, <1>5, <2>2, <3>1, <4>1
    <3>2. CASE ev.usage = Nil
      <4>1. R = Reports
        BY <1>2, <3>2
      <4> QED
        BY <1>1, <1>4, <2>2, <3>2, <4>1
    <3> QED
      BY <3>1, <3>2
  <2> QED
    BY <1>3, <2>3, <2>4, <2>5
<1>8. CASE OnToolCallStart(ev) \/ OnToolCallArgsDelta(ev) \/ OnIgnored(ev)
  <2>1. ev.kind # "TextDelta" /\ ev.kind # "Done" /\ out' = out
    BY <1>8 DEF OnToolCallStart, OnToolCallArgsDelta, OnIgnored
  <2>2. D = Dones /\ R = Reports /\ Texts' = Texts
    BY <1>2, <2>1
  <2> QED
    BY <1>1, <1>3, <1>4, <2>1, <2>2
<1> QED
  BY <1>6, <1>7, <1>8 DEF OnEvent

\* Steps that receive no event.
LEMMA NoEvent ==
    ASSUME CallsInv, Summary(out), UNCHANGED <<seen, out, byIndex, order>>
    PROVE  CallsInv' /\ Summary(out)'
<1>0. /\ \A kinds : OfKind(kinds)' = OfKind(kinds)
      /\ \A kinds, i : EventsOf(kinds, i)' = EventsOf(kinds, i)
      /\ \A kinds, i, f : Filling(EventsOf(kinds, i), f)' = Filling(EventsOf(kinds, i), f)
  BY DEF OfKind, EventsOf, Filling
<1>1. JoinedByIndex'
  <2>1. \A i : Merged(i)' = Merged(i) /\ Pieces(i)' = Pieces(i)
    BY <1>0 DEF Merged, Pieces
  <2>2. \A i, f : Identity(i, f)' = Identity(i, f)
    <3> TAKE i, f
    <3> DEFINE starts == Filling(EventsOf({"ToolCallStart"}, i), f)
               deltas == Filling(EventsOf({"ToolCallArgsDelta"}, i), f)
    <3>1. starts' = starts /\ deltas' = deltas
      BY <1>0
    <3>2. Identity(i, f) = IF starts # {} THEN seen[Max(starts)].toolCall[f]
                           ELSE IF deltas # {} THEN seen[Min(deltas)].toolCall[f] ELSE Empty
      BY DEF Identity
    <3>3. Identity(i, f)' = IF starts' # {} THEN seen'[Max(starts')].toolCall[f]
                            ELSE IF deltas' # {} THEN seen'[Min(deltas')].toolCall[f] ELSE Empty
      BY DEF Identity, Max, Min
    <3> HIDE DEF starts, deltas
    <3> QED
      BY <3>1, <3>2, <3>3
  <2>3. SeenIndexes' = SeenIndexes
    BY <2>1 DEF SeenIndexes
  <2>4. /\ DOMAIN byIndex = SeenIndexes
        /\ \A i \in SeenIndexes :
             /\ byIndex[i].id = Identity(i, "id") /\ byIndex[i].name = Identity(i, "name")
             /\ InOrder(byIndex[i].args, Pieces(i))
    BY DEF CallsInv, JoinedByIndex, Pieces
  <2>5. /\ DOMAIN byIndex' = SeenIndexes'
        /\ \A i \in SeenIndexes' :
             /\ byIndex'[i].id = Identity(i, "id")' /\ byIndex'[i].name = Identity(i, "name")'
             /\ InOrder(byIndex'[i].args, Pieces(i)')
    BY <2>1, <2>2, <2>3, <2>4
  <2> QED
    BY <2>5 DEF JoinedByIndex, Pieces, InOrder
<1>2. OrderedByFirstEvent'
  BY DEF CallsInv, OrderedByFirstEvent, SeenIndexes, Merged, EventsOf, OfKind, ToSet, Min
<1>3. Summary(out)'
  <2>1. Texts' = Texts /\ Dones' = Dones /\ Reports' = Reports
    BY <1>0 DEF Texts, Dones, Reports
  <2>2. /\ InOrder(out.text, Texts)
        /\ out.usage = IF Reports = {} THEN Nil ELSE seen[Max(Reports)].usage
        /\ out.finish = IF Dones = {} THEN Empty ELSE seen[Max(Dones)].finish
    BY SummaryIs
  <2>3. Summary(out)' <=>
          /\ InOrder(out'.text, Texts')
          /\ out'.usage = IF Reports' = {} THEN Nil ELSE seen'[Max(Reports')].usage
          /\ out'.finish = IF Dones' = {} THEN Empty ELSE seen'[Max(Dones')].finish
    BY DEF Summary, Texts, Dones, Reports, InOrder, Max
  <2> QED
    BY <2>1, <2>2, <2>3
<1> QED
  BY <1>1, <1>2, <1>3 DEF CallsInv

LEMMA EventStep == EventInv /\ [NextAny]_AnyVars => EventInv'
<1> SUFFICES ASSUME EventInv, [NextAny]_AnyVars PROVE EventInv'
  OBVIOUS
<1>1. TypeOK' /\ seen' \in Seq(Event)
  BY AnyStep, SeenStep DEF EventInv
<1>2. ASSUME NEW ev \in Events, Give(ev) PROVE CallsInv' /\ Summary(out)' /\ Ended'
  <2>1. ev \in Event /\ seen' = Append(seen, ev) /\ OnEvent(ev) /\ UNCHANGED last
    BY <1>2, EventsAssumption DEF Give
  <2>2. CallsInv'
    <3>1. CASE OnToolCallStart(ev) \/ OnToolCallArgsDelta(ev)
      BY <2>1, <3>1, CallEvent DEF EventInv
    <3>2. CASE OnTextDelta(ev) \/ OnDone(ev) \/ OnIgnored(ev)
      <4>1. ev.kind \notin Merging \/ ev.toolCall = Nil
        BY <3>2 DEF OnTextDelta, OnDone, OnIgnored, Merging
      <4>2. UNCHANGED <<byIndex, order>>
        BY <3>2 DEF OnTextDelta, OnDone, OnIgnored
      <4> QED
        BY <2>1, <4>1, <4>2, Unmoved DEF EventInv
    <3> QED
      BY <2>1, <3>1, <3>2 DEF OnEvent
  <2>3. Summary(out)'
    BY <2>1, SummaryStep DEF EventInv
  <2>4. pc' = "loop"
    BY <2>1 DEF OnEvent, OnTextDelta, OnToolCallStart, OnToolCallArgsDelta, OnIgnored, OnDone,
                Received
  <2> QED
    BY <2>2, <2>3, <2>4 DEF Ended
<1>3. ASSUME NEW err \in Errors, Stop(err) PROVE CallsInv' /\ Summary(out)' /\ Ended'
  <2>1. UNCHANGED <<seen, out, byIndex, order>> /\ last' = err /\ err \in Error
    BY <1>3, EmptyAssumption DEF Stop, OnEOF, OnError
  <2>2. CASE OnEOF(err)
    <3>1. /\ err.cause = "io.EOF" /\ result'.resp = out /\ result'.err = Nil
          /\ result'.toolCalls = [k \in 1 .. Len(order) |-> byIndex[order[k]]]
      BY <2>2 DEF OnEOF, isEOF
    <3> QED
      BY <2>1, <3>1, NoEvent DEF EventInv, Ended
  <2>3. CASE OnError(err)
    <3>1. /\ err.cause # "io.EOF" /\ result'.resp = out /\ result'.err = err
          /\ result'.toolCalls = <<>>
      BY <2>3 DEF OnError, isEOF
    <3> QED
      BY <2>1, <3>1, NoEvent DEF EventInv, Ended
  <2> QED
    BY <1>3, <2>2, <2>3 DEF Stop
<1>4. CASE Close /\ UNCHANGED <<seen, last>>
  <2>1. UNCHANGED <<seen, last, out, byIndex, order, result>> /\ pc # "loop"
    BY <1>4 DEF Close
  <2> QED
    BY <1>1, <2>1, NoEvent DEF EventInv, Ended
<1>5. CASE UNCHANGED AnyVars
  <2>1. UNCHANGED <<pc, seen, last, out, byIndex, order, result>>
    BY <1>5 DEF AnyVars, vars
  <2> QED
    BY <1>1, <2>1, NoEvent DEF EventInv, Ended
<1> QED
  BY <1>1, <1>2, <1>3, <1>4, <1>5 DEF NextAny, EventInv

LEMMA EventInit == InitAny => EventInv
<1> SUFFICES ASSUME InitAny PROVE EventInv
  OBVIOUS
<1>1. TypeOK /\ seen \in Seq(Event) /\ seen = <<>>
  BY AnyInit DEF InitAny
<1>2. /\ pc = "loop" /\ out = NoResponse /\ DOMAIN byIndex = {} /\ order = <<>>
  BY DEF InitAny, Init
<1>3. \A kinds : OfKind(kinds) = {}
  BY <1>1 DEF OfKind
<1>4. SeenIndexes = {}
  BY <1>3 DEF SeenIndexes, Merged, EventsOf
<1>5. JoinedByIndex
  BY <1>2, <1>4 DEF JoinedByIndex
<1>6. OrderedByFirstEvent
  BY <1>2, <1>4 DEF OrderedByFirstEvent, ToSet
<1>7. Summary(out)
  <2>1. DOMAIN Texts = {} /\ Dones = {} /\ Reports = {}
    BY <1>3 DEF Texts, Dones, Reports
  <2>2. out.text = <<>> /\ out.usage = Nil /\ out.finish = Empty
    BY <1>2 DEF NoResponse
  <2> QED
    BY <2>1, <2>2, InOrderNone, SummaryIs
<1> QED
  BY <1>1, <1>2, <1>5, <1>6, <1>7 DEF EventInv, CallsInv, Ended

\* With any reader whatsoever each tool call is made of the events of its index:
\* all their pieces in order, its ID and name from a Start if one has them.
THEOREM Joined == SpecAny => []JoinedByIndex
<1>1. EventInv => JoinedByIndex
  BY DEF EventInv, CallsInv
<1> QED
  BY <1>1, EventInit, EventStep, PTL DEF SpecAny

\* Each is listed once, in the order of their first events.
THEOREM Ordered == SpecAny => []OrderedByFirstEvent
<1>1. EventInv => OrderedByFirstEvent
  BY DEF EventInv, CallsInv
<1> QED
  BY <1>1, EventInit, EventStep, PTL DEF SpecAny

\* What is returned is what the events say, and the error is the reader's, with
\* all its layers, unless it is an end.
THEOREM Returned == SpecAny => []ReturnedResponse
<1>1. EventInv => ReturnedResponse
  BY DEF EventInv, Ended, ReturnedResponse, Summary
<1> QED
  BY <1>1, EventInit, EventStep, PTL DEF SpecAny

-----------------------------------------------------------------------------
(***************************************************************************)
(* The scripted reader.                                                    *)
(***************************************************************************)
Delivery == [to : {Consumer} \union Other, ev : {TextEvent, DoneEvent}]

\* How far the script is, and what that means for what has been delivered.
Dealt ==
    /\ step = 0 => delivered = <<>>
    /\ step = 1 => /\ r.text # Empty /\ Len(delivered) = 1
                   /\ delivered[1].ev = TextEvent
    /\ step = 2 /\ r.text = Empty => Len(delivered) = 1 /\ delivered[1].ev = DoneEvent
    /\ step = 2 /\ r.text # Empty => /\ Len(delivered) = 2
                                     /\ delivered[1].ev = TextEvent
                                     /\ delivered[2].ev = DoneEvent

StreamTypes ==
    /\ r \in Scripted
    /\ step \in 0 .. 2
    /\ closed \in BOOLEAN
    /\ meddled \in Nat
    /\ delivered \in Seq(Delivery)

\* The accumulator has what was delivered to it, and returns that.
MyShare == [text   |-> IF Mine(TextEvent) THEN <<r.text>> ELSE <<>>,
            usage  |-> IF Mine(DoneEvent) THEN r.usage ELSE Nil,
            finish |-> IF Mine(DoneEvent) THEN r.finish ELSE Empty]
Accumulated == /\ out = MyShare
               /\ pc # "loop" => result.err = Nil /\ result.resp = out

\* As long as nobody else has called anything, all of it is for the accumulator,
\* and the stream is still open when it has ended.
Undisturbed ==
    meddled = 0 => /\ \A k \in 1 .. Len(delivered) : delivered[k].to = Consumer
                   /\ pc = "loop" => ~closed
                   /\ pc # "loop" => step = 2

ScriptedInv == StreamTypes /\ Dealt /\ Accumulated /\ Undisturbed

LEMMA TwoEvents == TextEvent # DoneEvent
<1>1. TextEvent.kind = "TextDelta" /\ DoneEvent.kind = "Done"
  BY DEF TextEvent, DoneEvent
<1> QED
  BY <1>1

\* A delivery more.
LEMMA MineAfter ==
    ASSUME StreamTypes, UNCHANGED r, NEW g \in {Consumer} \union Other,
           NEW e \in {TextEvent, DoneEvent}, delivered' = Append(delivered, [to |-> g, ev |-> e])
    PROVE  /\ delivered' \in Seq(Delivery)'
           /\ Mine(TextEvent)' <=> Mine(TextEvent) \/ (g = Consumer /\ e = TextEvent)
           /\ Mine(DoneEvent)' <=> Mine(DoneEvent) \/ (g = Consumer /\ e = DoneEvent)
<1> DEFINE new == [to |-> g, ev |-> e]
<1>1. TextEvent' = TextEvent /\ DoneEvent' = DoneEvent
  BY DEF TextEvent, DoneEvent
<1>2. new \in Delivery
  BY DEF Delivery
<1>3. delivered' \in Seq(Delivery)'
  BY <1>1, <1>2 DEF StreamTypes, Delivery
<1>4. /\ Len(delivered') = Len(delivered) + 1
      /\ delivered'[Len(delivered) + 1] = new
      /\ \A k \in 1 .. Len(delivered) : delivered'[k] = delivered[k]
  BY <1>2 DEF StreamTypes
<1>5. ASSUME NEW x
      PROVE  (\E k \in 1 .. Len(delivered') : delivered'[k] = [to |-> Consumer, ev |-> x])
               <=> \/ \E k \in 1 .. Len(delivered) : delivered[k] = [to |-> Consumer, ev |-> x]
                   \/ new = [to |-> Consumer, ev |-> x]
  <2>1. 1 .. Len(delivered') = (1 .. Len(delivered)) \union {Len(delivered) + 1}
    BY <1>4 DEF StreamTypes
  <2> QED
    BY <1>4, <2>1
<1>6. \A x : new = [to |-> Consumer, ev |-> x] <=> g = Consumer /\ e = x
  OBVIOUS
<1> HIDE DEF new
<1> QED
  BY <1>1, <1>3, <1>5, <1>6 DEF Mine

\* A Next of anybody keeps the script in order.
LEMMA EmitDealt ==
    ASSUME StreamTypes, Dealt, NEW g \in {Consumer} \union Other,
           NEW e \in {TextEvent, DoneEvent}, Emit(g, e), meddled' \in Nat
    PROVE  StreamTypes' /\ Dealt'
<1>1. /\ UNCHANGED <<r, closed>> /\ ~closed
      /\ delivered' = Append(delivered, [to |-> g, ev |-> e])
  BY DEF Emit
<1>2. delivered' \in Seq(Delivery)' /\ TextEvent' = TextEvent /\ DoneEvent' = DoneEvent
  BY <1>1, MineAfter DEF TextEvent, DoneEvent
<1>3. step' \in 0 .. 2
  BY DEF Emit
<1>4. [to |-> g, ev |-> e] \in Delivery
  BY DEF Delivery
<1>5. /\ Len(delivered') = Len(delivered) + 1
      /\ delivered'[Len(delivered) + 1] = [to |-> g, ev |-> e]
      /\ \A k \in 1 .. Len(delivered) : delivered'[k] = delivered[k]
  BY <1>1, <1>4 DEF StreamTypes
<1>6. ASSUME step = 0 /\ r.text # Empty /\ e = TextEvent /\ step' = 1 PROVE Dealt'
  <2>1. Len(delivered) = 0
    BY <1>6 DEF Dealt
  <2>2. Len(delivered') = 1 /\ delivered'[1].ev = TextEvent'
    BY <1>2, <1>5, <1>6, <2>1
  <2> QED
    BY <1>1, <1>6, <2>2 DEF Dealt
<1>7. ASSUME step = 0 /\ r.text = Empty /\ e = DoneEvent /\ step' = 2 PROVE Dealt'
  <2>1. Len(delivered) = 0
    BY <1>7 DEF Dealt
  <2>2. Len(delivered') = 1 /\ delivered'[1].ev = DoneEvent'
    BY <1>2, <1>5, <1>7, <2>1
  <2> QED
    BY <1>1, <1>7, <2>2 DEF Dealt
<1>8. ASSUME step = 1 /\ e = DoneEvent /\ step' = 2 PROVE Dealt'
  <2>1. Len(delivered) = 1 /\ delivered[1].ev = TextEvent /\ r.text # Empty
    BY <1>8 DEF Dealt
  <2>2. /\ Len(delivered') = 2 /\ delivered'[1].ev = TextEvent'
        /\ delivered'[2].ev = DoneEvent'
    BY <1>2, <1>5, <1>8, <2>1
  <2> QED
    BY <1>1, <1>8, <2>1, <2>2 DEF Dealt
<1>9. Dealt'
  BY <1>6, <1>7, <1>8 DEF Emit
<1> QED
  BY <1>1, <1>2, <1>3, <1>9 DEF StreamTypes

\* Before the k-th event is delivered it is not the accumulator's.
LEMMA NotYetMine ==
    ASSUME StreamTypes, Dealt
    PROVE  /\ step = 0 => ~Mine(TextEvent)
           /\ step # 2 => ~Mine(DoneEvent)
<1>1. ASSUME NEW k \in 1 .. Len(delivered), step # 2
      PROVE  step = 1 /\ delivered[k].ev = TextEvent
  <2>1. step # 0
    BY <1>1 DEF Dealt
  <2>2. step = 1
    BY <1>1, <2>1 DEF StreamTypes
  <2>3. Len(delivered) = 1 /\ delivered[1].ev = TextEvent
    BY <2>2 DEF Dealt
  <2> QED
    BY <1>1, <2>2, <2>3
<1>2. ASSUME NEW e, Mine(e)
      PROVE  \E k \in 1 .. Len(delivered) : delivered[k].ev = e
  BY <1>2 DEF Mine
<1> QED
  BY <1>1, <1>2, TwoEvents

\* The accumulator's own Next.
LEMMA ReceiveInv ==
    ASSUME ScriptedInv, NEW e \in {TextEvent, DoneEvent}, Emit(Consumer, e), OnEvent(e),
           UNCHANGED meddled
    PROVE  ScriptedInv'
<1>1. StreamTypes' /\ Dealt'
  BY EmitDealt DEF ScriptedInv, StreamTypes
<1>2. /\ UNCHANGED <<r, closed>>
      /\ delivered' = Append(delivered, [to |-> Consumer, ev |-> e])
  BY DEF Emit
<1>3. /\ Mine(TextEvent)' <=> Mine(TextEvent) \/ e = TextEvent
      /\ Mine(DoneEvent)' <=> Mine(DoneEvent) \/ e = DoneEvent
  BY <1>2, MineAfter DEF ScriptedInv
<1>4. pc = "loop" /\ pc' = "loop"
  BY DEF OnEvent, OnTextDelta, OnToolCallStart, OnToolCallArgsDelta, OnIgnored, OnDone, Received
<1>5. ASSUME e = TextEvent PROVE Accumulated'
  <2>1. e.kind = "TextDelta" /\ e.text = r.text
    BY <1>5 DEF TextEvent
  <2>2. out' = [out EXCEPT !.text = Append(@, r.text)]
    BY <2>1 DEF OnEvent, OnTextDelta, OnToolCallStart, OnToolCallArgsDelta, OnIgnored, OnDone
  <2>3. step = 0
    BY <1>5, TwoEvents DEF Emit
  <2>4. ~Mine(TextEvent)
    BY <2>3, NotYetMine DEF ScriptedInv
  <2>5. /\ out.text = <<>>
        /\ out = [text |-> out.text, usage |-> out.usage, finish |-> out.finish]
        /\ out.usage = (IF Mine(DoneEvent) THEN r.usage ELSE Nil)
        /\ out.finish = (IF Mine(DoneEvent) THEN r.finish ELSE Empty)
    BY <2>4 DEF ScriptedInv, Accumulated, MyShare
  <2>6. out' = [text |-> <<r.text>>, usage |-> out.usage, finish |-> out.finish]
    BY <2>2, <2>5
  <2>7. out' = MyShare'
    BY <1>2, <1>3, <1>5, <2>5, <2>6, TwoEvents DEF MyShare
  <2> QED
    BY <1>4, <2>7 DEF Accumulated
<1>6. ASSUME e = DoneEvent PROVE Accumulated'
  <2>1. e.kind = "Done" /\ e.usage = r.usage /\ e.finish = r.finish
    BY <1>6 DEF DoneEvent
  <2>2. r.usage # Nil
    BY ScriptedAssumption, EmptyAssumption DEF ScriptedInv, StreamTypes
  <2>3. out' = [out EXCEPT !.usage = r.usage, !.finish = r.finish]
    BY <2>1, <2>2
    DEF OnEvent, OnTextDelta, OnToolCallStart, OnToolCallArgsDelta, OnIgnored, OnDone
  <2>4. /\ out = [text |-> out.text, usage |-> out.usage, finish |-> out.finish]
        /\ out.text = (IF Mine(TextEvent) THEN <<r.text>> ELSE <<>>)
    BY DEF ScriptedInv, Accumulated, MyShare
  <2>5. out' = [text |-> out.text, usage |-> r.usage, finish |-> r.finish]
    BY <2>3, <2>4
  <2>6. out' = MyShare'
    BY <1>2, <1>3, <1>6, <2>4, <2>5, TwoEvents DEF MyShare
  <2> QED
    BY <1>4, <2>6 DEF Accumulated
<1>7. Undisturbed'
  <2>1. [to |-> Consumer, ev |-> e] \in Delivery
    BY DEF Delivery
  <2>2. /\ Len(delivered') = Len(delivered) + 1
        /\ delivered'[Len(delivered) + 1] = [to |-> Consumer, ev |-> e]
        /\ \A k \in 1 .. Len(delivered) : delivered'[k] = delivered[k]
    BY <1>2, <2>1 DEF ScriptedInv, StreamTypes
  <2>3. ASSUME meddled = 0, NEW k \in 1 .. Len(delivered') PROVE delivered'[k].to = Consumer
    BY <2>2, <2>3 DEF ScriptedInv, StreamTypes, Undisturbed
  <2> QED
    BY <1>2, <1>4, <2>3 DEF ScriptedInv, Undisturbed
<1> QED
  BY <1>1, <1>5, <1>6, <1>7 DEF ScriptedInv

\* The accumulator at the end of the stream, and closing it.
LEMMA ConsumerEndInv ==
    ASSUME ScriptedInv, UNCHANGED <<r, step, meddled, delivered>>,
           \/ Exhausted /\ OnEOF(EOF) /\ UNCHANGED closed
           \/ Close /\ Shut
    PROVE  ScriptedInv'
<1>1. UNCHANGED out /\ closed' \in BOOLEAN
  BY DEF OnEOF, Close, Shut, ScriptedInv, StreamTypes
<1>2. StreamTypes' /\ Dealt'
  BY <1>1 DEF ScriptedInv, StreamTypes, Dealt, Delivery, TextEvent, DoneEvent
<1>3. MyShare' = MyShare
  BY DEF MyShare, Mine, TextEvent, DoneEvent
<1>4. CASE Exhausted /\ OnEOF(EOF) /\ UNCHANGED closed
  <2>1. pc = "loop" /\ pc' = "closing" /\ result'.err = Nil /\ result'.resp = out
    BY <1>4 DEF OnEOF
  <2>2. Accumulated'
    BY <1>1, <1>3, <2>1 DEF ScriptedInv, Accumulated
  <2>3. Undisturbed'
    BY <1>4, <2>1 DEF ScriptedInv, Undisturbed, Exhausted
  <2> QED
    BY <1>2, <2>2, <2>3 DEF ScriptedInv
<1>5. CASE Close /\ Shut
  <2>1. pc = "closing" /\ pc' = "returned" /\ UNCHANGED result
    BY <1>5 DEF Close
  <2>2. Accumulated' /\ Undisturbed'
    BY <1>1, <1>3, <2>1 DEF ScriptedInv, Accumulated, Undisturbed
  <2> QED
    BY <1>2, <2>2 DEF ScriptedInv
<1> QED
  BY <1>4, <1>5

\* The others take events from the accumulator, but do not touch what it has.
LEMMA OtherInv ==
    ASSUME ScriptedInv, OtherStep
    PROVE  ScriptedInv'
<1>1. UNCHANGED vars /\ meddled' = meddled + 1 /\ meddled' \in Nat /\ meddled' # 0
  BY DEF OtherStep, ScriptedInv, StreamTypes
<1>2. Undisturbed'
  BY <1>1 DEF Undisturbed
<1>3. CASE \E g \in Other : \E ev \in {TextEvent, DoneEvent} : Emit(g, ev)
  <2>1. PICK g \in Other : \E ev \in {TextEvent, DoneEvent} : Emit(g, ev)
    BY <1>3
  <2>2. PICK e \in {TextEvent, DoneEvent} : Emit(g, e)
    BY <2>1
  <2>3. StreamTypes' /\ Dealt'
    BY <1>1, <2>2, EmitDealt DEF ScriptedInv
  <2>4. UNCHANGED r /\ delivered' = Append(delivered, [to |-> g, ev |-> e])
    BY <2>2 DEF Emit
  <2>5. g # Consumer
    BY ScriptedAssumption
  <2>6. Mine(TextEvent)' <=> Mine(TextEvent)
    BY <2>4, <2>5, MineAfter DEF ScriptedInv
  <2>7. Mine(DoneEvent)' <=> Mine(DoneEvent)
    BY <2>4, <2>5, MineAfter DEF ScriptedInv
  <2>8. Accumulated'
    BY <1>1, <2>4, <2>6, <2>7 DEF ScriptedInv, Accumulated, MyShare, vars
  <2> QED
    BY <1>2, <2>3, <2>8 DEF ScriptedInv
<1>4. CASE UNCHANGED <<r, step, delivered>> /\ (closed' = TRUE \/ UNCHANGED closed)
  BY <1>1, <1>2, <1>4
  DEF ScriptedInv, StreamTypes, Dealt, Accumulated, MyShare, Mine, Delivery, TextEvent,
      DoneEvent, vars
<1> QED
  BY <1>3, <1>4 DEF OtherStep, Shut

LEMMA ScriptedStep == ScriptedInv /\ [NextScripted]_ScriptedVars => ScriptedInv'
<1> SUFFICES ASSUME ScriptedInv, [NextScripted]_ScriptedVars PROVE ScriptedInv'
  OBVIOUS
<1>1. ASSUME NEW ev \in {TextEvent, DoneEvent}, Emit(Consumer, ev) /\ OnEvent(ev),
             UNCHANGED meddled
      PROVE  ScriptedInv'
  BY <1>1, ReceiveInv
<1>2. CASE Exhausted /\ OnEOF(EOF) /\ UNCHANGED <<r, step, closed, delivered>> /\ UNCHANGED meddled
  BY <1>2, ConsumerEndInv
<1>3. CASE Close /\ Shut /\ UNCHANGED meddled
  BY <1>3, ConsumerEndInv DEF Shut
<1>4. CASE OtherStep
  BY <1>4, OtherInv
<1>5. CASE UNCHANGED ScriptedVars
  BY <1>5
  DEF ScriptedInv, StreamTypes, Dealt, Accumulated, Undisturbed, MyShare, Mine, Delivery,
      TextEvent, DoneEvent, ScriptedVars, stream, vars
<1> QED
  BY <1>1, <1>2, <1>3, <1>4, <1>5 DEF NextScripted, ConsumerStep, ConsumerNext

LEMMA ScriptedInit == InitScripted => ScriptedInv
<1> SUFFICES ASSUME InitScripted PROVE ScriptedInv
  OBVIOUS
<1>1. delivered = <<>> /\ step = 0 /\ meddled = 0 /\ r \in Scripted /\ closed = FALSE
  BY DEF InitScripted
<1>2. StreamTypes
  <2>1. step \in 0 .. 2 /\ meddled \in Nat /\ delivered \in Seq(Delivery)
    BY <1>1
  <2>2. closed \in BOOLEAN
    BY <1>1
  <2> QED
    BY <1>1, <2>1, <2>2 DEF StreamTypes
<1>3. Dealt
  BY <1>1 DEF Dealt
<1>4. ~Mine(TextEvent) /\ ~Mine(DoneEvent)
  BY <1>1 DEF Mine
<1> QED
  BY <1>1, <1>2, <1>3, <1>4
  DEF InitScripted, Init, ScriptedInv, Accumulated, MyShare, NoResponse, Undisturbed

LEMMA ScriptedInvariance == SpecScripted => []ScriptedInv
  BY ScriptedInit, ScriptedStep, PTL DEF SpecScripted

LEMMA TwoElements ==
    ASSUME NEW a, NEW b
    PROVE  <<a>> \o <<b>> = <<a, b>>
<1>1. <<a>> \in Seq({a, b}) /\ <<b>> \in Seq({a, b}) /\ <<a, b>> \in Seq({a, b})
  OBVIOUS
<1>2. /\ <<a>> \o <<b>> \in Seq({a, b}) /\ Len(<<a>> \o <<b>>) = 2
      /\ (<<a>> \o <<b>>)[1] = a /\ (<<a>> \o <<b>>)[2] = b
  BY <1>1
<1> DEFINE s == <<a>> \o <<b>>
           t == <<a, b>>
<1>3. /\ s \in Seq({a, b}) /\ t \in Seq({a, b}) /\ Len(s) = Len(t)
      /\ \A k \in 1 .. Len(s) : s[k] = t[k]
  BY <1>1, <1>2
<1> HIDE DEF s, t
<1>4. s = t
  BY <1>3, SeqEqual
<1> QED
  BY <1>4 DEF s, t

\* For any response and any goroutines that share the reader, the events of the
\* script go out once each and in order.
THEOREM Delivered == SpecScripted => []DeliveredOnce
<1>1. ScriptedInv => DeliveredOnce
  <2> SUFFICES ASSUME ScriptedInv PROVE DeliveredOnce
    OBVIOUS
  <2> DEFINE evs == [k \in 1 .. Len(delivered) |-> delivered[k].ev]
  <2>1. delivered \in Seq(Delivery) /\ step \in 0 .. 2
    BY DEF ScriptedInv, StreamTypes
  <2>2. Len(evs) = Len(delivered) /\ \A k \in 1 .. Len(delivered) : evs[k] = delivered[k].ev
    BY <2>1
  <2>3. evs \in Seq({TextEvent, DoneEvent})
    <3>1. \A k \in 1 .. Len(delivered) : delivered[k].ev \in {TextEvent, DoneEvent}
      <4>1. \A k \in 1 .. Len(delivered) : delivered[k] \in Delivery
        BY <2>1
      <4>2. \A d \in Delivery : d.ev \in {TextEvent, DoneEvent}
        BY DEF Delivery
      <4> QED
        BY <4>1, <4>2
    <3> QED
      BY <2>1, <3>1
  <2> HIDE DEF evs
  <2>4. Script = IF r.text = Empty THEN <<DoneEvent>> ELSE <<TextEvent, DoneEvent>>
    <3>1. <<>> \o <<DoneEvent>> = <<DoneEvent>>
      OBVIOUS
    <3>2. <<TextEvent>> \o <<DoneEvent>> = <<TextEvent, DoneEvent>>
      BY TwoElements
    <3> QED
      BY <3>1, <3>2 DEF Script
  <2>5. Len(evs) <= Len(Script) /\ \A k \in 1 .. Len(evs) : evs[k] = Script[k]
    <3>1. CASE step = 0
      BY <2>2, <2>4, <3>1 DEF ScriptedInv, Dealt
    <3>2. CASE step # 0 /\ r.text = Empty
      <4>1. Len(delivered) = 1 /\ delivered[1].ev = DoneEvent
        BY <2>1, <3>2 DEF ScriptedInv, Dealt
      <4> QED
        BY <2>2, <2>4, <3>2, <4>1
    <3>3. CASE step = 1 /\ r.text # Empty
      <4>1. Len(delivered) = 1 /\ delivered[1].ev = TextEvent
        BY <3>3 DEF ScriptedInv, Dealt
      <4> QED
        BY <2>2, <2>4, <3>3, <4>1
    <3>4. CASE step = 2 /\ r.text # Empty
      <4>1. /\ Len(delivered) = 2 /\ delivered[1].ev = TextEvent
            /\ delivered[2].ev = DoneEvent
        BY <3>4 DEF ScriptedInv, Dealt
      <4> QED
        BY <2>2, <2>4, <3>4, <4>1
    <3> QED
      BY <2>1, <3>1, <3>2, <3>3, <3>4
  <2>6. Script \in Seq({TextEvent, DoneEvent})
    <3>1. <<DoneEvent>> \in Seq({TextEvent, DoneEvent})
      OBVIOUS
    <3>2. <<TextEvent, DoneEvent>> \in Seq({TextEvent, DoneEvent})
      OBVIOUS
    <3> QED
      BY <2>4, <3>1, <3>2
  <2>7. IsPrefix(evs, Script)
    BY <2>3, <2>5, <2>6 DEF IsPrefix
  <2> QED
    BY <2>7 DEF DeliveredOnce, evs
<1> QED
  BY <1>1, ScriptedInvariance, PTL

\* Whoever closes the stream, from then on nobody gets an event.
THEOREM Closed == SpecScripted => ClosedForGood
<1>1. [NextScripted]_ScriptedVars => [closed => closed' /\ delivered' = delivered]_ScriptedVars
  BY DEF NextScripted, ConsumerStep, ConsumerNext, OtherStep, Emit, Shut, ScriptedVars, stream
<1> QED
  BY <1>1, PTL DEF SpecScripted, ClosedForGood

\* Whatever the others do, the accumulator returns exactly its share of the
\* response, without an error, and all of it if it was alone.
THEOREM Share == SpecScripted => []ScriptedResult
<1>1. ScriptedInv => ScriptedResult
  <2> SUFFICES ASSUME ScriptedInv, pc # "loop" PROVE ScriptedResult
    BY DEF ScriptedResult
  <2>1. result.err = Nil /\ result.resp = MyShare
    BY DEF ScriptedInv, Accumulated
  <2>2. ASSUME meddled = 0 PROVE Mine(DoneEvent) /\ (r.text # Empty => Mine(TextEvent))
    <3>1. step = 2 /\ \A k \in 1 .. Len(delivered) : delivered[k].to = Consumer
      BY <2>2 DEF ScriptedInv, Undisturbed
    <3>2. \A k \in 1 .. Len(delivered) :
            delivered[k] = [to |-> Consumer, ev |-> delivered[k].ev]
      <4>1. \A k \in 1 .. Len(delivered) : delivered[k] \in Delivery
        BY DEF ScriptedInv, StreamTypes
      <4> QED
        BY <3>1, <4>1 DEF Delivery
    <3>3. CASE r.text = Empty
      BY <3>1, <3>2, <3>3 DEF ScriptedInv, Dealt, Mine
    <3>4. CASE r.text # Empty
      BY <3>1, <3>2, <3>4 DEF ScriptedInv, Dealt, Mine
    <3> QED
      BY <3>3, <3>4
  <2> QED
    BY <2>1, <2>2 DEF ScriptedResult, MyShare
<1> QED
  BY <1>1, ScriptedInvariance, PTL
=============================================================================
