------------------------ MODULE PromptTemplateProofs ------------------------
(***************************************************************************)
(* Proofs about PromptTemplate: whatever goroutines share a template and   *)
(* whoever writes to metadata maps meanwhile, each call returns its own    *)
(* layout or fails wholly, a request's metadata is its own, and each call  *)
(* is one step of TemplateCalls.                                           *)
(***************************************************************************)
EXTENDS PromptTemplate, Flattening, SequenceTheorems, TLAPS

-----------------------------------------------------------------------------
(***************************************************************************)
(* Sequences of anything.                                                  *)
(***************************************************************************)
IsSeq(s) == \E S : s \in Seq(S)

LEMMA AppendSeq ==
    ASSUME NEW s, IsSeq(s), NEW e
    PROVE  /\ IsSeq(Append(s, e)) /\ Len(s) \in Nat /\ Len(Append(s, e)) = Len(s) + 1
           /\ Append(s, e)[Len(s) + 1] = e
           /\ \A k \in 1 .. Len(s) : Append(s, e)[k] = s[k]
<1>1. PICK S : s \in Seq(S)
  BY DEF IsSeq
<1>2. s \in Seq(S \union {e})
  BY <1>1
<1>3. Append(s, e) \in Seq(S \union {e})
  BY <1>2
<1> QED
  BY <1>2, <1>3 DEF IsSeq

LEMMA ConcatSeq ==
    ASSUME NEW s, NEW t, IsSeq(s), IsSeq(t)
    PROVE  /\ IsSeq(s \o t) /\ Len(s) \in Nat /\ Len(t) \in Nat
           /\ Len(s \o t) = Len(s) + Len(t)
           /\ \A k \in 1 .. Len(s) + Len(t) :
                (s \o t)[k] = IF k <= Len(s) THEN s[k] ELSE t[k - Len(s)]
<1>1. PICK S : s \in Seq(S)
  BY DEF IsSeq
<1>2. PICK T : t \in Seq(T)
  BY DEF IsSeq
<1>3. s \in Seq(S \union T) /\ t \in Seq(S \union T)
  BY <1>1, <1>2
<1>4. s \o t \in Seq(S \union T)
  BY <1>3
<1> QED
  BY <1>3, <1>4, ConcatProperties DEF IsSeq

LEMMA SameSeq ==
    ASSUME NEW s, NEW t, IsSeq(s), IsSeq(t), Len(s) = Len(t),
           \A k \in 1 .. Len(s) : s[k] = t[k]
    PROVE  s = t
<1>1. PICK S : s \in Seq(S)
  BY DEF IsSeq
<1>2. PICK T : t \in Seq(T)
  BY DEF IsSeq
<1>3. s \in Seq(S \union T) /\ t \in Seq(S \union T)
  BY <1>1, <1>2
<1> QED
  BY <1>3, SeqEqual

LEMMA Listed ==
    ASSUME NEW n \in Nat, NEW f, DOMAIN f = 1 .. n, f = [k \in 1 .. n |-> f[k]]
    PROVE  IsSeq(f) /\ Len(f) = n
<1>1. f \in [1 .. n -> {f[k] : k \in 1 .. n}]
  OBVIOUS
<1> DEFINE S == {f[k] : k \in 1 .. n}
<1>2. f \in Seq(S)
  BY <1>1, SeqDef
<1> HIDE DEF S
<1>3. Len(f) \in Nat /\ DOMAIN f = 1 .. Len(f)
  BY <1>2, LenProperties
<1> DEFINE m == Len(f)
<1> HIDE DEF m
<1>4. m \in Nat /\ 1 .. m = 1 .. n
  BY <1>3 DEF m
<1>5. m = n
  <2>1. m \in 1 .. m \/ m = 0
    BY <1>4
  <2>2. n \in 1 .. n \/ n = 0
    OBVIOUS
  <2> QED
    BY <1>4, <2>1, <2>2
<1>6. IsSeq(f)
  BY <1>2 DEF IsSeq
<1> QED
  BY <1>5, <1>6 DEF m

LEMMA ShortSeq ==
    ASSUME NEW e
    PROVE  /\ IsSeq(<<>>) /\ Len(<<>>) = 0
           /\ IsSeq(<<e>>) /\ Len(<<e>>) = 1 /\ <<e>>[1] = e
<1>1. <<>> \in Seq({e}) /\ <<e>> \in Seq({e})
  OBVIOUS
<1> QED
  BY <1>1 DEF IsSeq

-----------------------------------------------------------------------------
(***************************************************************************)
(* The layout of a template.                                               *)
(***************************************************************************)
\* The turns that are rendered before the history.
Turns == (IF spec.system = Nil THEN <<>> ELSE <<[role |-> "system", content |-> spec.system]>>)
           \o spec.fewShot
TurnOf(k, v) == Turn(Turns[k].role, Rendered(Turns[k].content, v))
Opening(v) == [k \in 1 .. Len(Turns) |-> TurnOf(k, v)]
Spliced(h) == IF spec.historySlot = "BeforeUser" THEN h ELSE <<>>
UserTurn(v) == Turn("user", Rendered(spec.user, v))

Systems == IF spec.system = Nil THEN 0 ELSE 1

LEMMA SpecParts ==
    ASSUME spec \in Specs
    PROVE  /\ spec \in Spec
           /\ IsSeq(spec.fewShot) /\ Len(spec.fewShot) \in Nat
           /\ spec.user \in Fragment \union {Nil}
           /\ spec.system \in Fragment \union {Nil}
           /\ \A k \in 1 .. Len(spec.fewShot) : spec.fewShot[k].content \in Fragment
<1> DEFINE Shot == [role : Role, content : Fragment]
<1>1. spec \in Spec
  BY PromptAssumption
<1>2. spec.fewShot \in Seq(Shot)
  BY <1>1 DEF Spec
<1>3. spec.user \in Fragment \union {Nil} /\ spec.system \in Fragment \union {Nil}
  BY <1>1 DEF Spec
<1>4. \A t \in Shot : t.content \in Fragment
  OBVIOUS
<1> HIDE DEF Shot
<1>5. IsSeq(spec.fewShot) /\ Len(spec.fewShot) \in Nat
  BY <1>2 DEF IsSeq
<1>6. \A k \in 1 .. Len(spec.fewShot) : spec.fewShot[k] \in Shot
  BY <1>2
<1> QED
  BY <1>1, <1>3, <1>4, <1>5, <1>6

\* The system turn, if there is one, comes first, and then the few-shot turns.
LEMMA TurnsAre ==
    ASSUME spec \in Specs
    PROVE  /\ Systems \in {0, 1}
           /\ IsSeq(Turns) /\ Len(Turns) \in Nat /\ Len(Turns) = Systems + Len(spec.fewShot)
           /\ Systems = 1 => Turns[1] = [role |-> "system", content |-> spec.system]
           /\ \A k \in 1 .. Len(Turns) : k > Systems => Turns[k] = spec.fewShot[k - Systems]
           /\ \A k \in 1 .. Len(Turns) : Turns[k].content \in Fragment
<1> DEFINE first == IF spec.system = Nil THEN <<>>
                    ELSE <<[role |-> "system", content |-> spec.system]>>
<1>1. /\ IsSeq(first) /\ Len(first) = Systems /\ Systems \in {0, 1}
      /\ Systems = 1 => first[1] = [role |-> "system", content |-> spec.system]
  BY ShortSeq DEF Systems
<1>2. Turns = first \o spec.fewShot
  BY DEF Turns
<1> HIDE DEF first
<1>3. IsSeq(spec.fewShot) /\ Len(spec.fewShot) \in Nat
  BY SpecParts
<1>4. /\ IsSeq(Turns) /\ Len(Turns) = Systems + Len(spec.fewShot)
      /\ \A k \in 1 .. Len(Turns) :
           Turns[k] = IF k <= Systems THEN first[k] ELSE spec.fewShot[k - Systems]
  BY <1>1, <1>2, <1>3, ConcatSeq
<1>5. Len(Turns) \in Nat
  BY <1>1, <1>3, <1>4
<1>6. Systems = 1 => Turns[1] = [role |-> "system", content |-> spec.system]
  BY <1>1, <1>3, <1>4
<1>7. \A k \in 1 .. Len(Turns) : k > Systems => Turns[k] = spec.fewShot[k - Systems]
  BY <1>1, <1>3, <1>4
<1>8. ASSUME NEW k \in 1 .. Len(Turns) PROVE Turns[k].content \in Fragment
  <2>1. CASE k > Systems
    <3>1. k - Systems \in 1 .. Len(spec.fewShot)
      BY <1>1, <1>3, <1>4, <2>1
    <3> QED
      BY <1>7, <2>1, <3>1, SpecParts
  <2>2. CASE ~(k > Systems)
    <3>1. k = 1 /\ Systems = 1
      BY <1>1, <1>5, <2>2
    <3>2. Turns[k].content = spec.system /\ spec.system # Nil
      BY <1>6, <3>1 DEF Systems
    <3> QED
      BY <3>2, SpecParts
  <2> QED
    BY <2>1, <2>2
<1> QED
  BY <1>1, <1>4, <1>5, <1>6, <1>7, <1>8

\* The fragments a call renders.
Rendering == Fragments(spec)

\* They are those of these turns, and the user's.
LEMMA RenderingIs ==
    ASSUME spec \in Specs
    PROVE  /\ Len(Rendering) = Len(Turns) + 1
           /\ \A k \in 1 .. Len(Turns) : Rendering[k] = Turns[k].content
           /\ Rendering[Len(Turns) + 1] = spec.user
<1> DEFINE first == IF spec.system = Nil THEN <<>> ELSE <<spec.system>>
           few == [k \in 1 .. Len(spec.fewShot) |-> spec.fewShot[k].content]
           last == <<spec.user>>
           fragments == first \o few
<1>1. /\ IsSeq(first) /\ Len(first) = Systems /\ (Systems = 1 => first[1] = spec.system)
  BY ShortSeq DEF Systems
<1>2. IsSeq(few) /\ Len(few) = Len(spec.fewShot)
  BY SpecParts, Listed
<1>3. \A k \in 1 .. Len(spec.fewShot) : few[k] = spec.fewShot[k].content
  OBVIOUS
<1>4. Rendering = fragments \o last
  BY DEF Rendering, Fragments
<1>5. IsSeq(last) /\ Len(last) = 1 /\ last[1] = spec.user
  BY ShortSeq
<1> HIDE DEF first, few, last
<1>6. /\ Systems \in {0, 1}
      /\ Len(Turns) = Systems + Len(spec.fewShot) /\ Len(Turns) \in Nat
      /\ Len(spec.fewShot) \in Nat
      /\ Systems = 1 => Turns[1] = [role |-> "system", content |-> spec.system]
      /\ \A k \in 1 .. Len(Turns) : k > Systems => Turns[k] = spec.fewShot[k - Systems]
  BY TurnsAre, SpecParts
<1>7. /\ IsSeq(fragments) /\ Len(fragments) = Len(Turns)
      /\ \A k \in 1 .. Len(Turns) :
           fragments[k] = IF k <= Systems THEN first[k] ELSE few[k - Systems]
  <2>1. /\ IsSeq(fragments) /\ Len(fragments) = Len(first) + Len(few)
        /\ \A k \in 1 .. Len(first) + Len(few) :
             fragments[k] = IF k <= Len(first) THEN first[k] ELSE few[k - Len(first)]
    BY <1>1, <1>2, ConcatSeq
  <2>2. Len(first) = Systems /\ Len(first) + Len(few) = Len(Turns)
    BY <1>1, <1>2, <1>6
  <2> QED
    BY <2>1, <2>2
<1> HIDE DEF fragments
<1>8. ASSUME NEW k \in 1 .. Len(Turns) PROVE fragments[k] = Turns[k].content
  <2>1. CASE k > Systems
    <3>1. k - Systems \in 1 .. Len(spec.fewShot) /\ ~(k <= Systems)
      BY <1>6, <2>1
    <3>2. fragments[k] = few[k - Systems]
      BY <1>7, <3>1
    <3> QED
      BY <1>3, <1>6, <2>1, <3>1, <3>2
  <2>2. CASE ~(k > Systems)
    <3>1. k = 1 /\ Systems = 1
      BY <1>6, <2>2
    <3> QED
      BY <1>1, <1>6, <1>7, <3>1
  <2> QED
    BY <2>1, <2>2
<1>9. /\ Len(Rendering) = Len(Turns) + 1
      /\ \A k \in 1 .. Len(Turns) + 1 :
           Rendering[k] = IF k <= Len(Turns) THEN fragments[k] ELSE last[k - Len(Turns)]
  <2>1. /\ Len(fragments \o last) = Len(fragments) + Len(last)
        /\ \A k \in 1 .. Len(fragments) + Len(last) :
             (fragments \o last)[k] = IF k <= Len(fragments) THEN fragments[k]
                                                              ELSE last[k - Len(fragments)]
    BY <1>5, <1>7, ConcatSeq
  <2> QED
    BY <1>4, <1>5, <1>7, <2>1
<1>10. ASSUME NEW k \in 1 .. Len(Turns) PROVE Rendering[k] = Turns[k].content
  <2>1. Len(Turns) \in Nat
    BY <1>6
  <2>2. k \in 1 .. Len(Turns) + 1 /\ k <= Len(Turns)
    BY <2>1
  <2>3. Rendering[k] = fragments[k]
    BY <1>9, <2>2
  <2> QED
    BY <1>8, <2>3
<1>11. Rendering[Len(Turns) + 1] = spec.user
  <2>1. Len(Turns) \in Nat
    BY <1>6
  <2>2. /\ Len(Turns) + 1 \in 1 .. Len(Turns) + 1 /\ ~(Len(Turns) + 1 <= Len(Turns))
        /\ Len(Turns) + 1 - Len(Turns) = 1
    BY <2>1
  <2>3. Rendering[Len(Turns) + 1] = last[1]
    BY <1>9, <2>2
  <2> QED
    BY <1>5, <2>3
<1> QED
  BY <1>9, <1>10, <1>11

\* The messages are the rendered turns, the history and the user's turn.
LEMMA LayoutIs ==
    ASSUME spec \in Specs, NEW v, NEW h
    PROVE  Layout(spec, v, h) = (Opening(v) \o Spliced(h)) \o <<UserTurn(v)>>
<1> DEFINE first == IF spec.system = Nil THEN <<>>
                    ELSE <<Turn("system", Rendered(spec.system, v))>>
           few == [k \in 1 .. Len(spec.fewShot) |->
                     Turn(spec.fewShot[k].role, Rendered(spec.fewShot[k].content, v))]
<1>1. /\ IsSeq(first) /\ Len(first) = Systems
      /\ Systems = 1 => first[1] = Turn("system", Rendered(spec.system, v))
  BY ShortSeq DEF Systems
<1>2. IsSeq(few) /\ Len(few) = Len(spec.fewShot)
  BY SpecParts, Listed
<1>3. \A k \in 1 .. Len(spec.fewShot) :
        few[k] = Turn(spec.fewShot[k].role, Rendered(spec.fewShot[k].content, v))
  OBVIOUS
<1>4. Layout(spec, v, h) = ((first \o few) \o Spliced(h)) \o <<UserTurn(v)>>
  BY DEF Layout, Spliced, UserTurn
<1> HIDE DEF first, few
<1>5. /\ Systems \in {0, 1}
      /\ Len(Turns) = Systems + Len(spec.fewShot) /\ Len(Turns) \in Nat
      /\ Len(spec.fewShot) \in Nat
      /\ Systems = 1 => Turns[1] = [role |-> "system", content |-> spec.system]
      /\ \A k \in 1 .. Len(Turns) : k > Systems => Turns[k] = spec.fewShot[k - Systems]
  BY TurnsAre, SpecParts
<1>6. /\ IsSeq(first \o few) /\ Len(first \o few) = Len(Turns)
      /\ \A k \in 1 .. Len(Turns) :
           (first \o few)[k] = IF k <= Systems THEN first[k] ELSE few[k - Systems]
  <2>1. /\ IsSeq(first \o few) /\ Len(first \o few) = Len(first) + Len(few)
        /\ \A k \in 1 .. Len(first) + Len(few) :
             (first \o few)[k] = IF k <= Len(first) THEN first[k] ELSE few[k - Len(first)]
    BY <1>1, <1>2, ConcatSeq
  <2>2. Len(first) = Systems /\ Len(first) + Len(few) = Len(Turns)
    BY <1>1, <1>2, <1>5
  <2> QED
    BY <2>1, <2>2
<1>7. IsSeq(Opening(v)) /\ Len(Opening(v)) = Len(Turns)
  BY <1>5, Listed DEF Opening
<1>8. ASSUME NEW k \in 1 .. Len(Turns) PROVE (first \o few)[k] = Opening(v)[k]
  <2>1. Opening(v)[k] = Turn(Turns[k].role, Rendered(Turns[k].content, v))
    BY DEF Opening, TurnOf
  <2>2. CASE k > Systems
    <3>1. k - Systems \in 1 .. Len(spec.fewShot) /\ ~(k <= Systems)
      BY <1>5, <2>2
    <3>2. (first \o few)[k] = few[k - Systems]
      BY <1>6, <3>1
    <3> QED
      BY <1>3, <1>5, <2>1, <2>2, <3>1, <3>2
  <2>3. CASE ~(k > Systems)
    <3>1. k = 1 /\ Systems = 1
      BY <1>5, <2>3
    <3> QED
      BY <1>1, <1>5, <1>6, <2>1, <3>1
  <2> QED
    BY <2>2, <2>3
<1>9. first \o few = Opening(v)
  BY <1>6, <1>7, <1>8, SameSeq
<1> QED
  BY <1>4, <1>9

-----------------------------------------------------------------------------
(***************************************************************************)
(* Calls.                                                                  *)
(***************************************************************************)
Fine(k, v) == Failing(Rendering[k], v) = {}

\* What a result has to be: FailsWholly and EachItsOwnLayout for one of them.
RightError(r) ==
    LET v == r.args.vars
        bad == {k \in 1 .. Len(Rendering) : Failing(Rendering[k], v) # {}}
    IN IF bad = {} THEN r.err = Nil
       ELSE /\ \E k \in bad : /\ \A j \in bad : k <= j
                              /\ r.err = RenderError(Rendering[k], v)
            /\ r.msgs = <<>> /\ r.systemPrompt = <<>> /\ r.metadata = Nil
RightLayout(r) ==
    r.err = Nil =>
      LET all == Layout(spec, r.args.vars, r.args.history) IN
        IF r.args.fn = "FormatRequest" /\ all[1].role = "system"
          THEN r.msgs = Tail(all) /\ r.systemPrompt = all[1].content
          ELSE r.msgs = all /\ r.systemPrompt = <<>>
Right(r) == RightError(r) /\ RightLayout(r)

\* How far a call is, what it has put together, and that nothing has failed yet.
Underway(g) ==
    LET v == args[g].vars
        h == args[g].history
    IN pc[g] # "idle" =>
         /\ Valid(spec)
         /\ args[g].fn \in {"Format", "FormatRequest"}
         /\ IsSeq(h)
         /\ Len(got[g]) < MaxFormats
         /\ \/ /\ pc[g] = "system"
               /\ msgs[g] = <<>>
            \/ /\ pc[g] = "fewShot"
               /\ IsSeq(msgs[g]) /\ Len(msgs[g]) \in Systems .. Len(Turns)
               /\ \A k \in 1 .. Len(msgs[g]) : msgs[g][k] = TurnOf(k, v) /\ Fine(k, v)
            \/ /\ pc[g] \in {"history", "user", "return"}
               /\ \A k \in 1 .. Len(Turns) : Fine(k, v)
               /\ pc[g] = "history" => msgs[g] = Opening(v)
               /\ pc[g] = "user" => msgs[g] = Opening(v) \o Spliced(h)
               /\ pc[g] = "return" => /\ msgs[g] = Layout(spec, v, h)
                                      /\ Fine(Len(Turns) + 1, v)

Returned(g) ==
    /\ IsSeq(got[g]) /\ Len(got[g]) <= MaxFormats
    /\ \A i \in 1 .. Len(got[g]) : Right(got[g][i])

Shape ==
    /\ spec \in Specs
    /\ tmpl = "compiled" => Valid(spec)
    /\ DOMAIN pc = Caller /\ DOMAIN args = Caller
    /\ DOMAIN msgs = Caller /\ DOMAIN got = Caller

CallInv == Shape /\ \A g \in Caller : Underway(g) /\ Returned(g)

\* An error is one.
LEMMA SomeError ==
    ASSUME NEW f \in Fragment, NEW v, Failing(f, v) # {}
    PROVE  RenderError(f, v) # Nil
<1>1. f.segs \in Seq(Segment)
  BY DEF Fragment
<1>2. Failing(f, v) \subseteq 1 .. Len(f.segs) /\ Len(f.segs) \in Nat
  BY <1>1 DEF Failing
<1>3. \E k \in Failing(f, v) : \A j \in Failing(f, v) : k <= j
  BY <1>2, LeastElement
<1> DEFINE k == CHOOSE k \in Failing(f, v) : \A j \in Failing(f, v) : k <= j
           s == f.segs[k]
<1>4. k \in Failing(f, v)
  BY <1>3
<1>5. RenderError(f, v) = IF s.kind = "var" THEN <<"ErrMissingVar", s.x>> ELSE <<"execute">>
  BY DEF RenderError
<1> HIDE DEF k
<1>6. s \in Segment
  BY <1>1, <1>2, <1>4
<1> HIDE DEF s
<1>7. s.kind = "var" => s.x \in VarName
  BY <1>6 DEF Segment
<1>8. RenderError(f, v) \in RenderErrors
  BY <1>5, <1>7 DEF RenderErrors
<1> QED
  BY <1>8, PromptAssumption

\* What depends on the spec alone does not change with the rest.
LEMMA SameSpec ==
    ASSUME spec' = spec
    PROVE  /\ Turns' = Turns /\ Systems' = Systems /\ Rendering' = Rendering
           /\ Valid(spec)' <=> Valid(spec)
           /\ \A v : Opening(v)' = Opening(v)
           /\ \A k, v : TurnOf(k, v)' = TurnOf(k, v) /\ (Fine(k, v)' <=> Fine(k, v))
           /\ \A h : Spliced(h)' = Spliced(h)
           /\ \A v, h : Layout(spec, v, h)' = Layout(spec, v, h)
           /\ \A r : Right(r)' <=> Right(r)
<1>1. /\ Turns' = Turns /\ Systems' = Systems /\ Rendering' = Rendering
      /\ Valid(spec)' <=> Valid(spec)
  BY DEF Turns, Systems, Rendering
<1>2. \A k, v : TurnOf(k, v)' = TurnOf(k, v) /\ (Fine(k, v)' <=> Fine(k, v))
  BY <1>1 DEF TurnOf, Fine
<1>3. \A v : Opening(v)' = Opening(v)
  BY <1>1, <1>2 DEF Opening
<1>4. \A h : Spliced(h)' = Spliced(h)
  BY DEF Spliced
<1>5. \A v, h : Layout(spec, v, h)' = Layout(spec, v, h)
  BY DEF Layout
<1>6. \A r : Right(r)' <=> Right(r)
  BY <1>1, <1>5 DEF Right, RightError, RightLayout
<1> QED
  BY <1>1, <1>2, <1>3, <1>4, <1>5, <1>6

LEMMA Bystander ==
    ASSUME NEW g \in Caller, Underway(g), Returned(g), spec' = spec,
           pc'[g] = pc[g], args'[g] = args[g], msgs'[g] = msgs[g], got'[g] = got[g]
    PROVE  Underway(g)' /\ Returned(g)'
<1>1. Returned(g)'
  BY SameSpec DEF Returned
<1>2. Underway(g)'
  <2> SUFFICES ASSUME pc[g] # "idle" PROVE Underway(g)'
    BY DEF Underway
  <2> DEFINE v == args[g].vars
             h == args[g].history
  <2>1. /\ Turns' = Turns /\ Systems' = Systems /\ (Valid(spec)' <=> Valid(spec))
        /\ Opening(v)' = Opening(v) /\ Spliced(h)' = Spliced(h)
        /\ Layout(spec, v, h)' = Layout(spec, v, h)
        /\ \A k : TurnOf(k, v)' = TurnOf(k, v) /\ (Fine(k, v)' <=> Fine(k, v))
    BY SameSpec
  <2>2. CASE pc[g] = "system"
    BY <2>1, <2>2 DEF Underway
  <2>3. CASE pc[g] = "fewShot"
    BY <2>1, <2>3 DEF Underway
  <2>4. CASE pc[g] \in {"history", "user", "return"}
    BY <2>1, <2>4 DEF Underway
  <2> QED
    BY <2>2, <2>3, <2>4 DEF Underway
<1> QED
  BY <1>1, <1>2

\* A call that goes on.
LEMMA Proceed ==
    ASSUME CallInv, NEW g \in Caller, UNCHANGED <<spec, tmpl, got>>,
           DOMAIN pc' = Caller, DOMAIN args' = Caller, DOMAIN msgs' = Caller,
           \A h \in Caller \ {g} : pc'[h] = pc[h] /\ args'[h] = args[h] /\ msgs'[h] = msgs[h],
           Underway(g)'
    PROVE  CallInv'
<1>1. Shape'
  BY SameSpec DEF CallInv, Shape
<1>2. ASSUME NEW h \in Caller PROVE Underway(h)' /\ Returned(h)'
  <2>1. CASE h = g
    <3>1. Returned(g)'
      BY SameSpec DEF CallInv, Returned
    <3> QED
      BY <2>1, <3>1
  <2>2. CASE h # g
    BY <2>2, Bystander DEF CallInv
  <2> QED
    BY <2>1, <2>2
<1> QED
  BY <1>1, <1>2 DEF CallInv

\* A call that returns.
LEMMA Finish ==
    ASSUME CallInv, NEW g \in Caller, pc[g] # "idle", NEW r, Right(r), Return(g, r),
           UNCHANGED <<spec, tmpl, args, msgs>>
    PROVE  CallInv'
<1>1. /\ got' = [got EXCEPT ![g] = Append(@, r)]
      /\ pc' = [pc EXCEPT ![g] = "idle"]
  BY DEF Return
<1>2. /\ got'[g] = Append(got[g], r) /\ pc'[g] = "idle"
      /\ \A h \in Caller \ {g} : got'[h] = got[h] /\ pc'[h] = pc[h]
      /\ DOMAIN got' = Caller /\ DOMAIN pc' = Caller
  BY <1>1 DEF CallInv, Shape
<1>3. Shape'
  BY <1>2, SameSpec DEF CallInv, Shape
<1>4. Underway(g)'
  BY <1>2 DEF Underway
<1>5. Returned(g)'
  <2>1. IsSeq(got[g]) /\ Len(got[g]) < MaxFormats /\ \A i \in 1 .. Len(got[g]) : Right(got[g][i])
    BY DEF CallInv, Returned, Underway
  <2>2. /\ IsSeq(got'[g]) /\ Len(got[g]) \in Nat /\ Len(got'[g]) = Len(got[g]) + 1
        /\ got'[g][Len(got[g]) + 1] = r
        /\ \A i \in 1 .. Len(got[g]) : got'[g][i] = got[g][i]
    BY <1>2, <2>1, AppendSeq
  <2>3. \A i \in 1 .. Len(got'[g]) : Right(got'[g][i])
    BY <2>1, <2>2
  <2>4. Len(got'[g]) <= MaxFormats
    BY <2>1, <2>2, PromptAssumption
  <2>5. \A x : Right(x)' <=> Right(x)
    BY SameSpec
  <2> QED
    BY <2>2, <2>3, <2>4, <2>5 DEF Returned
<1>6. ASSUME NEW h \in Caller, h # g PROVE Underway(h)' /\ Returned(h)'
  BY <1>2, <1>6, Bystander DEF CallInv
<1> QED
  BY <1>3, <1>4, <1>5, <1>6 DEF CallInv

\* The first fragment that cannot be rendered ends the call.
LEMMA FailInv ==
    ASSUME CallInv, NEW g \in Caller, pc[g] # "idle", NEW k \in 1 .. Len(Turns) + 1,
           NEW f \in Fragment, f = Rendering[k],
           \A j \in 1 .. Len(Turns) + 1 : j < k => Fine(j, args[g].vars), Fail(g, f)
    PROVE  CallInv'
<1> DEFINE v == args[g].vars
           r == [args |-> args[g], err |-> RenderError(f, v), msgs |-> <<>>,
                 systemPrompt |-> <<>>, metadata |-> Nil, carried |-> Nil]
           bad == {j \in 1 .. Len(Rendering) : Failing(Rendering[j], v) # {}}
<1>1. Failing(f, v) # {} /\ Return(g, r) /\ UNCHANGED <<spec, tmpl, args, msgs>>
  BY DEF Fail
<1>2. Len(Rendering) = Len(Turns) + 1 /\ Len(Turns) \in Nat
  BY RenderingIs, TurnsAre DEF CallInv, Shape
<1>3. k \in bad /\ \A j \in bad : k <= j
  BY <1>1, <1>2 DEF Fine
<1>4. RenderError(f, v) # Nil
  BY <1>1, SomeError
<1>5. /\ r.args.vars = v /\ r.err = RenderError(Rendering[k], v) /\ r.err # Nil
      /\ r.msgs = <<>> /\ r.systemPrompt = <<>> /\ r.metadata = Nil
  BY <1>4
<1> HIDE DEF r
<1>6. RightError(r)
  BY <1>3, <1>5 DEF RightError
<1>7. RightLayout(r)
  BY <1>5 DEF RightLayout
<1> QED
  BY <1>1, <1>6, <1>7, Finish DEF Right

\* At the end of a call the messages are its layout, and every fragment was fine.
LEMMA AllFine ==
    ASSUME CallInv, NEW g \in Caller, pc[g] = "return"
    PROVE  /\ msgs[g] = Layout(spec, args[g].vars, args[g].history)
           /\ {k \in 1 .. Len(Rendering) : Failing(Rendering[k], args[g].vars) # {}} = {}
<1> DEFINE v == args[g].vars
<1>1. /\ msgs[g] = Layout(spec, v, args[g].history)
      /\ \A k \in 1 .. Len(Turns) : Fine(k, v)
      /\ Fine(Len(Turns) + 1, v)
  BY DEF CallInv, Underway
<1>2. Len(Rendering) = Len(Turns) + 1 /\ Len(Turns) \in Nat
  BY RenderingIs, TurnsAre DEF CallInv, Shape
<1>3. ASSUME NEW k \in 1 .. Len(Rendering) PROVE Failing(Rendering[k], v) = {}
  <2>1. k \in 1 .. Len(Turns) \/ k = Len(Turns) + 1
    BY <1>2
  <2> QED
    BY <1>1, <2>1 DEF Fine
<1> QED
  BY <1>1, <1>3

\* A call that was fine throughout returns its layout.
LEMMA ReturnInv ==
    ASSUME CallInv, NEW g \in Caller, ReturnMessages(g) \/ ReturnRequest(g)
    PROVE  CallInv'
<1> DEFINE v == args[g].vars
           all == Layout(spec, v, args[g].history)
<1>1. pc[g] = "return" /\ pc[g] # "idle"
  BY DEF ReturnMessages, ReturnRequest
<1>2. msgs[g] = all
  BY <1>1, AllFine
<1>3. {k \in 1 .. Len(Rendering) : Failing(Rendering[k], v) # {}} = {}
  BY <1>1, AllFine
<1> HIDE DEF all
<1>4. CASE ReturnMessages(g)
  <2> DEFINE r == [args |-> args[g], err |-> Nil, msgs |-> msgs[g],
                   systemPrompt |-> <<>>, metadata |-> Nil, carried |-> Nil]
  <2>1. Return(g, r) /\ UNCHANGED <<spec, tmpl, args, msgs>> /\ args[g].fn = "Format"
    BY <1>4 DEF ReturnMessages
  <2>2. RightError(r)
    BY <1>3 DEF RightError
  <2>3. RightLayout(r)
    BY <1>2, <2>1 DEF RightLayout, all
  <2> HIDE DEF r
  <2> QED
    BY <1>1, <2>1, <2>2, <2>3, Finish DEF Right
<1>5. CASE ReturnRequest(g)
  <2> DEFINE r == [args |-> args[g], err |-> Nil,
                   msgs |-> IF Lifts(msgs[g]) THEN Tail(msgs[g]) ELSE msgs[g],
                   systemPrompt |-> IF Lifts(msgs[g]) THEN Head(msgs[g]).content ELSE <<>>,
                   metadata |-> IF heap[<<"spec">>] = Nil THEN Nil ELSE <<g, Len(got[g]) + 1>>,
                   carried |-> heap[<<"spec">>]]
  <2>1. Return(g, r) /\ UNCHANGED <<spec, tmpl, args, msgs>> /\ args[g].fn = "FormatRequest"
    BY <1>5 DEF ReturnRequest
  <2>2. RightError(r)
    BY <1>3 DEF RightError
  <2>3. Head(all) = all[1]
    BY DEF all
  <2>4. /\ r.err = Nil /\ r.args = args[g]
        /\ r.msgs = (IF all[1].role = "system" THEN Tail(all) ELSE all)
        /\ r.systemPrompt = (IF all[1].role = "system" THEN all[1].content ELSE <<>>)
    BY <1>2, <2>3 DEF Lifts
  <2> HIDE DEF r
  <2>5. RightLayout(r)
    BY <2>1, <2>4 DEF RightLayout, all
  <2> QED
    BY <1>1, <2>1, <2>2, <2>5, Finish DEF Right
<1> QED
  BY <1>4, <1>5

LEMMA CallStep ==
    ASSUME CallInv, NEW g \in Caller, Call(g)
    PROVE  CallInv'
<1>1. PICK fn \in {"Format", "FormatRequest"}, v \in AllVars, h \in Histories :
        args' = [args EXCEPT ![g] = [fn |-> fn, vars |-> v, history |-> h]]
  BY DEF Call
<1>2. /\ msgs' = [msgs EXCEPT ![g] = <<>>]
      /\ pc' = [pc EXCEPT ![g] = "system"]
      /\ UNCHANGED <<spec, tmpl, got>>
      /\ tmpl = "compiled" /\ Len(got[g]) < MaxFormats
  BY DEF Call
<1>3. /\ DOMAIN pc' = Caller /\ DOMAIN args' = Caller /\ DOMAIN msgs' = Caller
      /\ \A x \in Caller \ {g} : pc'[x] = pc[x] /\ args'[x] = args[x] /\ msgs'[x] = msgs[x]
      /\ pc'[g] = "system" /\ msgs'[g] = <<>>
      /\ args'[g] = [fn |-> fn, vars |-> v, history |-> h]
  BY <1>1, <1>2 DEF CallInv, Shape
<1>4. IsSeq(h)
  BY PromptAssumption DEF IsSeq
<1>5. Valid(spec)'
  BY <1>2, SameSpec DEF CallInv, Shape
<1>6. /\ args'[g].fn \in {"Format", "FormatRequest"} /\ IsSeq(args'[g].history)
      /\ Len(got'[g]) < MaxFormats
  BY <1>2, <1>3, <1>4
<1>7. Underway(g)'
  BY <1>3, <1>5, <1>6 DEF Underway
<1> QED
  BY <1>2, <1>3, <1>7, Proceed

\* What the steps between the call and the return have in common.
LEMMA Stage ==
    ASSUME CallInv, NEW g \in Caller, pc[g] # "idle",
           UNCHANGED <<spec, tmpl, args, got>>, NEW next, pc' = [pc EXCEPT ![g] = next],
           DOMAIN msgs' = Caller, \A x \in Caller \ {g} : msgs'[x] = msgs[x]
    PROVE  /\ pc'[g] = next /\ args'[g] = args[g]
           /\ Valid(spec)' /\ args'[g].fn \in {"Format", "FormatRequest"}
           /\ IsSeq(args'[g].history) /\ Len(got'[g]) < MaxFormats
           /\ Underway(g)' => CallInv'
<1>1. /\ DOMAIN pc' = Caller /\ DOMAIN args' = Caller /\ DOMAIN msgs' = Caller
      /\ \A x \in Caller \ {g} : pc'[x] = pc[x] /\ args'[x] = args[x] /\ msgs'[x] = msgs[x]
      /\ pc'[g] = next /\ args'[g] = args[g]
  BY DEF CallInv, Shape
<1>2. /\ Valid(spec) /\ args[g].fn \in {"Format", "FormatRequest"}
      /\ IsSeq(args[g].history) /\ Len(got[g]) < MaxFormats
  BY DEF CallInv, Underway
<1>3. Valid(spec)'
  BY <1>2, SameSpec
<1>4. Underway(g)' => CallInv'
  BY <1>1, Proceed
<1> QED
  BY <1>1, <1>2, <1>3, <1>4

\* A turn more, after which the few-shot turns go on.
LEMMA SayInv ==
    ASSUME CallInv, NEW g \in Caller, pc[g] \in {"system", "fewShot"},
           IsSeq(msgs[g]), NEW n, n = Len(msgs[g]) + 1, n \in 1 .. Len(Turns), Systems <= n,
           \A k \in 1 .. Len(msgs[g]) :
             msgs[g][k] = TurnOf(k, args[g].vars) /\ Fine(k, args[g].vars),
           NEW role, NEW f, role = Turns[n].role, f = Turns[n].content,
           Say(g, role, f, "fewShot")
    PROVE  CallInv'
<1> DEFINE v == args[g].vars
           ms == Append(msgs[g], Turn(role, Rendered(f, v)))
<1>1. /\ Failing(f, v) = {}
      /\ msgs' = [msgs EXCEPT ![g] = Append(@, Turn(role, Rendered(f, v)))]
      /\ pc' = [pc EXCEPT ![g] = "fewShot"]
      /\ UNCHANGED <<spec, tmpl, args, got>>
  BY DEF Say
<1>2. /\ msgs'[g] = ms /\ DOMAIN msgs' = Caller /\ pc[g] # "idle"
      /\ \A x \in Caller \ {g} : msgs'[x] = msgs[x]
  BY <1>1 DEF CallInv, Shape
<1>3. /\ IsSeq(ms) /\ Len(ms) = n /\ Len(msgs[g]) \in Nat /\ ms[n] = Turn(role, Rendered(f, v))
      /\ \A k \in 1 .. Len(msgs[g]) : ms[k] = msgs[g][k]
  BY AppendSeq
<1> HIDE DEF ms
<1>4. spec \in Specs
  BY DEF CallInv, Shape
<1>5. ms[n] = TurnOf(n, v) /\ Fine(n, v)
  BY <1>1, <1>3, <1>4, RenderingIs DEF TurnOf, Fine
<1>6. \A k \in 1 .. Len(ms) : ms[k] = TurnOf(k, v) /\ Fine(k, v)
  BY <1>3, <1>5
<1>7. Len(ms) \in Systems .. Len(Turns)
  BY <1>3, <1>4, TurnsAre
<1>8. /\ pc'[g] = "fewShot" /\ args'[g] = args[g]
      /\ Valid(spec)' /\ args'[g].fn \in {"Format", "FormatRequest"}
      /\ IsSeq(args'[g].history) /\ Len(got'[g]) < MaxFormats
      /\ Underway(g)' => CallInv'
  BY <1>1, <1>2, Stage
<1>9. /\ Turns' = Turns /\ Systems' = Systems
      /\ \A k, x : TurnOf(k, x)' = TurnOf(k, x) /\ (Fine(k, x)' <=> Fine(k, x))
  BY <1>1, SameSpec
<1>10. Underway(g)'
  BY <1>2, <1>3, <1>6, <1>7, <1>8, <1>9 DEF Underway
<1> QED
  BY <1>8, <1>10

LEMMA SystemStep ==
    ASSUME CallInv, NEW g \in Caller, System(g)
    PROVE  CallInv'
<1>1. pc[g] = "system" /\ spec \in Specs
  BY DEF System, CallInv, Shape
<1>2. msgs[g] = <<>>
  BY <1>1 DEF CallInv, Underway
<1>3. /\ Systems \in {0, 1} /\ Len(Turns) \in Nat
      /\ Systems = 1 => Turns[1] = [role |-> "system", content |-> spec.system]
      /\ Len(Turns) = Systems + Len(spec.fewShot) /\ Len(spec.fewShot) \in Nat
  BY <1>1, TurnsAre, SpecParts
<1>4. IsSeq(<<>>) /\ Len(<<>>) = 0
  BY ShortSeq
<1>5. CASE spec.system = Nil
  <2>1. /\ pc' = [pc EXCEPT ![g] = "fewShot"]
        /\ UNCHANGED <<spec, tmpl, args, got>> /\ msgs' = msgs
    BY <1>5 DEF System, Skip
  <2>2. DOMAIN msgs' = Caller /\ msgs'[g] = <<>>
    BY <1>2, <2>1 DEF CallInv, Shape
  <2>3. /\ pc'[g] = "fewShot" /\ args'[g] = args[g]
        /\ Valid(spec)' /\ args'[g].fn \in {"Format", "FormatRequest"}
        /\ IsSeq(args'[g].history) /\ Len(got'[g]) < MaxFormats
        /\ Underway(g)' => CallInv'
    BY <1>1, <2>1, <2>2, Stage
  <2>4. Systems = 0 /\ Turns' = Turns /\ Systems' = Systems
    BY <1>5, <2>1, SameSpec DEF Systems
  <2>5. IsSeq(msgs'[g]) /\ Len(msgs'[g]) = 0 /\ Len(msgs'[g]) \in Systems' .. Len(Turns')
    BY <1>3, <1>4, <2>2, <2>4
  <2>6. Underway(g)'
    BY <1>4, <2>2, <2>3, <2>5 DEF Underway
  <2> QED
    BY <2>3, <2>6
<1>6. CASE spec.system # Nil /\ Say(g, "system", spec.system, "fewShot")
  <2>1. Systems = 1 /\ Turns[1].role = "system" /\ Turns[1].content = spec.system
    BY <1>3, <1>6 DEF Systems
  <2>2. /\ IsSeq(msgs[g]) /\ Len(msgs[g]) + 1 = 1 /\ 1 \in 1 .. Len(Turns)
        /\ Len(msgs[g]) = 0
    BY <1>2, <1>3, <1>4, <2>1
  <2> QED
    BY <1>1, <1>6, <2>1, <2>2, SayInv
<1>7. CASE spec.system # Nil /\ Fail(g, spec.system)
  <2>1. Systems = 1 /\ Turns[1].content = spec.system
    BY <1>3, <1>7 DEF Systems
  <2>2. 1 \in 1 .. Len(Turns) /\ 1 \in 1 .. Len(Turns) + 1
    BY <1>3, <2>1
  <2>3. Rendering[1] = spec.system /\ spec.system \in Fragment
    BY <1>1, <1>7, <2>1, <2>2, RenderingIs, SpecParts
  <2>4. \A j \in 1 .. Len(Turns) + 1 : ~(j < 1)
    BY <1>3
  <2> QED
    BY <1>1, <1>7, <2>2, <2>3, <2>4, FailInv
<1> QED
  BY <1>5, <1>6, <1>7 DEF System

LEMMA FewShotStep ==
    ASSUME CallInv, NEW g \in Caller, FewShot(g)
    PROVE  CallInv'
<1> DEFINE v == args[g].vars
           n == Len(msgs[g]) + 1
<1>1. pc[g] = "fewShot" /\ spec \in Specs
  BY DEF FewShot, CallInv, Shape
<1>2. /\ IsSeq(msgs[g]) /\ Len(msgs[g]) \in Systems .. Len(Turns)
      /\ \A k \in 1 .. Len(msgs[g]) : msgs[g][k] = TurnOf(k, v) /\ Fine(k, v)
  BY <1>1 DEF CallInv, Underway
<1>3. /\ Systems \in {0, 1} /\ Len(Turns) \in Nat
      /\ \A k \in 1 .. Len(Turns) : k > Systems => Turns[k] = spec.fewShot[k - Systems]
      /\ \A k \in 1 .. Len(Turns) : Turns[k].content \in Fragment
      /\ Len(Turns) = Systems + Len(spec.fewShot) /\ Len(spec.fewShot) \in Nat
  BY <1>1, TurnsAre, SpecParts
<1>4. NextTurn(g) = n - Systems
  BY DEF NextTurn, Systems
<1>5. CASE NextTurn(g) > Len(spec.fewShot)
  <2>1. /\ pc' = [pc EXCEPT ![g] = "history"]
        /\ UNCHANGED <<spec, tmpl, args, got>> /\ msgs' = msgs
    BY <1>5 DEF FewShot, Skip
  <2>2. DOMAIN msgs' = Caller /\ msgs'[g] = msgs[g]
    BY <2>1 DEF CallInv, Shape
  <2>3. /\ pc'[g] = "history" /\ args'[g] = args[g]
        /\ Valid(spec)' /\ args'[g].fn \in {"Format", "FormatRequest"}
        /\ IsSeq(args'[g].history) /\ Len(got'[g]) < MaxFormats
        /\ Underway(g)' => CallInv'
    BY <1>1, <2>1, <2>2, Stage
  <2>4. Len(msgs[g]) = Len(Turns)
    BY <1>2, <1>3, <1>4, <1>5
  <2>5. IsSeq(Opening(v)) /\ Len(Opening(v)) = Len(Turns)
    BY <1>3, Listed DEF Opening
  <2>6. \A k \in 1 .. Len(msgs[g]) : msgs[g][k] = Opening(v)[k]
    BY <1>2, <2>4 DEF Opening
  <2>7. msgs[g] = Opening(v)
    BY <1>2, <2>4, <2>5, <2>6, SameSeq
  <2>8. /\ Turns' = Turns /\ Opening(v)' = Opening(v)
        /\ \A k : Fine(k, v)' <=> Fine(k, v)
    BY <2>1, SameSpec
  <2>9. \A k \in 1 .. Len(Turns) : Fine(k, v)
    BY <1>2, <2>4
  <2>10. Underway(g)'
    BY <2>2, <2>3, <2>7, <2>8, <2>9 DEF Underway
  <2> QED
    BY <2>3, <2>10
<1>6. CASE ~(NextTurn(g) > Len(spec.fewShot))
  <2> DEFINE t == spec.fewShot[NextTurn(g)]
  <2>1. n \in 1 .. Len(Turns) /\ n > Systems /\ n \in 1 .. Len(Turns) + 1 /\ Systems <= n
    BY <1>2, <1>3, <1>4, <1>6
  <2>2. t = Turns[n] /\ t.content \in Fragment
    BY <1>3, <1>4, <2>1
  <2>3. CASE Say(g, t.role, t.content, "fewShot")
    BY <1>1, <1>2, <2>1, <2>2, <2>3, SayInv
  <2>4. CASE Fail(g, t.content)
    <3>1. Rendering[n] = t.content
      BY <1>1, <2>1, <2>2, RenderingIs
    <3>2. \A j \in 1 .. Len(Turns) + 1 : j < n => Fine(j, v)
      BY <1>2, <1>3, <2>1
    <3> QED
      BY <1>1, <2>1, <2>2, <2>4, <3>1, <3>2, FailInv
  <2> QED
    BY <1>6, <2>3, <2>4 DEF FewShot
<1> QED
  BY <1>5, <1>6

\* The history as it was given, or not at all.
LEMMA HistoryStep ==
    ASSUME CallInv, NEW g \in Caller, History(g)
    PROVE  CallInv'
<1> DEFINE v == args[g].vars
           h == args[g].history
<1>1. pc[g] = "history" /\ spec \in Specs
  BY DEF History, CallInv, Shape
<1>2. msgs[g] = Opening(v) /\ \A k \in 1 .. Len(Turns) : Fine(k, v)
  BY <1>1 DEF CallInv, Underway
<1>3. /\ msgs' = [msgs EXCEPT ![g] = IF spec.historySlot = "NoHistory" THEN @ ELSE @ \o h]
      /\ pc' = [pc EXCEPT ![g] = "user"]
      /\ UNCHANGED <<spec, tmpl, args, got>>
  BY DEF History
<1>4. /\ DOMAIN msgs' = Caller /\ \A x \in Caller \ {g} : msgs'[x] = msgs[x]
      /\ msgs'[g] = IF spec.historySlot = "NoHistory" THEN Opening(v) ELSE Opening(v) \o h
  BY <1>2, <1>3 DEF CallInv, Shape
<1>5. IsSeq(Opening(v)) /\ Opening(v) \o <<>> = Opening(v)
  <2>1. IsSeq(Opening(v)) /\ Len(Opening(v)) = Len(Turns) /\ Len(Turns) \in Nat
    BY <1>1, TurnsAre, Listed DEF Opening
  <2>2. IsSeq(<<>>) /\ Len(<<>>) = 0
    BY ShortSeq
  <2> HIDE DEF h
  <2>3. /\ IsSeq(Opening(v) \o <<>>) /\ Len(Opening(v) \o <<>>) = Len(Opening(v)) + Len(<<>>)
        /\ \A k \in 1 .. Len(Opening(v)) + Len(<<>>) :
             (Opening(v) \o <<>>)[k] =
               IF k <= Len(Opening(v)) THEN Opening(v)[k] ELSE <<>>[k - Len(Opening(v))]
    BY <2>1, <2>2, ConcatSeq
  <2>4. /\ Len(Opening(v) \o <<>>) = Len(Opening(v))
        /\ \A k \in 1 .. Len(Opening(v)) : (Opening(v) \o <<>>)[k] = Opening(v)[k]
    BY <2>1, <2>2, <2>3
  <2> QED
    BY <2>1, <2>3, <2>4, SameSeq
<1>6. spec.historySlot \in {"BeforeUser", "NoHistory"}
  BY <1>1, SpecParts DEF Spec
<1>7. msgs'[g] = Opening(v) \o Spliced(h)
  BY <1>4, <1>5, <1>6 DEF Spliced
<1>8. /\ pc'[g] = "user" /\ args'[g] = args[g]
      /\ Valid(spec)' /\ args'[g].fn \in {"Format", "FormatRequest"}
      /\ IsSeq(args'[g].history) /\ Len(got'[g]) < MaxFormats
      /\ Underway(g)' => CallInv'
  BY <1>1, <1>3, <1>4, Stage
<1>9. /\ Turns' = Turns /\ Opening(v)' = Opening(v) /\ Spliced(h)' = Spliced(h)
      /\ \A k : Fine(k, v)' <=> Fine(k, v)
  BY <1>3, SameSpec
<1>10. Underway(g)'
  BY <1>2, <1>7, <1>8, <1>9 DEF Underway
<1> QED
  BY <1>8, <1>10

\* The user's turn makes the layout whole.
LEMMA UserStep ==
    ASSUME CallInv, NEW g \in Caller, User(g)
    PROVE  CallInv'
<1> DEFINE v == args[g].vars
           h == args[g].history
           n == Len(Turns) + 1
<1>1. pc[g] = "user" /\ spec \in Specs
  BY DEF User, CallInv, Shape
<1>2. /\ msgs[g] = Opening(v) \o Spliced(h) /\ \A k \in 1 .. Len(Turns) : Fine(k, v)
      /\ Valid(spec) /\ IsSeq(h)
  BY <1>1 DEF CallInv, Underway
<1>3. /\ Len(Turns) \in Nat /\ n \in 1 .. Len(Turns) + 1
      /\ Rendering[n] = spec.user /\ spec.user \in Fragment
  BY <1>1, <1>2, TurnsAre, RenderingIs, SpecParts DEF Valid
<1>4. CASE Fail(g, spec.user)
  <2>1. \A j \in 1 .. Len(Turns) + 1 : j < n => Fine(j, v)
    BY <1>2, <1>3
  <2> QED
    BY <1>1, <1>3, <1>4, <2>1, FailInv
<1>5. CASE Say(g, "user", spec.user, "return")
  <2>1. /\ msgs' = [msgs EXCEPT ![g] = Append(@, UserTurn(v))]
        /\ Failing(spec.user, v) = {}
        /\ pc' = [pc EXCEPT ![g] = "return"]
        /\ UNCHANGED <<spec, tmpl, args, got>>
    BY <1>5 DEF Say, UserTurn
  <2>2. /\ DOMAIN msgs' = Caller /\ \A x \in Caller \ {g} : msgs'[x] = msgs[x]
        /\ msgs'[g] = Append(msgs[g], UserTurn(v))
    BY <2>1 DEF CallInv, Shape
  <2>3. IsSeq(msgs[g])
    <3>1. IsSeq(Opening(v))
      BY <1>3, Listed DEF Opening
    <3>2. IsSeq(Spliced(h))
      BY <1>2, ShortSeq DEF Spliced
    <3> HIDE DEF h
    <3> QED
      BY <1>2, <3>1, <3>2, ConcatSeq
  <2>4. Append(msgs[g], UserTurn(v)) = msgs[g] \o <<UserTurn(v)>>
    <3>1. PICK S : msgs[g] \in Seq(S)
      BY <2>3 DEF IsSeq
    <3>2. msgs[g] \in Seq(S \union {UserTurn(v)})
      BY <3>1
    <3> QED
      BY <3>2, AppendIsConcat
  <2>5. msgs'[g] = Layout(spec, v, h)
    BY <1>1, <1>2, <2>2, <2>4, LayoutIs
  <2>6. Fine(n, v)
    BY <1>3, <2>1 DEF Fine
  <2>7. /\ pc'[g] = "return" /\ args'[g] = args[g]
        /\ Valid(spec)' /\ args'[g].fn \in {"Format", "FormatRequest"}
        /\ IsSeq(args'[g].history) /\ Len(got'[g]) < MaxFormats
        /\ Underway(g)' => CallInv'
    BY <1>1, <2>1, <2>2, Stage
  <2>8. /\ Turns' = Turns /\ Layout(spec, v, h)' = Layout(spec, v, h)
        /\ \A k : Fine(k, v)' <=> Fine(k, v)
    BY <2>1, SameSpec
  <2>9. Underway(g)'
    BY <1>2, <2>5, <2>6, <2>7, <2>8 DEF Underway
  <2> QED
    BY <2>7, <2>9
<1> QED
  BY <1>4, <1>5 DEF User

\* Steps that are not part of a call.
LEMMA ElsewhereInv ==
    ASSUME CallInv, UNCHANGED <<spec, pc, args, msgs, got>>, tmpl' = "compiled" => Valid(spec)
    PROVE  CallInv'
<1>1. Shape'
  BY SameSpec DEF CallInv, Shape
<1>2. ASSUME NEW g \in Caller PROVE Underway(g)' /\ Returned(g)'
  BY Bystander DEF CallInv
<1> QED
  BY <1>1, <1>2 DEF CallInv

LEMMA InitCallInv == Init => CallInv
<1> SUFFICES ASSUME Init PROVE CallInv
  OBVIOUS
<1>1. Shape
  BY PromptAssumption DEF Init, Shape
<1>2. ASSUME NEW g \in Caller PROVE Underway(g) /\ Returned(g)
  <2>1. pc[g] = "idle" /\ got[g] = <<>>
    BY DEF Init
  <2>2. IsSeq(<<>>) /\ Len(<<>>) = 0 /\ MaxFormats \in Nat
    BY ShortSeq, PromptAssumption
  <2>3. Returned(g)
    BY <2>1, <2>2 DEF Returned
  <2> QED
    BY <2>1, <2>3 DEF Underway
<1> QED
  BY <1>1, <1>2 DEF CallInv

LEMMA StepCallInv == CallInv /\ [Next]_vars => CallInv'
<1> SUFFICES ASSUME CallInv, [Next]_vars PROVE CallInv'
  OBVIOUS
<1>1. CASE New
  BY <1>1, ElsewhereInv DEF New
<1>2. ASSUME NEW g \in Caller, Step(g) PROVE CallInv'
  <2>1. CASE Call(g)
    BY <2>1, CallStep
  <2>2. CASE System(g)
    BY <2>2, SystemStep
  <2>3. CASE FewShot(g)
    BY <2>3, FewShotStep
  <2>4. CASE History(g)
    BY <2>4, HistoryStep
  <2>5. CASE User(g)
    BY <2>5, UserStep
  <2>6. CASE ReturnMessages(g) \/ ReturnRequest(g)
    BY <2>6, ReturnInv
  <2> QED
    BY <1>2, <2>1, <2>2, <2>3, <2>4, <2>5, <2>6 DEF Step
<1>3. CASE WriteSpec
  <2>1. UNCHANGED <<spec, tmpl, pc, args, msgs, got>>
    BY <1>3 DEF WriteSpec
  <2> QED
    BY <2>1, ElsewhereInv DEF CallInv, Shape
<1>4. ASSUME NEW g \in Caller, NEW i \in 1 .. MaxFormats, WriteRequest(g, i) PROVE CallInv'
  <2>1. UNCHANGED <<spec, tmpl, pc, args, msgs, got>>
    BY <1>4 DEF WriteRequest
  <2> QED
    BY <2>1, ElsewhereInv DEF CallInv, Shape
<1>5. CASE UNCHANGED vars
  <2>1. UNCHANGED <<spec, tmpl, pc, args, msgs, got>>
    BY <1>5 DEF vars
  <2> QED
    BY <2>1, ElsewhereInv DEF CallInv, Shape
<1> QED
  BY <1>1, <1>2, <1>3, <1>4, <1>5 DEF Next

\* What every result is like.
LEMMA ResultsRight ==
    ASSUME CallInv, NEW x \in Results
    PROVE  Right(got[x[1]][x[2]])
<1>1. x[1] \in Caller /\ x[2] \in 1 .. MaxFormats /\ x[2] <= Len(got[x[1]])
  BY DEF Results
<1>2. Returned(x[1])
  BY <1>1 DEF CallInv
<1>3. Len(got[x[1]]) \in Nat
  BY <1>2, AppendSeq DEF Returned
<1>4. x[2] \in 1 .. Len(got[x[1]])
  BY <1>1, <1>3, PromptAssumption
<1> QED
  BY <1>2, <1>4 DEF Returned

\* A template New accepts fails at render time only for what the variables of
\* that call lack or cannot do, at the first such place, and returns no message
\* then, for any specs, variables, callers and bounds.
THEOREM Wholly == FormatSpec => []FailsWholly
<1>1. CallInv => FailsWholly
  BY ResultsRight DEF Right, RightError, FailsWholly, Rendering
<1> QED
  BY <1>1, InitCallInv, StepCallInv, PTL DEF FormatSpec

\* And each call returns its own layout, as messages or as a Request.
THEOREM OwnLayout == FormatSpec => []EachItsOwnLayout
<1>1. CallInv => EachItsOwnLayout
  BY ResultsRight DEF Right, RightLayout, EachItsOwnLayout
<1> QED
  BY <1>1, InitCallInv, StepCallInv, PTL DEF FormatSpec

-----------------------------------------------------------------------------
(***************************************************************************)
(* Metadata maps.                                                          *)
(***************************************************************************)
\* A request's map is at its own address, where it is what its owner made it;
\* the spec's map is there if New was given one.
Kept(g, i) == /\ got[g][i].metadata \in {Nil, <<g, i>>}
              /\ got[g][i].metadata # Nil =>
                   heap[<<g, i>>] = own[<<g, i>>] /\ heap[<<g, i>>] \in Metadata
SpecMap == /\ heap[<<"spec">>] \in Metadata \union {Nil}
           /\ heap[<<"spec">>] = Nil <=> spec.metadata = Nil
MapsInv == /\ DOMAIN heap = Addr /\ DOMAIN own = Addr
           /\ SpecMap
           /\ \A g \in Caller : \A i \in 1 .. Len(got[g]) : Kept(g, i)

LEMMA Addresses ==
    /\ <<"spec">> \in Addr
    /\ \A g \in Caller, i \in 1 .. MaxFormats : <<g, i>> \in Addr /\ <<g, i>> # <<"spec">>
<1>1. ASSUME NEW g, NEW i, <<g, i>> = <<"spec">> PROVE FALSE
  <2>1. Len(<<g, i>>) = 2 /\ Len(<<"spec">>) = 1
    OBVIOUS
  <2> QED
    BY <1>1, <2>1
<1> QED
  BY <1>1 DEF Addr

LEMMA Numbered ==
    ASSUME CallInv, NEW g \in Caller
    PROVE  /\ IsSeq(got[g]) /\ Len(got[g]) \in Nat /\ MaxFormats \in Nat
           /\ \A i \in 1 .. Len(got[g]) : i \in 1 .. MaxFormats
           /\ pc[g] # "idle" => Len(got[g]) + 1 \in 1 .. MaxFormats
<1>1. /\ IsSeq(got[g]) /\ Len(got[g]) <= MaxFormats
      /\ pc[g] # "idle" => Len(got[g]) < MaxFormats
  BY DEF CallInv, Returned, Underway
<1>2. Len(got[g]) \in Nat /\ MaxFormats \in Nat
  BY <1>1, AppendSeq, PromptAssumption
<1> QED
  BY <1>1, <1>2

LEMMA PutType ==
    ASSUME NEW m \in Metadata, NEW k \in Key, NEW v \in Value
    PROVE  Put(m, k, v) \in Metadata
<1>1. PICK D \in SUBSET Key : m \in [D -> Value]
  BY DEF Metadata
<1>2. Put(m, k, v) \in [D \union {k} -> Value] /\ D \union {k} \in SUBSET Key
  BY <1>1 DEF Put
<1> QED
  BY <1>2 DEF Metadata

\* A call that returns without a map.
LEMMA NoMap ==
    ASSUME CallInv, MapsInv, NEW g \in Caller, NEW r, r.metadata = Nil, Return(g, r),
           UNCHANGED <<spec, heap, own>>
    PROVE  MapsInv'
<1>1. IsSeq(got[g]) /\ Len(got[g]) \in Nat
  BY Numbered
<1>2. got'[g] = Append(got[g], r) /\ \A h \in Caller \ {g} : got'[h] = got[h]
  BY DEF Return, CallInv, Shape
<1>3. /\ Len(got'[g]) = Len(got[g]) + 1 /\ got'[g][Len(got[g]) + 1] = r
      /\ \A i \in 1 .. Len(got[g]) : got'[g][i] = got[g][i]
  BY <1>1, <1>2, AppendSeq
<1>4. ASSUME NEW h \in Caller, NEW i \in 1 .. Len(got'[h]) PROVE Kept(h, i)'
  <2>1. CASE h = g /\ i = Len(got[g]) + 1
    BY <1>3, <2>1 DEF Kept
  <2>2. CASE ~(h = g /\ i = Len(got[g]) + 1)
    <3>1. i \in 1 .. Len(got[h]) /\ got'[h][i] = got[h][i]
      BY <1>1, <1>2, <1>3, <2>2
    <3> QED
      BY <3>1 DEF MapsInv, Kept
  <2> QED
    BY <2>1, <2>2
<1> QED
  BY <1>4 DEF MapsInv, SpecMap

\* A request is made with a copy of the map the template has.
LEMMA Copied ==
    ASSUME CallInv, MapsInv, NEW g \in Caller, ReturnRequest(g)
    PROVE  MapsInv'
<1> DEFINE n == Len(got[g]) + 1
<1>1. PICK r : /\ Return(g, r)
               /\ r.metadata = IF heap[<<"spec">>] = Nil THEN Nil ELSE <<g, n>>
               /\ heap' = [heap EXCEPT ![<<g, n>>] = heap[<<"spec">>]]
               /\ own' = [own EXCEPT ![<<g, n>>] = heap[<<"spec">>]]
  <2> DEFINE r == [args |-> args[g], err |-> Nil,
                   msgs |-> IF Lifts(msgs[g]) THEN Tail(msgs[g]) ELSE msgs[g],
                   systemPrompt |-> IF Lifts(msgs[g]) THEN Head(msgs[g]).content ELSE <<>>,
                   metadata |-> IF heap[<<"spec">>] = Nil THEN Nil ELSE <<g, Len(got[g]) + 1>>,
                   carried |-> heap[<<"spec">>]]
  <2>1. /\ Return(g, r)
        /\ heap' = [heap EXCEPT ![<<g, n>>] = heap[<<"spec">>]]
        /\ own' = [own EXCEPT ![<<g, n>>] = heap[<<"spec">>]]
    BY DEF ReturnRequest
  <2>2. r.metadata = IF heap[<<"spec">>] = Nil THEN Nil ELSE <<g, n>>
    OBVIOUS
  <2> HIDE DEF r
  <2> QED
    BY <2>1, <2>2
<1>2. pc[g] # "idle"
  BY DEF ReturnRequest
<1>3. IsSeq(got[g]) /\ Len(got[g]) \in Nat /\ n \in 1 .. MaxFormats
  BY <1>2, Numbered
<1>4. <<g, n>> \in Addr
  BY <1>3, Addresses
<1>5. got'[g] = Append(got[g], r) /\ \A h \in Caller \ {g} : got'[h] = got[h]
  BY <1>1 DEF Return, CallInv, Shape
<1>6. /\ Len(got'[g]) = n /\ got'[g][n] = r
      /\ \A i \in 1 .. Len(got[g]) : got'[g][i] = got[g][i]
  BY <1>3, <1>5, AppendSeq
<1>7. /\ DOMAIN heap' = Addr /\ DOMAIN own' = Addr
      /\ heap'[<<g, n>>] = own'[<<g, n>>] /\ heap'[<<g, n>>] = heap[<<"spec">>]
      /\ \A a \in Addr \ {<<g, n>>} : heap'[a] = heap[a] /\ own'[a] = own[a]
  BY <1>1, <1>4 DEF MapsInv
<1>8. ASSUME NEW h \in Caller, NEW i \in 1 .. Len(got'[h]) PROVE Kept(h, i)'
  <2>1. CASE h = g /\ i = n
    BY <1>1, <1>6, <1>7, <2>1 DEF Kept, MapsInv, SpecMap
  <2>2. CASE ~(h = g /\ i = n)
    <3>1. i \in 1 .. Len(got[h]) /\ got'[h][i] = got[h][i]
      BY <1>3, <1>5, <1>6, <2>2
    <3>2. Kept(h, i) /\ i \in 1 .. MaxFormats
      BY <3>1, Numbered DEF MapsInv
    <3>3. <<h, i>> \in Addr /\ <<h, i>> # <<g, n>>
      BY <2>2, <3>2, Addresses
    <3>4. heap'[<<h, i>>] = heap[<<h, i>>] /\ own'[<<h, i>>] = own[<<h, i>>]
      BY <1>7, <3>3
    <3> QED
      BY <3>1, <3>2, <3>4 DEF Kept
  <2> QED
    BY <2>1, <2>2
<1>9. SpecMap'
  <2>1. heap'[<<"spec">>] = heap[<<"spec">>] /\ spec' = spec
    BY <1>3, <1>7, Addresses DEF ReturnRequest
  <2> QED
    BY <2>1 DEF MapsInv, SpecMap
<1> QED
  BY <1>7, <1>8, <1>9 DEF MapsInv

\* An owner's write goes to the map of its request, which is at its own address.
Owned(g, i) == /\ i \in 1 .. Len(got[g]) /\ i \in 1 .. MaxFormats
               /\ <<g, i>> \in Addr
               /\ got[g][i].metadata = <<g, i>> /\ got[g][i].metadata # Nil
               /\ heap[<<g, i>>] = own[<<g, i>>] /\ heap[<<g, i>>] \in Metadata

LEMMA WritesOwn ==
    ASSUME CallInv, MapsInv, NEW g \in Caller, NEW i \in 1 .. MaxFormats, WriteRequest(g, i)
    PROVE  Owned(g, i)
<1>1. i <= Len(got[g]) /\ got[g][i].metadata # Nil
  BY DEF WriteRequest
<1>2. i \in 1 .. Len(got[g])
  BY <1>1, Numbered
<1>3. Kept(g, i)
  BY <1>2 DEF MapsInv
<1> QED
  BY <1>1, <1>2, <1>3, Addresses DEF Kept, Owned

\* What is written to the spec's map, or by a request's owner to its own.
LEMMA Written ==
    ASSUME CallInv, MapsInv,
           WriteSpec \/ \E g \in Caller, i \in 1 .. MaxFormats : WriteRequest(g, i)
    PROVE  MapsInv'
<1>1. PICK a \in Addr : /\ \/ a = <<"spec">> /\ heap[a] # Nil
                           \/ a # <<"spec">> /\ own'[a] = heap'[a]
                        /\ heap'[a] \in Metadata
                        /\ DOMAIN heap' = Addr /\ DOMAIN own' = Addr
                        /\ \A b \in Addr \ {a} : heap'[b] = heap[b] /\ own'[b] = own[b]
  <2>1. CASE WriteSpec
    <3>1. /\ own' = own /\ spec.metadata # Nil
          /\ \E k \in Key, v \in Value : heap' = [heap EXCEPT ![<<"spec">>] = Put(@, k, v)]
      BY <2>1 DEF WriteSpec
    <3>2. heap[<<"spec">>] \in Metadata /\ heap[<<"spec">>] # Nil
      BY <3>1 DEF MapsInv, SpecMap
    <3>3. /\ DOMAIN heap' = Addr /\ \A b \in Addr \ {<<"spec">>} : heap'[b] = heap[b]
          /\ heap'[<<"spec">>] \in Metadata
      BY <3>1, <3>2, Addresses, PutType DEF MapsInv
    <3>4. DOMAIN own' = Addr /\ own' = own
      BY <3>1 DEF MapsInv
    <3> QED
      BY <3>2, <3>3, <3>4, Addresses
  <2>2. ASSUME NEW g \in Caller, NEW i \in 1 .. MaxFormats, WriteRequest(g, i)
        PROVE \E a \in Addr : /\ own'[a] = heap'[a] /\ a # <<"spec">>
                              /\ heap'[a] \in Metadata
                              /\ DOMAIN heap' = Addr /\ DOMAIN own' = Addr
                              /\ \A b \in Addr \ {a} : heap'[b] = heap[b] /\ own'[b] = own[b]
    <3>1. Owned(g, i)
      BY <2>2, WritesOwn
    <3>2. PICK k \in Key, v \in Value :
            /\ heap' = [heap EXCEPT ![<<g, i>>] = Put(@, k, v)]
            /\ own' = [own EXCEPT ![<<g, i>>] = Put(@, k, v)]
      BY <2>2, <3>1 DEF WriteRequest, Owned
    <3>3. /\ DOMAIN heap' = Addr /\ DOMAIN own' = Addr
          /\ own'[<<g, i>>] = heap'[<<g, i>>]
          /\ heap'[<<g, i>>] \in Metadata
          /\ \A b \in Addr \ {<<g, i>>} : heap'[b] = heap[b] /\ own'[b] = own[b]
      BY <3>1, <3>2, PutType DEF MapsInv, Owned
    <3> QED
      BY <3>1, <3>3, Addresses DEF Owned
  <2> QED
    BY <2>1, <2>2
<1>2. got' = got /\ spec' = spec
  BY DEF WriteSpec, WriteRequest
<1>3. ASSUME NEW h \in Caller, NEW i \in 1 .. Len(got'[h]) PROVE Kept(h, i)'
  <2>1. Kept(h, i) /\ <<h, i>> \in Addr /\ <<h, i>> # <<"spec">>
    BY <1>2, Numbered, Addresses DEF MapsInv
  <2>2. heap[<<h, i>>] = own[<<h, i>>] /\ heap[<<h, i>>] \in Metadata =>
          heap'[<<h, i>>] = own'[<<h, i>>] /\ heap'[<<h, i>>] \in Metadata
    BY <1>1, <2>1
  <2> QED
    BY <1>2, <2>1, <2>2 DEF Kept
<1>4. SpecMap'
  BY <1>1, <1>2, Addresses, PromptAssumption DEF MapsInv, SpecMap
<1> QED
  BY <1>1, <1>3, <1>4 DEF MapsInv

LEMMA InitMapsInv == Init => MapsInv
<1> SUFFICES ASSUME Init PROVE MapsInv
  OBVIOUS
<1>1. DOMAIN heap = Addr /\ DOMAIN own = Addr
  BY DEF Init
<1>2. \A g \in Caller : Len(got[g]) = 0
  BY ShortSeq DEF Init
<1>3. heap[<<"spec">>] = spec.metadata
  BY Addresses DEF Init
<1>4. spec.metadata \in Metadata \union {Nil}
  BY SpecParts DEF Init, Spec
<1>5. SpecMap
  BY <1>3, <1>4 DEF SpecMap
<1> QED
  BY <1>1, <1>2, <1>5 DEF MapsInv

LEMMA StepMapsInv == CallInv /\ MapsInv /\ [Next]_vars => MapsInv'
<1> SUFFICES ASSUME CallInv, MapsInv, [Next]_vars PROVE MapsInv'
  OBVIOUS
<1>1. CASE UNCHANGED <<spec, heap, own, got>>
  BY <1>1 DEF MapsInv, SpecMap, Kept
<1>2. ASSUME NEW g \in Caller, NEW f, Fail(g, f) PROVE MapsInv'
  <2> DEFINE r == [args |-> args[g], err |-> RenderError(f, args[g].vars), msgs |-> <<>>,
                   systemPrompt |-> <<>>, metadata |-> Nil, carried |-> Nil]
  <2>1. Return(g, r) /\ UNCHANGED <<spec, heap, own>> /\ r.metadata = Nil
    BY <1>2 DEF Fail
  <2> HIDE DEF r
  <2> QED
    BY <2>1, NoMap
<1>3. ASSUME NEW g \in Caller, Step(g) PROVE MapsInv'
  <2>1. CASE Call(g)
    BY <1>1, <2>1 DEF Call
  <2>2. CASE System(g)
    BY <1>1, <1>2, <2>2 DEF System, Skip, Say
  <2>3. CASE FewShot(g)
    BY <1>1, <1>2, <2>3 DEF FewShot, Skip, Say
  <2>4. CASE History(g)
    BY <1>1, <2>4 DEF History
  <2>5. CASE User(g)
    BY <1>1, <1>2, <2>5 DEF User, Say
  <2>6. CASE ReturnMessages(g)
    <3> DEFINE r == [args |-> args[g], err |-> Nil, msgs |-> msgs[g],
                     systemPrompt |-> <<>>, metadata |-> Nil, carried |-> Nil]
    <3>1. Return(g, r) /\ UNCHANGED <<spec, heap, own>> /\ r.metadata = Nil
      BY <2>6 DEF ReturnMessages
    <3> HIDE DEF r
    <3> QED
      BY <3>1, NoMap
  <2>7. CASE ReturnRequest(g)
    BY <2>7, Copied
  <2> QED
    BY <1>3, <2>1, <2>2, <2>3, <2>4, <2>5, <2>6, <2>7 DEF Step
<1>4. CASE New
  BY <1>1, <1>4 DEF New
<1>5. CASE UNCHANGED vars
  BY <1>1, <1>5 DEF vars
<1> QED
  BY <1>3, <1>4, <1>5, Written DEF Next

\* A request's metadata is what it was made with and what its owner wrote since,
\* whoever writes to the spec's map or to other requests'.
THEOREM Isolation == FormatSpec => []RequestsIsolated
<1>1. ASSUME CallInv, MapsInv, NEW x \in Results, got[x[1]][x[2]].metadata # Nil
      PROVE heap[got[x[1]][x[2]].metadata] = own[x]
  <2>1. x[1] \in Caller /\ x[2] \in 1 .. MaxFormats /\ x[2] <= Len(got[x[1]]) /\ x = <<x[1], x[2]>>
    BY DEF Results
  <2>2. x[2] \in 1 .. Len(got[x[1]])
    BY <2>1, Numbered
  <2>3. Kept(x[1], x[2])
    BY <1>1, <2>1, <2>2 DEF MapsInv
  <2> QED
    BY <1>1, <2>1, <2>3 DEF Kept
<1>2. CallInv /\ MapsInv => RequestsIsolated
  BY <1>1 DEF RequestsIsolated
<1> QED
  BY <1>2, InitCallInv, StepCallInv, InitMapsInv, StepMapsInv, PTL DEF FormatSpec

-----------------------------------------------------------------------------
(***************************************************************************)
(* Calls as one step.                                                      *)
(***************************************************************************)
Asked == {g \in Caller : pc[g] # "idle"}
Meta == heap[<<"spec">>]

\* TemplateCalls reads specs and fragments as PromptTemplate does.
LEMMA SameData ==
    /\ \A s : Calls!Valid(s) <=> Valid(s)
    /\ \A s : Calls!Fragments(s) = Fragments(s)
    /\ \A s, v, h : Calls!Layout(s, v, h) = Layout(s, v, h)
    /\ \A f, v : Calls!Failing(f, v) = Failing(f, v)
    /\ \A f, v : Calls!RenderError(f, v) = RenderError(f, v)
    /\ \A m, k, v : Calls!Put(m, k, v) = Put(m, k, v)
<1>1. \A s : Calls!Valid(s) <=> Valid(s)
  BY DEF Calls!Valid, Valid, Calls!Compiles, Compiles
<1>2. \A s : Calls!Fragments(s) = Fragments(s)
  BY DEF Calls!Fragments, Fragments
<1>3. \A s, v, h : Calls!Layout(s, v, h) = Layout(s, v, h)
  BY DEF Calls!Layout, Layout, Calls!Turn, Turn, Calls!Rendered, Rendered
<1>4. \A f, v : Calls!Failing(f, v) = Failing(f, v)
  BY DEF Calls!Failing, Failing
<1>5. \A f, v : Calls!RenderError(f, v) = RenderError(f, v)
  BY DEF Calls!RenderError, RenderError, Calls!Failing, Failing
<1>6. \A m, k, v : Calls!Put(m, k, v) = Put(m, k, v)
  BY DEF Calls!Put, Put
<1> QED
  BY <1>1, <1>2, <1>3, <1>4, <1>5, <1>6

\* A receipt is seen as it was while its own map stays the same.
LEMMA SeenAsBefore ==
    ASSUME MapsInv, NEW g \in Caller, NEW i \in 1 .. Len(got[g]),
           got'[g][i] = got[g][i], heap'[<<g, i>>] = heap[<<g, i>>]
    PROVE  Seen(got'[g][i], heap') = Seen(got[g][i], heap)
<1>1. got[g][i].metadata \in {Nil, <<g, i>>}
  BY DEF MapsInv, Kept
<1> QED
  BY <1>1 DEF Seen

LEMMA SeenList ==
    ASSUME CallInv, NEW g \in Caller
    PROVE  /\ IsSeq(SeenBy[g]) /\ Len(SeenBy[g]) = Len(got[g]) /\ DOMAIN SeenBy = Caller
           /\ \A i \in 1 .. Len(got[g]) : SeenBy[g][i] = Seen(got[g][i], heap)
<1>1. SeenBy[g] = [i \in 1 .. Len(got[g]) |-> Seen(got[g][i], heap)] /\ DOMAIN SeenBy = Caller
  BY DEF SeenBy
<1>2. Len(got[g]) \in Nat
  BY Numbered
<1> QED
  BY <1>1, <1>2, Listed

\* What all see when no receipt is added and no request's map is written.
LEMMA SeenStays ==
    ASSUME CallInv, MapsInv, got' = got,
           \A g \in Caller, i \in 1 .. MaxFormats : heap'[<<g, i>>] = heap[<<g, i>>]
    PROVE  SeenBy' = SeenBy
<1>1. ASSUME NEW g \in Caller, NEW i \in 1 .. Len(got[g])
      PROVE  Seen(got'[g][i], heap') = Seen(got[g][i], heap)
  <2>1. heap'[<<g, i>>] = heap[<<g, i>>]
    BY Numbered
  <2> QED
    BY <2>1, SeenAsBefore
<1> QED
  BY <1>1 DEF SeenBy

\* A call that returns r is seen to add what r is worth.
LEMMA SeenReturn ==
    ASSUME CallInv, CallInv', MapsInv, NEW g \in Caller, NEW r, Return(g, r), pc[g] # "idle",
           \A h \in Caller : \A i \in 1 .. Len(got[h]) : heap'[<<h, i>>] = heap[<<h, i>>],
           NEW e, e = Seen(r, heap')
    PROVE  SeenBy' = [SeenBy EXCEPT ![g] = Append(@, e)] /\ Asked' = Asked \ {g}
<1> DEFINE n == Len(got[g]) + 1
<1>1. /\ got' = [got EXCEPT ![g] = Append(@, r)] /\ pc' = [pc EXCEPT ![g] = "idle"]
      /\ DOMAIN got = Caller /\ DOMAIN pc = Caller
  BY DEF Return, CallInv, Shape
<1>2. IsSeq(got[g]) /\ Len(got[g]) \in Nat
  BY Numbered
<1>3. got'[g] = Append(got[g], r) /\ \A h \in Caller \ {g} : got'[h] = got[h]
  BY <1>1
<1>4. /\ Len(got'[g]) = n /\ got'[g][n] = r
      /\ \A i \in 1 .. Len(got[g]) : got'[g][i] = got[g][i]
  BY <1>2, <1>3, AppendSeq
<1>5. ASSUME NEW h \in Caller, NEW i \in 1 .. Len(got[h])
      PROVE  Seen(got'[h][i], heap') = Seen(got[h][i], heap)
  BY <1>3, <1>4, SeenAsBefore
<1>6. SeenBy'[g] = Append(SeenBy[g], e)
  <2>1. /\ IsSeq(SeenBy[g]) /\ Len(SeenBy[g]) = Len(got[g])
        /\ \A i \in 1 .. Len(got[g]) : SeenBy[g][i] = Seen(got[g][i], heap)
    BY SeenList
  <2>2. /\ IsSeq(SeenBy'[g]) /\ Len(SeenBy'[g]) = n
        /\ \A i \in 1 .. n : SeenBy'[g][i] = Seen(got'[g][i], heap')
    <3>1. SeenBy'[g] = [i \in 1 .. Len(got'[g]) |-> Seen(got'[g][i], heap')]
      BY DEF SeenBy
    <3> QED
      BY <1>2, <1>4, <3>1, Listed
  <2>3. /\ IsSeq(Append(SeenBy[g], e)) /\ Len(Append(SeenBy[g], e)) = n
        /\ Append(SeenBy[g], e)[n] = e
        /\ \A i \in 1 .. Len(got[g]) : Append(SeenBy[g], e)[i] = SeenBy[g][i]
    BY <2>1, AppendSeq
  <2>4. Seen(got'[g][n], heap') = e
    BY <1>4 DEF Seen
  <2>5. \A i \in 1 .. n : SeenBy'[g][i] = Append(SeenBy[g], e)[i]
    BY <1>2, <1>5, <2>1, <2>2, <2>3, <2>4
  <2> QED
    BY <2>2, <2>3, <2>5, SameSeq
<1>7. ASSUME NEW h \in Caller, h # g PROVE SeenBy'[h] = SeenBy[h]
  BY <1>3, <1>5, <1>7 DEF SeenBy
<1>8. SeenBy' = [SeenBy EXCEPT ![g] = Append(@, e)]
  BY <1>6, <1>7 DEF SeenBy
<1>9. Asked' = Asked \ {g}
  BY <1>1 DEF Asked
<1> QED
  BY <1>8, <1>9

\* Steps before the return are not seen.
LEMMA Unseen ==
    ASSUME CallInv, MapsInv, UNCHANGED <<spec, tmpl, heap, args, got>>, Asked' = Asked
    PROVE  UNCHANGED Calls!vars
<1>1. SeenBy' = SeenBy
  BY SeenStays
<1> QED
  BY <1>1 DEF Calls!vars, Asked

LEMMA CallAsks ==
    ASSUME CallInv, MapsInv, NEW g \in Caller, Call(g)
    PROVE  Calls!Ask(g)
<1>1. SeenBy' = SeenBy
  BY SeenStays DEF Call
<1>2. g \notin Asked /\ Asked' = Asked \union {g}
  BY DEF Call, Asked, CallInv, Shape
<1> QED
  BY <1>1, <1>2 DEF Calls!Ask, Call, Asked

\* The fragment a call ends with is the first of its bad ones.
LEMMA FailAnswers ==
    ASSUME CallInv, CallInv', MapsInv, NEW g \in Caller, pc[g] # "idle",
           NEW f \in Fragment, Fail(g, f)
    PROVE  Calls!Fail(g)
<1> DEFINE v == args[g].vars
           r == [args |-> args[g], err |-> RenderError(f, v), msgs |-> <<>>,
                 systemPrompt |-> <<>>, metadata |-> Nil, carried |-> Nil]
           e == [args |-> args[g], err |-> RenderError(f, v), msgs |-> <<>>,
                 systemPrompt |-> <<>>, metadata |-> Nil]
           bad == {k \in 1 .. Len(Rendering) : Failing(Rendering[k], v) # {}}
<1>1. Return(g, r) /\ UNCHANGED <<spec, tmpl, heap, args>> /\ RenderError(f, v) # Nil
  BY SomeError DEF Fail
<1>2. Right(r)
  <2>1. IsSeq(got[g]) /\ got'[g] = Append(got[g], r)
    BY <1>1, Numbered DEF Return, CallInv, Shape
  <2>2. Len(got'[g]) = Len(got[g]) + 1 /\ got'[g][Len(got[g]) + 1] = r /\ Len(got[g]) \in Nat
    BY <2>1, AppendSeq
  <2>3. \A x : Right(x)' <=> Right(x)
    BY <1>1, SameSpec
  <2> QED
    BY <2>2, <2>3 DEF CallInv, Returned
<1>3. e = Seen(r, heap')
  BY DEF Seen
<1>4. r.args.vars = v /\ r.err = RenderError(f, v)
  OBVIOUS
<1> HIDE DEF r
<1>5. PICK k \in bad : (\A j \in bad : k <= j) /\ RenderError(f, v) = RenderError(Rendering[k], v)
  BY <1>1, <1>2, <1>4 DEF Right, RightError
<1>6. SeenBy' = [SeenBy EXCEPT ![g] = Append(@, e)] /\ Asked' = Asked \ {g}
  BY <1>1, <1>3, SeenReturn
<1>7. Calls!Bad(g) = bad
  BY SameData DEF Calls!Bad, Rendering
<1>8. Calls!Answer(g, RenderError(Rendering[k], v), <<>>, <<>>, Nil)
  BY <1>1, <1>5, <1>6 DEF Calls!Answer, Asked
<1> QED
  BY <1>5, <1>7, <1>8, SameData DEF Calls!Fail, Rendering

\* Format answers with the layout.
LEMMA MessagesAnswer ==
    ASSUME CallInv, CallInv', MapsInv, NEW g \in Caller, ReturnMessages(g)
    PROVE  Calls!Format(g)
<1> DEFINE v == args[g].vars
           r == [args |-> args[g], err |-> Nil, msgs |-> msgs[g],
                 systemPrompt |-> <<>>, metadata |-> Nil, carried |-> Nil]
           e == [args |-> args[g], err |-> Nil, msgs |-> msgs[g],
                 systemPrompt |-> <<>>, metadata |-> Nil]
<1>1. /\ Return(g, r) /\ UNCHANGED <<spec, tmpl, heap, args>>
      /\ pc[g] = "return" /\ pc[g] # "idle" /\ args[g].fn = "Format"
  BY DEF ReturnMessages
<1>2. e = Seen(r, heap')
  BY DEF Seen
<1> HIDE DEF r
<1>3. SeenBy' = [SeenBy EXCEPT ![g] = Append(@, e)] /\ Asked' = Asked \ {g}
  BY <1>1, <1>2, SeenReturn
<1>4. msgs[g] = Calls!Messages(g) /\ Calls!Bad(g) = {}
  BY <1>1, AllFine, SameData DEF Calls!Messages, Calls!Bad, Rendering
<1>5. Calls!Answer(g, Nil, msgs[g], <<>>, Nil)
  BY <1>1, <1>3 DEF Calls!Answer, Asked
<1> QED
  BY <1>1, <1>4, <1>5 DEF Calls!Format

\* FormatRequest answers with a request that has the metadata of this moment.
LEMMA RequestAnswers ==
    ASSUME CallInv, CallInv', MapsInv, NEW g \in Caller, ReturnRequest(g)
    PROVE  Calls!FormatRequest(g)
<1> DEFINE v == args[g].vars
           ms == msgs[g]
           a == <<g, Len(got[g]) + 1>>
           said == IF Lifts(ms) THEN Tail(ms) ELSE ms
           prompt == IF Lifts(ms) THEN Head(ms).content ELSE <<>>
           r == [args |-> args[g], err |-> Nil, msgs |-> said, systemPrompt |-> prompt,
                 metadata |-> IF Meta = Nil THEN Nil ELSE a, carried |-> Meta]
           e == [args |-> args[g], err |-> Nil, msgs |-> said, systemPrompt |-> prompt,
                 metadata |-> Meta]
<1>1. /\ Return(g, r) /\ UNCHANGED <<spec, tmpl, args>>
      /\ heap' = [heap EXCEPT ![a] = Meta]
      /\ pc[g] = "return" /\ pc[g] # "idle" /\ args[g].fn = "FormatRequest"
  BY DEF ReturnRequest, Meta
<1>2. a \in Addr /\ a # <<"spec">>
  BY <1>1, Numbered, Addresses
<1>3. /\ heap'[a] = Meta /\ Meta' = Meta
      /\ \A b \in Addr \ {a} : heap'[b] = heap[b]
  BY <1>1, <1>2, Addresses DEF MapsInv, Meta
<1>4. ASSUME NEW h \in Caller, NEW i \in 1 .. Len(got[h]) PROVE heap'[<<h, i>>] = heap[<<h, i>>]
  <2>1. <<h, i>> \in Addr
    BY Numbered, Addresses
  <2>2. <<h, i>> # a
    <3>1. Len(got[g]) \in Nat
      BY Numbered
    <3> QED
      BY <3>1
  <2> QED
    BY <1>3, <2>1, <2>2
<1>5. e = Seen(r, heap')
  BY <1>2, <1>3, PromptAssumption DEF Seen
<1> HIDE DEF r
<1>6. SeenBy' = [SeenBy EXCEPT ![g] = Append(@, e)] /\ Asked' = Asked \ {g}
  <2> HIDE DEF e, a
  <2> QED
    BY <1>1, <1>4, <1>5, SeenReturn
<1>7. ms = Calls!Messages(g) /\ Calls!Bad(g) = {}
  BY <1>1, AllFine, SameData DEF Calls!Messages, Calls!Bad, Rendering
<1>8. Calls!Answer(g, Nil, said, prompt, Meta)
  BY <1>1, <1>3, <1>6 DEF Calls!Answer, Asked, Meta
<1>9. Head(ms) = ms[1]
  OBVIOUS
<1> QED
  BY <1>1, <1>7, <1>8, <1>9 DEF Calls!FormatRequest, Lifts, Meta

LEMMA SpecWritten ==
    ASSUME CallInv, MapsInv, WriteSpec
    PROVE  Calls!WriteSpec
<1>1. PICK k \in Key, v \in Value : heap' = [heap EXCEPT ![<<"spec">>] = Put(@, k, v)]
  BY DEF WriteSpec
<1>2. Meta # Nil /\ Meta' = Put(Meta, k, v)
  BY <1>1, Addresses DEF WriteSpec, MapsInv, SpecMap, Meta
<1>3. \A g \in Caller, i \in 1 .. MaxFormats : heap'[<<g, i>>] = heap[<<g, i>>]
  BY <1>1, Addresses DEF MapsInv
<1>4. SeenBy' = SeenBy
  BY <1>3, SeenStays DEF WriteSpec
<1>5. UNCHANGED <<spec, tmpl, Asked, args>>
  BY DEF WriteSpec, Asked
<1> QED
  BY <1>2, <1>4, <1>5, SameData DEF Calls!WriteSpec, Meta, Asked

\* An owner's write is seen in its own request only.
LEMMA RequestWritten ==
    ASSUME CallInv, MapsInv, NEW g \in Caller, NEW i \in 1 .. MaxFormats, WriteRequest(g, i)
    PROVE  i \in 1 .. Len(SeenBy[g]) /\ Calls!WriteRequest(g, i)
<1>1. Owned(g, i)
  BY WritesOwn
<1>2. PICK k \in Key, v \in Value : heap' = [heap EXCEPT ![<<g, i>>] = Put(@, k, v)]
  BY <1>1 DEF WriteRequest, Owned
<1>3. /\ heap'[<<g, i>>] = Put(heap[<<g, i>>], k, v)
      /\ \A b \in Addr \ {<<g, i>>} : heap'[b] = heap[b]
  BY <1>1, <1>2 DEF MapsInv, Owned
<1>4. got' = got
  BY DEF WriteRequest
<1>5. ASSUME NEW h \in Caller, NEW j \in 1 .. Len(got[h]), <<h, j>> # <<g, i>>
      PROVE  Seen(got'[h][j], heap') = Seen(got[h][j], heap)
  <2>1. <<h, j>> \in Addr
    BY Numbered, Addresses
  <2> QED
    BY <1>3, <1>4, <1>5, <2>1, SeenAsBefore
<1>6. /\ SeenBy[g][i] = Seen(got[g][i], heap) /\ SeenBy[g][i].metadata = heap[<<g, i>>]
      /\ i \in 1 .. Len(SeenBy[g])
  BY <1>1, SeenList DEF Seen, Owned
<1>7. Seen(got'[g][i], heap') = [SeenBy[g][i] EXCEPT !.metadata = Put(@, k, v)]
  BY <1>1, <1>3, <1>4, <1>6 DEF Seen, Owned
<1> DEFINE e == [SeenBy[g][i] EXCEPT !.metadata = Put(@, k, v)]
<1> HIDE DEF e
<1>8. SeenBy' = [SeenBy EXCEPT ![g][i] = e]
  <2>1. SeenBy'[g] = [SeenBy[g] EXCEPT ![i] = e]
    BY <1>1, <1>4, <1>5, <1>7 DEF SeenBy, Owned, e
  <2>2. ASSUME NEW h \in Caller, h # g PROVE SeenBy'[h] = SeenBy[h]
    BY <1>4, <1>5, <2>2 DEF SeenBy
  <2> QED
    BY <2>1, <2>2 DEF SeenBy
<1>9. SeenBy[g][i].metadata # Nil
  BY <1>1, <1>6, PromptAssumption DEF Owned
<1>10. UNCHANGED <<spec, tmpl, Meta, Asked, args>>
  BY <1>3, Addresses DEF WriteRequest, Asked, Meta
<1>11. SeenBy' = [SeenBy EXCEPT ![g][i].metadata = Calls!Put(@, k, v)]
  BY <1>8, SameData DEF e
<1> QED
  BY <1>6, <1>9, <1>10, <1>11 DEF Calls!WriteRequest, Meta, Asked

LEMMA CallsInit == Init => Calls!Init
<1> SUFFICES ASSUME Init PROVE Calls!Init
  OBVIOUS
<1>1. Meta = spec.metadata /\ Asked = {}
  BY Addresses DEF Init, Meta, Asked
<1>2. SeenBy = [g \in Caller |-> <<>>]
  <2>1. ASSUME NEW g \in Caller PROVE SeenBy[g] = <<>>
    BY SeenList, InitCallInv, ShortSeq, SameSeq DEF Init
  <2> QED
    BY <2>1 DEF SeenBy
<1> QED
  BY <1>1, <1>2 DEF Init, Calls!Init, Meta, Asked

\* Between its first step and its return a call is either not seen or over.
LEMMA StepAnswers ==
    ASSUME CallInv, CallInv', MapsInv, NEW g \in Caller, Step(g)
    PROVE  \/ Calls!Ask(g) \/ UNCHANGED Calls!vars
           \/ g \in Asked /\ (Calls!Fail(g) \/ Calls!Format(g) \/ Calls!FormatRequest(g))
<1>1. ASSUME NEW f \in Fragment, Fail(g, f), pc[g] # "idle"
      PROVE  g \in Asked /\ Calls!Fail(g)
  BY <1>1, FailAnswers DEF Asked
<1>2. ASSUME UNCHANGED <<spec, tmpl, heap, args, got>>, pc[g] # "idle",
             NEW next, next # "idle", pc' = [pc EXCEPT ![g] = next]
      PROVE  UNCHANGED Calls!vars
  <2>1. Asked' = Asked
    BY <1>2 DEF Asked, CallInv, Shape
  <2> QED
    BY <1>2, <2>1, Unseen
<1>3. spec \in Specs
  BY DEF CallInv, Shape
<1>4. CASE Call(g)
  BY <1>4, CallAsks
<1>5. CASE System(g)
  <2>1. CASE spec.system # Nil /\ Fail(g, spec.system)
    BY <1>1, <1>3, <1>5, <2>1, SpecParts DEF System
  <2>2. CASE Skip(g, "fewShot") \/ Say(g, "system", spec.system, "fewShot")
    BY <1>2, <1>5, <2>2 DEF System, Skip, Say
  <2> QED
    BY <1>5, <2>1, <2>2 DEF System
<1>6. CASE FewShot(g)
  <2>1. pc[g] = "fewShot" /\ Len(msgs[g]) \in Systems .. Len(Turns)
    BY <1>6 DEF FewShot, CallInv, Underway
  <2> DEFINE n == NextTurn(g)
             t == spec.fewShot[n]
  <2>2. n > Len(spec.fewShot) \/ t.content \in Fragment
    <3>1. n = Len(msgs[g]) + 1 - Systems
      BY DEF NextTurn, Systems
    <3>2. n \in Nat /\ n >= 1
      BY <1>3, <2>1, <3>1, TurnsAre
    <3> QED
      BY <1>3, <3>2, SpecParts
  <2>3. CASE ~(n > Len(spec.fewShot)) /\ Fail(g, t.content)
    BY <1>1, <2>1, <2>2, <2>3
  <2>4. CASE Skip(g, "history") \/ Say(g, t.role, t.content, "fewShot")
    BY <1>2, <2>1, <2>4 DEF Skip, Say
  <2> QED
    BY <1>6, <2>3, <2>4 DEF FewShot
<1>7. CASE History(g)
  BY <1>2, <1>7 DEF History
<1>8. CASE User(g)
  <2>1. pc[g] = "user" /\ spec.user \in Fragment
    BY <1>3, <1>8, SpecParts DEF User, CallInv, Underway, Valid
  <2>2. CASE Fail(g, spec.user)
    BY <1>1, <2>1, <2>2
  <2>3. CASE Say(g, "user", spec.user, "return")
    BY <1>2, <2>1, <2>3 DEF Say
  <2> QED
    BY <1>8, <2>2, <2>3 DEF User
<1>9. CASE ReturnMessages(g)
  BY <1>9, MessagesAnswer DEF ReturnMessages, Asked
<1>10. CASE ReturnRequest(g)
  BY <1>10, RequestAnswers DEF ReturnRequest, Asked
<1> QED
  BY <1>4, <1>5, <1>6, <1>7, <1>8, <1>9, <1>10 DEF Step

LEMMA CallsStep ==
    CallInv /\ CallInv' /\ MapsInv /\ [Next]_vars => [Calls!Next]_(Calls!vars)
<1> SUFFICES ASSUME CallInv, CallInv', MapsInv, [Next]_vars
             PROVE  Calls!Next \/ UNCHANGED Calls!vars
  OBVIOUS
<1>1. CASE New
  <2>1. SeenBy' = SeenBy /\ UNCHANGED <<spec, Meta, Asked, args>>
    BY <1>1, SeenStays DEF New, Meta, Asked
  <2>2. Calls!New
    BY <1>1, <2>1, SameData DEF New, Calls!New, Meta, Asked
  <2> QED
    BY <2>2 DEF Calls!Next
<1>2. ASSUME NEW g \in Caller, Step(g) PROVE Calls!Next \/ UNCHANGED Calls!vars
  BY <1>2, StepAnswers DEF Calls!Next, Asked
<1>3. CASE WriteSpec
  BY <1>3, SpecWritten DEF Calls!Next
<1>4. ASSUME NEW g \in Caller, NEW i \in 1 .. MaxFormats, WriteRequest(g, i) PROVE Calls!Next
  BY <1>4, RequestWritten DEF Calls!Next
<1>5. CASE UNCHANGED vars
  BY <1>5, Unseen DEF vars, Asked
<1> QED
  BY <1>1, <1>2, <1>3, <1>4, <1>5 DEF Next

\* A call is one step to everybody who shares the template, and a request is a
\* value, for any specs, callers and bounds.
THEOREM CallsImplemented == FormatSpec => ImplementsCalls
<1>1. FormatSpec => Calls!CallSpec
  BY InitCallInv, StepCallInv, InitMapsInv, StepMapsInv, CallsInit, CallsStep, PTL
     DEF FormatSpec, Calls!CallSpec
<1> QED
  BY <1>1 DEF ImplementsCalls
=============================================================================
