---------------------------- MODULE BraceTemplate ----------------------------
(***************************************************************************)
(* prompt/brace.go: compileBrace reads a source text once, byte by byte,   *)
(* into segments, and render puts values in the place of the placeholders. *)
(* Texts are sequences of characters; offsets count from 1.                *)
(***************************************************************************)
EXTENDS Integers, SequencesExt

CONSTANTS
    Char,      \* characters of sources and values
    Open,      \* "{"
    Close,     \* "}"
    Space,     \* those strings.TrimSpace removes
    Sources,   \* the sources templates are compiled from
    AllVars,   \* the Vars templates are rendered with
    Nil

Brace == {Open, Close}

ASSUME BraceAssumption ==
    /\ Brace \subseteq Char /\ Open # Close
    /\ Space \subseteq Char \ Brace
    /\ Sources \subseteq Seq(Char)
    /\ \A v \in AllVars : DOMAIN v \subseteq Seq(Char) /\ \A n \in DOMAIN v : v[n] \in Seq(Char)

VARIABLES
    src,    \* the source
    i,      \* where the parser, and then the renderer, is
    lit,    \* the literal text it is collecting
    segs,   \* the segments so far
    err,    \* the error returned, or Nil
    bound,  \* the Vars of the rendering, Nil before
    out,    \* the text rendered so far, and returned
    pc      \* "compile", "compiled", "render", "done" or "rejected"

vars == <<src, i, lit, segs, err, bound, out, pc>>

Segment == [isVar : BOOLEAN, text : Seq(Char)]
Literal(s) == [isVar |-> FALSE, text |-> s]
Var(name) == [isVar |-> TRUE, text |-> name]

Init ==
    /\ src \in Sources
    /\ i = 1
    /\ lit = <<>>
    /\ segs = <<>>
    /\ err = Nil
    /\ bound = Nil
    /\ out = <<>>
    /\ pc = "compile"

-----------------------------------------------------------------------------
\* flushLit: the literal text so far becomes a segment, if there is any.
Flushed == IF lit = <<>> THEN segs ELSE Append(segs, Literal(lit))

\* The character under the parser is c; c is doubled.
At(c) == pc = "compile" /\ i <= Len(src) /\ src[i] = c

\* Mutant of Doubled: at the end of the source no brace is.
DoubledInside(c) == i + 1 < Len(src) /\ src[i + 1] = c

Doubled(c) == i < Len(src) /\ src[i + 1] = c

\* What a placeholder may be called.
ValidName(s) == /\ \A k \in 1 .. Len(s) : s[k] \notin Brace
                /\ \E k \in 1 .. Len(s) : s[k] \notin Space

\* The closing braces after the parser, and the name up to the first of them.
Closing == {j \in i + 1 .. Len(src) : src[j] = Close}
End == CHOOSE j \in Closing : \A k \in Closing : j <= k
VarName == SubSeq(src, i + 1, End - 1)

Plain ==
    /\ \E c \in Char \ Brace : At(c) /\ lit' = Append(lit, c)
    /\ i' = i + 1
    /\ UNCHANGED <<src, segs, err, bound, out, pc>>

\* "{{" and "}}" stand for one brace.
Escape(c) ==
    /\ At(c)
    /\ Doubled(c)
    /\ lit' = Append(lit, c)
    /\ i' = i + 2
    /\ UNCHANGED <<src, segs, err, bound, out, pc>>

\* Mutant of Placeholder: the literal text before it is not flushed.
PlaceholderUnflushed ==
    /\ At(Open) /\ ~Doubled(Open)
    /\ Closing # {} /\ ValidName(VarName)
    /\ segs' = Append(segs, Var(VarName))
    /\ i' = End + 1
    /\ UNCHANGED <<src, lit, err, bound, out, pc>>

\* Mutant of Placeholder: the literal text is flushed also when it is empty.
PlaceholderAfterAny ==
    /\ At(Open) /\ ~Doubled(Open)
    /\ Closing # {} /\ ValidName(VarName)
    /\ segs' = segs \o <<Literal(lit), Var(VarName)>>
    /\ lit' = <<>>
    /\ i' = End + 1
    /\ UNCHANGED <<src, err, bound, out, pc>>

Placeholder ==
    /\ At(Open) /\ ~Doubled(Open)
    /\ Closing # {} /\ ValidName(VarName)
    /\ segs' = Append(Flushed, Var(VarName))
    /\ lit' = <<>>
    /\ i' = End + 1
    /\ UNCHANGED <<src, err, bound, out, pc>>

Reject(e) ==
    /\ err' = e
    /\ pc' = "rejected"
    /\ UNCHANGED <<src, i, lit, segs, bound, out>>

Malformed ==
    /\ At(Open) /\ ~Doubled(Open)
    /\ Closing # {} /\ ~ValidName(VarName)
    /\ Reject(<<"malformed placeholder", VarName>>)

\* Mutant of Unmatched: a lone closing brace is neither taken nor rejected.
UnmatchedOpening(c) ==
    /\ At(c) /\ ~Doubled(c)
    /\ c = Open /\ Closing = {}
    /\ Reject(<<"unmatched", c, i>>)

\* A brace that neither escapes nor opens a placeholder that is closed.
Unmatched(c) ==
    /\ At(c) /\ ~Doubled(c)
    /\ c = Open => Closing = {}
    /\ Reject(<<"unmatched", c, i>>)

Compiled ==
    /\ pc = "compile"
    /\ i > Len(src)
    /\ segs' = Flushed
    /\ lit' = <<>>
    /\ pc' = "compiled"
    /\ UNCHANGED <<src, i, err, bound, out>>

-----------------------------------------------------------------------------
Render ==
    /\ pc = "compiled"
    /\ bound' \in AllVars
    /\ i' = 1
    /\ pc' = "render"
    /\ UNCHANGED <<src, lit, segs, err, out>>

\* Mutant of Write: a value that holds a placeholder is expanded once more.
WriteExpanded(s) ==
    /\ out' = out \o IF Len(s) > 2 /\ SubSeq(s, 2, Len(s) - 1) \in DOMAIN bound
                       THEN bound[SubSeq(s, 2, Len(s) - 1)] ELSE s
    /\ i' = i + 1
    /\ UNCHANGED <<src, lit, segs, err, bound, pc>>

Write(s) ==
    /\ out' = out \o s
    /\ i' = i + 1
    /\ UNCHANGED <<src, lit, segs, err, bound, pc>>

\* A variable without a value ends the rendering; what was written is dropped.
MissingVar(name) ==
    /\ name \notin DOMAIN bound
    /\ err' = <<"ErrMissingVar", name>>
    /\ out' = <<>>
    /\ pc' = "done"
    /\ UNCHANGED <<src, i, lit, segs, bound>>

RenderSegment ==
    /\ pc = "render"
    /\ i <= Len(segs)
    /\ \/ ~segs[i].isVar /\ Write(segs[i].text)
       \/ segs[i].isVar /\ segs[i].text \in DOMAIN bound /\ Write(bound[segs[i].text])
       \/ segs[i].isVar /\ MissingVar(segs[i].text)

Rendered ==
    /\ pc = "render"
    /\ i > Len(segs)
    /\ pc' = "done"
    /\ UNCHANGED <<src, i, lit, segs, err, bound, out>>

Next == \/ Plain \/ Placeholder \/ Malformed \/ Compiled
        \/ \E c \in Brace : Escape(c) \/ Unmatched(c)
        \/ Render \/ RenderSegment \/ Rendered

Spec == Init /\ [][Next]_vars

\* The functions run to their end: they call nobody.
FairSpec == Spec /\ WF_vars(Next)
-----------------------------------------------------------------------------
(***************************************************************************)
(* The grammar, told without a parser: a reading of the first n characters *)
(* is a set of places to cut them, such that what lies between two         *)
(* neighbouring cuts is a token.                                           *)
(***************************************************************************)
Token(s) == \/ Len(s) = 1 /\ s[1] \notin Brace
            \/ Len(s) = 2 /\ s[1] \in Brace /\ s[2] = s[1]
            \/ /\ Len(s) > 2 /\ s[1] = Open /\ s[Len(s)] = Close
               /\ ValidName(SubSeq(s, 2, Len(s) - 1))

Neighbours(C, m, n) == m < n /\ \A p \in C : p <= m \/ n <= p
Reading(C, n) ==
    /\ C \subseteq 0 .. n /\ {0, n} \subseteq C
    /\ \A m, p \in C : Neighbours(C, m, p) => Token(SubSeq(src, m + 1, p))
Readable(n) == \E C \in SUBSET (0 .. n) : Reading(C, n)

\* A source is accepted exactly if it can be read; a rejected one is rejected
\* where its longest readable part ends (brace.go:10-13, 37-69).
AcceptsGrammar ==
    /\ pc \notin {"compile", "rejected"} => Readable(Len(src))
    /\ pc = "rejected" => /\ Readable(i - 1)
                          /\ \A n \in i .. Len(src) : ~Readable(n)

Twice(c) == IF c \in Brace THEN <<c, c>> ELSE <<c>>
Escaped(s) == FlattenSeq([j \in 1 .. Len(s) |-> Twice(s[j])])
Spelled(seg) == IF seg.isVar THEN <<Open>> \o seg.text \o <<Close>> ELSE Escaped(seg.text)
Spelling(s) == FlattenSeq([k \in 1 .. Len(s) |-> Spelled(s[k])])

\* The segments spell the source: put back into braces and escapes they give
\* it character by character, so nothing is lost, moved or read twice at the
\* edges between text, escapes and placeholders (brace.go:36-71).
SpellsSource ==
    /\ pc \notin {"compile", "rejected"} => Spelling(segs) = src
    /\ pc = "compile" => Spelling(Flushed) = SubSeq(src, 1, i - 1)

\* A template has no empty and no two neighbouring literals, and each of its
\* placeholders has a name that Vars can have: not blank and without a brace
\* (brace.go:18-34, 51-56).
NormalForm ==
    \A k \in 1 .. Len(segs) :
      /\ segs[k].isVar => ValidName(segs[k].text)
      /\ ~segs[k].isVar => /\ segs[k].text # <<>>
                           /\ k > 1 => segs[k - 1].isVar

\* The segments without a value, and what the others are replaced by.
Missing == {k \in 1 .. Len(segs) : segs[k].isVar /\ segs[k].text \notin DOMAIN bound}
Filling(k) == IF segs[k].isVar THEN bound[segs[k].text] ELSE segs[k].text

\* Rendering puts each value in once and verbatim, braces in it included, or
\* fails for the first placeholder, in the order of the source, that has none,
\* and then returns no text (brace.go:76-90, prompt.go:61-65).
FilledOnce ==
    pc = "done" =>
      IF Missing = {}
        THEN err = Nil /\ out = FlattenSeq([k \in 1 .. Len(segs) |-> Filling(k)])
        ELSE /\ out = <<>>
             /\ \E k \in Missing : /\ \A j \in Missing : k <= j
                                   /\ err = <<"ErrMissingVar", segs[k].text>>

\* Whatever the source, the parser comes to an end, and so does the rendering
\* (brace.go:37-72, 76-90).
Ends == <>(pc \in {"rejected", "done"})
=============================================================================
