------------------------- MODULE BraceTemplateProofs -------------------------
(***************************************************************************)
(* Theorems about BraceTemplate, for every alphabet and every source: the  *)
(* parser accepts exactly its grammar and rejects at the end of the        *)
(* longest readable part, and every template is in normal form.            *)
(***************************************************************************)
EXTENDS BraceTemplate, Flattening, SequenceTheorems

(***************************************************************************)
(* Numbers and pieces of sequences.                                        *)
(***************************************************************************)
LEMMA Piece ==
  ASSUME NEW S, NEW s \in Seq(S), NEW m \in 1 .. Len(s) + 1, NEW n \in 0 .. Len(s), m <= n + 1
  PROVE  /\ SubSeq(s, m, n) \in Seq(S)
         /\ Len(SubSeq(s, m, n)) = n - m + 1
         /\ \A k \in 1 .. n - m + 1 : SubSeq(s, m, n)[k] = s[m + k - 1]
OBVIOUS

\* A piece without its first and last element is a piece.
LEMMA Inside ==
  ASSUME NEW S, NEW s \in Seq(S), NEW m \in 1 .. Len(s), NEW n \in 1 .. Len(s), n >= m + 2
  PROVE  SubSeq(SubSeq(s, m, n), 2, n - m) = SubSeq(s, m + 1, n - 1)
<1> DEFINE t == SubSeq(s, m, n)
<1>1. t \in Seq(S) /\ Len(t) = n - m + 1 /\ \A k \in 1 .. n - m + 1 : t[k] = s[m + k - 1]
  BY Piece
<1>2. /\ SubSeq(s, m + 1, n - 1) \in Seq(S)
      /\ Len(SubSeq(s, m + 1, n - 1)) = n - m - 1
      /\ \A k \in 1 .. n - m - 1 : SubSeq(s, m + 1, n - 1)[k] = s[m + k]
  BY Piece
<1> HIDE DEF t
<1>3. /\ SubSeq(t, 2, n - m) \in Seq(S)
      /\ Len(SubSeq(t, 2, n - m)) = n - m - 1
      /\ \A k \in 1 .. n - m - 1 : SubSeq(t, 2, n - m)[k] = t[1 + k]
  BY <1>1, Piece
<1>4. \A k \in 1 .. n - m - 1 : SubSeq(t, 2, n - m)[k] = SubSeq(s, m + 1, n - 1)[k]
  <2> TAKE k \in 1 .. n - m - 1
  <2>1. 1 + k \in 1 .. n - m + 1
    OBVIOUS
  <2> QED BY <1>1, <1>2, <1>3, <2>1
<1>5. SubSeq(t, 2, n - m) = SubSeq(s, m + 1, n - 1)
  BY <1>2, <1>3, <1>4
<1> QED BY <1>5 DEF t

(***************************************************************************)
(* Tokens of the source, by the place where they start.                    *)
(***************************************************************************)
LEMMA TokenForm ==
  ASSUME src \in Seq(Char), NEW m \in 1 .. Len(src), NEW n \in m .. Len(src)
  PROVE  Token(SubSeq(src, m, n)) <=>
           \/ n = m /\ src[m] \notin Brace
           \/ n = m + 1 /\ src[m] \in Brace /\ src[n] = src[m]
           \/ /\ n > m + 1 /\ src[m] = Open /\ src[n] = Close
              /\ ValidName(SubSeq(src, m + 1, n - 1))
<1> DEFINE s == SubSeq(src, m, n)
<1>1. s \in Seq(Char) /\ Len(s) = n - m + 1 /\ \A k \in 1 .. n - m + 1 : s[k] = src[m + k - 1]
  BY Piece
<1>2. s[1] = src[m] /\ s[Len(s)] = src[n]
  BY <1>1
<1>3. ASSUME n > m + 1 PROVE SubSeq(s, 2, Len(s) - 1) = SubSeq(src, m + 1, n - 1)
  BY <1>1, <1>3, Inside
<1>4. ASSUME n = m + 1 PROVE s[2] = src[n]
  BY <1>1, <1>4
<1> HIDE DEF s
<1>5. Token(s) <=>
           \/ n = m /\ src[m] \notin Brace
           \/ n = m + 1 /\ src[m] \in Brace /\ src[n] = src[m]
           \/ /\ n > m + 1 /\ src[m] = Open /\ src[n] = Close
              /\ ValidName(SubSeq(src, m + 1, n - 1))
  <2>1. CASE n = m
    <3>1. Len(s) = 1
      BY <1>1, <2>1
    <3> QED BY <1>2, <2>1, <3>1 DEF Token
  <2>2. CASE n = m + 1
    BY <1>1, <1>2, <1>4, <2>2 DEF Token
  <2>3. CASE n > m + 1
    <3>1. Len(s) > 2 /\ Len(s) # 1 /\ Len(s) # 2
      BY <1>1, <2>3
    <3>2. Token(s) <=> /\ s[1] = Open /\ s[Len(s)] = Close
                       /\ ValidName(SubSeq(s, 2, Len(s) - 1))
      BY <3>1, Zenon DEF Token
    <3>3. n # m /\ n # m + 1
      BY <2>3
    <3> QED BY <1>2, <1>3, <2>3, <3>2, <3>3
  <2> QED BY <2>1, <2>2, <2>3
<1> QED BY <1>5 DEF s

\* No brace in a name.
LEMMA NameHasNoBrace ==
  ASSUME src \in Seq(Char), NEW m \in 1 .. Len(src), NEW n \in m + 1 .. Len(src),
         ValidName(SubSeq(src, m + 1, n - 1)), NEW j \in m + 1 .. n - 1
  PROVE  src[j] \notin Brace
<1>1. /\ Len(SubSeq(src, m + 1, n - 1)) = n - m - 1
      /\ \A k \in 1 .. n - m - 1 : SubSeq(src, m + 1, n - 1)[k] = src[m + k]
  BY Piece
<1>2. j - m \in 1 .. n - m - 1 /\ m + (j - m) = j
  OBVIOUS
<1> QED BY <1>1, <1>2 DEF ValidName

\* The name the parser takes ends at the first closing brace.
LEMMA FirstClosing ==
  ASSUME src \in Seq(Char), i \in 1 .. Len(src), Closing # {}
  PROVE  End \in Closing /\ \A j \in Closing : End <= j
<1>1. Closing \subseteq Nat
  BY DEF Closing
<1>2. \E j \in Closing : \A k \in Closing : j <= k
  BY <1>1, LeastElement
<1> QED BY <1>2 DEF End

\* Every token that starts where the parser is ends where one of its branches
\* goes: there is no choice.
LEMMA TokenHere ==
  ASSUME src \in Seq(Char), i \in 1 .. Len(src), NEW n \in i .. Len(src)
  PROVE  /\ src[i] \notin Brace => (Token(SubSeq(src, i, n)) <=> n = i)
         /\ src[i] \in Brace /\ Doubled(src[i]) => (Token(SubSeq(src, i, n)) <=> n = i + 1)
         /\ src[i] = Open /\ ~Doubled(Open) =>
              (Token(SubSeq(src, i, n)) <=> Closing # {} /\ ValidName(VarName) /\ n = End)
         /\ src[i] = Close /\ ~Doubled(Close) => ~Token(SubSeq(src, i, n))
<1> DEFINE Named == /\ n > i + 1 /\ src[i] = Open /\ src[n] = Close
                    /\ ValidName(SubSeq(src, i + 1, n - 1))
<1>0. Token(SubSeq(src, i, n)) <=>
           \/ n = i /\ src[i] \notin Brace
           \/ n = i + 1 /\ src[i] \in Brace /\ src[n] = src[i]
           \/ Named
  BY TokenForm
<1>1. ASSUME Named PROVE ~Doubled(Open)
  <2>1. src[i + 1] \notin Brace
    BY <1>1, NameHasNoBrace
  <2> QED BY <2>1 DEF Doubled, Brace
<1>2. ASSUME Named PROVE Closing # {} /\ n = End
  <2>1. n \in Closing
    BY <1>1, <1>2 DEF Closing
  <2>2. End \in Closing /\ End <= n
    BY <2>1, FirstClosing
  <2>3. ASSUME End < n PROVE FALSE
    <3>1. End \in i + 1 .. n - 1 /\ src[End] = Close
      BY <2>2, <2>3 DEF Closing
    <3>2. src[End] \notin Brace
      BY <1>2, <3>1, NameHasNoBrace
    <3> QED BY <3>1, <3>2 DEF Brace
  <2> QED BY <2>1, <2>2, <2>3 DEF Closing
<1>3. ASSUME src[i] = Open, Closing # {}, ValidName(VarName), n = End PROVE Named
  <2>1. n \in Closing
    BY <1>3, FirstClosing
  <2>2. src[n] = Close /\ n >= i + 1
    BY <2>1 DEF Closing
  <2>3. n # i + 1
    <3> SUFFICES ASSUME n = i + 1 PROVE FALSE
      OBVIOUS
    <3>1. Len(VarName) = 0
      BY <1>3 DEF VarName
    <3> QED BY <1>3, <3>1 DEF ValidName
  <2> QED BY <1>3, <2>2, <2>3 DEF VarName
<1>4. Named => ValidName(VarName)
  BY <1>2 DEF VarName
<1>5. Open \in Brace /\ Close \in Brace /\ Open # Close
  BY BraceAssumption DEF Brace
<1> HIDE DEF Named
<1>6. ASSUME src[i] \notin Brace PROVE Token(SubSeq(src, i, n)) <=> n = i
  BY <1>0, <1>5, <1>6 DEF Named
<1>7. ASSUME src[i] \in Brace, Doubled(src[i]) PROVE Token(SubSeq(src, i, n)) <=> n = i + 1
  BY <1>0, <1>1, <1>7 DEF Doubled, Named
<1>8. ASSUME src[i] = Open, ~Doubled(Open)
      PROVE  Token(SubSeq(src, i, n)) <=> Closing # {} /\ ValidName(VarName) /\ n = End
  BY <1>0, <1>2, <1>3, <1>4, <1>5, <1>8 DEF Doubled
<1>9. ASSUME src[i] = Close, ~Doubled(Close) PROVE ~Token(SubSeq(src, i, n))
  BY <1>0, <1>5, <1>9 DEF Doubled, Named
<1> QED BY <1>6, <1>7, <1>8, <1>9

(***************************************************************************)
(* Readings.                                                               *)
(***************************************************************************)
\* A token after a reading makes a longer one.
LEMMA ReadingExtends ==
  ASSUME NEW m \in Nat, NEW n \in Nat, m < n,
         NEW C, Reading(C, m), Token(SubSeq(src, m + 1, n))
  PROVE  Reading(C \union {n}, n)
<1> DEFINE D == C \union {n}
<1>1. C \subseteq 0 .. m /\ m \in C /\ 0 \in C
  BY DEF Reading
<1>2. D \subseteq 0 .. n /\ {0, n} \subseteq D
  BY <1>1
<1>3. ASSUME NEW a \in D, NEW p \in D, Neighbours(D, a, p) PROVE Token(SubSeq(src, a + 1, p))
  <2>1. a < p /\ a \in Int /\ p \in Int
    BY <1>2, <1>3 DEF Neighbours
  <2>2. a \in C
    BY <1>2, <2>1
  <2>3. CASE p \in C
    BY <1>3, <2>2, <2>3 DEF Reading, Neighbours
  <2>4. CASE p = n
    <3>1. m <= a
      BY <1>1, <1>3, <2>4 DEF Neighbours
    <3>2. a = m
      BY <1>1, <2>2, <3>1
    <3> QED BY <2>4, <3>2
  <2> QED BY <2>3, <2>4
<1> QED BY <1>2, <1>3 DEF Reading

\* From every cut of a reading but the last a token leads to another.
LEMMA ReadingGoesOn ==
  ASSUME NEW n \in Nat, NEW C, Reading(C, n), NEW m \in C, m < n
  PROVE  \E p \in C : m < p /\ Token(SubSeq(src, m + 1, p))
<1> DEFINE S == {p \in C : m < p}
<1>1. C \subseteq 0 .. n /\ n \in C
  BY DEF Reading
<1>2. PICK p \in S : \A q \in S : p <= q
  <2>1. n \in S
    BY <1>1
  <2>2. ASSUME NEW q \in S PROVE q \in Nat
    <3>1. q \in 0 .. n
      BY <1>1
    <3> QED BY <3>1
  <2> HIDE DEF S
  <2> QED BY <2>1, <2>2, LeastElement
<1>3. Neighbours(C, m, p)
  <2>1. ASSUME NEW q \in C PROVE q <= m \/ p <= q
    BY <1>1, <1>2, <2>1
  <2> QED BY <1>2, <2>1 DEF Neighbours
<1> QED BY <1>2, <1>3 DEF Reading

\* All readings cut after the first k characters.
Forced(k) == \A n \in k .. Len(src) : \A C \in SUBSET (0 .. n) : Reading(C, n) => k \in C

\* Where the parser is, the text before has been read, and in the only way.
Parsing == /\ i \in 1 .. Len(src) + 1
           /\ Readable(i - 1)
           /\ Forced(i - 1)

\* A branch that takes the only token there is goes on in the only way.
LEMMA TokenTaken ==
  ASSUME src \in Seq(Char), Parsing, i <= Len(src), NEW p \in i .. Len(src),
         \A n \in i .. Len(src) : Token(SubSeq(src, i, n)) <=> n = p
  PROVE  Readable(p) /\ Forced(p)
<1>1. i \in 1 .. Len(src) /\ i - 1 \in Nat /\ (i - 1) + 1 = i /\ p \in Nat /\ i - 1 < p
  BY DEF Parsing
<1>2. Readable(p)
  <2>1. PICK C \in SUBSET (0 .. i - 1) : Reading(C, i - 1)
    BY DEF Parsing, Readable
  <2>2. Reading(C \union {p}, p)
    BY <1>1, <2>1, ReadingExtends
  <2>3. C \union {p} \in SUBSET (0 .. p)
    <3>1. \A q \in 0 .. i - 1 : q \in 0 .. p
      BY <1>1
    <3>2. p \in 0 .. p
      BY <1>1
    <3> QED BY <3>1, <3>2
  <2> QED BY <2>2, <2>3 DEF Readable
<1>3. ASSUME NEW n \in p .. Len(src), NEW C \in SUBSET (0 .. n), Reading(C, n) PROVE p \in C
  <2>1. n \in i - 1 .. Len(src) /\ i - 1 < n /\ n \in Nat
    BY <1>1
  <2>2. i - 1 \in C
    BY <1>3, <2>1 DEF Parsing, Forced
  <2>3. PICK q \in C : i - 1 < q /\ Token(SubSeq(src, (i - 1) + 1, q))
    BY <1>3, <2>1, <2>2, ReadingGoesOn
  <2>4. q \in i .. Len(src)
    BY <1>1, <2>3
  <2> QED BY <1>1, <2>3, <2>4
<1> QED BY <1>2, <1>3 DEF Forced

\* Where no token starts nothing longer can be read.
LEMMA NoTokenNoReading ==
  ASSUME src \in Seq(Char), Parsing, i <= Len(src),
         \A n \in i .. Len(src) : ~Token(SubSeq(src, i, n)), NEW n \in i .. Len(src)
  PROVE  ~Readable(n)
<1> SUFFICES ASSUME NEW C \in SUBSET (0 .. n), Reading(C, n) PROVE FALSE
  BY DEF Readable
<1>1. i - 1 \in Nat /\ (i - 1) + 1 = i /\ n \in Nat /\ n \in i - 1 .. Len(src) /\ i - 1 < n
  BY DEF Parsing
<1>2. i - 1 \in C
  BY <1>1 DEF Parsing, Forced
<1>3. PICK q \in C : i - 1 < q /\ Token(SubSeq(src, (i - 1) + 1, q))
  BY <1>1, <1>2, ReadingGoesOn
<1>4. q \in i .. Len(src)
  BY <1>1, <1>3
<1> QED BY <1>1, <1>3, <1>4

(***************************************************************************)
(* The parser.                                                             *)
(***************************************************************************)
TypeInv == /\ src \in Seq(Char)
           /\ lit \in Seq(Char)
           /\ segs \in Seq(Segment)
           /\ pc \in {"compile", "compiled", "render", "done", "rejected"}

GrammarInv == /\ TypeInv
              /\ pc = "compile" => Parsing
              /\ AcceptsGrammar

\* Each branch of the parser takes the only token there is.
LEMMA TokenOfBranch ==
  ASSUME GrammarInv, pc = "compile"
  PROVE  /\ Plain => \A n \in i .. Len(src) : Token(SubSeq(src, i, n)) <=> n = i
         /\ \A c \in Brace :
              /\ Escape(c) => \A n \in i .. Len(src) : Token(SubSeq(src, i, n)) <=> n = i + 1
              /\ Unmatched(c) => \A n \in i .. Len(src) : ~Token(SubSeq(src, i, n))
         /\ Placeholder => \A n \in i .. Len(src) : Token(SubSeq(src, i, n)) <=> n = End
         /\ Malformed => \A n \in i .. Len(src) : ~Token(SubSeq(src, i, n))
<1>1. src \in Seq(Char) /\ i \in Nat \ {0}
  BY DEF GrammarInv, TypeInv, Parsing
<1>2. ASSUME Plain, NEW n \in i .. Len(src) PROVE Token(SubSeq(src, i, n)) <=> n = i
  BY <1>1, <1>2, TokenHere DEF Plain, At
<1>3. ASSUME NEW c \in Brace, Escape(c), NEW n \in i .. Len(src)
      PROVE  Token(SubSeq(src, i, n)) <=> n = i + 1
  BY <1>1, <1>3, TokenHere DEF Escape, At
<1>4. ASSUME NEW c \in Brace, Unmatched(c), NEW n \in i .. Len(src)
      PROVE  ~Token(SubSeq(src, i, n))
  BY <1>1, <1>4, TokenHere DEF Unmatched, At, Brace
<1>5. ASSUME Placeholder, NEW n \in i .. Len(src) PROVE Token(SubSeq(src, i, n)) <=> n = End
  BY <1>1, <1>5, TokenHere DEF Placeholder, At
<1>6. ASSUME Malformed, NEW n \in i .. Len(src) PROVE ~Token(SubSeq(src, i, n))
  <2>1. src[i] = Open /\ ~Doubled(Open) /\ i <= Len(src) /\ ~ValidName(VarName)
    BY <1>6, Zenon DEF Malformed, At
  <2>2. i \in 1 .. Len(src)
    BY <1>1, <2>1
  <2> QED BY <1>1, <2>1, <2>2, TokenHere
<1> QED BY <1>2, <1>3, <1>4, <1>5, <1>6

LEMMA GrammarStep ==
  ASSUME GrammarInv, [Next]_vars
  PROVE  GrammarInv'
<1>0. /\ src \in Seq(Char) /\ lit \in Seq(Char) /\ segs \in Seq(Segment)
      /\ Open \in Char /\ Close \in Char
  BY BraceAssumption DEF GrammarInv, TypeInv, Brace
<1>1. Flushed \in Seq(Segment)
  <2>1. Literal(lit) \in Segment
    BY <1>0 DEF Literal, Segment
  <2> QED BY <1>0, <2>1 DEF Flushed
\* Unless the parser moves, accepts or rejects, nothing it claims changes.
<1>2. ASSUME src' = src, pc # "compile", pc' \in {"compiled", "render", "done"}, pc # "rejected",
             lit' = lit, segs' = segs
      PROVE  GrammarInv'
  BY <1>2 DEF GrammarInv, TypeInv, AcceptsGrammar, Readable, Reading
<1>3. ASSUME pc = "compile", pc' = pc, src' = src, lit' \in Seq(Char), segs' \in Seq(Segment),
             i <= Len(src), i' - 1 \in i .. Len(src), i' \in Int,
             \A n \in i .. Len(src) : Token(SubSeq(src, i, n)) <=> n = i' - 1
      PROVE  GrammarInv'
  <2>1. PICK p \in i .. Len(src) : p = i' - 1
    BY <1>3
  <2>2. Readable(p) /\ Forced(p)
    BY <1>0, <1>3, <2>1, TokenTaken DEF GrammarInv
  <2>3. i' \in 1 .. Len(src) + 1
    BY <1>3 DEF GrammarInv, Parsing
  <2>4. (Readable(p) /\ Forced(p) /\ i \in 1 .. Len(src) + 1)'
    BY <1>3, <2>2, <2>3 DEF Readable, Forced, Reading
  <2>5. Parsing'
    BY <2>1, <2>4 DEF Parsing
  <2> QED BY <1>0, <1>3, <2>5 DEF GrammarInv, TypeInv, AcceptsGrammar
<1>4. ASSUME pc = "compile", pc' = "rejected", UNCHANGED <<src, i, lit, segs>>, i <= Len(src),
             \A n \in i .. Len(src) : ~Token(SubSeq(src, i, n))
      PROVE  GrammarInv'
  <2>1. Readable(i - 1) /\ \A n \in i .. Len(src) : ~Readable(n)
    BY <1>0, <1>4, NoTokenNoReading DEF GrammarInv, Parsing
  <2> QED BY <1>0, <1>4, <2>1 DEF GrammarInv, TypeInv, AcceptsGrammar, Readable, Reading
<1>5. CASE Plain
  BY <1>0, <1>3, <1>5, TokenOfBranch DEF Plain, At, GrammarInv, Parsing
<1>6. CASE Placeholder
  <2>1. End \in i + 1 .. Len(src)
    BY <1>0, <1>6, FirstClosing DEF Placeholder, At, GrammarInv, Parsing, Closing
  <2>2. VarName \in Seq(Char)
    <3>1. i + 1 \in 1 .. Len(src) + 1 /\ End - 1 \in 0 .. Len(src) /\ i + 1 <= (End - 1) + 1
      BY <1>0, <1>6, <2>1 DEF Placeholder, At, GrammarInv, Parsing
    <3> QED BY <1>0, <3>1, Piece DEF VarName
  <2>3. segs' \in Seq(Segment)
    BY <1>1, <1>6, <2>2 DEF Placeholder, Var, Segment
  <2> QED BY <1>0, <1>3, <1>6, <2>1, <2>3, TokenOfBranch DEF Placeholder, At, GrammarInv, Parsing
<1>7. CASE Malformed
  BY <1>4, <1>7, TokenOfBranch DEF Malformed, Reject, At
<1>8. CASE Compiled
  <2>1. Readable(Len(src))
    BY <1>0, <1>8 DEF Compiled, GrammarInv, Parsing
  <2> QED BY <1>0, <1>1, <1>8, <2>1 DEF Compiled, GrammarInv, TypeInv, AcceptsGrammar, Readable, Reading
<1>9. ASSUME NEW c \in Brace, Escape(c) PROVE GrammarInv'
  <2>1. c \in Char /\ pc = "compile" /\ i <= Len(src)
    BY <1>0, <1>9 DEF Brace, Escape, At
  <2>2. \A n \in i .. Len(src) : Token(SubSeq(src, i, n)) <=> n = i + 1
    BY <1>9, <2>1, TokenOfBranch
  <2> QED BY <1>0, <1>3, <1>9, <2>1, <2>2 DEF Escape, Doubled, GrammarInv, Parsing
<1>10. ASSUME NEW c \in Brace, Unmatched(c) PROVE GrammarInv'
  <2>1. pc = "compile" /\ i <= Len(src)
    BY <1>10 DEF Unmatched, At
  <2>2. \A n \in i .. Len(src) : ~Token(SubSeq(src, i, n))
    BY <1>10, <2>1, TokenOfBranch
  <2> QED BY <1>4, <1>10, <2>1, <2>2 DEF Unmatched, Reject
<1>11. CASE Render
  BY <1>2, <1>11 DEF Render
<1>12. CASE RenderSegment
  BY <1>2, <1>12 DEF RenderSegment, Write, MissingVar
<1>13. CASE Rendered
  BY <1>2, <1>13 DEF Rendered
<1>14. CASE UNCHANGED vars
  BY <1>14 DEF vars, GrammarInv, TypeInv, Parsing, AcceptsGrammar, Readable, Reading, Forced
<1> QED BY <1>5, <1>6, <1>7, <1>8, <1>9, <1>10, <1>11, <1>12, <1>13, <1>14 DEF Next

LEMMA GrammarInit == Init => GrammarInv
<1> SUFFICES ASSUME Init PROVE GrammarInv
  OBVIOUS
<1>1. src \in Seq(Char) /\ Len(src) \in Nat /\ i = 1 /\ pc = "compile"
  BY BraceAssumption DEF Init
<1>2. Reading({0}, 0)
  BY DEF Reading, Neighbours
<1>3. Readable(0)
  <2>1. {0} \in SUBSET (0 .. 0)
    OBVIOUS
  <2> QED
    BY <1>2, <2>1 DEF Readable
<1>4. Forced(0)
  BY DEF Forced, Reading
<1>5. i - 1 = 0
  BY <1>1
<1>6. Readable(i - 1) /\ Forced(i - 1)
  BY <1>3, <1>4, <1>5
<1> QED BY <1>1, <1>6 DEF Init, GrammarInv, TypeInv, Parsing, AcceptsGrammar

\* The parser accepts exactly the sources that can be read as text, escapes and
\* placeholders, and rejects any other where its longest readable part ends.
THEOREM Grammar == Spec => []AcceptsGrammar
<1>1. Spec => []GrammarInv
  BY GrammarInit, GrammarStep, PTL DEF Spec
<1>2. GrammarInv => AcceptsGrammar
  BY DEF GrammarInv
<1> QED BY <1>1, <1>2, PTL

(***************************************************************************)
(* The segments.                                                           *)
(***************************************************************************)
\* Between two placeholders at most one literal is flushed.
ShapeInv == /\ NormalForm
            /\ pc = "compile" /\ segs # <<>> => segs[Len(segs)].isVar

LEMMA ShapeStep ==
  ASSUME TypeInv, ShapeInv, [Next]_vars
  PROVE  ShapeInv'
<1>1. ASSUME segs' = segs, pc' = "compile" => pc = "compile" PROVE ShapeInv'
  BY <1>1 DEF ShapeInv, NormalForm
<1>2. ASSUME pc = "compile"
      PROVE  /\ Flushed \in Seq(Segment)
             /\ \A k \in 1 .. Len(Flushed) :
                  /\ Flushed[k].isVar => ValidName(Flushed[k].text)
                  /\ ~Flushed[k].isVar => /\ Flushed[k].text # <<>>
                                          /\ k > 1 => Flushed[k - 1].isVar
  <2>1. CASE lit = <<>>
    BY <2>1 DEF Flushed, TypeInv, ShapeInv, NormalForm
  <2>2. CASE lit # <<>>
    <3>1. Flushed = Append(segs, Literal(lit)) /\ Literal(lit) \in Segment
      BY <2>2 DEF Flushed, Literal, Segment, TypeInv
    <3> QED BY <1>2, <2>2, <3>1 DEF Literal, TypeInv, ShapeInv, NormalForm
  <2> QED BY <2>1, <2>2
<1>3. CASE Placeholder
  <2>1. pc = "compile" /\ ValidName(VarName) /\ segs' = Append(Flushed, Var(VarName))
    BY <1>3 DEF Placeholder, At
  <2>2. Var(VarName).isVar /\ Var(VarName).text = VarName
    BY DEF Var
  <2> QED BY <1>2, <2>1, <2>2 DEF ShapeInv, NormalForm
<1>4. CASE Compiled
  BY <1>2, <1>4 DEF Compiled, ShapeInv, NormalForm
<1>5. CASE Next /\ ~Placeholder /\ ~Compiled
  BY <1>1, <1>5 DEF Next, Plain, Malformed, Unmatched, Escape, Reject, Render, RenderSegment,
                    Write, MissingVar, Rendered
<1>6. CASE UNCHANGED vars
  BY <1>1, <1>6 DEF vars
<1> QED BY <1>3, <1>4, <1>5, <1>6

\* Every template is in normal form: no empty and no neighbouring literals, and
\* only names a variable can have.
THEOREM Shape == Spec => []NormalForm
<1>1. Init => ShapeInv
  BY DEF Init, ShapeInv, NormalForm
<1>2. GrammarInv /\ ShapeInv /\ [Next]_vars => ShapeInv'
  BY ShapeStep DEF GrammarInv
<1>3. ShapeInv => NormalForm
  BY DEF ShapeInv
<1> QED BY <1>1, <1>2, <1>3, GrammarInit, GrammarStep, PTL DEF Spec

(***************************************************************************)
(* What the segments spell.                                                *)
(***************************************************************************)
\* Two pieces that meet are one.
LEMMA Pieces ==
  ASSUME NEW S, NEW s \in Seq(S), NEW m \in 0 .. Len(s), NEW n \in m .. Len(s)
  PROVE  SubSeq(s, 1, m) \o SubSeq(s, m + 1, n) = SubSeq(s, 1, n)
<1> DEFINE a == SubSeq(s, 1, m)
           b == SubSeq(s, m + 1, n)
           c == SubSeq(s, 1, n)
<1>1. /\ a \in Seq(S) /\ Len(a) = m /\ \A k \in 1 .. m : a[k] = s[k]
      /\ b \in Seq(S) /\ Len(b) = n - m /\ \A k \in 1 .. n - m : b[k] = s[m + k]
      /\ c \in Seq(S) /\ Len(c) = n /\ \A k \in 1 .. n : c[k] = s[k]
  <2>1. m \in Nat /\ n \in Nat /\ m + 1 \in 1 .. Len(s) + 1 /\ m + 1 <= n + 1
        /\ 1 \in 1 .. Len(s) + 1 /\ 1 <= m + 1 /\ 1 <= n + 1 /\ n \in 0 .. Len(s)
    OBVIOUS
  <2>2. /\ a \in Seq(S) /\ Len(a) = m - 1 + 1
        /\ \A k \in 1 .. m - 1 + 1 : a[k] = s[1 + k - 1]
    BY <2>1, Piece
  <2>3. /\ b \in Seq(S) /\ Len(b) = n - (m + 1) + 1
        /\ \A k \in 1 .. n - (m + 1) + 1 : b[k] = s[(m + 1) + k - 1]
    BY <2>1, Piece
  <2>4. /\ c \in Seq(S) /\ Len(c) = n - 1 + 1
        /\ \A k \in 1 .. n - 1 + 1 : c[k] = s[1 + k - 1]
    BY <2>1, Piece
  <2> HIDE DEF a, b, c
  <2>5. m - 1 + 1 = m /\ n - 1 + 1 = n /\ n - (m + 1) + 1 = n - m
    BY <2>1
  <2>6. \A k \in 1 .. m : a[k] = s[k]
    BY <2>1, <2>2, <2>5
  <2>7. \A k \in 1 .. n - m : b[k] = s[m + k]
    BY <2>1, <2>3, <2>5
  <2>8. \A k \in 1 .. n : c[k] = s[k]
    BY <2>1, <2>4, <2>5
  <2> QED BY <2>2, <2>3, <2>4, <2>5, <2>6, <2>7, <2>8
<1> HIDE DEF a, b, c
<1>2. Len(a \o b) = n /\ \A k \in 1 .. n : (a \o b)[k] = s[k]
  <2>1. Len(a \o b) = n
    BY <1>1
  <2>2. ASSUME NEW k \in 1 .. n PROVE (a \o b)[k] = s[k]
    <3>1. CASE k <= m
      BY <1>1, <3>1
    <3>2. CASE k > m
      <4>1. (a \o b)[k] = b[k - m] /\ k - m \in 1 .. n - m
        BY <1>1, <3>2
      <4> QED BY <1>1, <4>1
    <3>3. k <= m \/ k > m
      OBVIOUS
    <3> QED BY <3>1, <3>2, <3>3
  <2> QED BY <2>1, <2>2
<1>3. a \o b = c
  <2>1. a \o b \in Seq(S)
    BY <1>1
  <2>2. \A k \in 1 .. n : (a \o b)[k] = c[k]
    BY <1>1, <1>2
  <2> QED BY <1>1, <1>2, <2>1, <2>2, SeqEqual
<1> QED BY <1>3 DEF a, b, c

LEMMA Singletons ==
  ASSUME NEW S, NEW s \in Seq(S), NEW c \in S
  PROVE  /\ Len(s) = 1 /\ s[1] = c => s = <<c>>
         /\ Len(s) = 2 /\ s[1] = c /\ s[2] = c => s = <<c, c>>
<1>1. ASSUME Len(s) = 1, s[1] = c PROVE s = <<c>>
  <2> DEFINE t == <<c>>
  <2>1. t \in Seq(S) /\ Len(t) = 1 /\ t[1] = c
    OBVIOUS
  <2> HIDE DEF t
  <2>2. Len(s) = Len(t) /\ \A k \in 1 .. Len(s) : s[k] = t[k]
    BY <1>1, <2>1
  <2>3. s = t
    BY <2>1, <2>2, SeqEqual
  <2> QED BY <2>3 DEF t
<1>2. ASSUME Len(s) = 2, s[1] = c, s[2] = c PROVE s = <<c, c>>
  <2> DEFINE t == <<c, c>>
  <2>1. t \in Seq(S) /\ Len(t) = 2 /\ t[1] = c /\ t[2] = c
    OBVIOUS
  <2> HIDE DEF t
  <2>2. Len(s) = Len(t) /\ \A k \in 1 .. Len(s) : s[k] = t[k]
    BY <1>2, <2>1
  <2>3. s = t
    BY <2>1, <2>2, SeqEqual
  <2> QED BY <2>3 DEF t
<1> QED BY <1>1, <1>2

LEMMA Twofold ==
  ASSUME NEW c \in Char
  PROVE  Twice(c) \in Seq(Char)
BY DEF Twice

\* The list of what f makes of the elements of a sequence, and one more.
LEMMA EscapedAppend ==
  ASSUME NEW s \in Seq(Char), NEW c \in Char
  PROVE  /\ Escaped(s) \in Seq(Char)
         /\ Escaped(Append(s, c)) = Escaped(s) \o Twice(c)
<1> DEFINE d == [j \in 1 .. Len(s) |-> Twice(s[j])]
           t == Append(s, c)
<1>1. d \in Seq(Seq(Char))
  BY Twofold
<1>2. Twice(c) \in Seq(Char)
  BY Twofold
<1>3. [j \in 1 .. Len(t) |-> Twice(t[j])] = Append(d, Twice(c))
  <2>1. Len(t) = Len(s) + 1 /\ t[Len(s) + 1] = c /\ \A j \in 1 .. Len(s) : t[j] = s[j]
    OBVIOUS
  <2> HIDE DEF t
  <2> QED BY <2>1
<1>4. Escaped(s) = FlattenSeq(d) /\ Escaped(t) = FlattenSeq(Append(d, Twice(c)))
  BY <1>3 DEF Escaped
<1> HIDE DEF d
<1> QED BY <1>1, <1>2, <1>4, FlattenType, FlattenAppend

LEMMA EscapedType ==
  ASSUME NEW s \in Seq(Char)
  PROVE  Escaped(s) \in Seq(Char)
<1>1. [j \in 1 .. Len(s) |-> Twice(s[j])] \in Seq(Seq(Char))
  BY Twofold
<1> QED BY <1>1, FlattenType DEF Escaped

LEMMA SpelledType ==
  ASSUME NEW seg \in Segment
  PROVE  Spelled(seg) \in Seq(Char)
<1>1. seg.text \in Seq(Char) /\ Open \in Char /\ Close \in Char
  BY BraceAssumption DEF Segment, Brace
<1> QED BY <1>1, EscapedType DEF Spelled

LEMMA SpellingAppend ==
  ASSUME NEW s \in Seq(Segment), NEW seg \in Segment
  PROVE  /\ Spelling(s) \in Seq(Char)
         /\ Spelling(Append(s, seg)) = Spelling(s) \o Spelled(seg)
<1> DEFINE d == [k \in 1 .. Len(s) |-> Spelled(s[k])]
           t == Append(s, seg)
<1>1. d \in Seq(Seq(Char))
  BY SpelledType
<1>2. Spelled(seg) \in Seq(Char)
  BY SpelledType
<1>3. [k \in 1 .. Len(t) |-> Spelled(t[k])] = Append(d, Spelled(seg))
  <2>1. Len(t) = Len(s) + 1 /\ t[Len(s) + 1] = seg /\ \A k \in 1 .. Len(s) : t[k] = s[k]
    OBVIOUS
  <2> HIDE DEF t
  <2> QED BY <2>1
<1>4. Spelling(s) = FlattenSeq(d) /\ Spelling(t) = FlattenSeq(Append(d, Spelled(seg)))
  BY <1>3 DEF Spelling
<1> HIDE DEF d
<1> QED BY <1>1, <1>2, <1>4, FlattenType, FlattenAppend

\* Flushing the literal text changes nothing of what is spelled.
LEMMA FlushedSpells ==
  ASSUME TypeInv
  PROVE  /\ Flushed \in Seq(Segment)
         /\ Spelling(Flushed) = Spelling(segs) \o Escaped(lit)
         /\ Spelling(segs) \in Seq(Char) /\ Escaped(lit) \in Seq(Char)
<1>1. Literal(lit) \in Segment /\ Spelled(Literal(lit)) = Escaped(lit)
  BY DEF TypeInv, Literal, Segment, Spelled
<1>2. segs \in Seq(Segment) /\ lit \in Seq(Char)
  BY DEF TypeInv
<1>3. Spelling(segs) \in Seq(Char) /\ Escaped(lit) \in Seq(Char)
  BY <1>1, <1>2, SpellingAppend, EscapedType
<1>4. CASE lit = <<>>
  <2>1. Escaped(<<>>) = <<>>
    <3>1. [j \in 1 .. Len(<<>>) |-> Twice(<<>>[j])] = <<>>
      OBVIOUS
    <3> QED BY <3>1, FlattenEmpty DEF Escaped
  <2>2. Spelling(segs) \o <<>> = Spelling(segs)
    BY <1>3
  <2> QED BY <1>2, <1>3, <1>4, <2>1, <2>2 DEF Flushed
<1>5. CASE lit # <<>>
  BY <1>1, <1>2, <1>3, <1>5, SpellingAppend DEF Flushed
<1> QED BY <1>4, <1>5


\* What has been read is what the segments and the literal text spell.
SpellInv ==
    /\ pc = "compile" => Spelling(segs) \o Escaped(lit) = SubSeq(src, 1, i - 1)
    /\ pc \in {"compiled", "render", "done"} => Spelling(segs) = src

\* A token more is spelled, and the parser stands behind it.
LEMMA TokenSpelled ==
  ASSUME GrammarInv, SpellInv, pc = "compile", NEW n \in i .. Len(src), i <= Len(src)
  PROVE  (Spelling(segs) \o Escaped(lit)) \o SubSeq(src, i, n) = SubSeq(src, 1, n)
<1>1. src \in Seq(Char) /\ i - 1 \in 0 .. Len(src) /\ n \in i - 1 .. Len(src) /\ (i - 1) + 1 = i
  BY DEF GrammarInv, TypeInv, Parsing
<1>2. SubSeq(src, 1, i - 1) \o SubSeq(src, (i - 1) + 1, n) = SubSeq(src, 1, n)
  BY <1>1, Pieces
<1> QED BY <1>1, <1>2 DEF SpellInv

LEMMA SpellStep ==
  ASSUME GrammarInv, GrammarInv', SpellInv, [Next]_vars
  PROVE  SpellInv'
<1>0. /\ src \in Seq(Char) /\ lit \in Seq(Char) /\ segs \in Seq(Segment) /\ TypeInv
      /\ Open \in Char /\ Close \in Char /\ Brace \subseteq Char
      /\ pc = "compile" => i \in 1 .. Len(src) + 1
  BY BraceAssumption DEF GrammarInv, TypeInv, Brace, Parsing
<1>1. /\ Flushed \in Seq(Segment)
      /\ Spelling(Flushed) = Spelling(segs) \o Escaped(lit)
      /\ Spelling(segs) \in Seq(Char) /\ Escaped(lit) \in Seq(Char)
  BY <1>0, FlushedSpells
\* Unless the parser moves, nothing changes.
<1>2. ASSUME src' = src, segs' = segs, pc # "compile",
             pc' \in {"compiled", "render", "done"} => pc \in {"compiled", "render", "done"},
             pc' # "compile"
      PROVE  SpellInv'
  BY <1>2 DEF SpellInv, Spelling, Spelled, Escaped, Twice
\* A character joins the literal text.
<1>3. ASSUME NEW c \in Char, pc = "compile", pc' = pc, i <= Len(src),
             src' = src, segs' = segs, lit' = Append(lit, c),
             i' \in Int, i' - 1 \in i .. Len(src), SubSeq(src, i, i' - 1) = Twice(c)
      PROVE  SpellInv'
  <2>1. Escaped(lit') = Escaped(lit) \o Twice(c) /\ Twice(c) \in Seq(Char)
    BY <1>0, <1>3, EscapedAppend, Twofold
  <2>2. Spelling(segs) \o Escaped(lit') = (Spelling(segs) \o Escaped(lit)) \o Twice(c)
    <3>1. (Spelling(segs) \o Escaped(lit)) \o Twice(c) = Spelling(segs) \o (Escaped(lit) \o Twice(c))
      BY <1>1, <2>1, ConcatAssociative
    <3> QED BY <2>1, <3>1
  <2>3. Spelling(segs) \o Escaped(lit') = SubSeq(src, 1, i' - 1)
    BY <1>3, <2>2, TokenSpelled
  <2>4. (Spelling(segs) \o Escaped(lit))' = SubSeq(src, 1, i' - 1)
    BY <1>3, <2>3 DEF Spelling, Spelled, Escaped, Twice
  <2> QED BY <1>3, <2>4 DEF SpellInv
<1>4. CASE Plain
  <2>1. PICK c \in Char \ Brace : At(c) /\ lit' = Append(lit, c)
    BY <1>4 DEF Plain
  <2>2. pc = "compile" /\ i \in 1 .. Len(src) /\ src[i] = c
    BY <1>0, <2>1 DEF At
  <2>3. SubSeq(src, i, i) = Twice(c)
    <3>1. /\ SubSeq(src, i, i) \in Seq(Char) /\ Len(SubSeq(src, i, i)) = 1
          /\ SubSeq(src, i, i)[1] = c
      BY <1>0, <2>2
    <3>2. c \in Char
      BY <2>1
    <3>3. SubSeq(src, i, i) = <<c>>
      <4> DEFINE s == SubSeq(src, i, i)
      <4>1. s \in Seq(Char) /\ Len(s) = 1 /\ s[1] = c
        BY <3>1
      <4> HIDE DEF s
      <4>2. s = <<c>>
        BY <3>2, <4>1, Singletons
      <4> QED
        BY <4>2 DEF s
    <3> QED BY <2>1, <3>3 DEF Twice
  <2>4. i' - 1 = i /\ i' \in Int /\ i \in i .. Len(src)
    BY <1>4, <2>2 DEF Plain
  <2>5. pc' = pc /\ src' = src /\ segs' = segs
    BY <1>4 DEF Plain
  <2>6. c \in Char /\ i <= Len(src) /\ lit' = Append(lit, c)
    BY <2>1, <2>2
  <2>7. i' - 1 \in i .. Len(src) /\ SubSeq(src, i, i' - 1) = Twice(c)
    BY <2>3, <2>4
  <2> QED BY <1>3, <2>2, <2>4, <2>5, <2>6, <2>7
<1>5. ASSUME NEW c \in Brace, Escape(c) PROVE SpellInv'
  <2>1. pc = "compile" /\ i \in 1 .. Len(src) /\ i + 1 \in i .. Len(src)
        /\ src[i] = c /\ src[i + 1] = c /\ c \in Char
    BY <1>0, <1>5 DEF Escape, At, Doubled
  <2>2. SubSeq(src, i, i + 1) = Twice(c)
    <3>1. /\ SubSeq(src, i, i + 1) \in Seq(Char) /\ Len(SubSeq(src, i, i + 1)) = 2
          /\ SubSeq(src, i, i + 1)[1] = c /\ SubSeq(src, i, i + 1)[2] = c
      BY <1>0, <2>1
    <3>2. c \in Char
      BY <2>1
    <3>3. SubSeq(src, i, i + 1) = <<c, c>>
      BY <3>1, <3>2, Singletons
    <3> QED BY <1>5, <3>3 DEF Twice
  <2>3. i' - 1 = i + 1 /\ i' \in Int /\ lit' = Append(lit, c) /\ pc' = pc /\ src' = src /\ segs' = segs
    BY <1>5, <2>1 DEF Escape
  <2>4. c \in Char /\ i <= Len(src)
    BY <2>1
  <2>5. i' - 1 \in i .. Len(src) /\ SubSeq(src, i, i' - 1) = Twice(c)
    BY <2>1, <2>2, <2>3
  <2> QED BY <1>3, <2>1, <2>3, <2>4, <2>5
<1>6. CASE Placeholder
  <2>1. pc = "compile" /\ i \in 1 .. Len(src) /\ src[i] = Open
    BY <1>0, <1>6 DEF Placeholder, At
  <2>2. End \in i + 1 .. Len(src) /\ src[End] = Close
    BY <1>0, <1>6, <2>1, FirstClosing DEF Placeholder, Closing
  <2>3. /\ VarName \in Seq(Char) /\ Len(VarName) = End - i - 1
        /\ \A k \in 1 .. End - i - 1 : VarName[k] = src[i + k]
    <3>1. i + 1 \in 1 .. Len(src) + 1 /\ End - 1 \in 0 .. Len(src) /\ i + 1 <= (End - 1) + 1
      BY <2>1, <2>2
    <3>2. /\ SubSeq(src, i + 1, End - 1) \in Seq(Char)
          /\ Len(SubSeq(src, i + 1, End - 1)) = (End - 1) - (i + 1) + 1
          /\ \A k \in 1 .. (End - 1) - (i + 1) + 1 :
               SubSeq(src, i + 1, End - 1)[k] = src[(i + 1) + k - 1]
      BY <1>0, <3>1, Piece
    <3>3. (End - 1) - (i + 1) + 1 = End - i - 1 /\ \A k \in Int : (i + 1) + k - 1 = i + k
      BY <2>1, <2>2
    <3> QED BY <3>2, <3>3 DEF VarName
  <2>4. SubSeq(src, i, End) = <<Open>> \o VarName \o <<Close>>
    <3> DEFINE w == <<Open>> \o VarName \o <<Close>>
               t == SubSeq(src, i, End)
    <3>1. t \in Seq(Char) /\ Len(t) = End - i + 1 /\ \A k \in 1 .. End - i + 1 : t[k] = src[i + k - 1]
      BY <1>0, <2>1, <2>2, Piece
    <3>2. w \in Seq(Char) /\ Len(w) = End - i + 1
      <4>1. <<Open>> \in Seq(Char) /\ Len(<<Open>>) = 1 /\ <<Close>> \in Seq(Char) /\ Len(<<Close>>) = 1
        BY <1>0
      <4>2. <<Open>> \o VarName \in Seq(Char) /\ Len(<<Open>> \o VarName) = End - i
        BY <2>1, <2>2, <2>3, <4>1
      <4> QED BY <2>1, <2>2, <4>1, <4>2
    <3>3. ASSUME NEW k \in 1 .. End - i + 1 PROVE w[k] = t[k]
      <4>1. CASE k = 1
        BY <2>1, <2>2, <2>3, <3>1, <4>1
      <4>2. CASE k = End - i + 1
        BY <2>1, <2>2, <2>3, <3>1, <4>2
      <4>3. CASE k # 1 /\ k # End - i + 1
        <5>1. k - 1 \in 1 .. End - i - 1 /\ i + (k - 1) = i + k - 1
          BY <2>1, <2>2, <4>3
        <5>2. w[k] = VarName[k - 1]
          BY <2>1, <2>2, <2>3, <5>1
        <5> QED BY <2>3, <3>1, <5>1, <5>2
      <4> QED BY <4>1, <4>2, <4>3
    <3> HIDE DEF w, t
    <3>4. t = w
      BY <3>1, <3>2, <3>3, SeqEqual
    <3> QED BY <3>4 DEF w, t
  <2>5. Var(VarName) \in Segment /\ Spelled(Var(VarName)) = <<Open>> \o VarName \o <<Close>>
    BY <2>3 DEF Var, Segment, Spelled
  <2>6. Spelling(segs') = Spelling(Flushed) \o Spelled(Var(VarName))
    BY <1>1, <1>6, <2>5, SpellingAppend DEF Placeholder
  <2>7. End \in i .. Len(src)
    BY <2>1, <2>2
  <2>8. Spelling(segs') = SubSeq(src, 1, End)
    <3>1. (Spelling(segs) \o Escaped(lit)) \o SubSeq(src, i, End) = SubSeq(src, 1, End)
      BY <2>1, <2>7, TokenSpelled
    <3>2. Spelling(segs') = (Spelling(segs) \o Escaped(lit)) \o SubSeq(src, i, End)
      BY <1>1, <2>4, <2>5, <2>6
    <3> QED BY <3>1, <3>2
  <2>9. Spelling(segs') \o Escaped(<<>>) = Spelling(segs')
    <3>1. Escaped(<<>>) = <<>>
      <4>1. [j \in 1 .. Len(<<>>) |-> Twice(<<>>[j])] = <<>>
        OBVIOUS
      <4> QED BY <4>1, FlattenEmpty DEF Escaped
    <3>2. Spelling(segs') \in Seq(Char)
      <4>1. 1 \in 1 .. Len(src) + 1 /\ End \in 0 .. Len(src) /\ 1 <= End + 1
        BY <1>0, <2>1, <2>2
      <4>2. SubSeq(src, 1, End) \in Seq(Char)
        BY <1>0, <4>1, Piece
      <4> QED BY <2>8, <4>2
    <3> QED BY <3>1, <3>2
  <2>10. lit' = <<>> /\ pc' = "compile" /\ src' = src /\ i' - 1 = End
    BY <1>6, <2>1, <2>2 DEF Placeholder
  <2>11. (Spelling(segs) \o Escaped(lit))' = SubSeq(src, 1, End)
    BY <2>8, <2>9, <2>10 DEF Spelling, Spelled, Escaped, Twice
  <2> QED BY <2>10, <2>11 DEF SpellInv
<1>7. CASE Compiled
  <2>1. pc = "compile" /\ i = Len(src) + 1 /\ segs' = Flushed /\ pc' = "compiled" /\ src' = src
    BY <1>0, <1>7 DEF Compiled
  <2>2. SubSeq(src, 1, i - 1) = src
    BY <1>0, <2>1
  <2>3. Spelling(segs') = src
    BY <1>1, <2>1, <2>2 DEF SpellInv
  <2> QED BY <2>1, <2>3 DEF SpellInv, Spelling, Spelled, Escaped, Twice
<1>8. CASE Malformed
  BY <1>8 DEF Malformed, Reject, SpellInv
<1>9. ASSUME NEW c \in Brace, Unmatched(c) PROVE SpellInv'
  BY <1>9 DEF Unmatched, Reject, SpellInv
<1>10. CASE Render \/ RenderSegment \/ Rendered
  BY <1>2, <1>10 DEF Render, RenderSegment, Rendered, Write, MissingVar
<1>11. CASE UNCHANGED vars
  BY <1>11 DEF vars, SpellInv, Spelling, Spelled, Escaped, Twice
<1> QED BY <1>4, <1>5, <1>6, <1>7, <1>8, <1>9, <1>10, <1>11 DEF Next

LEMMA SpellInit == Init => SpellInv
<1> SUFFICES ASSUME Init PROVE SpellInv
  OBVIOUS
<1>1. src \in Seq(Char) /\ i = 1 /\ lit = <<>> /\ segs = <<>> /\ pc = "compile"
  BY BraceAssumption DEF Init
<1>2. Spelling(segs) = <<>> /\ Escaped(lit) = <<>>
  <2>1. /\ [j \in 1 .. Len(<<>>) |-> Twice(<<>>[j])] = <<>>
        /\ [k \in 1 .. Len(<<>>) |-> Spelled(<<>>[k])] = <<>>
    OBVIOUS
  <2> QED BY <1>1, <2>1, FlattenEmpty DEF Spelling, Escaped
<1>3. SubSeq(src, 1, i - 1) = <<>>
  BY <1>1
<1> QED BY <1>1, <1>2, <1>3 DEF SpellInv

\* At every moment the segments and the text being collected spell what has been
\* read of the source, and those of a template the whole source.
THEOREM Spells == Spec => []SpellsSource
<1>1. GrammarInv /\ SpellInv => SpellsSource
  <2> SUFFICES ASSUME GrammarInv, SpellInv PROVE SpellsSource
    OBVIOUS
  <2>1. TypeInv
    BY DEF GrammarInv
  <2>2. Spelling(Flushed) = Spelling(segs) \o Escaped(lit)
    BY <2>1, FlushedSpells
  <2> QED BY <2>1, <2>2 DEF SpellInv, SpellsSource, TypeInv
<1>2. GrammarInv /\ SpellInv /\ [Next]_vars => GrammarInv' /\ SpellInv'
  BY GrammarStep, SpellStep
<1> QED BY <1>1, <1>2, GrammarInit, SpellInit, PTL DEF Spec

-----------------------------------------------------------------------------
(* What the renderer has written so far, and what has not gone wrong yet. *)

Rendering(n) == FlattenSeq([k \in 1 .. n |-> Filling(k)])

RenderInv ==
    /\ pc \in {"compile", "compiled"} => err = Nil /\ out = <<>>
    /\ pc = "render" =>
         /\ bound \in AllVars
         /\ err = Nil
         /\ i \in 1 .. Len(segs) + 1
         /\ \A k \in Missing : i <= k
         /\ out = Rendering(i - 1)
    /\ FilledOnce

\* A segment that is not missing can be filled in.
LEMMA FillingType ==
  ASSUME TypeInv, bound \in AllVars, NEW k \in 1 .. Len(segs), k \notin Missing
  PROVE  Filling(k) \in Seq(Char)
<1>1. segs[k] \in Segment
  BY DEF TypeInv
<1> QED BY <1>1, BraceAssumption DEF Segment, Filling, Missing

LEMMA RenderingAppend ==
  ASSUME NEW n \in Nat, \A k \in 1 .. n + 1 : Filling(k) \in Seq(Char)
  PROVE  Rendering(n + 1) = Rendering(n) \o Filling(n + 1)
<1> DEFINE d == [k \in 1 .. n |-> Filling(k)]
           e == Filling(n + 1)
<1>1. d \in Seq(Seq(Char)) /\ e \in Seq(Char)
  OBVIOUS
<1>2. [k \in 1 .. n + 1 |-> Filling(k)] = Append(d, e)
  <2>1. Len(d) = n
    OBVIOUS
  <2>2. Append(d, e) = [k \in 1 .. n + 1 |-> IF k = n + 1 THEN e ELSE d[k]]
    BY <2>1
  <2> QED BY <2>2
<1> HIDE DEF d, e
<1>3. Rendering(n + 1) = FlattenSeq(Append(d, e))
  BY <1>2 DEF Rendering
<1>4. Rendering(n) = FlattenSeq(d)
  BY DEF Rendering, d
<1>5. Rendering(n + 1) = Rendering(n) \o e
  BY <1>1, <1>3, <1>4, FlattenAppend
<1> QED BY <1>5 DEF e

\* A segment more is written behind the others.
LEMMA WriteStep ==
  ASSUME TypeInv, RenderInv, pc = "render", i <= Len(segs), i \notin Missing, Write(Filling(i))
  PROVE  RenderInv'
<1>1. i \in 1 .. Len(segs) /\ Len(segs) \in Nat /\ bound \in AllVars
  BY DEF RenderInv, TypeInv
<1>2. \A k \in Missing : i + 1 <= k
  <2>1. \A k \in Missing : i <= k /\ k # i /\ k \in Int
    BY DEF RenderInv, Missing
  <2> QED BY <1>1, <2>1
<1>3. out \o Filling(i) = Rendering(i)
  <2>1. \A k \in 1 .. (i - 1) + 1 : k \in 1 .. Len(segs) /\ k \notin Missing
    <3>1. \A k \in 1 .. (i - 1) + 1 : k \in 1 .. Len(segs) /\ k <= i
      BY <1>1
    <3> QED BY <1>2, <3>1, <1>1
  <2>2. \A k \in 1 .. (i - 1) + 1 : Filling(k) \in Seq(Char)
    BY <1>1, <2>1, FillingType
  <2>3. i - 1 \in Nat /\ (i - 1) + 1 = i
    BY <1>1
  <2>4. Rendering((i - 1) + 1) = Rendering(i - 1) \o Filling((i - 1) + 1)
    BY <2>2, <2>3, RenderingAppend
  <2>5. out = Rendering(i - 1)
    BY DEF RenderInv
  <2> QED BY <2>3, <2>4, <2>5
<1>4. /\ pc' = "render" /\ bound' = bound /\ err' = Nil /\ segs' = segs
      /\ i' = i + 1 /\ i' - 1 = i /\ i' \in 1 .. Len(segs) + 1 /\ out' = out \o Filling(i)
  BY <1>1 DEF Write, RenderInv
<1>5. Missing' = Missing
  BY <1>4 DEF Missing
<1>6. Rendering(i - 1)' = Rendering(i)
  BY <1>4 DEF Rendering, Filling
<1>7. out' = Rendering(i - 1)'
  BY <1>3, <1>4, <1>6
<1> QED BY <1>1, <1>2, <1>4, <1>5, <1>7 DEF RenderInv, FilledOnce

LEMMA RenderStep ==
  ASSUME TypeInv, RenderInv, [Next]_vars
  PROVE  RenderInv'
<1>1. CASE Plain \/ Placeholder \/ Compiled \/ \E c \in Brace : Escape(c)
  <2>1. /\ pc = "compile" /\ pc' \in {"compile", "compiled"} /\ err' = err /\ out' = out
    BY <1>1 DEF Plain, Placeholder, Compiled, Escape, At
  <2> QED BY <2>1 DEF RenderInv, FilledOnce
<1>2. CASE Malformed \/ \E c \in Brace : Unmatched(c)
  <2>1. pc' = "rejected"
    BY <1>2 DEF Malformed, Unmatched, Reject
  <2> QED BY <2>1 DEF RenderInv, FilledOnce
<1>3. CASE Render
  <2>1. /\ pc' = "render" /\ bound' \in AllVars /\ err' = Nil /\ out' = <<>>
        /\ i' = 1 /\ segs' = segs /\ Len(segs) \in Nat
    BY <1>3 DEF Render, RenderInv, TypeInv
  <2>2. \A k \in Missing' : 1 <= k
    BY <2>1 DEF Missing
  <2>3. Rendering(i - 1)' = <<>>
    <3>1. ([k \in 1 .. i - 1 |-> Filling(k)])' = <<>>
      BY <2>1
    <3> QED BY <3>1, FlattenEmpty DEF Rendering
  <2> QED BY <2>1, <2>2, <2>3 DEF RenderInv, FilledOnce
<1>4. CASE RenderSegment
  <2>1. pc = "render" /\ i <= Len(segs) /\ i \in 1 .. Len(segs) /\ Len(segs) \in Nat
    BY <1>4 DEF RenderSegment, RenderInv, TypeInv
  <2>2. ASSUME segs[i].isVar, MissingVar(segs[i].text) PROVE RenderInv'
    <3>1. i \in Missing
      BY <2>1, <2>2 DEF Missing, MissingVar
    <3>2. /\ pc' = "done" /\ out' = <<>> /\ err' = <<"ErrMissingVar", segs[i].text>>
          /\ segs' = segs /\ bound' = bound
      BY <2>2 DEF MissingVar
    <3>3. Missing' = Missing
      BY <3>2 DEF Missing
    <3>4. \A k \in Missing : i <= k
      BY <2>1 DEF RenderInv
    <3> QED BY <3>1, <3>2, <3>3, <3>4 DEF RenderInv, FilledOnce
  <2>3. CASE ~segs[i].isVar /\ Write(segs[i].text)
    BY <2>1, <2>3, WriteStep DEF Missing, Filling
  <2>4. CASE segs[i].isVar /\ segs[i].text \in DOMAIN bound /\ Write(bound[segs[i].text])
    BY <2>1, <2>4, WriteStep DEF Missing, Filling
  <2> QED BY <1>4, <2>2, <2>3, <2>4 DEF RenderSegment
<1>5. CASE Rendered
  <2>1. /\ pc = "render" /\ i = Len(segs) + 1 /\ Len(segs) \in Nat
        /\ pc' = "done" /\ segs' = segs /\ bound' = bound /\ err' = Nil /\ out' = out
    BY <1>5 DEF Rendered, RenderInv, TypeInv
  <2>2. Missing = {}
    BY <2>1 DEF RenderInv, Missing
  <2>3. Missing' = {}
    BY <2>1, <2>2 DEF Missing
  <2>4. out' = FlattenSeq([k \in 1 .. Len(segs) |-> Filling(k)])
    <3>1. out = Rendering(i - 1) /\ i - 1 = Len(segs)
      BY <2>1 DEF RenderInv
    <3> QED BY <2>1, <3>1 DEF Rendering
  <2>5. out' = FlattenSeq([k \in 1 .. Len(segs) |-> Filling(k)])'
    BY <2>1, <2>4 DEF Filling
  <2> QED BY <2>1, <2>3, <2>5 DEF RenderInv, FilledOnce
<1>6. CASE UNCHANGED vars
  <2>1. Missing' = Missing /\ Rendering(i - 1)' = Rendering(i - 1) /\ FilledOnce' = FilledOnce
    BY <1>6 DEF vars, Missing, Rendering, Filling, FilledOnce
  <2> QED BY <1>6, <2>1 DEF vars, RenderInv
<1> QED BY <1>1, <1>2, <1>3, <1>4, <1>5, <1>6 DEF Next

LEMMA RenderInit == Init => RenderInv
BY DEF Init, RenderInv, FilledOnce

\* Rendering puts in each value once, or none for the first one that is missing.
THEOREM Fills == Spec => []FilledOnce
<1>1. RenderInv => FilledOnce
  BY DEF RenderInv
<1>2. GrammarInv /\ RenderInv /\ [Next]_vars => GrammarInv' /\ RenderInv'
  BY GrammarStep, RenderStep DEF GrammarInv
<1> QED BY <1>1, <1>2, GrammarInit, RenderInit, PTL DEF Spec
=============================================================================
