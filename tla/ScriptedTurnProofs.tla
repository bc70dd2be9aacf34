-------------------------- MODULE ScriptedTurnProofs --------------------------
(***************************************************************************)
(* Proofs about the turns of a script: the models that share or inherit    *)
(* one deal every turn out to exactly one call.                            *)
(***************************************************************************)
EXTENDS ScriptedLLMProofs

\* The two ways to hold a turn.
Kept(g, m, k) ==
    \E i \in Turns(g) : got[g][i].call.recv = m /\ got[g][i].at = k
Pending(g, m, k) ==
    pc[g] = "unlock" /\ Fn(g) \in Consuming /\ Recv(g) = m /\ reg[g].cursor = k

\* Only turns between a model's first cursor and its present one are held,
Within == /\ \A m \in made : start[m] <= cursor[m]
          /\ \A g \in Goroutine, m \in Model, k \in Nat :
               Holds(g, m, k) => m \in made /\ start[m] <= k /\ k < cursor[m]
\* each of them is,
Dealt == \A m \in made, k \in Nat :
           start[m] <= k /\ k < cursor[m] => \E g \in Goroutine : Holds(g, m, k)
\* and by one goroutine.
Once == \A g, h \in Goroutine, m \in Model, k \in Nat :
          Holds(g, m, k) /\ Holds(h, m, k) => g = h

TurnInv == Within /\ Dealt /\ Once

\* A step after which everybody holds what they held before.
SameHolds == \A h \in Goroutine, m \in Model, k \in Nat :
               Holds(h, m, k)' <=> Holds(h, m, k)
-----------------------------------------------------------------------------
LEMMA HoldsTwoWays ==
    \A g, m, k : Holds(g, m, k) <=> Kept(g, m, k) \/ Pending(g, m, k)
  BY DEF Holds, Kept, Pending

\* Steps that neither return nor move a cursor.
LEMMA QuietHolds ==
    ASSUME IInv, NEW g \in Goroutine,
           \/ Invoke(g) \/ InvokeNew(g) \/ NextOption(g) \/ Lock(g) \/ Load(g)
           \/ UnlockToBuild(g)
    PROVE  SameHolds /\ UNCHANGED <<made, cursor, start>>
<1>1. UNCHANGED <<made, cursor, start, got>>
  BY DEF Invoke, InvokeNew, NextOption, Lock, Load, UnlockToBuild
<1>2. ASSUME NEW h \in Goroutine, NEW m \in Model, NEW k \in Nat
      PROVE  Pending(h, m, k)' <=> Pending(h, m, k)
  <2>1. CASE h # g
    BY <2>1 DEF IInv, TypeOK, Pending, Fn, Recv, Goto, Invoke, InvokeNew, NextOption,
       Lock, Load, UnlockToBuild
  <2>2. CASE h = g
    <3>1. ~Pending(g, m, k)
      BY DEF IInv, TypeOK, Pending, At, Invoke, InvokeNew, NextOption, Lock, Load,
         UnlockToBuild, Fn, Consuming, Deriving
    <3>2. ~Pending(g, m, k)'
      BY DEF IInv, TypeOK, Pending, At, Goto, Invoke, InvokeNew, NextOption, Lock, Load,
         UnlockToBuild, Fn
    <3> QED
      BY <2>2, <3>1, <3>2
  <2> QED
    BY <2>1, <2>2
<1>3. ASSUME NEW h \in Goroutine, NEW m \in Model, NEW k \in Nat
      PROVE  Kept(h, m, k)' <=> Kept(h, m, k)
  BY <1>1 DEF Kept, Turns
<1> QED
  BY <1>1, <1>2, <1>3 DEF SameHolds, Holds, Kept, Pending

\* The receipt of a finished call is all a return adds to what is kept.
LEMMA ReturnKeeps ==
    ASSUME TypeOK, NEW g \in Goroutine, NEW res, Return(g, res),
           [call |-> call[g], at |-> reg[g].cursor, res |-> res] \in Receipt
    PROVE  \A h \in Goroutine, m \in Model, k \in Nat :
             Kept(h, m, k)' <=> \/ Kept(h, m, k)
                                \/ h = g /\ Fn(g) \in Consuming /\ Recv(g) = m
                                         /\ reg[g].cursor = k
<1> DEFINE r == [call |-> call[g], at |-> reg[g].cursor, res |-> res]
<1>1. got[g] \in Seq(Receipt) /\ r \in Receipt
  BY DEF TypeOK
<1>2. got' = [got EXCEPT ![g] = Append(got[g], r)]
  BY DEF Return
<1>3. /\ Len(Append(got[g], r)) = Len(got[g]) + 1 /\ Len(got[g]) \in Nat
      /\ Append(got[g], r)[Len(got[g]) + 1] = r
      /\ \A i \in 1 .. Len(got[g]) : Append(got[g], r)[i] = got[g][i]
  BY <1>1
<1>4. \A h \in Goroutine \ {g} : got'[h] = got[h]
  BY <1>2 DEF TypeOK
<1>5. got'[g] = Append(got[g], r)
  BY <1>2 DEF TypeOK
<1>6. r.call = call[g] /\ r.at = reg[g].cursor
  OBVIOUS
<1> HIDE DEF r
<1>7. Turns(g)' = Turns(g) \union (IF Fn(g) \in Consuming THEN {Len(got[g]) + 1} ELSE {})
  BY <1>3, <1>5, <1>6 DEF Turns, Fn
<1> TAKE h \in Goroutine, m \in Model, k \in Nat
<1>8. CASE h # g
  BY <1>4, <1>8 DEF Kept, Turns
<1>9. CASE h = g
  <2>1. \A i \in Turns(g) : i \in 1 .. Len(got[g]) /\ got'[g][i] = got[g][i]
    BY <1>3, <1>5 DEF Turns
  <2>2. got'[g][Len(got[g]) + 1] = r
    BY <1>3, <1>5
  <2>3. Kept(g, m, k)' <=> \E i \in Turns(g)' : got'[g][i].call.recv = m /\ got'[g][i].at = k
    BY DEF Kept
  <2> QED
    BY <1>6, <1>7, <1>9, <2>1, <2>2, <2>3 DEF Kept, Recv
<1> QED
  BY <1>8, <1>9

\* A Generate or Stream that returns keeps the turn it held before.
LEMMA UnlockHolds ==
    ASSUME IInv, NEW g \in Goroutine, UnlockAndReturn(g)
    PROVE  SameHolds /\ UNCHANGED <<made, cursor, start>>
<1>1. TypeOK /\ TypeOK' /\ pc[g] = "unlock" /\ pc' = [pc EXCEPT ![g] = "idle"]
  BY UnlockAndReturnInv DEF IInv, UnlockAndReturn, At, Return, Goto
<1>2. UNCHANGED <<made, cursor, start, call, reg>>
  BY DEF UnlockAndReturn
<1>3. Return(g, Answer(call[g], reg[g]))
      /\ [call |-> call[g], at |-> reg[g].cursor, res |-> Answer(call[g], reg[g])] \in Receipt
  <2>1. Fn(g) \in Method \ Deriving
    BY <1>1 DEF UnlockAndReturn, IInv, InCall
  <2>2. Answer(call[g], reg[g]) \in Result
    BY <1>1, <2>1, AnswerType DEF TypeOK, Fn
  <2> QED
    BY <1>1, <2>2 DEF UnlockAndReturn, TypeOK, Snapshot, Receipt
<1>4. \A h \in Goroutine, m \in Model, k \in Nat :
        Kept(h, m, k)' <=> \/ Kept(h, m, k)
                           \/ h = g /\ Fn(g) \in Consuming /\ Recv(g) = m
                                    /\ reg[g].cursor = k
  BY <1>1, <1>3, ReturnKeeps
<1>5. \A h \in Goroutine, m \in Model, k \in Nat :
        Pending(h, m, k)' <=> Pending(h, m, k) /\ h # g
  BY <1>1, <1>2 DEF Pending, Fn, Recv, TypeOK
<1>6. \A m \in Model, k \in Nat :
        Pending(g, m, k) <=> Fn(g) \in Consuming /\ Recv(g) = m /\ reg[g].cursor = k
  BY <1>1 DEF Pending
<1>7. ASSUME NEW h \in Goroutine, NEW m \in Model, NEW k \in Nat
      PROVE  Kept(h, m, k)' \/ Pending(h, m, k)' <=> Kept(h, m, k) \/ Pending(h, m, k)
  BY <1>4, <1>5, <1>6
<1> QED
  BY <1>2, <1>7 DEF SameHolds, Holds, Kept, Pending

\* A constructor or deriving call that returns leaves everybody's turns alone.
LEMMA AllocateHolds ==
    ASSUME IInv, NEW g \in Goroutine, NewScriptedLLM(g) \/ Build(g)
    PROVE  /\ SameHolds
           /\ \E n \in Model \ made, k \in Nat :
                /\ made' = made \union {n}
                /\ cursor' = [cursor EXCEPT ![n] = k]
                /\ start' = [start EXCEPT ![n] = k]
<1>1. TypeOK /\ pc[g] \in {"options", "build"} /\ Fn(g) \notin Consuming
  BY DEF IInv, InCall, NewScriptedLLM, Build, At, Consuming, Deriving
<1>2. PICK n \in Model, f \in Snapshot : Allocate(n, f) /\ Return(g, n)
  <2>1. CASE NewScriptedLLM(g)
    BY <1>1, <2>1 DEF NewScriptedLLM, TypeOK
  <2>2. CASE Build(g)
    <3>1. DerivedConfig(call[g], reg[g]) \in Config
      BY <1>1, <2>2, DerivedConfigType DEF Build, At, IInv, InCall, TypeOK, Fn
    <3>2. [reg[g] EXCEPT !.conf = DerivedConfig(call[g], reg[g])] \in Snapshot
      BY <1>1, <3>1 DEF TypeOK, Snapshot
    <3> QED
      BY <2>2, <3>2 DEF Build
  <2> QED
    BY <2>1, <2>2
<1>3. pc' = [pc EXCEPT ![g] = "idle"] /\ UNCHANGED <<call, reg>>
  BY <1>2 DEF Return, Goto, NewScriptedLLM, Build
<1>4. [call |-> call[g], at |-> reg[g].cursor, res |-> n] \in Receipt
  BY <1>1 DEF TypeOK, Snapshot, Receipt, Result
<1>5. \A h \in Goroutine, m \in Model, k \in Nat : Kept(h, m, k)' <=> Kept(h, m, k)
  BY <1>1, <1>2, <1>4, ReturnKeeps
<1>6. \A h \in Goroutine, m \in Model, k \in Nat : Pending(h, m, k)' <=> Pending(h, m, k)
  BY <1>1, <1>3 DEF Pending, Fn, Recv, TypeOK
<1>7. SameHolds
  BY <1>5, <1>6 DEF SameHolds, Holds, Kept, Pending
<1>8. n \in Model \ made /\ f.cursor \in Nat
  BY <1>2 DEF Allocate, Snapshot
<1> QED
  BY <1>2, <1>7, <1>8 DEF Allocate

\* Moving the cursor hands the turn under it to the goroutine that moves it.
LEMMA AdvanceHolds ==
    ASSUME IInv, NEW g \in Goroutine, Advance(g)
    PROVE  /\ Recv(g) \in made /\ UNCHANGED <<made, start>>
           /\ cursor' = [cursor EXCEPT ![Recv(g)] = @ + 1]
           /\ \A h \in Goroutine, m \in Model, k \in Nat :
                Holds(h, m, k)' <=> \/ Holds(h, m, k)
                                    \/ h = g /\ m = Recv(g) /\ k = cursor[Recv(g)]
<1>1. TypeOK /\ pc[g] = "advance" /\ pc' = [pc EXCEPT ![g] = "unlock"]
      /\ UNCHANGED <<made, start, call, reg, got>>
  BY DEF IInv, Advance, At, Goto
<1>2. /\ Fn(g) \in Consuming /\ Recv(g) \in made
      /\ reg[g] = [conf |-> conf[Recv(g)], cursor |-> cursor[Recv(g)]]
  BY <1>1 DEF IInv, InCall
<1>3. reg[g].cursor = cursor[Recv(g)]
  BY <1>2
<1>4. \A h \in Goroutine, m \in Model, k \in Nat :
        Pending(h, m, k)' <=> \/ Pending(h, m, k)
                              \/ h = g /\ m = Recv(g) /\ k = cursor[Recv(g)]
  BY <1>1, <1>2, <1>3 DEF Pending, Fn, Recv, TypeOK
<1>5. \A h \in Goroutine, m \in Model, k \in Nat : Kept(h, m, k)' <=> Kept(h, m, k)
  BY <1>1 DEF Kept, Turns
<1>6. ASSUME NEW h \in Goroutine, NEW m \in Model, NEW k \in Nat
      PROVE  Kept(h, m, k)' \/ Pending(h, m, k)'
               <=> \/ Kept(h, m, k) \/ Pending(h, m, k)
                   \/ h = g /\ m = Recv(g) /\ k = cursor[Recv(g)]
  BY <1>4, <1>5
<1> QED
  BY <1>1, <1>2, <1>6 DEF Advance, Holds, Kept, Pending
-----------------------------------------------------------------------------
LEMMA TurnInit == Init => TurnInv
  BY DEF Init, TurnInv, Within, Dealt, Once, Holds, Turns

LEMMA TurnSame ==
    ASSUME TurnInv, TypeOK, SameHolds, UNCHANGED <<made, cursor, start>>
    PROVE  TurnInv'
<1>1. Within'
  BY DEF TurnInv, Within, SameHolds
<1>2. Dealt'
  BY DEF TurnInv, Dealt, SameHolds, TypeOK
<1>3. Once'
  BY DEF TurnInv, Once, SameHolds
<1> QED
  BY <1>1, <1>2, <1>3 DEF TurnInv

\* Nobody holds a turn of a model that has just been allocated.
LEMMA TurnAllocate ==
    ASSUME TurnInv, TypeOK, SameHolds, NEW n \in Model \ made, NEW k \in Nat,
           made' = made \union {n},
           cursor' = [cursor EXCEPT ![n] = k],
           start' = [start EXCEPT ![n] = k]
    PROVE  TurnInv'
<1>1. /\ cursor'[n] = k /\ start'[n] = k
      /\ \A m \in Model \ {n} : cursor'[m] = cursor[m] /\ start'[m] = start[m]
  BY DEF TypeOK
<1>2. Within'
  BY <1>1 DEF TurnInv, Within, SameHolds, TypeOK
<1>3. Dealt'
  BY <1>1 DEF TurnInv, Dealt, SameHolds, TypeOK
<1>4. Once'
  BY DEF TurnInv, Once, SameHolds
<1> QED
  BY <1>2, <1>3, <1>4 DEF TurnInv

\* The turn that an advancing goroutine gets was held by nobody.
LEMMA TurnAdvance ==
    ASSUME TurnInv, IInv, NEW g \in Goroutine, Advance(g)
    PROVE  TurnInv'
<1> DEFINE r == Recv(g)
<1>1. /\ r \in made /\ made \subseteq Model /\ UNCHANGED <<made, start>>
      /\ cursor' = [cursor EXCEPT ![r] = @ + 1]
      /\ \A h \in Goroutine, m \in Model, k \in Nat :
           Holds(h, m, k)' <=> Holds(h, m, k) \/ (h = g /\ m = r /\ k = cursor[r])
  BY AdvanceHolds DEF IInv, TypeOK
<1>2. /\ cursor \in [Model -> Nat] /\ start \in [Model -> Nat]
      /\ cursor'[r] = cursor[r] + 1
      /\ \A m \in Model \ {r} : cursor'[m] = cursor[m]
  BY <1>1 DEF IInv, TypeOK
<1> HIDE DEF r
<1>3. Within'
  BY <1>1, <1>2 DEF TurnInv, Within
<1>4. Dealt'
  <2> SUFFICES ASSUME NEW m \in made, NEW k \in Nat, start[m] <= k, k < cursor'[m]
               PROVE  \E h \in Goroutine : Holds(h, m, k)'
    BY <1>1 DEF Dealt
  <2>1. CASE m = r /\ k = cursor[r]
    BY <1>1, <2>1
  <2>2. CASE ~(m = r /\ k = cursor[r])
    <3>1. k < cursor[m]
      BY <1>1, <1>2, <2>2
    <3>2. PICK h \in Goroutine : Holds(h, m, k)
      BY <3>1 DEF TurnInv, Dealt
    <3> QED
      BY <1>1, <3>2
  <2> QED
    BY <2>1, <2>2
<1>5. Once'
  <2> SUFFICES ASSUME NEW h1 \in Goroutine, NEW h2 \in Goroutine, NEW m \in Model,
                      NEW k \in Nat, Holds(h1, m, k)', Holds(h2, m, k)'
               PROVE  h1 = h2
    BY DEF Once
  <2>1. \A h \in Goroutine : ~Holds(h, r, cursor[r])
    BY <1>1, <1>2 DEF TurnInv, Within
  <2> QED
    BY <1>1, <2>1 DEF TurnInv, Once
<1> QED
  BY <1>3, <1>4, <1>5 DEF TurnInv

LEMMA TurnStep == IInv /\ TurnInv /\ [Next]_vars => TurnInv'
<1> SUFFICES ASSUME IInv, TurnInv, [Next]_vars PROVE TurnInv'
  OBVIOUS
<1>0. TypeOK
  BY DEF IInv
<1>1. CASE UNCHANGED vars \/ Finished
  <2>1. SameHolds /\ UNCHANGED <<made, cursor, start>>
    BY <1>1 DEF Finished, vars, SameHolds, Holds, Turns, Fn, Recv
  <2> QED
    BY <1>0, <2>1, TurnSame
<1>2. CASE \E g \in Goroutine : InvokeNew(g) \/ Invoke(g) \/ Step(g)
  <2>1. PICK g \in Goroutine : InvokeNew(g) \/ Invoke(g) \/ Step(g)
    BY <1>2
  <2>2. CASE \/ Invoke(g) \/ InvokeNew(g) \/ NextOption(g) \/ Lock(g) \/ Load(g)
             \/ UnlockToBuild(g)
    BY <1>0, <2>2, QuietHolds, TurnSame
  <2>3. CASE UnlockAndReturn(g)
    BY <1>0, <2>3, UnlockHolds, TurnSame
  <2>4. CASE NewScriptedLLM(g) \/ Build(g)
    BY <1>0, <2>4, AllocateHolds, TurnAllocate
  <2>5. CASE Advance(g)
    BY <2>5, TurnAdvance
  <2> QED
    BY <2>1, <2>2, <2>3, <2>4, <2>5 DEF Step
<1> QED
  BY <1>1, <1>2 DEF Next

\* However many goroutines share a model, every turn of its script up to the
\* cursor went to exactly one of their calls (scripted.go:66-92).
THEOREM EveryTurn == Spec => []EveryTurnOnce
<1>1. TypeOK /\ TurnInv => EveryTurnOnce
  <2> SUFFICES ASSUME TypeOK, TurnInv, NEW m \in made, NEW k \in 0 .. cursor[m]
               PROVE  IF k \in start[m] .. cursor[m] - 1
                        THEN \E g \in Goroutine :
                               /\ Holds(g, m, k)
                               /\ \A h \in Goroutine \ {g} : ~Holds(h, m, k)
                        ELSE \A g \in Goroutine : ~Holds(g, m, k)
    BY DEF EveryTurnOnce
  <2>1. m \in Model /\ cursor[m] \in Nat /\ start[m] \in Nat /\ k \in Nat
    BY DEF TypeOK
  <2>2. CASE k \in start[m] .. cursor[m] - 1
    <3>1. PICK g \in Goroutine : Holds(g, m, k)
      BY <2>1, <2>2 DEF TurnInv, Dealt
    <3> QED
      BY <2>1, <2>2, <3>1 DEF TurnInv, Once
  <2>3. CASE k \notin start[m] .. cursor[m] - 1
    BY <2>1, <2>3 DEF TurnInv, Within
  <2> QED
    BY <2>2, <2>3
<1>2. IInv => TypeOK
  BY DEF IInv
<1> QED
  BY <1>1, <1>2, TurnInit, TurnStep, Invariance, PTL DEF Spec

-----------------------------------------------------------------------------
\* A model others can see changes only by a Generate or a Stream on it, which
\* moves its cursor by one: deriving from it never does (scripted.go:101-122).
THEOREM OnlyTurns == Spec => OnlyTurnsMoveCursor
<1> DEFINE P == \A m \in made :
                  /\ conf'[m] = conf[m]
                  /\ cursor'[m] # cursor[m] =>
                       /\ cursor'[m] = cursor[m] + 1
                       /\ \E g \in Goroutine : mu[m] = g /\ Fn(g) \in Consuming
<1>1. IInv /\ [Next]_vars => [P]_vars
  <2> SUFFICES ASSUME IInv, Next PROVE P
    BY DEF vars
  <2>0. TypeOK
    BY DEF IInv
  <2>1. CASE Finished
    BY <2>1 DEF Finished, vars
  <2>2. CASE \E g \in Goroutine : InvokeNew(g) \/ Invoke(g) \/ Step(g)
    <3>1. PICK g \in Goroutine : InvokeNew(g) \/ Invoke(g) \/ Step(g)
      BY <2>2
    <3>2. CASE Advance(g)
      <4>1. Recv(g) \in Model /\ mu[Recv(g)] = g /\ Fn(g) \in Consuming
        BY <3>2 DEF Advance, At, IInv, TypeOK, InCall, MutualExclusion, Critical
      <4> QED
        BY <2>0, <3>2, <4>1 DEF Advance, TypeOK
    <3>3. CASE NewScriptedLLM(g) \/ Build(g)
      <4>1. PICK n \in Model : \E f : Allocate(n, f)
        BY <3>3 DEF NewScriptedLLM, Build
      <4> QED
        BY <2>0, <4>1 DEF Allocate, TypeOK
    <3>4. CASE ~(Advance(g) \/ NewScriptedLLM(g) \/ Build(g))
      BY <3>1, <3>4 DEF Step, Invoke, InvokeNew, NextOption, Lock, Load, UnlockAndReturn,
         UnlockToBuild
    <3> QED
      BY <3>2, <3>3, <3>4
  <2> QED
    BY <2>1, <2>2 DEF Next
<1>2. Spec => [][P]_vars
  BY <1>1, Invariance, PTL DEF Spec
<1> QED
  BY <1>2 DEF OnlyTurnsMoveCursor

(***************************************************************************)
(* What one goroutine sees: its turns come in order, and the models it     *)
(* derives take the script up where their receiver stood, with the         *)
(* receiver's fields.                                                      *)
(***************************************************************************)
\* The turns of model m among goroutine g's first j - 1 receipts are before k.
Earlier(g, j, m, k) ==
    \A i \in 1 .. Len(got[g]) :
      i < j /\ got[g][i].call.fn \in Consuming /\ got[g][i].call.recv = m => got[g][i].at < k

\* What a finished Generate or Stream leaves behind ...
TurnReceipt(g, j) ==
    LET r == got[g][j] IN
      r.call.fn \in Consuming =>
        /\ r.call.recv \in made
        /\ r.res = Turn([conf |-> conf[r.call.recv], cursor |-> r.at])
        /\ Earlier(g, j, r.call.recv, r.at)

\* ... and a finished WithTools or WithSchema.
DerivedTools(r) == IF r.call.fn = "WithTools" THEN r.call.arg ELSE conf[r.call.recv].tools
DerivationReceipt(g, j) ==
    LET r == got[g][j] IN
      r.call.fn \in Deriving =>
        /\ r.call.recv \in made /\ r.res \in made
        /\ conf[r.res] = [conf[r.call.recv] EXCEPT !.tools = DerivedTools(r)]
        /\ start[r.res] <= cursor[r.call.recv]
        /\ Earlier(g, j, r.call.recv, start[r.res])

\* A call in progress works with its receiver's fields; once it has read the
\* cursor, this lies after every turn its goroutine has been given.
Underway(g) ==
    /\ pc[g] \in {"advance", "unlock", "build"} => reg[g].conf = conf[Recv(g)]
    /\ pc[g] \in {"unlock", "build"} =>
         /\ reg[g].cursor <= cursor[Recv(g)]
         /\ Earlier(g, Len(got[g]) + 1, Recv(g), reg[g].cursor)

Receipts(g) == \A j \in 1 .. Len(got[g]) : TurnReceipt(g, j) /\ DerivationReceipt(g, j)

OrderInv == \A g \in Goroutine : Receipts(g) /\ Underway(g)

-----------------------------------------------------------------------------
\* The receipts a goroutine has stay true.
LEMMA OldReceipts ==
    ASSUME TypeOK, TypeOK', Grows, NEW g \in Goroutine, Receipts(g),
           Len(got[g]) <= Len(got'[g]),
           \A i \in 1 .. Len(got[g]) : got'[g][i] = got[g][i]
    PROVE  \A j \in 1 .. Len(got[g]) : TurnReceipt(g, j)' /\ DerivationReceipt(g, j)'
<1>0. Len(got[g]) \in Nat /\ Len(got'[g]) \in Nat
  BY DEF TypeOK
<1> TAKE j \in 1 .. Len(got[g])
<1>1. got'[g][j] = got[g][j] /\ TurnReceipt(g, j) /\ DerivationReceipt(g, j)
  BY DEF Receipts
<1>2. ASSUME NEW m, NEW k, Earlier(g, j, m, k)
      PROVE  \A i \in 1 .. Len(got'[g]) :
               i < j /\ got'[g][i].call.fn \in Consuming /\ got'[g][i].call.recv = m
                 => got'[g][i].at < k
  <2> TAKE i \in 1 .. Len(got'[g])
  <2>1. i < j => i \in 1 .. Len(got[g]) /\ got'[g][i] = got[g][i]
    BY <1>0
  <2> QED
    BY <1>2, <2>1 DEF Earlier
<1>3. TurnReceipt(g, j)'
  BY <1>1, <1>2 DEF TurnReceipt, Earlier, Grows
<1>4. DerivationReceipt(g, j)'
  <2> SUFFICES ASSUME got[g][j].call.fn \in Deriving PROVE DerivationReceipt(g, j)'
    BY <1>1 DEF DerivationReceipt
  <2> DEFINE r == got[g][j]
  <2>1. /\ r.call.recv \in made /\ r.res \in made
        /\ conf[r.res] = [conf[r.call.recv] EXCEPT !.tools = DerivedTools(r)]
        /\ start[r.res] <= cursor[r.call.recv]
        /\ Earlier(g, j, r.call.recv, start[r.res])
    BY <1>1 DEF DerivationReceipt
  <2>2. /\ conf'[r.call.recv] = conf[r.call.recv] /\ conf'[r.res] = conf[r.res]
        /\ start'[r.res] = start[r.res] /\ cursor[r.call.recv] <= cursor'[r.call.recv]
        /\ made \subseteq made'
    BY <2>1 DEF Grows
  <2>3. start'[r.res] <= cursor'[r.call.recv]
    <3>1. r.res \in Model /\ r.call.recv \in Model
      BY <2>1 DEF TypeOK
    <3>2. start[r.res] \in Nat /\ cursor[r.call.recv] \in Nat /\ cursor'[r.call.recv] \in Nat
      BY <3>1 DEF TypeOK
    <3>3. start'[r.res] = start[r.res] /\ cursor[r.call.recv] <= cursor'[r.call.recv]
      BY <2>2
    <3>4. start[r.res] <= cursor[r.call.recv]
      BY <2>1
    <3> HIDE DEF r
    <3> QED
      BY <3>2, <3>3, <3>4
  <2>4. conf'[r.res] = [conf'[r.call.recv] EXCEPT !.tools = DerivedTools(r)']
    BY <2>1, <2>2 DEF DerivedTools
  <2>5. Earlier(g, j, r.call.recv, start[r.res])'
    <3>1. /\ start'[r.res] = start[r.res]
          /\ got'[g][j] = got[g][j]
      BY <1>1, <2>2
    <3>2. \A i \in 1 .. Len(got'[g]) :
            i < j /\ got'[g][i].call.fn \in Consuming /\ got'[g][i].call.recv = r.call.recv
              => got'[g][i].at < start[r.res]
      BY <1>2, <2>1
    <3> QED
      BY <3>1, <3>2 DEF Earlier
  <2>6. r.call.recv \in made' /\ r.res \in made'
    BY <2>1, <2>2
  <2> QED
    BY <1>1, <2>3, <2>4, <2>5, <2>6 DEF DerivationReceipt, DerivedTools
<1> QED
  BY <1>3, <1>4

\* One receipt more.
LEMMA AppendedReceipt ==
    ASSUME TypeOK, TypeOK', Grows, NEW g \in Goroutine, Receipts(g), NEW r \in Receipt,
           got' = [got EXCEPT ![g] = Append(@, r)],
           r.call.fn \in Consuming =>
             /\ r.call.recv \in made'
             /\ r.res = Turn([conf |-> conf'[r.call.recv], cursor |-> r.at])
             /\ Earlier(g, Len(got[g]) + 1, r.call.recv, r.at),
           r.call.fn \in Deriving =>
             /\ r.call.recv \in made' /\ r.res \in made'
             /\ conf'[r.res] = [conf'[r.call.recv] EXCEPT !.tools =
                                  IF r.call.fn = "WithTools" THEN r.call.arg ELSE @]
             /\ start'[r.res] <= cursor'[r.call.recv]
             /\ Earlier(g, Len(got[g]) + 1, r.call.recv, start'[r.res])
    PROVE  Receipts(g)'
<1>1. got[g] \in Seq(Receipt) /\ Len(got[g]) \in Nat
  BY DEF TypeOK
<1>0. PICK n \in Nat : n = Len(got[g]) + 1
  BY <1>1
<1>2. got'[g] = Append(got[g], r)
  BY DEF TypeOK
<1>3. /\ Len(got'[g]) = n /\ got'[g][n] = r
      /\ \A i \in 1 .. Len(got[g]) : got'[g][i] = got[g][i]
  BY <1>0, <1>1, <1>2
<1>4. \A j \in 1 .. Len(got[g]) : TurnReceipt(g, j)' /\ DerivationReceipt(g, j)'
  BY <1>1, <1>3, OldReceipts
<1>5. ASSUME NEW m, NEW k, Earlier(g, n, m, k)
      PROVE  \A i \in 1 .. Len(got'[g]) :
               i < n /\ got'[g][i].call.fn \in Consuming /\ got'[g][i].call.recv = m
                 => got'[g][i].at < k
  <2> TAKE i \in 1 .. Len(got'[g])
  <2>1. i < n => i \in 1 .. Len(got[g]) /\ got'[g][i] = got[g][i]
    BY <1>0, <1>1, <1>3
  <2> QED
    BY <1>5, <2>1 DEF Earlier
<1>6. r.call.fn \in Consuming =>
        /\ r.call.recv \in made'
        /\ r.res = Turn([conf |-> conf'[r.call.recv], cursor |-> r.at])
        /\ Earlier(g, n, r.call.recv, r.at)
  BY <1>0
<1>7. r.call.fn \in Deriving =>
        /\ r.call.recv \in made' /\ r.res \in made'
        /\ conf'[r.res] = [conf'[r.call.recv] EXCEPT !.tools =
                             IF r.call.fn = "WithTools" THEN r.call.arg ELSE @]
        /\ start'[r.res] <= cursor'[r.call.recv]
        /\ Earlier(g, n, r.call.recv, start'[r.res])
  BY <1>0
<1>8. TurnReceipt(g, n)'
  BY <1>3, <1>5, <1>6 DEF TurnReceipt, Earlier
<1>9. DerivationReceipt(g, n)'
  <2> SUFFICES ASSUME r.call.fn \in Deriving PROVE DerivationReceipt(g, n)'
    BY <1>3 DEF DerivationReceipt
  <2>1. Earlier(g, n, r.call.recv, start'[r.res])
    BY <1>7
  <2>2. \A i \in 1 .. Len(got'[g]) :
          i < n /\ got'[g][i].call.fn \in Consuming /\ got'[g][i].call.recv = r.call.recv
            => got'[g][i].at < start'[r.res]
    BY <1>5, <2>1
  <2>3. Earlier(g, n, got[g][n].call.recv, start[got[g][n].res])'
    BY <1>3, <2>2 DEF Earlier
  <2>4. DerivedTools(got[g][n])'
          = IF r.call.fn = "WithTools" THEN r.call.arg ELSE conf'[r.call.recv].tools
    BY <1>3 DEF DerivedTools
  <2>5. conf'[r.res] = [conf'[r.call.recv] EXCEPT !.tools =
                          IF r.call.fn = "WithTools" THEN r.call.arg ELSE conf'[r.call.recv].tools]
    BY <1>7
  <2>6. r.call.recv \in made' /\ r.res \in made' /\ start'[r.res] <= cursor'[r.call.recv]
    BY <1>7
  <2> QED
    BY <1>3, <2>3, <2>4, <2>5, <2>6 DEF DerivationReceipt
<1>10. \A j \in 1 .. Len(got'[g]) : j \in 1 .. Len(got[g]) \/ j = n
  BY <1>0, <1>1, <1>3
<1> QED
  BY <1>4, <1>8, <1>9, <1>10 DEF Receipts
-----------------------------------------------------------------------------
\* A goroutine that takes no step keeps its part of the invariant.
LEMMA OthersKeep ==
    ASSUME TypeOK, TypeOK', Grows, InCall, NEW h \in Goroutine, Receipts(h), Underway(h),
           pc'[h] = pc[h], call'[h] = call[h], reg'[h] = reg[h], got'[h] = got[h]
    PROVE  Receipts(h)' /\ Underway(h)'
<1>1. Receipts(h)'
  <2>1. Len(got[h]) \in Nat
    BY DEF TypeOK
  <2> QED
    BY <2>1, OldReceipts DEF Receipts
<1>2. Underway(h)'
  <2> SUFFICES ASSUME pc[h] \in {"advance", "unlock", "build"} PROVE Underway(h)'
    BY DEF Underway
  <2>1. Recv(h) \in made /\ Recv(h)' = Recv(h)
    BY DEF InCall, Recv
  <2>2. cursor[Recv(h)] \in Nat /\ cursor'[Recv(h)] \in Nat /\ reg[h].cursor \in Nat
    BY <2>1 DEF TypeOK, Snapshot
  <2>3. conf'[Recv(h)] = conf[Recv(h)] /\ cursor[Recv(h)] <= cursor'[Recv(h)]
    BY <2>1 DEF Grows
  <2>4. \A j, m, k : Earlier(h, j, m, k) =>
          \A i \in 1 .. Len(got'[h]) :
            i < j /\ got'[h][i].call.fn \in Consuming /\ got'[h][i].call.recv = m
              => got'[h][i].at < k
    BY DEF Earlier
  <2>5. reg[h].conf = conf[Recv(h)]
    BY DEF Underway
  <2>6. CASE pc[h] = "advance"
    BY <2>1, <2>3, <2>5, <2>6 DEF Underway
  <2>7. CASE pc[h] \in {"unlock", "build"}
    <3>1. reg[h].cursor <= cursor[Recv(h)]
          /\ Earlier(h, Len(got[h]) + 1, Recv(h), reg[h].cursor)
      BY <2>7 DEF Underway
    <3>2. reg'[h].cursor <= cursor'[Recv(h)]
      BY <2>2, <2>3, <3>1
    <3>3. Earlier(h, Len(got[h]) + 1, Recv(h), reg[h].cursor)'
      BY <2>1, <2>4, <3>1 DEF Earlier
    <3> QED
      BY <2>1, <2>3, <2>5, <3>2, <3>3 DEF Underway
  <2> QED
    BY <2>6, <2>7
<1> QED
  BY <1>1, <1>2

\* Every turn a goroutine was given lies before the cursor.
LEMMA EarlierThanCursor ==
    ASSUME TypeOK, TurnInv, NEW g \in Goroutine, NEW m \in Model, NEW j
    PROVE  Earlier(g, j, m, cursor[m])
<1>1. ASSUME NEW i \in 1 .. Len(got[g]), got[g][i].call.fn \in Consuming,
             got[g][i].call.recv = m
      PROVE  got[g][i].at < cursor[m]
  <2>1. got[g] \in Seq(Receipt)
    BY DEF TypeOK
  <2>2. got[g][i] \in Receipt
    BY <2>1
  <2>3. got[g][i].at \in Nat
    BY <2>2 DEF Receipt
  <2>4. Holds(g, m, got[g][i].at)
    BY <1>1 DEF Holds, Turns
  <2> QED
    BY <2>3, <2>4 DEF TurnInv, Within
<1> QED
  BY <1>1 DEF Earlier
-----------------------------------------------------------------------------
\* The steps of g's own call, up to the one that returns.
LEMMA QuietOrder ==
    ASSUME IInv, IInv', TurnInv, Grows, NEW g \in Goroutine, Receipts(g), Underway(g),
           \/ Invoke(g) \/ InvokeNew(g) \/ NextOption(g) \/ Lock(g)
           \/ Load(g) \/ Advance(g) \/ UnlockToBuild(g)
    PROVE  Receipts(g)' /\ Underway(g)'
<1>0. TypeOK /\ TypeOK' /\ got' = got
  BY DEF IInv, Invoke, InvokeNew, NextOption, Lock, Load, Advance, UnlockToBuild
<1>1. Receipts(g)'
  <2>1. Len(got[g]) \in Nat
    BY <1>0 DEF TypeOK
  <2> QED
    BY <1>0, <2>1, OldReceipts DEF Receipts
<1>2. ASSUME NEW j, NEW m, NEW k, Earlier(g, j, m, k)
      PROVE  \A i \in 1 .. Len(got'[g]) :
               i < j /\ got'[g][i].call.fn \in Consuming /\ got'[g][i].call.recv = m
                 => got'[g][i].at < k
  BY <1>0, <1>2 DEF Earlier
<1>3. CASE Invoke(g) \/ InvokeNew(g) \/ NextOption(g) \/ Lock(g)
  <2>1. pc'[g] \notin {"advance", "unlock", "build"}
    BY <1>0, <1>3 DEF TypeOK, Invoke, InvokeNew, NextOption, Lock, At, Goto
  <2> QED
    BY <1>1, <2>1 DEF Underway
<1>4. CASE Load(g)
  <2>1. Recv(g) \in made /\ Recv(g) \in Model /\ Recv(g)' = Recv(g)
        /\ UNCHANGED <<conf, cursor>>
    BY <1>0, <1>4 DEF Load, At, IInv, InCall, TypeOK, Recv
  <2>2. reg'[g].conf = conf[Recv(g)] /\ reg'[g].cursor = cursor[Recv(g)]
    BY <1>0, <1>4 DEF Load, TypeOK
  <2>3. Earlier(g, Len(got[g]) + 1, Recv(g), cursor[Recv(g)])
    BY <1>0, <2>1, EarlierThanCursor
  <2>4. cursor[Recv(g)] \in Nat
    BY <1>0, <2>1 DEF TypeOK
  <2>5. Earlier(g, Len(got[g]) + 1, Recv(g), reg[g].cursor)'
    BY <1>0, <1>2, <2>1, <2>2, <2>3 DEF Earlier
  <2> QED
    BY <1>1, <2>1, <2>2, <2>4, <2>5 DEF Underway
<1>5. CASE Advance(g)
  <2>1. /\ Recv(g) \in made /\ Recv(g) \in Model /\ Recv(g)' = Recv(g)
        /\ reg[g].conf = conf[Recv(g)] /\ reg[g].cursor = cursor[Recv(g)]
        /\ UNCHANGED <<conf, reg>>
    BY <1>0, <1>5 DEF Advance, At, IInv, InCall, TypeOK, Recv
  <2>2. cursor[Recv(g)] \in Nat /\ cursor'[Recv(g)] = cursor[Recv(g)] + 1
    BY <1>0, <1>5, <2>1 DEF Advance, TypeOK
  <2>3. Earlier(g, Len(got[g]) + 1, Recv(g), cursor[Recv(g)])
    BY <1>0, <2>1, EarlierThanCursor
  <2>4. Earlier(g, Len(got[g]) + 1, Recv(g), reg[g].cursor)'
    BY <1>0, <1>2, <2>1, <2>3 DEF Earlier
  <2> QED
    BY <1>1, <2>1, <2>2, <2>4 DEF Underway
<1>6. CASE UnlockToBuild(g)
  <2>1. pc[g] = "unlock" /\ UNCHANGED <<conf, cursor, reg, call>>
    BY <1>6 DEF UnlockToBuild, At
  <2>2. /\ reg[g].conf = conf[Recv(g)] /\ reg[g].cursor <= cursor[Recv(g)]
        /\ Earlier(g, Len(got[g]) + 1, Recv(g), reg[g].cursor)
    BY <2>1 DEF Underway
  <2>3. Recv(g)' = Recv(g)
    BY <2>1 DEF Recv
  <2>4. Earlier(g, Len(got[g]) + 1, Recv(g), reg[g].cursor)'
    BY <1>0, <1>2, <2>1, <2>2, <2>3 DEF Earlier
  <2> QED
    BY <1>1, <2>1, <2>2, <2>3, <2>4 DEF Underway
<1> QED
  BY <1>3, <1>4, <1>5, <1>6

\* A goroutine between two calls has nothing under way.
LEMMA IdleUnderway ==
    ASSUME TypeOK, NEW g \in Goroutine, NEW res, Return(g, res)
    PROVE  Underway(g)'
<1>1. pc'[g] = "idle"
  BY DEF TypeOK, Return, Goto
<1> QED
  BY <1>1 DEF Underway

LEMMA UnlockAndReturnOrder ==
    ASSUME IInv, IInv', Grows, NEW g \in Goroutine, Receipts(g), Underway(g),
           UnlockAndReturn(g)
    PROVE  Receipts(g)' /\ Underway(g)'
<1>0. TypeOK /\ TypeOK' /\ pc[g] = "unlock" /\ UNCHANGED <<made, conf>>
  BY DEF IInv, UnlockAndReturn, At
<1>1. Fn(g) \in Method \ Deriving /\ Recv(g) \in made
  BY <1>0 DEF UnlockAndReturn, IInv, InCall
<1>2. /\ reg[g] \in Snapshot /\ reg[g].conf = conf[Recv(g)]
      /\ Earlier(g, Len(got[g]) + 1, Recv(g), reg[g].cursor)
  BY <1>0 DEF Underway, TypeOK
<1>3. PICK r : r = [call |-> call[g], at |-> reg[g].cursor, res |-> Answer(call[g], reg[g])]
  OBVIOUS
<1>4. r \in Receipt
  <2>1. Answer(call[g], reg[g]) \in Result
    BY <1>0, <1>1, AnswerType DEF TypeOK, Fn
  <2> QED
    BY <1>0, <1>3, <2>1 DEF TypeOK, Snapshot, Receipt
<1>5. /\ r.call = call[g] /\ r.at = reg[g].cursor /\ r.res = Answer(call[g], reg[g])
      /\ r.call.fn = Fn(g) /\ r.call.recv = Recv(g)
  BY <1>3 DEF Fn, Recv
<1>6. got' = [got EXCEPT ![g] = Append(@, r)]
  BY <1>3 DEF UnlockAndReturn, Return
<1>7. Fn(g) \in Consuming => r.res = Turn([conf |-> conf[Recv(g)], cursor |-> r.at])
  <2>1. reg[g] = [conf |-> conf[Recv(g)], cursor |-> r.at]
    BY <1>2, <1>5 DEF Snapshot
  <2> QED
    BY <1>5, <2>1 DEF Answer, Fn, Consuming
<1>8. Receipts(g)'
  BY <1>0, <1>1, <1>2, <1>4, <1>5, <1>6, <1>7, AppendedReceipt
<1>9. Underway(g)'
  BY <1>0, IdleUnderway DEF UnlockAndReturn
<1> QED
  BY <1>8, <1>9

LEMMA NewOrder ==
    ASSUME IInv, IInv', Grows, NEW g \in Goroutine, Receipts(g), NewScriptedLLM(g)
    PROVE  Receipts(g)' /\ Underway(g)'
<1>0. TypeOK /\ TypeOK' /\ Fn(g) = "New"
  BY DEF IInv, InCall, NewScriptedLLM, At
<1>1. PICK n \in Model : Return(g, n)
  BY DEF NewScriptedLLM
<1>2. PICK r : r = [call |-> call[g], at |-> reg[g].cursor, res |-> n]
  OBVIOUS
<1>3. r \in Receipt /\ r.call.fn = "New"
  BY <1>0, <1>2 DEF TypeOK, Snapshot, Receipt, Result, Fn
<1>4. got' = [got EXCEPT ![g] = Append(@, r)]
  BY <1>1, <1>2 DEF Return
<1>5. Receipts(g)'
  BY <1>0, <1>3, <1>4, AppendedReceipt DEF Consuming, Deriving
<1> QED
  BY <1>0, <1>1, <1>5, IdleUnderway

LEMMA BuildOrder ==
    ASSUME IInv, IInv', Grows, NEW g \in Goroutine, Receipts(g), Underway(g), Build(g)
    PROVE  Receipts(g)' /\ Underway(g)'
<1>0. TypeOK /\ TypeOK' /\ pc[g] = "build" /\ Fn(g) \in Deriving /\ Recv(g) \in made
  BY DEF IInv, InCall, Build, At
<1>1. PICK n \in Model :
        /\ Allocate(n, [reg[g] EXCEPT !.conf = DerivedConfig(call[g], reg[g])])
        /\ Return(g, n)
  BY DEF Build
<1>2. /\ reg[g] \in Snapshot /\ reg[g].conf = conf[Recv(g)]
      /\ reg[g].cursor <= cursor[Recv(g)]
      /\ Earlier(g, Len(got[g]) + 1, Recv(g), reg[g].cursor)
  BY <1>0 DEF Underway, TypeOK
<1>3. /\ n \in made' /\ n # Recv(g) /\ conf'[n] = DerivedConfig(call[g], reg[g])
      /\ start'[n] = reg[g].cursor /\ Recv(g) \in made'
  BY <1>0, <1>1, <1>2 DEF Allocate, TypeOK, Snapshot
<1>4. conf'[Recv(g)] = conf[Recv(g)] /\ cursor'[Recv(g)] = cursor[Recv(g)]
  BY <1>0, <1>1, <1>3 DEF Allocate, TypeOK
<1>5. PICK r : r = [call |-> call[g], at |-> reg[g].cursor, res |-> n]
  OBVIOUS
<1>6. /\ r \in Receipt /\ r.call.fn = Fn(g) /\ r.call.recv = Recv(g)
      /\ r.call.arg = call[g].arg /\ r.res = n /\ r.at = reg[g].cursor
  BY <1>0, <1>2, <1>5 DEF TypeOK, Snapshot, Receipt, Result, Fn, Recv
<1>7. got' = [got EXCEPT ![g] = Append(@, r)]
  BY <1>1, <1>5 DEF Return
<1>8. conf'[n] = [conf'[Recv(g)] EXCEPT !.tools =
                    IF Fn(g) = "WithTools" THEN call[g].arg ELSE @]
  <2>1. conf[Recv(g)] \in Config
    BY <1>0 DEF TypeOK
  <2>2. DerivedConfig(call[g], reg[g]) =
          [conf[Recv(g)] EXCEPT !.tools = IF Fn(g) = "WithTools" THEN call[g].arg ELSE @]
    BY <1>2, <2>1 DEF DerivedConfig, Config, Fn
  <2> QED
    BY <1>3, <1>4, <2>2
<1>9. r.call.fn \notin Consuming
  BY <1>0, <1>6 DEF Consuming, Deriving
<1>10. Receipts(g)'
  BY <1>0, <1>2, <1>3, <1>4, <1>6, <1>7, <1>8, <1>9, AppendedReceipt
<1> QED
  BY <1>0, <1>1, <1>10, IdleUnderway
-----------------------------------------------------------------------------
LEMMA OrderInit == Init => OrderInv
<1> SUFFICES ASSUME Init, NEW g \in Goroutine PROVE Receipts(g) /\ Underway(g)
  BY DEF OrderInv
<1>1. pc[g] = "idle" /\ 1 .. Len(got[g]) = {}
  BY DEF Init
<1> QED
  BY <1>1 DEF Receipts, Underway

LEMMA OrderStep == IInv /\ IInv' /\ TurnInv /\ OrderInv /\ [Next]_vars => OrderInv'
<1> SUFFICES ASSUME IInv, IInv', TurnInv, OrderInv, [Next]_vars PROVE OrderInv'
  OBVIOUS
<1>1. CASE UNCHANGED vars \/ Finished
  <2>1. UNCHANGED vars
    BY <1>1 DEF Finished
  <2>2. ASSUME NEW g \in Goroutine PROVE Receipts(g)' /\ Underway(g)'
    <3>1. Receipts(g) /\ Underway(g)
      BY DEF OrderInv
    <3>2. Receipts(g)' = Receipts(g)
      BY <2>1 DEF vars, Receipts, TurnReceipt, DerivationReceipt, DerivedTools, Earlier
    <3>3. Underway(g)' = Underway(g)
      BY <2>1 DEF vars, Underway, Earlier, Recv
    <3> QED
      BY <3>1, <3>2, <3>3
  <2> QED
    BY <2>2 DEF OrderInv
<1>2. CASE \E g \in Goroutine : InvokeNew(g) \/ Invoke(g) \/ Step(g)
  <2>1. PICK g \in Goroutine : InvokeNew(g) \/ Invoke(g) \/ Step(g)
    BY <1>2
  <2>2. TypeOK /\ TypeOK' /\ InCall /\ Grows
    BY <2>1, StepGrows DEF IInv
  <2>3. ASSUME NEW h \in Goroutine, h # g PROVE Receipts(h)' /\ Underway(h)'
    BY <2>1, <2>2, <2>3, StepIsLocal, OthersKeep DEF OrderInv
  <2>4. Receipts(g) /\ Underway(g)
    BY DEF OrderInv
  <2>5. Receipts(g)' /\ Underway(g)'
    BY <2>1, <2>2, <2>4, QuietOrder, UnlockAndReturnOrder, NewOrder, BuildOrder DEF Step
  <2> QED
    BY <2>3, <2>5 DEF OrderInv
<1> QED
  BY <1>1, <1>2 DEF Next

THEOREM OrderInvariance == Spec => [](IInv /\ OrderInv)
  BY OrderInit, OrderStep, TurnInit, TurnStep, Invariance, PTL DEF Spec

\* However the calls of other goroutines come between, a goroutine's own calls
\* on a model get ever later turns of the script, and each gets what the script
\* has there (scripted.go:66-92).
THEOREM Order == Spec => []TurnsInOrder
<1>1. OrderInv => TurnsInOrder
  BY DEF OrderInv, Receipts, TurnReceipt, Earlier, TurnsInOrder, Turns
<1> QED
  BY <1>1, OrderInvariance, PTL

\* A model derived under contention starts after every turn its caller has had
\* from the receiver, and not past the receiver's cursor, though the copy is
\* built after the mutex is released (scripted.go:103-122, 154-173).
THEOREM Resumption == Spec => []DerivedResumes
<1>1. OrderInv => DerivedResumes
  BY DEF OrderInv, Receipts, DerivationReceipt, Earlier, DerivedResumes, Derivations, Turns
<1> QED
  BY <1>1, OrderInvariance, PTL

\* Deriving copies every field of the receiver but the tools that WithTools
\* binds, for any chain of derivations (scripted.go:112-120, 162-172).
THEOREM FieldsKept == Spec => []DerivedKeepsFields
<1>1. OrderInv => DerivedKeepsFields
  BY DEF OrderInv, Receipts, DerivationReceipt, DerivedTools, DerivedKeepsFields, Derivations
<1> QED
  BY <1>1, OrderInvariance, PTL
=============================================================================
