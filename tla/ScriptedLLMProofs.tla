-------------------------- MODULE ScriptedLLMProofs --------------------------
(***************************************************************************)
(* Proofs about ScriptedLLM, for any number of goroutines, models, calls,  *)
(* scripts and options.                                                    *)
(***************************************************************************)
EXTENDS ScriptedLLM, Flattening, SequenceTheorems, TLAPS

\* What the code relies on between two steps of a call: a goroutine inside a
\* method has a receiver that exists; until it moves the cursor it has an exact
\* copy of the receiver's fields; an unfinished constructor call starts its
\* script at 0.
InCall ==
    /\ \A g \in Goroutine : pc[g] \in {"lock", "body", "advance", "unlock", "build"} =>
         Fn(g) \in Method /\ Recv(g) \in made
    /\ \A g \in Goroutine : pc[g] = "advance" =>
         /\ Fn(g) \in Consuming
         /\ reg[g] = [conf |-> conf[Recv(g)], cursor |-> cursor[Recv(g)]]
    /\ \A g \in Goroutine : pc[g] = "build" => Fn(g) \in Deriving
    /\ \A g \in Goroutine : pc[g] = "options" => Fn(g) = "New" /\ reg[g].cursor = 0

IInv == TypeOK /\ MutualExclusion /\ InCall

-----------------------------------------------------------------------------
\* The constructor's defaults are a configuration.
LEMMA DefaultsType == DefaultConfig \in Config /\ NoFields \in Snapshot
<1>1. {"Tools", "Embeddings", "StructuredOutputs"} \in SUBSET Capability
  BY DEF Capability
<1>2. <<>> \in Seq(Response)
  OBVIOUS
<1>3. DefaultConfig \in Config
  BY <1>1, <1>2, NameAssumption DEF DefaultConfig, Config
<1> QED
  BY <1>3 DEF NoFields, Snapshot

\* An option leaves a configuration a configuration.
LEMMA ApplyOptionType ==
    ASSUME NEW c \in Config, NEW o \in Option
    PROVE  ApplyOption(c, o) \in Config
<1>1. CASE o.opt \in {"WithProvider", "WithModel"}
  <2>1. o.arg \in Name
    BY <1>1 DEF Option
  <2> QED
    BY <1>1, <2>1 DEF ApplyOption, Config
<1>2. CASE o.opt = "WithCapabilities"
  <2>1. o.arg \in SUBSET Capability
    BY <1>2 DEF Option
  <2> QED
    BY <1>2, <2>1 DEF ApplyOption, Config
<1>3. CASE o.opt = "WithResponses"
  <2>1. o.arg \in Seq(Response) /\ c.resps \in Seq(Response)
    BY <1>3 DEF Option, Config
  <2>2. c.resps \o o.arg \in Seq(Response)
    BY <2>1
  <2> QED
    BY <1>3, <2>2 DEF ApplyOption, Config
<1>4. CASE o.opt = "WithEmbedDimensions"
  <2>1. o.arg \in Nat
    BY <1>4 DEF Option
  <2> QED
    BY <1>4, <2>1 DEF ApplyOption, Config
<1> QED
  BY <1>1, <1>2, <1>3, <1>4 DEF Option

\* Every call that allocates no model answers a Result.
LEMMA AnswerType ==
    ASSUME NEW c \in Call, c.fn \in Method \ Deriving, NEW s \in Snapshot
    PROVE  Answer(c, s) \in Result
<1>1. CASE c.fn \in Consuming
  <2>1. Answer(c, s) = Turn(s)
    BY <1>1 DEF Answer, Consuming
  <2>2. CASE s.cursor < Len(s.conf.resps)
    <3>1. s.conf.resps \in Seq(Response) /\ s.cursor \in Nat
      BY DEF Snapshot, Config
    <3>2. s.conf.resps[s.cursor + 1] \in Response
      BY <2>2, <3>1
    <3> QED
      BY <2>1, <2>2, <3>1, <3>2 DEF Turn, Result
  <2>3. CASE s.cursor >= Len(s.conf.resps)
    BY <2>1, <2>3 DEF Turn, Result
  <2> QED
    BY <2>2, <2>3 DEF Snapshot, Config
<1>2. CASE c.fn = "Info"
  BY <1>2 DEF Answer, Result, Snapshot, Config, Consuming
<1>3. CASE c.fn = "Embed"
  <2>1. c.arg \in Seq(Text)
    BY <1>3 DEF Call, Method, Consuming, Deriving, Reading
  <2>2. Len(c.arg) \in Nat /\ s.conf.embedDim \in Nat
    BY <2>1 DEF Snapshot, Config
  <2>3. \A i \in 1 .. Len(c.arg) : [j \in 1 .. s.conf.embedDim |-> i] \in Seq(Nat)
    <3> TAKE i \in 1 .. Len(c.arg)
    <3> QED
      BY <2>2, IsASeq
  <2>4. Embedding(s, c.arg).vectors \in Seq(Seq(Nat))
    BY <2>2, <2>3, IsASeq DEF Embedding
  <2>5. Answer(c, s) = Embedding(s, c.arg)
    BY <1>3 DEF Answer, Consuming
  <2> QED
    BY <2>2, <2>4, <2>5 DEF Result, Embedding
<1>4. CASE c.fn = "EmbedDimensions"
  BY <1>4 DEF Answer, Result, Snapshot, Config, Consuming
<1> QED
  BY <1>1, <1>2, <1>3, <1>4 DEF Method, Consuming, Deriving, Reading

\* A derived configuration is a configuration.
LEMMA DerivedConfigType ==
    ASSUME NEW c \in Call, c.fn \in Deriving, NEW s \in Snapshot
    PROVE  DerivedConfig(c, s) \in Config
<1>1. s.conf \in Config
  BY DEF Snapshot
<1>2. c.fn = "WithTools" => c.arg \in Tools
  BY DEF Call, Method, Consuming, Deriving, Reading
<1> QED
  BY <1>1, <1>2 DEF DerivedConfig, Config
-----------------------------------------------------------------------------
\* What returning does to the state.
LEMMA ReturnType ==
    ASSUME TypeOK, NEW g \in Goroutine, NEW res \in Result, Return(g, res)
    PROVE  /\ got' \in [Goroutine -> Seq(Receipt)]
           /\ pc' \in [Goroutine -> Location]
           /\ pc' = [pc EXCEPT ![g] = "idle"]
<1>1. got[g] \in Seq(Receipt) /\ got \in [Goroutine -> Seq(Receipt)]
  BY DEF TypeOK
<1>2. [call |-> call[g], at |-> reg[g].cursor, res |-> res] \in Receipt
  BY DEF TypeOK, Receipt, Snapshot
<1>3. Append(got[g], [call |-> call[g], at |-> reg[g].cursor, res |-> res]) \in Seq(Receipt)
  BY <1>1, <1>2
<1>4. got' \in [Goroutine -> Seq(Receipt)]
  BY <1>1, <1>3 DEF Return
<1> QED
  BY <1>4 DEF TypeOK, Return, Goto, Location

\* What allocating a model does to the state.
LEMMA AllocateType ==
    ASSUME TypeOK, NEW n \in Model, NEW f \in Snapshot, Allocate(n, f)
    PROVE  /\ made' \subseteq Model
           /\ conf' \in [Model -> Config]
           /\ cursor' \in [Model -> Nat]
           /\ start' \in [Model -> Nat]
           /\ mu' \in [Model -> Goroutine \union {Nobody}]
  BY DEF TypeOK, Allocate, Snapshot

LEMMA InitInv == Init => IInv
<1> SUFFICES ASSUME Init PROVE IInv
  OBVIOUS
<1>1. DefaultConfig \in Config
  BY DefaultsType
<1>2. NoFields \in Snapshot
  BY DefaultsType
<1>3. NoCall \in Call
  BY DEF NoCall, Call
<1>4. TypeOK
  BY <1>1, <1>2, <1>3 DEF Init, TypeOK, Location
<1>5. MutualExclusion
  BY CallersAssumption DEF Init, MutualExclusion, Critical
<1>6. InCall
  BY DEF Init, InCall
<1> QED
  BY <1>4, <1>5, <1>6 DEF IInv

\* The mutex of an address nothing is allocated at is unlocked.
LEMMA UnmadeUnlocked ==
    ASSUME IInv, NEW n \in Model \ made
    PROVE  mu[n] = Nobody
  BY DEF IInv, TypeOK, MutualExclusion, InCall, Critical

LEMMA InvokeInv ==
    ASSUME IInv, NEW g \in Goroutine, Invoke(g)
    PROVE  IInv'
<1>0. PICK fn \in Methods, m \in made : \E arg \in Offered(fn) :
         call' = [call EXCEPT ![g] = [fn |-> fn, recv |-> m, arg |-> arg]]
  BY DEF Invoke
<1>1. PICK arg \in Offered(fn) :
         call' = [call EXCEPT ![g] = [fn |-> fn, recv |-> m, arg |-> arg]]
  BY <1>0
<1>2. fn \in Method /\ m \in Model
  BY CallersAssumption DEF IInv, TypeOK
<1>3. [fn |-> fn, recv |-> m, arg |-> arg] \in Call
  <2>1. CASE fn = "WithTools"
    BY <1>2, <2>1 DEF Offered, Call
  <2>2. CASE fn = "Embed"
    BY <1>2, <2>2, CallersAssumption DEF Offered, Call
  <2>3. CASE fn \notin {"WithTools", "Embed"}
    BY <1>2, <2>3 DEF Offered, Call
  <2> QED
    BY <2>1, <2>2, <2>3
<1>4. TypeOK'
  BY <1>1, <1>3 DEF Invoke, IInv, TypeOK, Goto, Location
<1>5. MutualExclusion'
  BY <1>1 DEF Invoke, IInv, TypeOK, MutualExclusion, Critical, At, Goto, Recv
<1>6. InCall'
  BY <1>1, <1>2 DEF Invoke, IInv, TypeOK, InCall, At, Goto, Recv, Fn
<1> QED
  BY <1>4, <1>5, <1>6 DEF IInv

LEMMA InvokeNewInv ==
    ASSUME IInv, NEW g \in Goroutine, InvokeNew(g)
    PROVE  IInv'
<1>1. PICK opts \in OptionLists :
         /\ call' = [call EXCEPT ![g] = [fn |-> "New", recv |-> NoModel, arg |-> opts]]
         /\ todo' = [todo EXCEPT ![g] = opts]
  BY DEF InvokeNew
<1>2. opts \in Seq(Option) /\ NoModel \notin Model
  BY CallersAssumption
<1>3. [fn |-> "New", recv |-> NoModel, arg |-> opts] \in Call
  BY <1>2 DEF Call
<1>4. NoFields \in Snapshot /\ NoFields.cursor = 0
  BY DefaultsType DEF NoFields
<1>5. TypeOK'
  BY <1>1, <1>2, <1>3, <1>4 DEF InvokeNew, IInv, TypeOK, Goto, Location
<1>6. MutualExclusion'
  BY <1>1 DEF InvokeNew, IInv, TypeOK, MutualExclusion, Critical, At, Goto, Recv
<1>7. InCall'
  BY <1>1, <1>4 DEF InvokeNew, IInv, TypeOK, InCall, At, Goto, Recv, Fn
<1> QED
  BY <1>5, <1>6, <1>7 DEF IInv

LEMMA NextOptionInv ==
    ASSUME IInv, NEW g \in Goroutine, NextOption(g)
    PROVE  IInv'
<1>1. todo[g] \in Seq(Option) /\ todo[g] # <<>>
  BY DEF NextOption, IInv, TypeOK
<1>2. Head(todo[g]) \in Option /\ Tail(todo[g]) \in Seq(Option)
  BY <1>1
<1>3. reg[g] \in Snapshot
  BY DEF IInv, TypeOK
<1>4. ApplyOption(reg[g].conf, Head(todo[g])) \in Config
  BY <1>2, <1>3, ApplyOptionType DEF Snapshot
<1>5. \A h \in Goroutine : h # g => reg'[h] = reg[h]
  BY DEF NextOption, IInv, TypeOK
<1>10. reg'[g].cursor = reg[g].cursor
  BY <1>3 DEF NextOption, Snapshot, IInv, TypeOK
<1>6. reg' \in [Goroutine -> Snapshot]
  BY <1>3, <1>4 DEF NextOption, Snapshot, IInv, TypeOK
<1>7. TypeOK'
  BY <1>2, <1>6 DEF NextOption, IInv, TypeOK
<1>8. MutualExclusion'
  BY DEF NextOption, IInv, MutualExclusion, Critical, Recv
<1>9. InCall'
  BY <1>5, <1>10 DEF NextOption, IInv, TypeOK, InCall, At, Recv, Fn
<1> QED
  BY <1>7, <1>8, <1>9 DEF IInv

LEMMA NewScriptedLLMInv ==
    ASSUME IInv, NEW g \in Goroutine, NewScriptedLLM(g)
    PROVE  IInv'
<1>1. PICK n \in Model : Allocate(n, reg[g]) /\ Return(g, n)
  BY DEF NewScriptedLLM
<1>2. TypeOK /\ reg[g] \in Snapshot /\ n \in Result
  BY DEF IInv, TypeOK, Result
<1>3. TypeOK'
  BY <1>1, <1>2, AllocateType, ReturnType DEF NewScriptedLLM, TypeOK
<1>4. pc' = [pc EXCEPT ![g] = "idle"]
  BY <1>1, <1>2, ReturnType
<1>5. n \notin made /\ mu[n] = Nobody
  BY <1>1, UnmadeUnlocked DEF Allocate
<1>6. MutualExclusion'
  BY <1>1, <1>4, <1>5, CallersAssumption
     DEF NewScriptedLLM, Allocate, IInv, TypeOK, MutualExclusion, Critical, At, Recv
<1>7. InCall'
  BY <1>1, <1>4, <1>5 DEF NewScriptedLLM, Allocate, IInv, TypeOK, InCall, At, Recv, Fn
<1> QED
  BY <1>3, <1>6, <1>7 DEF IInv

LEMMA LockInv ==
    ASSUME IInv, NEW g \in Goroutine, Lock(g)
    PROVE  IInv'
<1>1. Recv(g) \in Model /\ Recv(g) \in made
  BY DEF Lock, At, IInv, TypeOK, InCall
<1>2. TypeOK'
  BY <1>1 DEF Lock, IInv, TypeOK, Goto, Location, Recv
<1>3. MutualExclusion'
  BY <1>1, CallersAssumption
     DEF Lock, IInv, TypeOK, MutualExclusion, Critical, At, Goto, Recv
<1>4. InCall'
  BY <1>1 DEF Lock, IInv, TypeOK, InCall, At, Goto, Recv, Fn
<1> QED
  BY <1>2, <1>3, <1>4 DEF IInv

LEMMA LoadInv ==
    ASSUME IInv, NEW g \in Goroutine, Load(g)
    PROVE  IInv'
<1>1. Recv(g) \in Model /\ Recv(g) \in made
  BY DEF Load, At, IInv, TypeOK, InCall
<1>2. [conf |-> conf[Recv(g)], cursor |-> cursor[Recv(g)]] \in Snapshot
  BY <1>1 DEF IInv, TypeOK, Snapshot
<1>3. TypeOK'
  BY <1>2 DEF Load, IInv, TypeOK, Goto, Location
<1>4. MutualExclusion'
  BY DEF Load, IInv, TypeOK, MutualExclusion, Critical, At, Goto, Recv
<1>5. InCall'
  BY DEF Load, IInv, TypeOK, InCall, At, Goto, Recv, Fn
<1> QED
  BY <1>3, <1>4, <1>5 DEF IInv

\* Two goroutines between Load and Unlock have different receivers, so moving
\* one cursor leaves the other's copy exact.
LEMMA AdvanceInv ==
    ASSUME IInv, NEW g \in Goroutine, Advance(g)
    PROVE  IInv'
<1>1. Recv(g) \in Model /\ cursor[Recv(g)] \in Nat /\ mu[Recv(g)] = g
  BY DEF Advance, At, IInv, TypeOK, InCall, MutualExclusion, Critical
<1>2. TypeOK'
  BY <1>1 DEF Advance, IInv, TypeOK, Goto, Location
<1>3. MutualExclusion'
  BY DEF Advance, IInv, TypeOK, MutualExclusion, Critical, At, Goto, Recv
<1>4. \A h \in Goroutine \ {g} : pc[h] = "advance" => Recv(h) # Recv(g)
  BY <1>1 DEF IInv, TypeOK, InCall, MutualExclusion, Critical
<1>5. InCall'
  BY <1>1, <1>4 DEF Advance, IInv, TypeOK, InCall, At, Goto, Recv, Fn
<1> QED
  BY <1>2, <1>3, <1>5 DEF IInv

LEMMA UnlockAndReturnInv ==
    ASSUME IInv, NEW g \in Goroutine, UnlockAndReturn(g)
    PROVE  IInv'
<1>1. TypeOK /\ call[g] \in Call /\ reg[g] \in Snapshot
  BY DEF IInv, TypeOK
<1>2. Fn(g) \in Method \ Deriving /\ Recv(g) \in Model /\ mu[Recv(g)] = g
  BY DEF UnlockAndReturn, At, IInv, TypeOK, InCall, MutualExclusion, Critical
<1>3. Answer(call[g], reg[g]) \in Result
  BY <1>1, <1>2, AnswerType DEF Fn
<1>4. Return(g, Answer(call[g], reg[g]))
  BY DEF UnlockAndReturn
<1>5. TypeOK'
  BY <1>1, <1>2, <1>3, <1>4, ReturnType DEF UnlockAndReturn, TypeOK
<1>6. pc' = [pc EXCEPT ![g] = "idle"]
  BY <1>1, <1>3, <1>4, ReturnType
<1>7. MutualExclusion'
  BY <1>1, <1>2, <1>6, CallersAssumption
     DEF UnlockAndReturn, IInv, TypeOK, MutualExclusion, Critical, At, Recv
<1>8. InCall'
  BY <1>1, <1>6 DEF UnlockAndReturn, IInv, TypeOK, InCall, At, Recv, Fn
<1> QED
  BY <1>5, <1>7, <1>8 DEF IInv

LEMMA UnlockToBuildInv ==
    ASSUME IInv, NEW g \in Goroutine, UnlockToBuild(g)
    PROVE  IInv'
<1>1. Recv(g) \in Model /\ mu[Recv(g)] = g
  BY DEF UnlockToBuild, At, IInv, TypeOK, InCall, MutualExclusion, Critical
<1>2. TypeOK'
  BY <1>1 DEF UnlockToBuild, IInv, TypeOK, Goto, Location
<1>3. MutualExclusion'
  BY <1>1, CallersAssumption
     DEF UnlockToBuild, IInv, TypeOK, MutualExclusion, Critical, At, Goto, Recv
<1>4. InCall'
  BY DEF UnlockToBuild, IInv, TypeOK, InCall, At, Goto, Recv, Fn
<1> QED
  BY <1>2, <1>3, <1>4 DEF IInv

LEMMA BuildInv ==
    ASSUME IInv, NEW g \in Goroutine, Build(g)
    PROVE  IInv'
<1> DEFINE f == [reg[g] EXCEPT !.conf = DerivedConfig(call[g], reg[g])]
<1>1. PICK n \in Model : Allocate(n, f) /\ Return(g, n)
  BY DEF Build
<1>2. TypeOK /\ call[g] \in Call /\ reg[g] \in Snapshot /\ Fn(g) \in Deriving
  BY DEF IInv, TypeOK, InCall, Build, At
<1>3. f \in Snapshot /\ n \in Result
  BY <1>2, DerivedConfigType DEF Snapshot, Result, Fn
<1> HIDE DEF f
<1>4. TypeOK'
  BY <1>1, <1>2, <1>3, AllocateType, ReturnType DEF Build, TypeOK
<1>5. pc' = [pc EXCEPT ![g] = "idle"]
  BY <1>1, <1>2, <1>3, ReturnType
<1>6. n \notin made /\ mu[n] = Nobody
  BY <1>1, UnmadeUnlocked DEF Allocate
<1>7. MutualExclusion'
  BY <1>1, <1>5, <1>6, CallersAssumption
     DEF Build, Allocate, IInv, TypeOK, MutualExclusion, Critical, At, Recv
<1>8. InCall'
  BY <1>1, <1>5, <1>6 DEF Build, Allocate, IInv, TypeOK, InCall, At, Recv, Fn
<1> QED
  BY <1>4, <1>7, <1>8 DEF IInv

LEMMA StepInv == IInv /\ [Next]_vars => IInv'
<1> SUFFICES ASSUME IInv, [Next]_vars PROVE IInv'
  OBVIOUS
<1>1. CASE Next
  <2>1. CASE Finished
    BY <2>1 DEF Finished, vars, IInv, TypeOK, MutualExclusion, InCall, Critical, Recv, Fn
  <2>2. CASE \E g \in Goroutine : InvokeNew(g) \/ Invoke(g) \/ Step(g)
    BY <2>2, InvokeNewInv, InvokeInv, NextOptionInv, NewScriptedLLMInv, LockInv, LoadInv,
       AdvanceInv, UnlockAndReturnInv, UnlockToBuildInv, BuildInv DEF Step
  <2> QED
    BY <1>1, <2>1, <2>2 DEF Next
<1>2. CASE UNCHANGED vars
  BY <1>2 DEF vars, IInv, TypeOK, MutualExclusion, InCall, Critical, Recv, Fn
<1> QED
  BY <1>1, <1>2

THEOREM Invariance == Spec => []IInv
  BY InitInv, StepInv, PTL DEF Spec

\* Every variable of ScriptedLLM keeps its type: in particular a call that
\* finds the script exhausted, and one whose receiver was derived from a
\* derived model, answer what their signature says (scripted.go:66-174).
THEOREM TypeCorrectness == Spec => []TypeOK
<1>1. IInv => TypeOK
  BY DEF IInv
<1> QED
  BY <1>1, Invariance, PTL

\* However many goroutines share a model, its mutex is held by exactly the one
\* that is between its Lock and its Unlock.
THEOREM Exclusion == Spec => []MutualExclusion
<1>1. IInv => MutualExclusion
  BY DEF IInv
<1> QED
  BY <1>1, Invariance, PTL

-----------------------------------------------------------------------------
(***************************************************************************)
(* What the steps of one call leave alone.                                 *)
(***************************************************************************)
\* Models only come into being; their fields stay, their cursors only grow.
Grows ==
    /\ made \subseteq made'
    /\ \A m \in made : conf'[m] = conf[m] /\ start'[m] = start[m] /\ cursor[m] <= cursor'[m]
LEMMA StepGrows ==
    ASSUME IInv, NEW g \in Goroutine, InvokeNew(g) \/ Invoke(g) \/ Step(g)
    PROVE  Grows
<1>0. TypeOK
  BY DEF IInv
<1>1. CASE Advance(g)
  <2>1. Recv(g) \in Model
    BY <1>1 DEF Advance, At, IInv, TypeOK, InCall
  <2> QED
    BY <1>0, <1>1, <2>1 DEF Advance, TypeOK, Grows
<1>2. CASE NewScriptedLLM(g) \/ Build(g)
  <2>1. PICK n \in Model : \E f : Allocate(n, f)
    BY <1>2 DEF NewScriptedLLM, Build
  <2> QED
    BY <1>0, <2>1 DEF Allocate, TypeOK, Grows
<1>3. CASE ~(Advance(g) \/ NewScriptedLLM(g) \/ Build(g))
  BY <1>0, <1>3 DEF Step, Invoke, InvokeNew, NextOption, Lock, Load, UnlockAndReturn,
     UnlockToBuild, Grows, TypeOK
<1> QED
  BY <1>1, <1>2, <1>3

\* No step of g touches another goroutine's call.
LEMMA StepIsLocal ==
    ASSUME TypeOK, NEW g \in Goroutine, InvokeNew(g) \/ Invoke(g) \/ Step(g),
           NEW h \in Goroutine, h # g
    PROVE  /\ pc'[h] = pc[h] /\ call'[h] = call[h] /\ reg'[h] = reg[h] /\ got'[h] = got[h]
           /\ todo'[h] = todo[h]
  BY DEF TypeOK, Step, InvokeNew, Invoke, NextOption, NewScriptedLLM, Lock, Load, Advance,
     UnlockAndReturn, UnlockToBuild, Build, Return, Goto

-----------------------------------------------------------------------------
(***************************************************************************)
(* Applying options one after the other gives what they amount to.         *)
(***************************************************************************)
\* The last option of a kind is the new one if it is of that kind.
LEMMA LastArgAppend ==
    ASSUME NEW s \in Seq(Option), NEW o \in Option, NEW kind, NEW default
    PROVE  LastArg(Append(s, o), kind, default)
             = IF o.opt = kind THEN o.arg ELSE LastArg(s, kind, default)
<1> DEFINE t == Append(s, o)
           n == Len(s) + 1
<1>1. Len(s) \in Nat /\ Len(t) = n /\ t[n] = o /\ \A k \in 1 .. Len(s) : t[k] = s[k]
  OBVIOUS
<1> HIDE DEF t
<1>2. CASE o.opt = kind
  <2> DEFINE last == CHOOSE k \in Positions(t, kind) : \A j \in Positions(t, kind) : j <= k
  <2>1. n \in Positions(t, kind) /\ \A j \in Positions(t, kind) : j <= n /\ j \in Int
    BY <1>1, <1>2 DEF Positions
  <2>2. last \in Positions(t, kind) /\ \A j \in Positions(t, kind) : j <= last
    BY <2>1
  <2> HIDE DEF last
  <2>3. last = n
    BY <1>1, <2>1, <2>2
  <2>4. LastArg(t, kind, default) = t[last].arg
    BY <2>1 DEF LastArg, last
  <2> QED
    BY <1>1, <1>2, <2>3, <2>4 DEF t
<1>3. CASE o.opt # kind
  <2>1. Positions(t, kind) = Positions(s, kind)
    BY <1>1, <1>3 DEF Positions
  <2> DEFINE last == CHOOSE k \in Positions(s, kind) : \A j \in Positions(s, kind) : j <= k
  <2>2. LastArg(t, kind, default) = IF Positions(s, kind) = {} THEN default ELSE t[last].arg
    BY <2>1 DEF LastArg
  <2>3. LastArg(s, kind, default) = IF Positions(s, kind) = {} THEN default ELSE s[last].arg
    BY DEF LastArg
  <2>4. Positions(s, kind) # {} => last \in 1 .. Len(s)
    <3>1. ASSUME Positions(s, kind) # {}
          PROVE  \E k \in Positions(s, kind) : \A j \in Positions(s, kind) : j <= k
      <4>1. Positions(s, kind) \subseteq 1 .. Len(s)
        BY DEF Positions
      <4> QED
        BY <1>1, <3>1, <4>1, GreatestElement
    <3> QED
      BY <3>1 DEF Positions
  <2> QED
    BY <1>1, <1>3, <2>2, <2>3, <2>4 DEF t
<1> QED
  BY <1>2, <1>3

LEMMA ScriptsAppend ==
    ASSUME NEW s \in Seq(Option), NEW o \in Option
    PROVE  FlattenSeq(Scripts(Append(s, o)))
             = FlattenSeq(Scripts(s)) \o (IF o.opt = "WithResponses" THEN o.arg ELSE <<>>)
           /\ FlattenSeq(Scripts(s)) \in Seq(Response)
<1> DEFINE t == Append(s, o)
           d == Scripts(s)
           e == IF o.opt = "WithResponses" THEN o.arg ELSE <<>>
<1>1. \A p \in Option : (IF p.opt = "WithResponses" THEN p.arg ELSE <<>>) \in Seq(Response)
  BY DEF Option
<1>2. d \in Seq(Seq(Response)) /\ Len(d) = Len(s) /\ e \in Seq(Response)
  BY <1>1 DEF Scripts
<1>3. Len(s) \in Nat /\ Len(t) = Len(s) + 1 /\ t[Len(s) + 1] = o /\ \A k \in 1 .. Len(s) : t[k] = s[k]
  OBVIOUS
<1> HIDE DEF t, e
<1>4. Scripts(t) = Append(d, e)
  <2> DEFINE u == Scripts(t)
             v == Append(d, e)
  <2>1. u \in Seq(Seq(Response)) /\ Len(u) = Len(s) + 1
    <3>1. t \in Seq(Option)
      BY DEF t
    <3> QED
      BY <1>1, <1>3, <3>1 DEF Scripts
  <2>2. v \in Seq(Seq(Response)) /\ Len(v) = Len(s) + 1
    BY <1>2, <1>3
  <2>3. ASSUME NEW k \in 1 .. Len(s) + 1 PROVE u[k] = v[k]
    <3>1. CASE k = Len(s) + 1
      <4>1. u[k] = e
        BY <1>3, <3>1 DEF Scripts, e
      <4>2. v[k] = e
        BY <1>2, <1>3, <3>1
      <4> QED
        BY <4>1, <4>2
    <3>2. CASE k # Len(s) + 1
      <4>1. k \in 1 .. Len(s)
        BY <1>3, <3>2
      <4>2. u[k] = d[k]
        BY <1>3, <4>1 DEF Scripts
      <4>3. v[k] = d[k]
        BY <1>2, <1>3, <4>1
      <4> QED
        BY <4>2, <4>3
    <3> QED
      BY <3>1, <3>2
  <2> HIDE DEF u, v
  <2>4. u = v
    BY <2>1, <2>2, <2>3, SeqEqual
  <2> QED
    BY <2>4 DEF u, v
<1> HIDE DEF d
<1>5. FlattenSeq(Scripts(t)) = FlattenSeq(d) \o e /\ FlattenSeq(d) \in Seq(Response)
  BY <1>2, <1>4, FlattenAppend, FlattenType
<1> QED
  BY <1>5 DEF t, d, e

\* One option more.
LEMMA ComposedAppend ==
    ASSUME NEW s \in Seq(Option), NEW o \in Option
    PROVE  Composed(Append(s, o)) = ApplyOption(Composed(s), o)
<1> DEFINE t == Append(s, o)
           L(opts, kind, default) == LastArg(opts, kind, default)
           F(opts) == FlattenSeq(Scripts(opts))
<1>1. \A kind, default : L(t, kind, default) = IF o.opt = kind THEN o.arg ELSE L(s, kind, default)
  BY LastArgAppend
<1>2. F(t) = F(s) \o (IF o.opt = "WithResponses" THEN o.arg ELSE <<>>) /\ F(s) \in Seq(Response)
  BY ScriptsAppend
<1>3. o.opt # "WithResponses" => F(t) = F(s)
  BY <1>2
<1> HIDE DEF t, L, F
<1>4. \A u : Composed(u) =
         [provider |-> L(u, "WithProvider", "scripted"), model |-> L(u, "WithModel", "test"),
          caps |-> L(u, "WithCapabilities", {"Tools", "Embeddings", "StructuredOutputs"}),
          resps |-> F(u), embedDim |-> L(u, "WithEmbedDimensions", 4), tools |-> NoTools]
  BY DEF Composed, DefaultConfig, L, F
<1>5. Composed(t) = ApplyOption(Composed(s), o)
  <2>1. CASE o.opt = "WithProvider"
    BY <1>1, <1>3, <1>4, <2>1 DEF ApplyOption
  <2>2. CASE o.opt = "WithModel"
    BY <1>1, <1>3, <1>4, <2>2 DEF ApplyOption
  <2>3. CASE o.opt = "WithCapabilities"
    BY <1>1, <1>3, <1>4, <2>3 DEF ApplyOption
  <2>4. CASE o.opt = "WithResponses"
    BY <1>1, <1>2, <1>4, <2>4 DEF ApplyOption
  <2>5. CASE o.opt = "WithEmbedDimensions"
    BY <1>1, <1>3, <1>4, <2>5 DEF ApplyOption
  <2> QED
    BY <2>1, <2>2, <2>3, <2>4, <2>5 DEF Option
<1> QED
  BY <1>5 DEF t

LEMMA ComposedEmpty == Composed(<<>>) = DefaultConfig
<1>1. \A kind : Positions(<<>>, kind) = {}
  BY DEF Positions
<1>2. Scripts(<<>>) = <<>>
  BY DEF Scripts
<1> QED
  BY <1>1, <1>2, FlattenEmpty DEF Composed, LastArg, DefaultConfig

-----------------------------------------------------------------------------
\* A constructor call in progress has applied the options before those it still
\* has to apply.
Composing(g) ==
    pc[g] = "options" =>
      \E p \in Seq(Option) : call[g].arg = p \o todo[g] /\ reg[g].conf = Composed(p)

\* A constructed model has what its options amount to, for good.
Constructed(g) ==
    \A i \in 1 .. Len(got[g]) :
      LET r == got[g][i] IN
        r.call.fn = "New" => r.res \in made /\ conf[r.res] = Composed(r.call.arg)

OptionInv == \A g \in Goroutine : Composing(g) /\ Constructed(g)

\* A goroutine that returns nothing new keeps what it constructed.
LEMMA KeepsConstructed ==
    ASSUME Grows, NEW g \in Goroutine, Constructed(g), got'[g] = got[g]
    PROVE  Constructed(g)'
  BY DEF Grows, Constructed

LEMMA InvokeNewComposes ==
    ASSUME IInv, NEW g \in Goroutine, InvokeNew(g)
    PROVE  Composing(g)'
<1>1. PICK opts \in OptionLists :
         /\ call' = [call EXCEPT ![g] = [fn |-> "New", recv |-> NoModel, arg |-> opts]]
         /\ todo' = [todo EXCEPT ![g] = opts]
  BY DEF InvokeNew
<1>2. opts \in Seq(Option) /\ <<>> \in Seq(Option) /\ <<>> \o opts = opts
  BY CallersAssumption
<1>3. call'[g].arg = opts /\ todo'[g] = opts /\ reg'[g].conf = Composed(<<>>)
  BY <1>1, ComposedEmpty DEF InvokeNew, IInv, TypeOK, NoFields
<1>4. \E p \in Seq(Option) : call'[g].arg = p \o todo'[g] /\ reg'[g].conf = Composed(p)
  BY <1>2, <1>3
<1> QED
  BY <1>4 DEF Composing

\* Taking the head of one sequence to the end of another.
LEMMA HeadMoves ==
    ASSUME NEW S, NEW p \in Seq(S), NEW t \in Seq(S), t # <<>>
    PROVE  Append(p, Head(t)) \o Tail(t) = p \o t
<1> DEFINE u == Append(p, Head(t)) \o Tail(t)
           v == p \o t
           q == Append(p, Head(t))
<1>1. /\ Head(t) \in S /\ Head(t) = t[1] /\ Tail(t) \in Seq(S) /\ Len(Tail(t)) = Len(t) - 1
      /\ \A k \in 1 .. Len(t) - 1 : Tail(t)[k] = t[k + 1]
      /\ Len(t) \in Nat \ {0} /\ Len(p) \in Nat
  BY HeadTailProperties, EmptySeq
<1>2. /\ q \in Seq(S) /\ Len(q) = Len(p) + 1 /\ q[Len(p) + 1] = t[1]
      /\ \A k \in 1 .. Len(p) : q[k] = p[k]
  BY <1>1
<1> HIDE DEF q
<1>3. /\ u \in Seq(S) /\ Len(u) = Len(p) + Len(t)
      /\ \A k \in 1 .. Len(p) + Len(t) :
           u[k] = IF k <= Len(p) + 1 THEN q[k] ELSE Tail(t)[k - (Len(p) + 1)]
  BY <1>1, <1>2, ConcatProperties DEF q
<1>4. /\ v \in Seq(S) /\ Len(v) = Len(p) + Len(t)
      /\ \A k \in 1 .. Len(p) + Len(t) : v[k] = IF k <= Len(p) THEN p[k] ELSE t[k - Len(p)]
  BY ConcatProperties
<1> HIDE DEF u, v
<1>5. ASSUME NEW k \in 1 .. Len(p) + Len(t) PROVE u[k] = v[k]
  <2>1. CASE k <= Len(p)
    <3>1. k \in 1 .. Len(p) /\ k <= Len(p) + 1
      BY <1>1, <2>1
    <3>2. u[k] = q[k] /\ q[k] = p[k]
      BY <1>2, <1>3, <3>1
    <3> QED
      BY <1>4, <2>1, <3>2
  <2>2. CASE k = Len(p) + 1
    BY <1>1, <1>2, <1>3, <1>4, <2>2
  <2>3. CASE k > Len(p) + 1
    <3>1. /\ k - (Len(p) + 1) \in 1 .. Len(t) - 1
          /\ (k - (Len(p) + 1)) + 1 = k - Len(p)
      BY <1>1, <2>3
    <3>2. Tail(t)[k - (Len(p) + 1)] = t[k - Len(p)]
      BY <1>1, <3>1
    <3> QED
      BY <1>1, <1>3, <1>4, <2>3, <3>2
  <2> QED
    BY <1>1, <2>1, <2>2, <2>3
<1>6. u = v
  BY <1>3, <1>4, <1>5, SeqEqual
<1> QED
  BY <1>6 DEF u, v, q

LEMMA NextOptionComposes ==
    ASSUME IInv, NEW g \in Goroutine, NextOption(g), Composing(g)
    PROVE  Composing(g)'
<1>1. PICK p \in Seq(Option) : call[g].arg = p \o todo[g] /\ reg[g].conf = Composed(p)
  BY DEF NextOption, At, Composing
<1>2. todo[g] \in Seq(Option) /\ todo[g] # <<>> /\ reg[g] \in Snapshot
  BY DEF NextOption, IInv, TypeOK
<1> DEFINE o == Head(todo[g])
           q == Append(p, o)
<1>3. o \in Option /\ q \in Seq(Option) /\ q \o Tail(todo[g]) = p \o todo[g]
  <2>1. o \in Option
    BY <1>2, HeadTailProperties
  <2>2. q \in Seq(Option)
    BY <2>1
  <2>3. q \o Tail(todo[g]) = p \o todo[g]
    BY <1>2, HeadMoves, Zenon
  <2> QED
    BY <2>1, <2>2, <2>3
<1>4. /\ reg'[g].conf = ApplyOption(reg[g].conf, o)
      /\ todo'[g] = Tail(todo[g]) /\ call'[g] = call[g]
  BY <1>2 DEF NextOption, IInv, TypeOK, Snapshot
<1>5. Composed(q) = ApplyOption(Composed(p), o)
  BY <1>3, ComposedAppend
<1> HIDE DEF o, q
<1>6. call'[g].arg = q \o todo'[g] /\ reg'[g].conf = Composed(q)
  BY <1>1, <1>3, <1>4, <1>5
<1> QED
  BY <1>3, <1>6 DEF Composing

\* Once no option is left, all have been applied.
LEMMA AllComposed ==
    ASSUME IInv, NEW g \in Goroutine, NewScriptedLLM(g), Composing(g)
    PROVE  reg[g].conf = Composed(call[g].arg) /\ Fn(g) = "New"
<1>1. PICK p \in Seq(Option) : call[g].arg = p \o todo[g] /\ reg[g].conf = Composed(p)
  BY DEF NewScriptedLLM, At, Composing
<1>2. todo[g] = <<>> /\ p \o <<>> = p /\ Fn(g) = "New"
  BY DEF NewScriptedLLM, At, IInv, InCall
<1> QED
  BY <1>1, <1>2

\* A call that returns adds one receipt.
LEMMA ReturnConstructs ==
    ASSUME IInv, IInv', Grows, NEW g \in Goroutine, Constructed(g), NEW res, Return(g, res),
           Fn(g) = "New" => res \in made' /\ conf'[res] = Composed(call[g].arg)
    PROVE  Constructed(g)'
<1>1. got[g] \in Seq(Receipt) /\ Len(got[g]) \in Nat
  BY DEF IInv, TypeOK
<1> DEFINE r == [call |-> call[g], at |-> reg[g].cursor, res |-> res]
<1>2. got'[g] = Append(got[g], r)
  BY DEF Return, IInv, TypeOK
<1>3. /\ Len(got'[g]) = Len(got[g]) + 1 /\ got'[g][Len(got[g]) + 1] = r
      /\ \A i \in 1 .. Len(got[g]) : got'[g][i] = got[g][i]
  BY <1>1, <1>2
<1>4. r.call.fn = "New" => r.res \in made' /\ conf'[r.res] = Composed(r.call.arg)
  BY DEF Fn
<1> HIDE DEF r
<1>5. ASSUME NEW i \in 1 .. Len(got'[g]), got'[g][i].call.fn = "New"
      PROVE  got'[g][i].res \in made' /\ conf'[got'[g][i].res] = Composed(got'[g][i].call.arg)
  <2>1. CASE i = Len(got[g]) + 1
    BY <1>3, <1>4, <1>5, <2>1
  <2>2. CASE i # Len(got[g]) + 1
    <3>1. i \in 1 .. Len(got[g]) /\ got'[g][i] = got[g][i]
      BY <1>1, <1>3, <2>2
    <3> QED
      BY <1>5, <3>1 DEF Constructed, Grows
  <2> QED
    BY <2>1, <2>2
<1> QED
  BY <1>5 DEF Constructed

LEMMA OptionStep == IInv /\ IInv' /\ OptionInv /\ [Next]_vars => OptionInv'
<1> SUFFICES ASSUME IInv, IInv', OptionInv, [Next]_vars PROVE OptionInv'
  OBVIOUS
<1>1. CASE UNCHANGED vars \/ Finished
  BY <1>1 DEF Finished, vars, OptionInv, Composing, Constructed
<1>2. CASE \E g \in Goroutine : InvokeNew(g) \/ Invoke(g) \/ Step(g)
  <2>1. PICK g \in Goroutine : InvokeNew(g) \/ Invoke(g) \/ Step(g)
    BY <1>2
  <2>2. Grows /\ TypeOK
    BY <2>1, StepGrows DEF IInv
  <2>3. ASSUME NEW h \in Goroutine, h # g PROVE Composing(h)' /\ Constructed(h)'
    <3>1. pc'[h] = pc[h] /\ call'[h] = call[h] /\ reg'[h] = reg[h] /\ got'[h] = got[h]
          /\ todo'[h] = todo[h]
      BY <2>1, <2>2, <2>3, StepIsLocal
    <3> QED
      BY <2>2, <3>1, KeepsConstructed DEF OptionInv, Composing
  <2>4. Composing(g) /\ Constructed(g)
    BY DEF OptionInv
  <2>5. ASSUME InvokeNew(g) \/ NextOption(g) PROVE Composing(g)' /\ Constructed(g)'
    <3>1. got'[g] = got[g]
      BY <2>5 DEF InvokeNew, NextOption
    <3> QED
      BY <2>2, <2>4, <2>5, <3>1, KeepsConstructed, InvokeNewComposes, NextOptionComposes
  <2>6. ASSUME Invoke(g) \/ Lock(g) \/ Load(g) \/ Advance(g) \/ UnlockToBuild(g)
        PROVE  Composing(g)' /\ Constructed(g)'
    <3>1. got'[g] = got[g] /\ pc'[g] # "options"
      BY <2>2, <2>6 DEF Invoke, Lock, Load, Advance, UnlockToBuild, Goto, TypeOK
    <3> QED
      BY <2>2, <2>4, <3>1, KeepsConstructed DEF Composing
  <2>7. ASSUME UnlockAndReturn(g) \/ Build(g) PROVE Composing(g)' /\ Constructed(g)'
    <3>1. Fn(g) # "New" /\ pc'[g] = "idle"
      BY <2>2, <2>7 DEF UnlockAndReturn, Build, At, Return, Goto, IInv, TypeOK, InCall,
         Method, Consuming, Deriving, Reading
    <3>2. PICK res : Return(g, res)
      BY <2>7 DEF UnlockAndReturn, Build
    <3> QED
      BY <2>2, <2>4, <3>1, <3>2, ReturnConstructs DEF Composing
  <2>8. ASSUME NewScriptedLLM(g) PROVE Composing(g)' /\ Constructed(g)'
    <3>1. PICK n \in Model : Allocate(n, reg[g]) /\ Return(g, n)
      BY <2>8 DEF NewScriptedLLM
    <3>2. pc'[g] = "idle" /\ n \in made' /\ conf'[n] = reg[g].conf
      BY <2>2, <3>1 DEF Allocate, Return, Goto, TypeOK
    <3>3. reg[g].conf = Composed(call[g].arg)
      BY <2>4, <2>8, AllComposed
    <3> QED
      BY <2>2, <2>4, <3>1, <3>2, <3>3, ReturnConstructs DEF Composing
  <2> QED
    BY <2>1, <2>3, <2>5, <2>6, <2>7, <2>8 DEF Step, OptionInv
<1> QED
  BY <1>1, <1>2 DEF Next

LEMMA OptionInit == Init => OptionInv
  BY DEF Init, OptionInv, Composing, Constructed

THEOREM OptionInvariance == Spec => [](IInv /\ OptionInv)
  BY OptionInit, OptionStep, Invariance, PTL DEF Spec

\* Whatever options a caller gives, in whatever order and however often, the
\* constructed model has in each field the last value given and as its script
\* all the responses, and keeps them however it is shared afterwards
\* (scripted.go:53-64, 179-196).
THEOREM Options == Spec => []OptionsCompose
<1>1. OptionInv => OptionsCompose
  BY DEF OptionInv, Constructed, OptionsCompose
<1> QED
  BY <1>1, OptionInvariance, PTL

-----------------------------------------------------------------------------
(***************************************************************************)
(* ScriptedLLM implements ScriptFeed.                                      *)
(***************************************************************************)
\* The abstract module works with the same data.
LEMMA SameData ==
    /\ Feed!Consuming = Consuming
    /\ Feed!Deriving = Deriving
    /\ Feed!Config = Config
    /\ Feed!Call = Call
    /\ Feed!NoCall = NoCall
    /\ Feed!NoFields = NoFields
    /\ Feed!DefaultConfig = DefaultConfig
    /\ \A opts : Feed!Composed(opts) = Composed(opts)
<1>1. Feed!Consuming = Consuming /\ Feed!Deriving = Deriving
  BY DEF Feed!Consuming, Consuming, Feed!Deriving, Deriving
<1>2. Feed!Config = Config /\ Feed!DefaultConfig = DefaultConfig
  BY DEF Feed!Config, Config, Feed!Capability, Capability, Feed!DefaultConfig, DefaultConfig
<1>3. Feed!Method = Method
  BY <1>1 DEF Feed!Method, Method, Feed!Reading, Reading
<1>4. Feed!Option = Option
  BY DEF Feed!Option, Option, Feed!Capability, Capability
<1>5. Feed!Call = Call
  BY <1>3, <1>4, Zenon DEF Feed!Call, Call
<1>6. Feed!NoCall = NoCall /\ Feed!NoFields = NoFields
  BY <1>2 DEF Feed!NoCall, NoCall, Feed!NoFields, NoFields
<1>7. ASSUME NEW opts PROVE Feed!Composed(opts) = Composed(opts)
  <2>1. Feed!FlattenSeq(Feed!Scripts(opts)) = FlattenSeq(Scripts(opts))
    BY DEF Feed!FlattenSeq, FlattenSeq, Feed!Scripts, Scripts
  <2>2. \A kind, default : Feed!LastArg(opts, kind, default) = LastArg(opts, kind, default)
    BY DEF Feed!LastArg, LastArg, Feed!Positions, Positions
  <2> QED
    BY <1>2, <2>1, <2>2 DEF Feed!Composed, Composed
<1> QED
  BY <1>1, <1>2, <1>5, <1>6, <1>7

LEMMA SameAnswers ==
    ASSUME NEW c \in Call, NEW s \in Snapshot
    PROVE  Feed!Answer(c, s) = Answer(c, s) /\ Feed!DerivedConfig(c, s) = DerivedConfig(c, s)
  BY SameData DEF Feed!Answer, Answer, Feed!Turn, Turn, Feed!Embedding, Embedding,
     Feed!DerivedConfig, DerivedConfig

LEMMA FeedInit == Init => Feed!Init
  BY SameData DEF Init, Feed!Init, FeedPhase, FeedSeen, Served

\* Moving the program counter of one goroutine moves its phase only.
LEMMA PhaseMoves ==
    ASSUME TypeOK, NEW g \in Goroutine, NEW there \in Location,
           pc' = [pc EXCEPT ![g] = there]
    PROVE  FeedPhase' = [FeedPhase EXCEPT ![g] =
                           IF there = "idle" THEN "idle"
                           ELSE IF there \in Served THEN "served" ELSE "asked"]
  BY DEF TypeOK, FeedPhase

LEMMA InvokeAsks ==
    ASSUME IInv, NEW g \in Goroutine, Invoke(g)
    PROVE  Feed!Ask(g)
<1>1. IInv' /\ TypeOK
  BY InvokeInv DEF IInv
<1>2. pc[g] = "idle" /\ pc' = [pc EXCEPT ![g] = "lock"]
  BY DEF Invoke, At, Goto
<1>3. FeedPhase' = [FeedPhase EXCEPT ![g] = "asked"]
  BY <1>1, <1>2, PhaseMoves DEF Location, Served
<1>4. FeedSeen' = FeedSeen
  BY <1>1, <1>2 DEF Invoke, FeedSeen, Served, TypeOK
<1>5. call'[g] \in Call /\ call'[g].recv \in made /\ call' = [call EXCEPT ![g] = call'[g]]
  BY <1>1, <1>2 DEF Invoke, IInv, TypeOK
<1> QED
  BY SameData, <1>1, <1>2, <1>3, <1>4, <1>5 DEF Feed!Ask, Invoke, FeedPhase

LEMMA InvokeNewAsks ==
    ASSUME IInv, NEW g \in Goroutine, InvokeNew(g)
    PROVE  Feed!Ask(g)
<1>1. IInv' /\ TypeOK
  BY InvokeNewInv DEF IInv
<1>2. pc[g] = "idle" /\ pc' = [pc EXCEPT ![g] = "options"]
  BY DEF InvokeNew, At, Goto
<1>3. FeedPhase' = [FeedPhase EXCEPT ![g] = "asked"]
  BY <1>1, <1>2, PhaseMoves DEF Location, Served
<1>4. FeedSeen' = FeedSeen
  BY <1>1, <1>2 DEF InvokeNew, FeedSeen, Served, TypeOK
<1>5. call'[g] \in Call /\ call'[g].recv = NoModel /\ call' = [call EXCEPT ![g] = call'[g]]
  BY <1>1, <1>2 DEF InvokeNew, IInv, TypeOK
<1> QED
  BY SameData, <1>1, <1>2, <1>3, <1>4, <1>5 DEF Feed!Ask, InvokeNew, FeedPhase

\* Steps no other goroutine can see.
LEMMA QuietSteps ==
    ASSUME IInv, NEW g \in Goroutine,
           NextOption(g) \/ Lock(g) \/ (Load(g) /\ Fn(g) \in Consuming) \/ UnlockToBuild(g)
    PROVE  UNCHANGED Feed!vars
<1>1. TypeOK
  BY DEF IInv
<1>2. CASE NextOption(g)
  BY <1>1, <1>2 DEF NextOption, At, TypeOK, FeedPhase, FeedSeen, Served, Feed!vars
<1>3. CASE Lock(g)
  BY <1>1, <1>3 DEF Lock, At, Goto, TypeOK, FeedPhase, FeedSeen, Served, Feed!vars
<1>4. CASE Load(g) /\ Fn(g) \in Consuming
  BY <1>1, <1>4 DEF Load, At, Goto, TypeOK, FeedPhase, FeedSeen, Served, Feed!vars
<1>5. CASE UnlockToBuild(g)
  BY <1>1, <1>5 DEF UnlockToBuild, At, Goto, TypeOK, FeedPhase, FeedSeen, Served, Feed!vars
<1> QED
  BY <1>2, <1>3, <1>4, <1>5

\* Generate and Stream take effect where they move the cursor.
LEMMA AdvanceServes ==
    ASSUME IInv, NEW g \in Goroutine, Advance(g)
    PROVE  Feed!Serve(g)
<1>1. TypeOK /\ pc[g] = "advance" /\ pc' = [pc EXCEPT ![g] = "unlock"]
  BY DEF IInv, Advance, At, Goto
<1>2. FeedPhase' = [FeedPhase EXCEPT ![g] = "served"] /\ FeedPhase[g] = "asked"
  BY <1>1, PhaseMoves DEF Location, Served, FeedPhase
<1>3. /\ Fn(g) \in Consuming /\ Recv(g) \in made
      /\ reg[g] = [conf |-> conf[Recv(g)], cursor |-> cursor[Recv(g)]]
  BY <1>1 DEF IInv, InCall
<1>4. FeedSeen' = [FeedSeen EXCEPT ![g] = reg[g]]
  BY <1>1 DEF Advance, TypeOK, FeedSeen, Served
<1> QED
  BY SameData, <1>2, <1>3, <1>4 DEF Feed!Serve, Advance, Fn, Recv

\* Every other method takes effect where it copies the receiver's fields.
LEMMA LoadServes ==
    ASSUME IInv, NEW g \in Goroutine, Load(g), Fn(g) \notin Consuming
    PROVE  Feed!Serve(g)
<1>1. TypeOK /\ pc[g] = "body" /\ pc' = [pc EXCEPT ![g] = "unlock"]
  BY DEF IInv, Load, At, Goto
<1>2. FeedPhase' = [FeedPhase EXCEPT ![g] = "served"] /\ FeedPhase[g] = "asked"
  BY <1>1, PhaseMoves DEF Location, Served, FeedPhase
<1>3. Recv(g) \in made
  BY <1>1 DEF IInv, InCall
<1>4. FeedSeen' = [FeedSeen EXCEPT ![g] = [conf |-> conf[Recv(g)], cursor |-> cursor[Recv(g)]]]
  BY <1>1 DEF Load, TypeOK, FeedSeen, Served
<1> QED
  BY SameData, <1>2, <1>3, <1>4 DEF Feed!Serve, Load, Fn, Recv

LEMMA UnlockReplies ==
    ASSUME IInv, NEW g \in Goroutine, UnlockAndReturn(g)
    PROVE  Feed!ReplyAnswer(g)
<1>1. TypeOK /\ pc[g] = "unlock" /\ pc' = [pc EXCEPT ![g] = "idle"]
  BY DEF IInv, UnlockAndReturn, Return, At, Goto
<1>2. FeedPhase' = [FeedPhase EXCEPT ![g] = "idle"] /\ FeedPhase[g] = "served"
  BY <1>1, PhaseMoves DEF Location, Served, FeedPhase
<1>3. FeedSeen[g] = reg[g] /\ FeedSeen' = [FeedSeen EXCEPT ![g] = NoFields]
  BY <1>1 DEF UnlockAndReturn, TypeOK, FeedSeen, Served
<1>4. Feed!Answer(call[g], reg[g]) = Answer(call[g], reg[g])
  BY <1>1, SameAnswers DEF TypeOK
<1> QED
  BY SameData, <1>2, <1>3, <1>4 DEF Feed!ReplyAnswer, Feed!Reply, UnlockAndReturn, Return, Fn

LEMMA BuildReplies ==
    ASSUME IInv, NEW g \in Goroutine, Build(g)
    PROVE  Feed!ReplyDerived(g)
<1>1. TypeOK /\ pc[g] = "build" /\ pc' = [pc EXCEPT ![g] = "idle"] /\ Fn(g) \in Deriving
  BY DEF IInv, InCall, Build, Return, At, Goto
<1>2. FeedPhase' = [FeedPhase EXCEPT ![g] = "idle"] /\ FeedPhase[g] = "served"
  BY <1>1, PhaseMoves DEF Location, Served, FeedPhase
<1>3. FeedSeen[g] = reg[g] /\ FeedSeen' = [FeedSeen EXCEPT ![g] = NoFields]
  BY <1>1 DEF Build, TypeOK, FeedSeen, Served
<1>4. reg[g] \in Snapshot /\ Feed!DerivedConfig(call[g], reg[g]) = DerivedConfig(call[g], reg[g])
  BY <1>1, SameAnswers DEF TypeOK
<1>5. PICK n \in Model :
        /\ Allocate(n, [reg[g] EXCEPT !.conf = DerivedConfig(call[g], reg[g])])
        /\ Return(g, n)
  BY DEF Build
<1>6. Feed!Publish(n, Feed!DerivedConfig(call[g], FeedSeen[g]), FeedSeen[g].cursor)
  BY <1>3, <1>4, <1>5 DEF Feed!Publish, Allocate, Snapshot
<1>7. Feed!Reply(g, FeedSeen[g].cursor, n)
  BY SameData, <1>2, <1>3, <1>5 DEF Feed!Reply, Return, Build
<1> QED
  BY SameData, <1>1, <1>2, <1>6, <1>7 DEF Feed!ReplyDerived, Fn

LEMMA NewReplies ==
    ASSUME IInv, NEW g \in Goroutine, NewScriptedLLM(g), Composing(g)
    PROVE  Feed!ReplyNew(g)
<1>1. TypeOK /\ pc[g] = "options" /\ pc' = [pc EXCEPT ![g] = "idle"]
  BY DEF IInv, NewScriptedLLM, Return, At, Goto
<1>2. FeedPhase' = [FeedPhase EXCEPT ![g] = "idle"] /\ FeedPhase[g] = "asked"
  BY <1>1, PhaseMoves DEF Location, Served, FeedPhase
<1>3. FeedSeen' = [FeedSeen EXCEPT ![g] = NoFields]
  BY <1>1 DEF NewScriptedLLM, TypeOK, FeedSeen, Served
<1>4. Fn(g) = "New" /\ reg[g].cursor = 0 /\ reg[g].conf = Feed!Composed(call[g].arg)
  BY <1>1, SameData, AllComposed DEF IInv, InCall
<1>5. PICK n \in Model : Allocate(n, reg[g]) /\ Return(g, n)
  BY DEF NewScriptedLLM
<1>6. Feed!Publish(n, Feed!Composed(call[g].arg), 0)
  BY <1>4, <1>5 DEF Feed!Publish, Allocate
<1>7. Feed!Reply(g, 0, n)
  BY SameData, <1>2, <1>3, <1>4, <1>5 DEF Feed!Reply, Return, NewScriptedLLM
<1> QED
  BY <1>2, <1>4, <1>6, <1>7 DEF Feed!ReplyNew, Fn

LEMMA FeedStep == IInv /\ OptionInv /\ [Next]_vars => [Feed!Next]_Feed!vars
<1> SUFFICES ASSUME IInv, OptionInv, [Next]_vars PROVE Feed!Next \/ UNCHANGED Feed!vars
  OBVIOUS
<1>1. CASE UNCHANGED vars \/ Finished
  BY <1>1 DEF Finished, vars, Feed!vars, FeedPhase, FeedSeen
<1>2. CASE \E g \in Goroutine : InvokeNew(g) \/ Invoke(g) \/ Step(g)
  <2>1. PICK g \in Goroutine : InvokeNew(g) \/ Invoke(g) \/ Step(g)
    BY <1>2
  <2>2. \/ Feed!Ask(g) \/ Feed!Serve(g) \/ Feed!ReplyAnswer(g) \/ Feed!ReplyDerived(g)
        \/ Feed!ReplyNew(g) \/ UNCHANGED Feed!vars
    BY <2>1, InvokeAsks, InvokeNewAsks, QuietSteps, AdvanceServes, LoadServes,
       UnlockReplies, BuildReplies, NewReplies DEF Step, OptionInv
  <2> QED
    BY <2>2 DEF Feed!Next
<1> QED
  BY <1>1, <1>2 DEF Next

\* The mutex makes every call of a ScriptedLLM one atomic step for all other
\* goroutines: a run of the program is, seen from outside, a run of ScriptFeed.
THEOREM Refinement == Spec => ImplementsFeed
<1>1. Spec => Feed!Spec
  BY FeedInit, FeedStep, OptionInvariance, PTL DEF Spec, Feed!Spec
<1> QED
  BY <1>1 DEF ImplementsFeed
=============================================================================
