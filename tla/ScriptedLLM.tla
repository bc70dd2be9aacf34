---------------------------- MODULE ScriptedLLM -----------------------------
(***************************************************************************)
(* llm/scripted.go: ScriptedLLM values shared by concurrent goroutines.    *)
(*                                                                         *)
(* A *ScriptedLLM has a mutex, a cursor into its script, and fields that   *)
(* are written once, by the constructor or by the method that allocates    *)
(* it.  A call is split where another goroutine can step in between: it    *)
(* locks the receiver, reads its fields, moves the cursor (Generate and    *)
(* Stream), unlocks, and - WithTools and WithSchema - builds the new value *)
(* after the unlock from what it copied under the lock.                    *)
(***************************************************************************)
EXTENDS ScriptedData, FiniteSets

CONSTANTS
    OptionLists,   \* the option lists callers pass to NewScriptedLLM
    TextLists,     \* the text lists callers pass to Embed
    Methods,       \* the methods callers use
    MaxCalls,      \* bound: calls per goroutine
    Nobody         \* holder of an unlocked mutex

ASSUME CallersAssumption ==
    /\ OptionLists \subseteq Seq(Option)
    /\ TextLists \subseteq Seq(Text)
    /\ Methods \subseteq Method
    /\ MaxCalls \in Nat
    /\ Nobody \notin Goroutine
    /\ NoModel \notin Model

VARIABLES
    made,    \* the models allocated so far
    conf,    \* the write-once fields of each model
    cursor,  \* s.cursor
    mu,      \* s.mu: its holder, or Nobody
    pc,      \* where each goroutine is
    call,    \* the call it is executing
    todo,    \* options the constructor still has to apply
    reg,     \* its local copy of the receiver's fields
    got,     \* history: what its finished calls returned, in order
    start    \* history: each model's cursor when it was allocated

vars == <<made, conf, cursor, mu, pc, call, todo, reg, got, start>>

Location == {"idle", "options", "lock", "body", "advance", "unlock", "build"}

TypeOK ==
    /\ made \subseteq Model
    /\ conf \in [Model -> Config]
    /\ cursor \in [Model -> Nat]
    /\ mu \in [Model -> Goroutine \union {Nobody}]
    /\ pc \in [Goroutine -> Location]
    /\ call \in [Goroutine -> Call]
    /\ todo \in [Goroutine -> Seq(Option)]
    /\ reg \in [Goroutine -> Snapshot]
    /\ got \in [Goroutine -> Seq(Receipt)]
    /\ start \in [Model -> Nat]

Init ==
    /\ made = {}
    /\ conf = [m \in Model |-> DefaultConfig]
    /\ cursor = [m \in Model |-> 0]
    /\ mu = [m \in Model |-> Nobody]
    /\ pc = [g \in Goroutine |-> "idle"]
    /\ call = [g \in Goroutine |-> NoCall]
    /\ todo = [g \in Goroutine |-> <<>>]
    /\ reg = [g \in Goroutine |-> NoFields]
    /\ got = [g \in Goroutine |-> <<>>]
    /\ start = [m \in Model |-> 0]

-----------------------------------------------------------------------------
At(g, here) == pc[g] = here
Goto(g, there) == pc' = [pc EXCEPT ![g] = there]
Recv(g) == call[g].recv
Fn(g) == call[g].fn

\* Calls in progress that will allocate a model.
Allocating == {g \in Goroutine : pc[g] # "idle" /\ Fn(g) \in Deriving \union {"New"}}

\* Bounds: calls per goroutine, and addresses enough for every allocation.
MayCall(g, fn) ==
    /\ Len(got[g]) < MaxCalls
    /\ fn \in Deriving \union {"New"} =>
         Cardinality(made) + Cardinality(Allocating) < Cardinality(Model)

\* The values callers pass: bounded choices among what Call allows.
Offered(fn) == CASE fn = "WithTools" -> Tools
                 [] fn = "Embed"     -> TextLists
                 [] OTHER            -> {<<>>}

\* A goroutine that holds a reference to m calls one of its methods.
Invoke(g) ==
    /\ At(g, "idle")
    /\ \E fn \in Methods, m \in made :
         /\ MayCall(g, fn)
         /\ \E arg \in Offered(fn) :
              call' = [call EXCEPT ![g] = [fn |-> fn, recv |-> m, arg |-> arg]]
    /\ Goto(g, "lock")
    /\ UNCHANGED <<made, conf, cursor, mu, todo, reg, got, start>>

\* NewScriptedLLM: the defaults, before the options.
InvokeNew(g) ==
    /\ At(g, "idle")
    /\ MayCall(g, "New")
    /\ \E opts \in OptionLists :
         /\ call' = [call EXCEPT ![g] = [fn |-> "New", recv |-> NoModel, arg |-> opts]]
         /\ todo' = [todo EXCEPT ![g] = opts]
    /\ reg' = [reg EXCEPT ![g] = NoFields]
    /\ Goto(g, "options")
    /\ UNCHANGED <<made, conf, cursor, mu, got, start>>

\* One turn of the loop over opts: the value is still private to the caller.
NextOption(g) ==
    /\ At(g, "options")
    /\ todo[g] # <<>>
    /\ reg' = [reg EXCEPT ![g].conf = ApplyOption(@, Head(todo[g]))]
    /\ todo' = [todo EXCEPT ![g] = Tail(@)]
    /\ UNCHANGED <<made, conf, cursor, mu, pc, call, got, start>>

\* The call returns: its receipt joins the goroutine's history.
Return(g, res) ==
    /\ got' = [got EXCEPT ![g] =
                 Append(@, [call |-> call[g], at |-> reg[g].cursor, res |-> res])]
    /\ Goto(g, "idle")

\* Mutant of Allocate: the copy forgets the cursor and starts from the top.
AllocateRewound(n, f) ==
    /\ n \in Model \ made
    /\ made' = made \union {n}
    /\ conf' = [conf EXCEPT ![n] = f.conf]
    /\ cursor' = [cursor EXCEPT ![n] = 0]
    /\ start' = [start EXCEPT ![n] = 0]
    /\ mu' = [mu EXCEPT ![n] = Nobody]

\* &ScriptedLLM{...} with fields f; the new mutex is unlocked.
Allocate(n, f) ==
    /\ n \in Model \ made
    /\ made' = made \union {n}
    /\ conf' = [conf EXCEPT ![n] = f.conf]
    /\ cursor' = [cursor EXCEPT ![n] = f.cursor]
    /\ start' = [start EXCEPT ![n] = f.cursor]
    /\ mu' = [mu EXCEPT ![n] = Nobody]

NewScriptedLLM(g) ==
    /\ At(g, "options")
    /\ todo[g] = <<>>
    /\ \E n \in Model : Allocate(n, reg[g]) /\ Return(g, n)
    /\ UNCHANGED <<call, todo, reg>>

-----------------------------------------------------------------------------
\* Mutant of Lock: the method does not wait for the mutex.
LockWithoutWaiting(g) ==
    /\ At(g, "lock")
    /\ mu' = [mu EXCEPT ![Recv(g)] = g]
    /\ Goto(g, "body")
    /\ UNCHANGED <<made, conf, cursor, call, todo, reg, got, start>>

Lock(g) ==
    /\ At(g, "lock")
    /\ mu[Recv(g)] = Nobody
    /\ mu' = [mu EXCEPT ![Recv(g)] = g]
    /\ Goto(g, "body")
    /\ UNCHANGED <<made, conf, cursor, call, todo, reg, got, start>>

\* Mutant of Load: the mutex protects the read of the cursor only, and cursor++
\* comes after the unlock.
LoadAndUnlock(g) ==
    /\ At(g, "body")
    /\ reg' = [reg EXCEPT ![g] = [conf |-> conf[Recv(g)], cursor |-> cursor[Recv(g)]]]
    /\ Goto(g, IF Fn(g) \in Consuming THEN "advance" ELSE "unlock")
    /\ mu' = [mu EXCEPT ![Recv(g)] = IF Fn(g) \in Consuming THEN Nobody ELSE @]
    /\ UNCHANGED <<made, conf, cursor, call, todo, got, start>>

\* Under the lock every method first copies what it needs of the receiver;
\* Generate and Stream also compare the cursor with the script's length.
Load(g) ==
    /\ At(g, "body")
    /\ reg' = [reg EXCEPT ![g] = [conf |-> conf[Recv(g)], cursor |-> cursor[Recv(g)]]]
    /\ Goto(g, IF Fn(g) \in Consuming THEN "advance" ELSE "unlock")
    /\ UNCHANGED <<made, conf, cursor, mu, call, todo, got, start>>

\* Mutant of Advance: the script starts over when it is exhausted.
AdvanceAround(g) ==
    /\ At(g, "advance")
    /\ cursor' = [cursor EXCEPT ![Recv(g)] =
                    IF @ >= Len(reg[g].conf.resps) THEN 0 ELSE @ + 1]
    /\ Goto(g, "unlock")
    /\ UNCHANGED <<made, conf, mu, call, todo, reg, got, start>>

\* s.cursor++, on the exhausted path too.
Advance(g) ==
    /\ At(g, "advance")
    /\ cursor' = [cursor EXCEPT ![Recv(g)] = @ + 1]
    /\ Goto(g, "unlock")
    /\ UNCHANGED <<made, conf, mu, call, todo, reg, got, start>>

\* The deferred Unlock of Generate, Stream, Info, Embed and EmbedDimensions,
\* then their return.
UnlockAndReturn(g) ==
    /\ At(g, "unlock")
    /\ Fn(g) \notin Deriving
    /\ mu' = [mu EXCEPT ![Recv(g)] = Nobody]
    /\ Return(g, Answer(call[g], reg[g]))
    /\ UNCHANGED <<made, conf, cursor, call, todo, reg, start>>

\* Mutant of UnlockToBuild: the explicit Unlock is forgotten.
BuildWithoutUnlock(g) ==
    /\ At(g, "unlock")
    /\ Fn(g) \in Deriving
    /\ Goto(g, "build")
    /\ UNCHANGED <<made, conf, cursor, mu, call, todo, reg, got, start>>

\* WithTools and WithSchema unlock before they build the copy.
UnlockToBuild(g) ==
    /\ At(g, "unlock")
    /\ Fn(g) \in Deriving
    /\ mu' = [mu EXCEPT ![Recv(g)] = Nobody]
    /\ Goto(g, "build")
    /\ UNCHANGED <<made, conf, cursor, call, todo, reg, got, start>>

\* Mutant of Build: the cursor is read when the copy is built, not when the
\* other fields are copied.
BuildFromLiveCursor(g) ==
    /\ At(g, "build")
    /\ \E n \in Model :
         /\ Allocate(n, [conf |-> DerivedConfig(call[g], reg[g]), cursor |-> cursor[Recv(g)]])
         /\ Return(g, n)
    /\ UNCHANGED <<call, todo, reg>>

\* Mutant of Build: the tools are bound to the receiver as well.
BuildInPlace(g) ==
    /\ At(g, "build")
    /\ \E n \in Model \ made :
         LET c == DerivedConfig(call[g], reg[g]) IN
           /\ made' = made \union {n}
           /\ conf' = [conf EXCEPT ![n] = c, ![Recv(g)] = c]
           /\ cursor' = [cursor EXCEPT ![n] = reg[g].cursor]
           /\ start' = [start EXCEPT ![n] = reg[g].cursor]
           /\ mu' = [mu EXCEPT ![n] = Nobody]
           /\ Return(g, n)
    /\ UNCHANGED <<call, todo, reg>>

Build(g) ==
    /\ At(g, "build")
    /\ \E n \in Model :
         /\ Allocate(n, [reg[g] EXCEPT !.conf = DerivedConfig(call[g], reg[g])])
         /\ Return(g, n)
    /\ UNCHANGED <<call, todo, reg>>

Step(g) == \/ NextOption(g) \/ NewScriptedLLM(g)
           \/ Lock(g) \/ Load(g) \/ Advance(g)
           \/ UnlockAndReturn(g) \/ UnlockToBuild(g) \/ Build(g)

\* Every goroutine has made its calls: nothing is left to do.
Finished ==
    /\ \A g \in Goroutine : At(g, "idle") /\ Len(got[g]) = MaxCalls
    /\ UNCHANGED vars

Next == \/ \E g \in Goroutine : InvokeNew(g) \/ Invoke(g) \/ Step(g)
        \/ Finished

Spec == Init /\ [][Next]_vars

\* The Go scheduler runs every goroutine that can run, and a caller that waits
\* for the mutex can run once the mutex is free and stays free.
Fairness == \A g \in Goroutine : WF_vars(Step(g))

FairSpec == Spec /\ Fairness
-----------------------------------------------------------------------------
(***************************************************************************)
(* Safety.                                                                 *)
(***************************************************************************)
Critical == {"body", "advance", "unlock"}

\* The receiver's mutex is held by exactly the goroutine that is between its
\* Lock and its Unlock (scripted.go:68, 83, 96, 104, 128, 146, 155).
MutualExclusion ==
    \A g \in Goroutine, m \in Model :
      (pc[g] \in Critical /\ Recv(g) = m) <=> mu[m] = g

Turns(g) == {i \in 1 .. Len(got[g]) : got[g][i].call.fn \in Consuming}

\* The turns of m's script a goroutine holds: those its finished calls
\* returned, and the one of a call that has moved the cursor but not returned.
Holds(g, m, k) ==
    \/ \E i \in Turns(g) : got[g][i].call.recv = m /\ got[g][i].at = k
    \/ pc[g] = "unlock" /\ Fn(g) \in Consuming /\ Recv(g) = m /\ reg[g].cursor = k

\* Concurrent Generate and Stream calls on one model share its script without
\* losing or repeating a turn: every cursor value from the one the model was
\* allocated with up to the current one was used by exactly one call, and no
\* other value by any (scripted.go:74-75, 89-90).
EveryTurnOnce ==
    \A m \in made : \A k \in 0 .. cursor[m] :
      IF k \in start[m] .. cursor[m] - 1
        THEN \E g \in Goroutine :
               /\ Holds(g, m, k)
               /\ \A h \in Goroutine \ {g} : ~Holds(h, m, k)
        ELSE \A g \in Goroutine : ~Holds(g, m, k)

\* One goroutine's calls on one model use ever later turns, and each returns
\* what the script has there: once a call found the script exhausted, no later
\* call on the model gets a response (scripted.go:66-92).
TurnsInOrder ==
    \A g \in Goroutine : \A j \in Turns(g) :
      LET r == got[g][j] IN
        /\ r.res = Turn([conf |-> conf[r.call.recv], cursor |-> r.at])
        /\ \A i \in Turns(g) :
             i < j /\ got[g][i].call.recv = r.call.recv => got[g][i].at < r.at

Derivations(g) == {i \in 1 .. Len(got[g]) : got[g][i].call.fn \in Deriving}

\* A model derived with WithTools or WithSchema takes the script up where the
\* receiver stood: it repeats no turn its caller had already been given by the
\* receiver, and skips none the receiver has yet to give
\* (scripted.go:108, 116, 159, 168).
DerivedResumes ==
    \A g \in Goroutine : \A j \in Derivations(g) :
      LET d == got[g][j] IN
        /\ start[d.res] <= cursor[d.call.recv]
        /\ \A i \in Turns(g) :
             i < j /\ got[g][i].call.recv = d.call.recv => got[g][i].at < start[d.res]

\* A derived model differs from its receiver in nothing but the tools WithTools
\* binds; WithSchema keeps the tools bound before it, so binding tools and then
\* a schema loses neither (scripted.go:112-120, 162-172).
DerivedKeepsFields ==
    \A g \in Goroutine : \A j \in Derivations(g) :
      LET d == got[g][j]
          tools == IF d.call.fn = "WithTools" THEN d.call.arg
                                              ELSE conf[d.call.recv].tools
      IN conf[d.res] = [conf[d.call.recv] EXCEPT !.tools = tools]

\* A constructed model has, in each field, the last value an option gave it or
\* the default, and its script is what all WithResponses options say, one after
\* the other: an option never undoes one of another kind
\* (scripted.go:53-64, 179-196).
OptionsCompose ==
    \A g \in Goroutine : \A i \in 1 .. Len(got[g]) :
      LET r == got[g][i] IN r.call.fn = "New" => conf[r.res] = Composed(r.call.arg)

\* A published model is immutable but for its cursor, and only a Generate or a
\* Stream moves that, by one: deriving from a model, or working with the models
\* derived from it, never disturbs it (scripted.go:101-102, 151-153).
OnlyTurnsMoveCursor ==
    [][\A m \in made :
         /\ conf'[m] = conf[m]
         /\ cursor'[m] # cursor[m] =>
              /\ cursor'[m] = cursor[m] + 1
              /\ \E g \in Goroutine : mu[m] = g /\ Fn(g) \in Consuming]_vars

\* Every call returns: no caller waits for a mutex for ever.
CallsReturn == \A g \in Goroutine : pc[g] # "idle" ~> pc[g] = "idle"

Served == {"unlock", "build"}

FeedPhase == [g \in Goroutine |-> IF pc[g] = "idle"    THEN "idle"
                             ELSE IF pc[g] \in Served THEN "served" ELSE "asked"]
FeedSeen == [g \in Goroutine |-> IF pc[g] \in Served THEN reg[g] ELSE NoFields]

Feed == INSTANCE ScriptFeed WITH phase <- FeedPhase, seen <- FeedSeen

\* The lock makes each call one atomic step for everybody else: a Generate or
\* Stream takes effect where it moves the cursor, any other method where it
\* copies the receiver's fields (scripted.go:28, "Concurrent-safe").
ImplementsFeed == Feed!Spec

(***************************************************************************)
(* Disagreements with the documentation.                                   *)
(***************************************************************************)
\* llm/errors.go:11-13: a method of a capability interface returns
\* ErrCapabilityNotSupported when the bound model does not support the
\* capability.  No result of the mock is that error, so it must never have been
\* asked for a capability its Info denies.
DeniedCapabilityRefused ==
    \A g \in Goroutine : \A i \in 1 .. Len(got[g]) :
      LET r == got[g][i] IN
        /\ r.call.fn = "Embed" => "Embeddings" \in conf[r.call.recv].caps
        /\ r.call.fn = "WithTools" => "Tools" \in conf[r.call.recv].caps
        /\ r.call.fn = "WithSchema" => "StructuredOutputs" \in conf[r.call.recv].caps
=============================================================================
