--------------------------- MODULE PromptTemplate ---------------------------
(***************************************************************************)
(* prompt/prompt.go: New compiles a Spec once, and goroutines that share   *)
(* the compiled template call Format and FormatRequest.                    *)
(*                                                                         *)
(* A fragment is the list of its segments; rendering gives the list of     *)
(* what the segments stand for, so that a value is never looked at again.  *)
(* How a source becomes segments is in BraceTemplate; here a fragment is   *)
(* well formed or not.  Maps are references into a heap, because New keeps *)
(* the caller's metadata map and FormatRequest hands out a copy.           *)
(***************************************************************************)
EXTENDS PromptData

CONSTANTS
    Caller,       \* goroutines that use the template
    Specs,        \* the specs New is called with
    AllVars,      \* the Vars callers pass
    Histories,    \* the histories callers pass
    MaxFormats,   \* bound: calls per caller
    MaxWrites     \* bound: writes to a metadata map

\* Where a map lives: the spec's, and one for each request.
Addr == {<<"spec">>} \union (Caller \X (1 .. MaxFormats))

ASSUME PromptAssumption ==
    /\ Specs \subseteq Spec
    /\ AllVars \subseteq Vars
    /\ Histories \subseteq Seq(Message)
    /\ Nil \notin Fragment /\ Nil \notin Metadata /\ Nil \notin RenderErrors
    /\ Nil \notin Addr /\ Nil # "compiled"
    /\ MaxFormats \in Nat /\ MaxWrites \in Nat

VARIABLES
    spec,     \* the spec New was called with
    tmpl,     \* what New returned: "compiled", "error", or Nil before
    heap,     \* the metadata maps
    own,      \* history: what each request's map has to be by its owner's writes
    writes,   \* writes to maps by their owners
    pc,       \* where each caller is
    args,     \* its arguments
    msgs,     \* the messages it has put together
    got       \* history: what its calls returned

vars == <<spec, tmpl, heap, own, writes, pc, args, msgs, got>>

Init ==
    /\ spec \in Specs
    /\ tmpl = Nil
    /\ heap = [a \in Addr |-> IF a = <<"spec">> THEN spec.metadata ELSE Nil]
    /\ own = heap
    /\ writes = 0
    /\ pc = [g \in Caller |-> "idle"]
    /\ args = [g \in Caller |-> Nil]
    /\ msgs = [g \in Caller |-> <<>>]
    /\ got = [g \in Caller |-> <<>>]

-----------------------------------------------------------------------------
\* Mutant of New: it leaves few-shot turns to the calls that render them.
NewLazily ==
    /\ tmpl = Nil
    /\ tmpl' = IF Valid([spec EXCEPT !.fewShot = <<>>]) THEN "compiled" ELSE "error"
    /\ UNCHANGED <<spec, heap, own, writes, pc, args, msgs, got>>

New ==
    /\ tmpl = Nil
    /\ tmpl' = IF Valid(spec) THEN "compiled" ELSE "error"
    /\ UNCHANGED <<spec, heap, own, writes, pc, args, msgs, got>>

\* Owners write to their maps between two steps of the template's code: the
\* caller of New, once it has its template, to the spec's.  (During the copy in
\* FormatRequest it would be a data race.)
WriteSpec ==
    /\ tmpl = "compiled"
    /\ spec.metadata # Nil
    /\ writes < MaxWrites
    /\ \E k \in Key, v \in Value : heap' = [heap EXCEPT ![<<"spec">>] = Put(@, k, v)]
    /\ writes' = writes + 1
    /\ UNCHANGED <<spec, tmpl, own, pc, args, msgs, got>>

\* And a caller to that of a request it was given.
WriteRequest(g, i) ==
    /\ i <= Len(got[g])
    /\ got[g][i].metadata # Nil
    /\ writes < MaxWrites
    /\ \E k \in Key, v \in Value :
         /\ heap' = [heap EXCEPT ![got[g][i].metadata] = Put(@, k, v)]
         /\ own' = [own EXCEPT ![<<g, i>>] = Put(@, k, v)]
    /\ writes' = writes + 1
    /\ UNCHANGED <<spec, tmpl, pc, args, msgs, got>>

-----------------------------------------------------------------------------
Call(g) ==
    /\ tmpl = "compiled"
    /\ pc[g] = "idle"
    /\ Len(got[g]) < MaxFormats
    /\ \E fn \in {"Format", "FormatRequest"}, v \in AllVars, h \in Histories :
         args' = [args EXCEPT ![g] = [fn |-> fn, vars |-> v, history |-> h]]
    /\ msgs' = [msgs EXCEPT ![g] = <<>>]
    /\ pc' = [pc EXCEPT ![g] = "system"]
    /\ UNCHANGED <<spec, tmpl, heap, own, writes, got>>

Return(g, r) ==
    /\ got' = [got EXCEPT ![g] = Append(@, r)]
    /\ pc' = [pc EXCEPT ![g] = "idle"]

\* Mutant of Fail: the messages so far are returned with the error.
FailPartly(g, f) ==
    /\ Failing(f, args[g].vars) # {}
    /\ Return(g, [args |-> args[g], err |-> RenderError(f, args[g].vars), msgs |-> msgs[g],
                  systemPrompt |-> <<>>, metadata |-> Nil, carried |-> Nil])
    /\ UNCHANGED <<spec, tmpl, heap, own, writes, args, msgs>>

\* A fragment that cannot be rendered ends the call with no messages at all.
Fail(g, f) ==
    /\ Failing(f, args[g].vars) # {}
    /\ Return(g, [args |-> args[g], err |-> RenderError(f, args[g].vars), msgs |-> <<>>,
                  systemPrompt |-> <<>>, metadata |-> Nil, carried |-> Nil])
    /\ UNCHANGED <<spec, tmpl, heap, own, writes, args, msgs>>

\* Otherwise its text joins the messages.
Say(g, role, f, next) ==
    /\ Failing(f, args[g].vars) = {}
    /\ msgs' = [msgs EXCEPT ![g] = Append(@, Turn(role, Rendered(f, args[g].vars)))]
    /\ pc' = [pc EXCEPT ![g] = next]
    /\ UNCHANGED <<spec, tmpl, heap, own, writes, args, got>>

Skip(g, next) ==
    /\ pc' = [pc EXCEPT ![g] = next]
    /\ UNCHANGED <<spec, tmpl, heap, own, writes, args, msgs, got>>

System(g) ==
    /\ pc[g] = "system"
    /\ IF spec.system = Nil
         THEN Skip(g, "fewShot")
         ELSE Say(g, "system", spec.system, "fewShot") \/ Fail(g, spec.system)

\* The few-shot turn that is next.
NextTurn(g) == Len(msgs[g]) + 1 - (IF spec.system = Nil THEN 0 ELSE 1)

FewShot(g) ==
    /\ pc[g] = "fewShot"
    /\ IF NextTurn(g) > Len(spec.fewShot)
         THEN Skip(g, "history")
         ELSE LET t == spec.fewShot[NextTurn(g)]
              IN Say(g, t.role, t.content, "fewShot") \/ Fail(g, t.content)

\* The history is taken as it is.
History(g) ==
    /\ pc[g] = "history"
    /\ msgs' = [msgs EXCEPT ![g] = IF spec.historySlot = "NoHistory" THEN @
                                                                    ELSE @ \o args[g].history]
    /\ pc' = [pc EXCEPT ![g] = "user"]
    /\ UNCHANGED <<spec, tmpl, heap, own, writes, args, got>>

User(g) ==
    /\ pc[g] = "user"
    /\ Say(g, "user", spec.user, "return") \/ Fail(g, spec.user)

ReturnMessages(g) ==
    /\ pc[g] = "return"
    /\ args[g].fn = "Format"
    /\ Return(g, [args |-> args[g], err |-> Nil, msgs |-> msgs[g],
                  systemPrompt |-> <<>>, metadata |-> Nil, carried |-> Nil])
    /\ UNCHANGED <<spec, tmpl, heap, own, writes, args, msgs>>

\* Mutant of Lifts: only a system message of the template's own is lifted.
LiftsOwn(ms) == spec.system # Nil

Lifts(ms) == Head(ms).role = "system"

\* Mutant of ReturnRequest: the request gets the template's own map.
ReturnRequestAlias(g) ==
    LET ms == msgs[g]
        a == <<g, Len(got[g]) + 1>>
    IN /\ pc[g] = "return"
       /\ args[g].fn = "FormatRequest"
       /\ heap' = [heap EXCEPT ![a] = heap[<<"spec">>]]
       /\ own' = [own EXCEPT ![a] = heap[<<"spec">>]]
       /\ Return(g, [args |-> args[g], err |-> Nil,
                     msgs |-> IF Lifts(ms) THEN Tail(ms) ELSE ms,
                     systemPrompt |-> IF Lifts(ms) THEN Head(ms).content ELSE <<>>,
                     metadata |-> IF heap[<<"spec">>] = Nil THEN Nil ELSE <<"spec">>,
                     carried |-> heap[<<"spec">>]])
       /\ UNCHANGED <<spec, tmpl, writes, args, msgs>>

\* FormatRequest lifts a leading system message, whoever it came from, and
\* copies the metadata map it finds.
ReturnRequest(g) ==
    LET ms == msgs[g]
        a == <<g, Len(got[g]) + 1>>
    IN /\ pc[g] = "return"
       /\ args[g].fn = "FormatRequest"
       /\ heap' = [heap EXCEPT ![a] = heap[<<"spec">>]]
       /\ own' = [own EXCEPT ![a] = heap[<<"spec">>]]
       /\ Return(g, [args |-> args[g], err |-> Nil,
                     msgs |-> IF Lifts(ms) THEN Tail(ms) ELSE ms,
                     systemPrompt |-> IF Lifts(ms) THEN Head(ms).content ELSE <<>>,
                     metadata |-> IF heap[<<"spec">>] = Nil THEN Nil ELSE a,
                     carried |-> heap[<<"spec">>]])
       /\ UNCHANGED <<spec, tmpl, writes, args, msgs>>

Step(g) == \/ Call(g) \/ System(g) \/ FewShot(g) \/ History(g) \/ User(g)
           \/ ReturnMessages(g) \/ ReturnRequest(g)

Next == \/ New
        \/ \E g \in Caller : Step(g)
        \/ WriteSpec
        \/ \E g \in Caller, i \in 1 .. MaxFormats : WriteRequest(g, i)

FormatSpec == Init /\ [][Next]_vars
-----------------------------------------------------------------------------
Results == {x \in Caller \X (1 .. MaxFormats) : x[2] <= Len(got[x[1]])}

\* A template New accepts fails at render time only for what the variables of
\* that call lack or cannot do, names the first such place in the order of the
\* messages, and then returns no message (prompt.go:125-127, 168-195).
FailsWholly ==
    \A x \in Results :
      LET r == got[x[1]][x[2]]
          v == r.args.vars
          fs == Fragments(spec)
          bad == {k \in 1 .. Len(fs) : Failing(fs[k], v) # {}}
      IN IF bad = {} THEN r.err = Nil
         ELSE /\ \E k \in bad : /\ \A j \in bad : k <= j
                                /\ r.err = RenderError(fs[k], v)
              /\ r.msgs = <<>> /\ r.systemPrompt = <<>> /\ r.metadata = Nil

\* Each call returns the layout of its own variables and history.  A Request says
\* the same as the message list: a leading system message moves to SystemPrompt,
\* also one that few-shot or history brought, and everything else stays a
\* message, in order (prompt.go:18-20, 168-225).
EachItsOwnLayout ==
    \A x \in Results :
      LET r == got[x[1]][x[2]] IN
        r.err = Nil =>
          LET all == Layout(spec, r.args.vars, r.args.history) IN
            IF r.args.fn = "FormatRequest" /\ all[1].role = "system"
              THEN r.msgs = Tail(all) /\ r.systemPrompt = all[1].content
              ELSE r.msgs = all /\ r.systemPrompt = <<>>

\* A Request's metadata map is its own: it has what the template had when the
\* request was made and what its owner wrote since, whatever is written to the
\* spec's map or to those of other requests (prompt.go:216-222).
RequestsIsolated ==
    \A x \in Results :
      LET a == got[x[1]][x[2]].metadata IN a # Nil => heap[a] = own[x]

\* What the caller of a finished call has: a value, with the metadata that its
\* map has in maps.
Seen(r, maps) ==
    [args |-> r.args, err |-> r.err, msgs |-> r.msgs, systemPrompt |-> r.systemPrompt,
     metadata |-> IF r.metadata = Nil THEN Nil ELSE maps[r.metadata]]
SeenBy == [g \in Caller |-> [i \in 1 .. Len(got[g]) |-> Seen(got[g][i], heap)]]

Calls == INSTANCE TemplateCalls WITH
    meta <- heap[<<"spec">>],
    asked <- {g \in Caller : pc[g] # "idle"},
    got <- SeenBy

\* To everybody who shares a template a call is one step, taken when it returns,
\* whose outcome its arguments and the spec decide, and requests are values: no
\* write through one map is seen through another (prompt.go:110-225).
ImplementsCalls == Calls!CallSpec

(***************************************************************************)
(* Disagreement with the documentation.                                    *)
(***************************************************************************)
\* prompt.go:73-74, 110-111: New compiles the spec into an immutable template,
\* so a request carries the metadata the spec had when New compiled it.
CompiledImmutable ==
    \A x \in Results :
      LET r == got[x[1]][x[2]] IN
        r.args.fn = "FormatRequest" /\ r.err = Nil => r.carried = spec.metadata
=============================================================================
