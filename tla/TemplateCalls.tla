---------------------------- MODULE TemplateCalls ----------------------------
(***************************************************************************)
(* What a compiled template promises to the goroutines that share it: a    *)
(* call takes effect at one instant, when it returns, and has the layout   *)
(* of its arguments, or the first error among its fragments and nothing    *)
(* else.  There are no messages in the making here, and no maps that could *)
(* be shared: a request has its metadata, as the template had it at that   *)
(* instant, and only the request's owner changes it.                       *)
(***************************************************************************)
EXTENDS PromptData

CONSTANTS Caller, Specs, AllVars, Histories

VARIABLES
    spec,   \* the spec New was called with
    tmpl,   \* what New returned: "compiled", "error", or Nil before
    meta,   \* the spec's metadata, which the caller of New may go on writing
    asked,  \* the callers whose call is in progress
    args,   \* the arguments of each caller's call
    got     \* what its finished calls returned

vars == <<spec, tmpl, meta, asked, args, got>>

Init ==
    /\ spec \in Specs
    /\ tmpl = Nil
    /\ meta = spec.metadata
    /\ asked = {}
    /\ args = [g \in Caller |-> Nil]
    /\ got = [g \in Caller |-> <<>>]

New ==
    /\ tmpl = Nil
    /\ tmpl' = IF Valid(spec) THEN "compiled" ELSE "error"
    /\ UNCHANGED <<spec, meta, asked, args, got>>

WriteSpec ==
    /\ meta # Nil
    /\ \E k \in Key, v \in Value : meta' = Put(meta, k, v)
    /\ UNCHANGED <<spec, tmpl, asked, args, got>>

\* The owner of a request writes to its metadata.
WriteRequest(g, i) ==
    /\ got[g][i].metadata # Nil
    /\ \E k \in Key, v \in Value : got' = [got EXCEPT ![g][i].metadata = Put(@, k, v)]
    /\ UNCHANGED <<spec, tmpl, meta, asked, args>>

Ask(g) ==
    /\ tmpl = "compiled"
    /\ g \notin asked
    /\ \E fn \in {"Format", "FormatRequest"}, v \in AllVars, h \in Histories :
         args' = [args EXCEPT ![g] = [fn |-> fn, vars |-> v, history |-> h]]
    /\ asked' = asked \union {g}
    /\ UNCHANGED <<spec, tmpl, meta, got>>

Answer(g, err, msgs, systemPrompt, metadata) ==
    /\ got' = [got EXCEPT ![g] = Append(@,
                 [args |-> args[g], err |-> err, msgs |-> msgs,
                  systemPrompt |-> systemPrompt, metadata |-> metadata])]
    /\ asked' = asked \ {g}
    /\ UNCHANGED <<spec, tmpl, meta, args>>

\* The fragments that the variables of a caller's call cannot render.
Bad(g) == {k \in 1 .. Len(Fragments(spec)) : Failing(Fragments(spec)[k], args[g].vars) # {}}

Fail(g) ==
    \E k \in Bad(g) :
      /\ \A j \in Bad(g) : k <= j
      /\ Answer(g, RenderError(Fragments(spec)[k], args[g].vars), <<>>, <<>>, Nil)

Messages(g) == Layout(spec, args[g].vars, args[g].history)

Format(g) ==
    /\ Bad(g) = {}
    /\ args[g].fn = "Format"
    /\ Answer(g, Nil, Messages(g), <<>>, Nil)

FormatRequest(g) ==
    /\ Bad(g) = {}
    /\ args[g].fn = "FormatRequest"
    /\ IF Messages(g)[1].role = "system"
         THEN Answer(g, Nil, Tail(Messages(g)), Messages(g)[1].content, meta)
         ELSE Answer(g, Nil, Messages(g), <<>>, meta)

Next == \/ New
        \/ WriteSpec
        \/ \E g \in Caller : Ask(g)
        \/ \E g \in asked : Fail(g) \/ Format(g) \/ FormatRequest(g)
        \/ \E g \in Caller : \E i \in 1 .. Len(got[g]) : WriteRequest(g, i)

CallSpec == Init /\ [][Next]_vars
=============================================================================
