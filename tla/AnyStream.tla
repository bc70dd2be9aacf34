----------------------------- MODULE AnyStream ------------------------------
(***************************************************************************)
(* AccumulateStream reading from anything that fits the StreamReader       *)
(* interface: Next may return any event or any error at any time.          *)
(***************************************************************************)
EXTENDS AccumulateStream, SequencesExt

CONSTANTS
    Events,     \* the events readers return
    MaxEvents   \* bound: events per stream

ASSUME EventsAssumption == Events \subseteq Event /\ MaxEvents \in Nat

VARIABLES
    seen,   \* the events received
    last    \* the error that ended the stream, Nil before

InitAny == Init /\ seen = <<>> /\ last = Nil

Give(ev) ==
    /\ Len(seen) < MaxEvents
    /\ OnEvent(ev)
    /\ seen' = Append(seen, ev)
    /\ UNCHANGED last

Stop(err) ==
    /\ OnEOF(err) \/ OnError(err)
    /\ last' = err
    /\ UNCHANGED seen

NextAny == \/ \E ev \in Events : Give(ev)
           \/ \E err \in Errors : Stop(err)
           \/ Close /\ UNCHANGED <<seen, last>>

AnyVars == <<vars, seen, last>>
SpecAny == InitAny /\ [][NextAny]_AnyVars
-----------------------------------------------------------------------------
(***************************************************************************)
(* What the result has to be, told from the events received alone.         *)
(***************************************************************************)
\* A list of the values of v, which is a function on positions, in their order.
InOrder(s, v) ==
    /\ Len(s) = Cardinality(DOMAIN v)
    /\ \A k \in DOMAIN v : s[Cardinality({j \in DOMAIN v : j <= k})] = v[k]

\* The positions of the events of some kinds, and of those about an index.
OfKind(kinds) == {k \in DOMAIN seen : seen[k].kind \in kinds}
EventsOf(kinds, i) ==
    {k \in OfKind(kinds) : seen[k].toolCall # Nil /\ seen[k].toolCall.index = i}
Merged(i) == EventsOf({"ToolCallStart", "ToolCallArgsDelta"}, i)
SeenIndexes == {i \in Index : Merged(i) # {}}

\* Those of them that fill a field.
Filling(events, f) == {k \in events : seen[k].toolCall[f] # Empty}

\* The last value a Start gave, or else the first an ArgsDelta gave.
Identity(i, f) ==
    LET starts == Filling(EventsOf({"ToolCallStart"}, i), f)
        deltas == Filling(EventsOf({"ToolCallArgsDelta"}, i), f)
    IN IF starts # {} THEN seen[Max(starts)].toolCall[f]
       ELSE IF deltas # {} THEN seen[Min(deltas)].toolCall[f]
       ELSE Empty

\* The tool call of an index consists of what the events of that index carry
\* and of nothing else, however the events of several calls interleave: its
\* arguments are all its pieces in order of arrival, its ID and name are those
\* of its Start, also when the chunks that follow have none or others
\* (stream.go:82-89, 134-163).
JoinedByIndex ==
    /\ DOMAIN byIndex = SeenIndexes
    /\ \A i \in SeenIndexes :
         /\ byIndex[i].id = Identity(i, "id")
         /\ byIndex[i].name = Identity(i, "name")
         /\ InOrder(byIndex[i].args,
                    [k \in Filling(Merged(i), "args") |-> seen[k].toolCall.args])

\* Every call is listed once, at the place its first event gave it
\* (stream.go:106-114).
OrderedByFirstEvent ==
    /\ ToSet(order) = SeenIndexes
    /\ \A j, k \in 1 .. Len(order) : j < k => Min(Merged(order[j])) < Min(Merged(order[k]))

\* What the events say of the text, the usage and the finish reason: all the
\* text, the last usage any Done reported, even if a later Done has none, and the
\* reason of the last Done.
Summary(resp) ==
    LET texts == OfKind({"TextDelta"})
        dones == OfKind({"Done"})
        reports == {k \in dones : seen[k].usage # Nil}
    IN /\ InOrder(resp.text, [k \in texts |-> seen[k].text])
       /\ resp.usage = IF reports = {} THEN Nil ELSE seen[Max(reports)].usage
       /\ resp.finish = IF dones = {} THEN Empty ELSE seen[Max(dones)].finish

\* The function returns this, and an end, whatever is wrapped around it, is no
\* error and brings every tool call; any other error is passed on with all its
\* layers, so that its type can be told, and brings none (stream.go:116-131,
\* 171-175, 180-187; errors.go:26-95).
ReturnedResponse ==
    pc # "loop" =>
      /\ Summary(result.resp)
      /\ last.cause = "io.EOF" =>
           /\ result.err = Nil
           /\ result.toolCalls = [k \in 1 .. Len(order) |-> byIndex[order[k]]]
      /\ last.cause = "other" => result.err = last /\ result.toolCalls = <<>>

\* No event takes back what an earlier one brought: text, arguments and the
\* list only grow at their end, an ID, a name and a usage once known stay known,
\* and an ID or a name changes only by a Start (stream.go:82-94, 153-160).
NothingTakenBack ==
    [][/\ IsPrefix(out.text, out'.text)
       /\ IsPrefix(order, order')
       /\ out.usage # Nil => out'.usage # Nil
       /\ \A i \in DOMAIN byIndex :
            /\ i \in DOMAIN byIndex'
            /\ IsPrefix(byIndex[i].args, byIndex'[i].args)
            /\ \A f \in {"id", "name"} :
                 byIndex[i][f] # Empty /\ byIndex'[i][f] # byIndex[i][f] =>
                   byIndex'[i][f] # Empty /\ Last(seen').kind = "ToolCallStart"]_AnyVars

(***************************************************************************)
(* Disagreement with the documentation.                                    *)
(***************************************************************************)
\* stream.go:91-94: the first ToolCallStart of an index fixes its place.  (Calls
\* that never had a Start are listed too; they are left out here.)
OrderedByFirstStart ==
    \A j, k \in 1 .. Len(order) :
      LET starts(i) == EventsOf({"ToolCallStart"}, i) IN
        j < k /\ starts(order[j]) # {} /\ starts(order[k]) # {}
          => Min(starts(order[j])) < Min(starts(order[k]))
=============================================================================
