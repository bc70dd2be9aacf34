-------------------------- MODULE AccumulateStream --------------------------
(***************************************************************************)
(* llm/stream.go: AccumulateStream drains a StreamReader and merges its    *)
(* events into one Response.  Each action is a call of Next that returned  *)
(* the given event or error, and what the loop does with it; the modules   *)
(* that extend this one say what the reader returns when.                  *)
(*                                                                         *)
(* Text, arguments and identifiers are opaque; "" is Empty, nil is Nil.    *)
(* The accumulator's variables are local to one goroutine, so a Next and   *)
(* the handling of what it returned are one step.                          *)
(***************************************************************************)
EXTENDS Integers, Sequences

CONSTANTS
    Index,         \* ToolCallDelta.Index values
    Chunk,         \* non-empty pieces of text or of arguments
    ID,            \* non-empty tool call IDs
    Name,          \* non-empty tool names
    Usage,         \* usage reports
    FinishReason,  \* non-empty finish reasons
    Errors,        \* the errors readers return
    Empty,         \* ""
    Nil            \* nil pointer

Delta == [index : Index, id : ID \union {Empty}, name : Name \union {Empty},
          args : Chunk \union {Empty}]

Event ==
    [kind : {"TextDelta", "ThinkingDelta"}, text : Chunk]
      \union [kind : {"ToolCallStart", "ToolCallArgsDelta", "ToolCallEnd"},
              toolCall : Delta \union {Nil}]
      \union [kind : {"Done"}, usage : Usage \union {Nil},
              finish : FinishReason \union {Empty}]

\* An error is a cause, io.EOF or one that has nothing to do with it (a cancelled
\* context, a refused key), and what was wrapped around it: context with %w and
\* the error types of errors.go, whose Unwrap keeps the cause within reach.
Layer == {"%w", "AuthError", "RateLimitError", "InvalidRequestError", "TransientError"}
Error == [layers : Seq(Layer), cause : {"io.EOF", "other"}]
EOF == [layers |-> <<>>, cause |-> "io.EOF"]

ASSUME EmptyAssumption ==
    /\ Empty \notin ID \union Name \union Chunk \union FinishReason
    /\ Nil \notin Usage \union Delta \union Error
    /\ Errors \subseteq Error

ToolCall == [id : ID \union {Empty}, name : Name \union {Empty}, args : Seq(Chunk)]

VARIABLES
    pc,       \* "loop", "closing" (the deferred Close is pending), "returned"
    out,      \* the Response under construction, without its ToolCalls
    byIndex,  \* the calls under construction
    order,    \* the order in which they will be listed
    result,   \* what the function returns
    closes    \* how often it called sr.Close

vars == <<pc, out, byIndex, order, result, closes>>

NoResponse == [text |-> <<>>, usage |-> Nil, finish |-> Empty]
NoResult == [resp |-> NoResponse, toolCalls |-> <<>>, err |-> Nil]

\* The entry of every listed index exists, what is returned is a response and a
\* list of whole tool calls, nothing is returned while the loop runs, and the
\* reader has been closed, and once, exactly when the function has returned,
\* however it left the loop (stream.go:101-131).
TypeOK ==
    /\ pc \in {"loop", "closing", "returned"}
    /\ {out, result.resp} \subseteq [text : Seq(Chunk), usage : Usage \union {Nil},
                                     finish : FinishReason \union {Empty}]
    /\ DOMAIN byIndex \subseteq Index
    /\ \A i \in DOMAIN byIndex : byIndex[i] \in ToolCall
    /\ order \in Seq(Index)
    /\ \A k \in 1 .. Len(order) : order[k] \in DOMAIN byIndex
    /\ result.err \in Error \union {Nil}
    /\ result.toolCalls \in Seq(ToolCall)
    /\ pc = "loop" => result = NoResult
    /\ closes = IF pc = "returned" THEN 1 ELSE 0

Init ==
    /\ pc = "loop"
    /\ out = NoResponse
    /\ byIndex = [i \in {} |-> Nil]
    /\ order = <<>>
    /\ result = NoResult
    /\ closes = 0

-----------------------------------------------------------------------------
\* Next returned no error: the loop goes on.
Received == pc = "loop" /\ UNCHANGED <<pc, result, closes>>

OnTextDelta(ev) ==
    /\ ev.kind = "TextDelta"
    /\ Received
    /\ out' = [out EXCEPT !.text = Append(@, ev.text)]
    /\ UNCHANGED <<byIndex, order>>

\* ensure: the entry of an index, a blank one at the end of the list if there
\* is none yet.
NewCall == [id |-> Empty, name |-> Empty, args |-> <<>>]
Ensured(i) == IF i \in DOMAIN byIndex THEN byIndex[i] ELSE NewCall

\* Mutant of Ensure: an index moves to the end of the list with every event.
EnsureLatest(i, tc) ==
    /\ byIndex' = [j \in DOMAIN byIndex \union {i} |-> IF j = i THEN tc ELSE byIndex[j]]
    /\ order' = Append(SelectSeq(order, LAMBDA j : j # i), i)

\* Mutant of Ensure: an entry is listed again with every event.
EnsureAgain(i, tc) ==
    /\ byIndex' = [j \in DOMAIN byIndex \union {i} |-> IF j = i THEN tc ELSE byIndex[j]]
    /\ order' = Append(order, i)

Ensure(i, tc) ==
    /\ byIndex' = [j \in DOMAIN byIndex \union {i} |-> IF j = i THEN tc ELSE byIndex[j]]
    /\ order' = IF i \in DOMAIN byIndex THEN order ELSE Append(order, i)

Or(a, b) == IF a # Empty THEN a ELSE b
Piece(a) == IF a # Empty THEN <<a>> ELSE <<>>

\* A Start overwrites the ID and the name with those it carries ...
Started(tc, d) == [id   |-> Or(d.id, tc.id),
                   name |-> Or(d.name, tc.name),
                   args |-> tc.args \o Piece(d.args)]

\* Mutant of Extended: a chunk overwrites the ID and the name.
ExtendedOver(tc, d) == [id   |-> d.id, name |-> d.name,
                        args |-> tc.args \o Piece(d.args)]

\* ... and an ArgsDelta only fills in what is missing.
Extended(tc, d) == [id   |-> Or(tc.id, d.id),
                    name |-> Or(tc.name, d.name),
                    args |-> tc.args \o Piece(d.args)]

OnToolCallStart(ev) ==
    /\ ev.kind = "ToolCallStart"
    /\ ev.toolCall # Nil
    /\ Received
    /\ Ensure(ev.toolCall.index, Started(Ensured(ev.toolCall.index), ev.toolCall))
    /\ UNCHANGED out

\* Mutant of OnToolCallArgsDelta: chunks are joined by ID, and those without one
\* are lost.
OnArgsDeltaWithID(ev) ==
    /\ ev.kind = "ToolCallArgsDelta"
    /\ ev.toolCall # Nil
    /\ Received
    /\ IF ev.toolCall.id = Empty
         THEN UNCHANGED <<byIndex, order>>
         ELSE Ensure(ev.toolCall.index, Extended(Ensured(ev.toolCall.index), ev.toolCall))
    /\ UNCHANGED out

OnToolCallArgsDelta(ev) ==
    /\ ev.kind = "ToolCallArgsDelta"
    /\ ev.toolCall # Nil
    /\ Received
    /\ Ensure(ev.toolCall.index, Extended(Ensured(ev.toolCall.index), ev.toolCall))
    /\ UNCHANGED out

\* Events the accumulator drops: ends, thinking, and a nil ToolCall.
OnIgnored(ev) ==
    /\ \/ ev.kind \in {"ToolCallEnd", "ThinkingDelta"}
       \/ ev.kind \in {"ToolCallStart", "ToolCallArgsDelta"} /\ ev.toolCall = Nil
    /\ Received
    /\ UNCHANGED <<out, byIndex, order>>

\* A Done without usage keeps the usage of an earlier one, but not its reason.
OnDone(ev) ==
    /\ ev.kind = "Done"
    /\ Received
    /\ out' = [out EXCEPT !.usage = IF ev.usage # Nil THEN ev.usage ELSE @,
                          !.finish = ev.finish]
    /\ UNCHANGED <<byIndex, order>>

OnEvent(ev) == \/ OnTextDelta(ev) \/ OnToolCallStart(ev) \/ OnToolCallArgsDelta(ev)
               \/ OnIgnored(ev) \/ OnDone(ev)

\* Mutant of isEOF: a comparison with the bare sentinel.
isBareEOF(err) == err = EOF

\* errors.Is(err, io.EOF) looks through every layer.
isEOF(err) == err.cause = "io.EOF"

\* Mutant of OnEOF: an empty finish reason is filled in.
OnEOFFinishing(err) ==
    /\ pc = "loop"
    /\ isEOF(err)
    /\ result' = [resp |-> [out EXCEPT !.finish = IF @ = Empty THEN CHOOSE f \in FinishReason : TRUE
                                                               ELSE @],
                  err |-> Nil, toolCalls |-> [k \in 1 .. Len(order) |-> byIndex[order[k]]]]
    /\ pc' = "closing"
    /\ UNCHANGED <<out, byIndex, order, closes>>

\* Mutant of OnEOF: the reader is closed on the error path only.
OnEOFLeaving(err) ==
    /\ pc = "loop"
    /\ isEOF(err)
    /\ result' = [resp |-> out, err |-> Nil,
                  toolCalls |-> [k \in 1 .. Len(order) |-> byIndex[order[k]]]]
    /\ pc' = "returned"
    /\ UNCHANGED <<out, byIndex, order, closes>>

\* A clean end: the tool calls join the response and the error is nil.
OnEOF(err) ==
    /\ pc = "loop"
    /\ isEOF(err)
    /\ result' = [resp |-> out, err |-> Nil,
                  toolCalls |-> [k \in 1 .. Len(order) |-> byIndex[order[k]]]]
    /\ pc' = "closing"
    /\ UNCHANGED <<out, byIndex, order, closes>>

\* Any other error is returned as it is, with the response so far and no tool
\* calls.
OnError(err) ==
    /\ pc = "loop"
    /\ ~isEOF(err)
    /\ result' = [resp |-> out, err |-> err, toolCalls |-> <<>>]
    /\ pc' = "closing"
    /\ UNCHANGED <<out, byIndex, order, closes>>

\* The deferred sr.Close().
Close ==
    /\ pc = "closing"
    /\ closes' = closes + 1
    /\ pc' = "returned"
    /\ UNCHANGED <<out, byIndex, order, result>>
=============================================================================
