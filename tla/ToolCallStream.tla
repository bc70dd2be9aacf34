--------------------------- MODULE ToolCallStream ---------------------------
(***************************************************************************)
(* AccumulateStream reading from a provider adapter that streams one       *)
(* response the way llm/stream.go:23-75 lays down.  Adapters are in other  *)
(* repositories; this is the contract they are held to here.               *)
(*                                                                         *)
(* The adapter starts the tool calls in the order of the response and      *)
(* gives each an index; ID, name and perhaps a first piece of arguments    *)
(* come with the Start, the other pieces in order with ArgsDeltas, and the *)
(* pieces of several calls, their Ends, text and thinking mix freely.      *)
(* Done carries a finish reason, "unknown" if the provider gave none; then *)
(* the reader returns EOF.  The connection may break, or end cleanly too   *)
(* early, at any time.                                                     *)
(***************************************************************************)
EXTENDS AccumulateStream

CONSTANTS
    Plans,     \* the responses the adapter streams
    Thinking   \* bound: thinking events

ASSUME PlansAssumption ==
    \A p \in Plans : /\ p.text \in Seq(Chunk) /\ p.calls \in Seq(ToolCall)
                     /\ p.usage \in Usage /\ p.finish \in FinishReason
                     /\ 0 .. Len(p.calls) - 1 \subseteq Index

VARIABLES
    plan,    \* the response being streamed
    told,    \* pieces of text sent
    opened,  \* tool calls started
    sent,    \* pieces of arguments sent, by index
    ended,   \* indexes whose End was sent
    thought, \* thinking events sent
    done     \* Done was sent

adapter == <<plan, told, opened, sent, ended, thought, done>>

InitStream ==
    /\ Init
    /\ plan \in Plans
    /\ told = 0
    /\ opened = 0
    /\ sent = [i \in Index |-> 0]
    /\ ended = {}
    /\ thought = 0
    /\ done = FALSE

Planned(i) == plan.calls[i + 1]
AllSent == /\ told = Len(plan.text)
           /\ opened = Len(plan.calls)
           /\ \A i \in 0 .. opened - 1 : sent[i] = Len(Planned(i).args)

SendText ==
    /\ ~done
    /\ told < Len(plan.text)
    /\ OnTextDelta([kind |-> "TextDelta", text |-> plan.text[told + 1]])
    /\ told' = told + 1
    /\ UNCHANGED <<plan, opened, sent, ended, thought, done>>

SendThinking ==
    /\ ~done
    /\ thought < Thinking
    /\ \E c \in Chunk : OnIgnored([kind |-> "ThinkingDelta", text |-> c])
    /\ thought' = thought + 1
    /\ UNCHANGED <<plan, told, opened, sent, ended, done>>

ToolEvent(kind, i, id, name, args) ==
    [kind |-> kind, toolCall |-> [index |-> i, id |-> id, name |-> name, args |-> args]]

SendStart ==
    /\ ~done
    /\ opened < Len(plan.calls)
    /\ LET tc == Planned(opened) IN
         \E n \in 0 .. 1 :
           /\ n <= Len(tc.args)
           /\ OnToolCallStart(ToolEvent("ToolCallStart", opened, tc.id, tc.name,
                                        IF n = 1 THEN tc.args[1] ELSE Empty))
           /\ sent' = [sent EXCEPT ![opened] = n]
    /\ opened' = opened + 1
    /\ UNCHANGED <<plan, told, ended, thought, done>>

\* Some adapters repeat the ID or the name with every chunk.
SendArgs(i) ==
    /\ ~done
    /\ i \in 0 .. opened - 1
    /\ i \notin ended
    /\ sent[i] < Len(Planned(i).args)
    /\ \E id \in {Empty, Planned(i).id} :
         OnToolCallArgsDelta(ToolEvent("ToolCallArgsDelta", i, id, Empty,
                                       Planned(i).args[sent[i] + 1]))
    /\ sent' = [sent EXCEPT ![i] = @ + 1]
    /\ UNCHANGED <<plan, told, opened, ended, thought, done>>

SendEnd(i) ==
    /\ ~done
    /\ i \in 0 .. opened - 1
    /\ i \notin ended
    /\ sent[i] = Len(Planned(i).args)
    /\ OnIgnored(ToolEvent("ToolCallEnd", i, Empty, Empty, Empty))
    /\ ended' = ended \union {i}
    /\ UNCHANGED <<plan, told, opened, sent, thought, done>>

SendDone ==
    /\ ~done
    /\ AllSent
    /\ OnDone([kind |-> "Done", usage |-> plan.usage, finish |-> plan.finish])
    /\ done' = TRUE
    /\ UNCHANGED <<plan, told, opened, sent, ended, thought>>

EndOfStream == done /\ OnEOF(EOF) /\ UNCHANGED adapter

\* The provider goes away early.  Some adapters return io.EOF for it, others the
\* error of the connection, which as a TransientError may have io.EOF in it.
Cut == /\ ~done
       /\ \E err \in Errors : OnEOF(err)
       /\ UNCHANGED adapter
Break == (\E err \in Errors : OnError(err)) /\ UNCHANGED adapter

Send == \/ SendText \/ SendThinking \/ SendStart \/ SendDone
        \/ \E i \in Index : SendArgs(i) \/ SendEnd(i)

NextStream == \/ Send \/ EndOfStream \/ Cut \/ Break
              \/ Close /\ UNCHANGED adapter

StreamVars == <<vars, adapter>>
SpecStream == InitStream /\ [][NextStream]_StreamVars

\* The adapter goes on until the stream has ended, and the consumer's loop runs.
FairStream == SpecStream /\ WF_StreamVars(NextStream)
-----------------------------------------------------------------------------
\* Streaming a response and accumulating it gives the response back, whatever
\* the granularity and the interleaving (stream.go:77-94).
RoundTrip ==
    pc # "loop" /\ done /\ result.err = Nil =>
      /\ result.resp = [text |-> plan.text, usage |-> plan.usage, finish |-> plan.finish]
      /\ result.toolCalls = plan.calls

\* A stream that ends before everything was sent gives no error, also if the
\* connection broke with an io.EOF in its TransientError; the empty finish reason
\* is what tells a caller that tool calls may be missing or have half their
\* arguments (stream.go:123-127, 175, 186; errors.go:81-95).
TruncationVisible ==
    pc # "loop" /\ result.err = Nil => (result.resp.finish = Empty <=> ~done)

\* What has been accumulated never has anything the response does not have: each
\* call started so far has its own ID and name and the first of its own
\* arguments, and nothing else is listed (stream.go:134-163).
DeliveredSoFar ==
    /\ out.text = SubSeq(plan.text, 1, told)
    /\ order = [k \in 1 .. opened |-> k - 1]
    /\ \A i \in 0 .. opened - 1 :
         byIndex[i] = [Planned(i) EXCEPT !.args = SubSeq(@, 1, sent[i])]

\* The consumer gets its response, and has closed the reader by then.
Returns == <>(pc = "returned" /\ closes = 1)
=============================================================================
