--------------------------- MODULE ScriptedStream ---------------------------
(***************************************************************************)
(* llm/scripted.go: scriptedStream, the reader ScriptedLLM.Stream returns, *)
(* read by AccumulateStream while other goroutines that hold the same      *)
(* reader call Next and Close.  Both hold the stream's mutex from their    *)
(* first to their last statement, so each is one step.                     *)
(***************************************************************************)
EXTENDS AccumulateStream, SequencesExt

CONSTANTS
    Scripted,   \* the scripted responses Stream may have been given
    Consumer,   \* the goroutine in AccumulateStream
    Other,      \* the other goroutines
    MaxOther    \* bound: calls by other goroutines

ASSUME ScriptedAssumption ==
    /\ Scripted \subseteq [text : Chunk \union {Empty}, toolCalls : Seq(ToolCall),
                           usage : Usage, finish : FinishReason \union {Empty}]
    /\ Consumer \notin Other
    /\ MaxOther \in Nat

VARIABLES
    r,          \* the response being streamed
    step,       \* 0: text next, 1: Done next, 2: nothing left
    closed,     \* Close was called
    meddled,    \* calls of other goroutines so far
    delivered   \* history: who got which event

stream == <<r, step, closed, meddled, delivered>>

\* newScriptedStream
InitScripted ==
    /\ Init
    /\ r \in Scripted
    /\ step = 0
    /\ closed = FALSE
    /\ meddled = 0
    /\ delivered = <<>>

TextEvent == [kind |-> "TextDelta", text |-> r.text]
DoneEvent == [kind |-> "Done", usage |-> r.usage, finish |-> r.finish]

\* Mutant of Emit: an open stream is not told from a closed one.
EmitClosed(g, ev) ==
    /\ \/ step = 0 /\ r.text # Empty /\ ev = TextEvent /\ step' = 1
       \/ step = 0 /\ r.text = Empty /\ ev = DoneEvent /\ step' = 2
       \/ step = 1 /\ ev = DoneEvent /\ step' = 2
    /\ delivered' = Append(delivered, [to |-> g, ev |-> ev])
    /\ UNCHANGED <<r, closed>>

\* Mutant of Emit: Done does not end the stream.
EmitAgain(g, ev) ==
    /\ ~closed
    /\ \/ step = 0 /\ r.text # Empty /\ ev = TextEvent /\ step' = 1
       \/ step = 0 /\ r.text = Empty /\ ev = DoneEvent /\ step' = 1
       \/ step = 1 /\ ev = DoneEvent /\ step' = 1
    /\ Len(delivered) < 3
    /\ delivered' = Append(delivered, [to |-> g, ev |-> ev])
    /\ UNCHANGED <<r, closed>>

\* Next of g returns ev: the text, if there is any, then Done.
Emit(g, ev) ==
    /\ ~closed
    /\ \/ step = 0 /\ r.text # Empty /\ ev = TextEvent /\ step' = 1
       \/ step = 0 /\ r.text = Empty /\ ev = DoneEvent /\ step' = 2
       \/ step = 1 /\ ev = DoneEvent /\ step' = 2
    /\ delivered' = Append(delivered, [to |-> g, ev |-> ev])
    /\ UNCHANGED <<r, closed>>

\* Next returns io.EOF.
Exhausted == closed \/ step = 2

\* Close always succeeds, also on a closed stream.
Shut == closed' = TRUE /\ UNCHANGED <<r, step, delivered>>

ConsumerNext == \/ \E ev \in {TextEvent, DoneEvent} : Emit(Consumer, ev) /\ OnEvent(ev)
                \/ Exhausted /\ OnEOF(EOF) /\ UNCHANGED <<r, step, closed, delivered>>

ConsumerStep == /\ ConsumerNext \/ (Close /\ Shut)
                /\ UNCHANGED meddled

OtherStep == /\ meddled < MaxOther
             /\ \E g \in Other :
                  \/ \E ev \in {TextEvent, DoneEvent} : Emit(g, ev)
                  \/ Exhausted /\ UNCHANGED <<r, step, closed, delivered>>
                  \/ Shut
             /\ meddled' = meddled + 1
             /\ UNCHANGED vars

NextScripted == ConsumerStep \/ OtherStep

ScriptedVars == <<vars, stream>>
SpecScripted == InitScripted /\ [][NextScripted]_ScriptedVars

\* The consumer's goroutine runs; a mutex held for one call is soon free.
FairScripted == SpecScripted /\ WF_ScriptedVars(ConsumerStep)
-----------------------------------------------------------------------------
Script == (IF r.text = Empty THEN <<>> ELSE <<TextEvent>>) \o <<DoneEvent>>

\* However many goroutines call Next, every event of the script goes to one of
\* them, once and in order (scripted.go:228-249).
DeliveredOnce == IsPrefix([k \in 1 .. Len(delivered) |-> delivered[k].ev], Script)

\* After Close no Next of anybody returns an event (scripted.go:231-233).
ClosedForGood == [][closed => closed' /\ delivered' = delivered]_ScriptedVars

Mine(ev) == \E k \in 1 .. Len(delivered) : delivered[k] = [to |-> Consumer, ev |-> ev]

\* The accumulator returns without error whatever the others do; what it
\* returns is the whole response if nobody meddled, and otherwise lacks exactly
\* the events it did not get: a lost Done shows as an empty finish reason
\* (stream.go:100-131, scripted.go:228-256).
ScriptedResult ==
    pc # "loop" =>
      /\ result.err = Nil
      /\ result.resp = [text   |-> IF Mine(TextEvent) THEN <<r.text>> ELSE <<>>,
                        usage  |-> IF Mine(DoneEvent) THEN r.usage ELSE Nil,
                        finish |-> IF Mine(DoneEvent) THEN r.finish ELSE Empty]
      /\ meddled = 0 => Mine(DoneEvent) /\ (r.text # Empty => Mine(TextEvent))

\* The accumulator returns and leaves the stream closed.
Drained == <>(pc = "returned" /\ closed)

(***************************************************************************)
(* Disagreement with the documentation.                                    *)
(***************************************************************************)
\* stream.go:77-80: AccumulateStream returns the equivalent of the response
\* that was streamed.  Here, of a response nobody else took events from.
EquivalentResponse ==
    pc = "returned" /\ meddled = 0 =>
      /\ result.resp.text = Piece(r.text)
      /\ result.toolCalls = r.toolCalls
=============================================================================
