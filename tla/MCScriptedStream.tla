-------------------------- MODULE MCScriptedStream --------------------------
(***************************************************************************)
(* Responses of TextResponse, of ToolCallResponse, with both, and one that *)
(* has neither text nor finish reason; two goroutines that meddle.         *)
(***************************************************************************)
EXTENDS ScriptedStream

CONSTANTS c1, n1, u1, stop, toolCalls

Calls == << [id |-> Empty, name |-> n1, args |-> <<c1>>] >>
Resp(text, calls, finish) ==
    [text |-> text, toolCalls |-> calls, usage |-> u1, finish |-> finish]

MCScripted == { Resp(c1, <<>>, stop), Resp(Empty, Calls, toolCalls),
                Resp(c1, Calls, toolCalls), Resp(Empty, <<>>, Empty) }
=============================================================================
