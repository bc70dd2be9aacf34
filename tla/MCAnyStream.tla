---------------------------- MODULE MCAnyStream -----------------------------
(***************************************************************************)
(* AccumulateStream with every reader of up to MaxEvents events that send  *)
(* text, thinking, and the pieces of two tool calls: Starts with and       *)
(* without an ID, a name or a first chunk, chunks with and without, nil    *)
(* tool calls, ends, and two kinds of Done.                                *)
(***************************************************************************)
EXTENDS AnyStream

CONSTANTS c1, c2, id1, id2, n1, n2, u1, u2, stop

Start(i, id, name, args) ==
    [kind |-> "ToolCallStart",
     toolCall |-> [index |-> i, id |-> id, name |-> name, args |-> args]]
ArgsDelta(i, id, name, args) ==
    [kind |-> "ToolCallArgsDelta",
     toolCall |-> [index |-> i, id |-> id, name |-> name, args |-> args]]
Text(c) == [kind |-> "TextDelta", text |-> c]
Done(u, f) == [kind |-> "Done", usage |-> u, finish |-> f]

ToolCallEvents ==
    { Start(0, id1, n1, Empty), Start(0, id2, Empty, c1), Start(1, id2, n2, Empty),
      ArgsDelta(0, Empty, Empty, c1), ArgsDelta(0, id2, n2, c2),
      ArgsDelta(1, Empty, Empty, c2), ArgsDelta(1, id1, Empty, Empty) }

MCEvents ==
    ToolCallEvents \union
    { Text(c1), Text(c2), Done(u1, stop), Done(Nil, Empty), Done(u2, Empty),
      [kind |-> "ToolCallStart", toolCall |-> Nil],
      [kind |-> "ToolCallArgsDelta", toolCall |-> Nil],
      [kind |-> "ThinkingDelta", text |-> c1],
      [kind |-> "ToolCallEnd", toolCall |-> [index |-> 0, id |-> Empty, name |-> Empty,
                                             args |-> Empty]] }

\* An end, bare, wrapped, and as a broken connection; a cancelled context, and a
\* rate limit.
MCErrors == { EOF, [EOF EXCEPT !.layers = <<"%w">>], [EOF EXCEPT !.layers = <<"TransientError">>],
              [layers |-> <<>>, cause |-> "other"],
              [layers |-> <<"%w", "RateLimitError">>, cause |-> "other"] }
=============================================================================
