-------------------------- MODULE MCToolCallStream --------------------------
(***************************************************************************)
(* Responses with text and up to three parallel tool calls: several pieces *)
(* of arguments each, calls without arguments, calls with no ID, two calls *)
(* of one tool.                                                            *)
(***************************************************************************)
EXTENDS ToolCallStream

CONSTANTS c1, c2, id1, id2, id3, n1, n2, u1, stop

TC(id, name, args) == [id |-> id, name |-> name, args |-> args]
Plan(text, calls) == [text |-> text, calls |-> calls, usage |-> u1, finish |-> stop]

MCPlans ==
    { Plan(<<c1, c2>>, <<>>),
      Plan(<<c1, c2>>, <<TC(id1, n1, <<c1, c2, c1>>), TC(id2, n2, <<c2, c1, c2>>),
                         TC(id3, n1, <<c1, c1>>)>>),
      Plan(<<c2>>, <<TC(id1, n1, <<>>), TC(id2, n1, <<c1, c2>>), TC(Empty, n2, <<c2>>)>>),
      Plan(<<>>, <<TC(Empty, n1, <<c1, c1>>), TC(Empty, n1, <<c2>>)>>) }

\* An end, bare, wrapped, and as a broken connection; a cancelled context, and a
\* rate limit.
MCErrors == { EOF, [EOF EXCEPT !.layers = <<"%w">>], [EOF EXCEPT !.layers = <<"TransientError">>],
              [layers |-> <<>>, cause |-> "other"],
              [layers |-> <<"%w", "RateLimitError">>, cause |-> "other"] }
=============================================================================
