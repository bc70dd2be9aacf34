-------------------------- MODULE MCPromptTemplate --------------------------
(***************************************************************************)
(* Templates with and without a system turn, few-shot turns (one of them a *)
(* system turn), ignored history, a fragment that cannot be executed, and  *)
(* specs New refuses; two callers with the variables and the histories to  *)
(* go with them.                                                           *)
(***************************************************************************)
EXTENDS PromptTemplate

CONSTANTS x, y, v1, v2, lit, said, k1

Frag(segs) == [ok |-> TRUE, segs |-> segs]
L == [kind |-> "lit", x |-> lit]
V(n) == [kind |-> "var", x |-> n]
Malformed == [ok |-> FALSE, segs |-> <<>>]
Shot(role, f) == [role |-> role, content |-> f]

A == [system |-> Frag(<<L, V(x)>>), user |-> Frag(<<V(y)>>),
      fewShot |-> <<Shot("user", Frag(<<L>>)), Shot("assistant", Frag(<<V(y), V(x)>>))>>,
      historySlot |-> "BeforeUser", engine |-> "brace", metadata |-> [k \in {k1} |-> v1]]

MCSpecs ==
    { A,
      [A EXCEPT !.system = Nil, !.fewShot = <<>>, !.metadata = Nil],
      [A EXCEPT !.system = Nil, !.fewShot = <<Shot("system", Frag(<<V(x)>>))>>,
                !.historySlot = "NoHistory"],
      [A EXCEPT !.engine = "go", !.fewShot = <<>>,
                !.user = Frag(<<V(y), [kind |-> "fails", x |-> Nil]>>)],
      [A EXCEPT !.user = Nil],
      [A EXCEPT !.fewShot = <<Shot("user", Malformed)>>],
      [A EXCEPT !.engine = "other"] }

MCVars == { [n \in {x, y} |-> IF n = x THEN v1 ELSE v2], [n \in {y} |-> v1] }

Msg(role, images) == [role |-> role, content |-> <<said>>, images |-> images]
MCHistories == { <<>>, <<Msg("system", TRUE), Msg("user", TRUE)>> }

=============================================================================
