--------------------------- MODULE MCBraceTemplate ---------------------------
(***************************************************************************)
(* All sources of up to MaxLen characters out of a letter, a blank and the *)
(* two braces; Vars with no variable and with one whose value looks like a *)
(* placeholder.                                                            *)
(***************************************************************************)
EXTENDS BraceTemplate

CONSTANT MaxLen   \* bound: length of a source

MCChar == {"{", "}", "a", " "}
MCSources == UNION { [1 .. n -> MCChar] : n \in 0 .. MaxLen }
MCVars == { [n \in {} |-> Nil],
            [n \in {<<"a">>} |-> <<"{", "a", "}">>],
            [n \in {<<"a">>, <<"a", " ">>} |-> IF n = <<"a">> THEN <<" ">> ELSE <<"{", "a", "}">>] }
=============================================================================
