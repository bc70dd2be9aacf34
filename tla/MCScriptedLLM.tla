--------------------------- MODULE MCScriptedLLM ----------------------------
(***************************************************************************)
(* Instances of ScriptedLLM for TLC: two goroutines, a script of two       *)
(* distinct responses that runs out, and room for models derived from a    *)
(* model that is itself derived.                                           *)
(***************************************************************************)
EXTENDS ScriptedLLM, TLC

CONSTANTS r1, r2, t1

Script == [opt |-> "WithResponses", arg |-> <<r1, r2>>]

MCOptionLists == {<<Script>>}

\* Options of every kind, WithResponses twice.
MCAllOptions ==
    {<<[opt |-> "WithProvider", arg |-> "openai"],
       [opt |-> "WithModel", arg |-> "gpt-4o"],
       [opt |-> "WithResponses", arg |-> <<r1>>],
       [opt |-> "WithCapabilities", arg |-> {"Tools"}],
       [opt |-> "WithResponses", arg |-> <<r2>>],
       [opt |-> "WithEmbedDimensions", arg |-> 2]>>}

MCTextLists == {<<t1, t1>>}

Symmetry == Permutations(Goroutine) \union Permutations(Model)
=============================================================================
