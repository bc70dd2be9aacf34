--------------------------- MODULE MCMemoryProfile ---------------------------
(***************************************************************************)
(* Two items and two maps, one value for each field; a source of the       *)
(* typed form and a pinned mark that is a string come from elsewhere.      *)
(***************************************************************************)
EXTENDS MemoryProfile, TLC

CONSTANTS saved, user

MCForeign == { <<"_source", [type |-> "Source", v |-> saved]>>,
               <<"_pinned", [type |-> "string", v |-> saved]>> }

Symmetry == Permutations(Holder) \union Permutations(Addr)
=============================================================================
