--------------------------- MODULE MCFormTokens ---------------------------
(* FormTokens for TLC: clients and handlers are interchangeable.            *)
EXTENDS FormTokens, TLC

Symmetry == Permutations(Key) \cup Permutations(Request)
=============================================================================
