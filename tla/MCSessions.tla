----------------------------- MODULE MCSessions -----------------------------
(* Sessions for TLC: the addresses, the rows and the handlers are           *)
(* interchangeable, so states that differ in their names only are one.      *)
EXTENDS SessionsRefinement, TLC

Symmetry ==
  Permutations(Mac) \cup Permutations(Ip) \cup Permutations(Token)
    \cup Permutations(Session) \cup Permutations(Request)
=============================================================================
