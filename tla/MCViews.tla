------------------------------ MODULE MCViews ------------------------------
(* Views for TLC; see MCSessions.                                          *)
EXTENDS Views, TLC

Symmetry ==
  Permutations(Mac) \cup Permutations(Ip) \cup Permutations(Token)
    \cup Permutations(Session) \cup Permutations(Request)
=============================================================================
