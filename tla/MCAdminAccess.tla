--------------------------- MODULE MCAdminAccess ---------------------------
(* AdminAccess for TLC: ids and requests are interchangeable.              *)
EXTENDS AdminAccess, TLC

Symmetry ==
  Permutations(Sid) \cup Permutations(Request)
=============================================================================
