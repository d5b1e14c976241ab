---------------------------- MODULE MCCatalogue ----------------------------
(* Catalogue for TLC: codes, forms and handlers are interchangeable.       *)
EXTENDS Catalogue, TLC

Symmetry ==
  Permutations(Code) \cup Permutations(Handler)

\* A bound: while pages are turned, one batch at most is being inserted.  Two
\* batches insert no other rows under a walk than one after the other do.
OneBatchPerWalk ==
  walk # Resting =>
    \A g, h \in Handler :
      handler[g].pc = "insert" /\ handler[h].pc = "insert" => g = h
=============================================================================
