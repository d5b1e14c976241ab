--------------------------- MODULE MCRateLimiter ---------------------------
(* RateLimiter for TLC: addresses and calls are interchangeable.            *)
EXTENDS RateLimiter, TLC

Symmetry == Permutations(Ip) \cup Permutations(Call)
=============================================================================
