---------------------------- MODULE MCRateLimiter ----------------------------
(***************************************************************************)
(* Small instances of RateLimiter for TLC.                                 *)
(***************************************************************************)
EXTENDS RateLimiter, TLC

CONSTANTS c1, c2, c3, m1, m2, m3, m4, m5

LimiterSymmetry == Permutations(Callers) \cup Permutations(Members)
=============================================================================
