----------------------------- MODULE MCSentinel -----------------------------
(* Model values for Sentinel; the Sentinels are interchangeable.           *)
EXTENDS Sentinel, TLC

CONSTANTS a, b, c, m, x

Symmetry == Permutations(Sentinels)
=============================================================================
