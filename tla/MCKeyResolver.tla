---------------------------- MODULE MCKeyResolver ----------------------------
(* KeyResolver for TLC: callers and keys are interchangeable.               *)
EXTENDS KeyResolver

Symmetry == Permutations(Callers) \cup Permutations(Keys)
==============================================================================
