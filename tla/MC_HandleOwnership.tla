-------------------------- MODULE MC_HandleOwnership --------------------------
(* Three wrappers, so that a moved-from, a live and a destroyed one exist  *)
(* together; two handle values for three objects, so that values are       *)
(* reused.  Wrappers, values and objects are interchangeable.              *)
EXTENDS HandleOwnership, TLC

Symmetry == Permutations(Wrapper) \cup Permutations(Raw) \cup Permutations(Object)
=============================================================================
