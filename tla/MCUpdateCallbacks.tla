--------------------------- MODULE MCUpdateCallbacks ---------------------------
(* UpdateCallbacks on a small instance: an array of a few slots.              *)
EXTENDS UpdateCallbacks, TLC
=============================================================================
