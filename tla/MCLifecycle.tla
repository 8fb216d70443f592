----------------------------- MODULE MCLifecycle -----------------------------
(* Lifecycle on a small instance: the sets of careful applications and the    *)
(* symmetry of the structs.                                                   *)
EXTENDS Lifecycle, TLC

MCSymmetry == Permutations(Conns) \cup Permutations(Stmts)

FinalizingHelpers == HelperKinds \ {"executev", "enumerate"}
OnlyExecutev      == {"executev"}
NoRules           == {}
=============================================================================
