--------------------------- MODULE MCLocalLimiter ---------------------------
(***************************************************************************)
(* Small instances of LocalLimiter for TLC.                                *)
(***************************************************************************)
EXTENDS LocalLimiter, TLC

\* An administrator changes the row while requests are under way.
TwoRows == {[limit |-> 1, window |-> 2], [limit |-> 2, window |-> 1]}

RequestSymmetry == Permutations(Request)

=============================================================================
