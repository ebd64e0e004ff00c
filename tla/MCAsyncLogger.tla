--------------------------- MODULE MCAsyncLogger ---------------------------
(***************************************************************************)
(* Small instances of AsyncLogger for TLC.                                 *)
(***************************************************************************)
EXTENDS AsyncLogger, TLC

\* Entries are interchangeable but for the poisoned ones, workers altogether.
Symmetry ==
  Permutations(Poison) \union Permutations(Entry \ Poison) \union Permutations(Worker)

=============================================================================
