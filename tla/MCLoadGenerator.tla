-------------------------- MODULE MCLoadGenerator --------------------------
(***************************************************************************)
(* A small instance of LoadGenerator for TLC.                              *)
(***************************************************************************)
EXTENDS LoadGenerator

\* Flags that make sense and flags that parseFlags corrects.
TotalFlags == {-1, 4}
WorkerFlags == {0, 2}

=============================================================================
