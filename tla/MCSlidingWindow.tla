-------------------------- MODULE MCSlidingWindow --------------------------
(***************************************************************************)
(* Small instances of SlidingWindow for TLC.                               *)
(***************************************************************************)
EXTENDS SlidingWindow, TLC

CONSTANTS g1, g2

\* One client whose row never changes: two calls in 2 ticks, one in 3.
TwoInTwo   == {[limit |-> 2, window |-> 2]}
OneInThree == {[limit |-> 1, window |-> 3]}

\* An administrator changes limit and window while calls are under way; the
\* windows are longer than the slack of the run.
Changing == {[limit |-> 1, window |-> 5], [limit |-> 2, window |-> 4]}

\* Clocks that agree with Redis's, that are a fixed tick apart, or that err
\* at will.
ExactClocks == [g \in Gateway |-> {0}]
TickApart   == [g \in Gateway |-> IF g = g1 THEN {0} ELSE {1}]
LooseClocks == [g \in Gateway |-> -MaxSkew .. MaxSkew]

\* Calls are interchangeable; so are instants, and gateways with equal clocks.
CallSymmetry == Permutations(Call)
FullSymmetry ==
  Permutations(Call) \union Permutations(SubTick) \union Permutations(Gateway)

=============================================================================
