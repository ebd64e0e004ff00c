---------------------------- MODULE MCDashboard ----------------------------
(***************************************************************************)
(* A small instance of Dashboard for TLC: two clients, an allowed and a    *)
(* blocked request of the first and an allowed one of the second.          *)
(***************************************************************************)
EXTENDS Dashboard

CONSTANTS c1, c2, r2, r3

Owner(r) == IF r = r3 THEN c2 ELSE c1
Passed(r) == r # r2
MadeAt(r) == IF r = r3 THEN 2 ELSE IF r = r2 THEN 1 ELSE 0

=============================================================================
