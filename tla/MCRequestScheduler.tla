------------------------- MODULE MCRequestScheduler -------------------------
(***************************************************************************)
(* Instances of RequestScheduler for TLC.                                  *)
(***************************************************************************)
EXTENDS RequestScheduler, TLC

CONSTANTS f1, f2, f3, b1, r1, r2

\* r1 is restrained by its own limit, r2 by the global one only.
OneNarrow == [r \in Repositories |-> IF r = r1 THEN 1 ELSE 2]
=============================================================================
