--------------------------- MODULE MCStatusStream ----------------------------
(***************************************************************************)
(* StatusStream with two sources and two fields; the error of a poll comes *)
(* and goes.  SteadyReports lists both sources from the first tick on,     *)
(* ShiftingReports loses one.                                              *)
(***************************************************************************)
EXTENDS StatusStream, TLC

CONSTANTS s1, s2, vehicles, last_error

E(k, v, e) == [key |-> k, row |-> (vehicles :> v) @@ (last_error :> e)]

SteadyReports ==
  { <<E(s1, 1, NULL), E(s2, 1, NULL)>>,
    <<E(s1, 1, 1), E(s2, 1, NULL)>>,
    <<E(s1, 2, NULL), E(s2, 1, 1)>> }

ShiftingReports ==
  { <<E(s1, 1, NULL), E(s2, 1, NULL)>>,
    <<E(s2, 1, NULL)>> }
=============================================================================
