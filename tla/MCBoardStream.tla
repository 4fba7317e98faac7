---------------------------- MODULE MCBoardStream ----------------------------
(***************************************************************************)
(* BoardStream with two trips and two fields, on boards that make a trip   *)
(* enter, leave, return, change places, change one field, and lose one to  *)
(* null.                                                                   *)
(***************************************************************************)
EXTENDS BoardStream, TLC

CONSTANTS k1, k2, ended, place

E(k, e, p) == [key |-> k, row |-> (ended :> e) @@ (place :> p)]

MCBoards ==
  { <<>>,
    <<E(k1, NULL, 1)>>,
    <<E(k1, 1, 1), E(k2, NULL, NULL)>>,
    <<E(k2, NULL, 1), E(k1, 1, NULL)>> }
=============================================================================
