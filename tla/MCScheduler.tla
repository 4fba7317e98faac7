----------------------------- MODULE MCScheduler -----------------------------
(***************************************************************************)
(* Scheduler on small instances.  No stop sequence is published: direction *)
(* is checked in TripHistory.                                              *)
(***************************************************************************)
EXTENDS Scheduler, TLC

CONSTANT DelayValues

MCObservations == [delay : DelayValues, sequence : {NoSequence}]

MCSymmetry == Permutations(Sources) \cup Permutations(Trips)
=============================================================================
