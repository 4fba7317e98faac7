---------------------------- MODULE MCTripHistory ----------------------------
(***************************************************************************)
(* TripHistory on one feed.  The delays straddle the birth limit (1), one  *)
(* step of growth with and without the slack, and the whole-life bound;    *)
(* the sequences hold a missing one, stops within the tolerance and        *)
(* further apart than it, and the last value of the (here 3-bit) stop      *)
(* sequence.                                                               *)
(***************************************************************************)
EXTENDS TripHistory

CONSTANTS DelayValues, SequenceValues

MCObservations == [delay : DelayValues, sequence : SequenceValues \cup {NoSequence}]
=============================================================================
