------------------------------ MODULE TripTrack ------------------------------
(***************************************************************************)
(* What src/server/src/history.rs remembers about one trip, and the three  *)
(* rules (birth, growth, direction) by which one more observation keeps or *)
(* loses its credibility.  Pure operators, shared by TripHistory, where    *)
(* they are checked against the rules as the module's documentation states *)
(* them, and by Scheduler, which composes them with the poll loop.         *)
(***************************************************************************)
EXTENDS Integers

CONSTANTS
  CREDIBLE_BIRTH_DELAY,  \* a trip born later than this is never credited
  JUMP_SLACK,            \* headroom on the growth bound
  ABSENCE_RESET,         \* unmentioned for longer than this: forgotten
  SEQ_TOLERANCE,         \* stops a vehicle may appear to move backwards
  U32                    \* the number of values of a u32 stop sequence

ASSUME TripTrackAssumption ==
  /\ CREDIBLE_BIRTH_DELAY \in Nat
  /\ JUMP_SLACK \in Nat
  /\ ABSENCE_RESET \in Nat
  /\ SEQ_TOLERANCE \in Nat
  /\ U32 \in Nat \ {0}
  /\ SEQ_TOLERANCE < U32

\* None of Option<u32>: below every Some, as Rust orders it.
NoSequence == -1
StopSequence == 0 .. U32 - 1

Observation == [delay : Int, sequence : StopSequence \cup {NoSequence}]

Track == [born_at      : Int,
          birth_delay  : Int,
          last_seen    : Int,
          last_delay   : Int,
          max_sequence : StopSequence \cup {NoSequence},
          credible     : BOOLEAN]

Furthest(a, b) == IF a >= b THEN a ELSE b

-----------------------------------------------------------------------------
(* Wrong bodies: growth without a bound, growth without its slack, and a   *)
(* direction rule without its tolerance.                                   *)

Unbounded(track, o, at) == TRUE

WithoutSlack(track, o, at) == o.delay <= track.last_delay + (at - track.last_seen)

NeverBackward(track, o) ==
  (o.sequence # NoSequence /\ track.max_sequence # NoSequence)
    => o.sequence >= track.max_sequence

-----------------------------------------------------------------------------

\* TripTrack::born: rule 1, a trip first met already badly late is not vouched for.
Born(o, at) ==
  [born_at      |-> at,
   birth_delay  |-> o.delay,
   last_seen    |-> at,
   last_delay   |-> o.delay,
   max_sequence |-> o.sequence,
   credible     |-> o.delay <= CREDIBLE_BIRTH_DELAY]

\* Rule 2, since the previous poll and since birth.
WithinStep(track, o, at) ==
  o.delay <= track.last_delay + (at - track.last_seen) + JUMP_SLACK

WithinLife(track, o, at) ==
  o.delay <= track.birth_delay + (at - track.born_at) + JUMP_SLACK

\* Rule 3.  The addition is u32 arithmetic in a release build: it wraps.
MovingForward(track, o) ==
  (o.sequence # NoSequence /\ track.max_sequence # NoSequence)
    => (o.sequence + SEQ_TOLERANCE) % U32 >= track.max_sequence

\* TripTrack::observe: fold in one observation; a violation is sticky.
Observe(track, o, at) ==
  [track EXCEPT
     !.last_seen    = at,
     !.last_delay   = o.delay,
     !.max_sequence = Furthest(@, o.sequence),
     !.credible     = /\ @
                      /\ WithinStep(track, o, at)
                      /\ WithinLife(track, o, at)
                      /\ MovingForward(track, o)]

\* The retain at the head of TripHistory::vet.
Remembered(known, at) ==
  {t \in DOMAIN known : at - known[t].last_seen <= ABSENCE_RESET}

\* One feed's tracks after a poll's observations, a function from trips to
\* observations: delayed_trips keeps one measurement per trip id.
Fold(known, obs, at) ==
  [t \in Remembered(known, at) \cup DOMAIN obs |->
     IF t \notin DOMAIN obs THEN known[t]
     ELSE IF t \in Remembered(known, at) THEN Observe(known[t], obs[t], at)
     ELSE Born(obs[t], at)]

\* What vet's retain keeps of the late trips, and what it hands back as refused.
Credited(known, late) == {t \in late : t \in DOMAIN known /\ known[t].credible}
Refused(known, late) == late \ Credited(known, late)
=============================================================================
