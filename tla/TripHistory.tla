----------------------------- MODULE TripHistory -----------------------------
(***************************************************************************)
(* TripHistory of src/server/src/history.rs as a state machine: feeds are  *)
(* polled at increasing times, each poll's observations are folded into    *)
(* the feed's tracks under the module's mutex (vet), and a retired feed's  *)
(* tracks are dropped (forget_source).                                     *)
(*                                                                         *)
(* `run` is a history variable the code does not have: every sighting of a *)
(* trip, in order, since the last gap longer than ABSENCE_RESET.  The      *)
(* documentation states its rules about that sequence; the code keeps six  *)
(* fields of it.                                                           *)
(***************************************************************************)
EXTENDS TripTrack, Sequences

CONSTANTS
  Sources,       \* agency indices
  Trips,         \* trip ids
  Observations,  \* the observations a feed may publish of a trip
  MaxTime        \* bound on the clock

ASSUME TripHistoryAssumption ==
  /\ Observations \subseteq Observation
  /\ MaxTime \in Nat

VARIABLES
  now,      \* the clock that unix_now reads
  tracks,   \* sources: feed -> trip -> track, absent trips unknown
  polled,   \* when each feed was last vetted
  credited, \* feed -> what its last vet let through: the caller's board
  run       \* history variable: feed -> trip -> sightings of the current run

vars == <<now, tracks, polled, credited, run>>

Sighting == [at : Int, delay : Int, sequence : StopSequence \cup {NoSequence}]

Empty == [t \in {} |-> {}]

Seen(o, at) == [at |-> at, delay |-> o.delay, sequence |-> o.sequence]

\* A gap longer than ABSENCE_RESET begins a new run.
Extend(r, o, at) ==
  IF r = <<>> \/ at - r[Len(r)].at > ABSENCE_RESET
    THEN <<Seen(o, at)>>
    ELSE Append(r, Seen(o, at))

Init ==
  /\ now = 0
  /\ tracks = [s \in Sources |-> Empty]
  /\ polled = [s \in Sources |-> -1]
  /\ credited = [s \in Sources |-> {}]
  /\ run = [s \in Sources |-> [t \in Trips |-> <<>>]]

-----------------------------------------------------------------------------
(* A wrong body: a retired feed whose board is left standing.              *)

ForgetKeepsBoard(s) ==
  /\ polled[s] < now
  /\ tracks' = [tracks EXCEPT ![s] = Empty]
  /\ polled' = [polled EXCEPT ![s] = now]
  /\ run' = [run EXCEPT ![s] = [t \in Trips |-> <<>>]]
  /\ UNCHANGED <<now, credited>>

-----------------------------------------------------------------------------

\* vet: fold the observations, then split the late trips.  run_feed sleeps at
\* least BASE_INTERVAL between polls, so a feed is vetted at most once per time.
Vet(s, obs, late) ==
  /\ polled[s] < now
  /\ tracks' = [tracks EXCEPT ![s] = Fold(@, obs, now)]
  /\ polled' = [polled EXCEPT ![s] = now]
  /\ credited' = [credited EXCEPT ![s] = Credited(tracks'[s], late)]
  /\ run' = [run EXCEPT ![s] =
               [t \in Trips |-> IF t \in DOMAIN obs
                                  THEN Extend(@[t], obs[t], now) ELSE @[t]]]
  /\ UNCHANGED now

\* forget_source, with the clearing of the board that precedes it in poll_once.
ForgetSource(s) ==
  /\ polled[s] < now
  /\ tracks' = [tracks EXCEPT ![s] = Empty]
  /\ polled' = [polled EXCEPT ![s] = now]
  /\ credited' = [credited EXCEPT ![s] = {}]
  /\ run' = [run EXCEPT ![s] = [t \in Trips |-> <<>>]]
  /\ UNCHANGED now

\* Bounded by MaxTime.
Tick ==
  /\ now < MaxTime
  /\ now' = now + 1
  /\ UNCHANGED <<tracks, polled, credited, run>>

\* A poll mentions some of the feed's trips; of those with a positive delay,
\* the ones under the plausibility ceilings of is_late are the late trips.
Poll(s) ==
  \E mentioned \in SUBSET Trips :
    \E obs \in [mentioned -> Observations] :
      \E late \in SUBSET {t \in mentioned : obs[t].delay > 0} : Vet(s, obs, late)

Next ==
  \/ \E s \in Sources : Poll(s)
  \/ \E s \in Sources : ForgetSource(s)
  \/ Tick

Spec == Init /\ [][Next]_vars

-----------------------------------------------------------------------------
(* The rules of the module's documentation, over a whole run.              *)

BirthRule(r) == r[1].delay <= CREDIBLE_BIRTH_DELAY

GrowthRule(r) ==
  \A j \in 2 .. Len(r) :
    /\ r[j].delay <= r[j - 1].delay + (r[j].at - r[j - 1].at) + JUMP_SLACK
    /\ r[j].delay <= r[1].delay + (r[j].at - r[1].at) + JUMP_SLACK

DirectionRule(r) ==
  \A i, j \in 1 .. Len(r) :
    (i < j /\ r[i].sequence # NoSequence /\ r[j].sequence # NoSequence)
      => r[j].sequence + SEQ_TOLERANCE >= r[i].sequence

Honest(r) == r # <<>> /\ BirthRule(r) /\ GrowthRule(r) /\ DirectionRule(r)

\* No stop sequence of the run is so large that adding the tolerance wraps.
NoWrap(r) == \A i \in 1 .. Len(r) : r[i].sequence + SEQ_TOLERANCE < U32

-----------------------------------------------------------------------------
(* Properties.                                                             *)

\* Every feed's tracks are a partial map from trip ids to tracks, and the
\* caller's board holds trips the feed's history knows.
TypeOK ==
  /\ now \in Nat
  /\ DOMAIN tracks = Sources
  /\ \A s \in Sources : /\ DOMAIN tracks[s] \subseteq Trips
                        /\ \A t \in DOMAIN tracks[s] : tracks[s][t] \in Track
  /\ polled \in [Sources -> Int]
  /\ credited \in [Sources -> SUBSET Trips]
  /\ \A s \in Sources : credited[s] \subseteq DOMAIN tracks[s]
  /\ run \in [Sources -> [Trips -> Seq(Sighting)]]

\* history.rs: "only credit lateness we actually watched accumulate".  Every
\* trip on a board has a run of sightings, with no gap longer than
\* ABSENCE_RESET, that obeys the birth, growth and direction rules from its
\* first sighting to its last: the six fields lose none of the evidence.
CreditIsWatched ==
  \A s \in Sources : \A t \in credited[s] : Honest(run[s][t])

\* The other direction: a trip whose whole run obeys the rules is never
\* falsified, so a genuinely late bus is not refused (away from the last
\* SEQ_TOLERANCE values of a u32, where the tolerance wraps).
HonestIsCredible ==
  \A s \in Sources : \A t \in DOMAIN tracks[s] :
    (Honest(run[s][t]) /\ NoWrap(run[s][t])) => tracks[s][t].credible
=============================================================================
