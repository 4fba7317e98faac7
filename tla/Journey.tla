------------------------------- MODULE Journey -------------------------------
(***************************************************************************)
(* From a vehicle to its score.  One vehicle drives its trip, held up here *)
(* and there; an agency publishes what it predicts, in one of the styles   *)
(* feeds have, with the faults they have; and polls of the feed go through *)
(* the measurement of delay.rs, the history of history.rs, record_board of *)
(* scheduler.rs and the factors of score.rs.                               *)
(*                                                                         *)
(* The vehicle is what the code cannot see and its documentation speaks    *)
(* of: the properties compare what the code shows with where the vehicle   *)
(* is and how late it runs.  A poll is one step here; its interleaving     *)
(* with other tasks, failed polls and the end of a record are Scheduler's. *)
(***************************************************************************)
EXTENDS Measurement, TripTrack, Score

CONSTANTS
  Trip,        \* the trip's id
  Scenarios,   \* pairs [rows, style]: its schedule, and the feed that describes it
  CORRUPTION,  \* how far off a corrupt prediction is
  MaxTime, MaxLate

\* fields: a delay for the trip, one for every stop, one for every stop and no
\* times, or times alone.  kept: stops stay in the feed when they are passed.
\* numbered: stops carry their sequence, else their id.  dated: start_date is
\* given.  corrupt: a stop beyond the next may be flung hours out.  fresh: no
\* poll sees a feed that was not just published.  repeated: an earlier update of the
\* trip may be published again beside the latest.  placed: the vehicle is on the map.
Style == [fields : {"trip", "stop", "bare", "times"}, kept : BOOLEAN, numbered : BOOLEAN,
          dated : BOOLEAN, corrupt : BOOLEAN, fresh : BOOLEAN, repeated : BOOLEAN,
          placed : BOOLEAN]

\* A trip's stop_times: one stop after the other, each later than the last.
IsTimetable(r) ==
  /\ Len(r) \in Nat /\ DOMAIN r = 1 .. Len(r) /\ r # Absent
  /\ \A i \in DOMAIN r : r[i].seq \in StopSequence /\ r[i].id # Absent /\ r[i].time \in Nat \ {0}
  /\ \A i, j \in DOMAIN r : i < j => r[i].seq < r[j].seq /\ r[i].time < r[j].time

ASSUME JourneyAssumption ==
  /\ \A s \in Scenarios : IsTimetable(s.rows) /\ s.style \in Style
  /\ Absent \notin [{Trip} -> {s.rows : s \in Scenarios}]
  /\ CORRUPTION \in Nat
  /\ CORRUPTION > CREDIBLE_BIRTH_DELAY + MaxLate
  /\ CORRUPTION > ABSENCE_RESET + JUMP_SLACK
  /\ MaxTime \in Nat /\ MaxLate \in Nat

VARIABLES
  now,
  rows,     \* the trip's stop_times
  reached,  \* how many of its stops the vehicle has reached
  at,       \* when, stop by stop
  late,     \* how late it runs
  worst,    \* history variable: how late it has run so far
  style,    \* what the agency publishes, see Style
  feed,     \* the trip updates it has published last
  made,     \* when that was
  polled,   \* whether the feed has been polled at this time
  loaded,   \* whether the agency's schedule is
  tracks,   \* TripHistory: the feed's tracks
  card      \* the trip's record in the archive, or Absent

vehicle == <<reached, at, late, worst>>
agency == <<rows, style, feed, made>>
memory == <<loaded, tracks, card>>
vars == <<now, vehicle, agency, polled, memory>>

Card == [peak : Int, delay : Int, sequence : Nat \cup {Absent}, last_seen : Nat,
         span : [duration : Nat \cup {Absent}, remaining : Nat \cup {Absent}] \cup {Absent},
         tracked : Nat, birth : Int, located : BOOLEAN]

Last == Len(rows)

Init ==
  /\ now = 0
  /\ \E s \in Scenarios : rows = s.rows /\ style = s.style
  /\ reached = 0 /\ at = <<>> /\ late = 0 /\ worst = 0
  /\ feed = <<>> /\ made = 0
  /\ polled = FALSE
  /\ loaded = FALSE
  /\ tracks = [t \in {} |-> {}]
  /\ card = Absent

-----------------------------------------------------------------------------
(* The vehicle and its agency.                                             *)

\* A unit of time passes; the vehicle keeps its lateness, is held and runs later
\* by as much, or makes up time.  Not before its origin, and at its destination
\* it stands.  Bounded by MaxTime and MaxLate.
Drive(change) ==
  LET next == rows[reached + 1].time + late + change
  IN /\ now < MaxTime
     /\ late + change \in 0 .. MaxLate
     /\ reached = Last => change = 0
     /\ reached < Last => next > now
     /\ reached = 0 => change >= 0
     /\ now' = now + 1
     /\ late' = late + change
     /\ worst' = Furthest(worst, late')
     /\ IF reached < Last /\ next = now + 1
          THEN reached' = reached + 1 /\ at' = Append(at, now + 1)
          ELSE UNCHANGED <<reached, at>>
     /\ polled' = FALSE
     /\ UNCHANGED <<agency, memory>>

\* When stop i was or will be reached.
Predicted(i) == IF i <= reached THEN at[i] ELSE rows[i].time + late

\* One stop of the feed, `off` by so much.
StopTimeUpdate(i, off) ==
  [seq       |-> IF style.numbered THEN rows[i].seq ELSE Absent,
   id        |-> IF style.numbered THEN Absent ELSE rows[i].id,
   arrival   |-> [time  |-> IF style.fields = "bare" THEN Absent ELSE Predicted(i) + off,
                  delay |-> IF style.fields \in {"stop", "bare"}
                              THEN Predicted(i) + off - rows[i].time ELSE Absent],
   departure |-> [time |-> Absent, delay |-> Absent],
   scheduled |-> TRUE]

\* The trip's update, one stop of it corrupt, or none for 0.
TripUpdate(wrong) ==
  LET first == IF style.kept THEN 1 ELSE reached + 1
  IN [trip       |-> Trip,
      delay      |-> IF style.fields = "trip" THEN late ELSE Absent,
      start_date |-> IF style.dated THEN 0 ELSE Absent,
      stops      |-> [k \in 1 .. Last - first + 1 |->
                        LET i == first + k - 1
                        IN StopTimeUpdate(i, IF i = wrong THEN CORRUPTION ELSE 0)]]

\* In a unit of time the feed is published before it is polled, or not at all.
\* Once the vehicle has arrived, the trip may leave it.
Publish ==
  /\ made < now /\ ~polled
  /\ made' = now
  /\ \/ \E wrong \in {0} \cup (IF style.corrupt THEN reached + 2 .. Last ELSE {}) :
          feed' = <<TripUpdate(wrong)>>
     \/ style.repeated /\ feed # <<>> /\ feed' = <<TripUpdate(0), feed[1]>>
     \/ reached = Last /\ feed' = <<>>
  /\ UNCHANGED <<now, vehicle, rows, style, polled, memory>>

-----------------------------------------------------------------------------
(* A poll: fetch_delayed_trips, vet, record_board.                         *)

Schedules == IF loaded THEN [t \in {Trip} |-> rows] ELSE Absent

Delays == DelayedTrips(feed, Schedules, now)

TripObservation(m) ==
  [delay     |-> m.delay, sequence |-> IF Known(m.sequence) THEN m.sequence ELSE NoSequence]

Observations(delays) ==
  [t \in {m.trip : m \in delays} |-> TripObservation(CHOOSE m \in delays : m.trip = t)]

LateTrips(delays) == {m.trip : m \in {n \in delays : IsLate(n)}}

\* fetch_delayed_trips: nothing is late, nothing is loaded, and times are all
\* there is.
NeedsSchedule(delays) == ~loaded /\ LateTrips(delays) = {} /\ NeedsStaticSchedule(feed)

\* A wrong body: the record has the delay of its last sighting as its peak.
UpsertLatest(m, track, schedule) ==
  LET known == Known(card) IN
  [peak      |-> m.delay,
   delay     |-> m.delay,
   sequence  |-> m.sequence,
   last_seen |-> now,
   span      |-> IF known /\ Known(card.span) THEN card.span
                ELSE IF schedule THEN TripSpan(rows, m.sequence) ELSE Absent,
   tracked   |-> track.last_seen - track.born_at,
   birth     |-> track.birth_delay,
   located   |-> style.placed \/ (known /\ card.located)]

\* record_board, once more after the schedule is loaded and the positions are
\* known: a span is looked up once in the life of a record.
Upsert(m, track, schedule) ==
  LET known == Known(card) IN
  [peak      |-> IF known THEN Furthest(card.peak, m.delay) ELSE m.delay,
   delay     |-> m.delay,
   sequence  |-> m.sequence,
   last_seen |-> now,
   span      |-> IF known /\ Known(card.span) THEN card.span
                ELSE IF schedule THEN TripSpan(rows, m.sequence) ELSE Absent,
   tracked   |-> track.last_seen - track.born_at,
   birth     |-> track.birth_delay,
   located   |-> style.placed \/ (known /\ card.located)]

\* A feed that asks for its schedule, or has a trip on the board, gets it if it
\* can be loaded.
Poll ==
  LET delays   == Delays
      known    == Fold(tracks, Observations(delays), now)
      credited == Credited(known, LateTrips(delays))
  IN /\ ~polled /\ feed # <<>>
     /\ style.fresh => made = now
     /\ polled' = TRUE
     /\ tracks' = known
     /\ loaded' \in {loaded, loaded \/ NeedsSchedule(delays) \/ credited # {}}
     /\ card' = IF credited # {} THEN Upsert(CHOOSE m \in delays : TRUE, known[Trip], loaded')
                ELSE IF Refused(known, LateTrips(delays)) # {} THEN Absent
                ELSE card
     /\ UNCHANGED <<now, vehicle, agency>>

Next == Drive(-1) \/ Drive(0) \/ Drive(1) \/ Publish \/ Poll

Spec == Init /\ [][Next]_vars

-----------------------------------------------------------------------------
(* Properties.                                                             *)

TypeOK ==
  /\ reached \in 0 .. Last /\ Len(at) = reached /\ late \in 0 .. worst /\ worst \in 0 .. MaxLate
  /\ style \in Style
  /\ made \in 0 .. now
  /\ {polled, loaded} \subseteq BOOLEAN
  /\ DOMAIN tracks \subseteq {Trip} /\ \A t \in DOMAIN tracks : tracks[t] \in Track
  /\ card \in Card \cup {Absent}

\* history.rs: "only credit lateness we actually watched accumulate".  A trip is
\* never ranked on a delay its vehicle has not had, through corrupt predictions,
\* a feed that stops being published, a day that ends under an undated trip, and
\* polls at any time.
NeverLaterThanTheVehicle == Known(card) => card.peak <= worst

LongestSegment ==
  LET segments == {rows[i + 1].time - rows[i].time : i \in 1 .. Last - 1}
  IN CHOOSE s \in segments : \A r \in segments : r <= s

\* history.rs: "A trip's delay can grow no faster than the clock".  What is
\* measured of a vehicle met in time, in a feed without faults, never grows
\* faster either, so its trip stays credible: as long as the feed drops the stops
\* that are passed, or the vehicle takes no longer than JUMP_SLACK between two.
HonestIsBelieved ==
  (/\ style.fresh /\ ~style.corrupt /\ ~style.repeated
   /\ ~style.kept \/ LongestSegment <= JUMP_SLACK)
  => \A t \in DOMAIN tracks :
       tracks[t].birth_delay <= CREDIBLE_BIRTH_DELAY => tracks[t].credible

\* delay.rs: "A vehicle parked at one of the trip's terminal stops isn't a delayed
\* bus, whatever the feed says its delay is".  Once the schedule is known, a
\* vehicle that has not left its origin or has arrived is not measured; except by
\* a delay for the whole trip in a feed that predicts no stop of it near now.
EndpointsAreSilent ==
  (/\ loaded /\ made = now /\ reached \in {0, Last}
   /\ Len(feed) = 1 /\ Known(CurrentStop(feed[1], now)))
  => Delays = {}

LiveInputs(c) ==
  LET OrUnknown(x) == IF Known(x) THEN x ELSE Unknown
  IN [delay     |-> c.peak,
      duration  |-> IF Known(c.span) THEN OrUnknown(c.span.duration) ELSE Unknown,
      remaining |-> IF Known(c.span) THEN OrUnknown(c.span.remaining) ELSE Unknown,
      tracked   |-> c.tracked,
      birth     |-> c.birth,
      located   |-> c.located]

\* What a score makes of a record apart from the stops that are still ahead.
ScoreWithoutReach(c) == LiveScore([LiveInputs(c) EXCEPT !.remaining = Unknown])

\* score.rs: the peak is "the worst it ever got while we could vouch for it", and
\* a factor whose input is unknown is "neutral, never a penalty".  While a trip is
\* watched, nothing but its coming closer to its end, which is reach's to tell,
\* lowers its score: not that its delay is revised down, not that its schedule is
\* learnt, not that its vehicle drops off the map.
ScoreNeverFalls ==
  [][ (/\ Known(card) /\ Known(card') /\ Trip \in DOMAIN tracks'
       /\ card.last_seen >= tracks'[Trip].born_at)
      => ScoreWithoutReach(card') >= ScoreWithoutReach(card) ]_vars

\* score.rs: "nothing here can promote a 4-minute trip over a 90-minute one".  All
\* factors together are between 0.54 and 2.7.
OfItsDelay(i) ==
  /\ 100 * 100 * 60 * 9 * Base(i) <= LiveScore(i)
  /\ LiveScore(i) <= 180 * 150 * 100 * 10 * Base(i)

ScoreIsOfItsDelay == Known(card) => OfItsDelay(LiveInputs(card))
=============================================================================
