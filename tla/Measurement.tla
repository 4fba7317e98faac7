----------------------------- MODULE Measurement -----------------------------
(***************************************************************************)
(* How src/server/src/delay.rs reads a delay out of one trip update, with  *)
(* the schedule queries of src/server/src/gtfs.rs it rests on.  Pure       *)
(* operators, checked by Journey on the feeds of a vehicle that really     *)
(* drives.                                                                 *)
(*                                                                         *)
(* A trip update is a record [trip, delay, stops, start_date], its stops a *)
(* sequence of [seq, id, arrival, departure, scheduled] in the feed's      *)
(* order, an arrival or departure an event [time, delay].  A schedule is   *)
(* one trip's stop_times, a sequence of rows [seq, id, time] in file       *)
(* order.  Absent stands for every None and NULL; an event that is missing *)
(* has both fields Absent.  Local time is the time of the model: days      *)
(* begin at the multiples of DAY.                                          *)
(***************************************************************************)
EXTENDS Integers, Sequences, FiniteSets

CONSTANTS
  Absent,                 \* None
  STALE_PREDICTION_SECS,  \* a nearest stop further from now marks a ghost
  MAX_PLAUSIBLE_DELAY,    \* ceiling of a reported delay
  MAX_INFERRED_DELAY,     \* ceiling of a delay compared with the schedule
  DAY,                    \* the length of a day
  Zoned                   \* whether the schedule names the agency's timezone (Gtfs.tz)

ASSUME MeasurementAssumption ==
  /\ Absent \notin Int
  /\ {STALE_PREDICTION_SECS, MAX_INFERRED_DELAY} \subseteq Nat
  /\ MAX_PLAUSIBLE_DELAY \in Nat /\ MAX_INFERRED_DELAY <= MAX_PLAUSIBLE_DELAY
  /\ DAY \in Nat \ {0}
  /\ Zoned \in BOOLEAN

Known(x) == x # Absent
\* Two keys that are there and equal: None and NULL match nothing.
SameKey(a, b) == Known(a) /\ a = b
Distance(a, b) == IF a < b THEN b - a ELSE a - b

\* min_by_key: the first of the least.
FirstLeast(S, Key(_)) ==
  CHOOSE i \in S : \A j \in S : Key(i) < Key(j) \/ (Key(i) = Key(j) /\ i <= j)

-----------------------------------------------------------------------------
(* The feed's side.                                                        *)

\* event_time and stop_delay: the arrival before the departure.
EventTime(stop) == IF Known(stop.arrival.time) THEN stop.arrival.time ELSE stop.departure.time
StopDelay(stop) == IF Known(stop.arrival.delay) THEN stop.arrival.delay ELSE stop.departure.delay

\* Indices, here and below, into the update's stops.
ScheduledStops(u) == {i \in DOMAIN u.stops : u.stops[i].scheduled}
TimedStops(u) == {i \in ScheduledStops(u) : Known(EventTime(u.stops[i]))}

\* earliest_stop: a missing sequence is u32::MAX, later than any other.
EarliestStop(u) ==
  LET numbered == {i \in ScheduledStops(u) : Known(u.stops[i].seq)}
  IN IF numbered # {} THEN u.stops[FirstLeast(numbered, LAMBDA i : u.stops[i].seq)]
     ELSE IF ScheduledStops(u) # {} THEN u.stops[FirstLeast(ScheduledStops(u), LAMBDA i : i)]
     ELSE Absent

\* current_stop: the stop predicted nearest to now, none if even that is stale.
CurrentStop(u, now) ==
  LET Gap(i) == Distance(EventTime(u.stops[i]), now)
      nearest == FirstLeast(TimedStops(u), Gap)
  IN IF TimedStops(u) = {} THEN EarliestStop(u)
     ELSE IF Gap(nearest) <= STALE_PREDICTION_SECS THEN u.stops[nearest]
     ELSE Absent

\* needs_static_schedule: times, and no delay anywhere in the feed.
NeedsStaticSchedule(feed) ==
  LET Stops(k) == {feed[k].stops[i] : i \in DOMAIN feed[k].stops}
  IN /\ \A k \in DOMAIN feed :
          ~Known(feed[k].delay) /\ \A stop \in Stops(k) : ~Known(StopDelay(stop))
     /\ \E k \in DOMAIN feed : \E stop \in Stops(k) : Known(EventTime(stop))

-----------------------------------------------------------------------------
(* The schedule's side.                                                    *)

\* A wrong body: only the origin is an end of the trip.
AtOriginStop(rows, stop) ==
  /\ rows # <<>>
  /\ LET first == FirstLeast(DOMAIN rows, LAMBDA i : rows[i].seq)
     IN SameKey(rows[first].seq, stop.seq) \/ SameKey(rows[first].id, stop.id)

\* terminal_stops and at_terminal_stop: by sequence or by id.
AtTerminalStop(rows, stop) ==
  /\ rows # <<>>
  /\ LET first == FirstLeast(DOMAIN rows, LAMBDA i : rows[i].seq)
         last  == FirstLeast(DOMAIN rows, LAMBDA i : -rows[i].seq)
     IN \E i \in {first, last} :
          SameKey(rows[i].seq, stop.seq) \/ SameKey(rows[i].id, stop.id)

\* scheduled_arrival_secs: a row of the sequence, else one of the stop id.
ScheduledArrival(rows, stop) ==
  LET matches == {i \in DOMAIN rows : \/ SameKey(rows[i].seq, stop.seq)
                                      \/ SameKey(rows[i].id, stop.id)}
      Rank(i) == IF SameKey(rows[i].seq, stop.seq) THEN 0 ELSE 1
  IN IF matches = {} THEN Absent ELSE rows[FirstLeast(matches, Rank)].time

ServiceDate(u, now) == IF Known(u.start_date) THEN u.start_date ELSE now \div DAY

\* scheduled_comparison and local_time_to_unix: without a timezone there is none;
\* a schedule's time may exceed a day.
ScheduledComparison(u, stop, rows, now) ==
  LET predicted == EventTime(stop)
      scheduled == ScheduledArrival(rows, stop)
  IN IF Zoned /\ Known(predicted) /\ Known(scheduled)
       THEN predicted - (DAY * ServiceDate(u, now) + scheduled)
       ELSE Absent

\* A wrong body: the difference the wrong way round.
TripSpanReversed(rows, seq) ==
  LET times == {rows[i].time : i \in DOMAIN rows} \ {Absent}
  IN IF rows = <<>> THEN Absent
     ELSE [duration  |-> IF times = {} THEN Absent ELSE rows[1].time - rows[Len(rows)].time,
           remaining |-> Absent]

\* trip_span, as the score reads it; rows without a time do not count for the
\* duration.
StopsAhead(rows, seq) ==
  IF Known(seq) THEN Cardinality({i \in DOMAIN rows : rows[i].seq > seq}) ELSE Absent

TripSpan(rows, seq) ==
  LET times == {rows[i].time : i \in DOMAIN rows} \ {Absent}
  IN IF rows = <<>> THEN Absent
     ELSE [duration  |-> IF times = {} THEN Absent
                         ELSE (CHOOSE t \in times : \A s \in times : s <= t)
                            - (CHOOSE t \in times : \A s \in times : t <= s),
           remaining |-> StopsAhead(rows, seq)]

-----------------------------------------------------------------------------
(* The measurement.                                                        *)

Measured(delay, source) == [delay |-> delay, source |-> source]

\* trip_delay: the agency's figure for the trip, the one for the stop, or ours.
\* A schedule that is not loaded is Absent.
TripDelay(u, stop, rows, now) ==
  IF Known(u.delay) THEN Measured(u.delay, "trip-level")
  ELSE IF ~Known(stop) THEN Absent
  ELSE IF Known(StopDelay(stop)) THEN Measured(StopDelay(stop), "stop-level")
  ELSE IF Known(rows) /\ Known(ScheduledComparison(u, stop, rows, now))
    THEN Measured(ScheduledComparison(u, stop, rows, now), "vs-schedule")
  ELSE Absent

\* measure_delay: a vehicle at an end of its trip is not measured, nor is a trip
\* without an id.
MeasureDelay(u, rows, now) ==
  LET stop == CurrentStop(u, now)
      delay == TripDelay(u, stop, rows, now)
  IN IF \/ ~Known(u.trip) \/ ~Known(delay)
        \/ Known(stop) /\ Known(rows) /\ AtTerminalStop(rows, stop)
       THEN Absent
       ELSE [trip |-> u.trip, delay |-> delay.delay, source |-> delay.source,
             sequence |-> IF Known(stop) THEN stop.seq ELSE Absent]

\* is_late: more than nothing, up to the ceiling of its source.
IsLate(m) ==
  /\ m.delay > 0
  /\ m.delay <= IF m.source = "vs-schedule" THEN MAX_INFERRED_DELAY ELSE MAX_PLAUSIBLE_DELAY

\* delayed_trips: one measurement per trip id, the first of the largest.  `rows`
\* gives the schedule of every trip.
DelayedTrips(feed, rows, now) ==
  LET Rows(trip) == IF Known(rows) /\ Known(trip) THEN rows[trip] ELSE Absent
      all == {[k |-> k, m |-> MeasureDelay(feed[k], Rows(feed[k].trip), now)] : k \in DOMAIN feed}
      measured == {p \in all : Known(p.m)}
      Worse(p, q) == p.m.delay > q.m.delay \/ (p.m.delay = q.m.delay /\ p.k <= q.k)
  IN {p.m : p \in {p \in measured : \A q \in measured : p.m.trip = q.m.trip => Worse(p, q)}}
=============================================================================
