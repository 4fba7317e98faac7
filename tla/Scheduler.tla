------------------------------ MODULE Scheduler ------------------------------
(***************************************************************************)
(* The poll loop and the archive of src/server/src/scheduler.rs: one task  *)
(* per feed (run_feed, poll_once) and the leaderboard ticker, interleaved  *)
(* at the places where they meet, the archive's mutex and the .await       *)
(* points.  The credit decision of a poll is TripTrack's.                  *)
(*                                                                         *)
(* Time is discrete and urgent: a task whose sleep is over, a task between *)
(* two .awaits and a due ticker run before the clock moves.  A fetch, a    *)
(* static load, a positions request or a lookup of spans may take any time *)
(* (SlowNetwork) or is taken to answer at once.                            *)
(*                                                                         *)
(* A trip's score is abstracted to its peak delay times a decay that is    *)
(* full while the trip runs and falls to zero at MAX_RETENTION; the other  *)
(* factors of score.rs only scale it.  A schedule being loaded, and the    *)
(* coordinates of a vehicle, show only in which verdicts Inspect may give. *)
(***************************************************************************)
EXTENDS TripTrack, Functions, FiniteSets

CONSTANTS
  Sources,               \* agency indices
  Trips,                 \* trip ids
  Observations,          \* the observations a feed may publish of a trip
  MAX_PLAUSIBLE_DELAY,   \* a larger delay is observed but never ranked
  BASE_INTERVAL,         \* seconds between polls of a hot feed
  MAX_INTERVAL,          \* and of one that keeps missing the board
  FAILED_RETRY_INTERVAL, \* and of one that answered 401 or 404
  TRIP_END_GRACE,        \* unmentioned for longer than this: finished
  MAX_RETENTION,         \* a finished trip scores zero from this age on
  PRINT_INTERVAL,        \* the leaderboard ticker's period
  LEADERBOARD_SIZE,
  ARCHIVE_CAP,
  SlowNetwork,           \* whether an await may take time
  MaxTime                \* bound on the clock

ASSUME SchedulerAssumption ==
  /\ Observations \subseteq Observation
  /\ {MAX_PLAUSIBLE_DELAY, LEADERBOARD_SIZE, ARCHIVE_CAP, MaxTime} \subseteq Nat
  /\ {BASE_INTERVAL, MAX_INTERVAL, PRINT_INTERVAL, MAX_RETENTION} \subseteq Nat \ {0}
  /\ BASE_INTERVAL <= MAX_INTERVAL /\ BASE_INTERVAL <= FAILED_RETRY_INTERVAL
  /\ MAX_INTERVAL <= TRIP_END_GRACE
  /\ TRIP_END_GRACE \in Nat
  /\ FAILED_RETRY_INTERVAL \in Nat \ {0}
  /\ SlowNetwork \in BOOLEAN

\* The ranks and the cap count records.
ASSUME FinitelyMany == IsFiniteSet(Sources) /\ IsFiniteSet(Trips)

VARIABLES
  now,        \* the clock that unix_now reads
  nextSweep,  \* when the leaderboard ticker fires next
  pc,         \* where each feed's task stands
  wakeAt,     \* when its sleep ends
  todo,       \* trips its next archive step is about (refused, or parked)
  interval,   \* SourceRuntime.interval, and the task's own copy of it
  state,      \* SourceRuntime.state: "Active" or "Failed"
  hot,        \* SourceRuntime.hot
  lastOk,     \* SourceRuntime.last_success
  tracks,     \* TripHistory.sources: feed -> trip -> track
  boards,     \* feed -> trip -> delay: the live working set
  archive,    \* feed -> trip -> record: what the leaderboard ranks
  barred      \* history variable: trips the last poll erased as bad data

poll == <<pc, wakeAt, todo>>
health == <<interval, state, hot, lastOk>>
clock == <<now, nextSweep>>
vars == <<clock, poll, health, tracks, boards, archive, barred>>

\* None of Option<u64>.
Running == -1

TripRecord == [delay     : Nat,   \* the trip as of its last sighting
               peak      : Nat,   \* peak_delay_seconds
               last_seen : Nat,
               ended_at  : Nat \cup {Running},
               tracked   : Nat,   \* the receipts, frozen at the last sighting
               birth     : Int]

Empty == [t \in {} |-> {}]

\* The points at which a task awaits the network or the blocking pool.
AwaitPoints == {"fetch", "schedule", "positions"}
\* The points at which record_board may await the schedule's spans of the trips
\* on the board, before it writes them to the archive.
LookupPoints == {"record", "rerecord"}
\* The points between two awaits, at which a task is running.
RunPoints == {"evict", "judge", "park", "settle"}

-----------------------------------------------------------------------------
(* Scores and ranks.                                                       *)

Live(r) == r.ended_at = Running

Decay(age) == IF age <= 0 THEN MAX_RETENTION
              ELSE IF age >= MAX_RETENTION THEN 0
              ELSE MAX_RETENTION - age

\* TripRecord::score.
Score(r, at) == r.peak * (IF Live(r) THEN MAX_RETENTION ELSE Decay(at - r.ended_at))

Recorded(arch) == {k \in Sources \X Trips : k[2] \in DOMAIN arch[k[1]]}

Record(arch, k) == arch[k[1]][k[2]]

\* on_leaderboard: some live trip of the feed is beaten by fewer than
\* LEADERBOARD_SIZE records, live or finished, of any feed.
OnLeaderboard(s) ==
  \E t \in DOMAIN archive[s] :
    /\ Live(archive[s][t])
    /\ Cardinality({k \in Recorded(archive) :
                      Score(Record(archive, k), now) > Score(archive[s][t], now)})
         < LEADERBOARD_SIZE

-----------------------------------------------------------------------------
(* The archive's operations.                                               *)

\* A wrong body: the receipts are taken once, when the trip is first recorded.
UpsertFirstReceipts(s, t) ==
  LET known == t \in DOMAIN archive[s]
      track == tracks[s][t]
  IN [delay     |-> boards[s][t],
      peak      |-> IF known THEN Furthest(archive[s][t].peak, boards[s][t]) ELSE boards[s][t],
      last_seen |-> now,
      ended_at  |-> Running,
      tracked   |-> IF known THEN archive[s][t].tracked ELSE track.last_seen - track.born_at,
      birth     |-> IF known THEN archive[s][t].birth ELSE track.birth_delay]

\* record_board's upsert of one trip: the peak survives, the end does not.
Upsert(s, t) ==
  LET track == tracks[s][t]
      known == t \in DOMAIN archive[s]
      seen  == t \in DOMAIN tracks[s]
      delay == boards[s][t]
  IN [delay     |-> delay,
      peak      |-> IF known THEN Furthest(archive[s][t].peak, delay) ELSE delay,
      last_seen |-> now,
      ended_at  |-> Running,
      tracked   |-> IF seen THEN track.last_seen - track.born_at
                    ELSE IF known THEN archive[s][t].tracked ELSE 0,
      birth     |-> IF seen THEN track.birth_delay
                    ELSE IF known THEN archive[s][t].birth ELSE 0]

\* record_board.
RecordBoard(s) ==
  archive' = [archive EXCEPT ![s] =
                [t \in DOMAIN @ \cup DOMAIN boards[s] |->
                   IF t \in DOMAIN boards[s] THEN Upsert(s, t) ELSE @[t]]]

\* Passes 1 and 2 of sweep_archive over one feed's records.
Retire(r) ==
  IF Live(r) /\ now - r.last_seen > TRIP_END_GRACE
    THEN [r EXCEPT !.ended_at = r.last_seen] ELSE r

Expired(r) == ~Live(r) /\ now - r.ended_at >= MAX_RETENTION

\* A wrong body: nothing expires.
AgedForever(records) == [t \in DOMAIN records |-> Retire(records[t])]

Aged(records) ==
  LET retired == [t \in DOMAIN records |-> Retire(records[t])]
  IN Restrict(retired, {t \in DOMAIN retired : ~Expired(retired[t])})

\* Pass 3.  The cutoff is the score of the first finished record past the cap,
\* and a record must beat it to stay: whoever ties with it goes too.
Finished(arch) == {k \in Recorded(arch) : ~Live(Record(arch, k))}

\* A wrong body: the scores sorted the other way round.
AtOrAboveCutoff(arch, k) ==
  Cardinality({j \in Finished(arch) :
                 Score(Record(arch, j), now) <= Score(Record(arch, k), now)}) > ARCHIVE_CAP

AtOrBelowCutoff(arch, k) ==
  LET score(j) == Score(Record(arch, j), now)
  IN Cardinality({j \in Finished(arch) : score(j) >= score(k)}) > ARCHIVE_CAP

Capped(arch) ==
  [s \in Sources |->
     Restrict(arch[s], {t \in DOMAIN arch[s] :
                          Live(arch[s][t]) \/ ~AtOrBelowCutoff(arch, <<s, t>>)})]

-----------------------------------------------------------------------------
(* The poll task.                                                          *)

Init ==
  /\ now = 0
  /\ nextSweep = PRINT_INTERVAL
  /\ pc = [s \in Sources |-> "sleep"]
  /\ wakeAt \in [Sources -> 0 .. BASE_INTERVAL - 1]
  /\ todo = [s \in Sources |-> {}]
  /\ interval = [s \in Sources |-> BASE_INTERVAL]
  /\ state = [s \in Sources |-> "Active"]
  /\ hot = [s \in Sources |-> FALSE]
  /\ lastOk = [s \in Sources |-> FALSE]
  /\ tracks = [s \in Sources |-> Empty]
  /\ boards = [s \in Sources |-> Empty]
  /\ archive = [s \in Sources |-> Empty]
  /\ barred = [s \in Sources |-> {}]

Goto(s, label) == pc' = [pc EXCEPT ![s] = label]

\* The sleep between two polls.
SleepFor(s, seconds) ==
  /\ Goto(s, "sleep")
  /\ wakeAt' = [wakeAt EXCEPT ![s] = now + seconds]

\* run_feed wakes and begins a fetch; the deadline is spent.
Wake(s) ==
  /\ pc[s] = "sleep"
  /\ wakeAt[s] <= now
  /\ Goto(s, "fetch")
  /\ wakeAt' = [wakeAt EXCEPT ![s] = 0]
  /\ UNCHANGED <<clock, todo, health, tracks, boards, archive, barred>>

\* Measurement::is_late.
IsLate(o) == o.delay > 0 /\ o.delay <= MAX_PLAUSIBLE_DELAY

\* The feed answers: vet its trips, record the success, replace the board.  An
\* empty list of refused trips is evict_archived's early return, and only a feed
\* that published no delay at all can be the times-only one that needs its
\* schedule.
Answer(s, obs) ==
  LET known   == Fold(tracks[s], obs, now)
      late    == {t \in DOMAIN obs : IsLate(obs[t])}
      refused == Refused(known, late)
  IN /\ pc[s] = "fetch"
     /\ tracks' = [tracks EXCEPT ![s] = known]
     /\ boards' = [boards EXCEPT ![s] = [t \in Credited(known, late) |-> obs[t].delay]]
     /\ lastOk' = [lastOk EXCEPT ![s] = TRUE]
     /\ state' = [state EXCEPT ![s] = "Active"]
     /\ todo' = [todo EXCEPT ![s] = refused]
     /\ barred' = [barred EXCEPT ![s] = refused]
     /\ \/ refused # {} /\ Goto(s, "evict")
        \/ refused = {} /\ Goto(s, "record")
        \/ DOMAIN obs = {} /\ Goto(s, "schedule")
     /\ UNCHANGED <<clock, wakeAt, interval, hot, archive>>

\* evict_archived on the refused trips.
Evict(s) ==
  /\ pc[s] = "evict"
  /\ archive' = [archive EXCEPT ![s] = Restrict(@, DOMAIN @ \ todo[s])]
  /\ todo' = [todo EXCEPT ![s] = {}]
  /\ Goto(s, "record")
  /\ UNCHANGED <<clock, wakeAt, health, tracks, boards, barred>>

\* ensure_static_loaded of a times-only feed returns, whatever it loaded.
ScheduleLoaded(s) ==
  /\ pc[s] = "schedule"
  /\ Goto(s, "record")
  /\ UNCHANGED <<clock, wakeAt, todo, health, tracks, boards, archive, barred>>

\* The fetch fails with anything but a fatal status: record_failure, and on to
\* record_board with the board of an earlier poll.
Fail(s) ==
  /\ pc[s] = "fetch"
  /\ lastOk' = [lastOk EXCEPT ![s] = FALSE]
  /\ Goto(s, "record")
  /\ UNCHANGED <<clock, wakeAt, todo, interval, state, hot, tracks, boards, archive, barred>>

\* A wrong body: the board of a failed feed is left for record_board to find.
FailFatallyKeepsBoard(s) ==
  /\ pc[s] = "fetch"
  /\ lastOk' = [lastOk EXCEPT ![s] = FALSE]
  /\ state' = [state EXCEPT ![s] = "Failed"]
  /\ hot' = [hot EXCEPT ![s] = FALSE]
  /\ interval' = [interval EXCEPT ![s] = FAILED_RETRY_INTERVAL]
  /\ SleepFor(s, FAILED_RETRY_INTERVAL)
  /\ UNCHANGED <<clock, todo, tracks, boards, archive, barred>>

\* The feed answers 401 or 404: out of the rotation, its board and its history
\* dropped; what it has in the archive stays.
FailFatally(s) ==
  /\ pc[s] = "fetch"
  /\ lastOk' = [lastOk EXCEPT ![s] = FALSE]
  /\ state' = [state EXCEPT ![s] = "Failed"]
  /\ hot' = [hot EXCEPT ![s] = FALSE]
  /\ boards' = [boards EXCEPT ![s] = Empty]
  /\ tracks' = [tracks EXCEPT ![s] = Empty]
  /\ interval' = [interval EXCEPT ![s] = FAILED_RETRY_INTERVAL]
  /\ SleepFor(s, FAILED_RETRY_INTERVAL)
  /\ UNCHANGED <<clock, todo, archive, barred>>

\* The first record_board, before asking whether the feed is hot.  It copies the
\* board before it awaits the spans and writes the copy after, but the board and
\* the history of a feed are written by the feed's own task alone, which is the
\* one that waits: the copy is still the board.  The clock and the archive are
\* read after the wait.
FirstRecord(s) ==
  /\ pc[s] = "record"
  /\ RecordBoard(s)
  /\ Goto(s, "judge")
  /\ UNCHANGED <<clock, wakeAt, todo, health, tracks, boards, barred>>

\* A feed on the leaderboard has its schedule loaded and its vehicles placed.
Judge(s) ==
  /\ pc[s] = "judge"
  /\ Goto(s, IF OnLeaderboard(s) THEN "positions" ELSE "settle")
  /\ UNCHANGED <<clock, wakeAt, todo, health, tracks, boards, archive, barred>>

\* A wrong body: off-route trips leave the archive but not the board.
InspectKeepsBoard(s, offRoute, atTerminal) ==
  /\ pc[s] = "positions"
  /\ archive' = [archive EXCEPT ![s] = Restrict(@, DOMAIN @ \ offRoute)]
  /\ barred' = [barred EXCEPT ![s] = @ \cup offRoute]
  /\ todo' = [todo EXCEPT ![s] = atTerminal]
  /\ Goto(s, IF atTerminal = {} THEN "rerecord" ELSE "park")
  /\ UNCHANGED <<clock, wakeAt, health, tracks, boards>>

\* update_vehicle_positions and drop_offroute_trips: of the trips that have a
\* position and a shape some are off their route and some parked at a terminal.
\* Both leave the board; the off-route ones are erased from the archive.
Inspect(s, offRoute, atTerminal) ==
  /\ pc[s] = "positions"
  /\ boards' = [boards EXCEPT ![s] = Restrict(@, DOMAIN @ \ (offRoute \cup atTerminal))]
  /\ archive' = [archive EXCEPT ![s] = Restrict(@, DOMAIN @ \ offRoute)]
  /\ barred' = [barred EXCEPT ![s] = @ \cup offRoute]
  /\ todo' = [todo EXCEPT ![s] = atTerminal]
  /\ Goto(s, IF atTerminal = {} THEN "rerecord" ELSE "park")
  /\ UNCHANGED <<clock, wakeAt, health, tracks>>

\* The rest of drop_offroute_trips: a trip parked at a terminal has arrived.
Park(s) ==
  /\ pc[s] = "park"
  /\ archive' = [archive EXCEPT ![s] =
                   [t \in DOMAIN @ |-> IF t \in todo[s] /\ Live(@[t])
                                         THEN [@[t] EXCEPT !.ended_at = now]
                                         ELSE @[t]]]
  /\ todo' = [todo EXCEPT ![s] = {}]
  /\ Goto(s, "rerecord")
  /\ UNCHANGED <<clock, wakeAt, health, tracks, boards, barred>>

\* The second record_board, after the pruning.
SecondRecord(s) ==
  /\ pc[s] = "rerecord"
  /\ RecordBoard(s)
  /\ Goto(s, "settle")
  /\ UNCHANGED <<clock, wakeAt, todo, health, tracks, boards, barred>>

\* A wrong body: the back-off without its ceiling.
NextIntervalUncapped(s) == IF OnLeaderboard(s) THEN BASE_INTERVAL ELSE interval[s] * 2

\* Slow down unless hot.
NextInterval(s) ==
  IF OnLeaderboard(s) THEN BASE_INTERVAL
  ELSE IF interval[s] * 2 <= MAX_INTERVAL THEN interval[s] * 2 ELSE MAX_INTERVAL

\* The end of poll_once and the sleep that follows it.
Settle(s) ==
  /\ pc[s] = "settle"
  /\ hot' = [hot EXCEPT ![s] = OnLeaderboard(s)]
  /\ interval' = [interval EXCEPT ![s] = NextInterval(s)]
  /\ SleepFor(s, NextInterval(s))
  /\ UNCHANGED <<clock, todo, state, lastOk, tracks, boards, archive, barred>>

-----------------------------------------------------------------------------
(* The ticker and the clock.                                               *)

\* sweep_archive on a tick of run_ticker.
Sweep ==
  /\ nextSweep <= now
  /\ nextSweep' = now + PRINT_INTERVAL
  /\ archive' = Capped([s \in Sources |-> Aged(archive[s])])
  /\ UNCHANGED <<now, poll, health, tracks, boards, barred>>

\* A task that a wait or its sleep keeps from running.  An empty board is
\* record_board's early return, with nothing to look up.
Idle(s) == \/ SlowNetwork /\ pc[s] \in AwaitPoints
           \/ SlowNetwork /\ pc[s] \in LookupPoints /\ boards[s] # Empty
           \/ pc[s] = "sleep" /\ now < wakeAt[s]

\* Bounded by MaxTime.
Tick ==
  /\ now < MaxTime
  /\ now < nextSweep
  /\ \A s \in Sources : Idle(s)
  /\ now' = now + 1
  /\ UNCHANGED <<nextSweep, poll, health, tracks, boards, archive, barred>>

Poll(s) ==
  \/ Wake(s)
  \/ \E mentioned \in SUBSET Trips :
       \E obs \in [mentioned -> Observations] : Answer(s, obs)
  \/ Evict(s)
  \/ ScheduleLoaded(s)
  \/ Fail(s)
  \/ FailFatally(s)
  \/ FirstRecord(s)
  \/ Judge(s)
  \/ \E offRoute \in SUBSET DOMAIN boards[s] :
       \E atTerminal \in SUBSET (DOMAIN boards[s] \ offRoute) :
         Inspect(s, offRoute, atTerminal)
  \/ Park(s)
  \/ SecondRecord(s)
  \/ Settle(s)

Next == Sweep \/ Tick \/ \E s \in Sources : Poll(s)

Spec == Init /\ [][Next]_vars

-----------------------------------------------------------------------------
(* Properties.                                                             *)

\* A map from feeds to maps from trips to T.
Maps(map, T) ==
  /\ DOMAIN map = Sources
  /\ \A s \in Sources : DOMAIN map[s] \subseteq Trips /\ map[s] \in [DOMAIN map[s] -> T]

\* The shape of the state.  Every trip on a board has a track, and an interval
\* is one the back-off can produce.
TypeOK ==
  /\ now \in Nat /\ nextSweep \in Nat
  /\ pc \in [Sources -> {"sleep"} \cup AwaitPoints \cup LookupPoints \cup RunPoints]
  /\ wakeAt \in [Sources -> Nat]
  /\ todo \in [Sources -> SUBSET Trips] /\ barred \in [Sources -> SUBSET Trips]
  /\ interval \in [Sources -> BASE_INTERVAL .. MAX_INTERVAL \cup {FAILED_RETRY_INTERVAL}]
  /\ state \in [Sources -> {"Active", "Failed"}]
  /\ hot \in [Sources -> BOOLEAN] /\ lastOk \in [Sources -> BOOLEAN]
  /\ Maps(tracks, Track) /\ Maps(boards, Nat \ {0}) /\ Maps(archive, TripRecord)
  /\ \A s \in Sources : DOMAIN boards[s] \subseteq DOMAIN tracks[s]

\* Bad data stays erased.  A trip the history refused, or whose vehicle was off
\* its route, in the feed's latest poll is in no record of the archive once that
\* poll has evicted it: neither of the two record_board calls, nor one of a
\* later failed poll, puts it back.
BarredStaysOut ==
  \A s \in Sources : pc[s] # "evict" => barred[s] \cap DOMAIN archive[s] = {}

\* What a card of the board says is possible: the delay it shows is at most what
\* the trip was born with plus the seconds it was watched, within the slack, and
\* it was born on time.  This holds of finished trips too, long after the
\* history has forgotten them.
CardIsPossible ==
  \A s \in Sources : \A t \in DOMAIN archive[s] :
    LET r == archive[s][t] IN
      /\ r.birth <= CREDIBLE_BIRTH_DELAY
      /\ r.delay <= r.birth + r.tracked + JUMP_SLACK
      /\ r.delay <= r.peak

\* scheduler.rs, TRIP_END_GRACE: "an ordinary gap between two polls of a
\* backed-off feed never retires a live trip".  However slowly a feed is polled,
\* the trips of its board are live in the archive while its task sleeps.
NoGapRetires ==
  \A s \in Sources : pc[s] = "sleep" =>
    \A t \in DOMAIN boards[s] : t \in DOMAIN archive[s] /\ Live(archive[s][t])

\* Nothing homesteads the wall: a trip no poll has recorded for the grace period
\* is finished by the next tick, and a finished one is gone a tick after its
\* score reached zero, however the feed's task was delayed meanwhile.
ArchiveIsAged ==
  \A s \in Sources : \A t \in DOMAIN archive[s] :
    LET r == archive[s][t] IN
      IF Live(r) THEN now - r.last_seen <= TRIP_END_GRACE + PRINT_INTERVAL
                 ELSE now - r.ended_at < MAX_RETENTION + PRINT_INTERVAL

\* A feed out of the rotation leaves nothing to the wall: it is never hot, it has
\* no board and no history, whatever its retries end in, and by the time it is
\* polled again the sweeps of other tasks have ended every trip it has in the
\* archive.  (How soon it is polled again is another matter: see the README.)
FailedIsCold ==
  \A s \in Sources : state[s] = "Failed" =>
    /\ ~hot[s] /\ boards[s] = Empty /\ tracks[s] = Empty
    /\ pc[s] # "sleep" => \A t \in DOMAIN archive[s] : ~Live(archive[s][t])

\* A sweep leaves at most ARCHIVE_CAP finished trips, takes none that is live,
\* and takes a finished trip only when its score has reached zero or at least
\* ARCHIVE_CAP other finished trips score as well.
SweepTakesTheWorst ==
  [][ nextSweep' # nextSweep =>
        /\ Cardinality(Finished(archive')) <= ARCHIVE_CAP
        /\ \A k \in Recorded(archive) \ Recorded(archive') :
             LET r == Retire(Record(archive, k)) IN
               /\ ~Live(r)
               /\ \/ Score(r, now) = 0
                  \/ Cardinality({j \in Recorded(archive) \ {k} :
                       LET other == Retire(Record(archive, j))
                       IN ~Live(other) /\ Score(other, now) >= Score(r, now)})
                       >= ARCHIVE_CAP ]_vars

-----------------------------------------------------------------------------
(* What the documentation says and the code does not do.                   *)

\* scheduler.rs, TRIP_END_GRACE: "How long a ranked trip may go unmentioned by
\* its feed before we call it finished".  A poll that fails mentions no trip,
\* so while a feed's polls fail the trips of its last board should finish within
\* the grace.
UnmentionedIsFinished ==
  \A s \in Sources : (pc[s] = "sleep" /\ ~lastOk[s]) =>
    \A t \in DOMAIN boards[s] \cap DOMAIN archive[s] :
      Live(archive[s][t]) =>
        now - tracks[s][t].last_seen <= TRIP_END_GRACE + PRINT_INTERVAL
=============================================================================
