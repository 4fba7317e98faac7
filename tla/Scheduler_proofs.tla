--------------------------- MODULE Scheduler_proofs ---------------------------
(***************************************************************************)
(* Proofs about Scheduler, for every value of its constants: any number of *)
(* feeds and trips, fetches of any duration, any intervals that satisfy    *)
(* SchedulerAssumption.                                                    *)
(***************************************************************************)
EXTENDS Scheduler, FiniteSetTheorems, WellFoundedInduction, TLAPS

-----------------------------------------------------------------------------
(* What a poll does to a feed's tracks.                                    *)

\* A track's times are in order and past.
Timely(track, at) ==
  /\ track.born_at \in Nat /\ track.last_seen \in Nat
  /\ track.born_at <= track.last_seen /\ track.last_seen <= at

\* What a credible track says is possible.
Vouched(track) ==
  track.credible =>
    /\ track.birth_delay <= CREDIBLE_BIRTH_DELAY
    /\ track.last_delay <= track.birth_delay + (track.last_seen - track.born_at) + JUMP_SLACK

Sound(track, at) == track \in Track /\ Timely(track, at) /\ Vouched(track)

\* A track that is born is sound.
LEMMA BornSound ==
  ASSUME NEW o \in Observation, NEW at \in Nat
  PROVE  Sound(Born(o, at), at) /\ Born(o, at).last_delay = o.delay
<1>1. Born(o, at) \in Track
  BY TripTrackAssumption DEF Born, Track, Observation
<1>2. /\ Born(o, at).born_at = at /\ Born(o, at).last_seen = at
      /\ Born(o, at).birth_delay = o.delay /\ Born(o, at).last_delay = o.delay
      /\ Born(o, at).credible <=> o.delay <= CREDIBLE_BIRTH_DELAY
      /\ o.delay \in Int
  BY DEF Born, Observation
<1>3. Vouched(Born(o, at))
  BY <1>2, TripTrackAssumption DEF Vouched
<1>4. QED
  BY <1>1, <1>2, <1>3 DEF Sound, Timely

\* An observation keeps a track sound: the growth rule since birth is what
\* vouches for its delay.
LEMMA ObserveSound ==
  ASSUME NEW track, NEW before \in Nat, Sound(track, before),
         NEW o \in Observation, NEW at \in Nat, before <= at
  PROVE  Sound(Observe(track, o, at), at) /\ Observe(track, o, at).last_delay = o.delay
<1> DEFINE after == Observe(track, o, at)
<1>1. track \in Track
  BY DEF Sound
<1>2. /\ after.born_at = track.born_at /\ after.birth_delay = track.birth_delay
      /\ after.last_seen = at /\ after.last_delay = o.delay
      /\ after.credible => track.credible /\ WithinLife(track, o, at)
  BY <1>1 DEF Observe, Track
<1>3. after \in Track
  <2>1. /\ track.born_at \in Int /\ track.birth_delay \in Int /\ at \in Int
        /\ o.delay \in Int /\ o.sequence \in StopSequence \cup {NoSequence}
        /\ track.max_sequence \in StopSequence \cup {NoSequence}
    BY <1>1 DEF Track, Observation
  <2>2. Furthest(track.max_sequence, o.sequence) \in StopSequence \cup {NoSequence}
    BY <2>1 DEF Furthest
  <2>3. QED
    BY <1>1, <2>1, <2>2 DEF Observe, Track, WithinStep, WithinLife, MovingForward
<1>4. Timely(after, at)
  BY <1>2 DEF Sound, Timely
<1>5. Vouched(after)
  BY <1>2 DEF Sound, Vouched, WithinLife
<1>6. QED
  BY <1>2, <1>3, <1>4, <1>5 DEF Sound

\* A poll keeps a feed's tracks sound, and has one for every observation.
LEMMA FoldSound ==
  ASSUME NEW known, NEW before \in Nat, DOMAIN known \subseteq Trips,
         \A t \in DOMAIN known : Sound(known[t], before),
         NEW mentioned \in SUBSET Trips, NEW obs \in [mentioned -> Observations],
         NEW at \in Nat, before <= at
  PROVE  LET folded == Fold(known, obs, at)
         IN /\ DOMAIN folded \subseteq Trips
            /\ folded \in [DOMAIN folded -> Track]
            /\ mentioned \subseteq DOMAIN folded
            /\ \A t \in DOMAIN folded : Sound(folded[t], at)
            /\ \A t \in mentioned : folded[t].last_delay = obs[t].delay
<1> DEFINE folded == Fold(known, obs, at)
           after == Remembered(known, at) \cup mentioned
<1>1. DOMAIN obs = mentioned /\ \A t \in mentioned : obs[t] \in Observation
  BY SchedulerAssumption
<1>2. Remembered(known, at) \subseteq DOMAIN known
  BY DEF Remembered
<1>3. /\ DOMAIN folded = after
      /\ \A t \in after :
           folded[t] = IF t \notin mentioned THEN known[t]
                       ELSE IF t \in Remembered(known, at) THEN Observe(known[t], obs[t], at)
                       ELSE Born(obs[t], at)
  BY <1>1 DEF Fold
<1>4. ASSUME NEW t \in after
      PROVE  Sound(folded[t], at) /\ (t \in mentioned => folded[t].last_delay = obs[t].delay)
  <2>1. CASE t \notin mentioned
    BY <2>1, <1>2, <1>3 DEF Sound, Timely
  <2>2. CASE t \in mentioned /\ t \in Remembered(known, at)
    BY <2>2, <1>1, <1>2, <1>3, ObserveSound
  <2>3. CASE t \in mentioned /\ t \notin Remembered(known, at)
    BY <2>3, <1>1, <1>3, BornSound
  <2>4. QED BY <2>1, <2>2, <2>3
<1>5. folded = [t \in after |-> folded[t]]
  BY <1>1, <1>3 DEF Fold
<1>6. QED BY <1>2, <1>3, <1>4, <1>5 DEF Sound

-----------------------------------------------------------------------------
(* The inductive invariant of what the archive shows.                      *)

SoundTracks == \A s \in Sources : \A t \in DOMAIN tracks[s] : Sound(tracks[s][t], now)

\* What is on a board is the delay of a track that is still credible.
OfItsTrack ==
  \A s \in Sources : \A t \in DOMAIN boards[s] :
    tracks[s][t].credible /\ tracks[s][t].last_delay = boards[s][t]

\* The trips a poll erased are on no board, so that nothing can record them, and
\* while they are in the archive the task is about to evict them.
Erased ==
  \A s \in Sources :
    /\ barred[s] \cap DOMAIN boards[s] = {}
    /\ pc[s] = "evict" => barred[s] \subseteq todo[s]
    /\ pc[s] # "evict" => barred[s] \cap DOMAIN archive[s] = {}

IInv == TypeOK /\ SoundTracks /\ OfItsTrack /\ Erased /\ CardIsPossible

-----------------------------------------------------------------------------
(* What the steps do to the archive.                                       *)

Same(r, old) ==
  /\ r.delay = old.delay /\ r.peak = old.peak /\ r.last_seen = old.last_seen
  /\ r.tracked = old.tracked /\ r.birth = old.birth

\* A record made from the board of a sound feed is a possible one.
LEMMA UpsertPossible ==
  ASSUME TypeOK, SoundTracks, OfItsTrack, CardIsPossible,
         NEW s \in Sources, NEW t \in DOMAIN boards[s]
  PROVE  LET r == Upsert(s, t)
         IN /\ r \in TripRecord /\ Live(r) /\ r.last_seen = now
            /\ r.birth <= CREDIBLE_BIRTH_DELAY
            /\ r.delay <= r.birth + r.tracked + JUMP_SLACK
            /\ r.delay <= r.peak
<1> DEFINE r == Upsert(s, t)
           track == tracks[s][t]
           peak == IF t \in DOMAIN archive[s] THEN Furthest(archive[s][t].peak, boards[s][t])
                   ELSE boards[s][t]
<1>1. t \in DOMAIN tracks[s] /\ boards[s][t] \in Nat /\ now \in Nat
  BY DEF TypeOK, Maps
<1>2. track \in Track /\ Timely(track, now) /\ Vouched(track)
  BY <1>1 DEF SoundTracks, Sound
<1>3. track.credible /\ track.last_delay = boards[s][t]
  BY DEF OfItsTrack
<1>4. t \in DOMAIN archive[s] => archive[s][t].peak \in Nat
  BY DEF TypeOK, Maps, TripRecord
<1>5. peak \in Nat /\ boards[s][t] <= peak
  BY <1>1, <1>4 DEF Furthest
<1>6. r = [delay |-> boards[s][t], peak |-> peak, last_seen |-> now, ended_at |-> Running,
           tracked |-> track.last_seen - track.born_at, birth |-> track.birth_delay]
  BY <1>1 DEF Upsert
<1>7. track.last_seen - track.born_at \in Nat /\ track.birth_delay \in Int
  BY <1>2 DEF Timely, Track
<1>8. r \in TripRecord
  BY <1>1, <1>5, <1>6, <1>7 DEF TripRecord
<1>9. /\ track.birth_delay <= CREDIBLE_BIRTH_DELAY
      /\ boards[s][t] <= track.birth_delay + (track.last_seen - track.born_at) + JUMP_SLACK
  BY <1>2, <1>3 DEF Vouched
<1>10. QED
  BY <1>5, <1>6, <1>8, <1>9 DEF Live

\* record_board touches the records of the board's trips and no other.
LEMMA RecordShape ==
  ASSUME TypeOK, NEW s \in Sources, RecordBoard(s)
  PROVE  /\ DOMAIN archive' = Sources
         /\ \A x \in Sources \ {s} : archive'[x] = archive[x]
         /\ DOMAIN archive'[s] = DOMAIN archive[s] \cup DOMAIN boards[s]
         /\ archive'[s] = [t \in DOMAIN archive'[s] |-> archive'[s][t]]
         /\ \A t \in DOMAIN boards[s] : archive'[s][t] = Upsert(s, t)
         /\ \A t \in DOMAIN archive[s] \ DOMAIN boards[s] : archive'[s][t] = archive[s][t]
BY DEF RecordBoard, TypeOK, Maps

\* Retiring changes when a record ended and nothing else.
LEMMA RetireKeeps ==
  ASSUME NEW r \in TripRecord, now \in Nat
  PROVE  /\ Retire(r) \in TripRecord /\ Same(Retire(r), r)
         /\ Live(Retire(r)) => Live(r) /\ Retire(r) = r
BY DEF Retire, TripRecord, Same, Live, Running

\* A sweep retires records and drops some of those that have ended.
LEMMA SweepShape ==
  ASSUME TypeOK, Sweep
  PROVE  /\ DOMAIN archive' = Sources
         /\ \A s \in Sources :
              /\ DOMAIN archive'[s] \subseteq DOMAIN archive[s]
              /\ archive'[s] = [t \in DOMAIN archive'[s] |-> archive'[s][t]]
              /\ \A t \in DOMAIN archive'[s] :
                   archive'[s][t] = Retire(archive[s][t]) /\ ~Expired(archive'[s][t])
              /\ \A t \in DOMAIN archive[s] :
                   Live(Retire(archive[s][t])) => t \in DOMAIN archive'[s]
<1> DEFINE aged == [s \in Sources |-> Aged(archive[s])]
<1>1. archive' = Capped(aged)
  BY DEF Sweep
<1>2. ASSUME NEW s \in Sources
      PROVE  /\ DOMAIN aged[s] \subseteq DOMAIN archive[s]
             /\ \A t \in DOMAIN aged[s] :
                  aged[s][t] = Retire(archive[s][t]) /\ ~Expired(aged[s][t])
             /\ \A t \in DOMAIN archive[s] :
                  Live(Retire(archive[s][t])) => t \in DOMAIN aged[s]
  BY DEF Aged, Restrict, Expired
<1>3. DOMAIN archive' = Sources
  BY <1>1 DEF Capped
<1>4. ASSUME NEW s \in Sources
      PROVE  /\ DOMAIN archive'[s] \subseteq DOMAIN aged[s]
             /\ archive'[s] = [t \in DOMAIN archive'[s] |-> archive'[s][t]]
             /\ \A t \in DOMAIN archive'[s] : archive'[s][t] = aged[s][t]
             /\ \A t \in DOMAIN aged[s] : Live(aged[s][t]) => t \in DOMAIN archive'[s]
  <2> DEFINE left == {t \in DOMAIN aged[s] : Live(aged[s][t]) \/ ~AtOrBelowCutoff(aged, <<s, t>>)}
  <2>1. archive'[s] = Restrict(aged[s], left)
    BY <1>1 DEF Capped
  <2> HIDE DEF aged
  <2>2. QED BY <2>1 DEF Restrict
<1> HIDE DEF aged
<1>5. QED BY <1>2, <1>3, <1>4

\* A record some step has kept, and may have ended.
After(r, old) ==
  r \in TripRecord /\ Same(r, old) /\ (Sweep \/ r.ended_at \in {old.ended_at, now})

\* Every record of the next state is the one it was, but for its end, or was just
\* made from a board.
LEMMA ArchiveStep ==
  ASSUME TypeOK, Next
  PROVE  /\ DOMAIN archive' = Sources
         /\ \A s \in Sources :
              /\ archive'[s] = [t \in DOMAIN archive'[s] |-> archive'[s][t]]
              /\ \A t \in DOMAIN archive'[s] :
                   \/ t \in DOMAIN boards[s] /\ archive'[s][t] = Upsert(s, t)
                   \/ t \in DOMAIN archive[s] /\ After(archive'[s][t], archive[s][t])
<1> DEFINE Shape(s) ==
             /\ archive'[s] = [t \in DOMAIN archive'[s] |-> archive'[s][t]]
             /\ \A t \in DOMAIN archive'[s] :
                  \/ t \in DOMAIN boards[s] /\ archive'[s][t] = Upsert(s, t)
                  \/ t \in DOMAIN archive[s] /\ After(archive'[s][t], archive[s][t])
<1>1. /\ DOMAIN archive = Sources /\ now \in Nat
      /\ \A s \in Sources :
           /\ DOMAIN archive[s] \subseteq Trips
           /\ archive[s] = [t \in DOMAIN archive[s] |-> archive[s][t]]
           /\ \A t \in DOMAIN archive[s] :
                archive[s][t] \in TripRecord /\ After(archive[s][t], archive[s][t])
  BY DEF TypeOK, Maps, Same, After
<1>2. ASSUME UNCHANGED archive
      PROVE  DOMAIN archive' = Sources /\ \A s \in Sources : Shape(s)
  BY <1>1, <1>2
<1>3. CASE Sweep
  <2>1. ASSUME NEW s \in Sources PROVE Shape(s)
    BY <1>1, <1>3, SweepShape, RetireKeeps DEF After
  <2>2. QED BY <1>3, <2>1, SweepShape
<1>4. CASE Tick
  BY <1>2, <1>4 DEF Tick
<1>5. ASSUME NEW s \in Sources, RecordBoard(s)
      PROVE  DOMAIN archive' = Sources /\ \A x \in Sources : Shape(x)
  <2>1. Shape(s)
    BY <1>1, <1>5, RecordShape
  <2>2. DOMAIN archive' = Sources /\ \A x \in Sources \ {s} : archive'[x] = archive[x]
    BY <1>5, RecordShape
  <2>3. \A x \in Sources \ {s} : Shape(x)
    BY <1>1, <2>2
  <2>4. QED BY <2>1, <2>2, <2>3
<1>6. ASSUME NEW s \in Sources, NEW gone,
             archive' = [archive EXCEPT ![s] = Restrict(@, DOMAIN @ \ gone)]
      PROVE  DOMAIN archive' = Sources /\ \A x \in Sources : Shape(x)
  <2>1. /\ DOMAIN archive' = Sources
        /\ \A x \in Sources \ {s} : archive'[x] = archive[x]
        /\ archive'[s] = Restrict(archive[s], DOMAIN archive[s] \ gone)
    BY <1>1, <1>6
  <2>2. Shape(s)
    BY <1>1, <2>1 DEF Restrict
  <2>3. QED BY <1>1, <2>1, <2>2
<1>7. ASSUME NEW s \in Sources, Park(s)
      PROVE  DOMAIN archive' = Sources /\ \A x \in Sources : Shape(x)
  <2>1. /\ DOMAIN archive' = Sources
        /\ \A x \in Sources \ {s} : archive'[x] = archive[x]
        /\ archive'[s] = [t \in DOMAIN archive[s] |->
                            IF t \in todo[s] /\ Live(archive[s][t])
                              THEN [archive[s][t] EXCEPT !.ended_at = now]
                              ELSE archive[s][t]]
    BY <1>1, <1>7 DEF Park
  <2>2. \A r \in TripRecord : /\ [r EXCEPT !.ended_at = now] \in TripRecord
                              /\ After([r EXCEPT !.ended_at = now], r)
    BY <1>1 DEF TripRecord, Same, After
  <2>3. Shape(s)
    BY <1>1, <2>1, <2>2
  <2>4. QED BY <1>1, <2>1, <2>3
<1>8. ASSUME NEW s \in Sources, Poll(s)
      PROVE  DOMAIN archive' = Sources /\ \A x \in Sources : Shape(x)
  <2> HIDE DEF Shape
  <2>1. CASE FirstRecord(s) \/ SecondRecord(s)
    BY <1>5, <2>1 DEF FirstRecord, SecondRecord
  <2>2. CASE Evict(s)
    BY <1>6, <2>2 DEF Evict
  <2>3. ASSUME NEW offRoute, NEW atTerminal, Inspect(s, offRoute, atTerminal)
        PROVE  DOMAIN archive' = Sources /\ \A x \in Sources : Shape(x)
    BY <1>6, <2>3 DEF Inspect
  <2>4. CASE Park(s)
    BY <1>7, <2>4
  <2>5. CASE Wake(s) \/ ScheduleLoaded(s) \/ Fail(s) \/ FailFatally(s) \/ Judge(s) \/ Settle(s)
    BY <1>2, <2>5 DEF Wake, ScheduleLoaded, Fail, FailFatally, Judge, Settle
  <2>6. ASSUME NEW obs, Answer(s, obs)
        PROVE  DOMAIN archive' = Sources /\ \A x \in Sources : Shape(x)
    BY <1>2, <2>6 DEF Answer
  <2>7. QED BY <1>8, <2>1, <2>2, <2>3, <2>4, <2>5, <2>6 DEF Poll
<1>9. QED BY <1>3, <1>4, <1>8 DEF Next

\* An answer replaces the tracks and the board of its feed by sound ones, and
\* what it refuses is not on the board.
LEMMA AnswerStep ==
  ASSUME TypeOK, SoundTracks, NEW s \in Sources, NEW mentioned \in SUBSET Trips,
         NEW obs \in [mentioned -> Observations], Answer(s, obs)
  PROVE  /\ DOMAIN tracks' = Sources /\ DOMAIN boards' = Sources
         /\ \A x \in Sources \ {s} : tracks'[x] = tracks[x] /\ boards'[x] = boards[x]
         /\ DOMAIN tracks'[s] \subseteq Trips
         /\ tracks'[s] \in [DOMAIN tracks'[s] -> Track]
         /\ \A t \in DOMAIN tracks'[s] : Sound(tracks'[s][t], now)
         /\ DOMAIN boards'[s] \subseteq DOMAIN tracks'[s]
         /\ boards'[s] \in [DOMAIN boards'[s] -> Nat \ {0}]
         /\ \A t \in DOMAIN boards'[s] :
              tracks'[s][t].credible /\ tracks'[s][t].last_delay = boards'[s][t]
         /\ todo'[s] = barred'[s] /\ barred'[s] \subseteq Trips
         /\ barred'[s] \cap DOMAIN boards'[s] = {}
         /\ pc'[s] # "evict" => barred'[s] = {}
<1> DEFINE folded == Fold(tracks[s], obs, now)
           late == {t \in DOMAIN obs : IsLate(obs[t])}
           credited == Credited(folded, late)
           refused == Refused(folded, late)
<1>1. /\ now \in Nat /\ DOMAIN tracks = Sources /\ DOMAIN boards = Sources
      /\ DOMAIN tracks[s] \subseteq Trips /\ DOMAIN obs = mentioned
      /\ DOMAIN todo = Sources /\ DOMAIN barred = Sources /\ DOMAIN pc = Sources
  BY DEF TypeOK, Maps
<1>2. \A t \in DOMAIN tracks[s] : Sound(tracks[s][t], now)
  BY DEF SoundTracks
<1>3. /\ DOMAIN folded \subseteq Trips
      /\ folded \in [DOMAIN folded -> Track]
      /\ mentioned \subseteq DOMAIN folded
      /\ \A t \in DOMAIN folded : Sound(folded[t], now)
      /\ \A t \in mentioned : folded[t].last_delay = obs[t].delay
  BY <1>1, <1>2, FoldSound
<1>4. /\ tracks' = [tracks EXCEPT ![s] = folded]
      /\ boards' = [boards EXCEPT ![s] = [t \in credited |-> obs[t].delay]]
      /\ todo' = [todo EXCEPT ![s] = refused] /\ barred' = [barred EXCEPT ![s] = refused]
      /\ \/ refused # {} /\ pc' = [pc EXCEPT ![s] = "evict"]
         \/ refused = {} /\ pc' = [pc EXCEPT ![s] = "record"]
         \/ mentioned = {} /\ pc' = [pc EXCEPT ![s] = "schedule"]
  BY <1>1 DEF Answer, Goto
<1>5. /\ credited \subseteq mentioned /\ refused \subseteq mentioned
      /\ credited \cap refused = {}
      /\ \A t \in credited : folded[t].credible /\ IsLate(obs[t])
  BY <1>1 DEF Credited, Refused
<1>6. \A t \in credited : obs[t].delay \in Nat \ {0}
  BY <1>5, SchedulerAssumption DEF IsLate, Observation
<1> HIDE DEF folded, credited, refused
<1>7. /\ tracks'[s] = folded /\ boards'[s] = [t \in credited |-> obs[t].delay]
      /\ todo'[s] = refused /\ barred'[s] = refused
      /\ pc'[s] # "evict" => refused = {}
  BY <1>1, <1>4, <1>5
<1>8. QED BY <1>1, <1>3, <1>4, <1>5, <1>6, <1>7

-----------------------------------------------------------------------------
(* The invariant holds at the start and every step keeps it.               *)

LEMMA InitHolds ==
  ASSUME Init
  PROVE  IInv
<1>1. /\ \A s \in Sources : DOMAIN tracks[s] = {} /\ DOMAIN boards[s] = {}
                            /\ DOMAIN archive[s] = {} /\ barred[s] = {}
      /\ \A s \in Sources : \A T : tracks[s] \in [{} -> T] /\ boards[s] \in [{} -> T]
                                   /\ archive[s] \in [{} -> T]
  BY DEF Init, Empty
<1>2. TypeOK
  BY <1>1, SchedulerAssumption DEF Init, TypeOK, Maps, AwaitPoints, LookupPoints, RunPoints
<1>3. SoundTracks /\ OfItsTrack /\ Erased /\ CardIsPossible
  BY <1>1 DEF SoundTracks, OfItsTrack, Erased, CardIsPossible
<1>4. QED BY <1>2, <1>3 DEF IInv

\* The back-off stays between its floor and its ceiling, also after a failure
\* that was waited out for longer than the ceiling.
LEMMA NextIntervalBounds ==
  ASSUME TypeOK, NEW s \in Sources
  PROVE  NextInterval(s) \in BASE_INTERVAL .. MAX_INTERVAL
<1>1. interval[s] \in Nat /\ interval[s] >= BASE_INTERVAL
  BY SchedulerAssumption DEF TypeOK
<1>2. QED BY <1>1, SchedulerAssumption DEF NextInterval

\* The archive keeps its shape and its cards stay possible.
LEMMA ArchiveKept ==
  ASSUME IInv, Next
  PROVE  Maps(archive', TripRecord) /\ CardIsPossible'
<1>1. /\ \A s \in Sources : DOMAIN archive[s] \subseteq Trips /\ DOMAIN boards[s] \subseteq Trips
      /\ \A s \in Sources : \A t \in DOMAIN archive[s] : archive[s][t] \in TripRecord
  BY DEF IInv, TypeOK, Maps
<1>2. ASSUME NEW s \in Sources, NEW t \in DOMAIN archive'[s]
      PROVE  /\ t \in Trips /\ archive'[s][t] \in TripRecord
             /\ archive'[s][t].birth <= CREDIBLE_BIRTH_DELAY
             /\ archive'[s][t].delay <= archive'[s][t].birth + archive'[s][t].tracked + JUMP_SLACK
             /\ archive'[s][t].delay <= archive'[s][t].peak
  <2>1. CASE t \in DOMAIN boards[s] /\ archive'[s][t] = Upsert(s, t)
    BY <1>1, <2>1, UpsertPossible DEF IInv
  <2>2. CASE t \in DOMAIN archive[s] /\ After(archive'[s][t], archive[s][t])
    BY <1>1, <2>2 DEF IInv, CardIsPossible, Same, After
  <2>3. QED BY <2>1, <2>2, ArchiveStep DEF IInv
<1>3. CardIsPossible'
  BY <1>2 DEF CardIsPossible
<1>4. DOMAIN archive' = Sources
      /\ \A s \in Sources : archive'[s] = [t \in DOMAIN archive'[s] |-> archive'[s][t]]
  BY ArchiveStep DEF IInv
<1>5. ASSUME NEW s \in Sources
      PROVE  DOMAIN archive'[s] \subseteq Trips /\ archive'[s] \in [DOMAIN archive'[s] -> TripRecord]
  BY <1>2, <1>4
<1>6. QED BY <1>3, <1>4, <1>5 DEF Maps

\* The position check only takes trips off a board.
LEMMA InspectStep ==
  ASSUME IInv, NEW s \in Sources, NEW offRoute \in SUBSET DOMAIN boards[s],
         NEW atTerminal \in SUBSET (DOMAIN boards[s] \ offRoute),
         Inspect(s, offRoute, atTerminal)
  PROVE  /\ DOMAIN boards' = Sources
         /\ \A x \in Sources \ {s} : boards'[x] = boards[x]
         /\ DOMAIN boards'[s] = DOMAIN boards[s] \ (offRoute \cup atTerminal)
         /\ boards'[s] \in [DOMAIN boards'[s] -> Nat \ {0}]
         /\ \A t \in DOMAIN boards'[s] : boards'[s][t] = boards[s][t]
<1>1. DOMAIN boards = Sources /\ boards[s] \in [DOMAIN boards[s] -> Nat \ {0}]
  BY DEF IInv, TypeOK, Maps
<1>2. boards' = [boards EXCEPT ![s] =
                   Restrict(boards[s], DOMAIN boards[s] \ (offRoute \cup atTerminal))]
  BY DEF Inspect
<1>3. QED BY <1>1, <1>2 DEF Restrict

\* The tracks and the boards stay sound through every step.
LEMMA FeedsKept ==
  ASSUME IInv, Next
  PROVE  /\ Maps(tracks', Track) /\ Maps(boards', Nat \ {0})
         /\ \A s \in Sources : DOMAIN boards'[s] \subseteq DOMAIN tracks'[s]
         /\ SoundTracks' /\ OfItsTrack'
<1> DEFINE Kept(s) ==
             /\ DOMAIN tracks'[s] \subseteq Trips /\ tracks'[s] \in [DOMAIN tracks'[s] -> Track]
             /\ boards'[s] \in [DOMAIN boards'[s] -> Nat \ {0}]
             /\ DOMAIN boards'[s] \subseteq DOMAIN tracks'[s]
             /\ \A t \in DOMAIN tracks'[s] : Sound(tracks'[s][t], now')
             /\ \A t \in DOMAIN boards'[s] :
                  tracks'[s][t].credible /\ tracks'[s][t].last_delay = boards'[s][t]
<1>1. /\ DOMAIN tracks = Sources /\ DOMAIN boards = Sources /\ now \in Nat
      /\ \A s \in Sources :
           /\ DOMAIN tracks[s] \subseteq Trips /\ tracks[s] \in [DOMAIN tracks[s] -> Track]
           /\ boards[s] \in [DOMAIN boards[s] -> Nat \ {0}]
           /\ DOMAIN boards[s] \subseteq DOMAIN tracks[s]
           /\ \A t \in DOMAIN tracks[s] : Sound(tracks[s][t], now)
           /\ \A t \in DOMAIN boards[s] :
                tracks[s][t].credible /\ tracks[s][t].last_delay = boards[s][t]
  BY DEF IInv, TypeOK, Maps, SoundTracks, OfItsTrack
<1>2. ASSUME UNCHANGED <<tracks, boards>>, now' \in Nat, now <= now'
      PROVE  DOMAIN tracks' = Sources /\ DOMAIN boards' = Sources /\ \A s \in Sources : Kept(s)
  <2>1. \A s \in Sources : \A t \in DOMAIN tracks[s] : Sound(tracks[s][t], now')
    BY <1>1, <1>2 DEF Sound, Timely
  <2>2. QED BY <1>1, <1>2, <2>1
<1>3. ASSUME NEW s \in Sources, Poll(s)
      PROVE  DOMAIN tracks' = Sources /\ DOMAIN boards' = Sources /\ \A x \in Sources : Kept(x)
  <2>1. UNCHANGED now
    BY <1>3 DEF Poll, Wake, Answer, Evict, ScheduleLoaded, Fail, FailFatally, FirstRecord,
                Judge, Inspect, Park, SecondRecord, Settle, clock
  <2>2. ASSUME DOMAIN tracks' = Sources, DOMAIN boards' = Sources, Kept(s),
               \A x \in Sources \ {s} : tracks'[x] = tracks[x] /\ boards'[x] = boards[x]
        PROVE  \A x \in Sources : Kept(x)
    BY <1>1, <2>1, <2>2
  <2>3. ASSUME NEW mentioned \in SUBSET Trips, NEW obs \in [mentioned -> Observations],
               Answer(s, obs)
        PROVE  DOMAIN tracks' = Sources /\ DOMAIN boards' = Sources /\ \A x \in Sources : Kept(x)
    BY <2>1, <2>2, <2>3, AnswerStep DEF IInv
  <2>4. ASSUME NEW offRoute \in SUBSET DOMAIN boards[s],
               NEW atTerminal \in SUBSET (DOMAIN boards[s] \ offRoute),
               Inspect(s, offRoute, atTerminal)
        PROVE  DOMAIN tracks' = Sources /\ DOMAIN boards' = Sources /\ \A x \in Sources : Kept(x)
    <3>1. UNCHANGED tracks
      BY <2>4 DEF Inspect
    <3>2. /\ DOMAIN boards' = Sources
          /\ \A x \in Sources \ {s} : tracks'[x] = tracks[x] /\ boards'[x] = boards[x]
          /\ DOMAIN boards'[s] \subseteq DOMAIN boards[s]
          /\ boards'[s] \in [DOMAIN boards'[s] -> Nat \ {0}]
          /\ \A t \in DOMAIN boards'[s] : boards'[s][t] = boards[s][t]
      BY <2>4, <3>1, InspectStep
    <3>3. Kept(s)
      BY <1>1, <2>1, <3>1, <3>2
    <3> HIDE DEF Kept
    <3>4. QED BY <1>1, <2>2, <3>1, <3>2, <3>3
  <2>5. CASE FailFatally(s)
    <3>1. /\ tracks' = [tracks EXCEPT ![s] = Empty] /\ boards' = [boards EXCEPT ![s] = Empty]
          /\ DOMAIN Empty = {} /\ \A T : Empty \in [{} -> T]
      BY <2>5 DEF FailFatally, Empty
    <3>2. QED BY <1>1, <2>2, <3>1
  <2>6. CASE \/ Wake(s) \/ Evict(s) \/ ScheduleLoaded(s) \/ Fail(s) \/ FirstRecord(s)
             \/ Judge(s) \/ Park(s) \/ SecondRecord(s) \/ Settle(s)
    <3>1. UNCHANGED <<tracks, boards>>
      BY <2>6 DEF Wake, Evict, ScheduleLoaded, Fail, FirstRecord, Judge, Park, SecondRecord, Settle
    <3>2. QED BY <1>1, <1>2, <2>1, <3>1
  <2>7. QED BY <1>3, <2>3, <2>4, <2>5, <2>6 DEF Poll
<1>4. ASSUME Sweep \/ Tick
      PROVE  DOMAIN tracks' = Sources /\ DOMAIN boards' = Sources /\ \A s \in Sources : Kept(s)
  <2>1. UNCHANGED <<tracks, boards>> /\ now' \in Nat /\ now <= now'
    BY <1>1, <1>4 DEF Sweep, Tick
  <2>2. QED BY <1>2, <2>1
<1>5. DOMAIN tracks' = Sources /\ DOMAIN boards' = Sources /\ \A s \in Sources : Kept(s)
  <2> HIDE DEF Kept
  <2>1. QED BY <1>3, <1>4 DEF Next
<1>6. QED BY <1>5 DEF Maps, SoundTracks, OfItsTrack

\* The poll tasks keep the shape of what is their own.
LEMMA TypeKept ==
  ASSUME IInv, Next
  PROVE  TypeOK'
<1> DEFINE Own ==
             /\ pc' \in [Sources -> {"sleep"} \cup AwaitPoints \cup LookupPoints \cup RunPoints]
             /\ wakeAt' \in [Sources -> Nat]
             /\ todo' \in [Sources -> SUBSET Trips] /\ barred' \in [Sources -> SUBSET Trips]
             /\ interval' \in [Sources -> BASE_INTERVAL .. MAX_INTERVAL \cup {FAILED_RETRY_INTERVAL}]
             /\ state' \in [Sources -> {"Active", "Failed"}]
             /\ hot' \in [Sources -> BOOLEAN] /\ lastOk' \in [Sources -> BOOLEAN]
           Place == {"sleep"} \cup AwaitPoints \cup LookupPoints \cup RunPoints
<1>1. /\ now \in Nat /\ nextSweep \in Nat
      /\ pc \in [Sources -> Place]
      /\ wakeAt \in [Sources -> Nat]
      /\ todo \in [Sources -> SUBSET Trips] /\ barred \in [Sources -> SUBSET Trips]
      /\ interval \in [Sources -> BASE_INTERVAL .. MAX_INTERVAL \cup {FAILED_RETRY_INTERVAL}]
      /\ state \in [Sources -> {"Active", "Failed"}]
      /\ hot \in [Sources -> BOOLEAN] /\ lastOk \in [Sources -> BOOLEAN]
      /\ \A s \in Sources : DOMAIN boards[s] \subseteq Trips
  BY DEF IInv, TypeOK, Maps
<1>2. {"sleep", "fetch", "schedule", "positions", "evict", "record", "judge", "park",
       "rerecord", "settle"} \subseteq Place
  BY DEF AwaitPoints, LookupPoints, RunPoints
<1>3. ASSUME NEW s \in Sources, Poll(s)
      PROVE  now' = now /\ nextSweep' = nextSweep /\ Own
  <2> HIDE DEF Place
  <2>1. CASE Wake(s)
    BY <1>1, <1>2, <2>1 DEF Wake, Goto, clock, health, Place
  <2>2. ASSUME NEW mentioned \in SUBSET Trips, NEW obs \in [mentioned -> Observations],
               Answer(s, obs)
        PROVE  now' = now /\ nextSweep' = nextSweep /\ Own
    <3> DEFINE refused == Refused(Fold(tracks[s], obs, now), {t \in DOMAIN obs : IsLate(obs[t])})
    <3>1. refused \in SUBSET Trips
      BY DEF Refused
    <3>2. /\ UNCHANGED <<now, nextSweep, wakeAt, interval, hot>>
          /\ lastOk' = [lastOk EXCEPT ![s] = TRUE] /\ state' = [state EXCEPT ![s] = "Active"]
          /\ todo' = [todo EXCEPT ![s] = refused] /\ barred' = [barred EXCEPT ![s] = refused]
          /\ \/ pc' = [pc EXCEPT ![s] = "evict"]
             \/ pc' = [pc EXCEPT ![s] = "record"]
             \/ pc' = [pc EXCEPT ![s] = "schedule"]
      BY <2>2 DEF Answer, Goto, clock
    <3> HIDE DEF refused
    <3>3. QED BY <1>1, <1>2, <3>1, <3>2 DEF Place
  <2>3. CASE Evict(s) \/ ScheduleLoaded(s) \/ Fail(s)
    BY <1>1, <1>2, <2>3 DEF Evict, ScheduleLoaded, Fail, Goto, clock, health, Place
  <2>4. CASE FailFatally(s)
    BY <1>1, <1>2, <2>4, SchedulerAssumption DEF FailFatally, SleepFor, Goto, clock, Place
  <2>5. CASE FirstRecord(s) \/ Judge(s) \/ Park(s) \/ SecondRecord(s)
    BY <1>1, <1>2, <2>5 DEF FirstRecord, Judge, Park, SecondRecord, Goto, clock, health, Place
  <2>6. ASSUME NEW offRoute \in SUBSET DOMAIN boards[s],
               NEW atTerminal \in SUBSET (DOMAIN boards[s] \ offRoute),
               Inspect(s, offRoute, atTerminal)
        PROVE  now' = now /\ nextSweep' = nextSweep /\ Own
    <3>1. offRoute \in SUBSET Trips /\ atTerminal \in SUBSET Trips
      BY <1>1
    <3>2. QED BY <1>1, <1>2, <2>6, <3>1 DEF Inspect, Goto, clock, health, Place
  <2>7. CASE Settle(s)
    <3>1. NextInterval(s) \in BASE_INTERVAL .. MAX_INTERVAL /\ NextInterval(s) \in Nat
      BY NextIntervalBounds, SchedulerAssumption DEF IInv
    <3>2. OnLeaderboard(s) \in BOOLEAN
      BY DEF OnLeaderboard
    <3> HIDE DEF Place
    <3>3. QED BY <1>1, <1>2, <2>7, <3>1, <3>2 DEF Settle, SleepFor, Goto, clock, Place
  <2>8. QED BY <1>3, <2>1, <2>2, <2>3, <2>4, <2>5, <2>6, <2>7 DEF Poll
<1>4. ASSUME Sweep \/ Tick
      PROVE  now' \in Nat /\ nextSweep' \in Nat /\ Own
  BY <1>1, <1>4, SchedulerAssumption DEF Sweep, Tick, poll, health
<1>5. now' \in Nat /\ nextSweep' \in Nat /\ Own
  BY <1>1, <1>3, <1>4 DEF Next
<1>6. QED BY <1>5, ArchiveKept, FeedsKept DEF TypeOK

\* What is barred leaves the archive before anything else happens to it, and no
\* board has it to put it back.
LEMMA ErasedKept ==
  ASSUME IInv, Next
  PROVE  Erased'
<1> DEFINE Kept(s) ==
             /\ barred'[s] \cap DOMAIN boards'[s] = {}
             /\ pc'[s] = "evict" => barred'[s] \subseteq todo'[s]
             /\ pc'[s] # "evict" => barred'[s] \cap DOMAIN archive'[s] = {}
<1>1. /\ DOMAIN pc = Sources /\ DOMAIN todo = Sources /\ DOMAIN barred = Sources
      /\ DOMAIN boards = Sources /\ DOMAIN archive = Sources
  BY DEF IInv, TypeOK, Maps
<1>2. \A s \in Sources :
        /\ barred[s] \cap DOMAIN boards[s] = {}
        /\ pc[s] = "evict" => barred[s] \subseteq todo[s]
        /\ pc[s] # "evict" => barred[s] \cap DOMAIN archive[s] = {}
  BY DEF IInv, Erased
<1>3. CASE Tick
  BY <1>2, <1>3 DEF Tick, poll, Erased
<1>4. CASE Sweep
  <2>1. /\ UNCHANGED <<pc, todo, boards, barred>>
        /\ \A s \in Sources : DOMAIN archive'[s] \subseteq DOMAIN archive[s]
    BY <1>4, SweepShape DEF Sweep, poll, IInv
  <2>2. QED BY <1>2, <2>1 DEF Erased
<1>5. ASSUME NEW s \in Sources, Poll(s)
      PROVE  \A x \in Sources : Kept(x)
  <2>1. ASSUME Kept(s),
               \A x \in Sources \ {s} :
                 /\ pc'[x] = pc[x] /\ todo'[x] = todo[x] /\ barred'[x] = barred[x]
                 /\ boards'[x] = boards[x] /\ archive'[x] = archive[x]
        PROVE  \A x \in Sources : Kept(x)
    BY <1>2, <2>1
  <2> HIDE DEF Kept
  <2>2. CASE Wake(s) \/ ScheduleLoaded(s) \/ Fail(s) \/ Judge(s) \/ Settle(s)
    <3>1. /\ UNCHANGED <<todo, boards, archive, barred>>
          /\ pc'[s] # "evict" /\ pc[s] # "evict"
          /\ \A x \in Sources \ {s} : pc'[x] = pc[x]
      BY <1>1, <2>2 DEF Wake, ScheduleLoaded, Fail, Judge, Settle, SleepFor, Goto
    <3>2. Kept(s)
      BY <1>2, <3>1 DEF Kept
    <3>3. QED BY <2>1, <3>1, <3>2
  <2>3. ASSUME NEW mentioned \in SUBSET Trips, NEW obs \in [mentioned -> Observations],
               Answer(s, obs)
        PROVE  \A x \in Sources : Kept(x)
    <3>1. /\ UNCHANGED archive
          /\ \A x \in Sources \ {s} :
               pc'[x] = pc[x] /\ todo'[x] = todo[x] /\ barred'[x] = barred[x]
      BY <1>1, <2>3 DEF Answer, Goto
    <3>2. /\ \A x \in Sources \ {s} : boards'[x] = boards[x]
          /\ todo'[s] = barred'[s] /\ barred'[s] \cap DOMAIN boards'[s] = {}
          /\ pc'[s] # "evict" => barred'[s] = {}
      BY <2>3, AnswerStep DEF IInv
    <3>3. Kept(s)
      BY <3>2 DEF Kept
    <3>4. QED BY <2>1, <3>1, <3>2, <3>3
  <2>4. CASE Evict(s)
    <3>1. /\ UNCHANGED <<boards, barred>> /\ pc[s] = "evict" /\ pc'[s] = "record"
          /\ \A x \in Sources \ {s} :
               pc'[x] = pc[x] /\ todo'[x] = todo[x] /\ archive'[x] = archive[x]
          /\ DOMAIN archive'[s] = DOMAIN archive[s] \ todo[s]
      BY <1>1, <2>4 DEF Evict, Goto, Restrict
    <3>2. Kept(s)
      BY <1>2, <3>1 DEF Kept
    <3>3. QED BY <2>1, <3>1, <3>2
  <2>5. CASE FailFatally(s)
    <3>1. /\ UNCHANGED <<todo, archive, barred>> /\ pc[s] # "evict" /\ pc'[s] # "evict"
          /\ \A x \in Sources \ {s} : pc'[x] = pc[x] /\ boards'[x] = boards[x]
          /\ DOMAIN boards'[s] = {}
      BY <1>1, <2>5 DEF FailFatally, SleepFor, Goto, Empty
    <3>2. Kept(s)
      BY <1>2, <3>1 DEF Kept
    <3>3. QED BY <2>1, <3>1, <3>2
  <2>6. CASE FirstRecord(s) \/ SecondRecord(s)
    <3>1. /\ UNCHANGED <<todo, boards, barred>> /\ pc[s] # "evict" /\ pc'[s] # "evict"
          /\ \A x \in Sources \ {s} : pc'[x] = pc[x]
          /\ RecordBoard(s)
      BY <1>1, <2>6 DEF FirstRecord, SecondRecord, Goto
    <3>2. /\ \A x \in Sources \ {s} : archive'[x] = archive[x]
          /\ DOMAIN archive'[s] = DOMAIN archive[s] \cup DOMAIN boards[s]
      BY <3>1, RecordShape DEF IInv
    <3>3. Kept(s)
      BY <1>2, <3>1, <3>2 DEF Kept
    <3>4. QED BY <2>1, <3>1, <3>2, <3>3
  <2>7. ASSUME NEW offRoute \in SUBSET DOMAIN boards[s],
               NEW atTerminal \in SUBSET (DOMAIN boards[s] \ offRoute),
               Inspect(s, offRoute, atTerminal)
        PROVE  \A x \in Sources : Kept(x)
    <3>1. /\ pc[s] # "evict" /\ pc'[s] # "evict" /\ barred'[s] = barred[s] \cup offRoute
          /\ \A x \in Sources \ {s} :
               pc'[x] = pc[x] /\ todo'[x] = todo[x] /\ barred'[x] = barred[x]
      BY <1>1, <2>7 DEF Inspect, Goto
    <3>2. /\ \A x \in Sources \ {s} : boards'[x] = boards[x] /\ archive'[x] = archive[x]
          /\ DOMAIN boards'[s] \subseteq DOMAIN boards[s] \ offRoute
          /\ DOMAIN archive'[s] \subseteq DOMAIN archive[s] \ offRoute
      BY <1>1, <2>7 DEF Inspect, Restrict
    <3>3. Kept(s)
      BY <1>2, <3>1, <3>2 DEF Kept
    <3>4. QED BY <2>1, <3>1, <3>2, <3>3
  <2>8. CASE Park(s)
    <3>1. /\ UNCHANGED <<boards, barred>> /\ pc[s] # "evict" /\ pc'[s] # "evict"
          /\ \A x \in Sources \ {s} :
               pc'[x] = pc[x] /\ todo'[x] = todo[x] /\ archive'[x] = archive[x]
          /\ DOMAIN archive'[s] = DOMAIN archive[s]
      BY <1>1, <2>8 DEF Park, Goto
    <3>2. Kept(s)
      BY <1>2, <3>1 DEF Kept
    <3>3. QED BY <2>1, <3>1, <3>2
  <2>9. QED BY <1>5, <2>2, <2>3, <2>4, <2>5, <2>6, <2>7, <2>8 DEF Poll
<1>6. ASSUME NEW s \in Sources, Poll(s)
      PROVE  Erased'
  BY <1>5, <1>6 DEF Erased
<1>7. QED BY <1>3, <1>4, <1>6 DEF Next

-----------------------------------------------------------------------------
(* The theorems.                                                           *)

LEMMA InvariantStep ==
  ASSUME IInv, [Next]_vars
  PROVE  IInv'
<1>1. CASE Next
  BY <1>1, TypeKept, FeedsKept, ErasedKept, ArchiveKept DEF IInv
<1>2. CASE UNCHANGED vars
  BY <1>2 DEF vars, clock, poll, health, IInv, TypeOK, Maps, SoundTracks, OfItsTrack,
              Erased, CardIsPossible
<1>3. QED BY <1>1, <1>2

LEMMA Invariance == Spec => []IInv
<1>1. IInv /\ [Next]_vars => IInv'
  BY InvariantStep
<1>2. Init => IInv
  BY InitHolds
<1>3. QED BY <1>1, <1>2, PTL DEF Spec

\* The poll loop keeps the shape of its state, whatever feeds answer and however
\* long their answers take.
THEOREM TypeCorrect == Spec => []TypeOK
BY Invariance, PTL DEF IInv

\* run_feed erases what vet refuses and what is off its route, and no later
\* record_board, of that poll or of a failed one after it, restores it.
THEOREM ErasedStaysOut == Spec => []BarredStaysOut
<1>1. IInv => BarredStaysOut
  BY DEF IInv, Erased, BarredStaysOut
<1>2. QED BY <1>1, Invariance, PTL

\* Every record of the archive, running or finished, shows a delay the trip can
\* have had: record_board writes the receipts of a credible track and sweeps,
\* arrivals and forgotten tracks leave them as they were.
THEOREM CardsArePossible == Spec => []CardIsPossible
BY Invariance, PTL DEF IInv

-----------------------------------------------------------------------------
(* What time does to the archive.                                          *)

\* As of the last sweep, PRINT_INTERVAL before the next one, no record that is
\* still there was past its grace or its retention.
Aging ==
  /\ now <= nextSweep /\ nextSweep <= now + PRINT_INTERVAL
  /\ \A s \in Sources : \A t \in DOMAIN archive[s] :
       LET r == archive[s][t] IN
         /\ Live(r) => nextSweep - PRINT_INTERVAL - r.last_seen <= TRIP_END_GRACE
         /\ ~Live(r) => nextSweep - PRINT_INTERVAL - r.ended_at < MAX_RETENTION

\* The trips of a board that a task has just recorded, or sleeps on, are live;
\* it wakes before the interval since it recorded them is over.
InSight ==
  \A s \in Sources :
    /\ pc[s] = "sleep" => now <= wakeAt[s]
    /\ pc[s] \in {"sleep", "judge", "settle"} =>
         \A t \in DOMAIN boards[s] :
           /\ t \in DOMAIN archive[s] /\ Live(archive[s][t])
           /\ pc[s] = "sleep" => wakeAt[s] <= archive[s][t].last_seen + MAX_INTERVAL
           /\ pc[s] # "sleep" => archive[s][t].last_seen = now

\* A task's step leaves the other tasks, their boards and their records alone.
LEMMA PollFrame ==
  ASSUME TypeOK, NEW s \in Sources, Poll(s)
  PROVE  /\ now' = now /\ nextSweep' = nextSweep
         /\ \A x \in Sources \ {s} :
              /\ pc'[x] = pc[x] /\ wakeAt'[x] = wakeAt[x]
              /\ boards'[x] = boards[x] /\ archive'[x] = archive[x]
<1>1. /\ DOMAIN pc = Sources /\ DOMAIN wakeAt = Sources
      /\ DOMAIN boards = Sources /\ DOMAIN archive = Sources
  BY DEF TypeOK, Maps
<1>2. QED
  BY <1>1 DEF Poll, Wake, Answer, Evict, ScheduleLoaded, Fail, FailFatally, FirstRecord, Judge,
              Inspect, Park, SecondRecord, Settle, RecordBoard, SleepFor, Goto, clock

LEMMA AgingKept ==
  ASSUME IInv, Aging, Next
  PROVE  Aging'
<1>1. /\ now \in Nat /\ nextSweep \in Nat /\ PRINT_INTERVAL \in Nat \ {0}
      /\ TRIP_END_GRACE \in Nat /\ MAX_RETENTION \in Nat \ {0}
      /\ \A s \in Sources : \A t \in DOMAIN archive[s] : archive[s][t] \in TripRecord
  BY SchedulerAssumption DEF IInv, TypeOK, Maps
<1>2. /\ now <= nextSweep /\ nextSweep <= now + PRINT_INTERVAL
      /\ \A s \in Sources : \A t \in DOMAIN archive[s] :
           /\ Live(archive[s][t]) =>
                nextSweep - PRINT_INTERVAL - archive[s][t].last_seen <= TRIP_END_GRACE
           /\ ~Live(archive[s][t]) =>
                nextSweep - PRINT_INTERVAL - archive[s][t].ended_at < MAX_RETENTION
  BY DEF Aging
<1>3. CASE Tick
  <2>1. UNCHANGED <<nextSweep, archive>> /\ now' = now + 1 /\ now < nextSweep
    BY <1>3 DEF Tick
  <2>2. QED BY <1>1, <1>2, <2>1 DEF Aging
<1>4. CASE Sweep
  <2>1. now' = now /\ nextSweep' = now + PRINT_INTERVAL
    BY <1>4 DEF Sweep
  <2>2. ASSUME NEW s \in Sources, NEW t \in DOMAIN archive'[s]
        PROVE  /\ Live(archive'[s][t]) => now - archive'[s][t].last_seen <= TRIP_END_GRACE
               /\ ~Live(archive'[s][t]) => now - archive'[s][t].ended_at < MAX_RETENTION
    <3>1. /\ t \in DOMAIN archive[s] /\ archive'[s][t] = Retire(archive[s][t])
          /\ ~Expired(archive'[s][t])
      BY <1>4, SweepShape DEF IInv
    <3>2. archive'[s][t] \in TripRecord
      BY <1>1, <3>1, RetireKeeps
    <3>3. Live(archive'[s][t]) => now - archive'[s][t].last_seen <= TRIP_END_GRACE
      BY <1>1, <3>1 DEF Retire, Live, TripRecord, Running
    <3>4. ~Live(archive'[s][t]) => now - archive'[s][t].ended_at < MAX_RETENTION
      BY <1>1, <3>1, <3>2 DEF Expired, Live, TripRecord
    <3>5. QED BY <3>3, <3>4
  <2>3. QED BY <1>1, <2>1, <2>2 DEF Aging
<1>5. ASSUME NEW s \in Sources, Poll(s)
      PROVE  Aging'
  <2>1. now' = now /\ nextSweep' = nextSweep /\ ~(Sweep /\ Poll(s))
    BY <1>1, <1>5, PollFrame DEF IInv, Sweep
  <2>2. ASSUME NEW x \in Sources, NEW t \in DOMAIN archive'[x]
        PROVE  /\ Live(archive'[x][t]) =>
                    nextSweep - PRINT_INTERVAL - archive'[x][t].last_seen <= TRIP_END_GRACE
               /\ ~Live(archive'[x][t]) =>
                    nextSweep - PRINT_INTERVAL - archive'[x][t].ended_at < MAX_RETENTION
    <3>1. CASE t \in DOMAIN boards[x] /\ archive'[x][t] = Upsert(x, t)
      BY <1>1, <1>2, <3>1, UpsertPossible DEF IInv
    <3>2. CASE t \in DOMAIN archive[x] /\ After(archive'[x][t], archive[x][t])
      <4>1. /\ archive[x][t] \in TripRecord /\ archive'[x][t] \in TripRecord
            /\ archive'[x][t].last_seen = archive[x][t].last_seen
            /\ archive'[x][t].ended_at \in {archive[x][t].ended_at, now}
        BY <1>1, <1>5, <2>1, <3>2 DEF After, Same
      <4>2. QED BY <1>1, <1>2, <3>2, <4>1 DEF Live, Running, TripRecord
    <3>3. QED BY <3>1, <3>2, ArchiveStep DEF IInv
  <2>3. QED BY <1>2, <2>1, <2>2 DEF Aging
<1>6. QED BY <1>3, <1>4, <1>5 DEF Next

LEMMA InSightKept ==
  ASSUME IInv, InSight, Next
  PROVE  InSight'
<1> DEFINE Seen(s) ==
             /\ pc[s] = "sleep" => now <= wakeAt[s]
             /\ pc[s] \in {"sleep", "judge", "settle"} =>
                  \A t \in DOMAIN boards[s] :
                    /\ t \in DOMAIN archive[s] /\ Live(archive[s][t])
                    /\ pc[s] = "sleep" => wakeAt[s] <= archive[s][t].last_seen + MAX_INTERVAL
                    /\ pc[s] # "sleep" => archive[s][t].last_seen = now
<1>1. /\ now \in Nat /\ MAX_INTERVAL \in Nat /\ TRIP_END_GRACE \in Nat
      /\ MAX_INTERVAL <= TRIP_END_GRACE
      /\ DOMAIN pc = Sources /\ DOMAIN wakeAt = Sources /\ wakeAt \in [Sources -> Nat]
      /\ DOMAIN boards = Sources
      /\ \A s \in Sources : \A t \in DOMAIN archive[s] : archive[s][t] \in TripRecord
  BY SchedulerAssumption DEF IInv, TypeOK, Maps
<1>2. \A s \in Sources : Seen(s)
  BY DEF InSight
<1>3. CASE Tick
  <2>1. /\ UNCHANGED <<pc, wakeAt, boards, archive>> /\ now' = now + 1
        /\ \A s \in Sources : pc[s] \notin {"judge", "settle"}
        /\ \A s \in Sources : pc[s] = "sleep" => now < wakeAt[s]
    BY <1>3 DEF Tick, Idle, poll, AwaitPoints, LookupPoints
  <2>2. QED BY <1>1, <1>2, <2>1 DEF InSight
<1>4. CASE Sweep
  <2>1. UNCHANGED <<now, pc, wakeAt, boards>>
    BY <1>4 DEF Sweep, poll
  <2>2. ASSUME NEW s \in Sources, pc[s] \in {"sleep", "judge", "settle"}, NEW t \in DOMAIN boards[s]
        PROVE  t \in DOMAIN archive'[s] /\ archive'[s][t] = archive[s][t]
    <3>1. t \in DOMAIN archive[s] /\ Live(archive[s][t])
      BY <1>2, <2>2
    <3>2. now <= archive[s][t].last_seen + TRIP_END_GRACE
      BY <1>1, <1>2, <2>2, <3>1 DEF TripRecord
    <3>3. Retire(archive[s][t]) = archive[s][t]
      BY <1>1, <3>1, <3>2 DEF Retire, TripRecord
    <3>4. QED BY <1>4, <3>1, <3>3, SweepShape DEF IInv
  <2>3. QED BY <1>2, <2>1, <2>2 DEF InSight
<1>5. ASSUME NEW s \in Sources, Poll(s)
      PROVE  InSight'
  <2> HIDE DEF Seen
  <2>1. ASSUME Seen(s)' PROVE InSight'
    <3>1. \A x \in Sources \ {s} : Seen(x)'
      BY <1>2, <1>5, PollFrame DEF Seen, IInv
    <3>2. QED BY <2>1, <3>1 DEF InSight, Seen
  <2>2. ASSUME pc'[s] \notin {"sleep", "judge", "settle"} PROVE InSight'
    BY <2>1, <2>2 DEF Seen
  <2>3. CASE Wake(s) \/ ScheduleLoaded(s) \/ Fail(s) \/ Evict(s) \/ Park(s)
    BY <1>1, <2>2, <2>3 DEF Wake, ScheduleLoaded, Fail, Evict, Park, Goto
  <2>4. ASSUME NEW obs, Answer(s, obs) PROVE InSight'
    BY <1>1, <2>2, <2>4 DEF Answer, Goto
  <2>5. ASSUME NEW offRoute, NEW atTerminal, Inspect(s, offRoute, atTerminal) PROVE InSight'
    BY <1>1, <2>2, <2>5 DEF Inspect, Goto
  <2>6. CASE FailFatally(s)
    <3>1. /\ now' = now /\ pc'[s] = "sleep" /\ wakeAt'[s] = now + FAILED_RETRY_INTERVAL
          /\ DOMAIN boards'[s] = {}
      BY <1>1, <2>6 DEF FailFatally, SleepFor, Goto, Empty, clock
    <3>2. Seen(s)'
      BY <1>1, <3>1, SchedulerAssumption DEF Seen
    <3>3. QED BY <2>1, <3>2
  <2>7. CASE FirstRecord(s) \/ SecondRecord(s)
    <3>1. /\ now' = now /\ boards' = boards /\ pc'[s] \in {"judge", "settle"}
          /\ RecordBoard(s)
      BY <1>1, <2>7 DEF FirstRecord, SecondRecord, Goto, clock
    <3>2. \A t \in DOMAIN boards[s] : t \in DOMAIN archive'[s] /\ archive'[s][t] = Upsert(s, t)
      BY <3>1, RecordShape DEF IInv
    <3>3. \A t \in DOMAIN boards[s] : Live(Upsert(s, t)) /\ Upsert(s, t).last_seen = now
      BY UpsertPossible DEF IInv
    <3>4. Seen(s)'
      BY <3>1, <3>2, <3>3 DEF Seen, Live
    <3>5. QED BY <2>1, <3>4
  <2>8. CASE Judge(s)
    <3>1. /\ UNCHANGED <<now, wakeAt, boards, archive>> /\ pc[s] = "judge"
          /\ pc'[s] \in {"positions", "settle"}
      BY <1>1, <2>8 DEF Judge, Goto, clock
    <3>2. Seen(s)'
      BY <1>2, <3>1 DEF Seen, Live
    <3>3. QED BY <2>1, <3>2
  <2>9. CASE Settle(s)
    <3>1. /\ UNCHANGED <<now, boards, archive>> /\ pc[s] = "settle" /\ pc'[s] = "sleep"
          /\ wakeAt'[s] = now + NextInterval(s)
      BY <1>1, <2>9 DEF Settle, SleepFor, Goto, clock
    <3>2. NextInterval(s) \in Nat /\ NextInterval(s) <= MAX_INTERVAL
      BY NextIntervalBounds, SchedulerAssumption DEF IInv
    <3>3. Seen(s)'
      BY <1>1, <1>2, <3>1, <3>2 DEF Seen, Live
    <3>4. QED BY <2>1, <3>3
  <2>10. QED BY <1>5, <2>3, <2>4, <2>5, <2>6, <2>7, <2>8, <2>9 DEF Poll
<1>6. QED BY <1>3, <1>4, <1>5 DEF Next

LEMMA TimedInvariance == Spec => [](IInv /\ Aging /\ InSight)
<1>1. Init => IInv /\ Aging /\ InSight
  <2> SUFFICES ASSUME Init PROVE IInv /\ Aging /\ InSight
    OBVIOUS
  <2>1. \A s \in Sources : DOMAIN archive[s] = {} /\ DOMAIN boards[s] = {}
    BY DEF Init, Empty
  <2>2. Aging
    BY <2>1, SchedulerAssumption DEF Init, Aging
  <2>3. InSight
    BY <2>1 DEF Init, InSight
  <2>4. QED BY <2>2, <2>3, InitHolds
<1>2. IInv /\ Aging /\ InSight /\ [Next]_vars => (IInv /\ Aging /\ InSight)'
  <2> SUFFICES ASSUME IInv, Aging, InSight, [Next]_vars PROVE (IInv /\ Aging /\ InSight)'
    OBVIOUS
  <2>1. CASE Next
    BY <2>1, InvariantStep, AgingKept, InSightKept
  <2>2. CASE UNCHANGED vars
    <3>1. (Aging /\ InSight)'
      BY <2>2 DEF vars, clock, poll, Aging, InSight, Live
    <3>2. QED BY <2>2, <3>1, InvariantStep
  <2>3. QED BY <2>1, <2>2
<1>3. QED BY <1>1, <1>2, PTL DEF Spec

\* TRIP_END_GRACE keeps its word: while a feed's task sleeps, however far it has
\* backed off, no sweep retires a trip of its board.
THEOREM NoGapEverRetires == Spec => []NoGapRetires
<1>1. InSight => NoGapRetires
  BY DEF InSight, NoGapRetires
<1>2. QED BY <1>1, TimedInvariance, PTL

\* sweep_archive bounds every stay: a trip no poll records any more is ended by
\* the tick after its grace and gone by the tick after its retention.
THEOREM TheArchiveIsAged == Spec => []ArchiveIsAged
<1>1. IInv /\ Aging => ArchiveIsAged
  <2> SUFFICES ASSUME IInv, Aging, NEW s \in Sources, NEW t \in DOMAIN archive[s]
               PROVE  IF Live(archive[s][t])
                        THEN now - archive[s][t].last_seen <= TRIP_END_GRACE + PRINT_INTERVAL
                        ELSE now - archive[s][t].ended_at < MAX_RETENTION + PRINT_INTERVAL
    BY DEF ArchiveIsAged
  <2>1. now \in Nat /\ nextSweep \in Nat /\ archive[s][t] \in TripRecord
    BY DEF IInv, TypeOK, Maps
  <2>2. QED BY <2>1, SchedulerAssumption DEF Aging, TripRecord, Live
<1>2. QED BY <1>1, TimedInvariance, PTL

-----------------------------------------------------------------------------
(* What a failed feed has left.                                            *)

Idled(s) ==
  /\ ~hot[s] /\ boards[s] = Empty /\ tracks[s] = Empty /\ pc[s] # "positions"
  /\ \A t \in DOMAIN archive[s] :
       Live(archive[s][t]) =>
         pc[s] = "sleep" /\ archive[s][t].last_seen + FAILED_RETRY_INTERVAL <= wakeAt[s]

\* A failed feed's live records were last seen before it failed, and the sweeps
\* end them before its first retry.
Cold ==
  /\ \A s \in Sources : \A t \in DOMAIN archive[s] : archive[s][t].last_seen <= now
  /\ \A s \in Sources : state[s] = "Failed" => Idled(s)

\* A feed without a board has no record that a step did not find there, live as
\* it was or ended.
LEMMA BoardlessArchive ==
  ASSUME TypeOK, Next, NEW s \in Sources, boards[s] = Empty, NEW t \in DOMAIN archive'[s],
         Live(archive'[s][t])
  PROVE  /\ t \in DOMAIN archive[s] /\ Live(archive[s][t])
         /\ archive'[s][t].last_seen = archive[s][t].last_seen
<1>1. t \notin DOMAIN boards[s]
  BY DEF Empty
<1>2. /\ t \in DOMAIN archive[s] /\ After(archive'[s][t], archive[s][t]) /\ now \in Nat
  BY <1>1, ArchiveStep DEF TypeOK
<1>3. CASE Sweep
  <2>1. archive'[s][t] = Retire(archive[s][t]) /\ archive[s][t] \in TripRecord
    BY <1>2, <1>3, SweepShape DEF TypeOK, Maps
  <2>2. QED BY <1>2, <2>1, RetireKeeps
<1>4. CASE ~Sweep
  BY <1>2, <1>4 DEF After, Same, Live, Running
<1>5. QED BY <1>3, <1>4

LEMMA ColdKept ==
  ASSUME FAILED_RETRY_INTERVAL > TRIP_END_GRACE + PRINT_INTERVAL,
         IInv, Aging, Cold, Next
  PROVE  Cold'
<1>1. /\ now \in Nat /\ nextSweep \in Nat
      /\ DOMAIN pc = Sources /\ DOMAIN wakeAt = Sources /\ wakeAt \in [Sources -> Nat]
      /\ DOMAIN hot = Sources /\ DOMAIN state = Sources
      /\ DOMAIN boards = Sources /\ DOMAIN tracks = Sources
      /\ \A s \in Sources : \A t \in DOMAIN archive[s] : archive[s][t].last_seen \in Nat
  BY SchedulerAssumption DEF IInv, TypeOK, Maps, TripRecord
<1>2. /\ PRINT_INTERVAL \in Nat
      /\ TRIP_END_GRACE \in Nat /\ FAILED_RETRY_INTERVAL \in Nat
  BY SchedulerAssumption
<1>3. now' \in Nat /\ now <= now'
  BY <1>1, PollFrame DEF Next, Sweep, Tick, IInv
<1>4. ASSUME NEW s \in Sources, NEW t \in DOMAIN archive'[s]
      PROVE  archive'[s][t].last_seen <= now'
  <2>1. CASE t \in DOMAIN boards[s] /\ archive'[s][t] = Upsert(s, t)
    BY <1>1, <1>3, <2>1, UpsertPossible DEF IInv
  <2>2. CASE t \in DOMAIN archive[s] /\ After(archive'[s][t], archive[s][t])
    BY <1>1, <1>3, <2>2 DEF After, Same, Cold
  <2>3. QED BY <2>1, <2>2, ArchiveStep DEF IInv
<1>5. ASSUME NEW s \in Sources, Idled(s), UNCHANGED <<boards, tracks, pc, wakeAt, hot>>
      PROVE  Idled(s)'
  BY <1>5, BoardlessArchive DEF Idled, IInv, Live
<1>6. CASE Tick \/ Sweep
  BY <1>4, <1>5, <1>6 DEF Cold, Tick, Sweep, poll, health
<1>7. ASSUME NEW s \in Sources, Poll(s)
      PROVE  Cold'
  <2>1. \A x \in Sources \ {s} : /\ pc'[x] = pc[x] /\ wakeAt'[x] = wakeAt[x] /\ boards'[x] = boards[x]
                                 /\ archive'[x] = archive[x] /\ hot'[x] = hot[x]
                                 /\ state'[x] = state[x] /\ tracks'[x] = tracks[x]
    <3>1. \A x \in Sources \ {s} : hot'[x] = hot[x] /\ state'[x] = state[x]
                                   /\ tracks'[x] = tracks[x]
      BY <1>1, <1>7 DEF Poll, Wake, Answer, Evict, ScheduleLoaded, Fail, FailFatally, FirstRecord,
                        Judge, Inspect, Park, SecondRecord, Settle, SleepFor, Goto, health
    <3>2. QED BY <1>7, <3>1, PollFrame DEF IInv
  <2>2. ASSUME state'[s] = "Failed" => Idled(s)' PROVE Cold'
    <3>1. \A x \in Sources \ {s} : state'[x] = "Failed" => Idled(x)'
      BY <2>1 DEF Cold, Idled, Live
    <3>2. QED BY <1>4, <2>2, <3>1 DEF Cold
  <2>3. CASE \E mentioned \in SUBSET Trips :
               \E obs \in [mentioned -> Observations] : Answer(s, obs)
    <3>1. state'[s] = "Active"
      BY <1>1, <2>3 DEF Answer
    <3>2. QED BY <2>2, <3>1
  <2>4. CASE FailFatally(s)
    <3>1. /\ hot'[s] = FALSE /\ boards'[s] = Empty /\ pc'[s] = "sleep"
          /\ tracks'[s] = Empty /\ archive' = archive
          /\ wakeAt'[s] = now + FAILED_RETRY_INTERVAL
      BY <1>1, <2>4 DEF FailFatally, SleepFor, Goto
    <3>2. Idled(s)'
      BY <1>1, <1>2, <3>1 DEF Idled, Cold
    <3>3. QED BY <2>2, <3>2
  <2>5. ASSUME state[s] = "Failed",
               Wake(s) \/ Evict(s) \/ ScheduleLoaded(s) \/ Fail(s) \/ FirstRecord(s) \/ Judge(s)
                 \/ (\E offRoute, atTerminal : Inspect(s, offRoute, atTerminal))
                 \/ Park(s) \/ SecondRecord(s) \/ Settle(s)
        PROVE  Idled(s)'
    <3>1. Idled(s)
      BY <2>5 DEF Cold
    <3>2. \A t \in DOMAIN archive[s] : Live(archive[s][t]) =>
            pc[s] = "sleep" /\ archive[s][t].last_seen + FAILED_RETRY_INTERVAL <= wakeAt[s]
      BY <3>1 DEF Idled
    <3>3. CASE Wake(s)
      <4>1. /\ wakeAt[s] <= now /\ UNCHANGED <<now, hot, boards, tracks, archive>> /\ pc'[s] = "fetch"
        BY <1>1, <3>3 DEF Wake, Goto, health, clock
      <4>2. ASSUME NEW t \in DOMAIN archive[s], Live(archive[s][t])
            PROVE  FALSE
        <5>1. archive[s][t].last_seen + FAILED_RETRY_INTERVAL <= now
          BY <1>1, <1>2, <3>2, <4>1, <4>2
        <5>2. nextSweep - PRINT_INTERVAL - archive[s][t].last_seen <= TRIP_END_GRACE
              /\ now <= nextSweep
          BY <4>2 DEF Aging
        <5>3. QED BY <1>1, <1>2, <4>2, <5>1, <5>2
      <4>3. QED BY <3>1, <4>1, <4>2 DEF Idled
    <3>4. ASSUME pc[s] # "sleep"
          PROVE  /\ \A t \in DOMAIN archive'[s] : ~Live(archive'[s][t])
                 /\ ~OnLeaderboard(s)
      <4>1. \A t \in DOMAIN archive[s] : ~Live(archive[s][t])
        BY <3>2, <3>4
      <4>2. \A t \in DOMAIN archive'[s] : ~Live(archive'[s][t])
        BY <3>1, <4>1, BoardlessArchive DEF Idled, IInv
      <4>3. QED BY <4>1, <4>2 DEF OnLeaderboard
    <3>5. CASE Evict(s) \/ ScheduleLoaded(s) \/ Fail(s) \/ FirstRecord(s) \/ Park(s) \/ SecondRecord(s)
      <4>1. /\ UNCHANGED <<hot, boards, tracks>> /\ pc[s] # "sleep" /\ pc'[s] \notin {"sleep", "positions"}
        BY <1>1, <3>5 DEF Evict, ScheduleLoaded, Fail, FirstRecord, Park, SecondRecord, Goto, health
      <4>2. QED BY <3>1, <3>4, <4>1 DEF Idled
    <3>6. CASE Judge(s)
      <4>1. pc[s] = "judge" /\ UNCHANGED <<hot, boards, tracks>>
        BY <3>6 DEF Judge, health
      <4>2. pc'[s] = "settle"
        BY <1>1, <3>4, <3>6, <4>1 DEF Judge, Goto
      <4>3. QED BY <3>1, <3>4, <4>1, <4>2 DEF Idled
    <3>7. CASE \E offRoute, atTerminal : Inspect(s, offRoute, atTerminal)
      BY <3>1, <3>7 DEF Idled, Inspect
    <3>8. CASE Settle(s)
      <4>1. /\ pc[s] = "settle" /\ UNCHANGED <<boards, tracks>> /\ pc'[s] = "sleep"
            /\ hot'[s] = OnLeaderboard(s)
        BY <1>1, <3>8 DEF Settle, SleepFor, Goto
      <4>2. ~OnLeaderboard(s)
        BY <3>4, <4>1
      <4>3. QED BY <3>1, <3>4, <4>1, <4>2 DEF Idled
    <3>9. QED BY <2>5, <3>3, <3>5, <3>6, <3>7, <3>8
  <2>6. CASE ~FailFatally(s) /\ ~(\E mentioned \in SUBSET Trips :
                                  \E obs \in [mentioned -> Observations] : Answer(s, obs))
    <3>1. Wake(s) \/ Evict(s) \/ ScheduleLoaded(s) \/ Fail(s) \/ FirstRecord(s) \/ Judge(s)
            \/ (\E offRoute, atTerminal : Inspect(s, offRoute, atTerminal))
            \/ Park(s) \/ SecondRecord(s) \/ Settle(s)
      BY <1>7, <2>6 DEF Poll
    <3>2. state' = state
      BY <3>1 DEF Wake, Evict, ScheduleLoaded, Fail, FirstRecord, Judge, Inspect, Park,
                  SecondRecord, Settle, health
    <3>3. QED BY <2>2, <2>5, <3>1, <3>2
  <2>7. QED BY <2>3, <2>4, <2>6
<1>8. QED BY <1>6, <1>7 DEF Next

\* A feed out of the rotation leaves nothing to the wall: as long as a failed feed
\* waits longer than a live record lasts, every trip it had has ended before it
\* is polled again, and none makes it hot.
THEOREM FailedStaysCold ==
  ASSUME FAILED_RETRY_INTERVAL > TRIP_END_GRACE + PRINT_INTERVAL
  PROVE  Spec => []FailedIsCold
<1>1. Init => Cold
  BY DEF Init, Cold, Empty
<1>2. IInv /\ Aging /\ Cold /\ [Next]_vars => Cold'
  <2> SUFFICES ASSUME IInv, Aging, Cold, [Next]_vars PROVE Cold'
    OBVIOUS
  <2>1. CASE Next
    BY <2>1, ColdKept
  <2>2. CASE UNCHANGED vars
    BY <2>2 DEF vars, clock, poll, health, Cold, Idled, Live
  <2>3. QED BY <2>1, <2>2
<1>3. Cold => FailedIsCold
  BY DEF Cold, Idled, FailedIsCold
<1>4. QED BY <1>1, <1>2, <1>3, TimedInvariance, PTL DEF Spec

-----------------------------------------------------------------------------
(* The cap of the archive.                                                 *)

\* A set of numbers has a least one.
LEMMA LeastScore ==
  ASSUME NEW S, S \subseteq Nat, S # {}
  PROVE  \E n \in S : \A m \in S : n <= m
<1> DEFINE Less == {p \in Nat \X Nat : p[1] < p[2]}
<1>1. IsWellFoundedOn(Less, Nat)
  BY NatLessThanWellFounded, Zenon DEF OpToRel
<1>2. \A m, n \in Nat : m < n => <<m, n>> \in Less
  OBVIOUS
<1> HIDE DEF Less
<1>3. PICK n \in S : \A m \in S : ~(<<m, n>> \in Less)
  BY <1>1, WFMin
<1>4. ASSUME NEW m \in S
      PROVE  n <= m
  <2>1. m \in Nat /\ n \in Nat
    BY Zenon
  <2>2. ~(m < n)
    BY <1>2, <1>3, <2>1
  <2>3. QED
    BY <2>1, <2>2
<1>5. QED
  BY <1>4

\* Whoever scores at least k.
AtLeast(A, f, k) == {j \in A : f[j] >= f[k]}

\* Keeping those whom at most cap reach keeps at most cap: the worst of them is
\* reached by all the others.
LEMMA CutoffCaps ==
  ASSUME NEW A, IsFiniteSet(A), NEW f, \A j \in A : f[j] \in Nat, NEW cap \in Nat
  PROVE  Cardinality({k \in A : ~(Cardinality(AtLeast(A, f, k)) > cap)}) <= cap
<1> DEFINE kept == {k \in A : ~(Cardinality(AtLeast(A, f, k)) > cap)}
<1>1. CASE kept = {}
  <2>1. Cardinality(kept) = 0
    BY <1>1, FS_EmptySet
  <2> HIDE DEF kept
  <2>2. 0 <= cap
    OBVIOUS
  <2>3. Cardinality(kept) <= cap
    BY <2>1, <2>2
  <2>4. QED
    BY <2>3 DEF kept
<1>2. CASE kept # {}
  <2> DEFINE scores == {f[k] : k \in kept}
  <2>1. scores \subseteq Nat /\ scores # {}
    BY <1>2
  <2>2. PICK n \in scores : \A m \in scores : n <= m
    BY <2>1, LeastScore
  <2>3. PICK k \in kept : f[k] = n
    BY <2>2
  <2>4. kept \subseteq AtLeast(A, f, k)
    <3>1. \A j \in kept : f[j] \in Nat /\ f[k] <= f[j]
      BY <2>2, <2>3
    <3>2. f[k] \in Nat
      BY <2>3
    <3>3. QED
      BY <3>1, <3>2 DEF AtLeast
  <2>5. IsFiniteSet(AtLeast(A, f, k)) /\ IsFiniteSet(kept)
    <3>1. AtLeast(A, f, k) \in SUBSET A /\ kept \in SUBSET A
      BY DEF AtLeast
    <3> HIDE DEF kept
    <3>2. QED
      BY <3>1, FS_Subset
  <2>6. ~(Cardinality(AtLeast(A, f, k)) > cap)
    BY <2>3
  <2> HIDE DEF kept
  <2>7. Cardinality(kept) <= Cardinality(AtLeast(A, f, k))
    BY <2>4, <2>5, FS_Subset
  <2>8. Cardinality(AtLeast(A, f, k)) \in Nat /\ Cardinality(kept) \in Nat
    BY <2>5, FS_CardinalityType
  <2>9. Cardinality(kept) <= cap
    BY <2>6, <2>7, <2>8
  <2>10. QED
    BY <2>9 DEF kept
<1>3. QED
  BY <1>1, <1>2

\* There are finitely many records.
LEMMA FinitelyRecorded ==
  ASSUME NEW arch
  PROVE  IsFiniteSet(Recorded(arch)) /\ IsFiniteSet(Finished(arch))
<1>1. IsFiniteSet(Sources \X Trips)
  BY FinitelyMany, FS_Product
<1>2. Recorded(arch) \in SUBSET (Sources \X Trips)
  BY DEF Recorded
<1>3. IsFiniteSet(Recorded(arch))
  BY <1>1, <1>2, FS_Subset
<1>4. Finished(arch) \in SUBSET Recorded(arch)
  BY DEF Finished
<1>5. QED
  BY <1>3, <1>4, FS_Subset

\* A score is a number, zero once a record has expired.
LEMMA ScoreIs ==
  ASSUME NEW r \in TripRecord, now \in Nat
  PROVE  Score(r, now) \in Nat /\ (Expired(r) => Score(r, now) = 0)
<1>1. r.peak \in Nat /\ r.ended_at \in Int /\ MAX_RETENTION \in Nat \ {0}
  BY SchedulerAssumption DEF TripRecord, Running
<1>2. CASE Live(r)
  <2>1. Score(r, now) = r.peak * MAX_RETENTION
    BY <1>2 DEF Score
  <2>2. r.peak * MAX_RETENTION \in Nat
    BY <1>1
  <2>3. QED
    BY <1>2, <2>1, <2>2 DEF Expired
<1>3. CASE ~Live(r)
  <2>1. PICK d : d = Decay(now - r.ended_at)
    OBVIOUS
  <2>2. d \in Nat
    BY <1>1, <2>1 DEF Decay
  <2>3. Score(r, now) = r.peak * d
    BY <1>3, <2>1 DEF Score
  <2>4. Expired(r) => d = 0
    BY <1>1, <2>1 DEF Expired, Decay
  <2>5. r.peak * d \in Nat /\ r.peak * 0 = 0
    BY <1>1, <2>2
  <2>6. QED
    BY <2>3, <2>4, <2>5
<1>4. QED
  BY <1>2, <1>3

\* The archive after the first two passes.
Swept == [s \in Sources |-> Aged(archive[s])]

\* What the first two passes leave.
LEMMA SweptIs ==
  ASSUME TypeOK
  PROVE  /\ now \in Nat /\ DOMAIN archive = Sources
         /\ \A s \in Sources :
              /\ DOMAIN archive[s] \subseteq Trips
              /\ \A t \in DOMAIN archive[s] : Retire(archive[s][t]) \in TripRecord
              /\ DOMAIN Swept[s] = {t \in DOMAIN archive[s] : ~Expired(Retire(archive[s][t]))}
              /\ \A t \in DOMAIN Swept[s] : Swept[s][t] = Retire(archive[s][t])
<1>1. /\ now \in Nat /\ DOMAIN archive = Sources
      /\ \A s \in Sources : /\ DOMAIN archive[s] \subseteq Trips
                            /\ \A t \in DOMAIN archive[s] : archive[s][t] \in TripRecord
  BY DEF TypeOK, Maps
<1>2. ASSUME NEW s \in Sources
      PROVE  /\ DOMAIN Swept[s] = {t \in DOMAIN archive[s] : ~Expired(Retire(archive[s][t]))}
             /\ \A t \in DOMAIN Swept[s] : Swept[s][t] = Retire(archive[s][t])
  <2> DEFINE retired == [t \in DOMAIN archive[s] |-> Retire(archive[s][t])]
             kept == {t \in DOMAIN retired : ~Expired(retired[t])}
  <2>1. Swept[s] = Restrict(retired, kept)
    BY DEF Swept, Aged
  <2>2. DOMAIN Swept[s] = kept /\ \A t \in kept : Swept[s][t] = retired[t]
    BY <2>1 DEF Restrict
  <2>3. QED
    BY <2>2
<1>3. QED
  BY <1>1, <1>2, RetireKeeps

\* A finished record of the sweep, and its score.
LEMMA SweptScores ==
  ASSUME TypeOK, NEW k \in Recorded(Swept)
  PROVE  /\ k \in Recorded(archive) /\ Record(Swept, k) = Retire(Record(archive, k))
         /\ Record(Swept, k) \in TripRecord
         /\ Score(Record(Swept, k), now) \in Nat
<1>1. /\ k = <<k[1], k[2]>> /\ k[1] \in Sources /\ k[2] \in Trips /\ k[2] \in DOMAIN Swept[k[1]]
  BY DEF Recorded
<1>2. k[2] \in DOMAIN archive[k[1]] /\ Swept[k[1]][k[2]] = Retire(archive[k[1]][k[2]])
  BY <1>1, SweptIs
<1>3. now \in Nat /\ Record(Swept, k) = Retire(Record(archive, k)) /\ Record(Swept, k) \in TripRecord
  BY <1>1, <1>2, SweptIs DEF Record
<1>4. k \in Recorded(archive)
  BY <1>1, <1>2 DEF Recorded
<1>5. QED
  BY <1>3, <1>4, ScoreIs

\* The third pass in the words of AtLeast.
LEMMA Cutoff ==
  ASSUME NEW k \in Finished(Swept)
  PROVE  LET f == [j \in Finished(Swept) |-> Score(Record(Swept, j), now)]
         IN AtOrBelowCutoff(Swept, k)
              <=> Cardinality(AtLeast(Finished(Swept), f, k)) > ARCHIVE_CAP
<1> DEFINE f == [j \in Finished(Swept) |-> Score(Record(Swept, j), now)]
<1>1. AtLeast(Finished(Swept), f, k)
        = {j \in Finished(Swept) : Score(Record(Swept, j), now) >= Score(Record(Swept, k), now)}
  BY DEF AtLeast
<1>2. QED
  BY <1>1 DEF AtOrBelowCutoff

\* What the third pass leaves.
LEMMA CappedIs ==
  ASSUME Sweep
  PROVE  /\ archive' = Capped(Swept)
         /\ \A k \in Sources \X Trips :
              k \in Recorded(archive')
                <=> k \in Recorded(Swept)
                      /\ (Live(Record(Swept, k)) \/ ~AtOrBelowCutoff(Swept, k))
         /\ \A k \in Recorded(archive') : Record(archive', k) = Record(Swept, k)
<1>1. archive' = Capped(Swept)
  BY DEF Sweep, Swept
<1>2. ASSUME NEW s \in Sources
      PROVE  /\ DOMAIN archive'[s] = {t \in DOMAIN Swept[s] :
                                        Live(Swept[s][t]) \/ ~AtOrBelowCutoff(Swept, <<s, t>>)}
             /\ \A t \in DOMAIN archive'[s] : archive'[s][t] = Swept[s][t]
  BY <1>1 DEF Capped, Restrict
<1>3. ASSUME NEW k \in Sources \X Trips
      PROVE  /\ k \in Recorded(archive')
                  <=> k \in Recorded(Swept)
                        /\ (Live(Record(Swept, k)) \/ ~AtOrBelowCutoff(Swept, k))
             /\ k \in Recorded(archive') => Record(archive', k) = Record(Swept, k)
  <2>1. k = <<k[1], k[2]>> /\ k[1] \in Sources
    OBVIOUS
  <2>2. /\ k \in Recorded(archive') <=> k[2] \in DOMAIN archive'[k[1]]
        /\ k \in Recorded(Swept) <=> k[2] \in DOMAIN Swept[k[1]]
    BY DEF Recorded
  <2>3. Record(Swept, k) = Swept[k[1]][k[2]] /\ Record(archive', k) = archive'[k[1]][k[2]]
    BY DEF Record
  <2>4. QED
    BY <1>2, <2>1, <2>2, <2>3
<1>4. \A k \in Recorded(archive') : k \in Sources \X Trips
  BY DEF Recorded
<1>5. QED
  BY <1>1, <1>3, <1>4

\* A sweep leaves no more finished trips than the cap.
LEMMA SweepCaps ==
  ASSUME TypeOK, Sweep
  PROVE  Cardinality(Finished(archive')) <= ARCHIVE_CAP
<1> DEFINE A == Finished(Swept)
           f == [j \in A |-> Score(Record(Swept, j), now)]
           kept == {k \in A : ~(Cardinality(AtLeast(A, f, k)) > ARCHIVE_CAP)}
<1>1. IsFiniteSet(A) /\ ARCHIVE_CAP \in Nat
  BY FinitelyRecorded, SchedulerAssumption
<1>2. \A j \in A : f[j] \in Nat
  BY SweptScores DEF Finished
<1>3. Cardinality(kept) <= ARCHIVE_CAP
  <2> HIDE DEF A, f
  <2>1. QED
    BY <1>1, <1>2, CutoffCaps
<1>4. \A k \in Finished(archive') : k \in kept
  <2> SUFFICES ASSUME NEW k \in Finished(archive')
               PROVE  k \in kept
    OBVIOUS
  <2>1. k \in Sources \X Trips /\ k \in Recorded(archive') /\ ~Live(Record(archive', k))
    BY DEF Finished, Recorded
  <2>2. k \in Recorded(Swept) /\ ~Live(Record(Swept, k)) /\ ~AtOrBelowCutoff(Swept, k)
    BY <2>1, CappedIs
  <2>3. k \in A
    BY <2>2 DEF Finished
  <2>4. QED
    BY <2>2, <2>3, Cutoff
<1>5. IsFiniteSet(kept) /\ Finished(archive') \in SUBSET kept
  <2>1. kept \in SUBSET A
    OBVIOUS
  <2> HIDE DEF A, kept
  <2>2. QED
    BY <1>1, <1>4, <2>1, FS_Subset
<1>6. /\ Cardinality(Finished(archive')) <= Cardinality(kept)
      /\ Cardinality(Finished(archive')) \in Nat /\ Cardinality(kept) \in Nat
  <2> HIDE DEF kept
  <2>1. QED
    BY <1>5, FS_Subset, FS_CardinalityType
<1> HIDE DEF kept
<1>7. QED
  BY <1>1, <1>3, <1>6

\* Who a sweep takes, and who scored as well.
Rivals(k) ==
  {j \in Recorded(archive) \ {k} :
     LET other == Retire(Record(archive, j))
     IN ~Live(other) /\ Score(other, now) >= Score(Retire(Record(archive, k)), now)}

LEMMA SweepTakes ==
  ASSUME TypeOK, Sweep, NEW k \in Recorded(archive) \ Recorded(archive')
  PROVE  LET r == Retire(Record(archive, k)) IN
           /\ ~Live(r)
           /\ Score(r, now) = 0 \/ Cardinality(Rivals(k)) >= ARCHIVE_CAP
<1> DEFINE r == Retire(Record(archive, k))
<1>1. k \in Sources \X Trips /\ k = <<k[1], k[2]>> /\ k[1] \in Sources /\ k[2] \in DOMAIN archive[k[1]]
  BY DEF Recorded
<1>2. now \in Nat /\ r = Retire(archive[k[1]][k[2]]) /\ r \in TripRecord
  BY <1>1, SweptIs DEF Record
<1>3. k \in Recorded(Swept) <=> ~Expired(r)
  BY <1>1, <1>2, SweptIs DEF Recorded
<1>4. CASE Expired(r)
  BY <1>2, <1>4, ScoreIs DEF Expired
<1>5. CASE ~Expired(r)
  <2> DEFINE A == Finished(Swept)
             f == [j \in A |-> Score(Record(Swept, j), now)]
             B == AtLeast(A, f, k)
  <2>1. k \in Recorded(Swept) /\ Record(Swept, k) = r
    BY <1>3, <1>5, SweptScores
  <2>2. ~Live(r) /\ AtOrBelowCutoff(Swept, k)
    BY <1>1, <2>1, CappedIs
  <2>3. k \in A
    BY <2>1, <2>2 DEF Finished
  <2>4. Cardinality(B) > ARCHIVE_CAP
    BY <2>2, <2>3, Cutoff
  <2>5. IsFiniteSet(B)
    <3>1. IsFiniteSet(A) /\ B \in SUBSET A
      BY FinitelyRecorded DEF AtLeast
    <3> HIDE DEF A, B
    <3>2. QED
      BY <3>1, FS_Subset
  <2>6. k \in B
    <3>1. f[k] \in Nat
      BY <2>1, <2>3, SweptScores
    <3>2. QED
      BY <2>3, <3>1 DEF AtLeast
  <2>7. B \ {k} \in SUBSET Rivals(k)
    <3> SUFFICES ASSUME NEW j \in B \ {k}
                 PROVE  j \in Rivals(k)
      OBVIOUS
    <3>1. j \in A /\ f[j] >= f[k] /\ j # k
      BY DEF AtLeast
    <3>2. j \in Recorded(Swept) /\ ~Live(Record(Swept, j))
      BY <3>1 DEF Finished
    <3>3. j \in Recorded(archive) /\ Record(Swept, j) = Retire(Record(archive, j))
      BY <3>2, SweptScores
    <3>4. f[j] = Score(Retire(Record(archive, j)), now) /\ f[k] = Score(r, now)
      BY <2>1, <2>3, <3>1, <3>3
    <3>5. QED
      BY <3>1, <3>2, <3>3, <3>4 DEF Rivals
  <2>8. IsFiniteSet(Rivals(k))
    <3>1. Rivals(k) \in SUBSET Recorded(archive) /\ IsFiniteSet(Recorded(archive))
      BY FinitelyRecorded DEF Rivals
    <3>2. QED
      BY <3>1, FS_Subset
  <2> HIDE DEF B
  <2>9. Cardinality(B \ {k}) = Cardinality(B) - 1 /\ IsFiniteSet(B \ {k})
    BY <2>5, <2>6, FS_RemoveElement
  <2>10. /\ Cardinality(B \ {k}) <= Cardinality(Rivals(k))
         /\ Cardinality(Rivals(k)) \in Nat /\ Cardinality(B) \in Nat
    BY <2>5, <2>7, <2>8, FS_Subset, FS_CardinalityType
  <2>11. Cardinality(Rivals(k)) >= ARCHIVE_CAP
    BY <2>4, <2>9, <2>10, SchedulerAssumption
  <2>12. QED
    BY <2>2, <2>11
<1>6. QED
  BY <1>4, <1>5

\* sweep_archive's three passes: the cap holds after each sweep, no live trip is
\* taken, and a finished one only for its age or for as many others that score as
\* well.
THEOREM TheCapTakesTheWorst == Spec => SweepTakesTheWorst
<1> DEFINE Step == nextSweep' # nextSweep =>
        /\ Cardinality(Finished(archive')) <= ARCHIVE_CAP
        /\ \A k \in Recorded(archive) \ Recorded(archive') :
             LET r == Retire(Record(archive, k)) IN
               /\ ~Live(r)
               /\ \/ Score(r, now) = 0
                  \/ Cardinality({j \in Recorded(archive) \ {k} :
                       LET other == Retire(Record(archive, j))
                       IN ~Live(other) /\ Score(other, now) >= Score(r, now)})
                       >= ARCHIVE_CAP
<1>1. ASSUME TypeOK, [Next]_vars
      PROVE  Step
  <2> SUFFICES ASSUME nextSweep' # nextSweep
               PROVE  Step
    OBVIOUS
  <2>1. Sweep
    <3>1. ASSUME NEW s \in Sources, Poll(s)
          PROVE  nextSweep' = nextSweep
      BY <3>1 DEF Poll, Wake, Answer, Evict, ScheduleLoaded, Fail, FailFatally, FirstRecord,
                  Judge, Inspect, Park, SecondRecord, Settle, clock
    <3>2. QED
      BY <1>1, <3>1 DEF Next, Tick, vars, clock
  <2>2. Cardinality(Finished(archive')) <= ARCHIVE_CAP
    BY <1>1, <2>1, SweepCaps
  <2>3. QED
    BY <1>1, <2>1, <2>2, SweepTakes DEF Rivals
<1>2. QED
  BY <1>1, TypeCorrect, PTL DEF SweepTakesTheWorst, Spec
=============================================================================
