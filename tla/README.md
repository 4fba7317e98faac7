# A verification of America's Most Delayed

The server polls some five hundred transit feeds, decides which reported delays
it believes, keeps the worst ones in an archive that ages, and streams that
archive and the health of its feeds to web pages as deltas. These modules model
the decisions and the protocols of that program in TLA+, check them on small
instances with TLC, and prove the central ones for every instance with TLAPS: which
delays are credited, what the archive may hold and when it must let go, and that a
page mirrors the server's board.

`tlc -config X.cfg M` checks one run of `PROJECT.json`; `tlapm M_proofs.tla` checks
the proofs about module `M`.

## The system

| component | state | operations | properties that make it correct |
|---|---|---|---|
| Agency collection (`main.rs`, `catalogs/`, `agency.rs`, `auth.rs`) | none after startup | `collect_agencies`: hand-configured feeds, two catalogs, scope, two passes of dedup | no feed polled twice, none lost but to a better source, none polled without its key |
| Static schedule cache (`gtfs.rs`, `scheduler.rs`) | zip, SQLite index and temporary files on disk; the loaded index and the loading flag in memory | `ensure_static_loaded`, `maintain_one`, download, build, startup sweep | the index in use is of the zips on disk; nothing leaks; a failure is retried |
| Delay measurement (`delay.rs`, queries of `gtfs.rs`) | none | `delayed_trips`, `measure_delay`, `needs_static_schedule` | a delay the vehicle really has; silence at the ends of a trip |
| Trip history (`history.rs`) | feed -> trip -> `TripTrack` of six fields, one mutex | `vet`, `provenance`, `forget_source` | a credited trip was watched getting late; an honest trip is not refused |
| Score (`score.rs`) | none | `score` and its factors, decay | bounded by the delay; while watched, lowered by nothing but the stops left behind |
| Poll loop (`scheduler.rs`) | per feed: interval, state, hot, last success; the live board | `run_feed`, `poll_once` with its fetch, two `record_board`, two `on_leaderboard`, positions; failure and retry | slow feeds lose nothing, failed feeds leave nothing behind |
| Archive (`scheduler.rs`) | feed -> trip -> `TripRecord`, one mutex | `record_board`, `evict_archived`, `sweep_archive`, `on_leaderboard`, `leaderboard_snapshot` | bad data stays erased, records age out, the cap takes the worst |
| Delta streams (`wire.rs`) | seq, head, rows of the last tick | `advance`, `full` | a merge of deltas equals a full |
| Leaderboard stream (`scheduler.rs`, `api.rs`, `socket.ts`, `board.ts`) | broadcast channel, one receiver per socket; the page's seq and rows | `broadcast_update`, `subscribe`, `stream`; `apply`, `onClose`, the retry timer | the page shows published boards, whole, in order, and finally the last one |
| Status stream (the same, `report.ts`) | as above, and a fetch in flight with held deltas | `broadcast_status`, `GET /api/status`, `status_live`; `apply`, `loadFull`, `onClose` | the same, whichever of fetch and socket is faster |
| Pages (`static/src`) | selection, rotation, the map's overlays | keyboard, timers, `drawRoute` | the selected trip stays selected; the map shows its route only |
| Health check, metrics, debug capture, realtime fetch, polyline codec | counters, or none | - | - |

They meet as follows. At startup the agencies are collected and the caches swept.
One task per feed runs `poll_once`: it calls the history,
writes the live board and the archive, and reads the archive of *all* feeds to
decide how soon it polls again. The ticker sweeps the archive every 15 s and
broadcasts a delta of it; a second ticker broadcasts the feeds' status every 2 s.
A socket's task pumps what its receiver holds to the page. A maintenance task
refreshes the static schedules the poll tasks load. All of them share state behind
mutexes that are held for short sections and never across an `.await`, so the
interleavings are those of the sections and the awaits.

What is hard here: a poll is five critical sections with awaits between them, and
the sweep and the other feeds' polls come between any two; trips live in three
tables (history, board, archive) with different lifetimes and are dropped from
them at different moments; feeds fail, some for good; deltas are lost, overrun and
overtaken by a full on another connection; the server restarts and counts from
zero; two tasks download, delete and rebuild the files of one feed at once and the
process may die anywhere in between; and every delay is read out of a feed that
may be stale, repeated or wrong. `PROJECT.json` lists each of these as a hazard at its line.

## The modules

* **TripTrack**: pure operators of `history.rs` (birth, growth, direction, and
  what a poll's observations do to a feed's tracks). Shared by the next two and by
  Journey. The addition of rule 3 is `% U32`, as the release build computes it.
* **TripHistory** (`MCTripHistory`): polls at increasing times, with the history
  variable `run`, every sighting of a trip since its last gap longer than
  `ABSENCE_RESET`. The module's documentation speaks of that sequence, the code
  keeps six fields; the properties say the six fields suffice.
* **Scheduler** (`MCScheduler`): the poll loop, the archive and the ticker. `pc`
  says where a feed's task stands; there is one action between two places where
  another task can come in, so `record_board`, the two halves of
  `drop_offroute_trips` and `evict_archived` are steps of their own. `record_board`
  copies the board, may await a lookup of spans, and then writes the copy: time and
  the sweep may pass before its step, which takes the board as it is, since only the
  waiting task writes it.
* **Measurement** and **Score**: pure operators. Measurement is `measure_delay` and
  all it calls, with the three queries of the schedule it needs: the choice of the
  stop, the ceilings, the ghosts, midnight, the terminal check, one observation per
  trip. Score is the five factors in hundredths.
* **Journey** (`MCJourney`) composes them with TripTrack. It adds what the code
  cannot see: the vehicle. One action drives it, holds it up or lets it wait, one
  publishes what its agency predicts in one of the styles feeds have, with their
  faults (a corrupt prediction, an update published twice, a feed that is not
  refreshed), one loads the schedule, one polls. The properties compare the board
  with the vehicle.
* **StaticCache** (`MCStaticCache`): one feed with two zips. A step of either task
  is the work between two `.await`s or calls into the file system, so that a
  download, a poison check, a build and a rename interleave, fail and are cut by
  a crash at each of them. A file's content is the time it was written: an index
  knows the times of the zips it was imported from.
* **Agency**, **Transitland**, **MobilityData**: pure operators, from a feed
  configured by hand, an operator of the Atlas and the rows of a catalog to
  configs. **Agencies** (`MCAgencies`) is `collect_agencies`, one action for each
  config that a pass looks at, and then what `Scheduler::new` makes of the result.
* **DeltaStream**: pure operators of `wire.rs` and the merge of its clients.
* **Mirror**: the abstract specification of a live page. The server publishes
  boards one after another; the page shows one of them, whole, and never an
  earlier one than before.
* **BoardStream** (`MCBoardStream`): the leaderboard stream to one page. The
  server keeps nothing about a page that another page could see, so one is enough.
* **StatusStream** (`MCStatusStream`): the status stream to one page.
* **TripHistory_proofs**, **Scheduler_proofs**, **DeltaStream_proofs**,
  **BoardStream_proofs**, **StatusStream_proofs**, **StaticCache_proofs**,
  **Agencies_proofs**, **Journey_proofs**: the theorems and their lemmas.

Correspondence to the code, definition by definition, is in the `map` of
`PROJECT.json`. The wrong bodies in the modules (`Unbounded`, `SendSkips`, ...) are
the mutations that show each property can fail; no specification uses them.

## What each run checks

| run | instance | shows |
|---|---|---|
| `history` | 1 feed, 1 trip, delays {0, 2, 4}, stop sequences {none, 3, 5, 6, 7} of a 3-bit type, 4 s | `CreditIsWatched`: what is on a board obeyed the three rules over its whole run. `HonestIsCredible`: no trip that obeyed them is falsified, short of the wrap |
| `scheduler` | 1 feed, 1 trip, delays on both sides of the birth limit and the ceiling, fetches and loads of any duration, 9 s, which is `TRIP_END_GRACE` + `MAX_RETENTION` + 1 | `BarredStaysOut`, `CardIsPossible`, `ArchiveIsAged`, `FailedIsCold` |
| `rivals` | 2 feeds, one place on the board and one in the archive, 2 s | `NoGapRetires`, and `SweepTakesTheWorst` as an action property |
| `board_stream` | 2 trips, 2 fields, boards that make a trip enter, leave, return, change places and lose a field to null; channel of 1; 3 ticks, 1 loss, 1 restart | `NoTickIsMissed`, `MirrorsTheServer` (refinement), `Converges` (liveness) |
| `status_stream` | 2 sources, 2 fields, channel of 1; 3 ticks, 1 loss, 1 failed fetch, 1 restart of a page at rest | `MirrorsTheServer`, `IgnoredIsHeld` |
| `static_cache` | 2 zips, bodies that are schedules or broken archives, 3 files written (2 if an index is there at the start), 1 crash; any mix of fresh, old, missing and junk files at the start | `IndexIsWhole`, `BuildsLeaveNothing`, `CurrentIsOfTheCache`, `LoadedIsOfTheCache`, `LoadingIsWork`, and `FailureIsRetried` (liveness) |
| `journey` | a trip of four stops and one of three across midnight, the styles of feed `MCStyles` lists, a unit of ten minutes, 6 units, at most 3 late | `NeverLaterThanTheVehicle`, `HonestIsBelieved`, `EndpointsAreSilent`, `ScoreIsOfItsDelay`, and `ScoreNeverFalls` as an action property |
| `agencies` | some 4000 worlds: an agency that the operator's files, two operators of the Atlas and two of MobilityData may list, under shared and distinct URLs, open, locked and with or without the key; either catalog failing | `FeedsAreDistinct`, `LostToAnEarlierOne`, `UsefulnessIsKept`, `HandConfiguredWins`, `SignedOrOpen`, `SiblingsAreDistinct` |

The bounds are chosen so that the interesting cases happen: the history's clock
passes `ABSENCE_RESET`, its sequences pass the tolerance and the wrap; the
scheduler's clock passes a whole life of a record (live, retired, expired) and a
retry of a failed feed, at 5 s against the 4 s of a live record's grace and a tick; two feeds and one trip each suffice to push one off the
board and past the cap, and two seconds suffice because every interval of that
instance is one second; a channel of one overruns at the second
tick; a third tick comes after the gap; two zips are the fewest of which one can be
refreshed without the other, and three writes are both zips and the index
derived from them, by either task and in any order (a fourth takes TLC beyond five
minutes; the theorems hold for any number); the
journeys are long enough for each trip to arrive late, and their day of five units
ends while one of them is under way; three modes, two operators and two catalogs
suffice for one source to lose to another that loses in its turn. The real constants are larger (20 s to
300 s, 25 places, 400 records, 64 deltas), but the code compares them only by the
inequalities the `ASSUME`s name, above all `MAX_INTERVAL <= TRIP_END_GRACE`.

Four more runs show where the code and its own documentation disagree; each
checks one property that quotes a line of it:

| run | what the code does |
|---|---|
| `stale_board` | a poll that fails with anything but 401 or 404 goes on to `record_board` and refreshes the trips of an earlier poll: they stay live for as long as the feed is down |
| `status_removed` | the delta names a departed source by the server's internal key, so the page keeps it |
| `status_restart` | a full of the old process that lands after the close puts the page ahead of the new process, which it then ignores until it has caught up |
| `gated_polled` | of the rows of a MobilityData agency the first that says anything about keys counts for all, and that is mostly its schedule's: 95 of the 121 agencies with a locked realtime row in `feeds_v2.csv` read as open, and their endpoints are polled without a key |

`status_restart` needs a restart that overtakes a fetch. `MidFetch` lets it; the
passing run forbids it (`MidFetch = FALSE`: a restart finds no fetch in flight and
no delta held), which is exactly the assumption under which `MirrorsTheServer`
and `IgnoredIsHeld` hold. The same overtaking can replay a delta the old process
sent onto a full of the new one, since a failed fetch leaves its held deltas held.
`SignedOrOpen` of the `agencies` run leaves out just the agencies of `gated_polled`; all its
worlds are `Truthful`.

## Disagreements without a run

Met while modelling, visible in the modules, and left without a run of their own.

* *History and archive.* A trip id that returns as a new run is ranked on the peak
  of the run before (`scheduler.rs:741` against 384). A trip falsified by an
  observation that is above the ceiling or not late at all is not in the list of
  refused trips, so its record is not evicted (`history.rs:200` against 165). Each
  poll revives a trip that stands at a terminal, and the next inspection ends it
  again, later (`scheduler.rs:743` against 1005). A trip off its route is in the archive
  between the first `record_board` and the inspection that evicts it, though
  `scheduler.rs:951` has it that it never reaches the board: `BarredStaysOut` speaks of
  what follows an eviction.
* *Failed feeds.* A retry of a failed feed that fails in some other way, a timeout say,
  falls through to the ordinary back-off: the source is still `Failed`, but its interval
  is doubled and cut to `MAX_INTERVAL` (`scheduler.rs:648`), four times shorter than the
  `FAILED_RETRY_INTERVAL` at which lines 53, 216 and 550 say it is retried until it
  answers. `FailedIsCold` is about what a failed feed leaves, not how often it is asked.
* *Cache.* A refresh of a zip by one task while the other builds from the old one
  leaves an index that is newer than the zip, passes as current and is of the old
  schedule (`gtfs.rs:614` says such an index is stale): `crossed` marks these, and
  the properties leave them out. The load of a poll task may put an index into the
  map after maintenance has dropped the key for a newer one. The one `loading` flag
  is lowered by whichever task is done first. The temporary file of a *failed write*
  stays until the next start.
* *Journey.* An honest trip is refused if its feed keeps passed stops and the
  vehicle takes longer than `JUMP_SLACK` to the next one, which is why
  `HonestIsBelieved` asks for the contrary: the stop chosen jumps and the delay with
  it. A delay given for the trip as a whole, in a feed that predicts no stop
  near now, is taken before the terminal check, so `EndpointsAreSilent` speaks of
  feeds that predict one. A trip that calls at a stop twice and whose feed numbers
  no stops is looked up at its first call there (`gtfs.rs:1035`), so its delay at the
  second is that of the whole loop; the theorem about it asks for distinct stops. A feed of which some trips have delays and others only times
  never asks for the schedule the latter need (`delay.rs:201`).
  `reach` is meant to count the stops still ahead (`score.rs:177`), but is computed from
  those that were ahead when the trip's span was first looked up (`scheduler.rs:686` and
  747): the factor does not fall as the trip nears its end. `ScoreNeverFalls` is about
  the score without it.
* *Agencies.* An operator with one schedule and several modes keeps the first mode
  only, since the exact pass removes the others by their static URL, though
  `transitland.rs:205` keeps them apart. A mode without keywords may take the schedule that a later
  mode's keywords match. Usefulness ignores vehicle positions, so of two
  duplicates the one that is never polled may stay (`main.rs:168`). A
  hand-configured agency without a country is out of scope. A URL with a key in it
  differs from the catalog's, so only the fuzzy pass can find the duplicate; that
  pass compares with what it kept so far and its relation is not transitive; the
  order of MobilityData's agencies is that of a hash map.
* *Health.* `health()` looks at feeds whose latest poll succeeded, so the success of
  a feed is forgotten when its next poll fails (`scheduler.rs:1229`).
* *Page.* `drawRoute` checks after its fetch only that its trip is selected: A, B
  and A again before the first answer draws A's line twice, and the first is never
  removed (`TripMap.tsx:149`).

## Abstractions and assumptions

* Time is discrete and *urgent*: the clock moves only when every task sleeps or
  awaits and no tick is due. A task takes any time in an await when `SlowNetwork`
  is set and none otherwise. The wall clock does not go backwards; the code guards
  its subtractions against that with `saturating_sub`, and its consequences are not
  modelled.
* A feed's answer is any set of trips with any delay and stop sequence of a small
  set, at most one observation per trip id, as `delayed_trips` guarantees
  (`EachTripOnceByItsWorst`, proved of Measurement). In
  TripHistory any of the trips with a positive delay may be under the ceiling (there
  are two ceilings); in Scheduler there is one ceiling.
* In Scheduler the score is the peak delay times a linear decay. The other factors of `score.rs`
  are positive multipliers; that two live records may rank otherwise because of
  them changes which feeds are hot, not what may happen to a record. They are in Score, in
  fixed point; the logarithm is a table of the values that occur.
* In Journey a poll is one step, local time is the model's and days begin at the
  multiples of `DAY`; a day's end is there, a change of daylight saving time is not.
  The vehicle never runs early. The run's agency has a timezone (`Zoned`); without one
  there is no comparison with the schedule, which the theorems cover.
* In StaticCache a download ends in a schedule, in an archive that cannot be read,
  or in an error; junk is there at the start only. An import reads one zip per
  step. An age is a flag, raised by an action: the properties do not depend on how
  long `STATIC_TTL` is.
* In Agencies a name is its normalized base and its words in parentheses, a URL an
  endpoint and the credentials the request carries, a location a point of a line.
  What the catalogs' parsers accept is not modelled, what is made of it is. A filter is
  written as a recursion over its list (`Those`), so that it can be reasoned about.
* Which vehicles are off route or at a terminal is nondeterministic. Static loads
  are awaits of any duration with any outcome. Positions, labels and spans, which
  records carry but no decision here reads, are left out.
* The limiter of concurrent fetches is part of the duration of a fetch.
* A message is a record of the rows it carries; JSON and its text are not modelled.
  An absent field of a row and a null one show the same, as `types.ts` has it. The
  head of a message (`generated_at`, `summary`) travels whole and is left out.
* A restart loses everything in memory and all sockets. `published` and `view`, the
  number of the publication a message tells of, are history variables.
* Fairness. BoardStream: a delta that is computed is sent, a handler and a pump that
  have work go on, the network delivers what it carries, the retry timer fires.
  StaticCache: either task goes on while the process runs (each request has a
  timeout, so an await ends), a process that died is started again, and a file
  grows old. Each is a task that is runnable or a timer that is set. No tick, no
  loss, no failure, no crash and no restart is ever due: `Converges` says what
  holds once they stop, `FailureIsRetried` holds whatever fails in between.

Deadlock is not checked: each model stops at the bound of its clock or of its
ticks, or, like the collection of the agencies, when it is done.

## What is proved

In `TripHistory_proofs`, for every set of feeds, trips and observations, every
clock bound and all thresholds that satisfy `TripTrackAssumption` and
`TripHistoryAssumption` (naturals, a tolerance below the width of a sequence):

* `TypeCorrect`: `Spec => []TypeOK`;
* `OnlyWatchedDelayIsCredited`: `Spec => []CreditIsWatched`;
* `NoHonestTripIsRefused`: `Spec => []HonestIsCredible`.

The argument is one inductive invariant, `IInv`. Neither property is inductive
alone: that a track is credible says nothing about the next poll unless the six
fields are tied to the run they summarise. `Remembers(track, r)` ties them: the
birth and last fields are the run's first and last sightings, `max_sequence` is the
maximum of the run's sequences, and `credible` is equivalent to the run's honesty,
short of the wrap in one direction. The second half says that a trip *without* a
track has no run, or one whose last sighting is already too old to be extended
(`Over`): without it a forgotten trip could return into its old run. The third
says a board holds credible trips only. `HonestStep` shows that the checks of
`observe` against the fields are the rules for the appended sighting,
`ObserveRemembers` and `BornRemembers` that a step keeps `Remembers`, `FoldTrip`
lifts both to a feed, `VetInv` and `ForgetInv` to the actions, `NextInv` to `Next`.

In `Scheduler_proofs`, for every set of feeds, trips and observations, any duration
of any await, and all constants that satisfy `SchedulerAssumption`, of which the
arguments use `MAX_INTERVAL <= TRIP_END_GRACE` and that a failed feed is not retried
sooner than a working one is polled:

* `TypeCorrect`, `ErasedStaysOut` (`BarredStaysOut`) and `CardsArePossible`
  (`CardIsPossible`), from `IInv`. What the archive holds comes from the board, the
  board from the tracks: `SoundTracks` says that what a track remembers is a delay
  its trip can have had, `OfItsTrack` that a trip on a board has a credible track
  of the delay the board shows. `Erased` says that a refused trip is on no board,
  so that neither `record_board` can bring it back, and that, while it is still in
  the archive, its feed's task is about to evict it.
* `NoGapEverRetires` and `TheArchiveIsAged`, about time, from `InSight` and `Aging`.
  `InSight` says that the trips of a board whose task sleeps have live records and
  that the task wakes within `MAX_INTERVAL` of them; `Aging` that no record was past
  its grace or its retention when the last sweep ran, and that the next sweep is at
  most `PRINT_INTERVAL` away. Both rest on the urgent clock: time does not pass while
  a tick is due or a task could go on.

* `FailedStaysCold` (`FailedIsCold`), from `Cold`, if moreover a failed feed's retry comes
  later than `TRIP_END_GRACE` and a tick: what the feed
  left live in the archive was last seen before it failed (its task's `wakeAt` tells
  when), so the sweeps have ended it by the first retry, and an empty board makes
  nothing live again. The real constants are 1200 s against 600 s and 15 s.

* `TheCapTakesTheWorst` (`SweepTakesTheWorst`), if moreover there are finitely many feeds
  and trips (`FinitelyMany`). A finished trip is at or below the cutoff exactly if more
  trips than the cap has places score as well (`Cutoff`). So one that is taken has its
  rivals; and of the finitely many that are kept one scores least (`LeastScore`), all
  of them score as well as it, and hence there are no more than places (`CutoffCaps`).

In `BoardStream_proofs`, for any boards whose rows are whole and whose keys are
distinct, any capacity of the channel, and any number of ticks, losses and restarts:

* `TypeCorrect`, `NoTickEverMissed` and `ImplementsMirror`, which is `Spec =>
  MirrorsTheServer`, the refinement itself: initial states map to initial states,
  a tick and a restart to a publication, a message that is taken to `Show`, and
  everything else to a stutter.

`IInv` there says what each message in the channel and on the wire *tells*: a full
tells the board of its publication, a delta the change between two publications
that follow one another, and the publication of a message differs from its seq
by as much as the latest publication differs from the server's seq (`Placed`).
`Telling` says the channel holds the latest changes without a gap, `Chained` that
each message on the wire follows the one before it, and `Showing` that the page
shows the board its seq stands for. Without `Linked`, that a connection is empty
before its full, the first message of a new connection could be an old delta.
`DeltaStream_proofs` has what they rest on: a full shows the board it was
made from (`FullShows`), and a delta merged into what shows as the board before
shows the board after it, nulls, arrivals and departures included (`DeltaShows`).

In `StatusStream_proofs`, for any sources, fields and reports, any capacity of the
channel and any number of ticks, losses, failed fetches and restarts:

* `TypeCorrect`;
* `IgnoringIsSafe` (`IgnoredIsHeld`), if a restart finds the page at rest
  (`MidFetch = FALSE`);
* `ImplementsMirror` (`MirrorsTheServer`), if moreover every report is of the
  same sources (`SameSources`).

The runs `status_restart` and `status_removed` show that neither hypothesis can be
dropped. `IInv` says of every message in the channel, on the wire, held by the page or
in the response what it tells of the publications and that it is as far from the
latest one as its seq is from the server's (`TellsAll`, `TellsChange`, both on `Placed`);
that a response is there only while the page waits, and tells of nothing older than
what it shows (`Answering`); and that a page with a seq shows the publication of that seq
(`Fits`). No order of the messages is needed, since the page compares seqs. `ReplayedFits`
shows that a full and the deltas held during its fetch end at a published report too: an
induction over the length of the queue, done as the absence of a least counterexample.

In `StaticCache_proofs`, for any number of zips, files written and crashes, and
wherever the two tasks cross:

* `TypeCorrect`, `IndexWhole`, `BuildsClean`, `CurrentOfTheCache`, `LoadedOfTheCache`
  and `LoadingWork`, one for each safety property of the run.

`IInv` is four of those, `Progress`, which says what a task has done by the place
it is at, and `Uncrossed`, which says that as long as no pass of maintenance crosses a
poll task's load, a load has no company (`Alone`), what it has imported is still what the
cache holds (`UncrossedBuild`), and an index that exists is of the zips, or older than
the ones it is not of (`UncrossedIndex`). The properties about the cache follow from it.

In `Agencies_proofs`, for any worlds, of which `WorldsAssumption` says what the code's
types and parsers say: lists are sequences, a catalog's URL carries nothing of ours:

* `TypeCorrect`: whatever source a config comes from, its URLs are filled in;
* `DistinctFeeds`, `NothingLostTwice`, `NoneLessUseful` and `ByHandWins`;
* `NothingLockedIsPolled` (`SignedOrOpen`), which supposes that the lists are
  `Truthful` and that an agency's rows agree with each other, as the property does;
* `SiblingsShareNoSchedule` (`SiblingsAreDistinct`).

`IInv` says what is known at each stage. In the exact pass what was done is kept or
shares its feed with an earlier source that is (`Survives`), `seen` holds what is kept
and nothing else (`SeenIsKept`), and the kept are in the order listed. In the fuzzy
pass everything done is represented by a source as useful (`AsUseful`), and a
hand-configured source without an earlier twin (`Preferred`) by itself.

The others are about what the parsers make of the files, which are folds and filters of
lists of any length. `ThoseSelect` says of a filter what it leaves and in which order,
`Recursion` that a fold is defined; each fold is then shown to stay in a set that
holds what is to be known of its results: `Apart` for the slices of an operator (fewer
claimed than there are schedules leave one, `OneIsUnclaimed`, and `PickStatic` takes
it, `PickStaticPicks`), `FromFeeds` for the Atlas, `FromRows` for the rows, of which there
are finitely many agencies in any order (`MobilityAreFromRows`). `Sourced`, that no step makes
a config, takes these to the passes and to what is polled.

In `Journey_proofs`, for any timetables, styles of feed and thresholds:

* `TypeCorrect`;
* `NoTripOutrunsItsVehicle` (`NeverLaterThanTheVehicle`), if no trip calls at a stop
  twice and a corrupt prediction shows: it is off by no more than a day and by more than
  any delay that grew while a trip was not seen (`CorruptionShows`). The run's `CORRUPTION`
  is below that second bound, and TLC finds the property there too;
* `HonestTripsAreBelieved` (`HonestIsBelieved`), if no trip calls at a stop twice and no
  stop's sequence is so near the width of its type that rule 3 wraps (`SequencesAreFar`);
* `EndsAreSilent` (`EndpointsAreSilent`);
* `ScoresAreOfTheirDelays` (`ScoreIsOfItsDelay`) and `ScoresNeverFall`
  (`ScoreNeverFalls`, about all factors but `reach`);
* `EachTripOnceByItsWorst`, of any feed, of any trips and rows, not only Journey's:
  each trip that is measured is in what `delayed_trips` returns exactly once, by a
  measurement of it that no other exceeds. Scheduler and TripHistory rest on it when they take a
  feed's answer to be one observation per trip.

`IInv` says that the vehicle is between the stops it has reached and those ahead
(`OnTheRoad`), that a feed of now is one update about where the vehicle is now
(`FeedIsLatest`), and that a record made since its trip's track began is of that track
(`Followed`). `Vouched` is the invariant behind the first of the safety theorems: whatever
is published *claims* delays the vehicle has had or a corrupt one, so a measurement is
one of these whichever stop, field and day it takes (`MeasuresArePlausible`), and the
tracks that are credited hold none of the corrupt.

`Honesty` is the one behind `HonestTripsAreBelieved`. That a track is credible now says
nothing of the next poll: the feed may be about another stop by then. `About` is the
stop a faultless feed is about (`AboutIsNearest`, `CurrentIsAbout`), `Said` the delay it
gives there, `Midnight` what an undated comparison takes off it. `Within` says that since
birth and since the last sighting neither `Said` nor the lateness itself has grown
faster than the clock; the second half is what a step of the vehicle needs, since
the feed may go over to the next stop, and what `Settles` gives back after each
poll: the next stop's delay exceeds that of the last by at most the segment between
them, which is where `JUMP_SLACK` and the dropped stops come in. And the greatest
sequence a track has seen is that of a stop no further than `About`, which never goes back.

Wherever the code takes the nearest of several, `LeastExists` shows that there is one.
The score's factors are bounded and monotone in what a poll can change of a record
(`Grows`), and so is their product (`ScoreGrows`).

Every invariant of the passing runs is proved, and every action property. Only
model-checked: the pure operators of Measurement and Score where no theorem of Journey needs
them, over the inputs the run reaches; `FailedIsCold`, `HonestIsBelieved` and the other
properties with a hypothesis above where that does not hold. Out of the prover's reach: `Converges` and
`FailureIsRetried` (liveness under fairness).

## Not modelled, and why

* *Realtime fetch*: stateless HTTP and protobuf; Scheduler has its outcomes.
* *Metrics, debug capture*: nothing reads back what they write.
* *Health check*: one read of what Scheduler sets, see above.
* *The geometry of the route check*: floating point; which trips it removes is
  nondeterministic in Scheduler.
* *Polyline codec*: a pure encoding on floating-point coordinates, and its inverse on the page.
* *Parsing* of catalogs, credentials and CSV files, and the wording of labels.
* *The leaderboard page's selection, rotation and map, and the status page's view*:
  the stores under them are in BoardStream and StatusStream; the rest is layout but
  for the selection and the map, which are planned.

## Plan

1. *(done)* TripTrack, TripHistory; Scheduler; DeltaStream, Mirror, BoardStream,
   StatusStream; StaticCache; Measurement, Score, Journey; Agency, Transitland,
   MobilityData, Agencies; the proofs above.
2. *(done)* Proofs of Scheduler's `SweepTakesTheWorst`, StatusStream, StaticCache,
   Agencies' dedup and Journey, see above.
3. *(done)* Proofs of what the parsers of Agencies make of files of any length.
4. Page: selection by identity, rotation, and the map's asynchronous route drawing.
