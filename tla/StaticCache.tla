----------------------------- MODULE StaticCache -----------------------------
(***************************************************************************)
(* The static schedule of one feed: the zips cached on disk, the SQLite    *)
(* index derived from them and the temporary files on the way there        *)
(* (src/server/src/gtfs.rs), the index a process has open and the two      *)
(* tasks that work on all of it (src/server/src/scheduler.rs): the feed's  *)
(* poll task in ensure_static_loaded and the maintenance task in           *)
(* maintain_one.  The process may die at any point and start again.        *)
(*                                                                         *)
(* A step is the work between two places where the other task can come in: *)
(* an .await, or a call into the file system.  A file's content is the     *)
(* time it was written, which no two files share: an index knows of every  *)
(* zip the time of the file it was imported from.  A file is aged when it  *)
(* is older than STATIC_TTL.                                               *)
(***************************************************************************)
EXTENDS Naturals, FiniteSets

CONSTANTS
  LastZip,    \* a feed has zips 1 .. LastZip
  Bodies,     \* what may end up in the cache under a zip's name
  MaxClock,   \* bound on the time of a write; the first process may find files of 1 and 2
  MaxCrashes

ASSUME StaticCacheAssumption ==
  /\ LastZip \in Nat \ {0}
  /\ Bodies \subseteq {"zip", "broken", "junk"}
  /\ MaxClock \in Nat \ {0, 1} /\ MaxCrashes \in Nat

VARIABLES
  clock,      \* the time of the latest write
  zips,       \* the cached zip files
  index,      \* the SQLite file
  temps,      \* temporary files in the cache directory
  task,       \* where the two tasks stand
  entry,      \* static_gtfs: the feed's key in the map of loaded schedules
  loading,    \* SourceRuntime.loading
  counted,    \* SourceRuntime.total_trips is known
  polled,     \* the feed has a realtime half, hence a poll task
  up,         \* the process runs
  crashes

disk == <<clock, zips, index, temps>>
memory == <<entry, loading, counted>>
process == <<polled, up, crashes>>
vars == <<disk, task, memory, process>>

Zips == 1 .. LastZip
Times == 0 .. MaxClock

\* A file under a zip's name: a schedule, an archive that begins as a zip and
\* cannot be read, or a body that is no zip at all.
Zip == [body : {"zip", "broken", "junk"}, mtime : Times, aged : BOOLEAN]
None == [body |-> "none", mtime |-> 0, aged |-> FALSE]
Exists(z) == zips[z] # None

\* The times of the zips on disk.
Cached == [z \in Zips |-> zips[z].mtime]

\* `crossed`: the other task was at work while this one read the zips.
Index == [mtime : Times, current : BOOLEAN, of : [Zips -> Times], crossed : BOOLEAN]
NoIndex == [mtime |-> 0, current |-> FALSE, of |-> [z \in Zips |-> 0], crossed |-> FALSE]

\* Absent from the map, None in it, or an open index.
Entry == [state : {"absent", "failed", "loaded"}, of : [Zips -> Times], crossed : BOOLEAN]
Unloaded(state) == [state |-> state, of |-> [z \in Zips |-> 0], crossed |-> FALSE]

Tasks == {"poll", "maintain"}
Idle == [pc |-> "idle", zip |-> 1, temp |-> 0, body |-> "none",
         of |-> [z \in Zips |-> 0], stale |-> FALSE, crossed |-> FALSE]

\* Temporary files are told apart by the time they were made.
Temp == [kind : {"tmp", "sqltmp"}, at : Times]

Init ==
  /\ zips \in [Zips -> {None} \cup [body : {"zip", "junk"}, mtime : {1}, aged : BOOLEAN]]
  /\ \/ index = NoIndex
     \/ /\ \A z \in Zips : zips[z].body = "zip"
        /\ index \in [mtime : {2}, current : BOOLEAN, of : {Cached}, crossed : {FALSE}]
  /\ clock = IF index = NoIndex THEN 1 ELSE index.mtime
  /\ temps = {}
  /\ task = [t \in Tasks |-> Idle]
  /\ entry = Unloaded("absent")
  /\ loading = FALSE
  /\ counted = FALSE
  /\ polled \in BOOLEAN
  /\ up = TRUE
  /\ crashes = 0

-----------------------------------------------------------------------------
(* Downloading a feed's zips, which both tasks do.                         *)

\* A wrong body: a missing zip is taken for a fresh one.
StaleIfPresent(z) == Exists(z) /\ zips[z].aged

\* is_stale: missing, or past its time to live.
Stale(z) == ~Exists(z) \/ zips[z].aged

Goto(t, label) == task' = [task EXCEPT ![t].pc = label]
Working(t) == task[t].pc # "idle"

\* What a task knows of the file it was about, it forgets.
Over(t) == [Idle EXCEPT !.stale = task[t].stale, !.crossed = task[t].crossed]

Fail(t) == task' = [task EXCEPT ![t] = [Over(t) EXCEPT !.pc = "failed", !.crossed = FALSE]]

\* A wrong body: one zip too many.
ProceedPastLast(t) ==
  task' = [task EXCEPT ![t] =
    IF @.zip <= LastZip THEN [Over(t) EXCEPT !.pc = "check", !.zip = task[t].zip + 1]
    ELSE [Over(t) EXCEPT !.pc = IF t = "poll" THEN "rebuild" ELSE "count"]]

\* The next zip is looked at, or all are in place and what the caller wanted them
\* for begins.
Proceed(t) ==
  task' = [task EXCEPT ![t] =
    IF @.zip < LastZip THEN [Over(t) EXCEPT !.pc = "check", !.zip = task[t].zip + 1]
    ELSE [Over(t) EXCEPT !.pc = IF t = "poll" THEN "rebuild" ELSE "count"]]

\* download_static_feed's look into the cache: a body without the zip signature is
\* poison, a fresh zip is taken as it is, anything else is fetched.
Check(t) ==
  LET z == task[t].zip
      poison == Exists(z) /\ zips[z].body = "junk"
  IN /\ task[t].pc = "check"
     /\ \/ poison /\ Goto(t, "discard")
        \/ ~poison /\ Stale(z) /\ Goto(t, "fetch")
        \/ ~poison /\ ~Stale(z) /\ Proceed(t)
     /\ UNCHANGED <<disk, memory, process>>

\* The poison is removed by name, whatever bears that name by now.
Discard(t) ==
  /\ task[t].pc = "discard"
  /\ zips' = [zips EXCEPT ![task[t].zip] = None]
  /\ Goto(t, "fetch")
  /\ UNCHANGED <<clock, index, temps, memory, process>>

\* The publisher answers and the body is written beside the zip.  The body of a
\* plain URL begins as a zip; the inner member a "#fragment" names is not looked
\* at and may be anything.
Fetch(t) ==
  /\ task[t].pc = "fetch"
  /\ clock < MaxClock
  /\ clock' = clock + 1
  /\ temps' = temps \cup {[kind |-> "tmp", at |-> clock + 1]}
  /\ \E body \in Bodies :
       task' = [task EXCEPT ![t] = [@ EXCEPT !.pc = "rename", !.temp = clock + 1, !.body = body]]
  /\ UNCHANGED <<zips, index, memory, process>>

\* The request fails, or its body is no zip: nothing is written.
FetchFails(t) ==
  /\ task[t].pc = "fetch"
  /\ Fail(t)
  /\ UNCHANGED <<disk, memory, process>>

\* The write or the rename fails: no guard removes what was written.
WriteFails(t) ==
  /\ task[t].pc = "rename"
  /\ Fail(t)
  /\ UNCHANGED <<disk, memory, process>>

Rename(t) ==
  /\ task[t].pc = "rename"
  /\ zips' = [zips EXCEPT ![task[t].zip] =
                [body |-> task[t].body, mtime |-> task[t].temp, aged |-> FALSE]]
  /\ temps' = temps \ {[kind |-> "tmp", at |-> task[t].temp]}
  /\ Proceed(t)
  /\ UNCHANGED <<clock, index, memory, process>>
-----------------------------------------------------------------------------
(* The poll task: ensure_static_loaded.                                    *)

\* The key is absent: the feed is flagged as loading and its load begins.
Ensure ==
  /\ polled
  /\ ~Working("poll")
  /\ entry.state = "absent"
  /\ loading' = TRUE
  /\ task' = [task EXCEPT !["poll"] = [@ EXCEPT !.pc = "check", !.crossed = Working("maintain")]]
  /\ UNCHANGED <<disk, entry, counted, process>>

\* A wrong body: only the primary zip is compared.
NeedsRebuildOfPrimary ==
  index = NoIndex \/ ~index.current \/ ~Exists(1) \/ index.mtime < zips[1].mtime

\* needs_rebuild: the index is missing, of another schema, or older than a zip.
NeedsRebuild ==
  \/ index = NoIndex
  \/ ~index.current
  \/ \E z \in Zips : ~Exists(z) \/ index.mtime < zips[z].mtime

OpenAsItIs ==
  /\ task["poll"].pc = "rebuild"
  /\ ~NeedsRebuild
  /\ Goto("poll", "open")
  /\ UNCHANGED <<disk, memory, process>>

\* build_sqlite begins under a temporary name.
Build ==
  /\ task["poll"].pc = "rebuild"
  /\ NeedsRebuild
  /\ temps' = temps \cup {[kind |-> "sqltmp", at |-> clock]}
  /\ task' = [task EXCEPT !["poll"] = [@ EXCEPT !.pc = "import", !.temp = clock]]
  /\ UNCHANGED <<clock, zips, index, memory, process>>

\* A wrong body: the primary zip is all that is imported.
ImportPrimary ==
  /\ task["poll"].pc = "import"
  /\ zips[1].body = "zip"
  /\ task' = [task EXCEPT !["poll"] = [@ EXCEPT !.of[1] = zips[1].mtime, !.pc = "stamp"]]
  /\ UNCHANGED <<disk, memory, process>>

\* open_zip of one zip: from here on its rows come from the file this opened,
\* whatever is renamed over it.
Import ==
  LET z == task["poll"].zip IN
  /\ task["poll"].pc = "import"
  /\ zips[z].body = "zip"
  /\ task' = [task EXCEPT !["poll"] =
       [@ EXCEPT !.of[z] = zips[z].mtime,
                 !.pc  = IF z < LastZip THEN "import" ELSE "stamp",
                 !.zip = IF z < LastZip THEN z + 1 ELSE 1]]
  /\ UNCHANGED <<disk, memory, process>>

BuildTemp == [kind |-> "sqltmp", at |-> task["poll"].temp]

\* A wrong body: an error half-way leaves the temporary file.
BuildFailsUncleaned ==
  /\ \/ task["poll"].pc \in {"import", "stamp"}
     \/ task["poll"].pc = "rebuild" /\ NeedsRebuild
  /\ Fail("poll")
  /\ UNCHANGED <<disk, memory, process>>

\* A zip is missing or unreadable, or the disk is full; TempCleanup removes the
\* temporary file.
BuildFails ==
  /\ \/ task["poll"].pc \in {"import", "stamp"}
     \/ task["poll"].pc = "rebuild" /\ NeedsRebuild
  /\ temps' = temps \ {BuildTemp}
  /\ Fail("poll")
  /\ UNCHANGED <<clock, zips, index, memory, process>>

\* The import is committed, the schema version stamped last, and the file renamed
\* into place.
Stamp ==
  /\ task["poll"].pc = "stamp"
  /\ clock < MaxClock
  /\ clock' = clock + 1
  /\ index' = [mtime |-> clock + 1, current |-> TRUE, of |-> task["poll"].of,
               crossed |-> task["poll"].crossed]
  /\ temps' = temps \ {BuildTemp}
  /\ task' = [task EXCEPT !["poll"] = [Over("poll") EXCEPT !.pc = "open"]]
  /\ UNCHANGED <<zips, memory, process>>

\* The load is over: the flag goes down, the trips are counted, and the index goes
\* into the map, be its key there or not.
Loaded ==
  /\ task["poll"].pc = "open"
  /\ entry' = [state |-> "loaded", of |-> index.of,
               crossed |-> index.crossed \/ task["poll"].crossed]
  /\ loading' = FALSE
  /\ counted' = TRUE
  /\ task' = [task EXCEPT !["poll"] = Idle]
  /\ UNCHANGED <<disk, process>>

\* A wrong body: the flag is lowered on success only.
LoadFailsFlagged ==
  /\ task["poll"].pc \in {"failed", "open"}
  /\ entry' = Unloaded("failed")
  /\ task' = [task EXCEPT !["poll"] = Idle]
  /\ UNCHANGED <<disk, loading, counted, process>>

LoadFails ==
  /\ task["poll"].pc \in {"failed", "open"}
  /\ entry' = Unloaded("failed")
  /\ loading' = FALSE
  /\ task' = [task EXCEPT !["poll"] = Idle]
  /\ UNCHANGED <<disk, counted, process>>

-----------------------------------------------------------------------------
(* The maintenance task: maintain_one, once per pass of run_maintenance.   *)

\* The feed's count is missing or one of its zips is stale; what was found is
\* remembered while the pass waits for a permit.  A feed without a realtime half
\* is only ever counted.
Inspect ==
  LET stale == polled /\ \E z \in Zips : Stale(z) IN
  /\ ~Working("maintain")
  /\ stale \/ ~counted
  /\ task' = [task EXCEPT
       !["maintain"] = [@ EXCEPT !.pc = "wait", !.stale = stale],
       !["poll"].crossed = Working("poll")]
  /\ UNCHANGED <<disk, memory, process>>

Admit ==
  /\ task["maintain"].pc = "wait"
  /\ loading' = TRUE
  /\ Goto("maintain", "check")
  /\ UNCHANGED <<disk, entry, counted, process>>

\* A wrong body: a refresh that failed keeps the schedule that is loaded.
PassEndsKeeping(ok) ==
  /\ loading' = FALSE
  /\ counted' = (counted \/ ok)
  /\ entry' = IF task["maintain"].stale /\ (ok \/ entry.state = "failed")
              THEN Unloaded("absent") ELSE entry
  /\ task' = [task EXCEPT !["maintain"] = Idle]
  /\ UNCHANGED <<disk, process>>

\* The end of a pass: count_trips has counted or failed, and a feed that was stale
\* forgets the index it has loaded either way.
PassEnds(ok) ==
  /\ loading' = FALSE
  /\ counted' = (counted \/ ok)
  /\ entry' = IF task["maintain"].stale THEN Unloaded("absent") ELSE entry
  /\ task' = [task EXCEPT !["maintain"] = Idle]
  /\ UNCHANGED <<disk, process>>

Counted ==
  /\ task["maintain"].pc = "count"
  /\ PassEnds(\A z \in Zips : zips[z].body = "zip")

PassFails ==
  /\ task["maintain"].pc = "failed"
  /\ PassEnds(FALSE)

-----------------------------------------------------------------------------
(* Time, crashes and restarts.                                             *)

\* A day passes for some zip, and for all that are older.
Age(z) ==
  /\ Exists(z) /\ ~zips[z].aged
  /\ zips' = [y \in Zips |-> IF Exists(y) /\ zips[y].mtime <= zips[z].mtime
                              THEN [zips[y] EXCEPT !.aged = TRUE] ELSE zips[y]]
  /\ UNCHANGED <<clock, index, temps, task, memory, process>>

\* Bounded by MaxCrashes.
Crash ==
  /\ up /\ crashes < MaxCrashes
  /\ up' = FALSE
  /\ crashes' = crashes + 1
  /\ task' = [t \in Tasks |-> Idle]
  /\ entry' = Unloaded("absent")
  /\ loading' = FALSE
  /\ counted' = FALSE
  /\ UNCHANGED <<disk, polled>>

\* start: sweep_stale_temp_files, before any task runs.
Start ==
  /\ ~up
  /\ up' = TRUE
  /\ temps' = {}
  /\ UNCHANGED <<clock, zips, index, task, memory, polled, crashes>>

Download(t) == Check(t) \/ Discard(t) \/ Fetch(t) \/ FetchFails(t) \/ WriteFails(t) \/ Rename(t)

Poll == Ensure \/ Download("poll") \/ OpenAsItIs \/ Build \/ Import \/ BuildFails
          \/ Stamp \/ Loaded \/ LoadFails

Maintain == Inspect \/ Admit \/ Download("maintain") \/ Counted \/ PassFails

Next == \/ up /\ (Poll \/ Maintain)
        \/ \E z \in Zips : Age(z)
        \/ Crash \/ Start

\* Both tasks run for as long as the process does: a poll task comes back to its
\* feed, a maintenance pass comes every MAINTENANCE_INTERVAL, a request ends at
\* REQUEST_TIMEOUT, and days pass.
Fairness == /\ WF_vars(up /\ Poll) /\ WF_vars(up /\ Maintain)
            /\ \A z \in Zips : WF_vars(Age(z))
            /\ WF_vars(Start)

Spec == Init /\ [][Next]_vars /\ Fairness

-----------------------------------------------------------------------------
(* Properties.                                                             *)

TypeOK ==
  /\ clock \in Times
  /\ zips \in [Zips -> Zip \cup {None}]
  /\ index \in Index \cup {NoIndex}
  /\ temps \subseteq Temp
  /\ entry \in Entry
  /\ {loading, counted, polled, up} \subseteq BOOLEAN
  /\ \A t \in Tasks : task[t].zip \in Zips /\ task[t].temp \in Times

\* gtfs.rs, build_sqlite: "a concurrent build or a crash mid-import can't leave a
\* half-written index".  An index, on disk or open, holds a schedule of every one
\* of the feed's zips, wherever a build failed and wherever the process died.
IndexIsWhole ==
  /\ index # NoIndex => \A z \in Zips : index.of[z] # 0
  /\ entry.state = "loaded" => \A z \in Zips : entry.of[z] # 0

\* Nothing leaks while the process runs but what a failed write of a zip left: a
\* build's temporary file is the one of the build under way.
BuildsLeaveNothing ==
  up => \A f \in temps : f.kind = "sqltmp" =>
          task["poll"].pc \in {"import", "stamp"} /\ f = BuildTemp

\* gtfs.rs, needs_rebuild: an index that passes as current was imported from the
\* zips in the cache, every one of them, also after a crash, a failed refresh, or
\* a refresh of some of them; unless a refresh of the other task crossed its build.
CurrentIsOfTheCache ==
  ~NeedsRebuild /\ ~index.crossed => index.of = Cached

\* ensure_static_loaded: a schedule is loaded "until maintenance drops it as
\* stale".  Between two passes of maintenance the open index is of the zips in the
\* cache, unless its load crossed a pass.
LoadedIsOfTheCache ==
  entry.state = "loaded" /\ ~entry.crossed /\ ~Working("maintain") => entry.of = Cached

\* A source is shown as loading only while a task works on it: no way out of a
\* load or of a pass forgets to lower the flag the other may have raised.
LoadingIsWork == loading => \E t \in Tasks : Working(t)

\* A schedule that could not be loaded is tried again: its zip is missing, or its
\* day passes, and maintenance drops the failure.
FailureIsRetried == entry.state = "failed" ~> entry.state # "failed"
=============================================================================
