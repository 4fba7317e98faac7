-------------------------- MODULE StaticCache_proofs --------------------------
(***************************************************************************)
(* Proofs about StaticCache, for any number of zips, bodies, files and     *)
(* crashes.                                                                *)
(***************************************************************************)
EXTENDS StaticCache, TLAPS

Labels == {"idle", "wait", "check", "discard", "fetch", "rename", "failed",
           "rebuild", "import", "stamp", "open", "count"}

TaskState == [pc : Labels, zip : Zips, temp : Times, body : {"none", "zip", "broken", "junk"},
              of : [Zips -> Times], stale : BOOLEAN, crossed : BOOLEAN]

\* Every file was written by now, and so was what a task is about to rename.
Dated ==
  /\ \A z \in Zips : Exists(z) => zips[z] \in Zip /\ zips[z].mtime \in 1 .. clock
  /\ index # NoIndex => index.mtime \in 1 .. clock
  /\ \A t \in Tasks : task[t].pc = "rename" =>
       task[t].body # "none" /\ task[t].temp \in 1 .. clock

\* What each task's labels are, and what it knows at them.
Placed ==
  /\ task \in [Tasks -> TaskState]
  /\ task["poll"].pc \notin {"wait", "count"}
  /\ task["maintain"].pc \notin {"rebuild", "import", "stamp", "open"}
  /\ task["poll"].pc = "rebuild" => task["poll"].zip = 1

Typed == TypeOK /\ Dated /\ Placed

\* The import knows every zip it has read, and nothing is opened that is not there.
Progress ==
  /\ task["poll"].pc = "import" => \A z \in Zips : z < task["poll"].zip => task["poll"].of[z] # 0
  /\ task["poll"].pc = "stamp" => \A z \in Zips : task["poll"].of[z] # 0
  /\ task["poll"].pc = "open" => index # NoIndex

\* An entry comes from a load that is over, and a process that has loaded has counted.
LoadsOnce ==
  /\ Working("poll") => entry.state = "absent"
  /\ entry.state = "loaded" => counted

\* Alone: as long as a load has not crossed a pass, there is no pass.
Alone ==
  Working("poll") /\ task["poll"].pc # "failed" /\ ~task["poll"].crossed => ~Working("maintain")

\* What an uncrossed build imports stays in the cache until something newer is renamed
\* over it.
Reads(z) == task["poll"].of[z] = zips[z].mtime

UncrossedBuild ==
  ~task["poll"].crossed =>
    /\ task["poll"].pc = "import" => \A z \in Zips : z < task["poll"].zip => Reads(z)
    /\ task["poll"].pc = "stamp" => \A z \in Zips : Reads(z)

UncrossedIndex ==
  index # NoIndex /\ ~index.crossed =>
    /\ \A z \in Zips : Exists(z) => zips[z].mtime = index.of[z] \/ zips[z].mtime > index.mtime
    /\ \A t \in Tasks : task[t].pc = "rename" => task[t].temp > index.mtime

UncrossedOpen ==
  task["poll"].pc = "open" /\ ~task["poll"].crossed /\ ~index.crossed => index.of = Cached

\* A pass that works beside a loaded entry found the feed stale: it will drop it.
UncrossedEntry ==
  entry.state = "loaded" /\ ~entry.crossed =>
    IF Working("maintain") THEN task["maintain"].stale ELSE entry.of = Cached

Uncrossed == /\ LoadsOnce /\ Alone
             /\ UncrossedBuild /\ UncrossedIndex /\ UncrossedOpen /\ UncrossedEntry

IInv == Typed /\ Progress /\ IndexIsWhole /\ BuildsLeaveNothing /\ Uncrossed /\ LoadingIsWork

-----------------------------------------------------------------------------
(* What the steps do to the tasks.                                         *)

\* A task that forgets its file keeps what it knows of the other.
LEMMA OverIsATask ==
  ASSUME Placed, StaticCacheAssumption, NEW t \in Tasks
  PROVE  /\ Over(t) \in TaskState
         /\ Over(t).zip = 1 /\ Over(t).crossed = task[t].crossed
         /\ Over(t).stale = task[t].stale
         /\ Idle \in TaskState
<1>1. 1 \in Zips /\ 0 \in Times
  BY DEF StaticCacheAssumption, Zips, Times
<1>2. task[t] \in TaskState
  BY DEF Placed
<1>3. Idle \in TaskState
  BY <1>1 DEF Idle, TaskState, Labels
<1>4. QED
  BY <1>1, <1>2, <1>3 DEF Over, Idle, TaskState

\* A failed task stands at "failed", and the other one stands where it stood.
LEMMA FailStep ==
  ASSUME Placed, StaticCacheAssumption, NEW t \in Tasks, Fail(t)
  PROVE  /\ task' \in [Tasks -> TaskState]
         /\ task'[t].pc = "failed" /\ task'[t].stale = task[t].stale
         /\ \A u \in Tasks \ {t} : task'[u] = task[u]
<1> DEFINE Failed(s) == [s EXCEPT !.pc = "failed", !.crossed = FALSE]
<1>1. ASSUME NEW s \in TaskState
      PROVE  Failed(s) \in TaskState /\ Failed(s).pc = "failed" /\ Failed(s).stale = s.stale
  BY DEF TaskState, Labels
<1>2. task' = [task EXCEPT ![t] = Failed(Over(t))]
  BY DEF Fail
<1> HIDE DEF Failed
<1>3. QED
  BY <1>1, <1>2, OverIsATask DEF Placed

\* A task that has its zip looks at the next one or, past the last, turns to what it
\* downloads them for.
LEMMA ProceedStep ==
  ASSUME Placed, StaticCacheAssumption, NEW t \in Tasks, Proceed(t)
  PROVE  /\ task' \in [Tasks -> TaskState]
         /\ task'[t].pc \in {"check", IF t = "poll" THEN "rebuild" ELSE "count"}
         /\ task'[t].pc = "rebuild" => task'[t].zip = 1
         /\ task'[t].stale = task[t].stale /\ task'[t].crossed = task[t].crossed
         /\ \A u \in Tasks \ {t} : task'[u] = task[u]
<1> DEFINE Next1 == [Over(t) EXCEPT !.pc = "check", !.zip = task[t].zip + 1]
           Next2 == [Over(t) EXCEPT !.pc = IF t = "poll" THEN "rebuild" ELSE "count"]
<1>1. CASE task[t].zip < LastZip
  <2>1. task[t].zip + 1 \in Zips
    BY <1>1 DEF Placed, TaskState, Zips, StaticCacheAssumption
  <2>2. Next1 \in TaskState
    <3>1. ASSUME NEW s \in TaskState, NEW z \in Zips
          PROVE  [s EXCEPT !.pc = "check", !.zip = z] \in TaskState
      BY DEF TaskState, Labels
    <3>2. QED
      BY <2>1, <3>1, OverIsATask
  <2>3. task' = [task EXCEPT ![t] = Next1]
    BY <1>1 DEF Proceed, Placed
  <2>4. QED
    BY <2>2, <2>3, OverIsATask DEF Placed, TaskState
<1>2. CASE ~(task[t].zip < LastZip)
  <2>2. Next2 \in TaskState
    BY OverIsATask DEF TaskState, Labels
  <2>3. task' = [task EXCEPT ![t] = Next2]
    BY <1>2 DEF Proceed, Placed
  <2>4. QED
    BY <2>2, <2>3, OverIsATask DEF Placed, TaskState, Tasks
<1>3. QED
  BY <1>1, <1>2

\* A task that only moves on keeps all it knows.
LEMMA GotoStep ==
  ASSUME Placed, NEW t \in Tasks, NEW label \in Labels, Goto(t, label)
  PROVE  /\ task' \in [Tasks -> TaskState]
         /\ task'[t] \in TaskState
         /\ task'[t] = [task[t] EXCEPT !.pc = label]
         /\ task'[t].pc = label /\ task'[t].zip = task[t].zip
         /\ task'[t].stale = task[t].stale /\ task'[t].crossed = task[t].crossed
         /\ \A u \in Tasks \ {t} : task'[u] = task[u]
  BY DEF Goto, Placed, TaskState

-----------------------------------------------------------------------------
(* Types.                                                                  *)

\* The numbers that are written down here and there, and the next one.
LEMMA SmallNumbers ==
  ASSUME StaticCacheAssumption
  PROVE  /\ 0 \in Times /\ 1 \in Times /\ 2 \in Times /\ 1 \in Zips
         /\ \A n \in Times : n < MaxClock => n + 1 \in Times
         /\ Times \subseteq Nat /\ Zips \subseteq Nat
  BY DEF StaticCacheAssumption, Times, Zips

LEMMA TypedInit ==
  ASSUME StaticCacheAssumption, Init
  PROVE  Typed
<1> USE SmallNumbers
<1>1. zips \in [Zips -> {None} \cup [body : {"zip", "junk"}, mtime : {1}, aged : BOOLEAN]]
  BY DEF Init
<1>2. \A z \in Zips : zips[z] \in Zip \cup {None} /\ (Exists(z) => zips[z].mtime = 1)
  BY <1>1 DEF Zip, Exists
<1>3. Cached \in [Zips -> Times]
  BY <1>1, <1>2 DEF Cached, None, Zip, Exists
<1>4. NoIndex \in Index /\ NoIndex.mtime = 0
  BY DEF NoIndex, Index
<1>5. index \in Index /\ clock \in {1, 2} /\ (index # NoIndex => index.mtime = clock)
  BY <1>3, <1>4 DEF Init, Index
<1>6. Unloaded("absent") \in Entry
  BY DEF Unloaded, Entry
<1>7. Idle \in TaskState /\ Idle.pc = "idle"
  BY DEF Idle, TaskState, Labels
<1>8. Placed
  BY <1>7 DEF Init, Placed, Tasks
<1>9. TypeOK
  <2>1. clock \in Times /\ index \in Index \cup {NoIndex} /\ temps \subseteq Temp /\ entry \in Entry
    BY <1>5, <1>6 DEF Init
  <2>2. zips \in [Zips -> Zip \cup {None}]
    BY <1>1, <1>2
  <2>3. {loading, counted, polled, up} \subseteq BOOLEAN
    BY DEF Init
  <2>4. \A t \in Tasks : task[t].zip \in Zips /\ task[t].temp \in Times
    BY <1>8 DEF Placed, TaskState
  <2>5. QED
    BY <2>1, <2>2, <2>3, <2>4 DEF TypeOK
<1>10. Dated
  BY <1>2, <1>5, <1>7 DEF Init, Dated, Exists, Tasks
<1>11. QED
  BY <1>8, <1>9, <1>10 DEF Typed

\* A task that moves to a label of its own leaves both where they may be.
LEMMA MovePlaced ==
  ASSUME Placed, NEW t \in Tasks,
         task' \in [Tasks -> TaskState],
         \A u \in Tasks \ {t} : task'[u] = task[u],
         t = "poll" => task'[t].pc \notin {"wait", "count"},
         t = "maintain" => task'[t].pc \notin {"rebuild", "import", "stamp", "open"},
         task'[t].pc = "rebuild" => task'[t].zip = 1
  PROVE  Placed'
  BY DEF Placed, Tasks

LEMMA GotoPlaced ==
  ASSUME Placed, NEW t \in Tasks, NEW label \in {"discard", "fetch", "check"}, Goto(t, label)
  PROVE  Placed'
<1>1. label \in Labels
  BY DEF Labels
<1>2. /\ task' \in [Tasks -> TaskState] /\ task'[t].pc = label
      /\ \A u \in Tasks \ {t} : task'[u] = task[u]
  BY <1>1, GotoStep
<1>3. QED
  BY <1>2, MovePlaced

\* A step moves one task at most and leaves the other where it was, or resets both.
LEMMA PlacedStep ==
  ASSUME StaticCacheAssumption, Typed, [Next]_vars
  PROVE  Placed'
<1> USE DEF Typed
<1>1. ASSUME NEW t \in Tasks, Download(t)
      PROVE  Placed'
  <2>1. CASE Check(t)
    <3>2. CASE Goto(t, "discard") \/ Goto(t, "fetch")
      BY <3>2, GotoPlaced
    <3>3. CASE Proceed(t)
      BY <3>3, ProceedStep, MovePlaced DEF Tasks
    <3>4. QED
      BY <2>1, <3>2, <3>3 DEF Check
  <2>2. CASE Discard(t)
    BY <2>2, GotoPlaced DEF Discard
  <2>3. CASE Fetch(t)
    <3> DEFINE fetched(s, b) == [s EXCEPT !.pc = "rename", !.temp = clock + 1, !.body = b]
    <3>1. PICK body \in Bodies :
            task' = [task EXCEPT ![t] = fetched(@, body)]
      BY <2>3 DEF Fetch
    <3>2. clock + 1 \in Times /\ body \in {"zip", "broken", "junk"}
      BY <2>3, SmallNumbers DEF Fetch, TypeOK, StaticCacheAssumption
    <3>3. ASSUME NEW s \in TaskState
          PROVE  fetched(s, body) \in TaskState /\ fetched(s, body).pc = "rename"
      BY <3>2 DEF TaskState, Labels
    <3> HIDE DEF fetched
    <3>4. /\ task' \in [Tasks -> TaskState] /\ task'[t].pc = "rename"
          /\ \A u \in Tasks \ {t} : task'[u] = task[u]
      BY <3>1, <3>3 DEF Placed
    <3>5. QED
      BY <3>4, MovePlaced
  <2>4. CASE FetchFails(t) \/ WriteFails(t)
    BY <2>4, FailStep DEF FetchFails, WriteFails, Placed, Tasks
  <2>5. CASE Rename(t)
    BY <2>5, ProceedStep DEF Rename, Placed, Tasks
  <2>6. QED
    BY <1>1, <2>1, <2>2, <2>3, <2>4, <2>5 DEF Download
<1>2. CASE Ensure
  <2> DEFINE begun(s) == [s EXCEPT !.pc = "check", !.crossed = Working("maintain")]
  <2>1. /\ "check" \in Labels /\ Working("maintain") \in BOOLEAN /\ "poll" \in Tasks
        /\ task' = [task EXCEPT !["poll"] = begun(@)]
    BY <1>2 DEF Labels, Ensure, Working, Tasks
  <2>4. ASSUME NEW s \in TaskState
        PROVE  begun(s) \in TaskState /\ begun(s).pc = "check"
    BY <2>1 DEF TaskState
  <2> HIDE DEF begun
  <2>2. /\ task' \in [Tasks -> TaskState] /\ task'["poll"].pc = "check"
        /\ \A u \in Tasks \ {"poll"} : task'[u] = task[u]
    BY <2>1, <2>4 DEF Placed
  <2>3. QED
    BY <2>1, <2>2, MovePlaced
<1>3. CASE OpenAsItIs
  <2>1. "open" \in Labels /\ "poll" \in Tasks /\ Goto("poll", "open")
    BY <1>3 DEF Labels, Tasks, OpenAsItIs
  <2>2. QED
    BY <2>1, GotoStep, MovePlaced, ZenonT(40)
<1>4. CASE Build
  <2> DEFINE built(s) == [s EXCEPT !.pc = "import", !.temp = clock]
  <2>1. /\ "import" \in Labels /\ clock \in Times /\ "poll" \in Tasks
        /\ task' = [task EXCEPT !["poll"] = built(@)]
    BY <1>4 DEF Labels, Build, TypeOK, Tasks
  <2>4. ASSUME NEW s \in TaskState
        PROVE  built(s) \in TaskState /\ built(s).pc = "import"
    BY <2>1 DEF TaskState
  <2> HIDE DEF built
  <2>2. /\ task' \in [Tasks -> TaskState] /\ task'["poll"].pc = "import"
        /\ \A u \in Tasks \ {"poll"} : task'[u] = task[u]
    BY <2>1, <2>4 DEF Placed
  <2>3. QED
    BY <2>1, <2>2, MovePlaced
<1>5. CASE Import
  <2> DEFINE z == task["poll"].zip
             imported(s, x, n, label, y) == [s EXCEPT !.of[x] = n, !.pc = label, !.zip = y]
  <2>1. z \in Zips /\ zips[z].mtime \in Times
    BY <1>5, SmallNumbers DEF Placed, Tasks, TaskState, TypeOK, Zip, None
  <2>2. z < LastZip => z + 1 \in Zips
    BY <2>1 DEF Zips, StaticCacheAssumption
  <2>3. 1 \in Zips
    BY SmallNumbers
  <2>4. ASSUME NEW s \in TaskState, NEW y \in Zips, NEW n \in Times,
               NEW label \in {"import", "stamp"}, NEW x \in Zips
        PROVE  imported(s, x, n, label, y) \in TaskState /\ imported(s, x, n, label, y).pc = label
    BY DEF TaskState, Labels
  <2>5. PICK label \in {"import", "stamp"}, y \in Zips :
          task' = [task EXCEPT !["poll"] = imported(@, z, zips[z].mtime, label, y)]
    BY <1>5, <2>2, <2>3 DEF Import
  <2> HIDE DEF imported
  <2>6. "poll" \in Tasks /\ task["poll"] \in TaskState
    BY DEF Placed, Tasks
  <2>7. task'["poll"] \in TaskState /\ task'["poll"].pc = label
    BY <2>1, <2>4, <2>5, <2>6 DEF Placed
  <2>8. task' \in [Tasks -> TaskState] /\ \A u \in Tasks \ {"poll"} : task'[u] = task[u]
    BY <2>5, <2>7 DEF Placed
  <2>9. QED
    BY <2>6, <2>7, <2>8, MovePlaced
<1>6. CASE BuildFails
  BY <1>6, FailStep DEF BuildFails, Placed, Tasks
<1>7. CASE Stamp
  BY <1>7, OverIsATask DEF Stamp, Placed, TaskState, Labels, Tasks
<1>8. CASE Loaded \/ LoadFails \/ Counted \/ PassFails
  <2>1. PICK t \in Tasks : task' = [task EXCEPT ![t] = Idle]
    BY <1>8 DEF Loaded, LoadFails, Counted, PassFails, PassEnds, Tasks
  <2>2. Idle \in TaskState /\ Idle.pc = "idle"
    BY OverIsATask DEF Idle
  <2>3. QED
    BY <2>1, <2>2, MovePlaced DEF Placed
<1>9. CASE Inspect
  <2> DEFINE stale == polled /\ \E z \in Zips : Stale(z)
             found(s) == [s EXCEPT !.pc = "wait", !.stale = stale]
             crossed(s) == [s EXCEPT !.crossed = Working("poll")]
  <2>1. task' = [task EXCEPT !["maintain"] = found(@), !["poll"] = crossed(@)]
    BY <1>9 DEF Inspect
  <2>2. ASSUME NEW s \in TaskState
        PROVE  /\ found(s) \in TaskState /\ crossed(s) \in TaskState
               /\ found(s).pc = "wait" /\ crossed(s).pc = s.pc /\ crossed(s).zip = s.zip
    BY DEF TaskState, Labels, Working
  <2> HIDE DEF found, crossed
  <2>3. QED
    BY <2>1, <2>2 DEF Placed, Tasks
<1>10. CASE Admit
  BY <1>10, GotoPlaced DEF Admit, Tasks
<1>11. CASE Crash
  BY <1>11, OverIsATask DEF Crash, Placed, Idle, Tasks
<1>12. CASE (\E z \in Zips : Age(z)) \/ Start \/ UNCHANGED vars
  BY <1>12 DEF Age, Start, vars, Placed
<1>13. QED
  BY <1>1, <1>2, <1>3, <1>4, <1>5, <1>6, <1>7, <1>8, <1>9, <1>10, <1>11, <1>12
     DEF Next, Poll, Maintain, Tasks

\* Each variable keeps its type: the disk's, then the process's.
LEMMA TypeStep ==
  ASSUME StaticCacheAssumption, Typed, [Next]_vars
  PROVE  TypeOK'
<1> USE DEF Typed
<1>1. Placed'
  BY PlacedStep
<1>2. clock' \in Times
  BY SmallNumbers
     DEF TypeOK, Next, vars, disk, memory, process, Poll, Maintain, Download, Ensure, Check, Discard, Fetch,
         FetchFails, WriteFails, Rename, OpenAsItIs, Build, Import, BuildFails, Stamp, Loaded,
         LoadFails, Inspect, Admit, Counted, PassFails, PassEnds, Age, Crash, Start
<1>3. zips' \in [Zips -> Zip \cup {None}]
  <2>1. CASE \E t \in Tasks : Discard(t)
    BY <2>1 DEF Discard, TypeOK
  <2>2. CASE \E t \in Tasks : Rename(t)
    <3>1. PICK t \in Tasks : Rename(t)
      BY <2>2
    <3>2. [body |-> task[t].body, mtime |-> task[t].temp, aged |-> FALSE] \in Zip
      BY <3>1 DEF Rename, Dated, Placed, TaskState, Zip
    <3>3. QED
      BY <3>1, <3>2 DEF Rename, TypeOK
  <2>3. CASE \E z \in Zips : Age(z)
    <3>1. \A y \in Zips : Exists(y) => [zips[y] EXCEPT !.aged = TRUE] \in Zip
      BY DEF TypeOK, Exists, Zip
    <3>2. QED
      BY <2>3, <3>1 DEF Age, TypeOK
  <2>4. CASE UNCHANGED zips
    BY <2>4 DEF TypeOK
  <2>5. QED
    BY <2>1, <2>2, <2>3, <2>4
       DEF Next, vars, disk, Tasks, Poll, Maintain, Download, Ensure, Check, Fetch,
           FetchFails, WriteFails, OpenAsItIs, Build, Import, BuildFails, Stamp, Loaded,
           LoadFails, Inspect, Admit, Counted, PassFails, PassEnds, Crash, Start
<1>4. index' \in Index \cup {NoIndex}
  <2>1. CASE Stamp
    BY <2>1, SmallNumbers DEF Stamp, TypeOK, Index, Placed, TaskState, Tasks
  <2>2. CASE UNCHANGED index
    BY <2>2 DEF TypeOK
  <2>3. QED
    BY <2>1, <2>2
       DEF Next, vars, disk, Poll, Maintain, Download, Ensure, Check, Discard, Fetch, Rename,
           FetchFails, WriteFails, OpenAsItIs, Build, Import, BuildFails, Loaded,
           LoadFails, Inspect, Admit, Counted, PassFails, PassEnds, Age, Crash, Start
<1>5. temps' \subseteq Temp
  <2>1. CASE \E t \in Tasks : Fetch(t)
    BY <2>1, SmallNumbers DEF Fetch, TypeOK, Temp
  <2>2. CASE Build
    BY <2>2 DEF Build, TypeOK, Temp
  <2>3. CASE temps' \subseteq temps
    BY <2>3 DEF TypeOK
  <2>4. QED
    BY <2>1, <2>2, <2>3
       DEF Next, vars, disk, Tasks, Poll, Maintain, Download, Ensure, Check, Discard, Rename,
           FetchFails, WriteFails, OpenAsItIs, Import, BuildFails, Stamp, Loaded,
           LoadFails, Inspect, Admit, Counted, PassFails, PassEnds, Age, Crash, Start
<1>6. entry' \in Entry
  <2>1. CASE Loaded
    <3>1. index \in Index
      <4>1. NoIndex \in Index
        BY SmallNumbers DEF NoIndex, Index
      <4>2. QED
        BY <4>1 DEF TypeOK
    <3>2. QED
      BY <2>1, <3>1 DEF Loaded, Entry, Index, Placed, TaskState, Tasks
  <2>2. CASE \E state \in {"absent", "failed"} : entry' = Unloaded(state)
    BY <2>2, SmallNumbers DEF Unloaded, Entry
  <2>3. CASE UNCHANGED entry
    BY <2>3 DEF TypeOK
  <2>4. QED
    BY <2>1, <2>2, <2>3
       DEF Next, vars, memory, Poll, Maintain, Download, Ensure, Check, Discard, Fetch, Rename,
           FetchFails, WriteFails, OpenAsItIs, Build, Import, BuildFails, Stamp,
           LoadFails, Inspect, Admit, Counted, PassFails, PassEnds, Age, Crash, Start
<1>7. {loading, counted, polled, up}' \subseteq BOOLEAN
  <2>1. {loading, counted, polled, up} \subseteq BOOLEAN
    BY DEF TypeOK
  <2>2. polled' = polled /\ up' \in BOOLEAN
    BY <2>1
       DEF Next, vars, process, Poll, Maintain, Download, Ensure, Check, Discard, Fetch, Rename,
           FetchFails, WriteFails, OpenAsItIs, Build, Import, BuildFails, Stamp, Loaded,
           LoadFails, Inspect, Admit, Counted, PassFails, PassEnds, Age, Crash, Start
  <2>3. loading' \in BOOLEAN /\ counted' \in BOOLEAN
    BY <2>1
       DEF Next, vars, memory, Poll, Maintain, Download, Ensure, Check, Discard, Fetch, Rename,
           FetchFails, WriteFails, OpenAsItIs, Build, Import, BuildFails, Stamp, Loaded,
           LoadFails, Inspect, Admit, Counted, PassFails, PassEnds, Age, Crash, Start
  <2>4. QED
    BY <2>1, <2>2, <2>3
<1>8. \A t \in Tasks : task'[t].zip \in Zips /\ task'[t].temp \in Times
  BY <1>1 DEF Placed, TaskState
<1>9. QED
  BY <1>2, <1>3, <1>4, <1>5, <1>6, <1>7, <1>8 DEF TypeOK

-----------------------------------------------------------------------------
(* What each step leaves a task at.                                        *)

LEMMA EnsureMoves ==
  ASSUME Placed, Ensure
  PROVE  /\ task'["poll"].pc = "check" /\ task'["poll"].crossed = Working("maintain")
         /\ task'["maintain"] = task["maintain"]
  BY DEF Ensure, Placed, TaskState, Tasks

LEMMA FetchMoves ==
  ASSUME Placed, NEW t \in Tasks, Fetch(t)
  PROVE  /\ task'[t].pc = "rename" /\ task'[t].temp = clock + 1 /\ task'[t].body \in Bodies
         /\ task'[t].stale = task[t].stale /\ task'[t].crossed = task[t].crossed
         /\ \A u \in Tasks \ {t} : task'[u] = task[u]
  BY DEF Fetch, Placed, TaskState

\* A download ends in a failure or in what the zips are downloaded for, and does not
\* touch what the task knows of the other one.
LEMMA DownloadMoves ==
  ASSUME StaticCacheAssumption, Placed, NEW t \in Tasks, Download(t)
  PROVE  /\ task[t].pc \in {"check", "discard", "fetch", "rename"}
         /\ task'[t].pc \in {"check", "discard", "fetch", "rename", "failed"}
                            \cup {IF t = "poll" THEN "rebuild" ELSE "count"}
         /\ task'[t].pc = "rename" => Fetch(t)
         /\ task'[t].stale = task[t].stale
         /\ task'[t].pc # "failed" => task'[t].crossed = task[t].crossed
         /\ \A u \in Tasks \ {t} : task'[u] = task[u]
<1>1. "discard" \in Labels /\ "fetch" \in Labels
  BY DEF Labels
<1>2. CASE Goto(t, "discard") /\ task[t].pc = "check"
  BY <1>1, <1>2, GotoStep
<1>3. CASE Goto(t, "fetch") /\ task[t].pc \in {"check", "discard"}
  BY <1>1, <1>3, GotoStep
<1>4. CASE Proceed(t) /\ task[t].pc \in {"check", "rename"}
  BY <1>4, ProceedStep DEF Tasks
<1>5. CASE Fail(t) /\ task[t].pc \in {"fetch", "rename"}
  BY <1>5, FailStep
<1>6. CASE Fetch(t)
  BY <1>6, FetchMoves DEF Fetch
<1>7. QED
  BY <1>2, <1>3, <1>4, <1>5, <1>6
     DEF Download, Check, Discard, FetchFails, WriteFails, Rename

LEMMA OpenAsItIsMoves ==
  ASSUME Placed, OpenAsItIs
  PROVE  /\ task'["poll"].pc = "open" /\ task'["poll"].crossed = task["poll"].crossed
         /\ task'["maintain"] = task["maintain"]
  BY DEF OpenAsItIs, Goto, Placed, TaskState, Tasks

LEMMA BuildMoves ==
  ASSUME Placed, Build
  PROVE  /\ task'["poll"].pc = "import" /\ task'["poll"].temp = clock
         /\ task'["poll"].zip = 1 /\ task'["poll"].crossed = task["poll"].crossed
         /\ task'["maintain"] = task["maintain"]
  BY DEF Build, Placed, TaskState, Tasks

\* One zip more is imported, and after the last the index can be stamped.
LEMMA ImportMoves ==
  ASSUME StaticCacheAssumption, Placed, Import
  PROVE  LET z == task["poll"].zip
         IN  /\ task'["poll"].of = [task["poll"].of EXCEPT ![z] = zips[z].mtime]
             /\ \/ z < LastZip /\ task'["poll"].pc = "import" /\ task'["poll"].zip = z + 1
                \/ ~(z < LastZip) /\ task'["poll"].pc = "stamp"
             /\ task'["poll"].temp = task["poll"].temp
             /\ task'["poll"].crossed = task["poll"].crossed
             /\ task'["maintain"] = task["maintain"]
  BY DEF Import, Placed, TaskState, Tasks

LEMMA BuildFailsMoves ==
  ASSUME StaticCacheAssumption, Placed, BuildFails
  PROVE  /\ task'["poll"].pc = "failed"
         /\ task'["maintain"] = task["maintain"]
  BY FailStep DEF BuildFails, Tasks

LEMMA StampMoves ==
  ASSUME StaticCacheAssumption, Placed, Stamp
  PROVE  /\ task'["poll"].pc = "open" /\ task'["poll"].crossed = task["poll"].crossed
         /\ task'["maintain"] = task["maintain"]
<1> DEFINE opened(s) == [s EXCEPT !.pc = "open"]
<1>1. ASSUME NEW s \in TaskState
      PROVE  opened(s).pc = "open" /\ opened(s).crossed = s.crossed
  BY DEF TaskState
<1>2. "poll" \in Tasks /\ task' = [task EXCEPT !["poll"] = opened(Over("poll"))]
  BY DEF Stamp, Tasks
<1> HIDE DEF opened
<1>3. QED
  BY <1>1, <1>2, OverIsATask DEF Placed, Tasks

\* A load or a pass that is over leaves its task idle.
LEMMA EndMoves ==
  ASSUME StaticCacheAssumption, Placed
  PROVE  /\ Loaded \/ LoadFails =>
              task'["poll"].pc = "idle" /\ task'["maintain"] = task["maintain"]
         /\ Counted \/ PassFails =>
              task'["maintain"].pc = "idle" /\ task'["poll"] = task["poll"]
         /\ Crash => \A t \in Tasks : task'[t].pc = "idle"
<1>1. Idle.pc = "idle" /\ "poll" \in Tasks /\ "maintain" \in Tasks
  BY DEF Idle, Tasks
<1>2. QED
  BY <1>1 DEF Loaded, LoadFails, Counted, PassFails, PassEnds, Crash, Placed

LEMMA InspectMoves ==
  ASSUME Placed, Inspect
  PROVE  /\ task["maintain"].pc = "idle" /\ task'["maintain"].pc = "wait"
         /\ task'["maintain"].stale = (polled /\ \E z \in Zips : Stale(z))
         /\ task'["poll"].pc = task["poll"].pc /\ task'["poll"].zip = task["poll"].zip
         /\ task'["poll"].temp = task["poll"].temp /\ task'["poll"].of = task["poll"].of
         /\ task'["poll"].body = task["poll"].body
         /\ task'["poll"].crossed = Working("poll")
  BY DEF Inspect, Placed, TaskState, Tasks, Working

LEMMA AdmitMoves ==
  ASSUME Placed, Admit
  PROVE  /\ task["maintain"].pc = "wait" /\ task'["maintain"].pc = "check"
         /\ task'["maintain"].stale = task["maintain"].stale
         /\ task'["poll"] = task["poll"]
  BY DEF Admit, Goto, Placed, TaskState, Tasks

\* A file that is about to be renamed was fetched by this step or waits since before.
LEMMA RenameStep ==
  ASSUME StaticCacheAssumption, Placed, [Next]_vars, NEW t \in Tasks, task'[t].pc = "rename"
  PROVE  \/ Fetch(t)
         \/ task[t].pc = "rename" /\ task'[t].temp = task[t].temp /\ task'[t].body = task[t].body
<1> USE DEF Tasks
<1>1. CASE \E u \in Tasks : Download(u)
  BY <1>1, DownloadMoves
<1>2. CASE Ensure \/ OpenAsItIs \/ Build \/ Import \/ BuildFails \/ Stamp
  BY <1>2, EnsureMoves, OpenAsItIsMoves, BuildMoves, ImportMoves, BuildFailsMoves, StampMoves
<1>3. CASE Loaded \/ LoadFails \/ Counted \/ PassFails \/ Crash
  BY <1>3, EndMoves
<1>4. CASE Inspect \/ Admit
  BY <1>4, InspectMoves, AdmitMoves
<1>5. CASE UNCHANGED task
  BY <1>5
<1>6. QED
  BY <1>1, <1>2, <1>3, <1>4, <1>5 DEF Next, Poll, Maintain, Age, Start, vars

\* The cached zips change when poison is removed, a download put in place, or a day passes.
LEMMA ZipsStep ==
  ASSUME [Next]_vars
  PROVE  \/ \E t \in Tasks : Discard(t) \/ Rename(t)
         \/ \E z \in Zips : Age(z)
         \/ UNCHANGED zips
  BY DEF Next, vars, disk, Tasks, Poll, Maintain, Download, Ensure, Check, Fetch,
         FetchFails, WriteFails, OpenAsItIs, Build, Import, BuildFails, Stamp, Loaded,
         LoadFails, Inspect, Admit, Counted, PassFails, PassEnds, Crash, Start

LEMMA IndexStep ==
  ASSUME [Next]_vars
  PROVE  Stamp \/ UNCHANGED index
  BY DEF Next, vars, disk, Poll, Maintain, Download, Ensure, Check, Discard, Fetch, Rename,
         FetchFails, WriteFails, OpenAsItIs, Build, Import, BuildFails, Loaded,
         LoadFails, Inspect, Admit, Counted, PassFails, PassEnds, Age, Crash, Start

LEMMA ClockStep ==
  ASSUME StaticCacheAssumption, TypeOK, [Next]_vars
  PROVE  clock' \in Nat /\ clock \in Nat /\ clock <= clock'
<1>1. clock' = clock + 1 \/ UNCHANGED clock
  BY DEF Next, vars, disk, Poll, Maintain, Download, Ensure, Check, Discard, Fetch, Rename,
         FetchFails, WriteFails, OpenAsItIs, Build, Import, BuildFails, Stamp, Loaded,
         LoadFails, Inspect, Admit, Counted, PassFails, PassEnds, Age, Crash, Start
<1>2. clock \in Nat
  BY SmallNumbers DEF TypeOK
<1>3. QED
  BY <1>1, <1>2

LEMMA EntryStep ==
  ASSUME [Next]_vars
  PROVE  \/ Loaded
         \/ \E state \in {"absent", "failed"} : entry' = Unloaded(state)
         \/ UNCHANGED entry
  BY DEF Next, vars, memory, Poll, Maintain, Download, Ensure, Check, Discard, Fetch, Rename,
         FetchFails, WriteFails, OpenAsItIs, Build, Import, BuildFails, Stamp,
         LoadFails, Inspect, Admit, Counted, PassFails, PassEnds, Age, Crash, Start

\* A zip that ages is the zip it was.
LEMMA AgeStep ==
  ASSUME TypeOK, NEW z \in Zips, Age(z)
  PROVE  \A y \in Zips : /\ zips'[y].mtime = zips[y].mtime
                         /\ (Exists(y))' <=> Exists(y)
<1>1. \A y \in Zips : Exists(y) =>
        LET aged == [zips[y] EXCEPT !.aged = TRUE]
        IN  aged.mtime = zips[y].mtime /\ aged # None
  BY DEF TypeOK, Exists, Zip, None
<1>2. QED
  BY <1>1 DEF Age, Exists

\* A zip that is there after a step was there before, or has been renamed into place.
LEMMA MtimeStep ==
  ASSUME StaticCacheAssumption, Typed, [Next]_vars, NEW z \in Zips, Exists(z)'
  PROVE  \/ Exists(z) /\ zips'[z].mtime = zips[z].mtime
         \/ \E t \in Tasks : Rename(t) /\ task[t].zip = z /\ zips'[z].mtime = task[t].temp
<1> USE DEF Typed
<1>0. zips'[z] # None
  BY DEF Exists
<1>1. CASE \E t \in Tasks : Discard(t)
  BY <1>1 DEF Discard, TypeOK, Exists
<1>2. CASE \E t \in Tasks : Rename(t)
  <2>1. PICK t \in Tasks : Rename(t)
    BY <1>2
  <2>2. CASE task[t].zip = z
    BY <2>1, <2>2 DEF Rename, TypeOK
  <2>3. CASE task[t].zip # z
    BY <1>0, <2>1, <2>3 DEF Rename, TypeOK, Exists
  <2>4. QED
    BY <2>1, <2>2, <2>3
<1>3. CASE \E y \in Zips : Age(y)
  BY <1>3, AgeStep
<1>4. CASE UNCHANGED zips
  BY <1>4 DEF Exists
<1>5. QED
  BY <1>1, <1>2, <1>3, <1>4, ZipsStep

LEMMA DatedStep ==
  ASSUME StaticCacheAssumption, Typed, [Next]_vars
  PROVE  Dated'
<1> USE DEF Typed
<1>1. TypeOK' /\ Placed'
  BY TypeStep, PlacedStep
<1>2. clock' \in Nat /\ clock \in Nat /\ clock <= clock'
  BY ClockStep
<1>3. ASSUME NEW z \in Zips, Exists(z)'
      PROVE  zips'[z] \in Zip /\ zips'[z].mtime \in 1 .. clock'
  <2>1. zips'[z] \in Zip
    BY <1>1, <1>3 DEF TypeOK, Exists
  <2>2. zips'[z].mtime \in 1 .. clock
    <3>1. CASE Exists(z) /\ zips'[z].mtime = zips[z].mtime
      BY <3>1 DEF Dated
    <3>2. CASE \E t \in Tasks : Rename(t) /\ zips'[z].mtime = task[t].temp
      BY <3>2 DEF Dated, Rename
    <3>3. QED
      BY <1>3, <3>1, <3>2, MtimeStep
  <2>3. QED
    BY <1>2, <2>1, <2>2
<1>4. index' # NoIndex => index'.mtime \in 1 .. clock'
  <2>1. CASE Stamp
    BY <1>2, <2>1 DEF Stamp
  <2>2. CASE UNCHANGED index
    BY <1>2, <2>2 DEF Dated
  <2>3. QED
    BY <2>1, <2>2, IndexStep
<1>5. ASSUME NEW t \in Tasks, task'[t].pc = "rename"
      PROVE  task'[t].body # "none" /\ task'[t].temp \in 1 .. clock'
  <2>1. CASE Fetch(t)
    <3>1. task'[t].body \in Bodies /\ task'[t].temp = clock + 1 /\ clock' = clock + 1
      BY <2>1, FetchMoves DEF Fetch
    <3>2. task'[t].body # "none"
      BY <3>1 DEF StaticCacheAssumption
    <3>3. QED
      BY <1>2, <3>1, <3>2
  <2>2. CASE task[t].pc = "rename" /\ task'[t].temp = task[t].temp /\ task'[t].body = task[t].body
    BY <1>2, <2>2 DEF Dated
  <2>3. QED
    BY <1>5, <2>1, <2>2, RenameStep
<1>6. QED
  BY <1>3, <1>4, <1>5 DEF Dated, Exists

-----------------------------------------------------------------------------
(* An index is whole.                                                      *)

\* The poll task comes to "import", "stamp" and "open" in three steps only, and while
\* it stands there maintenance changes nothing it knows but that it was crossed.
LEMMA BuildStep ==
  ASSUME StaticCacheAssumption, Placed, [Next]_vars, task'["poll"].pc \in {"import", "stamp", "open"}
  PROVE  \/ OpenAsItIs \/ Build \/ Import \/ Stamp
         \/ /\ task'["poll"].pc = task["poll"].pc /\ task'["poll"].zip = task["poll"].zip
            /\ task'["poll"].temp = task["poll"].temp /\ task'["poll"].of = task["poll"].of
            /\ task["poll"].crossed => task'["poll"].crossed
<1> USE DEF Tasks
<1>1. CASE Download("poll") \/ Ensure \/ BuildFails
  BY <1>1, DownloadMoves, EnsureMoves, BuildFailsMoves
<1>2. CASE Download("maintain")
  BY <1>2, DownloadMoves
<1>3. CASE Loaded \/ LoadFails \/ Counted \/ PassFails \/ Crash
  BY <1>3, EndMoves
<1>4. CASE Inspect \/ Admit
  BY <1>4, InspectMoves, AdmitMoves DEF Working
<1>5. CASE UNCHANGED task
  BY <1>5
<1>6. QED
  BY <1>1, <1>2, <1>3, <1>4, <1>5 DEF Next, Poll, Maintain, Age, Start, vars

LEMMA WholeStep ==
  ASSUME StaticCacheAssumption, Typed, Progress, IndexIsWhole, [Next]_vars
  PROVE  Progress' /\ IndexIsWhole'
<1> USE DEF Typed
<1>1. ASSUME Import
      PROVE  Progress'
  <2> DEFINE y == task["poll"].zip
  <2>1. y \in Zips /\ y \in Nat /\ task["poll"].of \in [Zips -> Times]
    BY SmallNumbers DEF Placed, TaskState, Tasks
  <2>2. zips[y].mtime # 0
    BY <1>1, <2>1 DEF Import, Exists, None, Dated
  <2>3. task'["poll"].of[y] # 0
    BY <1>1, <2>1, <2>2, ImportMoves
  <2>4. \A z \in Zips : z < y => task'["poll"].of[z] # 0
    BY <1>1, <2>1, ImportMoves DEF Import, Progress, Zips
  <2>5. \A z \in Zips : z <= LastZip /\ z \in Nat
    BY DEF Zips
  <2>6. \A z \in Zips : (z < y + 1 => z < y \/ z = y) /\ (~(y < LastZip) => z < y \/ z = y)
    BY <2>1, <2>5 DEF StaticCacheAssumption
  <2>7. QED
    BY <1>1, <2>3, <2>4, <2>6, ImportMoves DEF Progress
<1>2. ASSUME Build
      PROVE  Progress'
  BY <1>2, BuildMoves DEF Progress, Zips
<1>3. ASSUME Stamp
      PROVE  Progress' /\ index' # NoIndex /\ \A z \in Zips : index'.of[z] # 0
  <2>1. index'.mtime # 0 /\ index'.of = task["poll"].of
    BY <1>3, ClockStep DEF Stamp
  <2>2. index' # NoIndex
    BY <2>1 DEF NoIndex
  <2>3. QED
    BY <1>3, <2>1, <2>2, StampMoves DEF Stamp, Progress
<1>4. ASSUME OpenAsItIs
      PROVE  Progress'
  BY <1>4, OpenAsItIsMoves DEF OpenAsItIs, Progress, NeedsRebuild, disk
<1>5. ASSUME UNCHANGED index, ~(OpenAsItIs \/ Build \/ Import \/ Stamp)
      PROVE  Progress'
  <2>1. task'["poll"].pc \in {"import", "stamp", "open"} =>
          /\ task'["poll"].pc = task["poll"].pc /\ task'["poll"].zip = task["poll"].zip
          /\ task'["poll"].of = task["poll"].of
    BY <1>5, BuildStep
  <2>2. QED
    BY <1>5, <2>1 DEF Progress
<1>6. Progress'
  BY <1>1, <1>2, <1>3, <1>4, <1>5, IndexStep
<1>7. index' # NoIndex => \A z \in Zips : index'.of[z] # 0
  BY <1>3, IndexStep DEF IndexIsWhole
<1>8. entry'.state = "loaded" => \A z \in Zips : entry'.of[z] # 0
  <2>1. CASE Loaded
    BY <2>1 DEF Loaded, Progress, IndexIsWhole
  <2>2. CASE \E state \in {"absent", "failed"} : entry' = Unloaded(state)
    BY <2>2 DEF Unloaded
  <2>3. CASE UNCHANGED entry
    BY <2>3 DEF IndexIsWhole
  <2>4. QED
    BY <2>1, <2>2, <2>3, EntryStep
<1>9. QED
  BY <1>6, <1>7, <1>8 DEF IndexIsWhole

-----------------------------------------------------------------------------
(* Temporary files, and the flag.                                          *)

LEMMA TempsStep ==
  ASSUME StaticCacheAssumption, Typed, BuildsLeaveNothing, [Next]_vars
  PROVE  BuildsLeaveNothing'
<1> USE DEF Typed
<1>1. ASSUME NEW t \in Tasks, up, Download(t)
      PROVE  BuildsLeaveNothing'
  <2>1. \A f \in temps' : f.kind = "sqltmp" => f \in temps
    <3>1. CASE Fetch(t)
      <4>1. temps' = temps \cup {[kind |-> "tmp", at |-> clock + 1]}
        BY <3>1 DEF Fetch
      <4>2. [kind |-> "tmp", at |-> clock + 1].kind # "sqltmp"
        OBVIOUS
      <4>3. QED
        BY <4>1, <4>2
    <3>2. CASE temps' \subseteq temps
      BY <3>2
    <3>3. QED
      BY <1>1, <3>1, <3>2 DEF Download, Check, Discard, FetchFails, WriteFails, Rename, disk
  <2>2. task["poll"].pc \in {"import", "stamp"} => task'["poll"] = task["poll"]
    BY <1>1, DownloadMoves DEF Tasks
  <2>3. QED
    BY <1>1, <2>1, <2>2 DEF BuildsLeaveNothing, BuildTemp
<1>2. ASSUME up, Build
      PROVE  BuildsLeaveNothing'
  <2>1. \A f \in temps : f.kind # "sqltmp"
    BY <1>2 DEF Build, BuildsLeaveNothing
  <2>2. QED
    BY <1>2, <2>1, BuildMoves DEF Build, BuildsLeaveNothing, BuildTemp
<1>3. ASSUME up, BuildFails \/ Stamp
      PROVE  BuildsLeaveNothing'
  <2>1. temps' = temps \ {BuildTemp}
    BY <1>3 DEF BuildFails, Stamp
  <2>2. \A f \in temps' : f.kind # "sqltmp"
    BY <1>3, <2>1 DEF BuildsLeaveNothing
  <2>3. QED
    BY <2>2 DEF BuildsLeaveNothing
<1>4. ASSUME UNCHANGED <<temps, up>>,
             task["poll"].pc \in {"import", "stamp"} =>
               task'["poll"].pc \in {"import", "stamp"} /\ task'["poll"].temp = task["poll"].temp
      PROVE  BuildsLeaveNothing'
  BY <1>4 DEF BuildsLeaveNothing, BuildTemp
<1>5. CASE Ensure \/ OpenAsItIs
  BY <1>4, <1>5 DEF Ensure, OpenAsItIs, Working, disk, process
<1>6. CASE Import
  BY <1>4, <1>6, ImportMoves DEF Import, disk, process
<1>7. CASE Loaded \/ LoadFails \/ Counted \/ PassFails
  BY <1>4, <1>7, EndMoves DEF Loaded, LoadFails, Counted, PassFails, PassEnds, disk, process
<1>8. CASE Inspect \/ Admit
  BY <1>4, <1>8, InspectMoves, AdmitMoves DEF Inspect, Admit, disk, process
<1>9. CASE (\E z \in Zips : Age(z)) \/ UNCHANGED vars
  BY <1>4, <1>9 DEF Age, vars, disk, process
<1>10. CASE Crash \/ Start
  BY <1>10 DEF Crash, Start, BuildsLeaveNothing
<1>11. QED
  BY <1>1, <1>2, <1>3, <1>5, <1>6, <1>7, <1>8, <1>9, <1>10 DEF Next, Poll, Maintain, Tasks

\* The flag is up only while a task works: whoever becomes idle lowers it.
LEMMA LoadingStep ==
  ASSUME StaticCacheAssumption, Placed, LoadingIsWork, [Next]_vars
  PROVE  LoadingIsWork'
<1> USE DEF Tasks
<1>1. CASE \E t \in Tasks : Download(t)
  <2>1. PICK t \in Tasks : Download(t)
    BY <1>1
  <2>2. task'[t].pc # "idle"
    BY <2>1, DownloadMoves
  <2>3. QED
    BY <2>2 DEF LoadingIsWork, Working
<1>2. CASE Ensure \/ OpenAsItIs \/ Build \/ Import \/ BuildFails \/ Stamp
  <2>1. task'["poll"].pc # "idle"
    BY <1>2, EnsureMoves, OpenAsItIsMoves, BuildMoves, ImportMoves, BuildFailsMoves, StampMoves
  <2>2. QED
    BY <2>1 DEF LoadingIsWork, Working
<1>3. CASE Loaded \/ LoadFails \/ Counted \/ PassFails \/ Crash
  BY <1>3 DEF Loaded, LoadFails, Counted, PassFails, PassEnds, Crash, LoadingIsWork
<1>4. CASE Inspect \/ Admit
  <2>1. task'["maintain"].pc # "idle"
    BY <1>4, InspectMoves, AdmitMoves
  <2>2. QED
    BY <2>1 DEF LoadingIsWork, Working
<1>5. CASE UNCHANGED <<task, loading>>
  BY <1>5 DEF LoadingIsWork, Working
<1>6. QED
  BY <1>1, <1>2, <1>3, <1>4, <1>5 DEF Next, Poll, Maintain, Age, Start, vars, memory

-----------------------------------------------------------------------------
(* What is uncrossed.                                                      *)

LEMMA LoadsOnceStep ==
  ASSUME StaticCacheAssumption, Typed, LoadsOnce, [Next]_vars
  PROVE  LoadsOnce'
<1> USE DEF Typed, Tasks
<1>1. CASE Loaded \/ LoadFails
  <2>1. task'["poll"].pc = "idle"
    BY <1>1, EndMoves
  <2>2. Loaded => counted'
    BY DEF Loaded
  <2>3. LoadFails => entry'.state # "loaded"
    BY DEF LoadFails, Unloaded
  <2>4. QED
    BY <1>1, <2>1, <2>2, <2>3 DEF LoadsOnce, Working
<1>2. CASE Crash
  BY <1>2, EndMoves DEF Crash, LoadsOnce, Working, Unloaded
<1>3. CASE Counted \/ PassFails
  <2>1. PICK ok \in BOOLEAN : PassEnds(ok)
    BY <1>3 DEF Counted, PassFails
  <2>2. /\ task'["poll"] = task["poll"]
        /\ counted => counted'
        /\ entry' = entry \/ entry'.state = "absent"
    BY <1>3, <2>1, EndMoves DEF PassEnds, Unloaded
  <2>3. QED
    BY <2>2 DEF LoadsOnce, Working
<1>4. CASE Ensure
  BY <1>4 DEF Ensure, LoadsOnce, memory
<1>5. ASSUME UNCHANGED <<entry, counted>>, task["poll"].pc = "idle" => task'["poll"].pc = "idle"
      PROVE  LoadsOnce'
  BY <1>5 DEF LoadsOnce, Working
<1>6. CASE \E t \in Tasks : Download(t)
  <2>1. UNCHANGED <<entry, counted>>
    BY <1>6 DEF Download, Check, Discard, Fetch, FetchFails, WriteFails, Rename, memory
  <2>2. QED
    BY <1>5, <1>6, <2>1, DownloadMoves
<1>7. CASE OpenAsItIs \/ Build \/ Import \/ BuildFails \/ Stamp
  <2>1. UNCHANGED <<entry, counted>> /\ task["poll"].pc # "idle"
    BY <1>7 DEF OpenAsItIs, Build, Import, BuildFails, Stamp, memory
  <2>2. QED
    BY <1>5, <2>1
<1>8. CASE Inspect \/ Admit
  BY <1>5, <1>8, InspectMoves, AdmitMoves DEF Inspect, Admit, memory
<1>9. CASE UNCHANGED <<task, entry, counted>>
  BY <1>5, <1>9
<1>10. QED
  BY <1>1, <1>2, <1>3, <1>4, <1>6, <1>7, <1>8, <1>9
     DEF Next, Poll, Maintain, Age, Start, vars, memory

LEMMA AloneStep ==
  ASSUME StaticCacheAssumption, Placed, Alone, [Next]_vars
  PROVE  Alone'
<1> USE DEF Tasks
<1>1. CASE Download("poll")
  BY <1>1, DownloadMoves DEF Alone, Working
<1>2. CASE Download("maintain")
  BY <1>2, DownloadMoves DEF Alone, Working
<1>3. CASE Ensure
  BY <1>3, EnsureMoves DEF Alone, Working
<1>4. CASE OpenAsItIs \/ Build \/ Import \/ BuildFails \/ Stamp
  BY <1>4, OpenAsItIsMoves, BuildMoves, ImportMoves, BuildFailsMoves, StampMoves
     DEF Alone, Working, OpenAsItIs, Build, Import, Stamp
<1>5. CASE Loaded \/ LoadFails \/ Counted \/ PassFails \/ Crash
  BY <1>5, EndMoves DEF Alone, Working
<1>6. CASE Inspect \/ Admit
  BY <1>6, InspectMoves, AdmitMoves DEF Alone, Working
<1>7. CASE UNCHANGED task
  BY <1>7 DEF Alone, Working
<1>8. QED
  BY <1>1, <1>2, <1>3, <1>4, <1>5, <1>6, <1>7 DEF Next, Poll, Maintain, Age, Start, vars

\* The zips whose rows an uncrossed build has are the zips in the cache.
LEMMA UncrossedBuildStep ==
  ASSUME StaticCacheAssumption, Typed, Alone, Alone', UncrossedBuild, [Next]_vars
  PROVE  UncrossedBuild'
<1> USE DEF Typed, Tasks
<1>1. ASSUME Import, ~task'["poll"].crossed
      PROVE  /\ task'["poll"].pc = "import" => \A z \in Zips : z < task'["poll"].zip => Reads(z)'
             /\ task'["poll"].pc = "stamp" => \A z \in Zips : Reads(z)'
  <2>0. PICK y \in Zips : y = task["poll"].zip
    BY DEF Placed, TaskState
  <2>1. y \in Nat /\ task["poll"].of \in [Zips -> Times] /\ zips' = zips
    BY <1>1, SmallNumbers DEF Placed, TaskState, Import, disk
  <2>2. Reads(y)'
    BY <1>1, <2>0, <2>1, ImportMoves DEF Reads
  <2>3. \A z \in Zips : z < y => Reads(z)'
    BY <1>1, <2>0, <2>1, ImportMoves DEF Import, UncrossedBuild, Reads, Zips
  <2>5. \A z \in Zips : z <= LastZip /\ z \in Nat
    BY DEF Zips
  <2>6. \A z \in Zips : (z < y + 1 => z < y \/ z = y) /\ (~(y < LastZip) => z < y \/ z = y)
    BY <2>1, <2>5 DEF StaticCacheAssumption
  <2>7. QED
    BY <1>1, <2>0, <2>2, <2>3, <2>6, ImportMoves
<1>2. ASSUME Build
      PROVE  UncrossedBuild'
  BY <1>2, BuildMoves DEF UncrossedBuild, Zips
<1>3. ASSUME Stamp \/ OpenAsItIs
      PROVE  UncrossedBuild'
  BY <1>3, StampMoves, OpenAsItIsMoves DEF UncrossedBuild
<1>4. ASSUME ~(OpenAsItIs \/ Build \/ Import \/ Stamp), ~task'["poll"].crossed,
             task'["poll"].pc \in {"import", "stamp"}
      PROVE  /\ task'["poll"].pc = "import" => \A z \in Zips : z < task'["poll"].zip => Reads(z)'
             /\ task'["poll"].pc = "stamp" => \A z \in Zips : Reads(z)'
  <2>1. /\ task'["poll"].pc = task["poll"].pc /\ task'["poll"].zip = task["poll"].zip
        /\ task'["poll"].of = task["poll"].of /\ ~task["poll"].crossed
    BY <1>4, BuildStep
  <2>2. task["maintain"].pc = "idle"
    BY <1>4, <2>1 DEF Alone, Working
  <2>3. \A z \in Zips : zips'[z].mtime = zips[z].mtime
    BY <1>4, <2>1, <2>2, ZipsStep, AgeStep DEF Discard, Rename
  <2>4. QED
    BY <1>4, <2>1, <2>3 DEF UncrossedBuild, Reads
<1>5. QED
  BY <1>1, <1>2, <1>3, <1>4 DEF UncrossedBuild

\* An uncrossed index is older than what is about to replace a zip it was imported from.
LEMMA UncrossedIndexStep ==
  ASSUME StaticCacheAssumption, Typed, Alone, UncrossedBuild, UncrossedIndex, [Next]_vars
  PROVE  UncrossedIndex'
<1> USE DEF Typed, Tasks
<1>1. clock' \in Nat /\ clock \in Nat /\ clock <= clock'
  BY ClockStep
<1>2. ASSUME Stamp, ~index'.crossed
      PROVE  /\ \A z \in Zips : Exists(z)' => zips'[z].mtime = index'.of[z]
             /\ \A t \in Tasks : task'[t].pc # "rename"
  <2>1. index'.of = task["poll"].of /\ ~task["poll"].crossed /\ zips' = zips
    BY <1>2 DEF Stamp
  <2>2. \A z \in Zips : Reads(z)
    BY <1>2, <2>1 DEF Stamp, UncrossedBuild
  <2>3. task["maintain"].pc = "idle"
    BY <1>2, <2>1 DEF Alone, Working, Stamp
  <2>4. \A t \in Tasks : task'[t].pc # "rename"
    BY <1>2, <2>3, StampMoves
  <2>5. QED
    BY <2>1, <2>2, <2>4 DEF Reads
<1>3. ASSUME UNCHANGED index, index # NoIndex, ~index.crossed, NEW z \in Zips, Exists(z)'
      PROVE  zips'[z].mtime = index.of[z] \/ zips'[z].mtime > index.mtime
  <2>1. CASE Exists(z) /\ zips'[z].mtime = zips[z].mtime
    BY <1>3, <2>1 DEF UncrossedIndex
  <2>2. CASE \E t \in Tasks : Rename(t) /\ zips'[z].mtime = task[t].temp
    BY <1>3, <2>2 DEF UncrossedIndex, Rename
  <2>3. QED
    BY <1>3, <2>1, <2>2, MtimeStep
<1>4. ASSUME UNCHANGED index, index # NoIndex, ~index.crossed, NEW t \in Tasks, task'[t].pc = "rename"
      PROVE  task'[t].temp > index.mtime
  <2>1. CASE Fetch(t)
    <3>1. task'[t].temp = clock + 1 /\ index.mtime \in 1 .. clock
      BY <1>4, <2>1, FetchMoves DEF Dated
    <3>2. QED
      BY <1>1, <3>1
  <2>2. CASE task[t].pc = "rename" /\ task'[t].temp = task[t].temp
    BY <1>4, <2>2 DEF UncrossedIndex
  <2>3. QED
    BY <1>4, <2>1, <2>2, RenameStep
<1>5. QED
  BY <1>2, <1>3, <1>4, IndexStep DEF UncrossedIndex, Exists

\* So it is of the cache, as long as it passes as current.
LEMMA UncrossedIsCurrent ==
  ASSUME StaticCacheAssumption, Typed, UncrossedIndex
  PROVE  CurrentIsOfTheCache
<1> SUFFICES ASSUME ~NeedsRebuild, ~index.crossed
             PROVE  index.of = Cached
  BY DEF CurrentIsOfTheCache
<1>1. index # NoIndex /\ index.of \in [Zips -> Times]
  BY DEF NeedsRebuild, Typed, TypeOK, Index
<1>2. ASSUME NEW z \in Zips
      PROVE  index.of[z] = zips[z].mtime
  <2>1. Exists(z) /\ ~(index.mtime < zips[z].mtime)
    BY DEF NeedsRebuild
  <2>2. zips[z].mtime \in Nat /\ index.mtime \in Nat
    BY <1>1, <2>1, SmallNumbers DEF Typed, Dated, Zip, TypeOK, Index
  <2>3. QED
    BY <1>1, <2>1, <2>2 DEF UncrossedIndex
<1>3. QED
  BY <1>1, <1>2 DEF Cached

LEMMA UncrossedOpenStep ==
  ASSUME StaticCacheAssumption, Typed, Alone, Alone', UncrossedBuild, UncrossedIndex,
         UncrossedOpen, [Next]_vars
  PROVE  UncrossedOpen'
<1> USE DEF Typed, Tasks
<1> SUFFICES ASSUME task'["poll"].pc = "open", ~task'["poll"].crossed, ~index'.crossed
             PROVE  index'.of = Cached'
  BY DEF UncrossedOpen
<1>1. CASE Stamp
  <2>1. /\ index'.of = task["poll"].of /\ zips' = zips
        /\ task["poll"].of \in [Zips -> Times]
    BY <1>1 DEF Stamp, Placed, TaskState
  <2>2. \A z \in Zips : Reads(z)
    BY <1>1, StampMoves DEF Stamp, UncrossedBuild
  <2>3. QED
    BY <2>1, <2>2 DEF Reads, Cached
<1>2. CASE OpenAsItIs
  <2>1. CurrentIsOfTheCache
    BY UncrossedIsCurrent
  <2>2. QED
    BY <1>2, <2>1 DEF CurrentIsOfTheCache, OpenAsItIs, disk, Cached
<1>3. CASE ~(Stamp \/ OpenAsItIs)
  <2>1. ~Import /\ ~Build
    BY ImportMoves, BuildMoves
  <2>2. task["poll"].pc = "open" /\ ~task["poll"].crossed /\ index' = index
    BY <1>3, <2>1, BuildStep, IndexStep
  <2>3. task["maintain"].pc = "idle"
    BY <2>2 DEF Alone, Working
  <2>4. \A z \in Zips : zips'[z].mtime = zips[z].mtime
    BY <2>2, <2>3, ZipsStep, AgeStep DEF Discard, Rename
  <2>5. QED
    BY <2>2, <2>4 DEF UncrossedOpen, Cached
<1>4. QED
  BY <1>1, <1>2, <1>3

\* An uncrossed entry is of the cache until a pass begins that will drop it.
LEMMA UncrossedEntryStep ==
  ASSUME StaticCacheAssumption, Typed, Alone, LoadsOnce, UncrossedOpen, UncrossedEntry, [Next]_vars
  PROVE  UncrossedEntry'
<1> USE DEF Typed, Tasks
<1> SUFFICES ASSUME entry'.state = "loaded", ~entry'.crossed
             PROVE  IF Working("maintain")' THEN task'["maintain"].stale ELSE entry'.of = Cached'
  BY DEF UncrossedEntry
<1>1. CASE Loaded
  <2>1. /\ task["poll"].pc = "open" /\ ~task["poll"].crossed /\ ~index.crossed
        /\ entry'.of = index.of /\ zips' = zips
    BY <1>1 DEF Loaded, disk
  <2>2. ~Working("maintain") /\ index.of = Cached
    BY <2>1 DEF Alone, Working, UncrossedOpen
  <2>3. ~Working("maintain")'
    BY <1>1, <2>2, EndMoves DEF Working
  <2>4. QED
    BY <2>1, <2>2, <2>3 DEF Cached
<1>2. CASE ~Loaded
  <2>1. entry' = entry
    BY <1>2, EntryStep DEF Unloaded
  <2>2. task["poll"].pc = "idle" /\ counted
    BY <2>1 DEF LoadsOnce, Working
  <2>3. CASE Working("maintain")
    <3>1. task["maintain"].stale
      BY <2>1, <2>3 DEF UncrossedEntry
    <3>2. ~(Counted \/ PassFails)
      BY <2>1, <3>1 DEF Counted, PassFails, PassEnds, Unloaded
    <3>3. ~Crash
      BY <2>1 DEF Crash, Unloaded
    <3>4. CASE Download("maintain")
      BY <3>1, <3>4, DownloadMoves DEF Working
    <3>5. CASE Inspect \/ Admit
      BY <2>3, <3>1, <3>5, InspectMoves, AdmitMoves DEF Working
    <3>6. CASE UNCHANGED task["maintain"]
      BY <2>3, <3>1, <3>6 DEF Working
    <3>7. ~Poll \/ Ensure
      BY <1>2, <2>2 DEF Poll, Download, Check, Discard, Fetch, FetchFails, WriteFails, Rename, OpenAsItIs,
            Build, Import, BuildFails, Stamp, LoadFails
    <3>8. QED
      BY <3>2, <3>3, <3>4, <3>5, <3>6, <3>7, EnsureMoves DEF Next, Maintain, Age, Start, vars
  <2>4. CASE ~Working("maintain")
    <3>1. entry.of = Cached
      BY <2>1, <2>4 DEF UncrossedEntry
    <3>2. \A z \in Zips : zips'[z].mtime = zips[z].mtime
      BY <2>2, <2>4, ZipsStep, AgeStep DEF Discard, Rename, Working
    <3>3. Cached' = Cached
      BY <3>2 DEF Cached
    <3>4. CASE Inspect
      BY <2>2, <3>4, InspectMoves DEF Inspect, Working
    <3>5. CASE ~Working("maintain")'
      BY <2>1, <3>1, <3>3, <3>5
    <3>6. ~Inspect => ~Working("maintain")'
      <4>1. CASE Poll
        BY <1>2, <2>2, <2>4, <4>1, EnsureMoves
           DEF Poll, Download, Check, Discard, Fetch, FetchFails, WriteFails, Rename, OpenAsItIs,
               Build, Import, BuildFails, Stamp, LoadFails, Working
      <4>2. CASE Maintain /\ ~Inspect
        BY <2>4, <4>2
           DEF Maintain, Download, Check, Discard, Fetch, FetchFails, WriteFails, Rename, Admit,
               Counted, PassFails, Working
      <4>3. CASE Crash
        BY <4>3, EndMoves DEF Working
      <4>4. CASE UNCHANGED task
        BY <2>4, <4>4 DEF Working
      <4>5. QED
        BY <4>1, <4>2, <4>3, <4>4 DEF Next, Age, Start, vars
    <3>7. QED
      BY <3>4, <3>5, <3>6
  <2>5. QED
    BY <2>3, <2>4
<1>3. QED
  BY <1>1, <1>2

-----------------------------------------------------------------------------
(* The invariant, and what it implies.                                     *)

LEMMA InvariantInit ==
  ASSUME StaticCacheAssumption, Init
  PROVE  IInv
<1>1. Typed
  BY TypedInit
<1>2. /\ \A t \in Tasks : task[t].pc = "idle" /\ ~task[t].crossed
      /\ entry.state = "absent"
  BY DEF Init, Idle, Unloaded
<1>3. Progress /\ LoadsOnce /\ Alone /\ UncrossedBuild /\ UncrossedOpen /\ UncrossedEntry
  BY <1>2 DEF Progress, LoadsOnce, Alone, UncrossedBuild, UncrossedOpen, UncrossedEntry, Working, Tasks
<1>4. index # NoIndex => /\ index.of = Cached /\ \A z \in Zips : zips[z].mtime = 1
  <2>1. index # NoIndex => \A z \in Zips : zips[z].body = "zip"
    BY DEF Init
  <2>2. \A z \in Zips : zips[z].body = "zip" => zips[z].mtime = 1
    BY DEF Init, None
  <2>3. index # NoIndex => index.of = Cached
    BY DEF Init
  <2>4. QED
    BY <2>1, <2>2, <2>3
<1>5. IndexIsWhole
  BY <1>2, <1>4 DEF IndexIsWhole, Cached
<1>6. UncrossedIndex
  BY <1>2, <1>4 DEF UncrossedIndex, Cached
<1>7. BuildsLeaveNothing /\ LoadingIsWork
  BY DEF Init, BuildsLeaveNothing, LoadingIsWork
<1>8. QED
  BY <1>1, <1>3, <1>5, <1>6, <1>7 DEF IInv, Uncrossed

LEMMA InvariantStep ==
  ASSUME StaticCacheAssumption, IInv, [Next]_vars
  PROVE  IInv'
<1> USE DEF IInv, Uncrossed
<1>1. Typed'
  BY PlacedStep, TypeStep, DatedStep DEF Typed
<1>2. Progress' /\ IndexIsWhole' /\ BuildsLeaveNothing'
  BY WholeStep, TempsStep
<1>3. LoadingIsWork' /\ Alone' /\ LoadsOnce'
  BY LoadingStep, AloneStep, LoadsOnceStep DEF Typed
<1>4. UncrossedBuild' /\ UncrossedIndex' /\ UncrossedOpen' /\ UncrossedEntry'
  BY <1>3, UncrossedBuildStep, UncrossedIndexStep, UncrossedOpenStep, UncrossedEntryStep
<1>5. QED
  BY <1>1, <1>2, <1>3, <1>4

LEMMA Invariant == Spec => []IInv
<1>1. Init => IInv
  BY InvariantInit, StaticCacheAssumption
<1>2. IInv /\ [Next]_vars => IInv'
  BY InvariantStep, StaticCacheAssumption
<1>3. QED
  BY <1>1, <1>2, PTL DEF Spec

\* For any number of zips, no step of either task, no crash and no day that passes
\* takes a variable out of its type.
THEOREM TypeCorrect == Spec => []TypeOK
<1>1. IInv => TypeOK
  BY DEF IInv, Typed
<1>2. QED
  BY <1>1, Invariant, PTL

\* build_sqlite: however its steps interleave with a refresh, wherever it fails and
\* whenever the process dies, an index holds a schedule of every zip of the feed.
THEOREM IndexWhole == Spec => []IndexIsWhole
<1>1. IInv => IndexIsWhole
  BY DEF IInv
<1>2. QED
  BY <1>1, Invariant, PTL

\* TempCleanup and sweep_stale_temp_files: the temporary files of earlier builds are gone.
THEOREM BuildsClean == Spec => []BuildsLeaveNothing
<1>1. IInv => BuildsLeaveNothing
  BY DEF IInv
<1>2. QED
  BY <1>1, Invariant, PTL

\* needs_rebuild: comparing times is enough to tell an index that is not of the zips
\* in the cache, whatever was refreshed, unless its build crossed a pass.
THEOREM CurrentOfTheCache == Spec => []CurrentIsOfTheCache
<1>1. IInv => CurrentIsOfTheCache
  BY UncrossedIsCurrent, StaticCacheAssumption DEF IInv, Uncrossed
<1>2. QED
  BY <1>1, Invariant, PTL

\* ensure_static_loaded and maintain_one: no zip changes under an open index that
\* maintenance does not drop at the end of the pass that changed it.
THEOREM LoadedOfTheCache == Spec => []LoadedIsOfTheCache
<1>1. IInv => LoadedIsOfTheCache
  BY DEF IInv, Uncrossed, UncrossedEntry, LoadedIsOfTheCache
<1>2. QED
  BY <1>1, Invariant, PTL

\* SourceRuntime.loading: the flag the two tasks share is down when both are idle.
THEOREM LoadingWork == Spec => []LoadingIsWork
<1>1. IInv => LoadingIsWork
  BY DEF IInv
<1>2. QED
  BY <1>1, Invariant, PTL
=============================================================================
