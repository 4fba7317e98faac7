---------------------------- MODULE StatusStream -----------------------------
(***************************************************************************)
(* The source-status stream.  Unlike the leaderboard's, its full comes     *)
(* over HTTP (GET /api/status) while its deltas come over the websocket    *)
(* (status_live of api.rs), so the two race; report.ts holds the deltas    *)
(* that arrive while a full is in flight and replays them.  The server     *)
(* starts with no rows; from its first tick on it reports its sources.     *)
(*                                                                         *)
(* MidFetch says whether a restart may come while the page waits for a     *)
(* full or still holds deltas of a fetch that failed.                      *)
(*                                                                         *)
(* A fetch fails at most MaxFails times, a connection is lost at most      *)
(* MaxDrops times and the server restarts at most MaxRestarts times.  A    *)
(* response that has left the old server may reach the page after that.    *)
(***************************************************************************)
EXTENDS DeltaStream

CONSTANTS
  Reports,       \* the source lists a tick may find: sequences of entries
  UPDATE_BUFFER, \* the broadcast channel's capacity
  MidFetch,      \* may the server restart while the page waits for a full
  MaxTicks, MaxDrops, MaxFails, MaxRestarts \* bounds

ASSUME StatusStreamAssumption ==
  /\ \A r \in Reports : IsBoard(r)
  /\ UPDATE_BUFFER \in Nat \ {0}
  /\ MidFetch \in BOOLEAN
  /\ {MaxTicks, MaxDrops, MaxFails, MaxRestarts} \subseteq Nat

VARIABLES
  seq, rows,    \* DeltaStream.seq and DeltaStream.rows
  unsent,       \* the delta broadcast_status has computed and not yet sent
  buffer,       \* what the page's receiver has not read yet
  lagged,       \* whether the receiver was overrun
  wire,         \* what is on its way to the page over the websocket
  link,         \* the connection, from the server's side
  opened,       \* whether the page has seen onopen
  answer,       \* the response to the page's fetch, once the server gave it
  page,         \* the page's state
  spent,        \* how much of the bounds is spent
  published     \* history variable: every report the server has had

stream == <<seq, rows, unsent>>
receiver == <<buffer, lagged>>
socket == <<link, opened>>
vars == <<stream, receiver, wire, socket, answer, page, spent, published>>

Links == {"down", "upgrading", "live", "closing"}

Empty == [k \in {} |-> {}]

\* The report as the page's store has it: by slug.
BySlug(entries) == [k \in KeysOf(entries) |-> RowOf(entries, k)]

\* `view` is a history variable: which publication the page shows.
Init ==
  /\ seq = 0 /\ rows = <<>> /\ unsent = <<>>
  /\ buffer = <<>> /\ lagged = FALSE
  /\ wire = <<>>
  /\ link = "down" /\ opened = FALSE
  /\ answer = <<>>
  /\ page = [seq |-> -1, fetching |-> FALSE, queued |-> <<>>,
             sources |-> Empty, view |-> 0]
  /\ spent = [ticks |-> 0, drops |-> 0, fails |-> 0, restarts |-> 0]
  /\ published = <<Empty>>

Spend(what, limit) ==
  /\ spent[what] < limit
  /\ spent' = [spent EXCEPT ![what] = @ + 1]

-----------------------------------------------------------------------------
(* The server.                                                             *)

\* broadcast_status: advance, under the mutex, and then the send.
Advance(report) ==
  /\ unsent = <<>>
  /\ Spend("ticks", MaxTicks)
  /\ unsent' = <<[at |-> Len(published) + 1, body |-> UnorderedDelta(seq, rows, report)]>>
  /\ seq' = seq + 1
  /\ rows' = report
  /\ published' = Append(published, BySlug(report))
  /\ UNCHANGED <<receiver, wire, socket, answer, page>>

\* A wrong body: a receiver that has room for everything.
SendUnbounded ==
  /\ unsent # <<>>
  /\ unsent' = <<>>
  /\ IF link # "live" THEN UNCHANGED buffer ELSE buffer' = buffer \o unsent
  /\ UNCHANGED <<seq, rows, lagged, wire, socket, answer, page, spent, published>>

Send ==
  /\ unsent # <<>>
  /\ unsent' = <<>>
  /\ IF link # "live" THEN UNCHANGED receiver
     ELSE IF Len(buffer) < UPDATE_BUFFER
       THEN buffer' = buffer \o unsent /\ UNCHANGED lagged
       ELSE buffer' = Tail(buffer) \o unsent /\ lagged' = TRUE
  /\ UNCHANGED <<seq, rows, wire, socket, answer, page, spent, published>>

\* status_live: a receiver, and no full.
Subscribe ==
  /\ link = "upgrading"
  /\ link' = "live"
  /\ UNCHANGED <<stream, receiver, wire, opened, answer, page, spent, published>>

\* stream: one delta from the receiver to the socket, or the end of an overrun one.
Pump ==
  /\ link = "live" /\ ~lagged /\ buffer # <<>>
  /\ wire' = Append(wire, Head(buffer))
  /\ buffer' = Tail(buffer)
  /\ UNCHANGED <<stream, lagged, socket, answer, page, spent, published>>

BreakOnLag ==
  /\ link = "live" /\ lagged
  /\ link' = "closing"
  /\ buffer' = <<>> /\ lagged' = FALSE
  /\ UNCHANGED <<stream, wire, opened, answer, page, spent, published>>

\* GET /api/status.
Answer ==
  /\ page.fetching /\ answer = <<>>
  /\ answer' = <<[at |-> Len(published), body |-> Full(seq, rows)]>>
  /\ UNCHANGED <<stream, receiver, wire, socket, page, spent, published>>

-----------------------------------------------------------------------------
(* The page.                                                               *)

\* The rows of a message merged into the store, and the departed ones deleted:
\* the store is keyed by slug, `removed` holds the server's keys.
Stored(sources, body) ==
  LET old(k) == IF k \in DOMAIN sources THEN sources[k] ELSE Empty
      merged == [k \in DOMAIN sources \cup KeysOf(body.entries) |->
                   IF k \in KeysOf(body.entries)
                     THEN Merge(old(k), RowOf(body.entries, k)) ELSE sources[k]]
  IN Restrict(merged, DOMAIN merged \ body.removed)

\* Two wrong bodies: a page that merges across a gap, and one that takes a
\* message's seq before it has looked for a gap.
AppliedAcrossGap(p, m) ==
  LET delta == m.body.base # NoBase IN
  IF p.fetching /\ delta THEN [p EXCEPT !.queued = Append(@, m)]
  ELSE IF m.body.seq <= p.seq THEN p
  ELSE [p EXCEPT !.seq = m.body.seq,
                 !.view = m.at,
                 !.sources = IF delta THEN Stored(@, m.body) ELSE BySlug(m.body.entries)]

AppliedSeqFirst(p, m) ==
  LET delta == m.body.base # NoBase IN
  IF p.fetching /\ delta THEN [p EXCEPT !.queued = Append(@, m)]
  ELSE IF m.body.seq <= p.seq THEN p
  ELSE IF delta /\ m.body.base > p.seq
    THEN [p EXCEPT !.seq = m.body.seq, !.fetching = TRUE]
  ELSE [p EXCEPT !.seq = m.body.seq,
                 !.view = m.at,
                 !.sources = IF delta THEN Stored(@, m.body) ELSE BySlug(m.body.entries)]

\* apply, as a function of the page's state: hold a delta while a full is in
\* flight, ignore what we already have, fetch when a tick went missing.
Applied(p, m) ==
  LET delta == m.body.base # NoBase IN
  IF p.fetching /\ delta THEN [p EXCEPT !.queued = Append(@, m)]
  ELSE IF m.body.seq <= p.seq THEN p
  ELSE IF delta /\ m.body.base > p.seq THEN [p EXCEPT !.fetching = TRUE]
  ELSE [p EXCEPT !.seq = m.body.seq,
                 !.view = m.at,
                 !.sources = IF delta THEN Stored(@, m.body) ELSE BySlug(m.body.entries)]

Oldest(m, n) == m.body.seq < n.body.seq

\* Array.sort, which is stable: an order of the held ones, the oldest first.
IsSorting(order, queued) ==
  \A i, j \in DOMAIN order : i < j =>
    \/ Oldest(queued[order[i]], queued[order[j]])
    \/ ~Oldest(queued[order[j]], queued[order[i]]) /\ order[i] < order[j]

\* apply of one held delta after the other.
Replayed(p, held) ==
  LET upto[n \in 0 .. Len(held)] == IF n = 0 THEN p ELSE Applied(upto[n - 1], held[n])
  IN upto[Len(held)]

\* onopen: loadFull, unless a fetch is still in flight.
Open ==
  /\ link \in {"upgrading", "live"} /\ ~opened
  /\ opened' = TRUE
  /\ page' = [page EXCEPT !.fetching = TRUE]
  /\ UNCHANGED <<stream, receiver, wire, link, answer, spent, published>>

\* loadFull's fetch resolves: apply the full, then replay what was held.
Land ==
  /\ answer # <<>>
  /\ LET landed == Applied([page EXCEPT !.fetching = FALSE], answer[1])
     IN \E order \in Bijection(DOMAIN landed.queued, DOMAIN landed.queued) :
          /\ IsSorting(order, landed.queued)
          /\ page' = Replayed([landed EXCEPT !.queued = <<>>],
                              [i \in DOMAIN order |-> landed.queued[order[i]]])
  /\ answer' = <<>>
  /\ UNCHANGED <<stream, receiver, wire, socket, spent, published>>

\* Or rejects, and what was held stays held.
FetchFails ==
  /\ page.fetching
  /\ Spend("fails", MaxFails)
  /\ answer' = <<>>
  /\ page' = [page EXCEPT !.fetching = FALSE]
  /\ UNCHANGED <<stream, receiver, wire, socket, published>>

Deliver ==
  /\ opened /\ wire # <<>>
  /\ page' = Applied(page, Head(wire))
  /\ wire' = Tail(wire)
  /\ UNCHANGED <<stream, receiver, socket, answer, spent, published>>

Connect ==
  /\ link = "down"
  /\ link' = "upgrading"
  /\ UNCHANGED <<stream, receiver, wire, opened, answer, page, spent, published>>

\* onclose.  A fetch in flight is not aborted.
Closed ==
  /\ link' = "down" /\ opened' = FALSE
  /\ wire' = <<>>
  /\ buffer' = <<>> /\ lagged' = FALSE
  /\ page' = [page EXCEPT !.seq = -1]

HearClose ==
  /\ link = "closing" /\ wire = <<>>
  /\ Closed
  /\ UNCHANGED <<stream, answer, spent, published>>

Drop ==
  /\ link # "down"
  /\ Spend("drops", MaxDrops)
  /\ Closed
  /\ UNCHANGED <<stream, answer, published>>

\* A new process: seq 0, no rows, no sockets; what the old one answered may land.
Restart ==
  /\ MidFetch \/ (~page.fetching /\ page.queued = <<>>)
  /\ Spend("restarts", MaxRestarts)
  /\ seq' = 0 /\ rows' = <<>> /\ unsent' = <<>>
  /\ published' = Append(published, Empty)
  /\ Closed
  /\ UNCHANGED answer

Server == \/ \E report \in Reports : Advance(report)
          \/ Send \/ Subscribe \/ Pump \/ BreakOnLag \/ Answer

Page == Open \/ Land \/ FetchFails \/ Deliver \/ Connect \/ HearClose

Next == Server \/ Page \/ Drop \/ Restart

Spec == Init /\ [][Next]_vars

-----------------------------------------------------------------------------
(* Properties.                                                             *)

\* The shape of the state; a response is only ever on its way to a page that
\* waits for it.
TypeOK ==
  /\ seq \in Nat /\ rows \in Reports \cup {<<>>}
  /\ Len(unsent) <= 1 /\ Len(buffer) <= UPDATE_BUFFER
  /\ link \in Links
  /\ opened => link # "down"
  /\ answer # <<>> => page.fetching
  /\ page.seq \in Nat \cup {-1}
  /\ page.view \in 0 .. Len(published)

ShownSources == [k \in DOMAIN page.sources |-> Shown(page.sources[k])]

\* What the page shows is a report the server published, whole, and the reports
\* it shows only get newer, however fulls, held deltas and lost connections race.
Reader == INSTANCE Mirror WITH shown <- ShownSources, view <- page.view,
                               Boards <- {BySlug(r) : r \in Reports \cup {<<>>}}
MirrorsTheServer == Reader!Spec

\* report.ts: "seq <= ours -> we already have it".  What the page ignores tells
\* it nothing newer than what it shows.
IgnoredIsHeld ==
  \A m \in Range(answer) \cup (IF opened /\ ~page.fetching THEN Range(wire) ELSE {}) :
    m.body.seq <= page.seq => page.view >= m.at

\* wire.rs: "departures are named in removed".  A page that shows the server's
\* current publication shows the rows of it and no others.
DepartedAreGone ==
  (page.view = Len(published)) => DOMAIN page.sources = KeysOf(rows)
=============================================================================
