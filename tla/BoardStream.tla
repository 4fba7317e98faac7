----------------------------- MODULE BoardStream -----------------------------
(***************************************************************************)
(* The leaderboard stream, from the ticker's broadcast_update through the  *)
(* broadcast channel and one websocket (subscribe and stream of api.rs) to *)
(* the page's socket (socket.ts) and board (board.ts).  One page: the      *)
(* server keeps nothing about its pages that another could see.            *)
(*                                                                         *)
(* Connections drop, at most MaxDrops times, with all that is in flight,   *)
(* and the server restarts, at most MaxRestarts times, from nothing.       *)
(***************************************************************************)
EXTENDS DeltaStream

CONSTANTS
  Boards,        \* the leaderboards a tick may find: sequences of entries
  UPDATE_BUFFER, \* the broadcast channel's capacity
  MaxTicks,      \* bound on the ticks
  MaxDrops,      \* bound on the connections lost
  MaxRestarts    \* bound on the server's restarts

ASSUME BoardStreamAssumption ==
  /\ \A b \in Boards : IsBoard(b)
  /\ <<>> \in Boards
  /\ UPDATE_BUFFER \in Nat \ {0}
  /\ {MaxTicks, MaxDrops, MaxRestarts} \subseteq Nat

VARIABLES
  seq,       \* DeltaStream.seq
  rows,      \* DeltaStream.rows
  unsent,    \* the delta broadcast_update has computed and not yet sent
  buffer,    \* what the page's receiver has not read yet
  lagged,    \* whether the receiver was overrun
  wire,      \* what is on its way to the page
  link,      \* the connection: see Links
  mySeq,     \* the page's seq
  entries,   \* the page's entries
  ticks, drops, restarts, \* how much of the bounds is spent
  published, \* history variable: every board the server has had
  view       \* history variable: which of them the page shows

stream == <<seq, rows, unsent>>
receiver == <<buffer, lagged>>
page == <<mySeq, entries, view>>
spent == <<ticks, drops, restarts>>
vars == <<stream, receiver, wire, link, page, spent, published>>

\* No socket; a handshake; a receiver without its full; a pump running; and a
\* socket the server has closed but the page still reads.
Links == {"down", "upgrading", "subscribed", "open", "closing"}
Receiving == {"subscribed", "open"}

Init ==
  /\ seq = 0 /\ rows = <<>> /\ unsent = <<>>
  /\ buffer = <<>> /\ lagged = FALSE
  /\ wire = <<>>
  /\ link = "down"
  /\ mySeq = -1 /\ entries = <<>> /\ view = 0
  /\ ticks = 0 /\ drops = 0 /\ restarts = 0
  /\ published = <<<<>>>>

-----------------------------------------------------------------------------
(* The server.                                                             *)

\* broadcast_update, under the stream's mutex: advance.  `at` is which
\* publication a message tells of, for the page's `view`.
Advance(board) ==
  /\ ticks < MaxTicks
  /\ unsent = <<>>
  /\ unsent' = <<[at |-> Len(published) + 1, body |-> OrderedDelta(seq, rows, board)]>>
  /\ seq' = seq + 1
  /\ rows' = board
  /\ published' = Append(published, board)
  /\ ticks' = ticks + 1
  /\ UNCHANGED <<receiver, wire, link, page, drops, restarts>>

\* Two wrong bodies: a receiver that skips what it has no room for, and one that
\* has room for everything.
SendSkips ==
  /\ unsent # <<>>
  /\ unsent' = <<>>
  /\ IF link \in Receiving /\ Len(buffer) < UPDATE_BUFFER
       THEN buffer' = buffer \o unsent ELSE UNCHANGED buffer
  /\ UNCHANGED <<seq, rows, lagged, wire, link, page, spent, published>>

SendUnbounded ==
  /\ unsent # <<>>
  /\ unsent' = <<>>
  /\ IF link \in Receiving THEN buffer' = buffer \o unsent ELSE UNCHANGED buffer
  /\ UNCHANGED <<seq, rows, lagged, wire, link, page, spent, published>>

\* The rest of broadcast_update: the send, after the mutex is free again.  A
\* receiver that has UPDATE_BUFFER deltas to read loses the oldest.
Send ==
  /\ unsent # <<>>
  /\ unsent' = <<>>
  /\ IF link \notin Receiving THEN UNCHANGED receiver
     ELSE IF Len(buffer) < UPDATE_BUFFER
       THEN buffer' = buffer \o unsent /\ UNCHANGED lagged
       ELSE buffer' = Tail(buffer) \o unsent /\ lagged' = TRUE
  /\ UNCHANGED <<seq, rows, wire, link, page, spent, published>>

\* subscribe: a receiver first.
Subscribe ==
  /\ link = "upgrading"
  /\ link' = "subscribed"
  /\ buffer' = <<>> /\ lagged' = FALSE
  /\ UNCHANGED <<stream, wire, page, spent, published>>

\* Then the full, which stream sends before anything else.
SendFull ==
  /\ link = "subscribed"
  /\ link' = "open"
  /\ wire' = Append(wire, [at |-> Len(published), body |-> Full(seq, rows)])
  /\ UNCHANGED <<stream, receiver, page, spent, published>>

\* stream: one delta from the receiver to the socket.
Pump ==
  /\ link = "open" /\ ~lagged /\ buffer # <<>>
  /\ wire' = Append(wire, Head(buffer))
  /\ buffer' = Tail(buffer)
  /\ UNCHANGED <<stream, lagged, link, page, spent, published>>

\* stream: an overrun receiver ends the connection.
BreakOnLag ==
  /\ link = "open" /\ lagged
  /\ link' = "closing"
  /\ buffer' = <<>> /\ lagged' = FALSE
  /\ UNCHANGED <<stream, wire, page, spent, published>>

-----------------------------------------------------------------------------
(* The page.                                                               *)

\* A wrong body: the page remembers the seq of the connection it lost.
ClosedKeepsSeq ==
  /\ link' = "down"
  /\ wire' = <<>>
  /\ buffer' = <<>> /\ lagged' = FALSE
  /\ UNCHANGED mySeq

\* onclose: whatever comes back will be a full.  The entries stay on screen.
Closed ==
  /\ link' = "down"
  /\ wire' = <<>>
  /\ buffer' = <<>> /\ lagged' = FALSE
  /\ mySeq' = -1

\* connect, at first and from the retry timer.
Connect ==
  /\ link = "down"
  /\ link' = "upgrading"
  /\ UNCHANGED <<stream, receiver, wire, page, spent, published>>

Message == Head(wire).body

\* apply: already have it.
Ignore ==
  /\ wire # <<>> /\ Message.seq <= mySeq
  /\ wire' = Tail(wire)
  /\ UNCHANGED <<stream, receiver, link, page, spent, published>>

\* A message with no base is a full, and replaces rather than merges.
Known == IF Message.base = NoBase THEN <<>> ELSE entries

Merged(entry) ==
  [key |-> entry.key,
   row |-> IF entry.key \in KeysOf(Known)
             THEN Merge(RowOf(Known, entry.key), entry.row) ELSE entry.row]

Missed == Message.base # NoBase /\ Message.base > mySeq

\* apply: if a tick went missing drop the socket, else merge.  A message holds
\* the whole board in rank order, so what is not in it is forgotten.
Apply ==
  /\ wire # <<>> /\ Message.seq > mySeq
  /\ IF Missed
       THEN Closed /\ UNCHANGED <<entries, view>>
       ELSE /\ entries' = [i \in DOMAIN Message.entries |-> Merged(Message.entries[i])]
            /\ mySeq' = Message.seq
            /\ view' = Head(wire).at
            /\ wire' = Tail(wire)
            /\ UNCHANGED <<receiver, link>>
  /\ UNCHANGED <<stream, spent, published>>

\* The close the server sent arrives behind the messages it had sent before.
HearClose ==
  /\ link = "closing" /\ wire = <<>>
  /\ Closed
  /\ UNCHANGED <<stream, entries, view, spent, published>>

\* The network loses the connection and what it carries.
Drop ==
  /\ link # "down" /\ drops < MaxDrops
  /\ drops' = drops + 1
  /\ Closed
  /\ UNCHANGED <<stream, entries, view, ticks, restarts, published>>

\* The process ends and a new one starts: seq 0, an empty board, no sockets.
Restart ==
  /\ restarts < MaxRestarts
  /\ restarts' = restarts + 1
  /\ seq' = 0 /\ rows' = <<>> /\ unsent' = <<>>
  /\ published' = Append(published, <<>>)
  /\ Closed
  /\ UNCHANGED <<entries, view, ticks, drops>>

Server == \/ \E board \in Boards : Advance(board)
          \/ Send \/ Subscribe \/ SendFull \/ Pump \/ BreakOnLag

Page == Connect \/ Ignore \/ Apply \/ HearClose

Next == Server \/ Page \/ Drop \/ Restart

Spec == Init /\ [][Next]_vars

\* A broadcast that is computed is sent, the handler and the pump go on as long
\* as there is something to do, the network delivers, the retry timer fires.
\* No tick, loss or restart is ever due.
Fairness ==
  /\ WF_vars(Send) /\ WF_vars(Subscribe) /\ WF_vars(SendFull)
  /\ WF_vars(Pump) /\ WF_vars(BreakOnLag) /\ WF_vars(Page)

FairSpec == Spec /\ Fairness

-----------------------------------------------------------------------------
(* Properties.                                                             *)

Message_(m) == m.at \in Nat /\ m.body.seq \in Nat /\ m.body.base \in Nat \cup {NoBase}

\* The shape of the state.
TypeOK ==
  /\ seq \in Nat /\ rows \in Boards
  /\ Len(unsent) <= 1 /\ Len(buffer) <= UPDATE_BUFFER
  /\ \A m \in Range(unsent) \cup Range(buffer) \cup Range(wire) : Message_(m)
  /\ lagged \in BOOLEAN
  /\ link \in Links
  /\ mySeq \in Nat \cup {-1}
  /\ view \in 0 .. Len(published)

\* wire.rs: the merge "is only sound if it can prove it hasn't missed a tick".
\* On one connection none is ever missed: subscribing before the full is built,
\* and closing an overrun connection, leave the page no gap to find.
NoTickIsMissed == (wire # <<>> /\ Message.seq > mySeq) => ~Missed

\* The page shows boards the server published, whole and in order, through
\* merges, lost connections and restarts.
Reader == INSTANCE Mirror WITH shown <- ShownAll(entries)
MirrorsTheServer == Reader!Spec

\* The last board published is the one the page comes to show and keep.
Converges == <>[](view = Len(published) /\ ShownAll(entries) = rows)
=============================================================================
