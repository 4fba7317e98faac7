-------------------------- MODULE BoardStream_proofs --------------------------
(***************************************************************************)
(* Proofs about BoardStream, for any boards, any capacity of the channel   *)
(* and any number of ticks, lost connections and restarts: no message      *)
(* finds a gap, and the page implements Mirror.                            *)
(***************************************************************************)
EXTENDS BoardStream, DeltaStream_proofs

\* What the server can put on its channel and its sockets.
Bodies == {Full(n, b) : n \in Nat, b \in Boards}
            \cup {OrderedDelta(n, a, b) : n \in Nat, a \in Boards, b \in Boards}

Messages == [at : Nat, body : Bodies]

-----------------------------------------------------------------------------
(* What a message tells of the boards published so far, when the stream is *)
(* at a seq: one process numbers its publications without a gap.           *)

Placed(m, boards, n) ==
  /\ m.at \in 1 .. Len(boards)
  /\ m.body.seq \in Nat
  /\ m.at - m.body.seq = Len(boards) - n

TellsAll(m, boards, n) ==
  Placed(m, boards, n) /\ m.body = Full(m.body.seq, boards[m.at])

TellsChange(m, boards, n) ==
  /\ Placed(m, boards, n)
  /\ m.at > 1 /\ m.body.seq >= 1
  /\ m.body = OrderedDelta(m.body.seq - 1, boards[m.at - 1], boards[m.at])

\* A publication makes no message wrong.
LEMMA TellingLasts ==
  ASSUME NEW boards \in Seq(Boards), NEW board \in Boards, NEW n \in Nat, NEW m
  PROVE  /\ TellsAll(m, boards, n) => TellsAll(m, Append(boards, board), n + 1)
         /\ TellsChange(m, boards, n) => TellsChange(m, Append(boards, board), n + 1)
<1> DEFINE after == Append(boards, board)
<1>1. /\ Len(boards) \in Nat /\ Len(after) = Len(boards) + 1
      /\ \A i \in 1 .. Len(boards) : after[i] = boards[i]
  BY Enqueued
<1> HIDE DEF after
<1>2. ASSUME Placed(m, boards, n)
      PROVE  Placed(m, after, n + 1) /\ after[m.at] = boards[m.at]
  BY <1>1, <1>2 DEF Placed
<1>3. TellsAll(m, boards, n) => TellsAll(m, after, n + 1)
  BY <1>2 DEF TellsAll
<1>4. ASSUME TellsChange(m, boards, n)
      PROVE  TellsChange(m, after, n + 1)
  <2>1. m.at - 1 \in 1 .. Len(boards)
    BY <1>1, <1>4 DEF TellsChange, Placed
  <2>2. QED BY <1>1, <1>2, <1>4, <2>1 DEF TellsChange
<1>5. QED BY <1>3, <1>4 DEF after

-----------------------------------------------------------------------------
(* The inductive invariant.                                                *)

Shape ==
  /\ seq \in Nat /\ mySeq \in Nat \cup {-1}
  /\ published \in Seq(Boards) /\ seq < Len(published) /\ rows = published[Len(published)]
  /\ unsent \in Seq(Messages) /\ buffer \in Seq(Messages) /\ wire \in Seq(Messages)
  /\ Len(unsent) <= 1 /\ Len(buffer) <= UPDATE_BUFFER
  /\ lagged \in BOOLEAN /\ link \in Links
  /\ view \in 0 .. Len(published)

\* A connection holds nothing before it has its receiver, and its full comes first.
Linked ==
  /\ link \in {"down", "upgrading", "subscribed"} => wire = <<>> /\ mySeq = -1
  /\ link \notin Receiving => buffer = <<>> /\ ~lagged

\* The receiver holds the latest changes, without a gap, the last one apart that
\* may not be sent yet.
Telling ==
  /\ \A i \in DOMAIN unsent : TellsChange(unsent[i], published, seq) /\ unsent[i].body.seq = seq
  /\ \A i \in DOMAIN buffer :
       /\ TellsChange(buffer[i], published, seq)
       /\ buffer[i].body.seq = seq - Len(unsent) - (Len(buffer) - i)
  /\ \A i \in DOMAIN wire :
       TellsAll(wire[i], published, seq) \/ TellsChange(wire[i], published, seq)

\* The page shows the board its seq stands for; without a seq it shows one no
\* message under way is older than.
Showing ==
  IF mySeq = -1
    THEN /\ \A i \in DOMAIN wire : view <= wire[i].at
         /\ \A i \in DOMAIN buffer : view <= buffer[i].at
    ELSE /\ view >= 1 /\ view - mySeq = Len(published) - seq
         /\ ShownAll(entries) = published[view]

\* Every message on the wire is a full or follows what comes before it, and what
\* the pump puts behind them will.
Chained ==
  /\ \A i \in DOMAIN wire :
       wire[i].body.base # NoBase =>
         IF i = 1 THEN wire[i].body.base <= mySeq
                  ELSE wire[i].body.base <= wire[i - 1].body.seq
  /\ link = "open" /\ ~lagged =>
       seq - Len(unsent) - Len(buffer) <=
         (IF wire = <<>> THEN mySeq ELSE wire[Len(wire)].body.seq)

IInv == Shape /\ Linked /\ Telling /\ Showing /\ Chained

LEMMA InitHolds ==
  ASSUME Init
  PROVE  IInv
<1>1. <<>> \in Boards
  BY BoardStreamAssumption
<1>2. /\ published \in Seq(Boards) /\ Len(published) = 1 /\ published[1] = <<>>
      /\ rows = <<>> /\ seq = 0 /\ mySeq = -1 /\ view = 0 /\ link = "down" /\ lagged = FALSE
  BY <1>1 DEF Init
<1>3. /\ unsent \in Seq(Messages) /\ Len(unsent) = 0 /\ DOMAIN unsent = {}
      /\ buffer \in Seq(Messages) /\ Len(buffer) = 0 /\ DOMAIN buffer = {}
      /\ wire \in Seq(Messages) /\ wire = <<>> /\ DOMAIN wire = {}
      /\ buffer = <<>>
  BY DEF Init
<1>4. Shape
  <2>1. Len(buffer) <= UPDATE_BUFFER /\ Len(unsent) <= 1
    BY <1>3, BoardStreamAssumption
  <2>2. view \in 0 .. Len(published) /\ seq < Len(published) /\ rows = published[Len(published)]
    BY <1>2
  <2>3. link \in Links
    BY <1>2 DEF Links
  <2>4. seq \in Nat /\ mySeq \in Nat \cup {-1} /\ lagged \in BOOLEAN
    BY <1>2
  <2>5. QED BY <1>2, <1>3, <2>1, <2>2, <2>3, <2>4 DEF Shape
<1>5. Linked
  BY <1>2, <1>3 DEF Linked
<1>6. Telling
  BY <1>3 DEF Telling
<1>7. Showing
  BY <1>2, <1>3 DEF Showing
<1>8. Chained
  BY <1>2, <1>3 DEF Chained
<1>9. QED BY <1>4, <1>5, <1>6, <1>7, <1>8 DEF IInv

-----------------------------------------------------------------------------
(* The steps.                                                              *)

\* A full has no base; a change has the publication before it.
LEMMA Bases ==
  ASSUME NEW boards, NEW n, NEW m
  PROVE  /\ TellsAll(m, boards, n) => m.body.base = NoBase
         /\ TellsChange(m, boards, n) => /\ m.body.seq \in Nat /\ m.body.base = m.body.seq - 1
                                         /\ m.body.base # NoBase
<1>1. \A k, b : Full(k, b).base = NoBase
  BY DEF Full
<1>2. \A k, a, b : OrderedDelta(k, a, b).base = k
  BY DEF OrderedDelta
<1>3. QED BY <1>1, <1>2 DEF TellsAll, TellsChange, Placed, NoBase

\* However a connection ends, its queues go with it and the page forgets its seq.
LEMMA ClosedKeeps ==
  ASSUME IInv, Closed, UNCHANGED <<stream, entries, view, published>>
  PROVE  IInv'
<1>1. /\ wire' = <<>> /\ wire' \in Seq(Messages) /\ DOMAIN wire' = {}
      /\ buffer' = <<>> /\ buffer' \in Seq(Messages) /\ DOMAIN buffer' = {} /\ Len(buffer') = 0
      /\ link' = "down" /\ mySeq' = -1 /\ lagged' = FALSE
      /\ UNCHANGED <<seq, rows, unsent, view, published>>
  BY DEF Closed, stream
<1>2. Shape'
  <2>1. Len(buffer') <= UPDATE_BUFFER /\ mySeq' \in Nat \cup {-1} /\ link' \in Links
    BY <1>1, BoardStreamAssumption DEF Links
  <2>2. QED BY <1>1, <2>1 DEF IInv, Shape
<1>3. Linked' /\ Showing'
  BY <1>1 DEF Linked, Showing
<1>4. Telling'
  BY <1>1 DEF IInv, Telling
<1>5. Chained'
  BY <1>1 DEF Chained
<1>6. QED BY <1>2, <1>3, <1>4, <1>5 DEF IInv

LEMMA AdvanceKeeps ==
  ASSUME IInv, NEW board \in Boards, Advance(board)
  PROVE  IInv'
<1> DEFINE m == [at |-> Len(published) + 1, body |-> OrderedDelta(seq, rows, board)]
<1>1. /\ unsent = <<>> /\ unsent' = <<m>> /\ seq' = seq + 1 /\ rows' = board
      /\ published' = Append(published, board)
      /\ UNCHANGED <<buffer, lagged, wire, link, mySeq, entries, view>>
  BY DEF Advance, receiver, page
<1>2. /\ seq \in Nat /\ published \in Seq(Boards) /\ seq < Len(published)
      /\ rows = published[Len(published)] /\ rows \in Boards
      /\ view \in 0 .. Len(published) /\ mySeq \in Nat \cup {-1}
  BY DEF IInv, Shape
<1>3. /\ Len(published) \in Nat \ {0} /\ published' \in Seq(Boards)
      /\ Len(published') = Len(published) + 1 /\ published'[Len(published) + 1] = board
      /\ \A i \in 1 .. Len(published) : published'[i] = published[i]
  BY <1>1, <1>2, Enqueued
<1>4. m \in Messages /\ m.body.seq = seq + 1
  <2>1. OrderedDelta(seq, rows, board) \in Bodies
    BY <1>2 DEF Bodies
  <2>2. Len(published) + 1 \in Nat
    BY <1>3
  <2>3. m \in Messages
    BY <2>1, <2>2 DEF Messages
  <2>4. OrderedDelta(seq, rows, board).seq = seq + 1
    BY DEF OrderedDelta
  <2>5. QED BY <2>3, <2>4
<1>5. TellsChange(m, published', seq')
  <2>1. m.at = Len(published) + 1 /\ m.at \in 1 .. Len(published') /\ m.at > 1
    BY <1>3
  <2>2. m.body = OrderedDelta(m.body.seq - 1, published'[m.at - 1], published'[m.at])
    BY <1>2, <1>3, <1>4
  <2>3. QED BY <1>1, <1>2, <1>3, <1>4, <2>1, <2>2 DEF TellsChange, Placed
<1> HIDE DEF m
<1>6. /\ unsent' \in Seq(Messages) /\ Len(unsent') = 1 /\ DOMAIN unsent' = {1} /\ unsent'[1] = m
      /\ Len(unsent) = 0
  BY <1>1, <1>4
<1>7. Shape'
  BY <1>1, <1>2, <1>3, <1>6 DEF IInv, Shape
<1>8. Linked'
  BY <1>1 DEF IInv, Linked
<1>9. Telling'
  <2>1. \A i \in DOMAIN unsent' : TellsChange(unsent'[i], published', seq')
                                  /\ unsent'[i].body.seq = seq'
    BY <1>1, <1>4, <1>5, <1>6
  <2>2. ASSUME NEW i \in DOMAIN buffer'
        PROVE  /\ TellsChange(buffer'[i], published', seq')
               /\ buffer'[i].body.seq = seq' - Len(unsent') - (Len(buffer') - i)
    <3>1. TellsChange(buffer[i], published, seq)
          /\ buffer[i].body.seq = seq - Len(unsent) - (Len(buffer) - i)
      BY <1>1 DEF IInv, Telling
    <3>2. TellsChange(buffer[i], published', seq')
      BY <1>1, <1>2, <3>1, TellingLasts
    <3>3. Len(buffer) \in Nat /\ i \in Int
      BY <1>1, LenProperties DEF IInv, Shape
    <3>4. QED BY <1>1, <1>2, <1>6, <3>1, <3>2, <3>3
  <2>3. ASSUME NEW i \in DOMAIN wire'
        PROVE  TellsAll(wire'[i], published', seq') \/ TellsChange(wire'[i], published', seq')
    <3>1. TellsAll(wire[i], published, seq) \/ TellsChange(wire[i], published, seq)
      BY <1>1 DEF IInv, Telling
    <3>2. QED BY <1>1, <1>2, <3>1, TellingLasts
  <2>4. QED BY <2>1, <2>2, <2>3 DEF Telling
<1>10. Showing'
  BY <1>1, <1>2, <1>3 DEF IInv, Showing
<1>11. Chained'
  <2>1. Len(buffer) \in Nat
    BY LenProperties DEF IInv, Shape
  <2>2. seq' - Len(unsent') - Len(buffer') = seq - Len(unsent) - Len(buffer)
    BY <1>1, <1>2, <1>6, <2>1
  <2>3. QED BY <1>1, <2>2 DEF IInv, Chained
<1>12. QED BY <1>7, <1>8, <1>9, <1>10, <1>11 DEF IInv

LEMMA RestartKeeps ==
  ASSUME IInv, Restart
  PROVE  IInv'
<1>1. /\ seq' = 0 /\ rows' = <<>> /\ published' = Append(published, <<>>)
      /\ unsent' = <<>> /\ buffer' = <<>> /\ wire' = <<>>
      /\ link' = "down" /\ mySeq' = -1 /\ lagged' = FALSE /\ view' = view
  BY DEF Restart, Closed
<1>2. /\ published \in Seq(Boards) /\ <<>> \in Boards /\ view \in 0 .. Len(published)
  BY BoardStreamAssumption DEF IInv, Shape
<1>3. /\ published' \in Seq(Boards) /\ Len(published) \in Nat /\ Len(published') = Len(published) + 1
      /\ published'[Len(published) + 1] = <<>>
  BY <1>1, <1>2, Enqueued
<1>4. /\ unsent' \in Seq(Messages) /\ Len(unsent') = 0 /\ DOMAIN unsent' = {}
      /\ buffer' \in Seq(Messages) /\ Len(buffer') = 0 /\ DOMAIN buffer' = {}
      /\ wire' \in Seq(Messages) /\ DOMAIN wire' = {}
  BY <1>1
<1>5. Shape'
  <2>1. Len(buffer') <= UPDATE_BUFFER /\ Len(unsent') <= 1
    BY <1>4, BoardStreamAssumption
  <2>2. /\ view' \in 0 .. Len(published') /\ seq' < Len(published')
        /\ rows' = published'[Len(published')]
    BY <1>1, <1>2, <1>3
  <2>3. link' \in Links /\ mySeq' \in Nat \cup {-1} /\ seq' \in Nat /\ lagged' \in BOOLEAN
    BY <1>1 DEF Links
  <2>4. QED BY <1>3, <1>4, <2>1, <2>2, <2>3 DEF Shape
<1>6. Linked' /\ Showing'
  BY <1>1, <1>4 DEF Linked, Showing
<1>7. Telling'
  BY <1>4 DEF Telling
<1>8. Chained'
  BY <1>1, <1>4 DEF Chained
<1>9. QED BY <1>5, <1>6, <1>7, <1>8 DEF IInv

\* The channel takes the latest change, at the cost of its oldest when it is full.
LEMMA SendKeeps ==
  ASSUME IInv, Send
  PROVE  IInv'
<1> DEFINE m == unsent[1]
<1>1. /\ seq \in Nat /\ Len(unsent) <= 1 /\ unsent \in Seq(Messages) /\ unsent # <<>>
      /\ buffer \in Seq(Messages) /\ Len(buffer) <= UPDATE_BUFFER
      /\ published \in Seq(Boards) /\ view \in 0 .. Len(published)
  BY DEF IInv, Shape, Send
<1>2. Len(unsent) = 1 /\ unsent = <<m>> /\ m \in Messages
  <2>1. Len(unsent) = 1 /\ 1 \in DOMAIN unsent /\ DOMAIN unsent = 1 .. 1
    <3>1. Len(unsent) \in Nat \ {0} /\ DOMAIN unsent = 1 .. Len(unsent)
      BY <1>1, Dequeued
    <3>2. QED BY <1>1, <3>1
  <2>2. m \in Messages
    BY <1>1, <2>1, ElementOfSeq
  <2>3. unsent = <<m>>
    BY <1>1, <2>1
  <2>4. QED BY <2>1, <2>2, <2>3
<1>3. TellsChange(m, published, seq) /\ m.body.seq = seq
  BY <1>1, <1>2 DEF IInv, Telling
<1>4. Len(published) \in Nat /\ view <= m.at
  BY <1>1, <1>3, LenProperties DEF TellsChange, Placed
<1>5. /\ unsent' = <<>> /\ unsent' \in Seq(Messages) /\ Len(unsent') = 0 /\ DOMAIN unsent' = {}
      /\ UNCHANGED <<seq, rows, wire, link, mySeq, entries, view, published>>
  BY DEF Send, page
<1> HIDE DEF m
<1>6. CASE link \notin Receiving
  <2>1. buffer' = buffer /\ lagged' = lagged
    BY <1>6 DEF Send, receiver
  <2>2. buffer = <<>> /\ ~lagged /\ DOMAIN buffer' = {}
    BY <1>6, <2>1 DEF IInv, Linked
  <2>3. Shape'
    BY <1>5, <2>1 DEF IInv, Shape
  <2>4. Linked' /\ Showing'
    BY <1>5, <2>1 DEF IInv, Linked, Showing
  <2>5. Telling'
    BY <1>5, <2>2 DEF IInv, Telling
  <2>6. Chained'
    BY <1>5, <1>6 DEF IInv, Chained, Receiving
  <2>7. QED BY <2>3, <2>4, <2>5, <2>6 DEF IInv
<1>7. ASSUME link \in Receiving,
             \E q \in Seq(Messages) :
                /\ buffer' = Append(q, m)
                /\ Len(q) + 1 <= UPDATE_BUFFER
                /\ lagged' \in BOOLEAN
                /\ \/ q = buffer /\ lagged' = lagged
                   \/ buffer # <<>> /\ q = Tail(buffer) /\ lagged' = TRUE
      PROVE  IInv'
  <2>1. PICK q \in Seq(Messages) :
                /\ buffer' = Append(q, m)
                /\ Len(q) + 1 <= UPDATE_BUFFER
                /\ lagged' \in BOOLEAN
                /\ \/ q = buffer /\ lagged' = lagged
                   \/ buffer # <<>> /\ q = Tail(buffer) /\ lagged' = TRUE
    BY <1>7
  <2>2. /\ buffer' \in Seq(Messages) /\ Len(buffer') = Len(q) + 1 /\ Len(q) \in Nat
        /\ DOMAIN buffer' = 1 .. Len(q) + 1 /\ buffer'[Len(q) + 1] = m
        /\ \A i \in 1 .. Len(q) : buffer'[i] = q[i]
    BY <1>2, <2>1, Enqueued
  <2>3. ASSUME NEW i \in 1 .. Len(q)
        PROVE  /\ TellsChange(q[i], published, seq)
               /\ q[i].body.seq = seq - 1 - (Len(q) - i)
               /\ mySeq = -1 => view <= q[i].at
    <3>1. CASE q = buffer
      <4>1. i \in DOMAIN buffer
        BY <2>3, <3>1, LenProperties
      <4>2. QED BY <1>2, <3>1, <4>1 DEF IInv, Telling, Showing
    <3>2. CASE buffer # <<>> /\ q = Tail(buffer)
      <4>1. /\ Len(buffer) = Len(q) + 1 /\ DOMAIN buffer = 1 .. Len(buffer)
            /\ q[i] = buffer[i + 1]
        BY <1>1, <2>3, <3>2, Dequeued
      <4>2. i + 1 \in DOMAIN buffer
        BY <2>2, <4>1
      <4>3. /\ TellsChange(buffer[i + 1], published, seq)
            /\ buffer[i + 1].body.seq = seq - Len(unsent) - (Len(buffer) - (i + 1))
            /\ mySeq = -1 => view <= buffer[i + 1].at
        BY <4>2 DEF IInv, Telling, Showing
      <4>4. QED BY <1>1, <1>2, <2>2, <4>1, <4>3
    <3>3. QED BY <2>1, <3>1, <3>2
  <2>4. Shape'
    BY <1>5, <2>1, <2>2 DEF IInv, Shape
  <2>5. Linked'
    BY <1>5, <1>7 DEF IInv, Linked
  <2>6. Telling'
    <3>1. ASSUME NEW i \in DOMAIN buffer'
          PROVE  /\ TellsChange(buffer'[i], published, seq)
                 /\ buffer'[i].body.seq = seq - 0 - (Len(buffer') - i)
      <4>1. CASE i \in 1 .. Len(q)
        <5>1. buffer'[i] = q[i]
          BY <2>2, <4>1
        <5>2. /\ TellsChange(q[i], published, seq)
              /\ q[i].body.seq = seq - 1 - (Len(q) - i)
          BY <2>3, <4>1
        <5>3. seq - 1 - (Len(q) - i) = seq - 0 - (Len(buffer') - i)
          BY <1>1, <2>2, <4>1
        <5>4. QED BY <5>1, <5>2, <5>3
      <4>2. CASE i = Len(q) + 1
        BY <1>1, <1>3, <2>2, <4>2
      <4>3. QED BY <2>2, <4>1, <4>2
    <3>2. QED BY <1>5, <3>1 DEF IInv, Telling
  <2>7. Showing'
    <3>1. ASSUME mySeq = -1, NEW i \in DOMAIN buffer'
          PROVE  view <= buffer'[i].at
      BY <1>4, <2>2, <2>3, <3>1
    <3>2. QED BY <1>5, <3>1 DEF IInv, Showing
  <2>8. Chained'
    <3>1. ~lagged' => ~lagged /\ q = buffer
      BY <2>1
    <3>2. ~lagged' => seq - Len(unsent') - Len(buffer') = seq - Len(unsent) - Len(buffer)
      BY <1>1, <1>2, <1>5, <2>2, <3>1
    <3>3. QED BY <1>5, <3>1, <3>2 DEF IInv, Chained
  <2>9. QED BY <2>4, <2>5, <2>6, <2>7, <2>8 DEF IInv
<1>8. CASE link \in Receiving /\ Len(buffer) < UPDATE_BUFFER
  <2>1. buffer' = buffer \o unsent /\ lagged' = lagged
    BY <1>8 DEF Send
  <2>2. buffer' = Append(buffer, m)
    BY <1>1, <1>2, <2>1
  <2>3. lagged' \in BOOLEAN /\ Len(buffer) + 1 <= UPDATE_BUFFER
    BY <1>1, <1>8, <2>1, LenProperties, BoardStreamAssumption DEF IInv, Shape
  <2>4. QED BY <1>1, <1>7, <1>8, <2>1, <2>2, <2>3
<1>9. CASE link \in Receiving /\ ~(Len(buffer) < UPDATE_BUFFER)
  <2>1. buffer' = Tail(buffer) \o unsent /\ lagged' = TRUE
    BY <1>9 DEF Send
  <2>2. Len(buffer) \in Nat /\ buffer # <<>> /\ Len(buffer) = UPDATE_BUFFER
    BY <1>1, <1>9, LenProperties, BoardStreamAssumption
  <2>3. Tail(buffer) \in Seq(Messages) /\ Len(Tail(buffer)) = Len(buffer) - 1
    BY <1>1, <2>2, Dequeued
  <2>4. buffer' = Append(Tail(buffer), m)
    BY <1>2, <2>1, <2>3, AppendIsConcat
  <2>5. Len(Tail(buffer)) + 1 <= UPDATE_BUFFER
    BY <2>2, <2>3
  <2>6. QED BY <1>7, <1>9, <2>1, <2>2, <2>3, <2>4, <2>5
<1>10. QED BY <1>6, <1>8, <1>9

\* A handshake, a receiver and an overrun receiver's close move no message.
LEMMA LinkKeeps ==
  ASSUME IInv, Connect \/ Subscribe \/ BreakOnLag
  PROVE  IInv'
<1>1. /\ UNCHANGED <<seq, rows, unsent, wire, mySeq, entries, view, published>>
      /\ link' \in {"upgrading", "subscribed", "closing"}
      /\ buffer' = <<>> /\ lagged' = FALSE
      /\ link' = "subscribed" \/ link' = "upgrading" => wire = <<>> /\ mySeq = -1
  BY DEF Connect, Subscribe, BreakOnLag, stream, page, receiver, IInv, Linked, Receiving
<1>2. buffer' \in Seq(Messages) /\ Len(buffer') = 0 /\ DOMAIN buffer' = {}
  BY <1>1
<1>3. Shape'
  <2>1. Len(buffer') <= UPDATE_BUFFER
    BY <1>2, BoardStreamAssumption
  <2>2. link' \in Links
    BY <1>1 DEF Links
  <2>3. lagged' \in BOOLEAN
    BY <1>1
  <2>4. QED BY <1>1, <1>2, <2>1, <2>2, <2>3 DEF IInv, Shape
<1>4. Linked'
  BY <1>1 DEF Linked
<1>5. Telling' /\ Showing'
  BY <1>1, <1>2 DEF IInv, Telling, Showing
<1>6. Chained'
  BY <1>1 DEF IInv, Chained
<1>7. QED BY <1>3, <1>4, <1>5, <1>6 DEF IInv

\* The full is the first message of its connection, and as late as any before it.
LEMMA SendFullKeeps ==
  ASSUME IInv, SendFull
  PROVE  IInv'
<1> DEFINE m == [at |-> Len(published), body |-> Full(seq, rows)]
<1>1. /\ link = "subscribed" /\ link' = "open" /\ wire' = Append(wire, m)
      /\ UNCHANGED <<seq, rows, unsent, buffer, lagged, mySeq, entries, view, published>>
  BY DEF SendFull, stream, receiver, page
<1>2. /\ seq \in Nat /\ published \in Seq(Boards) /\ seq < Len(published)
      /\ rows = published[Len(published)] /\ rows \in Boards /\ wire = <<>> /\ mySeq = -1
      /\ view \in 0 .. Len(published) /\ buffer \in Seq(Messages)
  BY <1>1 DEF IInv, Shape, Linked
<1>3. Len(published) \in Nat \ {0} /\ Len(buffer) \in Nat
  BY <1>2, LenProperties
<1>4. m \in Messages /\ m.body.seq = seq /\ m.body.base = NoBase
  <2>1. Full(seq, rows) \in Bodies
    BY <1>2 DEF Bodies
  <2>2. m \in Messages
    BY <1>3, <2>1 DEF Messages
  <2>3. Full(seq, rows).seq = seq /\ Full(seq, rows).base = NoBase
    BY DEF Full
  <2>4. QED BY <2>2, <2>3
<1>5. TellsAll(m, published, seq) /\ m.at = Len(published)
  BY <1>2, <1>3, <1>4 DEF TellsAll, Placed
<1> HIDE DEF m
<1>6. /\ wire' \in Seq(Messages) /\ Len(wire') = 1 /\ DOMAIN wire' = {1} /\ wire'[1] = m
      /\ wire' # <<>>
  BY <1>1, <1>2, <1>4
<1>7. Shape'
  BY <1>1, <1>6 DEF IInv, Shape, Links
<1>8. Linked'
  BY <1>1 DEF IInv, Linked, Receiving
<1>9. Telling'
  BY <1>1, <1>5, <1>6 DEF IInv, Telling
<1>10. Showing'
  BY <1>1, <1>2, <1>3, <1>5, <1>6 DEF IInv, Showing
<1>11. Chained'
  <2>1. \A i \in DOMAIN wire' : i = 1 /\ wire'[i].body.base = NoBase
    BY <1>4, <1>6
  <2>2. seq - Len(unsent) - Len(buffer) <= wire'[Len(wire')].body.seq
    <3>1. Len(unsent) \in Nat
      BY LenProperties DEF IInv, Shape
    <3>2. QED BY <1>2, <1>3, <1>4, <1>6, <3>1
  <2>3. QED BY <1>1, <1>6, <2>1, <2>2 DEF Chained
<1>12. QED BY <1>7, <1>8, <1>9, <1>10, <1>11 DEF IInv

\* The oldest change not read yet follows the last message on the wire.
LEMMA PumpKeeps ==
  ASSUME IInv, Pump
  PROVE  IInv'
<1> DEFINE m == Head(buffer)
<1>1. /\ link = "open" /\ ~lagged /\ buffer # <<>>
      /\ wire' = Append(wire, m) /\ buffer' = Tail(buffer)
      /\ UNCHANGED <<seq, rows, unsent, lagged, link, mySeq, entries, view, published>>
  BY DEF Pump, stream, page
<1>2. /\ seq \in Nat /\ buffer \in Seq(Messages) /\ wire \in Seq(Messages)
      /\ unsent \in Seq(Messages) /\ Len(buffer) <= UPDATE_BUFFER /\ mySeq \in Nat \cup {-1}
  BY DEF IInv, Shape
<1>3. /\ Len(buffer) \in Nat \ {0} /\ DOMAIN buffer = 1 .. Len(buffer)
      /\ m = buffer[1] /\ m \in Messages
      /\ buffer' \in Seq(Messages) /\ Len(buffer') = Len(buffer) - 1
      /\ DOMAIN buffer' = 1 .. Len(buffer) - 1
      /\ \A i \in 1 .. Len(buffer) - 1 : buffer'[i] = buffer[i + 1]
  BY <1>1, <1>2, Dequeued
<1>4. /\ TellsChange(m, published, seq)
      /\ m.body.seq = seq - Len(unsent) - (Len(buffer) - 1)
  <2>1. 1 \in DOMAIN buffer
    BY <1>3
  <2>2. QED BY <1>3, <2>1 DEF IInv, Telling
<1>5. m.body.seq \in Nat /\ m.body.base = m.body.seq - 1
  BY <1>4, Bases
<1> HIDE DEF m
<1>6. /\ wire' \in Seq(Messages) /\ Len(wire') = Len(wire) + 1 /\ Len(wire) \in Nat
      /\ DOMAIN wire = 1 .. Len(wire) /\ DOMAIN wire' = 1 .. Len(wire) + 1
      /\ wire'[Len(wire) + 1] = m /\ wire' # <<>>
      /\ \A i \in 1 .. Len(wire) : wire'[i] = wire[i]
  BY <1>1, <1>2, <1>3, Enqueued
<1>7. Len(unsent) \in Nat
  BY <1>2, LenProperties
<1>8. Shape'
  <2>1. Len(buffer') <= UPDATE_BUFFER
    BY <1>2, <1>3, BoardStreamAssumption
  <2>2. QED BY <1>1, <1>3, <1>6, <2>1 DEF IInv, Shape
<1>9. Linked'
  BY <1>1 DEF IInv, Linked, Receiving
<1>10. Telling'
  <2>1. ASSUME NEW i \in DOMAIN buffer'
        PROVE  /\ TellsChange(buffer'[i], published, seq)
               /\ buffer'[i].body.seq = seq - Len(unsent) - (Len(buffer') - i)
    <3>1. i + 1 \in DOMAIN buffer /\ buffer'[i] = buffer[i + 1]
      BY <1>3, <2>1
    <3>2. /\ TellsChange(buffer[i + 1], published, seq)
          /\ buffer[i + 1].body.seq = seq - Len(unsent) - (Len(buffer) - (i + 1))
      BY <3>1 DEF IInv, Telling
    <3>3. Len(buffer) - (i + 1) = Len(buffer') - i
      BY <1>3, <2>1
    <3>4. QED BY <3>1, <3>2, <3>3
  <2>2. ASSUME NEW i \in DOMAIN wire'
        PROVE  TellsAll(wire'[i], published, seq) \/ TellsChange(wire'[i], published, seq)
    <3>1. CASE i \in 1 .. Len(wire)
      BY <1>6, <3>1 DEF IInv, Telling
    <3>2. CASE i = Len(wire) + 1
      BY <1>4, <1>6, <3>2
    <3>3. QED BY <1>6, <2>2, <3>1, <3>2
  <2>3. QED BY <1>1, <2>1, <2>2 DEF IInv, Telling
<1>11. Showing'
  <2>1. ASSUME mySeq = -1
        PROVE  /\ \A i \in DOMAIN wire' : view <= wire'[i].at
               /\ \A i \in DOMAIN buffer' : view <= buffer'[i].at
    <3>1. /\ \A i \in DOMAIN wire : view <= wire[i].at
          /\ \A i \in DOMAIN buffer : view <= buffer[i].at
      BY <2>1 DEF IInv, Showing
    <3>2. 1 \in DOMAIN buffer /\ \A i \in DOMAIN buffer' : i + 1 \in DOMAIN buffer
      BY <1>3
    <3>3. \A i \in DOMAIN buffer' : view <= buffer'[i].at
      BY <1>3, <3>1, <3>2
    <3>4. view <= m.at
      BY <1>3, <3>1, <3>2
    <3>5. \A i \in DOMAIN wire' : i \in 1 .. Len(wire) \/ i = Len(wire) + 1
      BY <1>6
    <3>6. QED BY <1>6, <3>1, <3>3, <3>4, <3>5
  <2>2. QED BY <1>1, <2>1 DEF IInv, Showing
<1>12. Chained'
  <2>1. m.body.base <= (IF wire = <<>> THEN mySeq ELSE wire[Len(wire)].body.seq)
    <3>1. m.body.base = seq - Len(unsent) - Len(buffer)
      BY <1>2, <1>3, <1>4, <1>5, <1>7
    <3>2. QED BY <1>1, <3>1 DEF IInv, Chained
  <2>2. ASSUME NEW i \in DOMAIN wire', wire'[i].body.base # NoBase
        PROVE  IF i = 1 THEN wire'[i].body.base <= mySeq
                        ELSE wire'[i].body.base <= wire'[i - 1].body.seq
    <3>1. CASE i \in 1 .. Len(wire)
      <4>1. i = 1 \/ i - 1 \in 1 .. Len(wire)
        BY <1>6, <3>1
      <4>2. wire'[i] = wire[i] /\ (i # 1 => wire'[i - 1] = wire[i - 1])
        BY <1>6, <3>1, <4>1
      <4>3. QED BY <1>6, <2>2, <3>1, <4>2 DEF IInv, Chained
    <3>2. CASE i = Len(wire) + 1
      <4>1. CASE wire = <<>>
        <5>1. i = 1
          BY <3>2, <4>1
        <5>2. QED BY <1>6, <2>1, <3>2, <4>1, <5>1
      <4>2. CASE wire # <<>>
        <5>1. i # 1 /\ i - 1 = Len(wire) /\ Len(wire) \in 1 .. Len(wire)
          BY <1>2, <1>6, <3>2, <4>2, EmptySeq
        <5>2. QED BY <1>6, <2>1, <3>2, <4>2, <5>1
      <4>3. QED BY <4>1, <4>2
    <3>3. QED BY <1>6, <2>2, <3>1, <3>2
  <2>3. seq - Len(unsent) - Len(buffer') <= wire'[Len(wire')].body.seq
    BY <1>2, <1>3, <1>4, <1>5, <1>6, <1>7
  <2>4. QED BY <1>1, <1>6, <2>2, <2>3 DEF Chained
<1>13. QED BY <1>8, <1>9, <1>10, <1>11, <1>12 DEF IInv

\* Once the page is at or past a message, what comes behind it follows the page.
LEMMA ConsumedKeeps ==
  ASSUME IInv, wire # <<>>, wire' = Tail(wire), UNCHANGED <<stream, receiver, link, published>>,
         mySeq' \in Nat, mySeq' >= Message.seq, view' \in 0 .. Len(published), Showing'
  PROVE  IInv'
<1>1. /\ seq \in Nat /\ wire \in Seq(Messages)
      /\ UNCHANGED <<seq, rows, unsent, buffer, lagged, link, published>>
  BY DEF IInv, Shape, stream, receiver
<1>2. /\ Len(wire) \in Nat \ {0} /\ DOMAIN wire = 1 .. Len(wire)
      /\ Message.seq = wire[1].body.seq
      /\ wire' \in Seq(Messages) /\ Len(wire') = Len(wire) - 1
      /\ DOMAIN wire' = 1 .. Len(wire) - 1
      /\ \A i \in 1 .. Len(wire) - 1 : wire'[i] = wire[i + 1]
  BY <1>1, Dequeued DEF Message
<1>3. \A i \in DOMAIN wire : wire[i].body.seq \in Nat /\ wire[i].body.base \in Int
  <2>1. ASSUME NEW i \in DOMAIN wire
        PROVE  wire[i].body.seq \in Nat /\ wire[i].body.base \in Int
    <3>1. TellsAll(wire[i], published, seq) \/ TellsChange(wire[i], published, seq)
      BY <2>1 DEF IInv, Telling
    <3>2. wire[i].body.seq \in Nat
      BY <3>1 DEF TellsAll, TellsChange, Placed
    <3>3. QED BY <3>1, <3>2, Bases DEF NoBase
  <2>2. QED BY <2>1
<1>4. Shape'
  BY <1>1, <1>2 DEF IInv, Shape
<1>5. Linked'
  BY <1>1 DEF IInv, Linked
<1>6. Telling'
  <2>1. ASSUME NEW i \in DOMAIN wire'
        PROVE  TellsAll(wire'[i], published, seq) \/ TellsChange(wire'[i], published, seq)
    <3>1. i + 1 \in DOMAIN wire /\ wire'[i] = wire[i + 1]
      BY <1>2, <2>1
    <3>2. QED BY <3>1 DEF IInv, Telling
  <2>2. QED BY <1>1, <2>1 DEF IInv, Telling
<1>7. Chained'
  <2>1. ASSUME NEW i \in DOMAIN wire', wire'[i].body.base # NoBase
        PROVE  IF i = 1 THEN wire'[i].body.base <= mySeq'
                        ELSE wire'[i].body.base <= wire'[i - 1].body.seq
    <3>1. i + 1 \in DOMAIN wire /\ i \in DOMAIN wire /\ wire'[i] = wire[i + 1] /\ i + 1 # 1
      BY <1>2, <2>1
    <3>2. wire[i + 1].body.base <= wire[i].body.seq
      <4>1. wire[i + 1].body.base <= wire[(i + 1) - 1].body.seq
        BY <2>1, <3>1 DEF IInv, Chained
      <4>2. (i + 1) - 1 = i
        BY <1>2, <2>1
      <4>3. QED BY <4>1, <4>2
    <3>3. CASE i = 1
      BY <1>2, <1>3, <3>1, <3>2, <3>3
    <3>4. CASE i # 1
      <4>1. i - 1 \in 1 .. Len(wire) - 1 /\ (i - 1) + 1 = i
        BY <1>2, <2>1, <3>4
      <4>2. wire'[i - 1] = wire[i]
        BY <1>2, <4>1
      <4>3. QED BY <3>1, <3>2, <3>4, <4>2
    <3>5. QED BY <3>3, <3>4
  <2>2. ASSUME link = "open", ~lagged
        PROVE  seq - Len(unsent) - Len(buffer)
                 <= (IF wire' = <<>> THEN mySeq' ELSE wire'[Len(wire')].body.seq)
    <3>1. seq - Len(unsent) - Len(buffer) <= wire[Len(wire)].body.seq
      BY <2>2 DEF IInv, Chained
    <3>2. seq - Len(unsent) - Len(buffer) \in Int
      <4>1. Len(unsent) \in Nat /\ Len(buffer) \in Nat
        BY LenProperties DEF IInv, Shape
      <4>2. QED BY <1>1, <4>1
    <3>3. CASE wire' = <<>>
      <4>1. Len(wire) = 1 /\ 1 \in DOMAIN wire
        <5>1. Len(wire') = 0
          BY <3>3, EmptySeq
        <5>2. QED BY <1>2, <5>1
      <4>2. wire[Len(wire)].body.seq \in Nat /\ wire[Len(wire)].body.seq <= mySeq'
        BY <1>2, <1>3, <4>1
      <4>3. QED BY <3>1, <3>2, <3>3, <4>2
    <3>4. CASE wire' # <<>>
      <4>1. Len(wire') \in Nat \ {0}
        BY <1>2, <3>4, EmptySeq
      <4>2. wire'[Len(wire')] = wire[Len(wire)]
        BY <1>2, <4>1
      <4>3. QED BY <3>1, <3>4, <4>2
    <3>5. QED BY <3>3, <3>4
  <2>3. QED BY <1>1, <2>1, <2>2 DEF Chained
<1>8. QED BY <1>4, <1>5, <1>6, <1>7 DEF IInv

LEMMA IgnoreKeeps ==
  ASSUME IInv, Ignore
  PROVE  IInv'
<1>1. /\ wire # <<>> /\ Message.seq <= mySeq /\ wire' = Tail(wire)
      /\ UNCHANGED <<stream, receiver, link, published, mySeq, entries, view>>
  BY DEF Ignore, page
<1>2. wire \in Seq(Messages) /\ mySeq \in Nat \cup {-1} /\ view \in 0 .. Len(published)
  BY DEF IInv, Shape
<1>3. Message.seq \in Nat
  <2>1. Message.seq = wire[1].body.seq /\ 1 \in DOMAIN wire
    BY <1>1, <1>2, Dequeued DEF Message
  <2>2. TellsAll(wire[1], published, seq) \/ TellsChange(wire[1], published, seq)
    BY <2>1 DEF IInv, Telling
  <2>3. QED BY <2>1, <2>2 DEF TellsAll, TellsChange, Placed
<1>4. mySeq' \in Nat /\ mySeq' >= Message.seq
  BY <1>1, <1>2, <1>3
<1>5. Showing'
  <2>1. mySeq # -1 /\ seq' = seq
    BY <1>1, <1>4 DEF stream
  <2>2. QED BY <1>1, <2>1 DEF IInv, Showing
<1>6. QED BY <1>1, <1>2, <1>4, <1>5, ConsumedKeeps

\* On one connection no message finds a gap.
LEMMA NoGap ==
  ASSUME IInv
  PROVE  NoTickIsMissed
<1> SUFFICES ASSUME wire # <<>>, Message.base # NoBase, Message.base > mySeq
             PROVE  FALSE
  BY DEF NoTickIsMissed, Missed
<1>1. wire \in Seq(Messages) /\ mySeq \in Nat \cup {-1}
  BY DEF IInv, Shape
<1>2. Message = wire[1].body /\ 1 \in DOMAIN wire
  BY <1>1, Dequeued DEF Message
<1>3. Message.base <= mySeq
  BY <1>2 DEF IInv, Chained
<1>4. Message.base \in Int
  <2>1. TellsAll(wire[1], published, seq) \/ TellsChange(wire[1], published, seq)
    BY <1>2 DEF IInv, Telling
  <2>2. QED BY <1>2, <2>1, Bases DEF NoBase
<1>5. QED BY <1>1, <1>3, <1>4

\* A message the page takes puts a board the server published on the page, no
\* earlier than the one it had.
LEMMA ApplyShows ==
  ASSUME IInv, Apply
  PROVE  /\ wire' = Tail(wire) /\ UNCHANGED <<receiver, link, stream, published>>
         /\ mySeq' = Message.seq /\ mySeq' \in Nat
         /\ view' \in 1 .. Len(published) /\ view' >= view
         /\ view' - mySeq' = Len(published) - seq
         /\ ShownAll(entries') = published[view']
<1> DEFINE m == wire[1]
           P == Len(published)
<1>1. /\ seq \in Nat /\ published \in Seq(Boards) /\ mySeq \in Nat \cup {-1}
      /\ wire \in Seq(Messages) /\ wire # <<>> /\ view \in 0 .. P
  BY DEF IInv, Shape, Apply
<1>2. /\ m = Head(wire) /\ Message = m.body /\ 1 \in DOMAIN wire /\ P \in Nat
  BY <1>1, Dequeued, LenProperties DEF Message
<1>3. /\ Message.seq > mySeq
      /\ entries' = [i \in DOMAIN Message.entries |-> Merged(Message.entries[i])]
      /\ mySeq' = Message.seq /\ view' = m.at /\ wire' = Tail(wire)
      /\ UNCHANGED <<receiver, link, stream, published>>
  <2>1. ~Missed
    BY NoGap DEF NoTickIsMissed, Apply
  <2>2. QED BY <1>2, <2>1 DEF Apply
<1>4. TellsAll(m, published, seq) \/ TellsChange(m, published, seq)
  BY <1>2 DEF IInv, Telling
<1>5. /\ m.at \in 1 .. P /\ m.body.seq \in Nat /\ m.at - m.body.seq = P - seq
  BY <1>4 DEF TellsAll, TellsChange, Placed
<1>6. view <= m.at
  BY <1>1, <1>2, <1>3, <1>5 DEF IInv, Showing
<1>7. \A i \in 1 .. P : IsBoard(published[i])
  BY <1>1, ElementOfSeq, BoardStreamAssumption
<1> HIDE DEF m
<1>8. CASE TellsAll(m, published, seq)
  <2> DEFINE board == published[m.at]
             sent == Message.entries
  <2>1. IsBoard(board) /\ Message = Full(m.body.seq, board)
    BY <1>2, <1>5, <1>7, <1>8 DEF TellsAll
  <2>2. Message.base = NoBase
    BY <2>1 DEF Full
  <2>3. /\ DOMAIN sent = DOMAIN board
        /\ \A i \in DOMAIN board : sent[i].key = board[i].key /\ Shown(sent[i].row) = board[i].row
    BY <2>1, FullShows
  <2> HIDE DEF board, sent
  <2>4. \A e : Merged(e) = [key |-> e.key, row |-> e.row]
    BY <2>2 DEF Merged, Known, KeysOf
  <2>5. /\ DOMAIN entries' = DOMAIN board
        /\ \A i \in DOMAIN board : entries'[i].key = board[i].key
                                   /\ Shown(entries'[i].row) = board[i].row
    BY <1>3, <2>3, <2>4 DEF sent
  <2>6. ShownAll(entries') = board
    BY <2>1, <2>5, ShowingBoard
  <2>7. QED BY <1>2, <1>3, <1>5, <1>6, <2>6 DEF board
<1>9. CASE TellsChange(m, published, seq)
  <2> DEFINE previous == published[m.at - 1]
             current == published[m.at]
             sent == Message.entries
  <2>1. /\ m.at > 1 /\ m.body.seq >= 1
        /\ Message = OrderedDelta(m.body.seq - 1, previous, current)
    BY <1>2, <1>9 DEF TellsChange
  <2>2. IsBoard(previous) /\ IsBoard(current)
    <3>1. m.at - 1 \in 1 .. P
      BY <1>2, <1>5, <2>1
    <3>2. QED BY <1>5, <1>7, <3>1
  <2>3. Message.base = Message.seq - 1 /\ Message.base # NoBase
    BY <1>2, <1>9, Bases
  <2>4. Message.base <= mySeq
    BY <1>2, <2>3 DEF IInv, Chained
  <2>5. mySeq = m.body.seq - 1
    BY <1>1, <1>2, <1>3, <1>5, <2>3, <2>4
  <2>6. mySeq # -1
    BY <1>5, <2>1, <2>5
  <2>7. view = m.at - 1 /\ ShownAll(entries) = previous
    <3>1. view - mySeq = P - seq /\ ShownAll(entries) = published[view]
      BY <2>6 DEF IInv, Showing
    <3>2. view - mySeq = m.at - m.body.seq
      BY <1>5, <3>1
    <3>3. view \in Int /\ m.at \in Int /\ m.body.seq \in Int
      BY <1>1, <1>2, <1>5
    <3>4. view = m.at - 1
      BY <2>5, <3>2, <3>3
    <3>5. QED BY <3>1, <3>4
  <2> HIDE DEF previous, current
  <2>8. /\ DOMAIN sent = DOMAIN current
        /\ \A i \in DOMAIN current :
             /\ sent[i].key = current[i].key
             /\ Shown(IF sent[i].key \in KeysOf(entries)
                        THEN Merge(RowOf(entries, sent[i].key), sent[i].row) ELSE sent[i].row)
                  = current[i].row
    BY <2>1, <2>2, <2>7, DeltaShows
  <2> HIDE DEF sent
  <2>9. Known = entries
    BY <2>3 DEF Known
  <2>10. /\ DOMAIN entries' = DOMAIN current
         /\ \A i \in DOMAIN current : entries'[i].key = current[i].key
                                      /\ Shown(entries'[i].row) = current[i].row
    BY <1>3, <2>8, <2>9 DEF sent, Merged
  <2>11. ShownAll(entries') = current
    BY <2>2, <2>10, ShowingBoard
  <2>12. QED BY <1>2, <1>3, <1>5, <1>6, <2>11 DEF current
<1>10. QED BY <1>4, <1>8, <1>9

LEMMA ApplyKeeps ==
  ASSUME IInv, Apply
  PROVE  IInv'
<1>1. wire # <<>>
  BY DEF Apply
<1>2. /\ wire' = Tail(wire) /\ UNCHANGED <<stream, receiver, link, published>>
      /\ mySeq' = Message.seq /\ mySeq' \in Nat /\ view' \in 1 .. Len(published)
      /\ view' - mySeq' = Len(published) - seq /\ ShownAll(entries') = published[view']
  BY ApplyShows
<1>3. Len(published) \in Nat
  BY LenProperties DEF IInv, Shape
<1>4. view' >= 1 /\ view' \in 0 .. Len(published)
  BY <1>2, <1>3
<1>5. Showing'
  BY <1>2, <1>4 DEF Showing, stream
<1>6. QED BY <1>1, <1>2, <1>4, <1>5, ConsumedKeeps

-----------------------------------------------------------------------------
(* The theorems.                                                           *)

LEMMA StepKeeps ==
  ASSUME IInv, [Next]_vars
  PROVE  IInv'
<1>1. CASE \E board \in Boards : Advance(board)
  BY <1>1, AdvanceKeeps
<1>2. CASE Send
  BY <1>2, SendKeeps
<1>3. CASE Connect \/ Subscribe \/ BreakOnLag
  BY <1>3, LinkKeeps
<1>4. CASE SendFull
  BY <1>4, SendFullKeeps
<1>5. CASE Pump
  BY <1>5, PumpKeeps
<1>6. CASE Ignore
  BY <1>6, IgnoreKeeps
<1>7. CASE Apply
  BY <1>7, ApplyKeeps
<1>8. CASE HearClose \/ Drop
  <2>1. Closed /\ UNCHANGED <<stream, entries, view, published>>
    BY <1>8 DEF HearClose, Drop
  <2>2. QED BY <2>1, ClosedKeeps
<1>9. CASE Restart
  BY <1>9, RestartKeeps
<1>10. CASE UNCHANGED vars
  BY <1>10 DEF vars, stream, receiver, page, spent, IInv, Shape, Linked, Telling, Showing, Chained
<1>11. QED BY <1>1, <1>2, <1>3, <1>4, <1>5, <1>6, <1>7, <1>8, <1>9, <1>10 DEF Next, Server, Page

LEMMA Invariance == Spec => []IInv
<1>1. Init => IInv
  BY InitHolds
<1>2. IInv /\ [Next]_vars => IInv'
  BY StepKeeps
<1>3. QED BY <1>1, <1>2, PTL DEF Spec

\* The state keeps its shape: in particular the channel never holds more than
\* its capacity, however fast the ticks come and however slowly the page reads.
THEOREM TypeCorrect == Spec => []TypeOK
<1>1. \A m \in Messages : Message_(m)
  <2>1. \A b \in Bodies : b.seq \in Nat /\ b.base \in Nat \cup {NoBase}
    BY DEF Bodies, Full, OrderedDelta
  <2>2. QED BY <2>1 DEF Messages, Message_
<1>2. ASSUME IInv
      PROVE  TypeOK
  <2>1. \A m \in Range(unsent) \cup Range(buffer) \cup Range(wire) : m \in Messages
    <3>1. \A q \in Seq(Messages) : \A m \in Range(q) : m \in Messages
      BY DEF Range
    <3>2. QED BY <1>2, <3>1 DEF IInv, Shape
  <2>2. rows \in Boards
    BY <1>2 DEF IInv, Shape
  <2>3. QED BY <1>1, <1>2, <2>1, <2>2 DEF TypeOK, IInv, Shape
<1>3. QED BY <1>2, Invariance, PTL

\* The claim of wire.rs: on one connection, whatever the channel drops and in
\* whatever order ticks and subscriptions meet, no message finds a gap.
THEOREM NoTickEverMissed == Spec => []NoTickIsMissed
<1>1. IInv => NoTickIsMissed
  BY NoGap
<1>2. QED BY <1>1, Invariance, PTL

\* The page implements Mirror: through deltas, overruns, lost connections and
\* restarts it shows boards the server published, whole and in order.
THEOREM ImplementsMirror == Spec => MirrorsTheServer
<1>1. Init => Reader!Init
  <2>1. ShownAll(<<>>) = <<>>
    BY DEF ShownAll
  <2>2. <<>> \in Boards
    BY BoardStreamAssumption
  <2>3. QED BY <2>1, <2>2 DEF Init, Reader!Init
<1>2. ASSUME IInv, [Next]_vars
      PROVE  [Reader!Next]_<<published, view, ShownAll(entries)>>
  <2>1. ASSUME UNCHANGED <<published, view, entries>>
        PROVE  UNCHANGED <<published, view, ShownAll(entries)>>
    BY <2>1
  <2>2. ASSUME NEW board \in Boards, published' = Append(published, board),
               UNCHANGED <<view, entries>>
        PROVE  Reader!Publish
    BY <2>2 DEF Reader!Publish
  <2>3. CASE \E board \in Boards : Advance(board)
    BY <2>2, <2>3 DEF Advance, page, Reader!Next
  <2>4. CASE Restart
    BY <2>2, <2>4, BoardStreamAssumption DEF Restart, Reader!Next
  <2>5. CASE Apply
    <3>1. /\ view' \in 1 .. Len(published) /\ view' >= view
          /\ ShownAll(entries') = published[view'] /\ published' = published
      BY <1>2, <2>5, ApplyShows
    <3>2. Len(published) \in Nat /\ view \in 0 .. Len(published)
      BY <1>2, LenProperties DEF IInv, Shape
    <3>3. Reader!Show
      BY <3>1, <3>2 DEF Reader!Show
    <3>4. QED BY <3>3 DEF Reader!Next
  <2>6. CASE Send \/ Subscribe \/ SendFull \/ Pump \/ BreakOnLag \/ Connect \/ Ignore
             \/ HearClose \/ Drop \/ UNCHANGED vars
    <3>1. UNCHANGED <<published, view, entries>>
      BY <2>6 DEF Send, Subscribe, SendFull, Pump, BreakOnLag, Connect, Ignore, HearClose, Drop,
                  vars, page
    <3>2. QED BY <2>1, <3>1
  <2>7. QED BY <1>2, <2>3, <2>4, <2>5, <2>6 DEF Next, Server, Page
<1>3. QED BY <1>1, <1>2, Invariance, PTL DEF Spec, MirrorsTheServer, Reader!Spec
=============================================================================
