------------------------- MODULE StatusStream_proofs --------------------------
(***************************************************************************)
(* Proofs about StatusStream, for any reports, any capacity of the channel *)
(* and any number of ticks, failed fetches, lost connections and restarts. *)
(*                                                                         *)
(* The shape of the state holds however the server restarts.  What the     *)
(* page ignores and what it shows are proved where no restart comes while  *)
(* the page waits for a full or holds deltas; what it shows, where all     *)
(* reports list the same sources.  The runs status_restart and             *)
(* status_removed show that neither holds without.                         *)
(***************************************************************************)
EXTENDS StatusStream, DeltaStream_proofs, WellFoundedInduction

-----------------------------------------------------------------------------
(* What a page shows once it has merged a message.                         *)

Listings == Reports \cup {<<>>}

\* The server's sources do not change while it runs.
SameSources == \A r, s \in Reports : KeysOf(r) = KeysOf(s)

ShownOf(sources) == [k \in DOMAIN sources |-> Shown(sources[k])]

LEMMA ListingsAreBoards == \A r \in Listings : IsBoard(r)
<1>1. IsBoard(<<>>)
  BY DEF IsBoard
<1>2. QED
  BY <1>1, StatusStreamAssumption DEF Listings

\* The entry that has a key.
LEMMA EntryOf ==
  ASSUME NEW board, IsBoard(board), NEW k \in KeysOf(board)
  PROVE  \E i \in DOMAIN board : /\ board[i].key = k /\ RowOf(board, k) = board[i].row
                                 /\ IsRow(board[i].row)
<1>1. PICK i \in DOMAIN board : board[i].key = k
  BY DEF KeysOf
<1>2. RowOf(board, board[i].key) = board[i].row
  BY RowOfEntry DEF IsBoard
<1>3. QED
  BY <1>1, <1>2 DEF IsBoard

\* A full shows the report it was made from.
LEMMA FullShowsReport ==
  ASSUME NEW board, IsBoard(board), NEW n
  PROVE  ShownOf(BySlug(Full(n, board).entries)) = BySlug(board)
<1> DEFINE sent == Full(n, board).entries
<1>1. /\ DOMAIN sent = DOMAIN board
      /\ \A i \in DOMAIN board : sent[i].key = board[i].key /\ Shown(sent[i].row) = board[i].row
  BY FullShows
<1>2. \A i, j \in DOMAIN sent : sent[i].key = sent[j].key => i = j
  BY <1>1 DEF IsBoard
<1> HIDE DEF sent
<1>3. KeysOf(sent) = KeysOf(board)
  BY <1>1 DEF KeysOf
<1>4. ASSUME NEW k \in KeysOf(board)
      PROVE  Shown(RowOf(sent, k)) = RowOf(board, k)
  <2>1. PICK i \in DOMAIN board : board[i].key = k /\ RowOf(board, k) = board[i].row
    BY EntryOf
  <2>2. RowOf(sent, sent[i].key) = sent[i].row
    BY <1>1, <1>2, RowOfEntry
  <2>3. QED
    BY <1>1, <2>1, <2>2
<1>5. QED
  BY <1>3, <1>4 DEF ShownOf, BySlug, sent

\* An unordered delta merged into what shows the previous report shows the
\* current one, if no source departs.
LEMMA DeltaShowsReport ==
  ASSUME NEW a, IsBoard(a), NEW b, IsBoard(b), KeysOf(a) \subseteq KeysOf(b),
         NEW sources, ShownOf(sources) = BySlug(a), NEW n
  PROVE  ShownOf(Stored(sources, UnorderedDelta(n, a, b))) = BySlug(b)
<1> DEFINE body == UnorderedDelta(n, a, b)
           sent == body.entries
           changed == {i \in DOMAIN b : b[i].key \notin KeysOf(a) \/ RowOf(a, b[i].key) # b[i].row}
           stored == Stored(sources, body)
<1>1. /\ DOMAIN sent = changed
      /\ \A i \in changed : sent[i] = DeltaEntry(a, b[i])
      /\ body.removed = {}
  BY DEF UnorderedDelta
<1>2. \A e : DeltaEntry(a, e).key = e.key
  BY DEF DeltaEntry
<1>3. \A i \in changed : sent[i].key = b[i].key
  BY <1>1, <1>2
<1>4. \A i, j \in DOMAIN sent : sent[i].key = sent[j].key => i = j
  BY <1>1, <1>3 DEF IsBoard
<1>5. KeysOf(sent) = {b[i].key : i \in changed}
  BY <1>1, <1>3 DEF KeysOf
<1>6. \A i \in changed : RowOf(sent, b[i].key) = DeltaEntry(a, b[i]).row
  BY <1>1, <1>3, <1>4, RowOfEntry
<1>7. /\ DOMAIN sources = KeysOf(a)
      /\ \A k \in KeysOf(a) : Shown(sources[k]) = RowOf(a, k)
  BY DEF ShownOf, BySlug
<1>8. /\ DOMAIN stored = DOMAIN sources \cup KeysOf(sent)
      /\ \A k \in DOMAIN stored :
           stored[k] = IF k \in KeysOf(sent)
                         THEN Merge(IF k \in DOMAIN sources THEN sources[k] ELSE Empty, RowOf(sent, k))
                         ELSE sources[k]
  <2> HIDE DEF body
  <2>1. QED
    BY <1>1 DEF Stored, Restrict
<1> HIDE DEF body, sent, stored
<1>9. DOMAIN stored = KeysOf(b)
  <2>1. \A k \in KeysOf(b) : k \in KeysOf(a) \/ k \in KeysOf(sent)
    BY <1>5 DEF KeysOf
  <2>2. KeysOf(sent) \subseteq KeysOf(b)
    BY <1>5 DEF KeysOf
  <2>3. QED
    BY <1>7, <1>8, <2>1, <2>2
<1>10. ASSUME NEW k \in KeysOf(b)
       PROVE  Shown(stored[k]) = RowOf(b, k)
  <2>1. PICK i \in DOMAIN b : b[i].key = k /\ RowOf(b, k) = b[i].row /\ IsRow(b[i].row)
    BY EntryOf
  <2>2. k \in KeysOf(sent) <=> i \in changed
    <3>1. \A j \in DOMAIN b : b[j].key = k => j = i
      BY <2>1 DEF IsBoard
    <3>2. QED
      BY <1>5, <2>1, <3>1
  <2>3. CASE i \notin changed
    BY <1>7, <1>8, <1>9, <2>1, <2>2, <2>3
  <2>4. CASE i \in changed /\ k \in KeysOf(a)
    <3>1. PICK j \in DOMAIN a : a[j].key = k /\ RowOf(a, k) = a[j].row /\ IsRow(a[j].row)
      BY <2>4, EntryOf
    <3>2. RowOf(sent, k) = DeltaRow(RowOf(a, k), b[i].row)
      BY <1>6, <2>1, <2>4 DEF DeltaEntry
    <3>3. Shown(sources[k]) = RowOf(a, k)
      BY <1>7, <2>4
    <3>4. Shown(Merge(sources[k], DeltaRow(RowOf(a, k), b[i].row))) = b[i].row
      BY <2>1, <3>1, <3>3, MergeShows
    <3>5. QED
      BY <1>7, <1>8, <1>9, <2>1, <2>2, <2>4, <3>2, <3>4
  <2>5. CASE i \in changed /\ k \notin KeysOf(a)
    <3>1. RowOf(sent, k) = StripNulls(b[i].row)
      BY <1>6, <2>1, <2>5 DEF DeltaEntry
    <3>2. stored[k] = Merge(Empty, StripNulls(b[i].row))
      BY <1>7, <1>8, <1>9, <2>2, <2>5, <3>1
    <3>3. Shown(Merge(Empty, StripNulls(b[i].row))) = Shown(StripNulls(b[i].row))
      BY DEF Shown, Merge, Empty
    <3>4. QED
      BY <2>1, <3>2, <3>3, StrippedShows
  <2>6. QED
    BY <2>3, <2>4, <2>5
<1>11. QED
  BY <1>9, <1>10 DEF ShownOf, BySlug, stored, body

-----------------------------------------------------------------------------
(* Replaying what was held.                                                *)

\* A set of numbers with 0 that is closed under successor has them all.
LEMMA Induction ==
  ASSUME NEW S, 0 \in S, \A n \in Nat : n \in S => n + 1 \in S
  PROVE  \A n \in Nat : n \in S
<1> SUFFICES ASSUME Nat \ S # {}
             PROVE  FALSE
  OBVIOUS
<1> DEFINE R == {ss \in Nat \X Nat : ss[1] < ss[2]}
<1>1. IsWellFoundedOn(R, Nat)
  BY NatLessThanWellFounded, Zenon DEF OpToRel
<1>2. \A m, n \in Nat : m < n => <<m, n>> \in R
  OBVIOUS
<1> HIDE DEF R
<1>3. Nat \ S \subseteq Nat
  OBVIOUS
<1>4. PICK n \in Nat \ S : \A m \in Nat \ S : ~(<<m, n>> \in R)
  BY <1>1, <1>3, WFMin
<1>5. n - 1 \in Nat /\ n - 1 < n
  BY <1>4
<1>6. n - 1 \in S
  BY <1>2, <1>4, <1>5
<1>7. QED
  BY <1>4, <1>5, <1>6

\* f is the page before the first of the held, then after each of them.
IsReplay(f, p, held, n) ==
  /\ f = [m \in 0 .. n |-> f[m]]
  /\ f[0] = p
  /\ \A m \in 1 .. n : f[m] = Applied(f[m - 1], held[m])

LEMMA ReplaySteps ==
  ASSUME NEW p, NEW held, Len(held) \in Nat
  PROVE  \E f : IsReplay(f, p, held, Len(held)) /\ Replayed(p, held) = f[Len(held)]
<1> DEFINE N == Len(held)
           S == {n \in Nat : \E g : IsReplay(g, p, held, n)}
           upto == CHOOSE g : g = [n \in 0 .. N |->
                     IF n = 0 THEN p ELSE Applied(g[n - 1], held[n])]
<1>1. 0 \in S
  <2>1. IsReplay([m \in 0 .. 0 |-> p], p, held, 0)
    BY DEF IsReplay
  <2>2. QED
    BY <2>1
<1>2. ASSUME NEW n \in Nat, n \in S
      PROVE  n + 1 \in S
  <2>1. PICK g : IsReplay(g, p, held, n)
    BY <1>2
  <2> DEFINE h == [m \in 0 .. n + 1 |-> IF m = n + 1 THEN Applied(g[n], held[n + 1]) ELSE g[m]]
  <2>2. \A m \in 0 .. n : m \in 0 .. n + 1 /\ m # n + 1
    OBVIOUS
  <2>3. \A m \in 0 .. n : h[m] = g[m]
    BY <2>2
  <2>4. n + 1 \in 0 .. n + 1 /\ h[n + 1] = Applied(g[n], held[n + 1])
    OBVIOUS
  <2>5. h = [m \in 0 .. n + 1 |-> h[m]]
    OBVIOUS
  <2>6. \A m \in 1 .. n : m \in 0 .. n /\ m - 1 \in 0 .. n
    OBVIOUS
  <2>7. \A m \in 1 .. n + 1 : m \in 1 .. n \/ m = n + 1
    OBVIOUS
  <2>8. 0 \in 0 .. n /\ n \in 0 .. n /\ (n + 1) - 1 = n
    OBVIOUS
  <2> HIDE DEF h
  <2>9. ASSUME NEW m \in 1 .. n + 1
        PROVE  h[m] = Applied(h[m - 1], held[m])
    <3>1. CASE m \in 1 .. n
      BY <2>1, <2>3, <2>6, <3>1 DEF IsReplay
    <3>2. CASE m = n + 1
      BY <2>3, <2>4, <2>8, <3>2
    <3>3. QED
      BY <2>7, <3>1, <3>2
  <2>10. IsReplay(h, p, held, n + 1)
    BY <2>1, <2>3, <2>5, <2>8, <2>9 DEF IsReplay
  <2>11. QED
    BY <2>10
<1>3. N \in S
  <2> HIDE DEF S, N
  <2>1. QED
    BY <1>1, <1>2, Induction DEF N
<1>4. PICK g : IsReplay(g, p, held, N)
  BY <1>3
<1>5. g = [n \in 0 .. N |-> IF n = 0 THEN p ELSE Applied(g[n - 1], held[n])]
  <2>1. \A n \in 0 .. N : n = 0 \/ n \in 1 .. N
    OBVIOUS
  <2>2. \A n \in 1 .. N : n # 0
    OBVIOUS
  <2>3. \A n \in 0 .. N : g[n] = IF n = 0 THEN p ELSE Applied(g[n - 1], held[n])
    BY <1>4, <2>1, <2>2 DEF IsReplay
  <2>4. g = [n \in 0 .. N |-> g[n]]
    BY <1>4 DEF IsReplay
  <2>5. QED
    BY <2>3, <2>4
<1>6. upto = [n \in 0 .. N |-> IF n = 0 THEN p ELSE Applied(upto[n - 1], held[n])]
  BY <1>5
<1>7. Replayed(p, held) = upto[N]
  BY DEF Replayed
<1> HIDE DEF upto
<1>8. IsReplay(upto, p, held, N)
  <2>1. upto = [n \in 0 .. N |-> upto[n]]
    BY <1>6
  <2>2. 0 \in 0 .. N
    OBVIOUS
  <2>3. upto[0] = p
    BY <1>6, <2>2
  <2>4. \A n \in 1 .. N : n \in 0 .. N /\ n # 0
    OBVIOUS
  <2>5. \A n \in 1 .. N : upto[n] = Applied(upto[n - 1], held[n])
    BY <1>6, <2>4
  <2>6. QED
    BY <2>1, <2>3, <2>5 DEF IsReplay
<1>9. QED
  BY <1>7, <1>8
-----------------------------------------------------------------------------
(* The invariant.                                                          *)

Boards == {BySlug(r) : r \in Listings}

Deltas == [at : Nat, body : {UnorderedDelta(k, a, b) : k \in Nat, a \in Listings, b \in Reports}]

\* m is about a publication; its distance from the latest is that of their seqs,
\* unless the server restarted while the page was waiting.
Placed(m, boards, n) ==
  /\ m.at \in 1 .. Len(boards) /\ m.body.seq \in Nat
  /\ ~MidFetch => m.at - m.body.seq = Len(boards) - n

TellsAll(m, boards, n) ==
  /\ Placed(m, boards, n)
  /\ \E r \in Listings : m.body = Full(m.body.seq, r) /\ boards[m.at] = BySlug(r)

TellsChange(m, boards, n) ==
  /\ Placed(m, boards, n)
  /\ m.at > 1 /\ m.body.seq >= 1
  /\ \E a \in Listings, b \in Reports :
       /\ m.body = UnorderedDelta(m.body.seq - 1, a, b)
       /\ boards[m.at - 1] = BySlug(a) /\ boards[m.at] = BySlug(b)

HasPageFields(p) ==
  p = [seq |-> p.seq, fetching |-> p.fetching, queued |-> p.queued,
       sources |-> p.sources, view |-> p.view]

IsPage(p, boards) ==
  /\ HasPageFields(p)
  /\ p.seq \in Nat \cup {-1} /\ p.fetching \in BOOLEAN /\ p.queued \in Seq(Deltas)
  /\ p.view \in 0 .. Len(boards)

\* A page with a seq shows the publication of that seq.
Fits(p, boards, n) ==
  /\ IsPage(p, boards)
  /\ \A i \in DOMAIN p.queued : TellsChange(p.queued[i], boards, n)
  /\ ~MidFetch /\ p.seq # -1 => p.view >= 1 /\ p.view - p.seq = Len(boards) - n
  /\ ~MidFetch /\ SameSources /\ p.seq # -1 => ShownOf(p.sources) = boards[p.view]

Shape ==
  /\ seq \in Nat /\ published \in Seq(Boards) /\ seq < Len(published)
  /\ rows \in Listings /\ published[Len(published)] = BySlug(rows)
  /\ Len(unsent) <= 1 /\ Len(buffer) <= UPDATE_BUFFER
  /\ link \in Links /\ (opened => link # "down")

\* A queue of changes.
Changes(q, boards, n) ==
  q \in Seq(Deltas) /\ \A i \in DOMAIN q : TellsChange(q[i], boards, n)

Telling ==
  /\ Changes(unsent, published, seq)
  /\ Changes(buffer, published, seq)
  /\ Changes(wire, published, seq)

\* The page waits for a full as long as one is on its way, and so shows nothing
\* newer than it.
Answering ==
  answer = <<>>
    \/ /\ page.fetching /\ answer = <<answer[1]>>
       /\ TellsAll(answer[1], published, seq) /\ answer[1].at >= page.view

IInv == Shape /\ Telling /\ Answering /\ Fits(page, published, seq)

Steady == ~MidFetch /\ SameSources

\* From p to q the page shows what it did, or a publication no older.
Onward(p, q, boards) ==
  /\ q.view >= p.view
  /\ \/ q.view = p.view /\ q.sources = p.sources
     \/ q.view \in 1 .. Len(boards) /\ ShownOf(q.sources) = boards[q.view]

-----------------------------------------------------------------------------
(* apply.                                                                  *)

LEMMA Bases ==
  ASSUME NEW m
  PROVE  /\ TellsAll(m, published, seq) => m.body.base = NoBase
         /\ TellsChange(m, published, seq) => /\ m.body.seq \in Nat /\ m.body.base = m.body.seq - 1
                              /\ m.body.base # NoBase
<1>1. \A n, r : Full(n, r).base = NoBase
  BY DEF Full
<1>2. \A n, a, b : UnorderedDelta(n, a, b).base = n
  BY DEF UnorderedDelta
<1>3. QED
  BY <1>1, <1>2 DEF TellsAll, TellsChange, Placed, NoBase

\* The record of a page, with some of its fields changed.
LEMMA PageChanges ==
  ASSUME NEW p, HasPageFields(p), NEW x
  PROVE  /\ [p EXCEPT !.queued = x]
              = [seq |-> p.seq, fetching |-> p.fetching, queued |-> x,
                 sources |-> p.sources, view |-> p.view]
         /\ [p EXCEPT !.fetching = x]
              = [seq |-> p.seq, fetching |-> x, queued |-> p.queued,
                 sources |-> p.sources, view |-> p.view]
         /\ [p EXCEPT !.seq = x]
              = [seq |-> x, fetching |-> p.fetching, queued |-> p.queued,
                 sources |-> p.sources, view |-> p.view]
<1>1. PICK s, f, q, o, v :
        /\ p = [seq |-> s, fetching |-> f, queued |-> q, sources |-> o, view |-> v]
        /\ s = p.seq /\ f = p.fetching /\ q = p.queued /\ o = p.sources /\ v = p.view
  BY DEF HasPageFields
<1>2. QED
  BY <1>1

\* What the page shows after a change that follows its seq.
LEMMA ChangeShows ==
  ASSUME Shape, NEW p, Fits(p, published, seq), NEW m, TellsChange(m, published, seq), Steady, p.seq # -1, p.seq = m.body.seq - 1
  PROVE  m.at = p.view + 1 /\ ShownOf(Stored(p.sources, m.body)) = published[m.at]
<1>1. PICK a \in Listings, b \in Reports :
        /\ m.body = UnorderedDelta(m.body.seq - 1, a, b)
        /\ published[m.at - 1] = BySlug(a) /\ published[m.at] = BySlug(b)
  BY DEF TellsChange
<1>2. /\ m.at \in 1 .. Len(published) /\ m.body.seq \in Nat
      /\ m.at - m.body.seq = Len(published) - seq
  BY DEF TellsChange, Placed, Steady
<1>3. p.view - p.seq = Len(published) - seq /\ p.view \in Nat /\ Len(published) \in Nat /\ seq \in Nat
  BY LenProperties DEF Fits, IsPage, Shape, Steady
<1>4. m.at = p.view + 1
  BY <1>2, <1>3, SMTT(30)
<1>5. ShownOf(p.sources) = BySlug(a)
  <2>1. ShownOf(p.sources) = published[p.view]
    BY DEF Fits, Steady
  <2>2. p.view = m.at - 1
    BY <1>3, <1>4
  <2>3. QED
    BY <1>1, <2>1, <2>2
<1>6. IsBoard(a) /\ IsBoard(b)
  BY ListingsAreBoards DEF Listings
<1>7. KeysOf(a) \subseteq KeysOf(b)
  <2>1. KeysOf(<<>>) = {}
    BY DEF KeysOf
  <2>2. QED
    BY <2>1 DEF Listings, Steady, SameSources
<1>8. ShownOf(Stored(p.sources, UnorderedDelta(m.body.seq - 1, a, b))) = BySlug(b)
  BY <1>5, <1>6, <1>7, DeltaShowsReport
<1>9. QED
  BY <1>1, <1>4, <1>8

\* apply keeps a page that fits, for a delta at any time and for a full that is
\* no older than what the page shows.
LEMMA AppliedFits ==
  ASSUME Shape, NEW p, Fits(p, published, seq), NEW m,
         \/ m \in Deltas /\ TellsChange(m, published, seq)
         \/ TellsAll(m, published, seq) /\ ~p.fetching /\ m.at >= p.view
  PROVE  /\ Fits(Applied(p, m), published, seq)
         /\ Steady => Onward(p, Applied(p, m), published)
         /\ p.fetching => Applied(p, m).fetching /\ Applied(p, m).view = p.view
<1>1. /\ HasPageFields(p)
      /\ p.seq \in Nat \cup {-1} /\ p.fetching \in BOOLEAN /\ p.queued \in Seq(Deltas)
      /\ p.view \in 0 .. Len(published)
  BY DEF Fits, IsPage
<1>2. Len(published) \in Nat /\ seq \in Nat
  BY LenProperties DEF Shape
<1>3. Placed(m, published, seq)
  BY DEF TellsAll, TellsChange
<1>4. Onward(p, p, published)
  BY <1>1 DEF Onward
<1>5. CASE p.fetching /\ m.body.base # NoBase
  <2> DEFINE q == [p EXCEPT !.queued = Append(@, m)]
  <2>1. Applied(p, m) = q
    BY <1>5 DEF Applied
  <2>2. m \in Deltas /\ TellsChange(m, published, seq)
    BY <1>5, Bases
  <2>3. /\ q = [seq |-> p.seq, fetching |-> p.fetching, queued |-> Append(p.queued, m),
                sources |-> p.sources, view |-> p.view]
    BY <1>1, PageChanges
  <2> HIDE DEF q
  <2>4. /\ Append(p.queued, m) \in Seq(Deltas)
        /\ \A i \in DOMAIN Append(p.queued, m) :
             \/ i \in DOMAIN p.queued /\ Append(p.queued, m)[i] = p.queued[i]
             \/ Append(p.queued, m)[i] = m
    <3>1. /\ Append(p.queued, m) \in Seq(Deltas) /\ Len(p.queued) \in Nat
          /\ DOMAIN p.queued = 1 .. Len(p.queued)
          /\ DOMAIN Append(p.queued, m) = 1 .. Len(p.queued) + 1
          /\ Append(p.queued, m)[Len(p.queued) + 1] = m
          /\ \A i \in 1 .. Len(p.queued) : Append(p.queued, m)[i] = p.queued[i]
      BY <1>1, <2>2, Enqueued
    <3>2. \A i \in 1 .. Len(p.queued) + 1 : i \in 1 .. Len(p.queued) \/ i = Len(p.queued) + 1
      BY <3>1
    <3>3. QED
      BY <3>1, <3>2
  <2>5. \A i \in DOMAIN q.queued : TellsChange(q.queued[i], published, seq)
    BY <2>2, <2>3, <2>4 DEF Fits
  <2>6. IsPage(q, published)
    BY <1>1, <2>3, <2>4 DEF IsPage, HasPageFields
  <2>7. Fits(q, published, seq)
    BY <2>3, <2>5, <2>6 DEF Fits
  <2>8. Onward(p, q, published) /\ q.fetching = p.fetching /\ q.view = p.view
    BY <1>1, <2>3 DEF Onward
  <2>9. QED
    BY <2>1, <2>7, <2>8
<1>6. CASE ~(p.fetching /\ m.body.base # NoBase) /\ m.body.seq <= p.seq
  <2>1. Applied(p, m) = p
    BY <1>6 DEF Applied
  <2>2. QED
    BY <1>4, <2>1
<1>7. ~(p.fetching /\ m.body.base # NoBase) => ~p.fetching
  BY Bases
<1>8. CASE /\ ~(p.fetching /\ m.body.base # NoBase) /\ ~(m.body.seq <= p.seq)
           /\ m.body.base # NoBase /\ m.body.base > p.seq
  <2> DEFINE q == [p EXCEPT !.fetching = TRUE]
  <2>1. Applied(p, m) = q
    BY <1>8 DEF Applied
  <2>2. q = [seq |-> p.seq, fetching |-> TRUE, queued |-> p.queued,
             sources |-> p.sources, view |-> p.view]
    BY <1>1, PageChanges
  <2> HIDE DEF q
  <2>3. Fits(q, published, seq)
    BY <1>1, <2>2 DEF Fits, IsPage, HasPageFields
  <2>4. Onward(p, q, published)
    BY <1>1, <2>2 DEF Onward
  <2>5. QED
    BY <1>7, <1>8, <2>1, <2>3, <2>4
<1>9. CASE /\ ~(p.fetching /\ m.body.base # NoBase) /\ ~(m.body.seq <= p.seq)
           /\ ~(m.body.base # NoBase /\ m.body.base > p.seq)
  <2> DEFINE q == Applied(p, m)
  <2>1. PICK sources : sources = IF m.body.base # NoBase THEN Stored(p.sources, m.body)
                                                         ELSE BySlug(m.body.entries)
    OBVIOUS
  <2>2. q = [seq |-> m.body.seq, fetching |-> p.fetching, queued |-> p.queued,
             sources |-> sources, view |-> m.at]
    <3>1. PICK p1 : p1 = [p EXCEPT !.seq = m.body.seq]
      OBVIOUS
    <3>2. p1 = [seq |-> m.body.seq, fetching |-> p.fetching, queued |-> p.queued,
                sources |-> p.sources, view |-> p.view]
      BY <1>1, <3>1, PageChanges
    <3>3. PICK p2 : p2 = [p1 EXCEPT !.view = m.at]
      OBVIOUS
    <3>4. p2 = [seq |-> m.body.seq, fetching |-> p.fetching, queued |-> p.queued,
                sources |-> p.sources, view |-> m.at]
      BY <3>2, <3>3
    <3>5. q = [p2 EXCEPT !.sources = sources]
      BY <1>9, <2>1, <3>1, <3>3 DEF Applied
    <3> HIDE DEF q
    <3>6. QED
      BY <3>4, <3>5
  <2>3. m.at \in 1 .. Len(published) /\ m.body.seq \in Nat /\ m.body.seq > p.seq
    BY <1>1, <1>3, <1>9 DEF Placed
  <2>4. ASSUME Steady
        PROVE  ShownOf(sources) = published[m.at] /\ m.at >= p.view
    <3>1. CASE TellsAll(m, published, seq)
      <4>1. PICK r \in Listings : m.body = Full(m.body.seq, r) /\ published[m.at] = BySlug(r)
        BY <3>1 DEF TellsAll
      <4>2. sources = BySlug(Full(m.body.seq, r).entries)
        BY <2>1, <3>1, <4>1, Bases
      <4>3. ShownOf(sources) = BySlug(r)
        BY <4>2, FullShowsReport, ListingsAreBoards
      <4>4. m.at >= p.view
        <5>1. ~TellsChange(m, published, seq)
          BY <3>1, Bases
        <5>2. QED
          BY <5>1
      <4>5. QED
        BY <4>1, <4>3, <4>4
    <3>2. CASE TellsChange(m, published, seq)
      <4>1. m.body.base = m.body.seq - 1 /\ m.body.base # NoBase /\ m.body.seq >= 1
        BY <3>2, Bases DEF TellsChange
      <4>2. p.seq = m.body.seq - 1 /\ p.seq # -1
        BY <1>1, <1>9, <2>3, <4>1
      <4>3. m.at = p.view + 1 /\ ShownOf(Stored(p.sources, m.body)) = published[m.at]
        BY <2>4, <3>2, <4>2, ChangeShows
      <4>4. QED
        BY <1>1, <2>1, <4>1, <4>3
    <3>3. QED
      BY <3>1, <3>2
  <2> HIDE DEF q
  <2>5. IsPage(q, published)
    BY <1>1, <1>2, <2>2, <2>3 DEF IsPage, HasPageFields
  <2>6. ~MidFetch => q.view >= 1 /\ q.view - q.seq = Len(published) - seq
    BY <1>3, <2>2, <2>3 DEF Placed
  <2>7. Fits(q, published, seq)
    BY <2>2, <2>4, <2>5, <2>6 DEF Fits, Steady
  <2>8. Steady => Onward(p, q, published)
    BY <2>2, <2>3, <2>4 DEF Onward
  <2>9. QED
    BY <1>7, <1>9, <2>7, <2>8 DEF q
<1>10. QED
  BY <1>5, <1>6, <1>8, <1>9

\* So does a replay of held deltas.
LEMMA ReplayedFits ==
  ASSUME Shape, NEW p, Fits(p, published, seq), NEW held, Len(held) \in Nat,
         \A i \in 1 .. Len(held) : held[i] \in Deltas /\ TellsChange(held[i], published, seq)
  PROVE  /\ Fits(Replayed(p, held), published, seq)
         /\ Steady => Onward(p, Replayed(p, held), published)
<1>1. PICK f : IsReplay(f, p, held, Len(held)) /\ Replayed(p, held) = f[Len(held)]
  BY ReplaySteps
<1> DEFINE S == {n \in Nat : n <= Len(held) => Fits(f[n], published, seq) /\ (Steady => Onward(p, f[n], published))}
<1>2. 0 \in S
  <2>1. p.view \in Nat
    BY LenProperties DEF Fits, IsPage, Shape
  <2>2. Onward(p, p, published)
    BY <2>1 DEF Onward
  <2>3. f[0] = p
    BY <1>1 DEF IsReplay
  <2>4. QED
    BY <2>2, <2>3
<1>3. ASSUME NEW n \in Nat, n \in S
      PROVE  n + 1 \in S
  <2> SUFFICES ASSUME n + 1 <= Len(held)
               PROVE  Fits(f[n + 1], published, seq) /\ (Steady => Onward(p, f[n + 1], published))
    OBVIOUS
  <2>1. n + 1 \in 1 .. Len(held) /\ (n + 1) - 1 = n /\ n <= Len(held)
    OBVIOUS
  <2>2. f[n + 1] = Applied(f[n], held[n + 1])
    BY <1>1, <2>1 DEF IsReplay
  <2>3. Fits(f[n], published, seq) /\ (Steady => Onward(p, f[n], published))
    BY <1>3, <2>1
  <2>4. /\ Fits(f[n + 1], published, seq)
        /\ Steady => Onward(f[n], f[n + 1], published)
    BY <2>1, <2>2, <2>3, AppliedFits
  <2>5. ASSUME Steady
        PROVE  Onward(p, f[n + 1], published)
    <3>1. p.view \in Nat /\ f[n].view \in Nat /\ f[n + 1].view \in Nat
      BY <2>3, <2>4, LenProperties, SMTT(30) DEF Fits, IsPage, Shape
    <3>2. Onward(p, f[n], published) /\ Onward(f[n], f[n + 1], published)
      BY <2>3, <2>4, <2>5
    <3>3. QED
      BY <3>1, <3>2 DEF Onward
  <2>6. QED
    BY <2>4, <2>5
<1>4. Len(held) \in S
  <2> HIDE DEF S
  <2>1. QED
    BY <1>2, <1>3, Induction
<1>5. QED
  BY <1>1, <1>4

-----------------------------------------------------------------------------
(* Queues, publications and the page's other fields.                       *)

LEMMA NoChanges ==
  ASSUME NEW boards, NEW n
  PROVE  Changes(<<>>, boards, n) /\ Len(<<>>) = 0
BY DEF Changes

LEMMA Queues ==
  ASSUME NEW boards, NEW n, NEW q, Changes(q, boards, n)
  PROVE  /\ Len(q) \in Nat
         /\ q # <<>> => /\ Head(q) \in Deltas /\ TellsChange(Head(q), boards, n)
                        /\ Changes(Tail(q), boards, n) /\ Len(Tail(q)) = Len(q) - 1
<1>1. q \in Seq(Deltas) /\ \A i \in DOMAIN q : TellsChange(q[i], boards, n)
  BY DEF Changes
<1>2. Len(q) \in Nat /\ DOMAIN q = 1 .. Len(q)
  BY <1>1, LenProperties
<1>4. ASSUME q # <<>>
      PROVE  /\ Head(q) \in Deltas /\ TellsChange(Head(q), boards, n)
             /\ Changes(Tail(q), boards, n) /\ Len(Tail(q)) = Len(q) - 1
  <2> DEFINE after == Tail(q)
  <2>1. /\ Len(q) \in Nat \ {0} /\ Head(q) = q[1] /\ Head(q) \in Deltas
        /\ after \in Seq(Deltas) /\ Len(after) = Len(q) - 1 /\ DOMAIN after = 1 .. Len(q) - 1
        /\ \A i \in 1 .. Len(q) - 1 : after[i] = q[i + 1]
    BY <1>1, <1>4, Dequeued
  <2> HIDE DEF after
  <2>2. 1 \in DOMAIN q /\ \A i \in 1 .. Len(q) - 1 : i + 1 \in DOMAIN q
    BY <1>2, <2>1
  <2>3. TellsChange(q[1], boards, n) /\ \A i \in DOMAIN after : TellsChange(after[i], boards, n)
    BY <1>1, <2>1, <2>2
  <2>4. QED
    BY <2>1, <2>3 DEF Changes, after
<1>5. QED
  BY <1>2, <1>4

LEMMA OneMore ==
  ASSUME NEW boards, NEW n, NEW q, Changes(q, boards, n), NEW m \in Deltas, TellsChange(m, boards, n)
  PROVE  /\ Changes(Append(q, m), boards, n) /\ Len(Append(q, m)) = Len(q) + 1
         /\ q \o <<m>> = Append(q, m)
<1>1. q \in Seq(Deltas) /\ \A i \in DOMAIN q : TellsChange(q[i], boards, n)
  BY DEF Changes
<1>2. Len(q) \in Nat /\ DOMAIN q = 1 .. Len(q)
  BY <1>1, LenProperties
<1> DEFINE after == Append(q, m)
<1>3. q \o <<m>> = after
  BY <1>1
<1>4. /\ after \in Seq(Deltas) /\ Len(after) = Len(q) + 1 /\ DOMAIN after = 1 .. Len(q) + 1
      /\ after[Len(q) + 1] = m /\ \A i \in 1 .. Len(q) : after[i] = q[i]
  BY <1>1, Enqueued
<1> HIDE DEF after
<1>5. \A i \in 1 .. Len(q) + 1 : i \in 1 .. Len(q) \/ i = Len(q) + 1
  BY <1>2
<1>6. \A i \in DOMAIN after : TellsChange(after[i], boards, n)
  BY <1>1, <1>2, <1>4, <1>5
<1>7. QED
  BY <1>3, <1>4, <1>6 DEF Changes, after

\* What a message tells, and what the page shows, stays true as the server goes
\* on: its next tick, or a restart while the page waits.
LEMMA TellingLasts ==
  ASSUME NEW boards \in Seq(Boards), NEW board \in Boards, NEW n \in Nat, NEW k \in Nat,
         MidFetch \/ k = n + 1
  PROVE  /\ \A m : TellsAll(m, boards, n) => TellsAll(m, Append(boards, board), k)
         /\ \A m : TellsChange(m, boards, n) => TellsChange(m, Append(boards, board), k)
         /\ \A q : Changes(q, boards, n) => Changes(q, Append(boards, board), k)
         /\ \A p : Fits(p, boards, n) => Fits(p, Append(boards, board), k)
<1> DEFINE after == Append(boards, board)
<1>1. /\ Len(boards) \in Nat /\ Len(after) = Len(boards) + 1
      /\ \A i \in 1 .. Len(boards) : after[i] = boards[i]
  BY Enqueued
<1> HIDE DEF after
<1>2. ASSUME NEW m, Placed(m, boards, n)
      PROVE  Placed(m, after, k) /\ after[m.at] = boards[m.at]
  BY <1>1, <1>2 DEF Placed
<1>3. ASSUME NEW m, TellsAll(m, boards, n)
      PROVE  TellsAll(m, after, k)
  BY <1>2, <1>3 DEF TellsAll
<1>4. ASSUME NEW m, TellsChange(m, boards, n)
      PROVE  TellsChange(m, after, k)
  <2>1. m.at \in 1 .. Len(boards) /\ m.at > 1
    BY <1>4 DEF TellsChange, Placed
  <2>2. m.at - 1 \in 1 .. Len(boards)
    BY <1>1, <2>1
  <2>3. after[m.at - 1] = boards[m.at - 1]
    BY <1>1, <2>2
  <2>4. QED
    BY <1>2, <1>4, <2>3 DEF TellsChange
<1>5. ASSUME NEW p, Fits(p, boards, n)
      PROVE  Fits(p, after, k)
  <2>1. /\ HasPageFields(p) /\ p.seq \in Nat \cup {-1} /\ p.fetching \in BOOLEAN
        /\ p.queued \in Seq(Deltas) /\ p.view \in 0 .. Len(boards)
    BY <1>5 DEF Fits, IsPage
  <2>2. IsPage(p, after)
    BY <1>1, <2>1 DEF IsPage
  <2>3. \A i \in DOMAIN p.queued : TellsChange(p.queued[i], after, k)
    BY <1>4, <1>5 DEF Fits
  <2>4. ASSUME ~MidFetch, p.seq # -1
        PROVE  /\ p.view >= 1 /\ p.view - p.seq = Len(after) - k
               /\ SameSources => ShownOf(p.sources) = after[p.view]
    <3>1. p.view >= 1 /\ p.view - p.seq = Len(boards) - n
      BY <1>5, <2>4 DEF Fits
    <3>2. p.view \in 1 .. Len(boards)
      BY <1>1, <2>1, <3>1
    <3>3. SameSources => ShownOf(p.sources) = boards[p.view]
      BY <1>5, <2>4 DEF Fits
    <3>4. after[p.view] = boards[p.view]
      BY <1>1, <3>2
    <3>5. p.view - p.seq = Len(after) - k
      BY <1>1, <2>1, <2>4, <3>1
    <3>6. QED
      BY <3>1, <3>3, <3>4, <3>5
  <2>5. QED
    BY <2>2, <2>3, <2>4 DEF Fits
<1>6. \A q : Changes(q, boards, n) => Changes(q, after, k)
  BY <1>4 DEF Changes
<1>7. QED
  BY <1>3, <1>4, <1>5, <1>6 DEF after

\* A page that starts or ends a fetch, forgets its seq, or drops what it held.
LEMMA AlteredFits ==
  ASSUME NEW boards, NEW n, NEW p, Fits(p, boards, n), Len(boards) \in Nat
  PROVE  \A q :
           /\ q = [p EXCEPT !.fetching = TRUE] =>
                Fits(q, boards, n) /\ q.fetching /\ q.view = p.view /\ q.sources = p.sources
           /\ q = [p EXCEPT !.fetching = FALSE] =>
                Fits(q, boards, n) /\ ~q.fetching /\ q.view = p.view /\ q.sources = p.sources
           /\ q = [p EXCEPT !.seq = -1] =>
                /\ Fits(q, boards, n) /\ q.seq = -1 /\ q.fetching = p.fetching
                /\ q.view = p.view /\ q.sources = p.sources
           /\ q = [p EXCEPT !.queued = <<>>] =>
                Fits(q, boards, n) /\ q.view = p.view /\ q.sources = p.sources
<1>1. /\ HasPageFields(p) /\ p.seq \in Nat \cup {-1} /\ p.fetching \in BOOLEAN
      /\ p.queued \in Seq(Deltas) /\ p.view \in 0 .. Len(boards)
  BY DEF Fits, IsPage
<1>2. ASSUME NEW q, NEW x \in BOOLEAN, q = [p EXCEPT !.fetching = x]
      PROVE  Fits(q, boards, n) /\ q.fetching = x /\ q.view = p.view /\ q.sources = p.sources
  <2>1. q = [seq |-> p.seq, fetching |-> x, queued |-> p.queued,
             sources |-> p.sources, view |-> p.view]
    BY <1>1, <1>2, PageChanges
  <2>2. IsPage(q, boards)
    BY <1>1, <2>1 DEF IsPage, HasPageFields
  <2>3. QED
    BY <2>1, <2>2 DEF Fits
<1>3. ASSUME NEW q, q = [p EXCEPT !.seq = -1]
      PROVE  /\ Fits(q, boards, n) /\ q.seq = -1 /\ q.fetching = p.fetching
             /\ q.view = p.view /\ q.sources = p.sources
  <2>1. q = [seq |-> -1, fetching |-> p.fetching, queued |-> p.queued,
             sources |-> p.sources, view |-> p.view]
    BY <1>1, <1>3, PageChanges
  <2>2. IsPage(q, boards)
    BY <1>1, <2>1 DEF IsPage, HasPageFields
  <2>3. QED
    BY <2>1, <2>2 DEF Fits
<1>4. ASSUME NEW q, q = [p EXCEPT !.queued = <<>>]
      PROVE  Fits(q, boards, n) /\ q.view = p.view /\ q.sources = p.sources
  <2>1. q = [seq |-> p.seq, fetching |-> p.fetching, queued |-> <<>>,
             sources |-> p.sources, view |-> p.view]
    BY <1>1, <1>4, PageChanges
  <2>2. <<>> \in Seq(Deltas) /\ DOMAIN <<>> = {}
    OBVIOUS
  <2>3. IsPage(q, boards)
    BY <1>1, <2>1, <2>2 DEF IsPage, HasPageFields
  <2>4. QED
    BY <2>1, <2>2, <2>3 DEF Fits
<1>5. ASSUME NEW q
      PROVE  /\ q = [p EXCEPT !.fetching = TRUE] =>
                  Fits(q, boards, n) /\ q.fetching /\ q.view = p.view /\ q.sources = p.sources
             /\ q = [p EXCEPT !.fetching = FALSE] =>
                  Fits(q, boards, n) /\ ~q.fetching /\ q.view = p.view /\ q.sources = p.sources
  BY <1>2
<1>6. QED
  BY <1>3, <1>4, <1>5

-----------------------------------------------------------------------------
(* Every step keeps the invariant.                                         *)

LEMMA InitHolds ==
  ASSUME Init
  PROVE  IInv
<1>1. BySlug(<<>>) = Empty
  BY DEF BySlug, KeysOf, Empty
<1>2. Shape
  <2>1. published \in Seq(Boards) /\ Len(published) = 1 /\ published[1] = Empty
    BY <1>1 DEF Init, Boards, Listings
  <2>2. Len(<<>>) = 0 /\ UPDATE_BUFFER \in Nat
    BY StatusStreamAssumption
  <2>3. QED
    BY <1>1, <2>1, <2>2 DEF Init, Shape, Listings, Links
<1>3. Telling
  BY NoChanges DEF Init, Telling
<1>4. Answering
  BY DEF Init, Answering
<1>5. Fits(page, published, seq)
  <2>1. /\ page.seq = -1 /\ page.fetching = FALSE /\ page.queued = <<>> /\ page.view = 0
        /\ HasPageFields(page)
    BY DEF Init, HasPageFields
  <2>2. <<>> \in Seq(Deltas) /\ DOMAIN <<>> = {} /\ Len(published) = 1
    BY DEF Init
  <2>3. 0 \in 0 .. Len(published)
    BY <2>2
  <2>4. IsPage(page, published)
    BY <2>1, <2>2, <2>3 DEF IsPage
  <2>5. QED
    BY <2>1, <2>2, <2>4 DEF Fits
<1>6. QED
  BY <1>2, <1>3, <1>4, <1>5 DEF IInv

LEMMA AdvanceKeeps ==
  ASSUME IInv, NEW report \in Reports, Advance(report)
  PROVE  IInv'
<1> DEFINE m == [at |-> Len(published) + 1, body |-> UnorderedDelta(seq, rows, report)]
           after == Append(published, BySlug(report))
<1>1. /\ unsent' = <<m>> /\ seq' = seq + 1 /\ rows' = report /\ published' = after
      /\ UNCHANGED <<buffer, lagged, wire, link, opened, answer, page>>
  BY DEF Advance, receiver, socket
<1>2. /\ seq \in Nat /\ published \in Seq(Boards) /\ seq < Len(published) /\ rows \in Listings
      /\ published[Len(published)] = BySlug(rows)
      /\ Len(buffer) <= UPDATE_BUFFER /\ link \in Links /\ (opened => link # "down")
      /\ Telling /\ Answering /\ Fits(page, published, seq)
  BY DEF IInv, Shape
<1>3. report \in Listings /\ BySlug(report) \in Boards
  BY DEF Listings, Boards
<1>4. /\ Len(published) \in Nat \ {0} /\ after \in Seq(Boards) /\ Len(after) = Len(published) + 1
      /\ after[Len(published) + 1] = BySlug(report)
      /\ \A i \in 1 .. Len(published) : after[i] = published[i]
  BY <1>2, <1>3, Enqueued
<1>5. /\ m.at = Len(published) + 1 /\ m.body = UnorderedDelta(seq, rows, report)
      /\ m.body.seq = seq + 1 /\ m \in Deltas
  <2>1. UnorderedDelta(seq, rows, report) \in
          {UnorderedDelta(k, a, b) : k \in Nat, a \in Listings, b \in Reports}
    BY <1>2
  <2>2. UnorderedDelta(seq, rows, report).seq = seq + 1
    BY DEF UnorderedDelta
  <2>3. Len(published) + 1 \in Nat
    BY <1>4
  <2>4. QED
    BY <2>1, <2>2, <2>3 DEF Deltas
<1> HIDE DEF m, after
<1>6. TellsChange(m, after, seq + 1)
  <2>1. Placed(m, after, seq + 1)
    BY <1>2, <1>4, <1>5 DEF Placed
  <2>2. /\ m.at > 1 /\ m.body.seq >= 1 /\ m.body.seq - 1 = seq
        /\ m.at - 1 = Len(published) /\ Len(published) \in 1 .. Len(published)
    BY <1>2, <1>4, <1>5
  <2>3. after[m.at - 1] = BySlug(rows) /\ after[m.at] = BySlug(report)
    BY <1>2, <1>4, <1>5, <2>2
  <2>4. QED
    BY <1>2, <1>5, <2>1, <2>2, <2>3 DEF TellsChange
<1>7. Shape'
  <2>1. Len(<<m>>) = 1
    OBVIOUS
  <2>2. QED
    BY <1>1, <1>2, <1>3, <1>4, <2>1 DEF Shape
<1>8. seq + 1 \in Nat
  BY <1>2
<1>9. Telling'
  <2>1. Changes(<<m>>, after, seq + 1)
    <3>1. <<m>> \in Seq(Deltas) /\ DOMAIN <<m>> = {1} /\ <<m>>[1] = m
      BY <1>5
    <3>2. QED
      BY <1>6, <3>1 DEF Changes
  <2>2. Changes(buffer, after, seq + 1) /\ Changes(wire, after, seq + 1)
    BY <1>2, <1>3, <1>8, TellingLasts DEF Telling, after
  <2>3. QED
    BY <1>1, <2>1, <2>2 DEF Telling
<1>10. Answering'
  <2>1. TellsAll(answer[1], published, seq) => TellsAll(answer[1], after, seq + 1)
    BY <1>2, <1>3, <1>8, TellingLasts DEF after
  <2>2. QED
    BY <1>1, <1>2, <2>1 DEF Answering
<1>11. Fits(page, after, seq + 1)
  BY <1>2, <1>3, <1>8, TellingLasts DEF after
<1>12. QED
  BY <1>1, <1>7, <1>9, <1>10, <1>11 DEF IInv

\* Messages on their way: computed, read by the receiver, put on the wire.
LEMMA TransportKeeps ==
  ASSUME IInv, Send \/ Pump \/ Subscribe \/ BreakOnLag \/ Connect
  PROVE  IInv'
<1>1. UNCHANGED <<seq, rows, opened, answer, page, published>>
  BY DEF Send, Pump, Subscribe, BreakOnLag, Connect, stream, socket, receiver
<1>2. /\ Shape /\ Answering /\ Fits(page, published, seq)
      /\ Changes(unsent, published, seq) /\ Changes(buffer, published, seq)
      /\ Changes(wire, published, seq) /\ Len(unsent) <= 1 /\ Len(buffer) <= UPDATE_BUFFER
      /\ UPDATE_BUFFER \in Nat \ {0}
  BY StatusStreamAssumption DEF IInv, Telling, Shape
<1>3. Changes(<<>>, published, seq) /\ Len(<<>>) = 0
  BY NoChanges
<1>4. /\ Changes(unsent', published, seq) /\ Changes(buffer', published, seq)
      /\ Changes(wire', published, seq) /\ Len(unsent') <= 1 /\ Len(buffer') <= UPDATE_BUFFER
  <2>1. CASE Send
    <3>1. PICK m : unsent = <<m>> /\ m \in Deltas /\ TellsChange(m, published, seq)
      <4>1. unsent # <<>> /\ unsent \in Seq(Deltas) /\ Len(unsent) <= 1
        BY <1>2, <2>1 DEF Send, Changes
      <4>2. Len(unsent) = 1
        <5>1. Len(unsent) \in Nat \ {0}
          BY <4>1, Dequeued
        <5>2. Len(unsent) <= 1
          BY <4>1
        <5>3. QED
          BY <5>1, <5>2
      <4>3. unsent = <<unsent[1]>>
        BY <4>1, <4>2
      <4>4. 1 \in DOMAIN unsent
        BY <4>1, <4>2, LenProperties
      <4>5. unsent[1] \in Deltas /\ TellsChange(unsent[1], published, seq)
        BY <1>2, <4>1, <4>4, ElementOfSeq DEF Changes
      <4>6. QED
        BY <4>3, <4>5
    <3>2. /\ unsent' = <<>> /\ wire' = wire
          /\ \/ buffer' = buffer
             \/ Len(buffer) < UPDATE_BUFFER /\ buffer' = buffer \o <<m>>
             \/ ~(Len(buffer) < UPDATE_BUFFER) /\ buffer' = Tail(buffer) \o <<m>>
      BY <2>1, <3>1 DEF Send, receiver
    <3>3. CASE buffer' = buffer
      BY <1>2, <1>3, <3>2, <3>3
    <3>4. CASE Len(buffer) < UPDATE_BUFFER /\ buffer' = buffer \o <<m>>
      <4>1. buffer' = Append(buffer, m)
        BY <1>2, <3>1, <3>4, OneMore, Zenon
      <4>2. Changes(buffer', published, seq) /\ Len(buffer') = Len(buffer) + 1
        BY <1>2, <3>1, <4>1, OneMore
      <4>3. Len(buffer) < UPDATE_BUFFER /\ Len(buffer) \in Nat
        BY <1>2, <3>4, Queues
      <4>4. Len(buffer') <= UPDATE_BUFFER
        BY <1>2, <4>2, <4>3
      <4>5. QED
        BY <1>2, <1>3, <3>2, <4>2, <4>4
    <3>5. CASE ~(Len(buffer) < UPDATE_BUFFER) /\ buffer' = Tail(buffer) \o <<m>>
      <4>1. Len(buffer) \in Nat /\ Len(buffer) = UPDATE_BUFFER /\ buffer # <<>>
        BY <1>2, <1>3, <3>5, Queues
      <4>2. Changes(Tail(buffer), published, seq) /\ Len(Tail(buffer)) = Len(buffer) - 1
        BY <1>2, <4>1, Queues
      <4>3. buffer' = Append(Tail(buffer), m)
        BY <3>1, <3>5, <4>2, OneMore, Zenon
      <4>4. Changes(buffer', published, seq) /\ Len(buffer') = Len(Tail(buffer)) + 1
        BY <3>1, <4>2, <4>3, OneMore
      <4>5. Len(buffer') <= UPDATE_BUFFER
        BY <4>1, <4>2, <4>4
      <4>6. QED
        BY <1>2, <1>3, <3>2, <4>4, <4>5
    <3>6. QED
      BY <3>2, <3>3, <3>4, <3>5
  <2>2. CASE Pump
    <3>1. /\ buffer # <<>> /\ unsent' = unsent
          /\ wire' = Append(wire, Head(buffer)) /\ buffer' = Tail(buffer)
      BY <2>2 DEF Pump, stream
    <3>2. /\ Head(buffer) \in Deltas /\ TellsChange(Head(buffer), published, seq)
          /\ Changes(Tail(buffer), published, seq) /\ Len(Tail(buffer)) = Len(buffer) - 1
          /\ Len(buffer) \in Nat
      BY <1>2, <3>1, Queues
    <3>3. Changes(wire', published, seq)
      BY <1>2, <3>1, <3>2, OneMore
    <3>4. QED
      BY <1>2, <3>1, <3>2, <3>3
  <2>3. CASE Subscribe \/ BreakOnLag \/ Connect
    <3>1. unsent' = unsent /\ wire' = wire /\ (buffer' = buffer \/ buffer' = <<>>)
      BY <2>3 DEF Subscribe, BreakOnLag, Connect, stream, receiver
    <3>2. QED
      BY <1>2, <1>3, <3>1
  <2>4. QED
    BY <2>1, <2>2, <2>3
<1>5. link' \in Links /\ (opened' => link' # "down")
  BY <1>2 DEF Send, Pump, Subscribe, BreakOnLag, Connect, stream, socket, Links, Shape
<1>6. Shape'
  BY <1>1, <1>2, <1>4, <1>5 DEF Shape
<1>7. Telling'
  BY <1>1, <1>4 DEF Telling
<1>8. QED
  BY <1>1, <1>2, <1>6, <1>7 DEF IInv, Answering

\* The full's text: made under the lock, on its way to the page that waits.
LEMMA AnswerKeeps ==
  ASSUME IInv, Answer
  PROVE  IInv'
<1> DEFINE m == [at |-> Len(published), body |-> Full(seq, rows)]
<1>1. /\ page.fetching /\ answer' = <<m>>
      /\ UNCHANGED <<seq, rows, unsent, buffer, lagged, wire, link, opened, page, published>>
  BY DEF Answer, stream, receiver, socket
<1>2. Shape /\ Telling /\ Fits(page, published, seq)
  BY DEF IInv
<1>3. /\ seq \in Nat /\ published \in Seq(Boards) /\ seq < Len(published) /\ rows \in Listings
      /\ published[Len(published)] = BySlug(rows) /\ Len(published) \in Nat \ {0}
  BY <1>2, LenProperties DEF Shape
<1>4. m.at = Len(published) /\ m.body = Full(seq, rows) /\ m.body.seq = seq
  BY DEF Full
<1> HIDE DEF m
<1>5. TellsAll(m, published, seq)
  <2>1. Placed(m, published, seq)
    BY <1>3, <1>4 DEF Placed
  <2>2. QED
    BY <1>3, <1>4, <2>1 DEF TellsAll
<1>6. m.at >= page.view
  BY <1>2, <1>3, <1>4 DEF Fits, IsPage
<1>7. Answering'
  <2>1. <<m>>[1] = m
    OBVIOUS
  <2>2. QED
    BY <1>1, <1>5, <1>6, <2>1 DEF Answering
<1>8. Shape' /\ Telling' /\ Fits(page, published, seq)'
  BY <1>1, <1>2 DEF Shape, Telling
<1>9. QED
  BY <1>7, <1>8 DEF IInv

\* The page asks for a full, or gives up on one.
LEMMA FetchKeeps ==
  ASSUME IInv, Open \/ FetchFails
  PROVE  IInv'
<1>1. UNCHANGED <<seq, rows, unsent, buffer, lagged, wire, link, published>>
  BY DEF Open, FetchFails, stream, receiver, socket
<1>2. Shape /\ Telling /\ Answering /\ Fits(page, published, seq) /\ Len(published) \in Nat
  BY LenProperties DEF IInv, Shape
<1>3. \/ page' = [page EXCEPT !.fetching = TRUE] /\ answer' = answer
      \/ page' = [page EXCEPT !.fetching = FALSE] /\ answer' = <<>>
  BY DEF Open, FetchFails
<1>4. /\ Fits(page', published, seq) /\ page'.view = page.view
      /\ answer' = <<>> \/ (page'.fetching /\ answer' = answer)
  <2>1. PICK p, a : p = page' /\ a = answer'
    OBVIOUS
  <2>2. CASE p = [page EXCEPT !.fetching = TRUE] /\ a = answer
    <3>1. p = [page EXCEPT !.fetching = TRUE]
      BY <2>2
    <3>2. Fits(p, published, seq) /\ p.fetching /\ p.view = page.view
      BY <1>2, <3>1, AlteredFits
    <3>3. QED
      BY <2>1, <2>2, <3>2, Zenon
  <2>3. CASE p = [page EXCEPT !.fetching = FALSE] /\ a = <<>>
    <3>1. p = [page EXCEPT !.fetching = FALSE]
      BY <2>3
    <3>2. Fits(p, published, seq) /\ p.view = page.view
      BY <1>2, <3>1, AlteredFits
    <3>3. QED
      BY <2>1, <2>3, <3>2, Zenon
  <2>4. QED
    BY <1>3, <2>1, <2>2, <2>3
<1>5. Shape'
  <2>1. opened' => link # "down"
    BY <1>2 DEF Open, FetchFails, Shape, socket
  <2>2. QED
    BY <1>1, <1>2, <2>1 DEF Shape
<1>6. Telling'
  BY <1>1, <1>2 DEF Telling
<1>7. Answering'
  BY <1>1, <1>2, <1>3, <1>4 DEF Answering
<1>8. QED
  BY <1>1, <1>4, <1>5, <1>6, <1>7 DEF IInv

\* However a connection ends, its queues go with it, the page forgets its seq,
\* and a fetch in flight goes on.
LEMMA ClosedKeeps ==
  ASSUME IInv, HearClose \/ Drop
  PROVE  IInv'
<1>1. /\ UNCHANGED <<seq, rows, unsent, answer, published>>
      /\ link' = "down" /\ opened' = FALSE /\ wire' = <<>> /\ buffer' = <<>>
      /\ page' = [page EXCEPT !.seq = -1]
  BY DEF HearClose, Drop, Closed, stream
<1>2. Shape /\ Telling /\ Answering /\ Fits(page, published, seq) /\ Len(published) \in Nat
  BY LenProperties DEF IInv, Shape
<1>3. Fits(page', published, seq) /\ page'.fetching = page.fetching /\ page'.view = page.view
  BY <1>1, <1>2, AlteredFits
<1>4. Changes(<<>>, published, seq) /\ Len(<<>>) = 0
  BY NoChanges
<1>5. Shape'
  <2>1. Len(buffer') <= UPDATE_BUFFER
    BY <1>1, <1>4, StatusStreamAssumption
  <2>2. QED
    BY <1>1, <1>2, <2>1 DEF Shape, Links
<1>6. Telling'
  BY <1>1, <1>2, <1>4 DEF Telling
<1>7. Answering'
  BY <1>1, <1>2, <1>3 DEF Answering
<1>8. QED
  BY <1>1, <1>3, <1>5, <1>6, <1>7 DEF IInv

\* A new process.  A page that waits for no full and holds nothing forgets all
\* that its seqs meant; one that waits keeps only what its answer tells.
LEMMA RestartKeeps ==
  ASSUME IInv, Restart
  PROVE  IInv'
<1> DEFINE after == Append(published, Empty)
<1>1. /\ seq' = 0 /\ rows' = <<>> /\ unsent' = <<>> /\ published' = after
      /\ link' = "down" /\ opened' = FALSE /\ wire' = <<>> /\ buffer' = <<>>
      /\ page' = [page EXCEPT !.seq = -1] /\ answer' = answer
      /\ MidFetch \/ (~page.fetching /\ page.queued = <<>>)
  BY DEF Restart, Closed
<1>2. /\ Shape /\ Answering /\ Fits(page, published, seq)
      /\ published \in Seq(Boards) /\ seq \in Nat /\ Len(published) \in Nat
  BY LenProperties DEF IInv, Shape
<1>3. Empty = BySlug(<<>>) /\ Empty \in Boards /\ <<>> \in Listings
  BY DEF BySlug, KeysOf, Empty, Boards, Listings
<1>4. /\ after \in Seq(Boards) /\ Len(after) = Len(published) + 1
      /\ after[Len(published) + 1] = Empty
      /\ \A i \in 1 .. Len(published) : after[i] = published[i]
  BY <1>2, <1>3, Enqueued
<1>5. Changes(<<>>, after, 0) /\ Len(<<>>) = 0
  BY NoChanges
<1>6. PICK p : p = page' /\ p = [page EXCEPT !.seq = -1]
  BY <1>1
<1>7. /\ Fits(p, published, seq) /\ p.seq = -1 /\ p.fetching = page.fetching
      /\ p.view = page.view /\ p.queued = page.queued
  <2>1. HasPageFields(page)
    BY <1>2 DEF Fits, IsPage
  <2>2. p.queued = page.queued
    BY <1>6, <2>1, PageChanges
  <2>3. QED
    BY <1>2, <1>6, <2>2, AlteredFits
<1> HIDE DEF after
<1>8. Shape'
  <2>1. Len(buffer') <= UPDATE_BUFFER /\ Len(unsent') <= 1
    BY <1>1, <1>5, StatusStreamAssumption
  <2>2. rows' \in Listings /\ published'[Len(published')] = BySlug(rows')
    BY <1>1, <1>3, <1>4
  <2>3. seq' \in Nat /\ seq' < Len(published') /\ published' \in Seq(Boards)
    BY <1>1, <1>2, <1>4
  <2>4. link' \in Links /\ (opened' => link' # "down")
    BY <1>1 DEF Links
  <2>5. QED
    BY <2>1, <2>2, <2>3, <2>4 DEF Shape
<1>9. Telling'
  BY <1>1, <1>5 DEF Telling
<1>10. Fits(p, after, 0)
  <2>1. CASE MidFetch
    <3>1. Fits(p, published, seq) => Fits(p, Append(published, Empty), 0)
      BY <1>2, <1>3, <2>1, TellingLasts
    <3>2. QED
      BY <1>7, <3>1 DEF after
  <2>2. CASE ~MidFetch
    <3>1. p.queued = <<>> /\ DOMAIN <<>> = {}
      BY <1>1, <1>7, <2>2
    <3>2. HasPageFields(p) /\ p.fetching \in BOOLEAN /\ <<>> \in Seq(Deltas)
          /\ p.view \in 0 .. Len(published)
      BY <1>7 DEF Fits, IsPage
    <3>3. p.view \in 0 .. Len(after)
      BY <1>2, <1>4, <3>2
    <3>4. IsPage(p, after)
      BY <1>7, <3>1, <3>2, <3>3 DEF IsPage
    <3>5. QED
      BY <1>7, <3>1, <3>4 DEF Fits
  <2>3. QED
    BY <2>1, <2>2
<1>11. Answering'
  <2>1. CASE answer = <<>>
    BY <1>1, <2>1 DEF Answering
  <2>2. CASE answer # <<>>
    <3>1. /\ page.fetching /\ answer = <<answer[1]>> /\ TellsAll(answer[1], published, seq)
          /\ answer[1].at >= page.view
      BY <1>2, <2>2 DEF Answering
    <3>2. MidFetch
      BY <1>1, <3>1
    <3>3. TellsAll(answer[1], published, seq) => TellsAll(answer[1], Append(published, Empty), 0)
      BY <1>2, <1>3, <3>2, TellingLasts
    <3>4. TellsAll(answer[1], after, 0)
      BY <3>1, <3>3 DEF after
    <3>5. QED
      BY <1>1, <1>6, <1>7, <3>1, <3>4 DEF Answering
  <2>3. QED
    BY <2>1, <2>2
<1>12. QED
  BY <1>1, <1>6, <1>8, <1>9, <1>10, <1>11 DEF IInv

\* A delta reaches the page.
LEMMA DeliverShows ==
  ASSUME IInv, Deliver
  PROVE  IInv' /\ (Steady => Onward(page, page', published))
<1>1. /\ wire # <<>> /\ page' = Applied(page, Head(wire)) /\ wire' = Tail(wire)
      /\ UNCHANGED <<seq, rows, unsent, buffer, lagged, link, opened, answer, published>>
  BY DEF Deliver, stream, receiver, socket
<1>2. Shape /\ Telling /\ Answering /\ Fits(page, published, seq) /\ Changes(wire, published, seq)
  BY DEF IInv, Telling
<1>3. PICK m : m = Head(wire)
  OBVIOUS
<1>4. m \in Deltas /\ TellsChange(m, published, seq) /\ Changes(Tail(wire), published, seq)
  BY <1>1, <1>2, <1>3, Queues
<1>5. PICK p : p = page' /\ p = Applied(page, m)
  BY <1>1, <1>3
<1>6. /\ Fits(p, published, seq)
      /\ Steady => Onward(page, p, published)
      /\ page.fetching => p.fetching /\ p.view = page.view
  BY <1>2, <1>4, <1>5, AppliedFits
<1>7. Shape' /\ Telling'
  BY <1>1, <1>2, <1>4 DEF Shape, Telling
<1>8. Answering'
  BY <1>1, <1>2, <1>5, <1>6 DEF Answering
<1>9. QED
  BY <1>1, <1>5, <1>6, <1>7, <1>8 DEF IInv

\* The full reaches the page that waits for it, and what the page held is replayed.
LEMMA LandShows ==
  ASSUME IInv, Land
  PROVE  IInv' /\ (Steady => Onward(page, page', published))
<1> DEFINE waiting == [page EXCEPT !.fetching = FALSE]
           landed == Applied(waiting, answer[1])
           ready == [landed EXCEPT !.queued = <<>>]
<1>1. /\ answer # <<>> /\ answer' = <<>>
      /\ UNCHANGED <<seq, rows, unsent, buffer, lagged, wire, link, opened, published>>
      /\ \E order \in Bijection(DOMAIN landed.queued, DOMAIN landed.queued) :
           page' = Replayed(ready, [i \in DOMAIN order |-> landed.queued[order[i]]])
  BY DEF Land, stream, receiver, socket
<1>2. /\ Shape /\ Telling /\ Fits(page, published, seq) /\ Len(published) \in Nat
      /\ TellsAll(answer[1], published, seq) /\ answer[1].at >= page.view
  BY <1>1, LenProperties DEF IInv, Shape, Answering
<1>3. /\ Fits(waiting, published, seq) /\ ~waiting.fetching
      /\ waiting.view = page.view /\ waiting.sources = page.sources
  <2>1. waiting = [page EXCEPT !.fetching = FALSE]
    OBVIOUS
  <2> HIDE DEF waiting
  <2>2. QED
    BY <1>2, <2>1, AlteredFits
<1> HIDE DEF waiting
<1>4. /\ Fits(landed, published, seq)
      /\ Steady => Onward(waiting, landed, published)
  BY <1>2, <1>3, AppliedFits
<1> HIDE DEF landed
<1>5. /\ Fits(ready, published, seq) /\ ready.view = landed.view /\ ready.sources = landed.sources
  <2>1. ready = [landed EXCEPT !.queued = <<>>]
    OBVIOUS
  <2> HIDE DEF ready
  <2>2. QED
    BY <1>2, <1>4, <2>1, AlteredFits
<1> HIDE DEF ready
<1>6. PICK order \in Bijection(DOMAIN landed.queued, DOMAIN landed.queued) :
        page' = Replayed(ready, [i \in DOMAIN order |-> landed.queued[order[i]]])
  BY <1>1
<1>7. /\ landed.queued \in Seq(Deltas)
      /\ \A i \in DOMAIN landed.queued : TellsChange(landed.queued[i], published, seq)
  BY <1>4 DEF Fits, IsPage
<1>8. Len(landed.queued) \in Nat /\ DOMAIN landed.queued = 1 .. Len(landed.queued)
  BY <1>7, LenProperties
<1> DEFINE held == [i \in DOMAIN order |-> landed.queued[order[i]]]
<1>9. DOMAIN order = DOMAIN landed.queued /\ \A i \in DOMAIN order : order[i] \in DOMAIN landed.queued
  BY DEF Bijection, Injection, Surjection, IsInjective
<1>10. /\ Len(held) = Len(landed.queued)
       /\ \A i \in 1 .. Len(held) : held[i] \in Deltas /\ TellsChange(held[i], published, seq)
  <2>1. held = [i \in 1 .. Len(landed.queued) |-> landed.queued[order[i]]]
    BY <1>8, <1>9
  <2>2. Len(held) = Len(landed.queued)
    BY <1>8, <2>1
  <2>3. \A i \in DOMAIN landed.queued : landed.queued[i] \in Deltas
    BY <1>7, ElementOfSeq, <1>8
  <2>4. QED
    BY <1>7, <1>8, <1>9, <2>1, <2>2, <2>3
<1> HIDE DEF held
<1>11. PICK p : p = page' /\ p = Replayed(ready, held)
  BY <1>6 DEF held
<1>12. /\ Fits(p, published, seq)
       /\ Steady => Onward(ready, p, published)
  BY <1>2, <1>5, <1>8, <1>10, <1>11, ReplayedFits
<1>13. ASSUME Steady
       PROVE  Onward(page, p, published)
  <2>1. Onward(waiting, landed, published) /\ Onward(ready, p, published)
    BY <1>4, <1>12, <1>13
  <2>2. page.view \in Nat /\ landed.view \in Nat /\ p.view \in Nat
    BY <1>2, <1>4, <1>12 DEF Fits, IsPage
  <2>3. QED
    BY <1>3, <1>5, <2>1, <2>2 DEF Onward
<1>14. Shape' /\ Telling' /\ Answering'
  BY <1>1, <1>2 DEF Shape, Telling, Answering
<1>15. QED
  BY <1>1, <1>11, <1>12, <1>13, <1>14 DEF IInv

LEMMA StepKeeps ==
  ASSUME IInv, [Next]_vars
  PROVE  IInv'
<1>1. CASE \E report \in Reports : Advance(report)
  BY <1>1, AdvanceKeeps
<1>2. CASE Send \/ Pump \/ Subscribe \/ BreakOnLag \/ Connect
  BY <1>2, TransportKeeps
<1>3. CASE Answer
  BY <1>3, AnswerKeeps
<1>4. CASE Open \/ FetchFails
  BY <1>4, FetchKeeps
<1>5. CASE HearClose \/ Drop
  BY <1>5, ClosedKeeps
<1>6. CASE Restart
  BY <1>6, RestartKeeps
<1>7. CASE Deliver
  BY <1>7, DeliverShows
<1>8. CASE Land
  BY <1>8, LandShows
<1>9. CASE UNCHANGED vars
  <2>1. UNCHANGED <<seq, rows, unsent, buffer, wire, link, opened, answer, page, published>>
    BY <1>9 DEF vars, stream, receiver, socket
  <2>2. QED
    BY <2>1 DEF IInv, Shape, Telling, Answering
<1>10. QED
  BY <1>1, <1>2, <1>3, <1>4, <1>5, <1>6, <1>7, <1>8, <1>9 DEF Next, Server, Page

LEMMA Invariance == Spec => []IInv
<1>1. Init => IInv
  BY InitHolds
<1>2. IInv /\ [Next]_vars => IInv'
  BY StepKeeps
<1>3. QED
  BY <1>1, <1>2, PTL DEF Spec

-----------------------------------------------------------------------------
(* The theorems.                                                           *)

\* The state keeps its shape, however the server restarts: the channel never
\* holds more than its capacity, and a response is only ever on its way to a
\* page that waits for it.
THEOREM TypeCorrect == Spec => []TypeOK
<1>1. ASSUME IInv
      PROVE  TypeOK
  <2>1. page.seq \in Nat \cup {-1} /\ page.view \in 0 .. Len(published)
    BY <1>1 DEF IInv, Fits, IsPage
  <2>2. answer # <<>> => page.fetching
    BY <1>1 DEF IInv, Answering
  <2>3. QED
    BY <1>1, <2>1, <2>2 DEF TypeOK, IInv, Shape, Listings
<1>2. QED
  BY <1>1, Invariance, PTL

\* report.ts throws away a message whose seq it has reached: what it throws away
\* is no newer than what it shows, if no restart comes while it waits.
THEOREM IgnoringIsSafe ==
  ASSUME MidFetch = FALSE
  PROVE  Spec => []IgnoredIsHeld
<1>1. ASSUME IInv
      PROVE  IgnoredIsHeld
  <2> SUFFICES ASSUME NEW m \in Range(answer) \cup Range(wire), m.body.seq <= page.seq
               PROVE  page.view >= m.at
    BY DEF IgnoredIsHeld
  <2>1. Placed(m, published, seq)
    <3>1. CASE m \in Range(answer)
      <4>1. answer # <<>>
        BY <3>1 DEF Range
      <4>2. answer = <<answer[1]>> /\ TellsAll(answer[1], published, seq)
        BY <1>1, <4>1 DEF IInv, Answering
      <4>3. m = answer[1]
        BY <3>1, <4>2 DEF Range
      <4>4. QED
        BY <4>2, <4>3 DEF TellsAll
    <3>2. CASE m \in Range(wire)
      <4>1. PICK i \in DOMAIN wire : m = wire[i]
        BY <3>2 DEF Range
      <4>2. TellsChange(wire[i], published, seq)
        BY <1>1 DEF IInv, Telling, Changes
      <4>3. QED
        BY <4>1, <4>2 DEF TellsChange
    <3>3. QED
      BY <3>1, <3>2
  <2>2. /\ m.at \in 1 .. Len(published) /\ m.body.seq \in Nat
        /\ m.at - m.body.seq = Len(published) - seq
    BY <2>1 DEF Placed
  <2>3. /\ page.seq \in Nat \cup {-1} /\ page.view \in 0 .. Len(published)
        /\ page.seq # -1 => page.view - page.seq = Len(published) - seq
        /\ Len(published) \in Nat /\ seq \in Nat
    BY <1>1, LenProperties DEF IInv, Fits, IsPage, Shape
  <2>4. page.seq # -1
    BY <2>2, <2>3
  <2>5. page.view - page.seq = Len(published) - seq
    BY <2>3, <2>4
  <2>6. QED
    BY <2>2, <2>3, <2>4, <2>5
<1>2. QED
  BY <1>1, Invariance, PTL

\* The status page implements Mirror where no restart comes while it waits and
\* no source departs: however fulls, held deltas, failed fetches, overruns and
\* lost connections race, it shows reports the server published, whole and in order.
THEOREM ImplementsMirror ==
  ASSUME MidFetch = FALSE, SameSources
  PROVE  Spec => MirrorsTheServer
<1>1. Empty = BySlug(<<>>)
  BY DEF BySlug, KeysOf, Empty
<1>2. Init => Reader!Init
  <2>1. ShownOf(Empty) = <<>>
    BY DEF ShownOf, Empty
  <2>2. QED
    BY <1>1, <2>1 DEF Init, Reader!Init, ShownSources, ShownOf
<1>3. ASSUME IInv, [Next]_vars
      PROVE  [Reader!Next]_<<published, page.view, ShownSources>>
  <2>1. ASSUME UNCHANGED published, page'.view = page.view, page'.sources = page.sources
        PROVE  UNCHANGED <<published, page.view, ShownSources>>
    BY <2>1 DEF ShownSources
  <2>2. HasPageFields(page) /\ page.view \in 0 .. Len(published) /\ Len(published) \in Nat
    BY <1>3, LenProperties DEF IInv, Fits, IsPage, Shape
  <2>3. ASSUME page' = [page EXCEPT !.seq = -1] \/ page' = [page EXCEPT !.fetching = TRUE]
                 \/ page' = [page EXCEPT !.fetching = FALSE] \/ page' = page
        PROVE  page'.view = page.view /\ page'.sources = page.sources
    BY <2>2, <2>3, PageChanges
  <2>4. ASSUME Onward(page, page', published), UNCHANGED published
        PROVE  [Reader!Next]_<<published, page.view, ShownSources>>
    <3>1. CASE page'.view = page.view /\ page'.sources = page.sources
      BY <2>1, <2>4, <3>1
    <3>2. CASE page'.view \in 1 .. Len(published) /\ ShownOf(page'.sources) = published[page'.view]
      <4>1. page'.view >= page.view
        BY <2>4 DEF Onward
      <4>2. Reader!Show
        BY <2>2, <2>4, <3>2, <4>1 DEF Reader!Show, ShownSources, ShownOf
      <4>3. QED
        BY <4>2 DEF Reader!Next
    <3>3. QED
      BY <2>4, <3>1, <3>2 DEF Onward
  <2>5. Steady
    BY DEF Steady
  <2>6. CASE Deliver
    BY <1>3, <2>4, <2>5, <2>6, DeliverShows DEF Deliver
  <2>7. CASE Land
    BY <1>3, <2>4, <2>5, <2>7, LandShows DEF Land
  <2>8. CASE \E report \in Reports : Advance(report)
    <3>1. PICK report \in Reports : Advance(report)
      BY <2>8
    <3>2. published' = Append(published, BySlug(report)) /\ page' = page
      BY <3>1 DEF Advance
    <3>3. Reader!Publish
      BY <3>2 DEF Reader!Publish, ShownSources
    <3>4. QED
      BY <3>3 DEF Reader!Next
  <2>9. CASE Restart
    <3>1. published' = Append(published, Empty) /\ page' = [page EXCEPT !.seq = -1]
      BY <2>9 DEF Restart, Closed
    <3>2. page'.view = page.view /\ page'.sources = page.sources
      BY <2>3, <3>1
    <3>3. Reader!Publish
      BY <1>1, <3>1, <3>2 DEF Reader!Publish, ShownSources
    <3>4. QED
      BY <3>3 DEF Reader!Next
  <2>10. CASE Send \/ Pump \/ Subscribe \/ BreakOnLag \/ Connect \/ Answer \/ Open \/ FetchFails
              \/ HearClose \/ Drop \/ UNCHANGED vars
    <3>1. /\ UNCHANGED published
          /\ \/ page' = [page EXCEPT !.seq = -1] \/ page' = [page EXCEPT !.fetching = TRUE]
             \/ page' = [page EXCEPT !.fetching = FALSE] \/ page' = page
      BY <2>10 DEF Send, Pump, Subscribe, BreakOnLag, Connect, Answer, Open, FetchFails,
                   HearClose, Drop, Closed, vars
    <3>2. QED
      BY <2>1, <2>3, <3>1
  <2>11. QED
    BY <1>3, <2>6, <2>7, <2>8, <2>9, <2>10 DEF Next, Server, Page
<1>4. QED
  BY <1>2, <1>3, Invariance, PTL DEF Spec, MirrorsTheServer, Reader!Spec
=============================================================================
