-------------------------- MODULE DeltaStream_proofs --------------------------
(***************************************************************************)
(* What the merge of wire.rs and its clients preserves, for any fields,    *)
(* keys and values: the lemmas under the two streams' theorems.            *)
(***************************************************************************)
EXTENDS DeltaStream, SequenceTheorems, TLAPS

-----------------------------------------------------------------------------
(* Rows.                                                                   *)

\* A row that travels without its nulls shows what it is.
LEMMA StrippedShows ==
  ASSUME NEW row, IsRow(row)
  PROVE  Shown(StripNulls(row)) = row
BY DEF IsRow, Shown, StripNulls, Restrict

\* The changed fields merged into what shows as the previous row show the
\* current one, nulls included.
LEMMA MergeShows ==
  ASSUME NEW held, NEW previous, NEW current, IsRow(previous), IsRow(current),
         Shown(held) = previous
  PROVE  Shown(Merge(held, DeltaRow(previous, current))) = current
<1> DEFINE delta == DeltaRow(previous, current)
           merged == Merge(held, delta)
<1>1. /\ DOMAIN delta = {f \in Fields : current[f] # previous[f]}
      /\ \A f \in DOMAIN delta : delta[f] = current[f]
  BY DEF DeltaRow, Restrict, IsRow
<1>2. /\ DOMAIN merged = DOMAIN held \cup DOMAIN delta
      /\ \A f \in DOMAIN merged : merged[f] = IF f \in DOMAIN delta THEN delta[f] ELSE held[f]
  BY DEF Merge
<1>3. \A f \in Fields : previous[f] = IF f \in DOMAIN held THEN held[f] ELSE NULL
  BY DEF Shown
<1> HIDE DEF delta, merged
<1>4. \A f \in Fields : (IF f \in DOMAIN merged THEN merged[f] ELSE NULL) = current[f]
  BY <1>1, <1>2, <1>3
<1>5. Shown(merged) = [f \in Fields |-> current[f]]
  BY <1>4 DEF Shown
<1>6. QED BY <1>5 DEF IsRow, merged, delta

-----------------------------------------------------------------------------
(* Boards.                                                                 *)

\* Where keys are distinct, the row of a key is the row of its entry.
LEMMA RowOfEntry ==
  ASSUME NEW entries, \A i, j \in DOMAIN entries : entries[i].key = entries[j].key => i = j,
         NEW i \in DOMAIN entries
  PROVE  RowOf(entries, entries[i].key) = entries[i].row
BY DEF RowOf

\* What shows as a board has its keys, in its order.
LEMMA ShowingKeys ==
  ASSUME NEW held, NEW board, IsBoard(board), ShownAll(held) = board
  PROVE  /\ DOMAIN held = DOMAIN board
         /\ \A i \in DOMAIN board : held[i].key = board[i].key /\ Shown(held[i].row) = board[i].row
         /\ KeysOf(held) = KeysOf(board)
<1>1. /\ DOMAIN held = DOMAIN board
      /\ \A i \in DOMAIN board : board[i] = [key |-> held[i].key, row |-> Shown(held[i].row)]
  BY DEF ShownAll
<1>2. \A i \in DOMAIN board : held[i].key = board[i].key /\ Shown(held[i].row) = board[i].row
  BY <1>1
<1>3. KeysOf(held) = KeysOf(board)
  BY <1>1, <1>2 DEF KeysOf
<1>4. QED BY <1>1, <1>2, <1>3

\* Entries that show the rows of a board show the board.
LEMMA ShowingBoard ==
  ASSUME NEW board, IsBoard(board), NEW entries, DOMAIN entries = DOMAIN board,
         \A i \in DOMAIN board : entries[i].key = board[i].key
                                 /\ Shown(entries[i].row) = board[i].row
  PROVE  ShownAll(entries) = board
BY DEF ShownAll, IsBoard

\* A full shows the board it was made from.
LEMMA FullShows ==
  ASSUME NEW board, IsBoard(board), NEW seq
  PROVE  LET sent == Full(seq, board).entries
         IN /\ DOMAIN sent = DOMAIN board
            /\ \A i \in DOMAIN board :
                 sent[i].key = board[i].key /\ Shown(sent[i].row) = board[i].row
<1>1. \A i \in DOMAIN board : IsRow(board[i].row)
  BY DEF IsBoard
<1>2. \A i \in DOMAIN board : Shown(StripNulls(board[i].row)) = board[i].row
  BY <1>1, StrippedShows
<1>3. QED BY <1>2 DEF Full

\* An ordered delta merged into what shows the previous board shows the current.
LEMMA DeltaShows ==
  ASSUME NEW previous, IsBoard(previous), NEW current, IsBoard(current),
         NEW held, ShownAll(held) = previous, NEW seq
  PROVE  LET sent == OrderedDelta(seq, previous, current).entries
         IN /\ DOMAIN sent = DOMAIN current
            /\ \A i \in DOMAIN current :
                 /\ sent[i].key = current[i].key
                 /\ Shown(IF sent[i].key \in KeysOf(held)
                            THEN Merge(RowOf(held, sent[i].key), sent[i].row) ELSE sent[i].row)
                      = current[i].row
<1> DEFINE sent == OrderedDelta(seq, previous, current).entries
<1>1. /\ DOMAIN sent = DOMAIN current
      /\ \A i \in DOMAIN current : sent[i] = DeltaEntry(previous, current[i])
  BY DEF OrderedDelta
<1> HIDE DEF sent
<1>2. \A i \in DOMAIN current : sent[i].key = current[i].key
  <2>1. \A e : DeltaEntry(previous, e).key = e.key
    BY DEF DeltaEntry
  <2>2. QED BY <1>1, <2>1
<1>3. KeysOf(held) = KeysOf(previous)
  BY ShowingKeys
<1>4. ASSUME NEW i \in DOMAIN current, current[i].key \in KeysOf(previous)
      PROVE  Shown(Merge(RowOf(held, current[i].key), sent[i].row)) = current[i].row
  <2>1. PICK j \in DOMAIN previous : previous[j].key = current[i].key
    BY <1>4 DEF KeysOf
  <2> DEFINE Distinct(e) == \A k, l \in DOMAIN e : e[k].key = e[l].key => k = l
  <2>2. Distinct(previous) /\ Distinct(held)
    <3>1. Distinct(previous)
      BY DEF IsBoard
    <3>2. QED BY <3>1, ShowingKeys
  <2>3. /\ j \in DOMAIN held /\ held[j].key = previous[j].key
        /\ Shown(held[j].row) = previous[j].row
    BY ShowingKeys
  <2>4. RowOf(previous, previous[j].key) = previous[j].row
    BY <2>2, RowOfEntry
  <2>5. RowOf(held, held[j].key) = held[j].row
    BY <2>2, <2>3, RowOfEntry
  <2>6. sent[i].row = DeltaRow(previous[j].row, current[i].row)
    BY <1>1, <1>4, <2>1, <2>4 DEF DeltaEntry
  <2>7. IsRow(previous[j].row) /\ IsRow(current[i].row)
    BY DEF IsBoard
  <2>8. Shown(Merge(held[j].row, DeltaRow(previous[j].row, current[i].row))) = current[i].row
    BY <2>3, <2>7, MergeShows
  <2>9. QED BY <2>1, <2>3, <2>5, <2>6, <2>8
<1>5. ASSUME NEW i \in DOMAIN current, current[i].key \notin KeysOf(previous)
      PROVE  Shown(sent[i].row) = current[i].row
  <2>1. sent[i].row = StripNulls(current[i].row)
    BY <1>1, <1>5 DEF DeltaEntry
  <2>2. QED BY <2>1, StrippedShows DEF IsBoard
<1>6. ASSUME NEW i \in DOMAIN current
      PROVE  Shown(IF sent[i].key \in KeysOf(held)
                     THEN Merge(RowOf(held, sent[i].key), sent[i].row) ELSE sent[i].row)
               = current[i].row
  BY <1>2, <1>3, <1>4, <1>5
<1>7. QED BY <1>1, <1>2, <1>6 DEF sent

-----------------------------------------------------------------------------
(* Queues of messages.                                                     *)

LEMMA Dequeued ==
  ASSUME NEW S, NEW q \in Seq(S), q # <<>>
  PROVE  /\ Len(q) \in Nat \ {0} /\ DOMAIN q = 1 .. Len(q)
         /\ Head(q) = q[1] /\ Head(q) \in S
         /\ Tail(q) \in Seq(S) /\ Len(Tail(q)) = Len(q) - 1
         /\ DOMAIN Tail(q) = 1 .. Len(q) - 1
         /\ \A i \in 1 .. Len(q) - 1 : Tail(q)[i] = q[i + 1]
<1>1. Len(q) \in Nat \ {0} /\ DOMAIN q = 1 .. Len(q)
  BY EmptySeq, LenProperties
<1>2. Head(q) = q[1]
  OBVIOUS
<1>3. /\ Head(q) \in S /\ Tail(q) \in Seq(S) /\ Len(Tail(q)) = Len(q) - 1
      /\ \A i \in 1 .. Len(Tail(q)) : Tail(q)[i] = q[i + 1]
  BY HeadTailProperties
<1>4. DOMAIN Tail(q) = 1 .. Len(Tail(q))
  BY <1>3, LenProperties
<1>5. QED BY <1>1, <1>2, <1>3, <1>4

LEMMA Enqueued ==
  ASSUME NEW S, NEW q \in Seq(S), NEW m \in S
  PROVE  /\ Append(q, m) \in Seq(S) /\ Len(Append(q, m)) = Len(q) + 1
         /\ Len(q) \in Nat /\ DOMAIN q = 1 .. Len(q)
         /\ DOMAIN Append(q, m) = 1 .. Len(q) + 1
         /\ Append(q, m) # <<>>
         /\ Append(q, m)[Len(q) + 1] = m
         /\ \A i \in 1 .. Len(q) : Append(q, m)[i] = q[i]
OBVIOUS

=============================================================================
