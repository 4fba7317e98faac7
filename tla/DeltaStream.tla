----------------------------- MODULE DeltaStream -----------------------------
(***************************************************************************)
(* The wire protocol of src/server/src/wire.rs and the merge its two       *)
(* clients share: what a tick sends, what a full sends, and what a row     *)
(* looks like once merged.  Pure operators.                                *)
(*                                                                         *)
(* A row on the server has every field, some of them null.  A row on the   *)
(* wire, or held by a page, is a partial function on the fields: a field   *)
(* that is absent renders as null.  Identity fields are the entry's key    *)
(* and are not among Fields.                                               *)
(***************************************************************************)
EXTENDS Integers, Sequences, Functions

CONSTANTS
  Fields, \* the fields of a row that can change
  NULL    \* a field's null

\* A full has no base.
NoBase == -1

\* The keys of some entries, and the row one of them has.
KeysOf(entries) == {entries[i].key : i \in DOMAIN entries}

RowOf(entries, k) == entries[CHOOSE i \in DOMAIN entries : entries[i].key = k].row

StripNulls(row) == Restrict(row, {f \in DOMAIN row : row[f] # NULL})

\* A row as the server has it: every field, some of them null.
IsRow(row) == row = [f \in Fields |-> row[f]]

\* A board, or a report, as the server has it: whole rows, no two of one key.
IsBoard(board) ==
  /\ Len(board) \in Nat
  /\ board = [i \in 1 .. Len(board) |-> [key |-> board[i].key, row |-> board[i].row]]
  /\ \A i \in DOMAIN board : IsRow(board[i].row)
  /\ \A i, j \in DOMAIN board : board[i].key = board[j].key => i = j

-----------------------------------------------------------------------------
(* A wrong body: nulls stripped from a changed row too.                    *)

DeltaRowWithoutNulls(previous, current) ==
  StripNulls(Restrict(current, {f \in Fields : current[f] # previous[f]}))

-----------------------------------------------------------------------------
(* The server's side.                                                      *)

\* The fields of a known row that differ; a field that became null travels.
DeltaRow(previous, current) ==
  Restrict(current, {f \in Fields : current[f] # previous[f]})

\* An entry of a delta: a row never seen travels whole, without its nulls.
DeltaEntry(previous, entry) ==
  [key |-> entry.key,
   row |-> IF entry.key \in KeysOf(previous)
             THEN DeltaRow(RowOf(previous, entry.key), entry.row)
             ELSE StripNulls(entry.row)]

\* advance on an ordered stream: every row rides, an unchanged one as its key.
OrderedDelta(seq, previous, current) ==
  [seq     |-> seq + 1,
   base    |-> seq,
   entries |-> [i \in DOMAIN current |-> DeltaEntry(previous, current[i])],
   removed |-> {}]

\* key_of: the identity fields, each behind a separator.  No identity field is
\* equal to such a key.
KeyOf(k) == <<k>>

\* advance on an unordered stream: only changed rows ride, each under its place
\* in the report, and the departed ones are named by their keys.
UnorderedDelta(seq, previous, current) ==
  LET rides(entry) == \/ entry.key \notin KeysOf(previous)
                      \/ RowOf(previous, entry.key) # entry.row
      changed == {i \in DOMAIN current : rides(current[i])}
  IN [seq     |-> seq + 1,
      base    |-> seq,
      entries |-> [i \in changed |-> DeltaEntry(previous, current[i])],
      removed |-> {KeyOf(k) : k \in KeysOf(previous) \ KeysOf(current)}]

\* full.
Full(seq, current) ==
  [seq     |-> seq,
   base    |-> NoBase,
   entries |-> [i \in DOMAIN current |->
                  [key |-> current[i].key, row |-> StripNulls(current[i].row)]],
   removed |-> {}]

-----------------------------------------------------------------------------
(* The page's side.                                                        *)

\* The object spread {...old, ...new}.
Merge(old, new) ==
  [f \in DOMAIN old \cup DOMAIN new |-> IF f \in DOMAIN new THEN new[f] ELSE old[f]]

\* What a row shows: absent and null are the same.
Shown(row) == [f \in Fields |-> IF f \in DOMAIN row THEN row[f] ELSE NULL]

ShownAll(entries) ==
  [i \in DOMAIN entries |-> [key |-> entries[i].key, row |-> Shown(entries[i].row)]]
=============================================================================
