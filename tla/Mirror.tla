------------------------------- MODULE Mirror --------------------------------
(***************************************************************************)
(* What a live page promises its reader, whatever the protocol under it:   *)
(* the server publishes boards one after another, and the page shows one   *)
(* of them, whole, and never an earlier one than it showed before.         *)
(***************************************************************************)
EXTENDS Naturals, Sequences

CONSTANT Boards \* the boards a server may publish

VARIABLES
  published, \* every board published so far
  view,      \* which of them the page shows, 0 before the first
  shown      \* what the page shows

Init ==
  /\ published \in {<<b>> : b \in Boards}
  /\ view = 0
  /\ shown = <<>>

Publish ==
  /\ \E b \in Boards : published' = Append(published, b)
  /\ UNCHANGED <<view, shown>>

Show ==
  /\ view' \in view .. Len(published)
  /\ view' # 0
  /\ shown' = published[view']
  /\ UNCHANGED published

Next == Publish \/ Show

Spec == Init /\ [][Next]_<<published, view, shown>>
=============================================================================
