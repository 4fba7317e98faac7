------------------------------ MODULE MCJourney ------------------------------
(***************************************************************************)
(* Two trips, one of which ends after midnight, and the feeds that differ  *)
(* in what the code makes of them.  A unit of time is ten minutes.         *)
(***************************************************************************)
EXTENDS Journey

Rows(times) ==
  LET ids == <<"a", "b", "c", "d">>
  IN [i \in DOMAIN times |-> [seq |-> i, id |-> ids[i], time |-> times[i]]]

Near == Rows(<<1, 2, 3, 4>>)
Far == Rows(<<1, 4, 5>>)

\* Four kinds of fields; the trips of a feed of times alone are numbered and
\* dated, or neither.
MCStyles ==
  {s \in Style : /\ s.placed = s.dated
                 /\ s.numbered = s.dated
                 /\ s.dated \/ s.fields = "times"
                 /\ s.corrupt = ~(s.fresh \/ s.repeated \/ s.fields = "trip")
                 /\ s.repeated => ~s.fresh /\ s.fields = "stop"
                 /\ s.fields = "bare" => s.fresh}

\* A feed with faults keeps the stops of the one trip and drops those of the
\* other; the feed that repeats itself and the one of trip delays do one of it.
MCScenarios ==
  {s \in [rows : {Near, Far}, style : MCStyles] :
     /\ ~s.style.fresh => s.style.kept = (s.rows = Far)
     /\ s.style.repeated => s.rows = Far
     /\ s.style.fields = "trip" /\ ~s.style.fresh => s.rows = Near}
=============================================================================
