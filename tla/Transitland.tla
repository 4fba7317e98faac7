------------------------------ MODULE Transitland ------------------------------
(***************************************************************************)
(* The Transitland Atlas as src/server/src/catalogs/transitland.rs reads   *)
(* it: operators and the feeds they draw from, turned into configs.        *)
(*                                                                         *)
(* A feed is [spec, words, token, usable, static, updates, positions,      *)
(* gated]: the mode keywords its id contains, the last segment of the id,  *)
(* its URLs or None, and whether it has an authorization.  An operator is  *)
(* [id, name, country, location, associated, nested]: where its geohash    *)
(* lies, the feeds it names, and the one it is nested in.                  *)
(***************************************************************************)
EXTENDS Agency

CONSTANT MODE_KEYWORDS  \* the most specific first

\* mode_key.
ModeKey(feed) ==
  LET named == Those(MODE_KEYWORDS, feed.words)
  IN IF named = <<>> THEN None ELSE Head(named)

StaticModeToken(feed) == IF Known(ModeKey(feed)) THEN ModeKey(feed) ELSE feed.token

AssociatedFeeds(op, feeds) ==
  LET ids == op.associated \o IF Known(op.nested) THEN <<op.nested>> ELSE <<>>
      found == Those(ids, DOMAIN feeds)
  IN [i \in DOMAIN found |-> feeds[found[i]]]

Statics(op, feeds) ==
  LET associated == AssociatedFeeds(op, feeds)
  IN Those(associated, {f \in ToSet(associated) : f.spec = "gtfs" /\ f.usable /\ Known(f.static)})

Realtimes(op, feeds) ==
  LET associated == AssociatedFeeds(op, feeds)
  IN Those(associated, {f \in ToSet(associated) : f.spec = "gtfs-rt" /\ Known(f.updates)})

\* A wrong body: a static that another mode has already claimed is taken again.
PickStaticAgain(statics, key, claimed) ==
  LET Affinity(i) == IF key \in statics[i].words THEN 1 ELSE 0
  IN CHOOSE i \in DOMAIN statics : \A j \in DOMAIN statics :
       Affinity(i) > Affinity(j) \/ (Affinity(i) = Affinity(j) /\ i <= j)

\* pick_static: the unclaimed one with the best affinity, the first on ties, and
\* when all are claimed the best of all.
PickStatic(statics, key, claimed) ==
  LET Affinity(i) == IF key \in statics[i].words THEN 1 ELSE 0
      free == DOMAIN statics \ claimed
      allowed == IF free = {} THEN DOMAIN statics ELSE free
  IN CHOOSE i \in allowed : \A j \in allowed :
       Affinity(i) > Affinity(j) \/ (Affinity(i) = Affinity(j) /\ i <= j)

\* A wrong body: a feed without vehicle positions adds an empty URL.
PositionsOrNot(used) == [i \in DOMAIN used |-> used[i].positions]

Positions(used) ==
  Those([i \in DOMAIN used |-> used[i].positions],
        {used[i].positions : i \in {j \in DOMAIN used : Known(used[j].positions)}})

\* One mode's slice of an operator; its gated feeds count only if all are.
Group(key, statics, realtimes, claimed) ==
  LET chosen == PickStatic(statics, key, claimed)
      ofMode == Those(realtimes, {f \in ToSet(realtimes) : ModeKey(f) = key})
      open   == Those(ofMode, {f \in ToSet(ofMode) : ~f.gated})
      used   == IF open = <<>> THEN ofMode ELSE open
  IN [label     |-> IF Known(key) THEN key ELSE StaticModeToken(statics[chosen]),
      index     |-> chosen,
      static    |-> statics[chosen].static,
      updates   |-> [i \in DOMAIN used |-> used[i].updates],
      positions |-> Positions(used),
      gated     |-> open = <<>>]

\* The modes of an operator's realtime feeds, in the order first seen.
Modes(realtimes) == Deduped([i \in DOMAIN realtimes |-> ModeKey(realtimes[i])])

Claimed(groups) == {groups[i].index : i \in DOMAIN groups}

\* A slice per mode, each with what those before it leave unclaimed.
Groups(modes, statics, realtimes) ==
  LET upto[n \in 0..Len(modes)] ==
        IF n = 0 THEN <<>>
        ELSE Append(upto[n - 1], Group(modes[n], statics, realtimes, Claimed(upto[n - 1])))
  IN upto[Len(modes)]

Decompose(op, feeds) ==
  LET statics == Statics(op, feeds)
      realtimes == Realtimes(op, feeds)
  IN IF statics = <<>> \/ realtimes = <<>> THEN <<>>
     ELSE Groups(Modes(realtimes), statics, realtimes)

\* build_config; the label goes into the name's parenthetical.
BuildConfig(op, label, static, updates, positions, gated) ==
  LET suffix == IF Known(label) THEN <<label>> ELSE <<>>
  IN [slug |-> <<op.id>> \o suffix,
      name |-> [op.name EXCEPT !.paren = @ \o suffix],
      static |-> static, updates |-> updates, positions |-> positions, gated |-> gated,
      country |-> op.country, location |-> op.location]

\* An operator's slices, as [op, group, label].
Slices(op, feeds) ==
  LET groups == Decompose(op, feeds)
  IN [j \in DOMAIN groups |->
        [op |-> op, group |-> groups[j],
         label |-> IF Len(groups) > 1 THEN groups[j].label ELSE None]]

SliceConfig(s) ==
  BuildConfig(s.op, s.label, s.group.static, s.group.updates, s.group.positions, s.group.gated)

\* parse_atlas, pass 1: a slice without any URL that is new is skipped.
Pollable(slices) ==
  LET Polls(configs) == UNION {ToSet(configs[i].updates) : i \in DOMAIN configs}
      upto[n \in 0..Len(slices)] ==
        IF n = 0 THEN <<>>
        ELSE IF ToSet(slices[n].group.updates) \subseteq Polls(upto[n - 1]) THEN upto[n - 1]
        ELSE Append(upto[n - 1], SliceConfig(slices[n]))
  IN upto[Len(slices)]

StaticOnly(op, feeds) ==
  BuildConfig(op, None, Statics(op, feeds)[1].static, <<>>, <<>>, None)

\* Pass 2: the operators without realtime, by their first static, if it is new.
ParseAtlas(operators, feeds) ==
  LET pollable == Pollable(FlattenSeq([i \in DOMAIN operators |-> Slices(operators[i], feeds)]))
      upto[n \in 0..Len(operators)] ==
        IF n = 0 THEN pollable
        ELSE IF \/ Realtimes(operators[n], feeds) # <<>> \/ Statics(operators[n], feeds) = <<>>
                \/ \E i \in DOMAIN upto[n - 1] :
                     upto[n - 1][i].static = Statics(operators[n], feeds)[1].static
          THEN upto[n - 1]
          ELSE Append(upto[n - 1], StaticOnly(operators[n], feeds))
  IN upto[Len(operators)]
=============================================================================
