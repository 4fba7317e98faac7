------------------------------- MODULE Agencies -------------------------------
(***************************************************************************)
(* The start of the server: collect_agencies in src/server/src/main.rs     *)
(* draws the feeds from what is configured by hand and from two catalogs,  *)
(* and removes those that are duplicates; Scheduler::new then decides      *)
(* which are polled.  Either catalog may fail to load.                     *)
(***************************************************************************)
EXTENDS Transitland, MobilityData

CONSTANTS
  Worlds,  \* [secrets, injections, hand, feeds, operators, rows, lock]: the
           \* files of the operator, what the catalogs say, and the key that
           \* each endpoint really asks for
  RADIUS   \* DEDUP_RADIUS_KM

ASSUME AgenciesAssumption == RADIUS \in Nat /\ None \notin {1, 2}

IsList(s) == s \in Seq(ToSet(s))

\* What a poll of a feed asks for.
Requests(config) == ToSet(config.updates) \cup ToSet(config.positions)

Urls(config) == {config.static} \cup Requests(config)

IsUrl(url) == url.at \in DOMAIN HostOf /\ url = [at |-> url.at, with |-> url.with]

\* A catalog's URL, or None, carries nothing of ours.
IsPublic(url) == Known(url) => IsUrl(url) /\ url.with = {}

IsWorld(w) ==
  /\ IsList(w.hand) /\ IsList(w.operators) /\ IsList(w.rows)
  /\ \A a \in ToSet(w.hand) :
       IsList(a.updates) /\ IsList(a.positions) /\ \A url \in Urls(a) : IsUrl(url)
  /\ \A o \in ToSet(w.operators) : IsList(o.associated)
  /\ \A id \in DOMAIN w.feeds :
       LET f == w.feeds[id]
       IN IsPublic(f.static) /\ IsPublic(f.updates) /\ IsPublic(f.positions)
  /\ \A r \in ToSet(w.rows) : IsPublic(r.url)

\* What serde and the catalogs' parsers let through.
ASSUME WorldsAssumption ==
  /\ \A url \in Urls(NjTransit) : url.at \in DOMAIN HostOf
  /\ \A w \in Worlds : IsWorld(w)

VARIABLES
  world,
  stage,   \* what is next
  todo,    \* `configs`, as far as the pass has not come
  kept,    \* what the pass has kept: `configs`, then `deduped`
  seen,    \* seen_slugs, seen_static and seen_realtime
  listed,  \* history: what the sources listed
  through  \* history: what the first pass kept

vars == <<world, stage, todo, kept, seen, listed, through>>

InScope(config) == config.country \in {"US", "CA", "MX"}

\* configs.retain.
InScopeOf(configs) == Those(configs, {c \in ToSet(configs) : InScope(c)})

Shares(a, b) ==
  \/ a.slug = b.slug
  \/ a.static = b.static
  \/ ToSet(a.updates) \cap ToSet(b.updates) # {}

-----------------------------------------------------------------------------
(* Identity *)

Usefulness(config) ==
  IF ~HasTripUpdates(config) THEN 0 ELSE IF RequiresAuth(config) THEN 1 ELSE 2

SameName(a, b) == a.name.base = b.name.base /\ a.country = b.country

SameAgency(a, b) ==
  /\ SameName(a, b)
  /\ a.name.paren = <<>> \/ b.name.paren = <<>> \/ a.name.paren = b.name.paren
  /\ Known(a.location) /\ Known(b.location)
  /\ a.location - b.location \in -RADIUS..RADIUS

-----------------------------------------------------------------------------
Init ==
  /\ world \in Worlds
  /\ stage = "transitland"
  /\ todo = <<NjTransit>> \o AuthedAgencies(world.hand, world.secrets)
  /\ kept = <<>> /\ listed = <<>> /\ through = <<>>
  /\ seen = [slugs |-> {}, statics |-> {}, updates |-> {}]

\* A wrong step: the catalog's feeds come before those configured by hand.
LoadTransitlandFirst ==
  /\ stage = "transitland" /\ stage' = "mobilitydata"
  /\ todo' = ParseAtlas(world.operators, world.feeds) \o todo
  /\ UNCHANGED <<world, kept, seen, listed, through>>

LoadTransitland ==
  /\ stage = "transitland" /\ stage' = "mobilitydata"
  /\ todo' = todo \o ParseAtlas(world.operators, world.feeds)
  /\ UNCHANGED <<world, kept, seen, listed, through>>

\* The hash map gives the agencies in any order.
LoadMobilityData ==
  /\ stage = "mobilitydata" /\ stage' = "scope"
  /\ \E agencies \in SetToSeqs(MobilityAgencies(world.rows)) : todo' = todo \o agencies
  /\ UNCHANGED <<world, kept, seen, listed, through>>

\* A catalog that fails to load is skipped.
LoadFails ==
  /\ \/ stage = "transitland" /\ stage' = "mobilitydata"
     \/ stage = "mobilitydata" /\ stage' = "scope"
  /\ UNCHANGED <<world, todo, kept, seen, listed, through>>

\* A wrong step: the scope is not applied before the passes.
ScopeLater ==
  /\ stage = "scope" /\ stage' = "exact"
  /\ listed' = todo
  /\ UNCHANGED <<world, todo, kept, seen, through>>

Scope ==
  /\ stage = "scope" /\ stage' = "exact"
  /\ listed' = todo
  /\ todo' = InScopeOf(todo)
  /\ UNCHANGED <<world, kept, seen, through>>

-----------------------------------------------------------------------------
(* Pass 1: the same feed. *)

\* A wrong body: only the trip updates tell feeds apart.
SeenOnAWire(config) == ToSet(config.updates) \cap seen.updates # {}

Seen(config) ==
  \/ config.slug \in seen.slugs
  \/ config.static \in seen.statics
  \/ ToSet(config.updates) \cap seen.updates # {}

Claim ==
  /\ stage = "exact" /\ todo # <<>> /\ ~Seen(Head(todo))
  /\ kept' = Append(kept, Head(todo))
  /\ seen' = [slugs   |-> seen.slugs \cup {Head(todo).slug},
              statics |-> seen.statics \cup {Head(todo).static},
              updates |-> seen.updates \cup ToSet(Head(todo).updates)]
  /\ todo' = Tail(todo)
  /\ UNCHANGED <<world, stage, listed, through>>

Drop ==
  /\ stage = "exact" /\ todo # <<>> /\ Seen(Head(todo))
  /\ todo' = Tail(todo)
  /\ UNCHANGED <<world, stage, kept, seen, listed, through>>

PassTwo ==
  /\ stage = "exact" /\ todo = <<>>
  /\ stage' = "fuzzy"
  /\ todo' = kept /\ kept' = <<>> /\ through' = kept
  /\ UNCHANGED <<world, seen, listed>>

-----------------------------------------------------------------------------
(* Pass 2: the same agency. *)

Same(config) == {i \in DOMAIN kept : SameAgency(kept[i], config)}

First(indices) == CHOOSE i \in indices : \A j \in indices : i <= j

Keep ==
  /\ stage = "fuzzy" /\ todo # <<>> /\ Same(Head(todo)) = {}
  /\ kept' = Append(kept, Head(todo))
  /\ todo' = Tail(todo)
  /\ UNCHANGED <<world, stage, seen, listed, through>>

\* A wrong step: whoever comes later wins.
ReplaceAny ==
  /\ stage = "fuzzy" /\ todo # <<>> /\ Same(Head(todo)) # {}
  /\ kept' = [kept EXCEPT ![First(Same(Head(todo)))] = Head(todo)]
  /\ todo' = Tail(todo)
  /\ UNCHANGED <<world, stage, seen, listed, through>>

Replace ==
  /\ stage = "fuzzy" /\ todo # <<>> /\ Same(Head(todo)) # {}
  /\ Usefulness(Head(todo)) > Usefulness(kept[First(Same(Head(todo)))])
  /\ kept' = [kept EXCEPT ![First(Same(Head(todo)))] = Head(todo)]
  /\ todo' = Tail(todo)
  /\ UNCHANGED <<world, stage, seen, listed, through>>

Merge ==
  /\ stage = "fuzzy" /\ todo # <<>> /\ Same(Head(todo)) # {}
  /\ Usefulness(Head(todo)) <= Usefulness(kept[First(Same(Head(todo)))])
  /\ todo' = Tail(todo)
  /\ UNCHANGED <<world, stage, kept, seen, listed, through>>

Start ==
  /\ stage = "fuzzy" /\ todo = <<>>
  /\ stage' = "polling"
  /\ UNCHANGED <<world, todo, kept, seen, listed, through>>

Next ==
  \/ LoadTransitland \/ LoadMobilityData \/ LoadFails \/ Scope
  \/ Claim \/ Drop \/ PassTwo
  \/ Keep \/ Replace \/ Merge \/ Start

Spec == Init /\ [][Next]_vars

\* The state each source starts in and, Active or not, keeps.
SourceState(config) ==
  CASE ~HasTripUpdates(config) -> "NoRealtime"
    [] HasTripUpdates(config) /\ RequiresAuth(config) -> "RequiresAuth"
    [] HasTripUpdates(config) /\ ~RequiresAuth(config) /\ ~HasVehiclePositions(config)
         -> "NoVehiclePositions"
    [] OTHER -> "Active"

Polled == {kept[i] : i \in {j \in DOMAIN kept : stage = "polling" /\ SourceState(kept[j]) = "Active"}}
-----------------------------------------------------------------------------
(* Properties *)

TypeOK ==
  /\ stage \in {"transitland", "mobilitydata", "scope", "exact", "fuzzy", "polling"}
  /\ \A c \in ToSet(todo) \cup ToSet(kept) :
       /\ Urls(c) \subseteq [at : DOMAIN HostOf, with : SUBSET world.secrets]
       /\ c.gated \in BOOLEAN \cup {None}

\* No two sources that are polled, or shown, are the same feed: they differ in
\* slug, in schedule and in every trip updates URL, after either pass.
FeedsAreDistinct ==
  \A i, j \in DOMAIN kept : i # j => ~Shares(kept[i], kept[j])

\* A source in scope that the first pass removes gave way to an earlier one that
\* shares its feed, is in scope itself and has come through: nothing is lost to a
\* source that is then removed in its turn.
LostToAnEarlierOne ==
  stage \in {"fuzzy", "polling"} =>
    \A i \in DOMAIN listed :
      InScope(listed[i]) /\ listed[i] \notin ToSet(through)
        => \E j \in 1..(i - 1) : /\ Shares(listed[i], listed[j])
                                  /\ InScope(listed[j])
                                  /\ listed[j] \in ToSet(through)

\* The second pass does not trade a feed with trip updates for one without, nor
\* an open one for a gated one: whatever came through the first pass is there as
\* a source of its name and country that is at least as useful, however many
\* sources took each other's place on the way.
UsefulnessIsKept ==
  stage = "polling" =>
    \A c \in ToSet(through) :
      \E k \in ToSet(kept) : SameName(c, k) /\ Usefulness(k) >= Usefulness(c)

HandConfigured == <<NjTransit>> \o AuthedAgencies(world.hand, world.secrets)

\* A source configured by hand whose credentials are there is never lost to what
\* the catalogs say of the same agency.
HandConfiguredWins ==
  stage = "polling" =>
    \A i \in DOMAIN HandConfigured :
      LET h == HandConfigured[i]
      IN /\ InScope(h) /\ HasTripUpdates(h)
         /\ \A j \in 1..(i - 1) : ~Shares(h, HandConfigured[j]) /\ ~SameAgency(HandConfigured[j], h)
         => h \in ToSet(kept)

\* The request carries the key that its endpoint asks for.
Signed(url) ==
  world.lock[url.at] \in {None} \cup Applied(url, world.injections, world.secrets).with

\* A source whose rows in the MobilityData catalog do not agree whether it is
\* open: what the first of them says counts for all.
OfTwoMinds(config) ==
  \E r, s \in ToSet(world.rows) :
    /\ <<AgencyOf(r)>> = config.slug /\ AgencyOf(s) = AgencyOf(r)
    /\ Known(r.auth) /\ Known(s.auth) /\ (r.auth \in {1, 2}) # (s.auth \in {1, 2})

\* What is listed is so: a key given by hand opens the endpoint it is given for,
\* and what a catalog lists without an authorization asks for none.
Truthful ==
  LET Open(url) == world.lock[url.at] = None
      Rules(url) == {rule.key : rule \in {r \in world.injections : r.host = HostOf[url.at]}}
  IN /\ \A url \in Requests(NjTransit) : Open(url)
     /\ \A a \in ToSet(world.hand) : \A url \in Requests(a) :
          world.lock[url.at] \in {None} \cup url.with \cup ({a.key} \cap Rules(url))
     /\ \A id \in DOMAIN world.feeds :
          LET f == world.feeds[id]
          IN (f.spec = "gtfs-rt" /\ ~f.gated)
               => \A url \in {f.updates, f.positions} \ {None} : Open(url)
     /\ \A r \in ToSet(world.rows) :
          r.type = "gtfs_rt" /\ r.auth \notin {1, 2} /\ Known(r.url) => Open(r.url)

\* If the files and the catalogs are truthful, no endpoint is asked every few
\* seconds for what it will not give: it is open, or the request carries its key.
SignedOrOpen ==
  Truthful => \A c \in Polled : OfTwoMinds(c) \/ \A url \in Requests(c) : Signed(url)

\* The modes of an operator with a schedule of its own for each share none: none
\* of them is removed as a copy of another.
SiblingsAreDistinct ==
  \A o \in DOMAIN world.operators :
    LET groups == Decompose(world.operators[o], world.feeds)
        statics == Statics(world.operators[o], world.feeds)
        OfItsOwn == \A i, j \in DOMAIN statics : i # j => statics[i].static # statics[j].static
    IN OfItsOwn /\ Len(groups) <= Len(statics)
         => \A i, j \in DOMAIN groups : i # j => groups[i].static # groups[j].static

\* agency.rs: a feed "behind authentication we don't have" is shown and never
\* polled.
GatedIsNeverPolled ==
  \A c \in Polled : \A url \in Requests(c) :
    (\E r \in ToSet(world.rows) : r.url = url /\ r.auth \in {1, 2}) => Signed(url)
=============================================================================
