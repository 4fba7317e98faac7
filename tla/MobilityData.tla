----------------------------- MODULE MobilityData -----------------------------
(***************************************************************************)
(* The MobilityData catalog as src/server/src/catalogs/mobilitydata.rs     *)
(* reads it: rows folded into one config per agency.                       *)
(*                                                                         *)
(* A row is [id, type, entities, url, reference, auth, name, country,      *)
(* location, status], with None for an empty column.                       *)
(***************************************************************************)
EXTENDS Agency

\* The agency a row belongs to.
AgencyOf(row) ==
  IF row.type = "gtfs" \/ ~Known(row.reference) THEN row.id ELSE row.reference

FirstKnown(values) ==
  LET known == Those(values, {v \in ToSet(values) : Known(v)})
  IN IF known = <<>> THEN None ELSE Head(known)

\* The URLs of the realtime rows that serve an entity; an empty list is all.
Serving(rows, entity) ==
  LET serving == Those(rows, {r \in ToSet(rows) :
                                /\ r.type = "gtfs_rt" /\ Known(r.url)
                                /\ r.entities = {} \/ entity \in r.entities})
  IN Deduped([i \in DOMAIN serving |-> serving[i].url])

\* fold, over the rows of one agency: whoever speaks first wins a field.
Build(id, rows) ==
  [slug      |-> <<id>>,
   name      |-> Head(rows).name,
   static    |-> FirstKnown([i \in DOMAIN rows |->
                               IF rows[i].type = "gtfs" THEN rows[i].url ELSE None]),
   updates   |-> Serving(rows, "tu"),
   positions |-> Serving(rows, "vp"),
   gated     |-> FirstKnown([i \in DOMAIN rows |->
                               IF Known(rows[i].auth) THEN rows[i].auth \in {1, 2} ELSE None]),
   country   |-> Head(rows).country,
   location  |-> FirstKnown([i \in DOMAIN rows |-> rows[i].location])]

\* gtfs_status: the last static row of that id.
IsActive(id, rows) ==
  LET own == Those(rows, {r \in ToSet(rows) : r.type = "gtfs" /\ r.id = id})
  IN own # <<>> /\ Last(own).status = "active"

OfAgency(id, rows) == Those(rows, {r \in ToSet(rows) : AgencyOf(r) = id})

\* MobilityDataProvider::new.  The agencies come out of a hash map, in any order.
MobilityAgencies(rows) ==
  LET builds == {Build(id, OfAgency(id, rows)) : id \in {AgencyOf(rows[i]) : i \in DOMAIN rows}}
  IN {b \in builds : /\ Known(b.static)
                     /\ HasTripUpdates(b) \/ IsActive(b.slug[1], rows)}
=============================================================================
