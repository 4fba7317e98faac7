-------------------------------- MODULE Agency --------------------------------
(***************************************************************************)
(* What one monitored feed is, src/server/src/agency.rs, and the feeds and *)
(* credentials configured by hand, src/server/src/auth.rs.  Pure operators *)
(* for Agencies.                                                           *)
(*                                                                         *)
(* A config is [slug, name, static, updates, positions, gated, country,    *)
(* location].  A name is split and normalized, [base, paren]; a paren is   *)
(* the sequence of its words.  A URL is [at, with]: an endpoint and the    *)
(* credentials the request carries.  A location is a point of a line.      *)
(***************************************************************************)
EXTENDS Integers, Sequences, SequencesExt

CONSTANTS
  None,    \* an Option's None
  HostOf   \* the host of each endpoint

Known(x) == x # None

\* retain and filter: what is wanted stays, in the order it had.
Those(s, wanted) ==
  LET upto[n \in 0..Len(s)] ==
        IF n = 0 THEN <<>>
        ELSE IF s[n] \in wanted THEN Append(upto[n - 1], s[n]) ELSE upto[n - 1]
  IN upto[Len(s)]

\* dedup: the first occurrence stays.
Deduped(s) ==
  LET firsts == Those([i \in DOMAIN s |-> i], {i \in DOMAIN s : \A j \in 1..(i - 1) : s[j] # s[i]})
  IN [k \in DOMAIN firsts |-> s[firsts[k]]]

Url(endpoint) == [at |-> endpoint, with |-> {}]

HasTripUpdates(config) == config.updates # <<>>
HasVehiclePositions(config) == config.positions # <<>>
\* Unknown means open.
RequiresAuth(config) == config.gated = TRUE

NjTransit ==
  [slug |-> <<"nj_transit_bus">>, name |-> [base |-> "nj transit bus", paren |-> <<>>],
   static |-> Url("getGTFS"), updates |-> <<Url("getTripUpdates")>>,
   positions |-> <<Url("getVehiclePositions")>>, gated |-> FALSE,
   country |-> "US", location |-> 0]

-----------------------------------------------------------------------------
(* auth.rs.  `secrets` are the names keys.env has a value for.  An agency  *)
(* of auth.json is a config without `gated` whose URLs are templates, with *)
(* placeholders as their credentials, and a field `key`, the name of the   *)
(* credential it requires.  Extra static URLs are left out.                *)

\* substitute and substitute_all of every URL: all or nothing.
Resolved(agency, secrets) ==
  \A url \in {agency.static} \cup ToSet(agency.updates) \cup ToSet(agency.positions) :
    url.with \subseteq secrets

AuthedConfig(agency) ==
  [slug |-> agency.slug, name |-> agency.name, static |-> agency.static,
   updates |-> agency.updates, positions |-> agency.positions, gated |-> FALSE,
   country |-> agency.country, location |-> agency.location]

\* A wrong body: an agency is built whether or not its credential is there.
AuthedAgenciesUnchecked(agencies, secrets) ==
  LET built == Those(agencies, {a \in ToSet(agencies) : Resolved(a, secrets)})
  IN [i \in DOMAIN built |-> AuthedConfig(built[i])]

\* authed_agencies: whoever has what it needs is open.
AuthedAgencies(agencies, secrets) ==
  LET built == Those(agencies, {a \in ToSet(agencies) : /\ a.key \in secrets \cup {None}
                                                     /\ Resolved(a, secrets)})
  IN [i \in DOMAIN built |-> AuthedConfig(built[i])]

\* apply: a request to a host of the injection rules carries the rules' secrets.
Applied(url, injections, secrets) ==
  [url EXCEPT !.with =
     @ \cup ({rule.key : rule \in {r \in injections : r.host = HostOf[url.at]}} \cap secrets)]
=============================================================================
