------------------------------ MODULE MCAgencies ------------------------------
(***************************************************************************)
(* A Metro that up to four sources list: the files of the operator, two    *)
(* operators of the Atlas and a row of MobilityData; its first feed may be *)
(* locked, and its schedule and its feeds may be listed more than once.    *)
(***************************************************************************)
EXTENDS Agencies

MCHostOf ==
  [e \in {"getGTFS", "getTripUpdates", "getVehiclePositions",
          "s1", "s2", "s3", "s4", "u1", "v1", "u2", "v2", "u3"} |->
     IF e \in {"u1", "v1"} THEN "api" ELSE "open"]

Metro(paren) == [base |-> "metro", paren |-> paren]

\* What the operator of the server knows: [lock, secrets, injections, hand].
Config(key, static, updates, positions, country) ==
  [slug |-> <<"h">>, name |-> Metro(<<>>), static |-> static, updates |-> updates,
   positions |-> positions, country |-> country, location |-> 0, key |-> key]

WithHeader(static, country) ==
  Config("k1", Url(static), <<Url("u1")>>, <<Url("v1")>>, country)

InPath(endpoint) == [at |-> endpoint, with |-> {"k1"}]

Hands ==
  {[lock |-> None, secrets |-> {}, injections |-> {}, hand |-> <<>>]} \cup
  {[lock |-> "k1", secrets |-> secrets, injections |-> {[host |-> "api", key |-> "k1"]}, hand |-> hand] :
     secrets \in {{}, {"k1"}},
     hand \in {<<>>, <<WithHeader("s4", "US")>>, <<WithHeader("s1", None)>>}} \cup
  {[lock |-> "k1", secrets |-> secrets, injections |-> {},
    hand |-> <<Config(None, Url("s4"), <<InPath("u1")>>, <<InPath("v1")>>, "US")>>] :
     secrets \in {{}, {"k1"}}}

Static(id, words) ==
  [spec |-> "gtfs", words |-> words, token |-> id, usable |-> TRUE, static |-> Url(id),
   updates |-> None, positions |-> None, gated |-> FALSE]

Realtime(id, words, updates, positions, gated) ==
  [spec |-> "gtfs-rt", words |-> words, token |-> id, usable |-> TRUE, static |-> None,
   updates |-> updates, positions |-> positions, gated |-> gated]

Feeds(lock, positions, words) ==
  [id \in {"s1", "s2", "r1", "r2"} |->
     CASE id = "s1" -> Static("s1", {"bus"})
       [] id = "s2" -> Static("s2", {})
       [] id = "r1" -> Realtime("r1", {"bus"}, Url("u1"), positions, Known(lock))
       [] id = "r2" -> Realtime("r2", words, Url("u2"), Url("v2"), FALSE)]

Operator(id, paren, country, location, associated, nested) ==
  [id |-> id, name |-> Metro(paren), country |-> country, location |-> location,
   associated |-> associated, nested |-> nested]

Operators ==
  {<<Operator("A", <<>>, "US", 0, associated, None)>> \o rest :
     associated \in {<<"s1", "r1", "r2">>, <<"s1", "s2", "r1", "r2">>, <<"s1">>},
     rest \in {<<>>, <<Operator("B", <<"north">>, "FR", 2, <<"s2", "r2">>, None)>>,
               <<Operator("B", <<"north">>, "US", 2, <<"r2">>, "s2")>>}}

Row(id, type, entities, url, reference, auth, location, status) ==
  [id |-> id, type |-> type, entities |-> entities, url |-> url, reference |-> reference,
   auth |-> auth, name |-> Metro(<<>>), country |-> "US", location |-> location,
   status |-> status]

Rows(lock) ==
  LET Schedule(url, auth) == Row("m1", "gtfs", {}, url, None, auth, 1, "active")
      Live(url, reference) ==
        Row("m1r", "gtfs_rt", IF url = Url("u3") THEN {"tu"} ELSE {}, url, reference,
            IF url = Url("u1") /\ Known(lock) THEN 2 ELSE 0, None, "active")
      Other(status) == Row("m2", "gtfs", {}, Url("s2"), None, None, 2, status)
  IN {<<>>, <<Live(Url("u1"), None)>>, <<Schedule(Url("s1"), None), Live(Url("u1"), "m1")>>} \cup
     {<<Schedule(Url("s3"), auth), Live(url, "m1")>> : auth \in {None, 0}, url \in {Url("u1"), Url("u3")}} \cup
     {<<Schedule(Url("s3"), 0), Live(Url("u3"), "m1"), Other(status)>> : status \in {"active", "inactive"}}

MCWorlds ==
  UNION {{[secrets |-> h.secrets, injections |-> h.injections, hand |-> h.hand,
           lock |-> [e \in DOMAIN HostOf |-> IF HostOf[e] = "api" THEN h.lock ELSE None],
           feeds |-> Feeds(h.lock, positions, words), operators |-> operators, rows |-> rows] :
            positions \in {Url("v1"), None}, words \in {{"bus"}, {"rail"}, {}},
            operators \in Operators, rows \in Rows(h.lock)} : h \in Hands}

MCKeywords == <<"rail", "bus">>
=============================================================================
