-------------------------- MODULE TripHistory_proofs --------------------------
(***************************************************************************)
(* Proofs about TripHistory, for every value of its constants.  The        *)
(* inductive invariant says what each track remembers of its run, and that *)
(* a trip without a track has either no run or one that has gone stale: it *)
(* is what makes the code's six fields enough.                             *)
(***************************************************************************)
EXTENDS TripHistory, TLAPS

Latest(r) == r[Len(r)]

\* What a track remembers of the run it stands for.
Remembers(track, r) ==
  /\ r # <<>>
  /\ track.born_at = r[1].at
  /\ track.birth_delay = r[1].delay
  /\ track.last_seen = Latest(r).at
  /\ track.last_delay = Latest(r).delay
  /\ \A i \in 1 .. Len(r) : r[i].sequence <= track.max_sequence
  /\ \E i \in 1 .. Len(r) : r[i].sequence = track.max_sequence
  /\ track.credible => Honest(r)
  /\ (Honest(r) /\ NoWrap(r)) => track.credible

\* A run nobody remembers is over: its last sighting is too old to extend.
Over(r, at) == r = <<>> \/ at - Latest(r).at > ABSENCE_RESET

TripInv(s, t) ==
  /\ t \in DOMAIN tracks[s] =>
       Remembers(tracks[s][t], run[s][t]) /\ Latest(run[s][t]).at <= polled[s]
  /\ t \notin DOMAIN tracks[s] => Over(run[s][t], polled[s])

IInv ==
  /\ TypeOK
  /\ \A s \in Sources : polled[s] <= now
  /\ \A s \in Sources : \A t \in Trips : TripInv(s, t)
  /\ \A s \in Sources : \A t \in credited[s] : tracks[s][t].credible

-----------------------------------------------------------------------------
(* Arithmetic and sequences.                                               *)

\* The u32 wrap of rule 3 only ever lowers the left side, and leaves it alone
\* below the width.
LEMMA ModBelow ==
  ASSUME NEW n \in Nat, NEW m \in Nat \ {0}
  PROVE  n % m <= n /\ (n < m => n % m = n)
BY Z3

\* A stop sequence, missing or not, is an integer.
LEMMA SequenceIsInt ==
  \A q \in StopSequence \cup {NoSequence} : q \in Int
BY TripTrackAssumption DEF StopSequence, NoSequence

\* Appending keeps every element and adds one at the end.
LEMMA AppendAt ==
  ASSUME NEW r \in Seq(Sighting), NEW x \in Sighting
  PROVE  /\ Append(r, x) \in Seq(Sighting)
         /\ Append(r, x) # <<>>
         /\ Len(Append(r, x)) = Len(r) + 1
         /\ Len(r) \in Nat
         /\ Append(r, x)[Len(r) + 1] = x
         /\ \A i \in 1 .. Len(r) : Append(r, x)[i] = r[i] /\ r[i] \in Sighting
OBVIOUS

-----------------------------------------------------------------------------
(* What one observation does to a track and its run.                       *)

\* A trip born by an observation remembers the run of that one sighting.
LEMMA BornRemembers ==
  ASSUME NEW o \in Observation, NEW at \in Nat
  PROVE  /\ Born(o, at) \in Track
         /\ <<Seen(o, at)>> \in Seq(Sighting)
         /\ Remembers(Born(o, at), <<Seen(o, at)>>)
         /\ Latest(<<Seen(o, at)>>).at = at
<1> DEFINE r == <<Seen(o, at)>>
<1>1. Seen(o, at) \in Sighting
  BY DEF Observation, Sighting, Seen
<1>2. r \in Seq(Sighting) /\ Len(r) = 1 /\ r[1] = Seen(o, at) /\ r # <<>>
  BY <1>1
<1>3. Born(o, at) \in Track
  BY TripTrackAssumption DEF Born, Track, Observation
<1>4. GrowthRule(r) /\ DirectionRule(r)
  BY <1>2 DEF GrowthRule, DirectionRule
<1>5. Honest(r) <=> o.delay <= CREDIBLE_BIRTH_DELAY
  BY <1>2, <1>4 DEF Honest, BirthRule, Seen
<1>6. Remembers(Born(o, at), r)
  <2>1. /\ Born(o, at).born_at = r[1].at /\ Born(o, at).birth_delay = r[1].delay
        /\ Born(o, at).last_seen = r[1].at /\ Born(o, at).last_delay = r[1].delay
        /\ Born(o, at).max_sequence = r[1].sequence
        /\ Born(o, at).credible <=> o.delay <= CREDIBLE_BIRTH_DELAY
    BY <1>2 DEF Born, Seen
  <2>2. \A i \in 1 .. Len(r) : i = 1
    BY <1>2
  <2>3. r[1].sequence <= r[1].sequence
    BY <1>1, <1>2, TripTrackAssumption DEF Sighting, StopSequence, NoSequence
  <2>4. 1 \in 1 .. Len(r) /\ Latest(r) = r[1]
    BY <1>2 DEF Latest
  <2>5. QED
    BY <1>2, <1>5, <2>1, <2>2, <2>3, <2>4 DEF Remembers
<1>7. QED BY <1>2, <1>3, <1>6 DEF Latest, Seen

\* A run extended by one sighting is honest exactly if it was and the sighting
\* passes the rules against what the track remembers (short of the wrap).
LEMMA HonestStep ==
  ASSUME NEW track \in Track, NEW r \in Seq(Sighting), Remembers(track, r),
         NEW o \in Observation, NEW at \in Nat
  PROVE  LET e == Append(r, Seen(o, at))
             passes == /\ WithinStep(track, o, at)
                       /\ WithinLife(track, o, at)
                       /\ MovingForward(track, o)
         IN /\ (Honest(r) /\ passes) => Honest(e)
            /\ (Honest(e) /\ NoWrap(e)) => (Honest(r) /\ NoWrap(r) /\ passes)
<1> DEFINE x == Seen(o, at)
           e == Append(r, x)
           n == Len(r)
<1>1. x \in Sighting /\ x.at = at /\ x.delay = o.delay /\ x.sequence = o.sequence
  BY DEF Observation, Sighting, Seen
<1>2. /\ e \in Seq(Sighting) /\ e # <<>> /\ Len(e) = n + 1 /\ n \in Nat
      /\ e[n + 1] = x
      /\ \A i \in 1 .. n : e[i] = r[i] /\ r[i] \in Sighting
  BY <1>1, AppendAt
<1>3. n >= 1 /\ e[1] = r[1] /\ e[n] = r[n] /\ n \in 1 .. n /\ 1 \in 1 .. n
  BY <1>2 DEF Remembers
<1>4. BirthRule(e) <=> BirthRule(r)
  BY <1>3 DEF BirthRule
<1>5. GrowthRule(e) <=> GrowthRule(r) /\ WithinStep(track, o, at) /\ WithinLife(track, o, at)
  <2>1. GrowthRule(e) => GrowthRule(r)
    BY <1>2, <1>3 DEF GrowthRule
  <2>2. GrowthRule(e) => WithinStep(track, o, at) /\ WithinLife(track, o, at)
    <3>1. HAVE GrowthRule(e)
    <3>2. n + 1 \in 2 .. Len(e) /\ (n + 1) - 1 = n
      BY <1>2, <1>3
    <3>3. /\ e[n + 1].delay <= e[n].delay + (e[n + 1].at - e[n].at) + JUMP_SLACK
          /\ e[n + 1].delay <= e[1].delay + (e[n + 1].at - e[1].at) + JUMP_SLACK
      BY <3>1, <3>2 DEF GrowthRule
    <3>4. QED
      BY <3>3, <1>1, <1>2, <1>3 DEF WithinStep, WithinLife, Remembers, Latest
  <2>3. GrowthRule(r) /\ WithinStep(track, o, at) /\ WithinLife(track, o, at) => GrowthRule(e)
    <3>1. SUFFICES ASSUME GrowthRule(r), WithinStep(track, o, at), WithinLife(track, o, at),
                          NEW j \in 2 .. Len(e)
                   PROVE  /\ e[j].delay <= e[j - 1].delay + (e[j].at - e[j - 1].at) + JUMP_SLACK
                          /\ e[j].delay <= e[1].delay + (e[j].at - e[1].at) + JUMP_SLACK
      BY DEF GrowthRule
    <3>2. CASE j = n + 1
      <4>1. e[j] = x /\ e[j - 1] = r[n]
        BY <3>2, <1>2, <1>3
      <4>2. QED
        BY <4>1, <3>1, <1>1, <1>3 DEF WithinStep, WithinLife, Remembers, Latest
    <3>3. CASE j \in 2 .. n
      <4>1. e[j] = r[j] /\ e[j - 1] = r[j - 1] /\ e[1] = r[1]
        BY <3>3, <1>2, <1>3
      <4>2. QED
        BY <4>1, <3>1, <3>3 DEF GrowthRule
    <3>4. QED BY <3>2, <3>3, <1>2
  <2>4. QED BY <2>1, <2>2, <2>3
<1>6. DirectionRule(e) => DirectionRule(r)
  BY <1>2 DEF DirectionRule
<1>7. DirectionRule(r) /\ MovingForward(track, o) => DirectionRule(e)
  <2>1. SUFFICES ASSUME DirectionRule(r), MovingForward(track, o),
                        NEW i \in 1 .. Len(e), NEW j \in 1 .. Len(e), i < j,
                        e[i].sequence # NoSequence, e[j].sequence # NoSequence
                 PROVE  e[j].sequence + SEQ_TOLERANCE >= e[i].sequence
    BY DEF DirectionRule
  <2>2. i \in 1 .. n /\ e[i] = r[i] /\ r[i] \in Sighting
    BY <2>1, <1>2
  <2>3. CASE j = n + 1
    <3>1. /\ o.sequence \in StopSequence
          /\ r[i].sequence \in StopSequence
          /\ r[i].sequence <= track.max_sequence
      BY <2>1, <2>2, <2>3, <1>1, <1>2 DEF Remembers, Observation, Sighting
    <3>2. track.max_sequence # NoSequence /\ track.max_sequence \in Int
      BY <3>1, TripTrackAssumption DEF Track, StopSequence, NoSequence
    <3>3. (o.sequence + SEQ_TOLERANCE) % U32 >= track.max_sequence
      BY <3>1, <3>2, <2>1, TripTrackAssumption DEF MovingForward, StopSequence, NoSequence
    <3>4. (o.sequence + SEQ_TOLERANCE) % U32 <= o.sequence + SEQ_TOLERANCE
          /\ (o.sequence + SEQ_TOLERANCE) % U32 \in Int
      <4>1. o.sequence + SEQ_TOLERANCE \in Nat /\ U32 \in Nat \ {0}
        BY <3>1, TripTrackAssumption DEF StopSequence
      <4>2. QED BY <4>1, ModBelow
    <3>5. o.sequence + SEQ_TOLERANCE \in Int /\ r[i].sequence \in Int
      BY <3>1, TripTrackAssumption DEF StopSequence
    <3>6. o.sequence + SEQ_TOLERANCE >= r[i].sequence
      <4> DEFINE wrapped == (o.sequence + SEQ_TOLERANCE) % U32
                 plain == o.sequence + SEQ_TOLERANCE
      <4>1. wrapped >= track.max_sequence /\ wrapped <= plain /\ wrapped \in Int /\ plain \in Int
        BY <3>3, <3>4, <3>5
      <4> HIDE DEF wrapped, plain
      <4>2. plain >= r[i].sequence
        BY <4>1, <3>1, <3>2, <3>5
      <4>3. QED BY <4>2 DEF plain
    <3>7. e[j].sequence = o.sequence /\ e[i].sequence = r[i].sequence
      BY <2>2, <2>3, <1>1, <1>2
    <3>8. QED BY <3>6, <3>7
  <2>4. CASE j \in 1 .. n
    <3>1. e[j] = r[j]
      BY <2>4, <1>2
    <3>2. QED BY <3>1, <2>1, <2>2, <2>4 DEF DirectionRule
  <2>5. QED BY <2>3, <2>4, <1>2
<1>8. DirectionRule(e) /\ NoWrap(e) => MovingForward(track, o)
  <2>1. SUFFICES ASSUME DirectionRule(e), NoWrap(e),
                        o.sequence # NoSequence, track.max_sequence # NoSequence
                 PROVE  (o.sequence + SEQ_TOLERANCE) % U32 >= track.max_sequence
    BY DEF MovingForward
  <2>2. PICK i \in 1 .. n : r[i].sequence = track.max_sequence
    BY DEF Remembers
  <2>3. /\ i \in 1 .. Len(e) /\ n + 1 \in 1 .. Len(e) /\ i < n + 1
        /\ e[i] = r[i] /\ e[n + 1] = x
    BY <2>2, <1>2
  <2>4. o.sequence + SEQ_TOLERANCE >= track.max_sequence
    BY <2>1, <2>2, <2>3, <1>1 DEF DirectionRule
  <2>5. o.sequence + SEQ_TOLERANCE < U32
    BY <2>1, <2>3, <1>1 DEF NoWrap
  <2>6. o.sequence + SEQ_TOLERANCE \in Nat /\ U32 \in Nat \ {0}
    BY <2>1, TripTrackAssumption DEF Observation, StopSequence
  <2>7. QED BY <2>4, <2>5, <2>6, ModBelow
<1>9. NoWrap(e) => NoWrap(r)
  BY <1>2 DEF NoWrap
<1>10. r # <<>>
  BY DEF Remembers
<1>11. QED
  BY <1>2, <1>4, <1>5, <1>6, <1>7, <1>8, <1>9, <1>10 DEF Honest

\* Observing keeps what a track remembers of its run.
LEMMA ObserveRemembers ==
  ASSUME NEW track \in Track, NEW r \in Seq(Sighting), Remembers(track, r),
         NEW o \in Observation, NEW at \in Nat
  PROVE  /\ Observe(track, o, at) \in Track
         /\ Append(r, Seen(o, at)) \in Seq(Sighting)
         /\ Remembers(Observe(track, o, at), Append(r, Seen(o, at)))
         /\ Latest(Append(r, Seen(o, at))).at = at
<1> DEFINE x == Seen(o, at)
           e == Append(r, x)
           n == Len(r)
           after == Observe(track, o, at)
           passes == /\ WithinStep(track, o, at)
                     /\ WithinLife(track, o, at)
                     /\ MovingForward(track, o)
<1>1. x \in Sighting /\ x.at = at /\ x.delay = o.delay /\ x.sequence = o.sequence
  BY DEF Observation, Sighting, Seen
<1>2. /\ e \in Seq(Sighting) /\ e # <<>> /\ Len(e) = n + 1 /\ n \in Nat
      /\ e[n + 1] = x
      /\ \A i \in 1 .. n : e[i] = r[i] /\ r[i] \in Sighting
  BY <1>1, AppendAt
<1>3. n >= 1 /\ e[1] = r[1]
  BY <1>2 DEF Remembers
<1>4. /\ after.born_at = track.born_at /\ after.birth_delay = track.birth_delay
      /\ after.last_seen = at /\ after.last_delay = o.delay
      /\ after.max_sequence = Furthest(track.max_sequence, o.sequence)
      /\ after.credible <=> (track.credible /\ passes)
  BY DEF Observe, Track
<1>5. after \in Track
  <2>1. /\ track.born_at \in Int /\ track.birth_delay \in Int /\ at \in Int
        /\ o.delay \in Int /\ o.sequence \in StopSequence \cup {NoSequence}
        /\ track.max_sequence \in StopSequence \cup {NoSequence}
    BY DEF Track, Observation
  <2>2. Furthest(track.max_sequence, o.sequence) \in StopSequence \cup {NoSequence}
    BY <2>1 DEF Furthest
  <2>3. QED
    BY <2>1, <2>2 DEF Observe, Track, WithinStep, WithinLife, MovingForward
<1>6. /\ \A i \in 1 .. Len(e) : e[i].sequence <= after.max_sequence
      /\ \E i \in 1 .. Len(e) : e[i].sequence = after.max_sequence
  <2>1. /\ track.max_sequence \in Int /\ o.sequence \in Int
        /\ \A i \in 1 .. n : r[i].sequence \in Int /\ r[i].sequence <= track.max_sequence
    <3>1. /\ track.max_sequence \in StopSequence \cup {NoSequence}
          /\ o.sequence \in StopSequence \cup {NoSequence}
          /\ \A i \in 1 .. n : r[i].sequence \in StopSequence \cup {NoSequence}
      BY <1>2 DEF Track, Observation, Sighting
    <3>2. QED BY <3>1, SequenceIsInt DEF Remembers
  <2>2. /\ after.max_sequence >= track.max_sequence /\ after.max_sequence >= o.sequence
        /\ after.max_sequence \in {track.max_sequence, o.sequence}
    BY <2>1, <1>4 DEF Furthest
  <2>3. ASSUME NEW i \in 1 .. Len(e) PROVE e[i].sequence <= after.max_sequence
    <3>1. CASE i = n + 1
      BY <3>1, <2>2, <1>1, <1>2
    <3>2. CASE i \in 1 .. n
      <4>1. e[i].sequence \in Int /\ e[i].sequence <= track.max_sequence
        BY <3>2, <2>1, <1>2
      <4>2. after.max_sequence \in Int
        BY <2>1, <2>2
      <4>3. QED BY <4>1, <4>2, <2>1, <2>2
    <3>3. QED BY <3>1, <3>2, <1>2
  <2>4. CASE after.max_sequence = o.sequence
    <3>1. n + 1 \in 1 .. Len(e) /\ e[n + 1].sequence = after.max_sequence
      BY <2>4, <1>1, <1>2
    <3>2. QED BY <3>1, <2>3
  <2>5. CASE after.max_sequence = track.max_sequence
    <3>1. PICK i \in 1 .. n : r[i].sequence = track.max_sequence
      BY DEF Remembers
    <3>2. i \in 1 .. Len(e) /\ e[i].sequence = after.max_sequence
      BY <3>1, <2>5, <1>2
    <3>3. QED BY <3>2, <2>3
  <2>6. QED BY <2>2, <2>4, <2>5
<1>7. /\ after.credible => Honest(e)
      /\ (Honest(e) /\ NoWrap(e)) => after.credible
  <2>1. /\ (Honest(r) /\ passes) => Honest(e)
        /\ (Honest(e) /\ NoWrap(e)) => (Honest(r) /\ NoWrap(r) /\ passes)
    BY HonestStep
  <2>2. /\ track.credible => Honest(r)
        /\ (Honest(r) /\ NoWrap(r)) => track.credible
    BY DEF Remembers
  <2> HIDE DEF passes, e, after
  <2>3. QED BY <2>1, <2>2, <1>4
<1>8. Latest(e) = x
  BY <1>2 DEF Latest
<1>9. track.born_at = r[1].at /\ track.birth_delay = r[1].delay
  BY DEF Remembers
<1> HIDE DEF e, after, x
<1>10. Remembers(after, e)
  BY <1>1, <1>2, <1>3, <1>4, <1>6, <1>7, <1>8, <1>9 DEF Remembers
<1>11. QED BY <1>1, <1>2, <1>5, <1>8, <1>10 DEF e, after, x

-----------------------------------------------------------------------------
(* The invariant is inductive.                                             *)

\* What a feed's fold leaves of one trip, given what it knew before.
LEMMA FoldTrip ==
  ASSUME IInv, NEW s \in Sources, polled[s] < now, NEW t \in Trips,
         NEW obs, DOMAIN obs \subseteq Trips,
         \A u \in DOMAIN obs : obs[u] \in Observations
  PROVE  LET after == Fold(tracks[s], obs, now)
             r == IF t \in DOMAIN obs THEN Extend(run[s][t], obs[t], now) ELSE run[s][t]
         IN /\ t \in DOMAIN after =>
                 after[t] \in Track /\ Remembers(after[t], r) /\ Latest(r).at <= now
            /\ t \notin DOMAIN after => Over(r, now)
            /\ r \in Seq(Sighting)
<1> DEFINE known == tracks[s]
           old == run[s][t]
           after == Fold(known, obs, now)
           r == IF t \in DOMAIN obs THEN Extend(old, obs[t], now) ELSE old
<1>1. /\ now \in Nat /\ polled[s] \in Int /\ polled[s] < now
      /\ DOMAIN known \subseteq Trips
      /\ \A u \in DOMAIN known : known[u] \in Track
      /\ old \in Seq(Sighting)
      /\ TripInv(s, t)
  BY DEF IInv, TypeOK
<1>2. DOMAIN after = Remembered(known, now) \cup DOMAIN obs
  BY DEF Fold
<1>3. Remembered(known, now) \subseteq DOMAIN known
  BY DEF Remembered
<1>4. ASSUME old # <<>> PROVE Len(old) \in Nat \ {0} /\ Latest(old).at \in Int
  <2>1. Len(old) \in 1 .. Len(old)
    BY <1>1, <1>4
  <2>2. old[Len(old)] \in Sighting
    BY <2>1, <1>1
  <2>3. QED BY <2>1, <2>2, <1>4 DEF Latest, Sighting
<1>5. CASE t \in DOMAIN known /\ t \in Remembered(known, now)
  <2>1. /\ known[t] \in Track /\ Remembers(known[t], old) /\ Latest(old).at <= polled[s]
        /\ now - Latest(old).at <= ABSENCE_RESET
    BY <1>5, <1>1 DEF TripInv, Remembered, Remembers
  <2>2. old # <<>> /\ Latest(old).at \in Int
    BY <2>1, <1>4 DEF Remembers
  <2>3. CASE t \in DOMAIN obs
    <3>1. obs[t] \in Observation
      BY <2>3, TripHistoryAssumption
    <3>2. after[t] = Observe(known[t], obs[t], now)
      BY <1>5, <2>3, <1>2 DEF Fold
    <3>3. r = Append(old, Seen(obs[t], now))
      <4>1. ~(now - old[Len(old)].at > ABSENCE_RESET)
        BY <2>1, <2>2, <1>1, TripTrackAssumption DEF Latest
      <4>2. r = Extend(old, obs[t], now)
        BY <2>3
      <4>3. QED BY <4>1, <4>2, <2>2 DEF Extend
    <3>4. LET a == Observe(known[t], obs[t], now)
              e == Append(old, Seen(obs[t], now))
          IN a \in Track /\ e \in Seq(Sighting) /\ Remembers(a, e) /\ Latest(e).at = now
      <4>1. now \in Nat /\ known[t] \in Track /\ old \in Seq(Sighting)
        BY <2>1, <1>1
      <4> HIDE DEF known, old
      <4>2. QED BY <4>1, <3>1, <2>1, ObserveRemembers
    <3> HIDE DEF after, r, known, old
    <3>6. /\ after[t] \in Track /\ r \in Seq(Sighting)
          /\ Remembers(after[t], r) /\ Latest(r).at = now
      BY <3>2, <3>3, <3>4
    <3>5. QED BY <3>6, <1>1, <1>2, <1>5 DEF after, r, known, old
  <2>4. CASE t \notin DOMAIN obs
    <3>1. after[t] = known[t] /\ r = old
      BY <1>5, <2>4, <1>2 DEF Fold
    <3>2. Latest(old).at <= now
      BY <2>1, <2>2, <1>1
    <3>3. QED BY <3>1, <3>2, <2>1, <1>1, <1>2, <1>5
  <2>5. QED BY <2>3, <2>4
<1>6. CASE t \notin Remembered(known, now)
  <2>1. Over(old, now)
    <3>1. CASE t \in DOMAIN known
      <4>1. known[t].last_seen = Latest(old).at /\ old # <<>>
        BY <3>1, <1>1 DEF TripInv, Remembers
      <4>2. ~(now - known[t].last_seen <= ABSENCE_RESET)
        BY <3>1, <1>6 DEF Remembered
      <4>3. QED BY <4>1, <4>2, <1>1, <1>4, TripTrackAssumption DEF Over
    <3>2. CASE t \notin DOMAIN known
      <4>1. Over(old, polled[s])
        BY <3>2, <1>1 DEF TripInv
      <4>2. QED BY <4>1, <1>1, <1>4, TripTrackAssumption DEF Over
    <3>3. QED BY <3>1, <3>2
  <2>2. CASE t \in DOMAIN obs
    <3>1. obs[t] \in Observation
      BY <2>2, TripHistoryAssumption
    <3>2. after[t] = Born(obs[t], now)
      BY <1>6, <2>2, <1>2 DEF Fold
    <3>3. r = <<Seen(obs[t], now)>>
      BY <2>1, <2>2 DEF Over, Extend, Latest
    <3>4. /\ after[t] \in Track /\ r \in Seq(Sighting)
          /\ Remembers(after[t], r) /\ Latest(r).at = now
      BY <3>1, <3>2, <3>3, <1>1, BornRemembers
    <3>5. QED BY <3>4, <1>1, <1>2, <2>2
  <2>3. CASE t \notin DOMAIN obs
    <3>1. r = old /\ t \notin DOMAIN after
      BY <1>6, <2>3, <1>2
    <3>2. QED BY <3>1, <2>1, <1>1
  <2>4. QED BY <2>2, <2>3
<1>7. QED BY <1>3, <1>5, <1>6

LEMMA InitInv == Init => IInv
<1>1. SUFFICES ASSUME Init PROVE IInv
  OBVIOUS
<1>2. /\ DOMAIN Empty = {}
      /\ \A s \in Sources : tracks[s] = Empty /\ credited[s] = {} /\ polled[s] = -1
      /\ \A s \in Sources, t \in Trips : run[s][t] = <<>>
  BY <1>1 DEF Init, Empty
<1>3. TypeOK
  BY <1>1, <1>2 DEF Init, TypeOK
<1>4. QED
  BY <1>1, <1>2, <1>3 DEF Init, IInv, TripInv, Over

LEMMA VetInv ==
  ASSUME IInv, NEW s \in Sources, NEW mentioned \in SUBSET Trips,
         NEW obs \in [mentioned -> Observations],
         NEW late \in SUBSET mentioned, Vet(s, obs, late)
  PROVE  IInv'
<1> DEFINE after == Fold(tracks[s], obs, now)
           Ran(t) == IF t \in DOMAIN obs THEN Extend(run[s][t], obs[t], now) ELSE run[s][t]
<1>1. /\ polled[s] < now /\ now' = now
      /\ tracks' = [tracks EXCEPT ![s] = after]
      /\ polled' = [polled EXCEPT ![s] = now]
      /\ credited' = [credited EXCEPT ![s] = Credited(tracks'[s], late)]
      /\ run' = [run EXCEPT ![s] = [t \in Trips |-> Ran(t)]]
  <2>1. TypeOK
    BY DEF IInv
  <2>2. QED BY <2>1 DEF Vet, TypeOK
<1>2. DOMAIN obs = mentioned /\ \A u \in DOMAIN obs : obs[u] \in Observations
  OBVIOUS
<1>3. \A t \in Trips :
        /\ t \in DOMAIN after =>
              after[t] \in Track /\ Remembers(after[t], Ran(t)) /\ Latest(Ran(t)).at <= now
        /\ t \notin DOMAIN after => Over(Ran(t), now)
        /\ Ran(t) \in Seq(Sighting)
  BY <1>1, <1>2, FoldTrip
<1>4. DOMAIN after \subseteq Trips
  BY <1>2 DEF Fold, Remembered, IInv, TypeOK
<1> HIDE DEF after, Ran
<1>5. /\ tracks'[s] = after /\ polled'[s] = now /\ credited'[s] = Credited(after, late)
      /\ \A t \in Trips : run'[s][t] = Ran(t)
      /\ \A u \in Sources \ {s} :
           /\ tracks'[u] = tracks[u] /\ polled'[u] = polled[u]
           /\ credited'[u] = credited[u] /\ run'[u] = run[u]
  BY <1>1 DEF IInv, TypeOK
<1>6. Credited(after, late) \subseteq DOMAIN after
      /\ \A t \in Credited(after, late) : after[t].credible
  BY DEF Credited
<1>7. TypeOK'
  <2>1. /\ now' \in Nat /\ polled' \in [Sources -> Int]
    BY <1>1 DEF IInv, TypeOK
  <2>2. /\ DOMAIN tracks' = Sources
        /\ \A u \in Sources : /\ DOMAIN tracks'[u] \subseteq Trips
                              /\ \A t \in DOMAIN tracks'[u] : tracks'[u][t] \in Track
    <3>1. DOMAIN tracks' = Sources
      BY <1>1 DEF IInv, TypeOK
    <3>2. \A t \in DOMAIN after : after[t] \in Track
      BY <1>3, <1>4
    <3>3. QED BY <3>1, <3>2, <1>4, <1>5 DEF IInv, TypeOK
  <2>3. /\ credited' \in [Sources -> SUBSET Trips]
        /\ \A u \in Sources : credited'[u] \subseteq DOMAIN tracks'[u]
    <3>1. Credited(after, late) \in SUBSET Trips
      BY <1>4, <1>6
    <3>2. credited' \in [Sources -> SUBSET Trips]
      BY <3>1, <1>1, <1>5 DEF IInv, TypeOK
    <3>3. QED BY <3>2, <1>5, <1>6, ZenonT(40) DEF IInv, TypeOK
  <2>4. run' \in [Sources -> [Trips -> Seq(Sighting)]]
    <3>1. [t \in Trips |-> Ran(t)] \in [Trips -> Seq(Sighting)]
      BY <1>3
    <3>2. QED BY <3>1, <1>1 DEF IInv, TypeOK
  <2>5. QED BY <2>1, <2>2, <2>3, <2>4 DEF TypeOK
<1>8. ASSUME NEW u \in Sources PROVE polled'[u] <= now'
  <2>1. now \in Nat /\ polled[u] <= now
    BY DEF IInv, TypeOK
  <2>2. QED BY <2>1, <1>1, <1>5
<1>9. ASSUME NEW u \in Sources, NEW t \in Trips PROVE TripInv(u, t)'
  <2>1. CASE u = s
    BY <2>1, <1>3, <1>5 DEF TripInv
  <2>2. CASE u # s
    BY <2>2, <1>5 DEF TripInv, IInv
  <2>3. QED BY <2>1, <2>2
<1>10. ASSUME NEW u \in Sources, NEW t \in credited'[u] PROVE tracks'[u][t].credible
  BY <1>10, <1>5, <1>6 DEF IInv
<1>11. QED BY <1>7, <1>8, <1>9, <1>10 DEF IInv

LEMMA ForgetInv ==
  ASSUME IInv, NEW s \in Sources, ForgetSource(s)
  PROVE  IInv'
<1>1. DOMAIN Empty = {} /\ [t \in Trips |-> <<>>] \in [Trips -> Seq(Sighting)]
  BY DEF Empty
<1>2. /\ tracks'[s] = Empty /\ polled'[s] = now /\ credited'[s] = {} /\ now' = now
      /\ \A t \in Trips : run'[s][t] = <<>>
      /\ \A u \in Sources \ {s} :
           /\ tracks'[u] = tracks[u] /\ polled'[u] = polled[u]
           /\ credited'[u] = credited[u] /\ run'[u] = run[u]
  BY DEF ForgetSource, IInv, TypeOK
<1>3. TypeOK'
  <2>1. /\ now' \in Nat /\ polled' \in [Sources -> Int] /\ DOMAIN tracks' = Sources
        /\ credited' \in [Sources -> SUBSET Trips]
    BY DEF ForgetSource, IInv, TypeOK
  <2>2. run' \in [Sources -> [Trips -> Seq(Sighting)]]
    BY <1>1 DEF ForgetSource, IInv, TypeOK
  <2>3. QED BY <1>1, <1>2, <2>1, <2>2 DEF IInv, TypeOK
<1>4. ASSUME NEW u \in Sources PROVE polled'[u] <= now'
  <2>1. now \in Nat /\ polled[u] <= now
    BY DEF IInv, TypeOK
  <2>2. QED BY <2>1, <1>2
<1>5. ASSUME NEW u \in Sources, NEW t \in Trips PROVE TripInv(u, t)'
  BY <1>1, <1>2 DEF TripInv, Over, IInv
<1>6. ASSUME NEW u \in Sources, NEW t \in credited'[u] PROVE tracks'[u][t].credible
  BY <1>6, <1>2 DEF IInv
<1>7. QED BY <1>3, <1>4, <1>5, <1>6 DEF IInv

LEMMA NextInv == IInv /\ [Next]_vars => IInv'
<1>1. SUFFICES ASSUME IInv, [Next]_vars PROVE IInv'
  OBVIOUS
<1>2. ASSUME NEW s \in Sources, Poll(s) PROVE IInv'
  BY <1>1, <1>2, VetInv DEF Poll
<1>3. ASSUME NEW s \in Sources, ForgetSource(s) PROVE IInv'
  BY <1>1, <1>3, ForgetInv
<1>4. CASE Tick
  <2>1. TypeOK'
    BY <1>1, <1>4 DEF Tick, IInv, TypeOK
  <2>2. ASSUME NEW s \in Sources PROVE polled'[s] <= now'
    <3>1. now \in Nat /\ polled[s] \in Int /\ polled[s] <= now
      BY <1>1 DEF IInv, TypeOK
    <3>2. QED BY <3>1, <1>4 DEF Tick
  <2>3. QED BY <1>1, <1>4, <2>1, <2>2 DEF Tick, IInv, TripInv
<1>5. CASE UNCHANGED vars
  BY <1>1, <1>5 DEF vars, IInv, TypeOK, TripInv
<1>6. QED BY <1>1, <1>2, <1>3, <1>4, <1>5 DEF Next

-----------------------------------------------------------------------------

\* TripHistory::vet and forget_source keep the strengthened invariant.
THEOREM Inductive == Spec => []IInv
BY InitInv, NextInv, PTL DEF Spec

\* The tracks, the board and the sightings keep their shapes, and a board
\* holds only trips the history knows.
THEOREM TypeCorrect == Spec => []TypeOK
<1>1. IInv => TypeOK
  BY DEF IInv
<1>2. QED BY <1>1, Inductive, PTL

\* history.rs vouches for a late trip only if every sighting of its run obeys
\* the three rules, for any delays, clock, limits and stop sequences.
THEOREM OnlyWatchedDelayIsCredited == Spec => []CreditIsWatched
<1>1. IInv => CreditIsWatched
  <2>1. SUFFICES ASSUME IInv, NEW s \in Sources, NEW t \in credited[s]
                 PROVE  Honest(run[s][t])
    BY DEF CreditIsWatched
  <2>2. t \in DOMAIN tracks[s] /\ t \in Trips /\ tracks[s][t].credible
    BY <2>1 DEF IInv, TypeOK
  <2>3. QED BY <2>1, <2>2 DEF IInv, TripInv, Remembers
<1>2. QED BY <1>1, Inductive, PTL

\* history.rs never refuses a trip whose run obeys the rules, as long as no
\* stop sequence is within SEQ_TOLERANCE of the width of a u32.
THEOREM NoHonestTripIsRefused == Spec => []HonestIsCredible
<1>1. IInv => HonestIsCredible
  <2>1. SUFFICES ASSUME IInv, NEW s \in Sources, NEW t \in DOMAIN tracks[s],
                        Honest(run[s][t]), NoWrap(run[s][t])
                 PROVE  tracks[s][t].credible
    BY DEF HonestIsCredible
  <2>2. t \in Trips
    BY <2>1 DEF IInv, TypeOK
  <2>3. QED BY <2>1, <2>2 DEF IInv, TripInv, Remembers
<1>2. QED BY <1>1, Inductive, PTL
=============================================================================
