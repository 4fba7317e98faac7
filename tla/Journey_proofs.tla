---------------------------- MODULE Journey_proofs ----------------------------
(***************************************************************************)
(* Proofs about Journey, for any timetables, styles of feed, thresholds    *)
(* and bounds of the clock and of the vehicle's lateness.                  *)
(***************************************************************************)
EXTENDS Journey, FiniteSetTheorems, WellFoundedInduction, TLAPS

-----------------------------------------------------------------------------
(* Arithmetic.                                                             *)

LEMMA ProductMonotone ==
  ASSUME NEW a \in Nat, NEW b \in Nat, NEW c \in Nat, NEW d \in Nat, a <= c, b <= d
  PROVE  a * b <= c * d /\ a * b \in Nat
<1>1. a * b <= c * b
  <2>1. c - a \in Nat
    OBVIOUS
  <2>2. (c - a) * b \in Nat
    BY <2>1
  <2>3. QED
    BY <2>2
<1>2. c * b <= c * d
  <2>1. d - b \in Nat
    OBVIOUS
  <2>2. c * (d - b) \in Nat
    BY <2>1
  <2>3. QED
    BY <2>2
<1>3. QED
  BY <1>1, <1>2

LEMMA Division ==
  ASSUME NEW n \in Nat, NEW d \in Nat \ {0}
  PROVE  n \div d \in Nat /\ d * (n \div d) <= n /\ n < d * (n \div d) + d
OBVIOUS

\* a / b <= c / d, rounded down on both sides.
LEMMA QuotientMonotone ==
  ASSUME NEW a \in Nat, NEW b \in Nat \ {0}, NEW c \in Nat, NEW d \in Nat \ {0}, a * d <= c * b
  PROVE  a \div b <= c \div d
<1> DEFINE p == a \div b
           q == c \div d
<1>1. p \in Nat /\ b * p <= a /\ q \in Nat /\ c < d * q + d
  BY Division
<1> HIDE DEF p, q
<1>2. SUFFICES ASSUME p >= q + 1
               PROVE  FALSE
  BY <1>1 DEF p, q
<1>3. d * (q + 1) <= d * p
  BY <1>1, <1>2, ProductMonotone
<1>4. c + 1 <= d * p /\ d * p \in Nat
  BY <1>1, <1>3
<1>5. (c + 1) * b <= (d * p) * b
  BY <1>4, ProductMonotone
<1>6. (b * p) * d <= a * d
  BY <1>1, ProductMonotone
<1>7. (b * p) * d = (d * p) * b /\ (c + 1) * b = c * b + b
  BY <1>1
<1>8. QED
  BY <1>1, <1>5, <1>6, <1>7

-----------------------------------------------------------------------------
(* The score.                                                              *)

LEMMA ReachTable ==
  ASSUME NEW n \in 1 .. 30
  PROVE  REACH[n] \in 10 .. 50
BY DEF REACH

LEMMA BaseIsNat ==
  ASSUME NEW i \in Inputs
  PROVE  Base(i) \in Nat /\ i.delay \in Int
BY DEF Inputs, Base, Positive

LEMMA SeverityBounds ==
  ASSUME NEW i \in Inputs
  PROVE  Severity(i) \in 100 .. 180
<1>1. Base(i) \in Nat /\ i.duration \in Nat \cup {-1}
  BY BaseIsNat DEF Inputs, Unknown
<1>2. CASE i.duration > 0
  <2>1. 3 * i.duration \in Nat \ {0} /\ 160 * Base(i) \in Nat
    BY <1>1, <1>2
  <2>2. (160 * Base(i)) \div (3 * i.duration) \in Nat
    BY <2>1, Division
  <2>3. QED
    BY <1>2, <2>2 DEF Severity, AtMost
<1>3. CASE ~(i.duration > 0)
  BY <1>3 DEF Severity
<1>4. QED
  BY <1>2, <1>3

LEMMA ReachBounds ==
  ASSUME NEW i \in Inputs
  PROVE  Reach(i) \in 100 .. 150
<1>1. i.remaining \in Nat \cup {-1}
  BY DEF Inputs, Unknown
<1>2. CASE i.remaining > 0
  <2>1. AtMost(30, i.remaining) \in 1 .. 30
    BY <1>1, <1>2 DEF AtMost
  <2>2. QED
    BY <1>2, <2>1, ReachTable DEF Reach
<1>3. CASE ~(i.remaining > 0)
  BY <1>3 DEF Reach
<1>4. QED
  BY <1>2, <1>3

\* The share of the delay that grew while the trip was watched.
Grown(i) == AtMost(Base(i), Positive(i.delay - i.birth))

LEMMA ConfidenceBounds ==
  ASSUME NEW i \in Inputs
  PROVE  /\ Confidence(i) \in 60 .. 100
         /\ Grown(i) \in Nat
<1>1. Base(i) \in Nat /\ i.delay \in Int /\ i.birth \in Int /\ i.tracked \in Nat
  BY BaseIsNat DEF Inputs
<1>2. Grown(i) \in Nat /\ Grown(i) <= Base(i)
  BY <1>1 DEF Grown, AtMost, Positive
<1> DEFINE share == IF Base(i) > 0 THEN (28 * Grown(i)) \div Base(i) ELSE 0
           tenure == (12 * AtMost(TENURE_FULL, i.tracked)) \div TENURE_FULL
<1>3. share \in 0 .. 28
  <2>1. CASE Base(i) > 0
    <3>1. 28 * Grown(i) \in Nat /\ 28 * Grown(i) <= 28 * Base(i)
      BY <1>1, <1>2
    <3>2. /\ share \in Nat /\ Base(i) * share <= 28 * Grown(i)
      BY <1>1, <2>1, <3>1, Division
    <3> HIDE DEF share
    <3>3. SUFFICES ASSUME share >= 29
                   PROVE  FALSE
      BY <3>2
    <3>4. Base(i) * 29 <= Base(i) * share
      BY <1>1, <3>2, <3>3, ProductMonotone
    <3>5. QED
      BY <1>1, <2>1, <3>1, <3>2, <3>4
  <2>2. CASE ~(Base(i) > 0)
    BY <2>2
  <2>3. QED
    BY <2>1, <2>2
<1>4. tenure \in 0 .. 12
  <2>1. TENURE_FULL \in Nat \ {0}
    BY ScoreAssumption
  <2>2. AtMost(TENURE_FULL, i.tracked) \in Nat /\ AtMost(TENURE_FULL, i.tracked) <= TENURE_FULL
    BY <1>1, <2>1 DEF AtMost
  <2>3. /\ 12 * AtMost(TENURE_FULL, i.tracked) \in Nat
        /\ 12 * AtMost(TENURE_FULL, i.tracked) <= 12 * TENURE_FULL
    BY <2>1, <2>2
  <2>4. tenure \in Nat /\ TENURE_FULL * tenure <= 12 * AtMost(TENURE_FULL, i.tracked)
    BY <2>1, <2>3, Division
  <2> HIDE DEF tenure
  <2>5. SUFFICES ASSUME tenure >= 13
                 PROVE  FALSE
    BY <2>4
  <2>6. TENURE_FULL * 13 <= TENURE_FULL * tenure
    BY <2>1, <2>4, <2>5, ProductMonotone
  <2>7. QED
    BY <2>1, <2>3, <2>4, <2>6
<1>5. Confidence(i) = 60 + share + tenure
  BY DEF Confidence, Grown
<1> HIDE DEF share, tenure
<1>6. QED
  BY <1>2, <1>3, <1>4, <1>5

\* All factors together are between 0.54 and 2.7.
LEMMA FactorsAreBounded ==
  ASSUME NEW i \in Inputs
  PROVE  OfItsDelay(i)
<1> DEFINE b == Base(i)
           s == Severity(i)
           r == Reach(i)
           c == Confidence(i)
           l == Location(i)
<1>1. b \in Nat /\ s \in 100 .. 180 /\ r \in 100 .. 150 /\ c \in 60 .. 100
  BY BaseIsNat, SeverityBounds, ReachBounds, ConfidenceBounds
<1>2. l \in 9 .. 10
  BY DEF Location
<1>3. LiveScore(i) = b * s * r * c * l
  BY DEF LiveScore
<1> HIDE DEF b, s, r, c, l
<1>4. b * 100 <= b * s /\ b * s <= b * 180 /\ b * s \in Nat
  BY <1>1, ProductMonotone
<1>5. (b * 100) * 100 <= (b * s) * r /\ (b * s) * r <= (b * 180) * 150 /\ (b * s) * r \in Nat
  BY <1>1, <1>4, ProductMonotone
<1>6. /\ (b * 100 * 100) * 60 <= (b * s * r) * c /\ (b * s * r) * c <= (b * 180 * 150) * 100
      /\ (b * s * r) * c \in Nat
  BY <1>1, <1>5, ProductMonotone
<1>7. /\ (b * 100 * 100 * 60) * 9 <= (b * s * r * c) * l
      /\ (b * s * r * c) * l <= (b * 180 * 150 * 100) * 10
  BY <1>1, <1>2, <1>6, ProductMonotone
<1>8. /\ 100 * 100 * 60 * 9 * b = b * 100 * 100 * 60 * 9
      /\ 180 * 150 * 100 * 10 * b = b * 180 * 150 * 100 * 10
  BY <1>1
<1>9. QED
  BY <1>3, <1>7, <1>8 DEF OfItsDelay, b

\* j knows what i knows, and of a trip at least as late, watched for as long.
Grows(i, j) ==
  /\ i.delay <= j.delay /\ i.birth = j.birth /\ i.tracked <= j.tracked
  /\ i.duration \in {Unknown, j.duration} /\ i.remaining \in {Unknown, j.remaining}
  /\ i.located => j.located

LEMMA SeverityGrows ==
  ASSUME NEW i \in Inputs, NEW j \in Inputs, Grows(i, j)
  PROVE  Severity(i) <= Severity(j)
<1>1. /\ Base(i) \in Nat /\ Base(j) \in Nat /\ Base(i) <= Base(j)
      /\ i.duration \in Nat \cup {-1} /\ j.duration \in Nat \cup {-1}
      /\ i.duration = -1 \/ i.duration = j.duration
  BY BaseIsNat DEF Grows, Base, Positive, Inputs, Unknown
<1>2. CASE i.duration > 0
  <2>1. PICK d \in Nat \ {0} : d = 3 * i.duration /\ d = 3 * j.duration
    BY <1>1, <1>2
  <2>2. 160 * Base(i) \in Nat /\ 160 * Base(j) \in Nat /\ (160 * Base(i)) * d <= (160 * Base(j)) * d
    BY <1>1, ProductMonotone
  <2>3. (160 * Base(i)) \div d <= (160 * Base(j)) \div d
    BY <2>2, QuotientMonotone
  <2>4. (160 * Base(i)) \div d \in Nat /\ (160 * Base(j)) \div d \in Nat
    BY <2>2, Division
  <2>5. /\ Severity(i) = 100 + AtMost(80, (160 * Base(i)) \div d)
        /\ Severity(j) = 100 + AtMost(80, (160 * Base(j)) \div d)
    BY <1>1, <1>2, <2>1 DEF Severity
  <2>6. QED
    BY <2>3, <2>4, <2>5 DEF AtMost
<1>3. CASE ~(i.duration > 0)
  BY <1>3, SeverityBounds DEF Severity
<1>4. QED
  BY <1>2, <1>3

LEMMA ConfidenceGrows ==
  ASSUME NEW i \in Inputs, NEW j \in Inputs, Grows(i, j), Base(i) > 0
  PROVE  Confidence(i) <= Confidence(j)
<1>1. /\ i.delay \in Int /\ j.delay \in Int /\ i.birth \in Int /\ j.birth = i.birth
      /\ i.delay <= j.delay /\ i.tracked \in Nat /\ j.tracked \in Nat /\ i.tracked <= j.tracked
  BY DEF Grows, Inputs
<1>2. /\ Base(i) = i.delay /\ Base(j) = j.delay /\ i.delay > 0 /\ j.delay > 0
  BY <1>1 DEF Base, Positive
<1>3. Grown(i) \in Nat /\ Grown(j) \in Nat
  BY ConfidenceBounds
<1>4. Grown(i) * j.delay <= Grown(j) * i.delay
  <2>1. CASE i.birth <= 0
    <3>1. Grown(i) = i.delay /\ Grown(j) = j.delay
      BY <1>1, <1>2, <2>1 DEF Grown, AtMost, Positive
    <3>2. QED
      BY <1>1, <3>1
  <2>2. CASE i.birth > 0 /\ i.delay <= i.birth
    <3>1. Grown(i) = 0
      BY <1>1, <1>2, <2>2 DEF Grown, AtMost, Positive
    <3>2. Grown(j) * i.delay \in Nat
      BY <1>1, <1>2, <1>3
    <3>3. QED
      BY <1>1, <3>1, <3>2
  <2>3. CASE i.birth > 0 /\ i.delay > i.birth
    <3>1. Grown(i) = i.delay - i.birth /\ Grown(j) = j.delay - i.birth
      BY <1>1, <1>2, <2>3 DEF Grown, AtMost, Positive
    <3>2. i.birth * i.delay <= i.birth * j.delay
      BY <1>1, <1>2, <2>3, ProductMonotone
    <3>3. /\ (i.delay - i.birth) * j.delay = i.delay * j.delay - i.birth * j.delay
          /\ (j.delay - i.birth) * i.delay = i.delay * j.delay - i.birth * i.delay
      BY <1>1
    <3>4. QED
      BY <1>1, <3>1, <3>2, <3>3
  <2>4. QED
    BY <1>1, <2>1, <2>2, <2>3
<1>5. (28 * Grown(i)) \div i.delay <= (28 * Grown(j)) \div j.delay
  <2>1. 28 * Grown(i) \in Nat /\ 28 * Grown(j) \in Nat /\ i.delay \in Nat \ {0} /\ j.delay \in Nat \ {0}
    BY <1>1, <1>2, <1>3
  <2>2. (28 * Grown(i)) * j.delay <= (28 * Grown(j)) * i.delay
    BY <1>1, <1>3, <1>4
  <2>3. QED
    BY <2>1, <2>2, QuotientMonotone
<1>6. (12 * AtMost(TENURE_FULL, i.tracked)) \div TENURE_FULL
        <= (12 * AtMost(TENURE_FULL, j.tracked)) \div TENURE_FULL
  <2>1. TENURE_FULL \in Nat \ {0}
    BY ScoreAssumption
  <2>2. PICK x \in Nat, y \in Nat : /\ x = 12 * AtMost(TENURE_FULL, i.tracked)
                                    /\ y = 12 * AtMost(TENURE_FULL, j.tracked)
                                    /\ x <= y
    BY <1>1, <2>1 DEF AtMost
  <2>3. x * TENURE_FULL <= y * TENURE_FULL
    BY <2>1, <2>2, ProductMonotone
  <2>4. QED
    BY <2>1, <2>2, <2>3, QuotientMonotone
<1>7. /\ (28 * Grown(i)) \div i.delay \in Nat /\ (28 * Grown(j)) \div j.delay \in Nat
      /\ (12 * AtMost(TENURE_FULL, i.tracked)) \div TENURE_FULL \in Nat
      /\ (12 * AtMost(TENURE_FULL, j.tracked)) \div TENURE_FULL \in Nat
  <2>1. TENURE_FULL \in Nat \ {0} /\ i.delay \in Nat \ {0} /\ j.delay \in Nat \ {0}
    BY <1>1, <1>2, ScoreAssumption
  <2>2. /\ 12 * AtMost(TENURE_FULL, i.tracked) \in Nat /\ 12 * AtMost(TENURE_FULL, j.tracked) \in Nat
        /\ 28 * Grown(i) \in Nat /\ 28 * Grown(j) \in Nat
    BY <1>1, <1>3, <2>1 DEF AtMost
  <2>3. QED
    BY <2>1, <2>2, Division
<1>8. /\ Confidence(i) = 60 + (28 * Grown(i)) \div i.delay
                            + (12 * AtMost(TENURE_FULL, i.tracked)) \div TENURE_FULL
      /\ Confidence(j) = 60 + (28 * Grown(j)) \div j.delay
                            + (12 * AtMost(TENURE_FULL, j.tracked)) \div TENURE_FULL
  BY <1>2 DEF Confidence, Grown
<1>9. QED
  BY <1>5, <1>6, <1>7, <1>8

\* The score does not fall while the trip gets later, is watched for longer, and
\* is learnt more of.
LEMMA ScoreGrows ==
  ASSUME NEW i \in Inputs, NEW j \in Inputs, Grows(i, j)
  PROVE  LiveScore(i) <= LiveScore(j)
<1>1. Base(i) \in Nat /\ Base(j) \in Nat /\ Base(i) <= Base(j)
  BY BaseIsNat DEF Grows, Base, Positive
<1>2. /\ Severity(i) \in 100 .. 180 /\ Severity(j) \in 100 .. 180
      /\ Reach(i) \in 100 .. 150 /\ Reach(j) \in 100 .. 150
      /\ Confidence(i) \in 60 .. 100 /\ Confidence(j) \in 60 .. 100
      /\ Location(i) \in 9 .. 10 /\ Location(j) \in 9 .. 10
  BY SeverityBounds, ReachBounds, ConfidenceBounds DEF Location
<1>3. Severity(i) <= Severity(j)
  BY SeverityGrows
<1>4. Reach(i) <= Reach(j)
  <2>1. CASE i.remaining = j.remaining
    BY <1>2, <2>1 DEF Reach
  <2>2. CASE i.remaining = Unknown
    BY <1>2, <2>2 DEF Reach, Unknown
  <2>3. QED
    BY <2>1, <2>2 DEF Grows
<1>5. Location(i) <= Location(j)
  BY DEF Grows, Location, Inputs
<1>6. CASE Base(i) = 0
  <2>1. LiveScore(i) = 0
    BY <1>2, <1>6 DEF LiveScore
  <2>2. Base(j) * Severity(j) \in Nat
    BY <1>1, <1>2, ProductMonotone
  <2>3. (Base(j) * Severity(j)) * Reach(j) \in Nat
    BY <1>2, <2>2, ProductMonotone
  <2>4. (Base(j) * Severity(j) * Reach(j)) * Confidence(j) \in Nat
    BY <1>2, <2>3, ProductMonotone
  <2>5. (Base(j) * Severity(j) * Reach(j) * Confidence(j)) * Location(j) \in Nat
    BY <1>2, <2>4, ProductMonotone
  <2>6. QED
    BY <2>1, <2>5 DEF LiveScore
<1>7. CASE Base(i) > 0
  <2>1. Confidence(i) <= Confidence(j)
    BY <1>7, ConfidenceGrows
  <2>2. Base(i) * Severity(i) <= Base(j) * Severity(j)
        /\ Base(i) * Severity(i) \in Nat /\ Base(j) * Severity(j) \in Nat
    BY <1>1, <1>2, <1>3, ProductMonotone, SMTT(30)
  <2>3. Base(i) * Severity(i) * Reach(i) <= Base(j) * Severity(j) * Reach(j)
        /\ Base(i) * Severity(i) * Reach(i) \in Nat /\ Base(j) * Severity(j) * Reach(j) \in Nat
    BY <1>2, <1>4, <2>2, ProductMonotone
  <2>4. Base(i) * Severity(i) * Reach(i) * Confidence(i)
           <= Base(j) * Severity(j) * Reach(j) * Confidence(j)
        /\ Base(i) * Severity(i) * Reach(i) * Confidence(i) \in Nat
        /\ Base(j) * Severity(j) * Reach(j) * Confidence(j) \in Nat
    BY <1>2, <2>1, <2>3, ProductMonotone
  <2>5. Base(i) * Severity(i) * Reach(i) * Confidence(i) * Location(i)
           <= Base(j) * Severity(j) * Reach(j) * Confidence(j) * Location(j)
    BY <1>2, <1>5, <2>4, ProductMonotone
  <2>6. QED
    BY <2>5 DEF LiveScore
<1>8. QED
  BY <1>1, <1>6, <1>7

-----------------------------------------------------------------------------
(* The first of the least.                                                 *)

LEMMA Induction ==
  ASSUME NEW S, 0 \in S, \A n \in Nat : n \in S => n + 1 \in S
  PROVE  Nat \subseteq S
<1> SUFFICES ASSUME NEW k \in Nat, k \notin S
             PROVE  FALSE
  OBVIOUS
<1> DEFINE Less == {p \in Nat \X Nat : p[1] < p[2]}
<1>1. IsWellFoundedOn(Less, Nat)
  BY NatLessThanWellFounded, Zenon DEF OpToRel
<1>2. \A m, n \in Nat : m < n => <<m, n>> \in Less
  OBVIOUS
<1> HIDE DEF Less
<1>3. Nat \ S # {} /\ Nat \ S \subseteq Nat
  OBVIOUS
<1>4. PICK n \in Nat \ S : \A m \in Nat \ S : ~(<<m, n>> \in Less)
  BY <1>1, <1>3, WFMin
<1>5. n - 1 \in Nat /\ n - 1 < n
  BY <1>4
<1>6. n - 1 \in S
  BY <1>2, <1>4, <1>5
<1>7. QED
  BY <1>4, <1>5, <1>6

IsFirstLeast(i, S, f) == \A j \in S : f[i] < f[j] \/ (f[i] = f[j] /\ i <= j)

\* A finite choice of numbers has a first least one: min_by_key finds it.
LEMMA LeastExists ==
  ASSUME NEW n \in Nat, NEW S \in SUBSET (1 .. n), S # {},
         NEW f, \A i \in S : f[i] \in Int
  PROVE  \E i \in S : IsFirstLeast(i, S, f)
<1> DEFINE P == {k \in Nat : \A T \in SUBSET S :
                   T # {} /\ T \subseteq 1 .. k => \E i \in T : IsFirstLeast(i, T, f)}
<1>1. 0 \in P
  <2>1. 1 .. 0 = {}
    OBVIOUS
  <2>2. QED
    BY <2>1, Zenon
<1>2. ASSUME NEW k \in Nat, k \in P
      PROVE  k + 1 \in P
  <2> SUFFICES ASSUME NEW T \in SUBSET S, T # {}, T \subseteq 1 .. k + 1
               PROVE  \E i \in T : IsFirstLeast(i, T, f)
    BY <1>2
  <2>1. CASE k + 1 \notin T
    <3>1. T \subseteq 1 .. k
      BY <1>2, <2>1
    <3>2. QED
      BY <1>2, <3>1
  <2>2. CASE T = {k + 1}
    <3>1. f[k + 1] \in Int
      BY <2>2
    <3>2. IsFirstLeast(k + 1, T, f)
      BY <1>2, <2>2, <3>1 DEF IsFirstLeast
    <3>3. QED
      BY <2>2, <3>2
  <2>3. CASE k + 1 \in T /\ T # {k + 1}
    <3>1. /\ T \ {k + 1} \in SUBSET S /\ T \ {k + 1} # {}
          /\ T \ {k + 1} \subseteq 1 .. k
      BY <1>2, <2>3
    <3>2. PICK i \in T \ {k + 1} : IsFirstLeast(i, T \ {k + 1}, f)
      BY <1>2, <3>1
    <3>3. /\ f[i] \in Int /\ f[k + 1] \in Int /\ i \in 1 .. k /\ k + 1 \in Int
          /\ \A j \in T \ {k + 1} : f[j] \in Int /\ j \in 1 .. k
      BY <1>2, <2>3, <3>1, <3>2
    <3>4. CASE f[k + 1] < f[i]
      <4>1. IsFirstLeast(k + 1, T, f)
        BY <3>2, <3>3, <3>4 DEF IsFirstLeast
      <4>2. QED
        BY <2>3, <4>1
    <3>5. CASE ~(f[k + 1] < f[i])
      <4>1. f[i] < f[k + 1] \/ (f[i] = f[k + 1] /\ i <= k + 1)
        BY <3>3, <3>5
      <4>2. IsFirstLeast(i, T, f)
        BY <3>2, <4>1 DEF IsFirstLeast
      <4>3. QED
        BY <3>2, <4>2
    <3>6. QED
      BY <3>4, <3>5
  <2>4. QED
    BY <2>1, <2>2, <2>3
<1> HIDE DEF P
<1>3. n \in P
  BY <1>1, <1>2, Induction
<1>4. QED
  BY <1>3 DEF P

-----------------------------------------------------------------------------
(* What is measured.                                                       *)

IsEvent(e) == e.time \in Int \cup {Absent} /\ e.delay \in Int \cup {Absent}

\* Any update of any trip, and any rows of a schedule.
IsReport(u) ==
  /\ {u.delay, u.start_date} \subseteq Int \cup {Absent}
  /\ \E n \in Nat : DOMAIN u.stops = 1 .. n
  /\ \A i \in DOMAIN u.stops : /\ u.stops[i].seq \in StopSequence \cup {Absent}
                               /\ IsEvent(u.stops[i].arrival) /\ IsEvent(u.stops[i].departure)

IsRows(r) ==
  /\ Len(r) \in Nat /\ DOMAIN r = 1 .. Len(r)
  /\ \A i \in DOMAIN r : r[i].time \in Int \cup {Absent}

\* The updates the agency publishes, whatever its faults.
IsUpdate(u) == u.trip = Trip /\ u.start_date \in {0, Absent} /\ IsReport(u)

IsMeasurement(m) ==
  /\ m.trip = Trip
  /\ m.delay \in Int
  /\ m.sequence \in StopSequence \cup {Absent}

LEMMA SequencesAreNat == StopSequence \subseteq Nat /\ NoSequence \notin Nat /\ NoSequence \in Int
BY TripTrackAssumption DEF StopSequence, NoSequence

\* The stop the update is about is one of its stops.
LEMMA CurrentIsAStop ==
  ASSUME NEW u, IsReport(u), NEW t \in Int, Known(CurrentStop(u, t))
  PROVE  \E i \in DOMAIN u.stops : CurrentStop(u, t) = u.stops[i]
<1>1. PICK n \in Nat : DOMAIN u.stops = 1 .. n
  BY DEF IsReport
<1>2. ScheduledStops(u) \in SUBSET (1 .. n) /\ TimedStops(u) \in SUBSET (1 .. n)
  BY <1>1 DEF ScheduledStops, TimedStops
<1>3. CASE TimedStops(u) = {}
  <2> DEFINE numbered == {i \in ScheduledStops(u) : Known(u.stops[i].seq)}
  <2>1. CurrentStop(u, t) = EarliestStop(u)
    BY <1>3 DEF CurrentStop
  <2>2. CASE numbered # {}
    <3> DEFINE f == [i \in numbered |-> u.stops[i].seq]
    <3>1. numbered \in SUBSET (1 .. n) /\ \A i \in numbered : f[i] \in Int
      <4>1. numbered \in SUBSET (1 .. n)
        BY <1>2
      <4>2. ASSUME NEW i \in numbered
            PROVE  u.stops[i].seq \in Int
        <5>1. i \in DOMAIN u.stops /\ u.stops[i].seq # Absent
          BY <1>1, <4>1, <4>2 DEF Known
        <5>2. u.stops[i].seq \in StopSequence
          BY <5>1 DEF IsReport
        <5>3. u.stops[i].seq \in Nat
          BY <5>2, SequencesAreNat, Zenon
        <5>4. QED
          BY <5>3
      <4>3. QED
        BY <4>1, <4>2
    <3> HIDE DEF numbered
    <3>2. PICK i \in numbered : IsFirstLeast(i, numbered, f)
      BY <2>2, <3>1, LeastExists
    <3>3. FirstLeast(numbered, LAMBDA k : u.stops[k].seq) \in numbered
      BY <3>2 DEF FirstLeast, IsFirstLeast
    <3>4. EarliestStop(u) = u.stops[FirstLeast(numbered, LAMBDA k : u.stops[k].seq)]
      BY <2>2 DEF EarliestStop, numbered
    <3>5. QED
      BY <1>1, <2>1, <3>1, <3>3, <3>4
  <2>3. CASE numbered = {} /\ ScheduledStops(u) # {}
    <3> DEFINE f == [i \in ScheduledStops(u) |-> i]
    <3>1. \A i \in ScheduledStops(u) : f[i] \in Int
      BY <1>2
    <3>2. PICK i \in ScheduledStops(u) : IsFirstLeast(i, ScheduledStops(u), f)
      BY <1>2, <2>3, <3>1, LeastExists
    <3>3. FirstLeast(ScheduledStops(u), LAMBDA k : k) \in ScheduledStops(u)
      BY <3>2 DEF FirstLeast, IsFirstLeast
    <3>4. EarliestStop(u) = u.stops[FirstLeast(ScheduledStops(u), LAMBDA k : k)]
      BY <2>3 DEF EarliestStop
    <3>5. QED
      BY <1>1, <1>2, <2>1, <3>3, <3>4
  <2>4. CASE ScheduledStops(u) = {}
    BY <2>1, <2>4 DEF EarliestStop, Known
  <2>5. QED
    BY <2>2, <2>3, <2>4
<1>4. CASE TimedStops(u) # {}
  <2> DEFINE Gap(i) == Distance(EventTime(u.stops[i]), t)
             f == [i \in TimedStops(u) |-> Gap(i)]
  <2>1. \A i \in TimedStops(u) : Gap(i) \in Int
    BY <1>1 DEF TimedStops, ScheduledStops, EventTime, IsReport, IsEvent, Known, Distance
  <2> HIDE DEF Gap
  <2>2. PICK i \in TimedStops(u) : IsFirstLeast(i, TimedStops(u), f)
    BY <1>2, <1>4, <2>1, LeastExists
  <2>3. FirstLeast(TimedStops(u), Gap) \in TimedStops(u)
    BY <2>2 DEF FirstLeast, IsFirstLeast
  <2>4. CurrentStop(u, t) \in {u.stops[FirstLeast(TimedStops(u), Gap)], Absent}
    BY <1>4 DEF CurrentStop, Gap
  <2>5. QED
    BY <1>1, <1>2, <2>3, <2>4 DEF Known
<1>5. QED
  BY <1>3, <1>4

LEMMA ArrivalIsATime ==
  ASSUME NEW r, IsRows(r), NEW stop
  PROVE  ScheduledArrival(r, stop) \in Int \cup {Absent}
<1> DEFINE matches == {i \in DOMAIN r : SameKey(r[i].seq, stop.seq) \/ SameKey(r[i].id, stop.id)}
           Rank(i) == IF SameKey(r[i].seq, stop.seq) THEN 0 ELSE 1
           f == [i \in matches |-> Rank(i)]
<1>1. CASE matches = {}
  BY <1>1 DEF ScheduledArrival
<1>2. CASE matches # {}
  <2>1. Len(r) \in Nat /\ matches \in SUBSET (1 .. Len(r)) /\ \A i \in matches : f[i] \in Int
    BY DEF IsRows
  <2>2. PICK i \in matches : IsFirstLeast(i, matches, f)
    <3> HIDE DEF matches, Rank
    <3>1. QED
      BY <1>2, <2>1, LeastExists
  <2>3. FirstLeast(matches, Rank) \in matches
    <3> HIDE DEF matches, Rank
    <3>1. QED
      BY <2>2 DEF FirstLeast, IsFirstLeast
  <2>4. ScheduledArrival(r, stop) = r[FirstLeast(matches, Rank)].time
    BY <1>2 DEF ScheduledArrival
  <2>5. FirstLeast(matches, Rank) \in DOMAIN r
    BY <2>3
  <2> HIDE DEF matches, Rank
  <2>6. QED
    BY <2>4, <2>5 DEF IsRows
<1>3. QED
  BY <1>1, <1>2

\* What is measured is a number, of a trip with an id.
LEMMA MeasuresAreNumbers ==
  ASSUME NEW u, IsReport(u), NEW r, Known(r) => IsRows(r), NEW t \in Nat,
         NEW m, m = MeasureDelay(u, r, t), Known(m)
  PROVE  /\ m.trip = u.trip /\ Known(u.trip)
         /\ m.delay \in Int
         /\ m.sequence \in StopSequence \cup {Absent}
<1> DEFINE stop == CurrentStop(u, t)
           delay == TripDelay(u, stop, r, t)
<1>1. Known(stop) => /\ stop.seq \in StopSequence \cup {Absent}
                     /\ EventTime(stop) \in Int \cup {Absent}
                     /\ StopDelay(stop) \in Int \cup {Absent}
  BY CurrentIsAStop DEF IsReport, IsEvent, EventTime, StopDelay
<1> HIDE DEF stop
<1>2. Known(stop) /\ Known(r) => ScheduledComparison(u, stop, r, t) \in Int \cup {Absent}
  <2> SUFFICES ASSUME Known(stop), Known(r), Zoned, Known(EventTime(stop)),
                      Known(ScheduledArrival(r, stop))
               PROVE  ScheduledComparison(u, stop, r, t) \in Int
    BY DEF ScheduledComparison
  <2>1. EventTime(stop) \in Int /\ ScheduledArrival(r, stop) \in Int
    BY <1>1, ArrivalIsATime DEF Known
  <2>2. DAY \in Nat \ {0}
    BY MeasurementAssumption
  <2>3. ServiceDate(u, t) \in Int
    BY <2>2, Division DEF ServiceDate, IsReport, Known
  <2>4. DAY * ServiceDate(u, t) \in Int
    BY <2>2, <2>3
  <2>5. QED
    BY <2>1, <2>4 DEF ScheduledComparison
<1>3. Known(delay) => delay.delay \in Int
  BY <1>1, <1>2 DEF TripDelay, Measured, IsReport, Known
<1> HIDE DEF delay
<1>4. Known(delay) /\ Known(u.trip)
        /\ m = [trip |-> u.trip, delay |-> delay.delay, source |-> delay.source,
                sequence |-> IF Known(stop) THEN stop.seq ELSE Absent]
  BY DEF MeasureDelay, Known, stop, delay
<1>5. QED
  BY <1>1, <1>3, <1>4

LEMMA MeasuresAre ==
  ASSUME NEW u, IsUpdate(u), NEW r, Known(r) => IsTimetable(r), NEW t \in Nat,
         Known(MeasureDelay(u, r, t))
  PROVE  IsMeasurement(MeasureDelay(u, r, t))
<1>1. IsReport(u) /\ u.trip = Trip /\ (Known(r) => IsRows(r))
  BY DEF IsUpdate, IsTimetable, IsRows
<1>2. QED
  BY <1>1, MeasuresAreNumbers DEF IsMeasurement

\* The schedules a poll may have.
IsSchedule(s) == \A r : Known(s) /\ r = s[Trip] => Known(r) /\ IsTimetable(r)

LEMMA DelaysAre ==
  ASSUME NEW f, \A k \in DOMAIN f : IsUpdate(f[k]), NEW s, IsSchedule(s), NEW t \in Nat
  PROVE  \A m \in DelayedTrips(f, s, t) : IsMeasurement(m)
<1> DEFINE Rows(trip) == IF Known(s) /\ Known(trip) THEN s[trip] ELSE Absent
<1> TAKE m \in DelayedTrips(f, s, t)
<1>1. PICK k \in DOMAIN f : m = MeasureDelay(f[k], Rows(f[k].trip), t) /\ Known(m)
  BY DEF DelayedTrips
<1>2. IsUpdate(f[k]) /\ f[k].trip = Trip
  BY <1>1 DEF IsUpdate, IsReport
<1>3. Known(Rows(Trip)) => IsTimetable(Rows(Trip))
  BY DEF IsSchedule, Known
<1> HIDE DEF Rows
<1>4. QED
  BY <1>1, <1>2, <1>3, MeasuresAre

\* The schedule delayed_trips measures a trip by.
RowsOf(s, trip) == IF Known(s) /\ Known(trip) THEN s[trip] ELSE Absent

\* delayed_trips (delay.rs:136), which keeps the largest of each trip's
\* measurements: whatever trips a feed repeats, in any order, and whatever the
\* schedules say of them, each trip that is measured is in the result exactly
\* once, by a measurement of it that no other exceeds.
THEOREM EachTripOnceByItsWorst ==
  ASSUME NEW f, NEW n \in Nat, DOMAIN f = 1 .. n, NEW s, NEW t \in Nat,
         \A k \in 1 .. n : /\ IsReport(f[k])
                           /\ Known(RowsOf(s, f[k].trip)) => IsRows(RowsOf(s, f[k].trip))
  PROVE  LET Measure(k) == MeasureDelay(f[k], RowsOf(s, f[k].trip), t)
             measured   == {k \in 1 .. n : Known(Measure(k))}
         IN /\ \A m \in DelayedTrips(f, s, t) : \E k \in measured : m = Measure(k)
            /\ \A k \in measured : \E m \in DelayedTrips(f, s, t) :
                 m.trip = f[k].trip /\ Measure(k).delay <= m.delay
            /\ \A l, m \in DelayedTrips(f, s, t) : l.trip = m.trip => l = m
<1> DEFINE Measure(k) == MeasureDelay(f[k], RowsOf(s, f[k].trip), t)
           measured == {k \in 1 .. n : Known(Measure(k))}
           Worse(j, k) == \/ Measure(j).delay > Measure(k).delay
                          \/ Measure(j).delay = Measure(k).delay /\ j <= k
           largest == {j \in measured : \A k \in measured :
                       Measure(j).trip = Measure(k).trip => Worse(j, k)}
<1>1. \A k \in measured : Measure(k).trip = f[k].trip /\ Measure(k).delay \in Int
  BY MeasuresAreNumbers
<1>2. DelayedTrips(f, s, t) = {Measure(j) : j \in largest}
  <2> DEFINE all == {[k |-> k, m |-> Measure(k)] : k \in DOMAIN f}
             kept == {p \in all : Known(p.m)}
             Exceeds(p, q) == p.m.delay > q.m.delay \/ (p.m.delay = q.m.delay /\ p.k <= q.k)
  <2>1. DelayedTrips(f, s, t)
          = {p.m : p \in {p \in kept : \A q \in kept : p.m.trip = q.m.trip => Exceeds(p, q)}}
    BY DEF DelayedTrips, RowsOf
  <2>2. kept = {[k |-> k, m |-> Measure(k)] : k \in measured}
    <3> HIDE DEF Measure
    <3>1. QED
      OBVIOUS
  <2> DEFINE greatest == {p \in kept : \A q \in kept : p.m.trip = q.m.trip => Exceeds(p, q)}
  <2> HIDE DEF kept, Measure, measured
  <2>3. greatest = {[k |-> j, m |-> Measure(j)] : j \in largest}
    <3>1. ASSUME NEW p \in greatest
          PROVE  \E j \in largest : p = [k |-> j, m |-> Measure(j)]
      <4>1. PICK j \in measured : p = [k |-> j, m |-> Measure(j)]
        BY <2>2, <3>1
      <4>2. ASSUME NEW i \in measured, Measure(j).trip = Measure(i).trip
            PROVE  Worse(j, i)
        <5>1. [k |-> i, m |-> Measure(i)] \in kept
          BY <2>2
        <5>2. Exceeds(p, [k |-> i, m |-> Measure(i)])
          BY <3>1, <4>1, <4>2, <5>1
        <5>3. QED
          BY <4>1, <5>2
      <4>3. QED
        BY <4>1, <4>2
    <3>2. ASSUME NEW j \in largest
          PROVE  [k |-> j, m |-> Measure(j)] \in greatest
      BY <2>2
    <3>3. QED
      BY <3>1, <3>2
  <2> HIDE DEF greatest, largest
  <2>4. {p.m : p \in greatest} = {Measure(j) : j \in largest}
    <3>1. ASSUME NEW p \in greatest
          PROVE  \E j \in largest : p.m = Measure(j)
      BY <2>3
    <3>2. ASSUME NEW j \in largest
          PROVE  \E p \in greatest : p.m = Measure(j)
      <4>1. [k |-> j, m |-> Measure(j)] \in greatest
        BY <2>3
      <4>2. QED
        BY <4>1
    <3>3. QED
      BY <3>1, <3>2, Zenon
  <2>5. QED
    BY <2>1, <2>4 DEF greatest
<1> HIDE DEF Measure
<1>3. \A m \in DelayedTrips(f, s, t) : \E k \in measured : m = Measure(k)
  BY <1>2
<1>4. ASSUME NEW k \in measured
      PROVE  \E m \in DelayedTrips(f, s, t) : m.trip = f[k].trip /\ Measure(k).delay <= m.delay
  <2> DEFINE same == {j \in measured : Measure(j).trip = Measure(k).trip}
  <2>1. PICK g : g = [j \in 1 .. n |-> -Measure(j).delay]
    OBVIOUS
  <2>2. \A j \in same : g[j] = -Measure(j).delay /\ g[j] \in Int /\ Measure(j).delay \in Int
    BY <1>1, <2>1
  <2>3. PICK j \in same : IsFirstLeast(j, same, g)
    BY <1>4, <2>2, LeastExists
  <2>4. \A i \in same : Worse(j, i)
    BY <2>2, <2>3 DEF IsFirstLeast
  <2>5. j \in largest
    BY <2>3, <2>4
  <2>6. Measure(k).delay <= Measure(j).delay
    BY <1>4, <2>2, <2>4
  <2>7. QED
    BY <1>1, <1>2, <2>3, <2>5, <2>6
<1>5. ASSUME NEW i \in largest, NEW j \in largest, Measure(i).trip = Measure(j).trip
      PROVE  i = j
  <2>1. Worse(i, j) /\ Worse(j, i)
    BY <1>5
  <2>2. Measure(i).delay \in Int /\ Measure(j).delay \in Int /\ i \in Int /\ j \in Int
    BY <1>1
  <2>3. QED
    BY <2>1, <2>2
<1>6. \A l, m \in DelayedTrips(f, s, t) : l.trip = m.trip => l = m
  BY <1>2, <1>5
<1>7. QED
  BY <1>3, <1>4, <1>6 DEF Measure

Span == [duration : Nat \cup {Absent}, remaining : Nat \cup {Absent}] \cup {Absent}

LEMMA SpansAre ==
  ASSUME NEW r, IsTimetable(r), NEW q
  PROVE  TripSpan(r, q) \in Span
<1> DEFINE times == {r[i].time : i \in DOMAIN r} \ {Absent}
           longest == (CHOOSE x \in times : \A y \in times : y <= x)
                    - (CHOOSE x \in times : \A y \in times : x <= y)
<1>1. /\ Len(r) \in Nat /\ DOMAIN r = 1 .. Len(r)
      /\ \A i \in DOMAIN r : r[i].time \in Nat
      /\ \A i, j \in DOMAIN r : i <= j => r[i].time <= r[j].time
  BY DEF IsTimetable
<1>2. ASSUME times # {}
      PROVE  longest \in Nat
  <2>1. 1 \in DOMAIN r /\ Len(r) \in DOMAIN r
    BY <1>1, <1>2
  <2>2. \A i \in DOMAIN r : 1 <= i /\ i <= Len(r)
    BY <1>1
  <2>3. r[1].time \in times /\ r[Len(r)].time \in times /\ \A x \in times : x \in Nat
    BY <1>1, <2>1, MeasurementAssumption
  <2>4. \A x \in times : r[1].time <= x /\ x <= r[Len(r)].time
    BY <1>1, <2>1, <2>2
  <2> HIDE DEF times
  <2>5. PICK a \in times : a = (CHOOSE x \in times : \A y \in times : y <= x) /\ \A y \in times : y <= a
    BY <2>3, <2>4
  <2>6. PICK b \in times : b = (CHOOSE x \in times : \A y \in times : x <= y) /\ \A y \in times : b <= y
    BY <2>3, <2>4
  <2>7. a - b \in Nat
    BY <2>3, <2>5, <2>6
  <2>8. QED
    BY <2>5, <2>6, <2>7
<1>3. StopsAhead(r, q) \in Nat \cup {Absent}
  <2>1. IsFiniteSet(DOMAIN r)
    BY <1>1, FS_Interval
  <2>2. IsFiniteSet({i \in DOMAIN r : r[i].seq > q})
    BY <2>1, FS_Subset
  <2>3. Cardinality({i \in DOMAIN r : r[i].seq > q}) \in Nat
    BY <2>2, FS_CardinalityType
  <2>4. QED
    BY <2>3 DEF StopsAhead
<1>4. TripSpan(r, q) = Absent
      \/ TripSpan(r, q) = [duration |-> IF times = {} THEN Absent ELSE longest,
                           remaining |-> StopsAhead(r, q)]
  BY DEF TripSpan
<1>5. (IF times = {} THEN Absent ELSE longest) \in Nat \cup {Absent}
  BY <1>2
<1> HIDE DEF times, longest
<1>6. QED
  BY <1>3, <1>4, <1>5 DEF Span

-----------------------------------------------------------------------------
(* What the history makes of it.                                           *)

LEMMA ObservationsAre ==
  ASSUME NEW delays, \A m \in delays : IsMeasurement(m)
  PROVE  /\ DOMAIN Observations(delays) = {m.trip : m \in delays}
         /\ DOMAIN Observations(delays) \subseteq {Trip}
         /\ \A x \in DOMAIN Observations(delays) : Observations(delays)[x] \in Observation
<1>1. DOMAIN Observations(delays) = {m.trip : m \in delays}
  BY DEF Observations
<1>2. ASSUME NEW m \in delays
      PROVE  TripObservation(m) \in Observation
  <2>1. IsMeasurement(m)
    BY <1>2
  <2>2. TripObservation(m).sequence \in StopSequence \cup {NoSequence}
    BY <2>1 DEF TripObservation, IsMeasurement, Known
  <2>3. QED
    BY <2>1, <2>2 DEF TripObservation, IsMeasurement, Observation
<1>3. ASSUME NEW x \in DOMAIN Observations(delays)
      PROVE  Observations(delays)[x] \in Observation
  <2>1. PICK m \in delays : m = CHOOSE n \in delays : n.trip = x
    BY <1>1, <1>3
  <2>2. Observations(delays)[x] = TripObservation(m)
    BY <1>1, <1>3, <2>1 DEF Observations
  <2>3. QED
    BY <1>2, <2>2
<1>4. QED
  BY <1>1, <1>3 DEF IsMeasurement

LEMMA BornIs ==
  ASSUME NEW o \in Observation, NEW t \in Nat
  PROVE  Born(o, t) \in Track /\ Born(o, t).born_at = t /\ Born(o, t).last_seen = t
BY TripTrackAssumption DEF Born, Track, Observation

LEMMA ObserveIs ==
  ASSUME NEW track \in Track, NEW o \in Observation, NEW t \in Nat
  PROVE  /\ Observe(track, o, t) \in Track
         /\ Observe(track, o, t).born_at = track.born_at
         /\ Observe(track, o, t).birth_delay = track.birth_delay
         /\ Observe(track, o, t).last_seen = t
<1>1. Furthest(track.max_sequence, o.sequence) \in StopSequence \cup {NoSequence}
  BY DEF Track, Observation, Furthest
<1>2. PICK new : new = Observe(track, o, t)
  OBVIOUS
<1>3. /\ new.born_at = track.born_at /\ new.birth_delay = track.birth_delay
      /\ new.last_seen = t
  BY <1>2 DEF Observe, Track
<1>4. new \in Track
  <2>1. /\ track.born_at \in Int /\ track.birth_delay \in Int /\ t \in Int
        /\ o.delay \in Int
    BY DEF Track, Observation
  <2>2. QED
    BY <1>1, <1>2, <2>1 DEF Observe, Track, WithinStep, WithinLife, MovingForward
<1>5. QED
  BY <1>2, <1>3, <1>4

\* The tracks of this feed, as they may be at time t.
AreTracks(known, t) ==
  /\ DOMAIN known \subseteq {Trip}
  /\ \A x \in DOMAIN known : known[x] \in Track /\ known[x].born_at <= t

LEMMA FoldIs ==
  ASSUME NEW t \in Nat, NEW known, AreTracks(known, t),
         NEW obs, DOMAIN obs \subseteq {Trip}, \A x \in DOMAIN obs : obs[x] \in Observation
  PROVE  /\ AreTracks(Fold(known, obs, t), t)
         /\ DOMAIN obs \subseteq DOMAIN Fold(known, obs, t)
         /\ \A x \in DOMAIN obs : Fold(known, obs, t)[x].last_seen = t
         /\ \A x \in DOMAIN Fold(known, obs, t) :
              \/ Fold(known, obs, t)[x].born_at = t
              \/ /\ x \in DOMAIN known
                 /\ Fold(known, obs, t)[x].born_at = known[x].born_at
                 /\ Fold(known, obs, t)[x].birth_delay = known[x].birth_delay
<1> DEFINE after == Fold(known, obs, t)
<1>1. DOMAIN after = Remembered(known, t) \cup DOMAIN obs /\ Remembered(known, t) \subseteq DOMAIN known
  BY DEF Fold, Remembered
<1>2. ASSUME NEW x \in DOMAIN after
      PROVE  /\ after[x] \in Track /\ after[x].born_at <= t
             /\ x \in DOMAIN obs => after[x].last_seen = t
             /\ \/ after[x].born_at = t
                \/ /\ x \in DOMAIN known
                   /\ after[x].born_at = known[x].born_at
                   /\ after[x].birth_delay = known[x].birth_delay
  <2>1. CASE x \notin DOMAIN obs
    <3>1. after[x] = known[x] /\ x \in DOMAIN known
      BY <1>1, <2>1 DEF Fold
    <3> HIDE DEF after
    <3>2. QED
      BY <2>1, <3>1 DEF AreTracks
  <2>2. CASE x \in DOMAIN obs /\ x \in Remembered(known, t)
    <3>1. after[x] = Observe(known[x], obs[x], t) /\ x \in DOMAIN known
      BY <1>1, <2>2 DEF Fold
    <3>2. known[x] \in Track /\ known[x].born_at <= t
      BY <3>1 DEF AreTracks
    <3> HIDE DEF after
    <3>3. QED
      BY <2>2, <3>1, <3>2, ObserveIs
  <2>3. CASE x \in DOMAIN obs /\ x \notin Remembered(known, t)
    <3>1. after[x] = Born(obs[x], t)
      BY <1>1, <2>3 DEF Fold
    <3> HIDE DEF after
    <3>2. QED
      BY <2>3, <3>1, BornIs
  <2>4. QED
    BY <2>1, <2>2, <2>3
<1> HIDE DEF after
<1>3. QED
  BY <1>1, <1>2 DEF AreTracks, after

-----------------------------------------------------------------------------
(* The invariant.                                                          *)

\* The vehicle is between the stops it has reached and the ones ahead.
OnTheRoad ==
  /\ now \in Nat
  /\ rows \in {s.rows : s \in Scenarios} /\ IsTimetable(rows)
  /\ at \in Seq(Nat)
  /\ \A i \in 1 .. reached : at[i] <= now
  /\ \A i, j \in 1 .. reached : i < j => at[i] < at[j]
  /\ reached < Last => rows[reached + 1].time + late > now

FeedIs ==
  /\ Len(feed) \in Nat /\ DOMAIN feed = 1 .. Len(feed)
  /\ \A k \in DOMAIN feed : IsUpdate(feed[k])

\* A feed published at this time tells where the vehicle is now.
FeedIsLatest ==
  made = now /\ Len(feed) = 1
    => \E wrong \in {0} \cup (reached + 2 .. Last) : feed = <<TripUpdate(wrong)>>

\* A record made since the trip's track began is of that track.
OfTheTrack(c, known) ==
  Known(c) /\ Trip \in DOMAIN known /\ c.last_seen >= known[Trip].born_at
    => /\ c.birth = known[Trip].birth_delay
       /\ c.tracked = c.last_seen - known[Trip].born_at

Followed ==
  /\ AreTracks(tracks, now)
  /\ Known(card) => card.last_seen < now \/ (card.last_seen = now /\ polled)
  /\ OfTheTrack(card, tracks)

IInv == TypeOK /\ OnTheRoad /\ FeedIs /\ FeedIsLatest /\ Followed

LEMMA InitHolds == Init => IInv
<1> SUFFICES ASSUME Init
             PROVE  IInv
  OBVIOUS
<1>1. PICK s \in Scenarios : rows = s.rows /\ style = s.style
  BY DEF Init
<1>2. IsTimetable(rows) /\ style \in Style /\ MaxLate \in Nat
  BY <1>1, JourneyAssumption
<1>3. at = <<>> /\ at \in Seq(Nat) /\ Len(at) = 0 /\ Len(rows) \in Nat
  BY <1>2 DEF Init, IsTimetable
<1>4. DOMAIN tracks = {}
  BY DEF Init
<1>5. TypeOK
  <2>1. /\ reached \in 0 .. Last /\ Len(at) = reached /\ late \in 0 .. worst
        /\ worst \in 0 .. MaxLate /\ style \in Style /\ made \in 0 .. now
    BY <1>2, <1>3 DEF Init, Last
  <2>2. {polled, loaded} \subseteq BOOLEAN
    BY Zenon DEF Init
  <2>3. DOMAIN tracks \subseteq {Trip} /\ \A t \in DOMAIN tracks : tracks[t] \in Track
    BY <1>4
  <2>4. card \in Card \cup {Absent}
    BY DEF Init
  <2>5. QED
    BY <2>1, <2>2, <2>3, <2>4 DEF TypeOK
<1>6. OnTheRoad
  <2>1. 0 < Len(rows) => rows[1].time > 0
    BY <1>2 DEF IsTimetable
  <2>2. now = 0 /\ reached = 0 /\ late = 0 /\ 1 .. 0 = {}
    BY DEF Init
  <2>3. reached < Len(rows) => rows[reached + 1].time + late > now
    <3>1. reached < Len(rows) => rows[1].time \in Nat
      BY <1>2, <2>2 DEF IsTimetable
    <3>2. QED
      BY <2>1, <2>2, <3>1
  <2>4. QED
    BY <1>1, <1>2, <1>3, <2>2, <2>3 DEF OnTheRoad, Last
<1>7. FeedIs /\ FeedIsLatest
  BY DEF Init, FeedIs, FeedIsLatest
<1>8. Followed
  BY <1>4 DEF Init, Followed, AreTracks, OfTheTrack, Known
<1>9. QED
  BY <1>5, <1>6, <1>7, <1>8 DEF IInv

LEMMA DriveKeeps ==
  ASSUME IInv, NEW change \in {-1, 0, 1}, Drive(change)
  PROVE  IInv'
<1> DEFINE next == rows[reached + 1].time + late + change
<1>1. /\ rows' = rows /\ style' = style /\ feed' = feed /\ made' = made
      /\ loaded' = loaded /\ tracks' = tracks /\ card' = card
      /\ now' = now + 1 /\ polled' = FALSE
      /\ late' = late + change /\ worst' = Furthest(worst, late') /\ late' \in 0 .. MaxLate
  BY DEF Drive, agency, memory
<1>2. /\ now \in Nat /\ MaxLate \in Nat /\ Len(rows) \in Nat /\ DOMAIN rows = 1 .. Len(rows)
      /\ reached \in 0 .. Len(rows) /\ made \in 0 .. now
      /\ late \in 0 .. worst /\ worst <= MaxLate /\ worst \in Int
      /\ \A i \in DOMAIN rows : rows[i].time \in Nat
      /\ \A i, j \in DOMAIN rows : i < j => rows[i].time < rows[j].time
      /\ at \in Seq(Nat) /\ Len(at) = reached /\ IsTimetable(rows)
  <2>1. MaxLate \in Nat /\ now \in Nat /\ IsTimetable(rows) /\ at \in Seq(Nat)
    BY JourneyAssumption DEF IInv, OnTheRoad
  <2>2. /\ reached \in 0 .. Len(rows) /\ made \in 0 .. now /\ late \in 0 .. worst
        /\ worst \in 0 .. MaxLate /\ Len(at) = reached
    BY DEF IInv, TypeOK, Last
  <2>3. worst \in Int /\ worst <= MaxLate
    BY <2>1, <2>2
  <2>4. /\ Len(rows) \in Nat /\ DOMAIN rows = 1 .. Len(rows)
        /\ \A i \in DOMAIN rows : rows[i].time \in Nat
        /\ \A i, j \in DOMAIN rows : i < j => rows[i].time < rows[j].time
    BY <2>1 DEF IsTimetable
  <2>5. QED
    BY <2>1, <2>2, <2>3, <2>4
<1>3. late' \in 0 .. worst' /\ worst' \in 0 .. MaxLate
  BY <1>1, <1>2 DEF Furthest
<1>4. /\ reached' \in 0 .. Len(rows) /\ Len(at') = reached' /\ at' \in Seq(Nat)
      /\ \A i \in 1 .. reached' : at'[i] <= now'
      /\ \A i, j \in 1 .. reached' : i < j => at'[i] < at'[j]
      /\ reached' < Len(rows) => rows[reached' + 1].time + late' > now'
  <2>0. /\ \A i \in 1 .. reached : at[i] \in Nat /\ at[i] <= now
        /\ \A i, j \in 1 .. reached : i < j => at[i] < at[j]
    BY <1>2 DEF IInv, OnTheRoad
  <2>1. CASE reached < Len(rows) /\ next = now + 1
    <3>1. reached' = reached + 1 /\ at' = Append(at, now + 1)
      BY <2>1 DEF Drive, Last
    <3>2. /\ Len(at') = reached + 1 /\ at' \in Seq(Nat) /\ at'[reached + 1] = now + 1
          /\ \A i \in 1 .. reached : at'[i] = at[i]
      BY <1>2, <3>1
    <3>3. \A i \in 1 .. reached + 1 : i \in 1 .. reached \/ i = reached + 1
      BY <1>2
    <3>4. ASSUME NEW i \in 1 .. reached + 1
          PROVE  at'[i] <= now + 1
      <4>0. now \in Nat
        BY <1>2
      <4>1. CASE i = reached + 1
        BY <3>2, <4>0, <4>1
      <4>2. CASE i \in 1 .. reached
        <5>1. at'[i] = at[i] /\ at[i] \in Nat /\ at[i] <= now
          BY <2>0, <3>2, <4>2
        <5>2. QED
          BY <4>0, <5>1
      <4>3. QED
        BY <3>3, <4>1, <4>2
    <3>5. \A i, j \in 1 .. reached + 1 : i < j => at'[i] < at'[j]
      <4> TAKE i, j \in 1 .. reached + 1
      <4>1. CASE j = reached + 1
        <5> SUFFICES ASSUME i < j
                     PROVE  at'[i] < at'[j]
          OBVIOUS
        <5>1. i \in 1 .. reached
          BY <1>2, <4>1
        <5>2. at'[i] = at[i] /\ at[i] \in Nat /\ at[i] <= now
          BY <2>0, <3>2, <5>1
        <5>3. QED
          BY <1>2, <3>2, <4>1, <5>2
      <4>2. CASE j \in 1 .. reached
        BY <1>2, <2>0, <3>2, <3>3, <4>2, SMTT(30)
      <4>3. QED
        BY <3>3, <4>1, <4>2
    <3>6. reached + 1 < Len(rows) => rows[reached + 2].time > rows[reached + 1].time
      BY <1>2
    <3>7. reached + 1 < Len(rows) => rows[reached + 2].time \in Nat
      BY <1>2
    <3>8. rows[reached + 1].time \in Nat
      BY <1>2, <2>1
    <3>9. reached + 1 < Len(rows) => rows[(reached + 1) + 1].time + late' > now + 1
      BY <1>1, <1>2, <2>1, <3>6, <3>7, <3>8, SMTT(30)
    <3>10. QED
      BY <1>1, <1>2, <2>1, <3>1, <3>2, <3>4, <3>5, <3>9, SMTT(30)
  <2>2. CASE ~(reached < Len(rows) /\ next = now + 1)
    <3>1. reached' = reached /\ at' = at /\ (reached < Len(rows) => next > now)
      BY <2>2 DEF Drive, Last
    <3>2. reached < Len(rows) => rows[reached + 1].time \in Nat
      BY <1>2
    <3>3. reached < Len(rows) => next \in Int
      BY <1>2, <3>2
    <3>4. reached < Len(rows) => next > now + 1
      BY <1>2, <2>2, <3>1, <3>3
    <3>5. reached < Len(rows) => rows[reached + 1].time + late' > now + 1
      BY <1>1, <3>4, <1>2, <3>2
    <3>6. \A i \in 1 .. reached : at[i] <= now + 1
      BY <1>2, <2>0
    <3>7. QED
      BY <1>1, <1>2, <2>0, <3>1, <3>5, <3>6
  <2>3. QED
    BY <2>1, <2>2
<1>5. TypeOK'
  <2>1. made' \in 0 .. now'
    BY <1>1, <1>2
  <2>2. QED
    BY <1>1, <1>3, <1>4, <2>1 DEF IInv, TypeOK, Last
<1>6. OnTheRoad'
  <2>0. rows \in {s.rows : s \in Scenarios}
    BY DEF IInv, OnTheRoad
  <2>1. now' \in Nat /\ IsTimetable(rows)' /\ rows' \in {s.rows : s \in Scenarios} /\ Last' = Len(rows)
    BY <1>1, <1>2, <2>0 DEF IsTimetable, Last
  <2>2. QED
    BY <1>1, <1>4, <2>1 DEF OnTheRoad
<1>7. FeedIs' /\ FeedIsLatest'
  <2>1. made' # now'
    BY <1>1, <1>2
  <2>2. QED
    BY <1>1, <2>1 DEF IInv, FeedIs, FeedIsLatest
<1>8. Followed'
  <2>1. AreTracks(tracks, now + 1)
    BY <1>2 DEF IInv, Followed, AreTracks, Track
  <2>2. Known(card) => card.last_seen < now + 1
    BY <1>2 DEF IInv, Followed, TypeOK, Card, Known
  <2>3. QED
    BY <1>1, <2>1, <2>2 DEF IInv, Followed
<1>9. QED
  BY <1>5, <1>6, <1>7, <1>8 DEF IInv

LEMMA StopIs ==
  ASSUME IInv, NEW i \in 1 .. Last, NEW off \in Nat
  PROVE  /\ StopTimeUpdate(i, off).seq \in StopSequence \cup {Absent}
         /\ IsEvent(StopTimeUpdate(i, off).arrival)
         /\ IsEvent(StopTimeUpdate(i, off).departure)
<1>1. /\ Len(at) = reached /\ reached \in 0 .. Len(rows) /\ late \in Int /\ at \in Seq(Nat)
      /\ rows[i].seq \in StopSequence /\ rows[i].time \in Nat
  <2>1. IsTimetable(rows) /\ at \in Seq(Nat)
    BY DEF IInv, OnTheRoad
  <2>2. Len(at) = reached /\ reached \in 0 .. Len(rows) /\ late \in Int
    BY DEF IInv, TypeOK, Last
  <2>3. rows[i].seq \in StopSequence /\ rows[i].time \in Nat
    BY <2>1 DEF IsTimetable, Last
  <2>4. QED
    BY <2>1, <2>2, <2>3
<1>2. Predicted(i) \in Int
  BY <1>1 DEF Predicted
<1>3. Predicted(i) + off \in Int /\ Predicted(i) + off - rows[i].time \in Int
  BY <1>1, <1>2
<1>4. QED
  BY <1>1, <1>3 DEF StopTimeUpdate, IsEvent

LEMMA PublishedIs ==
  ASSUME IInv, NEW wrong
  PROVE  IsUpdate(TripUpdate(wrong))
<1> DEFINE first == IF style.kept THEN 1 ELSE reached + 1
           n == Last - first + 1
           Off(i) == IF i = wrong THEN CORRUPTION ELSE 0
           Stop(k) == StopTimeUpdate(first + k - 1, Off(first + k - 1))
           u == TripUpdate(wrong)
<1>1. /\ Last \in Nat /\ reached \in 0 .. Last /\ late \in Int /\ CORRUPTION \in Nat
  BY JourneyAssumption DEF IInv, TypeOK, OnTheRoad, IsTimetable, Last
<1>2. n \in Nat /\ \A k \in 1 .. n : first + k - 1 \in 1 .. Last
  BY <1>1
<1>3. \A i : Off(i) \in Nat
  BY <1>1
<1>4. /\ u.trip = Trip /\ u.delay \in Int \cup {Absent} /\ u.start_date \in {0, Absent}
      /\ u.stops = [k \in 1 .. n |-> Stop(k)]
  BY <1>1 DEF TripUpdate
<1> HIDE DEF u, n, first, Off
<1>5. \A k \in 1 .. n : /\ Stop(k).seq \in StopSequence \cup {Absent}
                        /\ IsEvent(Stop(k).arrival) /\ IsEvent(Stop(k).departure)
  BY <1>2, <1>3, StopIs
<1> HIDE DEF Stop
<1>6. QED
  BY <1>2, <1>4, <1>5 DEF IsUpdate, IsReport, u

LEMMA PublishKeeps ==
  ASSUME IInv, Publish
  PROVE  IInv'
<1>1. /\ now' = now /\ reached' = reached /\ at' = at /\ late' = late /\ worst' = worst
      /\ rows' = rows /\ style' = style /\ polled' = polled
      /\ loaded' = loaded /\ tracks' = tracks /\ card' = card
      /\ made' = now
  BY DEF Publish, vehicle, memory
<1>2. TypeOK'
  <2>1. made' \in 0 .. now'
    BY <1>1 DEF IInv, OnTheRoad
  <2>2. QED
    BY <1>1, <2>1 DEF IInv, TypeOK, Last
<1>3. OnTheRoad' /\ Followed'
  BY <1>1 DEF IInv, OnTheRoad, Followed, Last
<1>4. \A wrong : TripUpdate(wrong)' = TripUpdate(wrong)
  BY <1>1 DEF TripUpdate, StopTimeUpdate, Predicted, Last
<1>5. CASE \E wrong \in {0} \cup (IF style.corrupt THEN reached + 2 .. Last ELSE {}) :
             feed' = <<TripUpdate(wrong)>>
  <2>1. PICK wrong \in {0} \cup (reached + 2 .. Last) : feed' = <<TripUpdate(wrong)>>
    BY <1>5
  <2>2. PICK u : u = TripUpdate(wrong) /\ IsUpdate(u) /\ feed' = <<u>>
    BY <2>1, PublishedIs
  <2>3. Len(feed') = 1 /\ DOMAIN feed' = 1 .. 1 /\ feed'[1] = u
    BY <2>2
  <2>4. FeedIs'
    BY <2>2, <2>3 DEF FeedIs
  <2>5. FeedIsLatest'
    BY <1>1, <1>4, <2>1 DEF FeedIsLatest, Last
  <2>6. QED
    BY <1>2, <1>3, <2>4, <2>5 DEF IInv
<1>6. CASE feed # <<>> /\ feed' = <<TripUpdate(0), feed[1]>>
  <2>1. PICK u, v : u = TripUpdate(0) /\ IsUpdate(u) /\ feed' = <<u, v>> /\ v = feed[1]
    BY <1>6, PublishedIs
  <2>2. Len(feed') = 2 /\ DOMAIN feed' = 1 .. 2 /\ feed'[1] = u /\ feed'[2] = v
    BY <2>1
  <2>3. IsUpdate(v)
    BY <1>6, <2>1 DEF IInv, FeedIs
  <2>4. FeedIs'
    BY <2>1, <2>2, <2>3 DEF FeedIs
  <2>5. FeedIsLatest'
    BY <2>2 DEF FeedIsLatest
  <2>6. QED
    BY <1>2, <1>3, <2>4, <2>5 DEF IInv
<1>7. CASE feed' = <<>>
  <2>1. FeedIs' /\ FeedIsLatest'
    BY <1>7 DEF FeedIs, FeedIsLatest
  <2>2. QED
    BY <1>2, <1>3, <2>1 DEF IInv
<1>8. QED
  BY <1>5, <1>6, <1>7 DEF Publish

\* What a poll makes of the feed, the tracks and the record.
LEMMA Polled ==
  ASSUME IInv, Poll
  PROVE  /\ AreTracks(tracks', now)
         /\ \A x \in DOMAIN tracks' :
              \/ tracks'[x].born_at = now
              \/ /\ x \in DOMAIN tracks
                 /\ tracks'[x].born_at = tracks[x].born_at
                 /\ tracks'[x].birth_delay = tracks[x].birth_delay
         /\ \/ card' = card \/ card' = Absent
            \/ \E m : /\ IsMeasurement(m)
                      /\ card' = Upsert(m, tracks'[Trip], loaded')
                      /\ Trip \in DOMAIN tracks' /\ tracks'[Trip].last_seen = now
<1> DEFINE delays == Delays
           obs == Observations(delays)
           known == Fold(tracks, obs, now)
           credited == Credited(known, LateTrips(delays))
<1>1. now \in Nat /\ AreTracks(tracks, now) /\ \A k \in DOMAIN feed : IsUpdate(feed[k])
  BY DEF IInv, OnTheRoad, FeedIs, Followed
<1>2. IsSchedule(Schedules)
  <2>1. IsTimetable(rows) /\ Known(rows)
    BY DEF IInv, OnTheRoad, IsTimetable, Known
  <2>2. QED
    BY <2>1 DEF IsSchedule, Schedules, Known
<1>3. \A m \in delays : IsMeasurement(m)
  BY <1>1, <1>2, DelaysAre DEF Delays
<1> HIDE DEF delays
<1>4. /\ DOMAIN obs = {m.trip : m \in delays} /\ DOMAIN obs \subseteq {Trip}
      /\ \A x \in DOMAIN obs : obs[x] \in Observation
  BY <1>3, ObservationsAre
<1> HIDE DEF obs
<1>5. /\ AreTracks(known, now)
      /\ DOMAIN obs \subseteq DOMAIN known
      /\ \A x \in DOMAIN obs : known[x].last_seen = now
      /\ \A x \in DOMAIN known :
           \/ known[x].born_at = now
           \/ /\ x \in DOMAIN tracks
              /\ known[x].born_at = tracks[x].born_at
              /\ known[x].birth_delay = tracks[x].birth_delay
  BY <1>1, <1>4, FoldIs
<1> HIDE DEF known
<1>6. tracks' = known
  BY DEF Poll, known, obs, delays
<1>7. CASE credited = {}
  <2>1. card' = card \/ card' = Absent
    BY <1>7 DEF Poll, known, obs, delays
  <2>2. QED
    BY <1>5, <1>6, <2>1
<1>8. CASE credited # {}
  <2>1. PICK m : m = (CHOOSE n \in delays : TRUE) /\ card' = Upsert(m, known[Trip], loaded')
    BY <1>8 DEF Poll, known, obs, delays
  <2>2. PICK n \in delays : TRUE
    BY <1>8 DEF Credited, LateTrips
  <2>3. m \in delays /\ IsMeasurement(m)
    BY <1>3, <2>1, <2>2
  <2>4. Trip \in DOMAIN obs
    BY <1>4, <2>3 DEF IsMeasurement
  <2>5. QED
    BY <1>5, <1>6, <2>1, <2>3, <2>4
<1>9. QED
  BY <1>7, <1>8

\* What record_board makes of the record.
LEMMA RecordIs ==
  ASSUME IInv, NEW m, IsMeasurement(m), NEW schedule,
         NEW track \in Track, track.born_at <= now, track.last_seen = now,
         NEW c, c = Upsert(m, track, schedule)
  PROVE  /\ c \in Card
         /\ c.last_seen = now /\ c.birth = track.birth_delay
         /\ c.tracked = now - track.born_at
         /\ Known(card) => /\ card.peak <= c.peak
                           /\ card.located => c.located
                           /\ Known(card.span) => c.span = card.span
<1>1. /\ now \in Nat /\ IsTimetable(rows)
      /\ Known(card) => card \in Card
      /\ style.placed \in BOOLEAN
  BY DEF IInv, TypeOK, OnTheRoad, Style, Known
<1>2. Known(card) => card.peak \in Int /\ card.span \in Span /\ card.located \in BOOLEAN
  BY <1>1 DEF Card, Span
<1>3. /\ c.peak = IF Known(card) THEN Furthest(card.peak, m.delay) ELSE m.delay
      /\ c.delay = m.delay /\ c.sequence = m.sequence /\ c.last_seen = now
      /\ c.span = IF Known(card) /\ Known(card.span) THEN card.span
                  ELSE IF schedule THEN TripSpan(rows, m.sequence) ELSE Absent
      /\ c.tracked = now - track.born_at
      /\ c.birth = track.birth_delay
  BY DEF Upsert
<1>4. c.peak \in Int /\ (Known(card) => card.peak <= c.peak)
  BY <1>2, <1>3 DEF Furthest, IsMeasurement
<1>5. c.span \in Span /\ (Known(card) /\ Known(card.span) => c.span = card.span)
  <2>1. TripSpan(rows, m.sequence) \in Span /\ Absent \in Span
    BY <1>1, SpansAre DEF Span
  <2>2. QED
    BY <1>2, <1>3, <2>1
<1>6. c.located \in BOOLEAN /\ (Known(card) => (card.located => c.located))
  <2>1. c.located = (style.placed \/ (Known(card) /\ card.located))
    BY DEF Upsert
  <2>2. QED
    BY <1>1, <1>2, <2>1, Zenon
<1>7. c.tracked \in Nat /\ c.birth \in Int
  BY <1>1, <1>3 DEF Track
<1>8. c.delay \in Int /\ c.sequence \in Nat \cup {Absent} /\ c.last_seen \in Nat
  <2>1. m.sequence \in Nat \cup {Absent}
    BY SequencesAreNat, Zenon DEF IsMeasurement
  <2>2. QED
    BY <1>1, <1>3, <2>1 DEF IsMeasurement
<1>9. c \in Card
  <2>1. c = [peak |-> c.peak, delay |-> c.delay, sequence |-> c.sequence,
             last_seen |-> c.last_seen, span |-> c.span, tracked |-> c.tracked,
             birth |-> c.birth, located |-> c.located]
    BY DEF Upsert
  <2>2. QED
    BY <1>4, <1>5, <1>6, <1>7, <1>8, <2>1 DEF Card, Span
<1>10. QED
  BY <1>3, <1>4, <1>5, <1>6, <1>9

LEMMA PollKeeps ==
  ASSUME IInv, Poll
  PROVE  IInv'
<1>1. /\ now' = now /\ reached' = reached /\ at' = at /\ late' = late /\ worst' = worst
      /\ rows' = rows /\ style' = style /\ feed' = feed /\ made' = made
      /\ polled' = TRUE
  BY DEF Poll, vehicle, agency
<1>2. OnTheRoad' /\ FeedIs'
  BY <1>1 DEF IInv, OnTheRoad, FeedIs, Last
<1>3. FeedIsLatest'
  <2>1. \A wrong : TripUpdate(wrong)' = TripUpdate(wrong)
    BY <1>1 DEF TripUpdate, StopTimeUpdate, Predicted, Last
  <2>2. QED
    BY <1>1, <2>1 DEF IInv, FeedIsLatest, Last
<1>4. now \in Nat /\ AreTracks(tracks', now)
  BY Polled DEF IInv, OnTheRoad
<1>5. /\ card' \in Card \cup {Absent}
      /\ Known(card') => card'.last_seen <= now
      /\ OfTheTrack(card', tracks')
  <2>1. CASE card' = card
    <3>1. Known(card) => card.last_seen < now
      BY DEF IInv, Followed, Poll
    <3>2. ASSUME Known(card), Trip \in DOMAIN tracks', card.last_seen >= tracks'[Trip].born_at
          PROVE  /\ card.birth = tracks'[Trip].birth_delay
                 /\ card.tracked = card.last_seen - tracks'[Trip].born_at
      <4>1. card.last_seen < now /\ card.last_seen \in Nat
        BY <3>1, <3>2 DEF IInv, TypeOK, Card, Known
      <4>2. /\ Trip \in DOMAIN tracks
            /\ tracks'[Trip].born_at = tracks[Trip].born_at
            /\ tracks'[Trip].birth_delay = tracks[Trip].birth_delay
        BY <1>4, <3>2, <4>1, Polled
      <4>3. QED
        BY <3>2, <4>2 DEF IInv, Followed, OfTheTrack
    <3>3. Known(card) => card.last_seen <= now
      BY <3>1, <1>4 DEF IInv, TypeOK, Card, Known
    <3>4. QED
      BY <2>1, <3>2, <3>3 DEF IInv, TypeOK, OfTheTrack
  <2>2. CASE card' = Absent
    BY <2>2 DEF OfTheTrack, Known
  <2>3. CASE \E m : /\ IsMeasurement(m)
                    /\ card' = Upsert(m, tracks'[Trip], loaded')
                    /\ Trip \in DOMAIN tracks' /\ tracks'[Trip].last_seen = now
    <3>1. PICK m : /\ IsMeasurement(m)
                   /\ card' = Upsert(m, tracks'[Trip], loaded')
                   /\ Trip \in DOMAIN tracks' /\ tracks'[Trip].last_seen = now
      BY <2>3
    <3>2. tracks'[Trip] \in Track /\ tracks'[Trip].born_at <= now
      BY <1>4, <3>1 DEF AreTracks
    <3>3. /\ card' \in Card /\ card'.last_seen = now
          /\ card'.birth = tracks'[Trip].birth_delay
          /\ card'.tracked = now - tracks'[Trip].born_at
      BY <3>1, <3>2, RecordIs
    <3>4. QED
      BY <1>4, <3>3 DEF OfTheTrack
  <2>4. QED
    BY <2>1, <2>2, <2>3, Polled
<1>6. TypeOK'
  <2>1. loaded' \in BOOLEAN /\ polled' \in BOOLEAN
    <3>1. loaded \in BOOLEAN
      BY DEF IInv, TypeOK
    <3>2. loaded' \in BOOLEAN
      BY <3>1, Zenon DEF Poll
    <3>3. QED
      BY <1>1, <3>2
  <2>2. DOMAIN tracks' \subseteq {Trip} /\ \A t \in DOMAIN tracks' : tracks'[t] \in Track
    BY <1>4 DEF AreTracks
  <2>3. QED
    BY <1>1, <1>5, <2>1, <2>2 DEF IInv, TypeOK, Last
<1>7. Followed'
  <2>1. Known(card') => card'.last_seen \in Nat
    BY <1>5 DEF Card, Known
  <2>2. Known(card)' => card'.last_seen < now' \/ (card'.last_seen = now' /\ polled')
    BY <1>1, <1>4, <1>5, <2>1 DEF Known
  <2>3. QED
    BY <1>1, <1>4, <1>5, <2>2 DEF Followed
<1>8. QED
  BY <1>2, <1>3, <1>6, <1>7 DEF IInv

LEMMA NextKeeps == IInv /\ [Next]_vars => IInv'
<1> SUFFICES ASSUME IInv, [Next]_vars
             PROVE  IInv'
  OBVIOUS
<1>1. ASSUME NEW change \in {-1, 0, 1}, Drive(change)
      PROVE  IInv'
  BY <1>1, DriveKeeps
<1>2. CASE Publish
  BY <1>2, PublishKeeps
<1>3. CASE Poll
  BY <1>3, PollKeeps
<1>4. CASE UNCHANGED vars
  <2>1. /\ now' = now /\ reached' = reached /\ at' = at /\ late' = late /\ worst' = worst
        /\ rows' = rows /\ style' = style /\ feed' = feed /\ made' = made
        /\ polled' = polled /\ loaded' = loaded /\ tracks' = tracks /\ card' = card
    BY <1>4 DEF vars, vehicle, agency, memory
  <2>2. \A wrong : TripUpdate(wrong)' = TripUpdate(wrong)
    BY <2>1 DEF TripUpdate, StopTimeUpdate, Predicted, Last
  <2>3. FeedIsLatest'
    BY <2>1, <2>2 DEF IInv, FeedIsLatest, Last
  <2>4. QED
    BY <2>1, <2>3 DEF IInv, TypeOK, OnTheRoad, FeedIs, Followed, Last
<1>5. QED
  BY <1>1, <1>2, <1>3, <1>4 DEF Next

LEMMA Invariance == Spec => []IInv
<1>1. QED
  BY InitHolds, NextKeeps, PTL DEF Spec

-----------------------------------------------------------------------------
(* The properties.                                                         *)

\* The clock, the vehicle, the tracks and the record stay within their types.
THEOREM TypeCorrect == Spec => []TypeOK
<1>1. IInv => TypeOK
  BY DEF IInv
<1>2. QED
  BY <1>1, Invariance, PTL

LEMMA InputsAre ==
  ASSUME NEW c \in Card
  PROVE  LiveInputs(c) \in Inputs
<1>1. Known(c.span) => /\ c.span.duration \in Nat \cup {Absent}
                       /\ c.span.remaining \in Nat \cup {Absent}
  BY DEF Card, Known
<1>2. /\ LiveInputs(c).duration \in Nat \cup {Unknown}
      /\ LiveInputs(c).remaining \in Nat \cup {Unknown}
  BY <1>1 DEF LiveInputs, Known
<1>3. c.peak \in Int /\ c.tracked \in Nat /\ c.birth \in Int /\ c.located \in BOOLEAN
  BY DEF Card
<1> DEFINE i == LiveInputs(c)
<1>4. i = [delay |-> c.peak, duration |-> i.duration, remaining |-> i.remaining,
           tracked |-> c.tracked, birth |-> c.birth, located |-> c.located]
  BY DEF LiveInputs
<1> HIDE DEF i
<1>5. i \in Inputs
  BY <1>2, <1>3, <1>4 DEF Inputs, i
<1>6. QED
  BY <1>5 DEF i

\* score.rs: "nothing here can promote a 4-minute trip over a 90-minute one".
\* Whatever the schedule, the feed and the vehicle did, the score of a ranked trip
\* is between 0.54 and 2.7 times its worst vouched-for delay.
THEOREM ScoresAreOfTheirDelays == Spec => []ScoreIsOfItsDelay
<1>1. IInv => ScoreIsOfItsDelay
  <2> SUFFICES ASSUME IInv, Known(card)
               PROVE  OfItsDelay(LiveInputs(card))
    BY DEF ScoreIsOfItsDelay
  <2>1. card \in Card
    BY DEF IInv, TypeOK, Known
  <2>2. QED
    BY <2>1, InputsAre, FactorsAreBounded
<1>2. QED
  BY <1>1, Invariance, PTL

\* One step of a watched trip, from its record c to its record d.
LEMMA RecordGrows ==
  ASSUME NEW c \in Card, NEW d \in Card,
         c.peak <= d.peak, c.birth = d.birth, c.tracked <= d.tracked,
         c.located => d.located, Known(c.span) => d.span = c.span
  PROVE  ScoreWithoutReach(c) <= ScoreWithoutReach(d)
<1> DEFINE i == [LiveInputs(c) EXCEPT !.remaining = Unknown]
           j == [LiveInputs(d) EXCEPT !.remaining = Unknown]
<1>1. /\ i.delay = c.peak /\ j.delay = d.peak /\ i.birth = c.birth /\ j.birth = d.birth
      /\ i.tracked = c.tracked /\ j.tracked = d.tracked
      /\ i.located = c.located /\ j.located = d.located
  BY DEF LiveInputs
<1>2. i.duration \in {Unknown, j.duration} /\ i.remaining = Unknown
  BY DEF LiveInputs
<1>3. i \in Inputs /\ j \in Inputs
  BY InputsAre DEF Inputs
<1>4. LiveScore(i) = ScoreWithoutReach(c) /\ LiveScore(j) = ScoreWithoutReach(d)
  BY DEF ScoreWithoutReach
<1> HIDE DEF i, j
<1>5. i.located => j.located
  BY <1>1, Zenon
<1>6. Grows(i, j)
  BY <1>1, <1>2, <1>5 DEF Grows
<1>7. LiveScore(i) <= LiveScore(j)
  BY <1>3, <1>6, ScoreGrows
<1>8. QED
  BY <1>4, <1>7

\* Every factor of the score but reach is monotone in what a poll can change of a
\* watched trip's record, so no poll, and nothing else, lowers what they make of it.
THEOREM ScoresNeverFall == Spec => ScoreNeverFalls
<1>1. ASSUME IInv, [Next]_vars, Known(card), Known(card'), Trip \in DOMAIN tracks',
             card.last_seen >= tracks'[Trip].born_at
      PROVE  ScoreWithoutReach(card') >= ScoreWithoutReach(card)
  <2>1. IInv'
    BY <1>1, NextKeeps
  <2>2. card \in Card /\ card' \in Card
    BY <1>1, <2>1 DEF IInv, TypeOK, Known
  <2>3. CASE card' = card
    <3>1. ScoreWithoutReach(card) <= ScoreWithoutReach(card)
      BY <2>2, RecordGrows DEF Card
    <3>2. QED
      BY <2>3, <3>1
  <2>4. CASE Poll /\ card' # card
    <3>1. PICK m : /\ IsMeasurement(m)
                   /\ card' = Upsert(m, tracks'[Trip], loaded')
                   /\ tracks'[Trip].last_seen = now
      BY <1>1, <2>4, Polled DEF Known
    <3>2. tracks'[Trip] \in Track /\ tracks'[Trip].born_at <= now
      BY <1>1, <2>4, Polled DEF AreTracks
    <3>3. /\ card'.birth = tracks'[Trip].birth_delay
          /\ card'.tracked = now - tracks'[Trip].born_at
          /\ card.peak <= card'.peak
          /\ card.located => card'.located
          /\ Known(card.span) => card'.span = card.span
      BY <1>1, <3>1, <3>2, RecordIs
    <3>4. card.last_seen < now /\ now \in Nat /\ card.last_seen \in Nat
      BY <1>1, <2>2, <2>4 DEF IInv, Followed, OnTheRoad, Poll, Card
    <3>5. /\ Trip \in DOMAIN tracks
          /\ tracks'[Trip].born_at = tracks[Trip].born_at
          /\ tracks'[Trip].birth_delay = tracks[Trip].birth_delay
      BY <1>1, <2>4, <3>2, <3>4, Polled
    <3>6. /\ card.birth = tracks[Trip].birth_delay
          /\ card.tracked = card.last_seen - tracks[Trip].born_at
      BY <1>1, <3>5 DEF IInv, Followed, OfTheTrack
    <3>7. card.birth = card'.birth /\ card.tracked <= card'.tracked
      BY <3>2, <3>3, <3>4, <3>5, <3>6 DEF Track
    <3>8. ScoreWithoutReach(card) <= ScoreWithoutReach(card')
      BY <2>2, <3>3, <3>7, RecordGrows
    <3>9. QED
      BY <3>8
  <2>5. QED
    BY <1>1, <2>3, <2>4 DEF Next, Drive, Publish, vars, memory
<1>2. QED
  BY <1>1, Invariance, PTL DEF ScoreNeverFalls, Spec

-----------------------------------------------------------------------------
(* A vehicle at an end of its trip.                                        *)

LEMMA OnlyLeast ==
  ASSUME NEW S, NEW f, NEW e \in S, S \subseteq Int, \A j \in S : f[j] \in Int,
         \A j \in S : j # e => f[e] < f[j]
  PROVE  /\ IsFirstLeast(e, S, f)
         /\ \A x \in S : IsFirstLeast(x, S, f) => x = e
<1>1. IsFirstLeast(e, S, f)
  BY DEF IsFirstLeast
<1>2. ASSUME NEW x \in S, IsFirstLeast(x, S, f), x # e
      PROVE  FALSE
  <2>1. f[x] < f[e] \/ f[x] = f[e]
    BY <1>2 DEF IsFirstLeast
  <2>2. QED
    BY <1>2, <2>1
<1>3. QED
  BY <1>1, <1>2

\* terminal_stops finds the first and the last row of a timetable.
LEMMA EndsAreTerminal ==
  ASSUME NEW r, IsTimetable(r), Len(r) >= 1, NEW stop, NEW i \in {1, Len(r)},
         stop.seq = r[i].seq \/ stop.id = r[i].id
  PROVE  AtTerminalStop(r, stop)
<1>1. PICK n : /\ n = Len(r) /\ n \in Nat /\ n >= 1 /\ DOMAIN r = 1 .. n
               /\ \A k \in 1 .. n : r[k].seq \in StopSequence /\ r[k].id # Absent
               /\ \A k, j \in 1 .. n : k < j => r[k].seq < r[j].seq
  BY DEF IsTimetable
<1>2. \A k \in 1 .. n : r[k].seq \in Nat
  BY <1>1, SequencesAreNat, Zenon
<1> DEFINE up == [k \in 1 .. n |-> r[k].seq]
           down == [k \in 1 .. n |-> -r[k].seq]
<1>3. 1 \in 1 .. n /\ n \in 1 .. n /\ 1 .. n \subseteq Int
  BY <1>1
<1>4. FirstLeast(DOMAIN r, LAMBDA k : r[k].seq) = 1
  <2>1. /\ \A j \in 1 .. n : up[j] \in Int
        /\ \A j \in 1 .. n : j # 1 => up[1] < up[j]
    <3>1. \A j \in 1 .. n : j # 1 => 1 < j
      BY <1>1
    <3>2. \A j \in 1 .. n : j # 1 => r[1].seq < r[j].seq
      BY <1>1, <1>3, <3>1
    <3>3. QED
      BY <1>2, <1>3, <3>2
  <2>2. /\ IsFirstLeast(1, 1 .. n, up)
        /\ \A x \in 1 .. n : IsFirstLeast(x, 1 .. n, up) => x = 1
    <3> HIDE DEF up
    <3>1. QED
      BY <1>3, <2>1, OnlyLeast
  <2>3. QED
    BY <1>1, <1>3, <2>2 DEF IsFirstLeast, FirstLeast
<1>5. FirstLeast(DOMAIN r, LAMBDA k : -r[k].seq) = n
  <2>1. /\ \A j \in 1 .. n : down[j] \in Int
        /\ \A j \in 1 .. n : j # n => down[n] < down[j]
    <3>1. \A j \in 1 .. n : j # n => j < n
      BY <1>1
    <3>2. \A j \in 1 .. n : j # n => r[j].seq < r[n].seq
      BY <1>1, <1>3, <3>1
    <3>3. QED
      BY <1>2, <1>3, <3>2
  <2>2. /\ IsFirstLeast(n, 1 .. n, down)
        /\ \A x \in 1 .. n : IsFirstLeast(x, 1 .. n, down) => x = n
    <3> HIDE DEF down
    <3>1. QED
      BY <1>3, <2>1, OnlyLeast
  <2>3. QED
    BY <1>1, <1>3, <2>2 DEF IsFirstLeast, FirstLeast
<1>6. r # <<>>
  <2>1. DOMAIN r # {}
    BY <1>1, <1>3
  <2>2. QED
    BY <2>1
<1>7. SameKey(r[i].seq, stop.seq) \/ SameKey(r[i].id, stop.id)
  BY <1>1, <1>2, <1>3, MeasurementAssumption DEF SameKey, Known
<1>8. QED
  BY <1>1, <1>4, <1>5, <1>6, <1>7 DEF AtTerminalStop

\* A feed that tells where a vehicle at an end of its trip is, is about that end.
LEMMA TellsTheEnd ==
  ASSUME IInv, reached \in {0, Last}, NEW wrong \in {0} \cup (reached + 2 .. Last),
         NEW u, u = TripUpdate(wrong), Known(CurrentStop(u, now))
  PROVE  /\ Last >= 1
         /\ \E i \in {1, Last} : \/ CurrentStop(u, now).seq = rows[i].seq
                                 \/ CurrentStop(u, now).id = rows[i].id
<1> DEFINE first == IF style.kept THEN 1 ELSE reached + 1
           Off(i) == IF i = wrong THEN CORRUPTION ELSE 0
           T(i) == Predicted(i) + Off(i)
<1>1. /\ now \in Nat /\ Last \in Nat /\ reached \in 0 .. Last /\ late \in Int
      /\ CORRUPTION \in Nat /\ IsTimetable(rows) /\ DOMAIN rows = 1 .. Last
      /\ at \in Seq(Nat) /\ Len(at) = reached
  <2>1. now \in Nat /\ IsTimetable(rows) /\ CORRUPTION \in Nat /\ at \in Seq(Nat)
    BY JourneyAssumption DEF IInv, OnTheRoad
  <2>2. Last \in Nat /\ DOMAIN rows = 1 .. Last
    BY <2>1 DEF IsTimetable, Last
  <2>3. reached \in 0 .. Last /\ late \in Int /\ Len(at) = reached
    BY DEF IInv, TypeOK
  <2>4. QED
    BY <2>1, <2>2, <2>3
<1>2. u.stops = [k \in 1 .. Last - first + 1 |->
                   StopTimeUpdate(first + k - 1, Off(first + k - 1))]
  BY DEF TripUpdate
<1>3. IsUpdate(u)
  BY PublishedIs
<1>4. Last >= 1 /\ first = 1
  <2>1. PICK k \in DOMAIN u.stops : CurrentStop(u, now) = u.stops[k]
    BY <1>1, <1>3, CurrentIsAStop DEF IsUpdate
  <2>2. k \in 1 .. Last - first + 1
    BY <1>2
  <2>3. Last - first + 1 >= 1
    BY <1>1, <2>2
  <2>4. QED
    BY <1>1, <2>3
<1>5. u.stops = [k \in 1 .. Last |-> StopTimeUpdate(k, Off(k))]
  <2>1. /\ Last - first + 1 = Last
        /\ \A k \in 1 .. Last : first + k - 1 = k
    BY <1>1, <1>4
  <2> HIDE DEF first, Off
  <2>2. QED
    BY <1>2, <2>1
<1> HIDE DEF first
<1>6. \A k \in 1 .. Last :
        /\ u.stops[k].seq = (IF style.numbered THEN rows[k].seq ELSE Absent)
        /\ u.stops[k].id = (IF style.numbered THEN Absent ELSE rows[k].id)
        /\ EventTime(u.stops[k]) = IF style.fields = "bare" THEN Absent ELSE T(k)
        /\ u.stops[k].scheduled
  BY <1>5 DEF StopTimeUpdate, EventTime, Known
<1>7. ScheduledStops(u) = 1 .. Last
  BY <1>5, <1>6 DEF ScheduledStops
<1>8. /\ \A k \in 1 .. Last : rows[k].seq \in Nat /\ rows[k].time \in Nat
      /\ \A k, j \in 1 .. Last : k < j => rows[k].seq < rows[j].seq /\ rows[k].time < rows[j].time
  BY <1>1, SequencesAreNat DEF IsTimetable
<1>9. 1 \in 1 .. Last /\ Last \in 1 .. Last /\ 1 .. Last \subseteq Int
  BY <1>1, <1>4
<1>10. ASSUME NEW i \in {1, Last}, CurrentStop(u, now) = u.stops[i]
       PROVE  \/ CurrentStop(u, now).seq = rows[i].seq
              \/ CurrentStop(u, now).id = rows[i].id
  BY <1>6, <1>9, <1>10
<1>11. ASSUME style.fields = "bare"
       PROVE  CurrentStop(u, now) = u.stops[1]
  <2>1. TimedStops(u) = {}
    BY <1>6, <1>7, <1>11 DEF TimedStops, Known
  <2>2. CurrentStop(u, now) = EarliestStop(u)
    BY <2>1 DEF CurrentStop
  <2> DEFINE numbered == {i \in ScheduledStops(u) : Known(u.stops[i].seq)}
  <2>3. CASE style.numbered
    <3> DEFINE f == [k \in 1 .. Last |-> u.stops[k].seq]
    <3>1. numbered = 1 .. Last
      BY <1>6, <1>7, <1>8, <2>3, MeasurementAssumption DEF Known
    <3>2. /\ \A j \in 1 .. Last : f[j] \in Int
          /\ \A j \in 1 .. Last : j # 1 => f[1] < f[j]
      BY <1>1, <1>6, <1>8, <1>9, <2>3, SMTT(30)
    <3>3. /\ IsFirstLeast(1, 1 .. Last, f)
          /\ \A x \in 1 .. Last : IsFirstLeast(x, 1 .. Last, f) => x = 1
      <4> HIDE DEF f
      <4>1. QED
        BY <1>9, <3>2, OnlyLeast
    <3>4. FirstLeast(1 .. Last, LAMBDA k : u.stops[k].seq) = 1
      BY <1>9, <3>3 DEF IsFirstLeast, FirstLeast
    <3>5. EarliestStop(u) = u.stops[FirstLeast(numbered, LAMBDA k : u.stops[k].seq)]
      BY <1>9, <3>1 DEF EarliestStop
    <3>6. QED
      BY <2>2, <3>1, <3>4, <3>5
  <2>4. CASE ~style.numbered
    <3> DEFINE f == [k \in 1 .. Last |-> k]
    <3>1. numbered = {}
      BY <1>6, <1>7, <2>4 DEF Known
    <3>2. /\ \A j \in 1 .. Last : f[j] \in Int
          /\ \A j \in 1 .. Last : j # 1 => f[1] < f[j]
      BY <1>1, <1>9
    <3>3. /\ IsFirstLeast(1, 1 .. Last, f)
          /\ \A x \in 1 .. Last : IsFirstLeast(x, 1 .. Last, f) => x = 1
      <4> HIDE DEF f
      <4>1. QED
        BY <1>9, <3>2, OnlyLeast
    <3>4. FirstLeast(1 .. Last, LAMBDA k : k) = 1
      BY <1>9, <3>3 DEF IsFirstLeast, FirstLeast
    <3>5. EarliestStop(u) = u.stops[FirstLeast(ScheduledStops(u), LAMBDA k : k)]
      BY <1>7, <1>9, <3>1 DEF EarliestStop
    <3>6. QED
      BY <1>7, <2>2, <3>4, <3>5
  <2>5. QED
    BY <2>3, <2>4
<1>12. ASSUME style.fields # "bare"
       PROVE  \E i \in {1, Last} : CurrentStop(u, now) = u.stops[i]
  <2> DEFINE Gap(k) == Distance(EventTime(u.stops[k]), now)
             f == [k \in 1 .. Last |-> Gap(k)]
  <2>1. PICK e \in {1, Last} : /\ \A k \in 1 .. Last : EventTime(u.stops[k]) \in Int
                               /\ \A k \in 1 .. Last : Gap(k) \in Int
                               /\ \A k \in 1 .. Last : k # e => Gap(e) < Gap(k)
    <3>1. CASE reached = 0
      <4>1. rows[1].time + late > now
        BY <1>1, <1>4, <3>1 DEF IInv, OnTheRoad
      <4>2. /\ \A k \in 1 .. Last : Off(k) \in Nat
            /\ Off(1) = 0
        BY <1>1, <3>1
      <4> HIDE DEF Off
      <4>3. \A k \in 1 .. Last : EventTime(u.stops[k]) = rows[k].time + late + Off(k)
        BY <1>6, <1>12, <3>1 DEF Predicted
      <4>4. \A k \in 1 .. Last : k # 1 => rows[1].time < rows[k].time
        BY <1>1, <1>8, <1>9
      <4>5. \A k \in 1 .. Last : EventTime(u.stops[k]) \in Int /\ EventTime(u.stops[k]) > now
        <5> TAKE k \in 1 .. Last
        <5>1. rows[k].time \in Nat /\ Off(k) \in Nat /\ rows[1].time \in Nat
          BY <1>8, <1>9, <4>2
        <5>2. rows[1].time <= rows[k].time
          BY <4>4, <5>1
        <5>3. EventTime(u.stops[k]) = rows[k].time + late + Off(k)
          BY <4>3
        <5>4. QED
          BY <1>1, <4>1, <5>1, <5>2, <5>3, SMTT(30)
      <4>6. \A k \in 1 .. Last : k # 1 => EventTime(u.stops[1]) < EventTime(u.stops[k])
        <5> SUFFICES ASSUME NEW k \in 1 .. Last, k # 1
                     PROVE  EventTime(u.stops[1]) < EventTime(u.stops[k])
          OBVIOUS
        <5>1. rows[k].time \in Nat /\ Off(k) \in Nat /\ rows[1].time \in Nat
          BY <1>8, <1>9, <4>2
        <5>2. rows[1].time < rows[k].time
          BY <4>4
        <5>3. /\ EventTime(u.stops[k]) = rows[k].time + late + Off(k)
              /\ EventTime(u.stops[1]) = rows[1].time + late + 0
          BY <1>9, <4>2, <4>3
        <5>4. QED
          BY <1>1, <5>1, <5>2, <5>3
      <4>7. /\ \A k \in 1 .. Last : Gap(k) \in Int
            /\ \A k \in 1 .. Last : k # 1 => Gap(1) < Gap(k)
        <5>1. \A k \in 1 .. Last : Gap(k) = EventTime(u.stops[k]) - now
          <6> TAKE k \in 1 .. Last
          <6>1. EventTime(u.stops[k]) \in Int /\ EventTime(u.stops[k]) > now
            BY <4>5
          <6>2. QED
            BY <1>1, <6>1 DEF Distance
        <5> HIDE DEF Gap
        <5>2. 1 \in 1 .. Last
          BY <1>9
        <5>3. ASSUME NEW k \in 1 .. Last
              PROVE  Gap(k) \in Int /\ (k # 1 => Gap(1) < Gap(k))
          <6>1. EventTime(u.stops[k]) \in Int /\ EventTime(u.stops[1]) \in Int
            BY <4>5, <5>2
          <6>2. Gap(k) = EventTime(u.stops[k]) - now /\ Gap(1) = EventTime(u.stops[1]) - now
            BY <5>1, <5>2
          <6>3. k # 1 => EventTime(u.stops[1]) < EventTime(u.stops[k])
            BY <4>6
          <6>4. QED
            BY <1>1, <6>1, <6>2, <6>3
        <5>4. QED
          BY <5>3
      <4>8. QED
        BY <4>5, <4>7
    <3>2. CASE reached = Last
      <4>1. /\ \A k \in 1 .. Last : at[k] \in Nat /\ at[k] <= now
            /\ \A k, j \in 1 .. Last : k < j => at[k] < at[j]
        BY <1>1, <3>2 DEF IInv, OnTheRoad
      <4>2. \A k \in 1 .. Last : Off(k) = 0
        BY <1>1, <3>2
      <4> HIDE DEF Off
      <4>3. \A k \in 1 .. Last : EventTime(u.stops[k]) = at[k]
        BY <1>1, <1>6, <1>12, <3>2, <4>1, <4>2 DEF Predicted
      <4>4. \A k \in 1 .. Last : k # Last => at[k] < at[Last]
        BY <1>1, <1>9, <4>1
      <4>5. /\ \A k \in 1 .. Last : Gap(k) \in Int
            /\ \A k \in 1 .. Last : k # Last => Gap(Last) < Gap(k)
        <5>1. \A k \in 1 .. Last : Gap(k) = now - at[k]
          <6> TAKE k \in 1 .. Last
          <6>1. at[k] \in Nat /\ at[k] <= now /\ EventTime(u.stops[k]) = at[k]
            BY <4>1, <4>3
          <6>2. QED
            BY <1>1, <6>1 DEF Distance
        <5> HIDE DEF Gap
        <5>2. Last \in 1 .. Last
          BY <1>9
        <5>3. ASSUME NEW k \in 1 .. Last
              PROVE  Gap(k) \in Int /\ (k # Last => Gap(Last) < Gap(k))
          <6>1. at[k] \in Nat /\ at[Last] \in Nat
            BY <4>1, <5>2
          <6>2. Gap(k) = now - at[k] /\ Gap(Last) = now - at[Last]
            BY <5>1, <5>2
          <6>3. k # Last => at[k] < at[Last]
            BY <4>4
          <6>4. QED
            BY <1>1, <6>1, <6>2, <6>3
        <5>4. QED
          BY <5>3
      <4>6. QED
        BY <4>1, <4>3, <4>5
    <3>3. QED
      BY <3>1, <3>2
  <2>2. TimedStops(u) = 1 .. Last
    BY <1>7, <2>1, MeasurementAssumption DEF TimedStops, Known
  <2>3. e \in 1 .. Last
    BY <1>9
  <2> HIDE DEF Gap
  <2>4. /\ IsFirstLeast(e, 1 .. Last, f)
        /\ \A x \in 1 .. Last : IsFirstLeast(x, 1 .. Last, f) => x = e
    <3>1. /\ \A j \in 1 .. Last : f[j] \in Int
          /\ \A j \in 1 .. Last : j # e => f[e] < f[j]
      BY <2>1, <2>3
    <3> HIDE DEF f
    <3>2. QED
      BY <1>9, <2>3, <3>1, OnlyLeast
  <2>5. FirstLeast(1 .. Last, Gap) = e
    BY <2>3, <2>4 DEF IsFirstLeast, FirstLeast
  <2>6. CurrentStop(u, now) \in {u.stops[FirstLeast(1 .. Last, Gap)], Absent}
    BY <1>9, <2>2 DEF CurrentStop, Gap
  <2>7. QED
    BY <2>5, <2>6 DEF Known
<1>13. QED
  BY <1>4, <1>10, <1>11, <1>12

\* delay.rs: "A vehicle parked at one of the trip's terminal stops isn't a delayed
\* bus".  The stop a feed predicts nearest to now is the origin until the vehicle
\* has left it, and the destination when it has arrived.
THEOREM EndsAreSilent == Spec => []EndpointsAreSilent
<1>1. ASSUME IInv, loaded, made = now, reached \in {0, Last}, Len(feed) = 1,
             Known(CurrentStop(feed[1], now))
      PROVE  Delays = {}
  <2>1. PICK wrong \in {0} \cup (reached + 2 .. Last) : feed = <<TripUpdate(wrong)>>
    BY <1>1 DEF IInv, FeedIsLatest
  <2>2. PICK u : u = TripUpdate(wrong) /\ u = feed[1] /\ u.trip = Trip
    BY <2>1 DEF TripUpdate
  <2> DEFINE stop == CurrentStop(u, now)
  <2>3. IsTimetable(rows) /\ Known(rows) /\ Last = Len(rows)
    BY <1>1 DEF IInv, OnTheRoad, IsTimetable, Last, Known
  <2>4. /\ Last >= 1
        /\ \E i \in {1, Last} : stop.seq = rows[i].seq \/ stop.id = rows[i].id
    BY <1>1, <2>2, TellsTheEnd
  <2> HIDE DEF stop
  <2>5. AtTerminalStop(rows, stop)
    BY <2>3, <2>4, EndsAreTerminal
  <2>6. MeasureDelay(u, rows, now) = Absent
    BY <1>1, <2>2, <2>3, <2>5 DEF MeasureDelay, stop
  <2>7. Schedules = [t \in {Trip} |-> rows]
    BY <1>1 DEF Schedules
  <2>8. Known(Schedules)
    <3>1. rows \in {s.rows : s \in Scenarios}
      BY <1>1 DEF IInv, OnTheRoad
    <3>2. Schedules \in [{Trip} -> {s.rows : s \in Scenarios}]
      BY <2>7, <3>1
    <3>3. QED
      BY <3>2, JourneyAssumption DEF Known
  <2>9. \A k \in DOMAIN feed :
          feed[k] = u /\ (Known(Trip) => Schedules[Trip] = rows)
    BY <2>1, <2>2, <2>7
  <2>10. ASSUME NEW m \in Delays
         PROVE  FALSE
    <3> DEFINE Rows(trip) == IF Known(Schedules) /\ Known(trip) THEN Schedules[trip] ELSE Absent
    <3>1. PICK k \in DOMAIN feed : m = MeasureDelay(feed[k], Rows(feed[k].trip), now) /\ Known(m)
      BY <2>10 DEF Delays, DelayedTrips
    <3>2. m = MeasureDelay(u, Rows(Trip), now) /\ Known(m)
      BY <2>2, <2>9, <3>1
    <3>3. CASE Known(Trip)
      BY <2>6, <2>8, <2>9, <3>2, <3>3 DEF Known
    <3>4. CASE ~Known(Trip)
      BY <2>2, <3>2, <3>4 DEF MeasureDelay, Known
    <3>5. QED
      BY <3>3, <3>4
  <2>11. QED
    BY <2>10
<1>2. QED
  BY <1>1, Invariance, PTL DEF EndpointsAreSilent

-----------------------------------------------------------------------------
(* The delay shown and the vehicle.                                        *)

\* No trip calls at a stop twice: a stop without its sequence is looked up by its
\* id, and the first row that has it is taken for it.
StopsAreDistinct(r) == \A i, j \in DOMAIN r : r[i].id = r[j].id => i = j

\* A corrupt prediction is off by less than a day, and by more than any delay that
\* grew while the trip was not seen.
CorruptionShows ==
  /\ CORRUPTION <= DAY
  /\ CORRUPTION > ABSENCE_RESET + JUMP_SLACK + MaxLate

\* A delay the vehicle has had, or one so large that it shows.
Plausible(d, w) == d <= w \/ d >= CORRUPTION

\* What an update claims of a vehicle that was w late at worst: stop by stop a
\* delay it has had, or a corrupt one.
Claims(u, w, r) ==
  /\ Known(u.delay) => u.delay <= w
  /\ \A k \in DOMAIN u.stops : \E i \in DOMAIN r :
       /\ \/ u.stops[k].seq = r[i].seq
          \/ u.stops[k].seq = Absent /\ u.stops[k].id = r[i].id
       /\ u.stops[k].departure = [time |-> Absent, delay |-> Absent]
       /\ Known(u.stops[k].arrival.delay) => Plausible(u.stops[k].arrival.delay, w)
       /\ Known(u.stops[k].arrival.time) =>
            /\ Plausible(u.stops[k].arrival.time - r[i].time, w)
            /\ u.stops[k].arrival.time - r[i].time <= w + CORRUPTION

\* A track that is credited has never held more than the vehicle's delay.
Believed(known, w) == \A x \in DOMAIN known : known[x].credible => known[x].last_delay <= w

Vouched ==
  /\ StopsAreDistinct(rows)
  /\ \A i \in 1 .. reached : at[i] - rows[i].time <= worst
  /\ \A k \in DOMAIN feed : Claims(feed[k], worst, rows)
  /\ Believed(tracks, worst)
  /\ Known(card) => card.peak <= worst

LEMMA ArrivalIsTheRows ==
  ASSUME NEW r, IsTimetable(r), StopsAreDistinct(r), NEW i \in DOMAIN r, NEW stop,
         stop.seq = r[i].seq \/ (stop.seq = Absent /\ stop.id = r[i].id)
  PROVE  ScheduledArrival(r, stop) = r[i].time
<1> DEFINE matches == {j \in DOMAIN r : SameKey(r[j].seq, stop.seq) \/ SameKey(r[j].id, stop.id)}
           Rank(j) == IF SameKey(r[j].seq, stop.seq) THEN 0 ELSE 1
           f == [j \in matches |-> Rank(j)]
<1>1. PICK n : /\ n \in Nat /\ DOMAIN r = 1 .. n
               /\ \A j \in DOMAIN r : r[j].seq \in Nat /\ r[j].id # Absent
               /\ \A j, k \in DOMAIN r : j < k => r[j].seq < r[k].seq
  BY SequencesAreNat, Zenon DEF IsTimetable
<1> /\ \A j \in DOMAIN r : SameKey(r[j].seq, stop.seq) <=> r[j].seq = stop.seq
    /\ \A j \in DOMAIN r : SameKey(r[j].id, stop.id) <=> r[j].id = stop.id
  BY <1>1, MeasurementAssumption DEF SameKey, Known
<1>2. /\ i \in matches /\ matches \in SUBSET (1 .. n) /\ matches \subseteq DOMAIN r
      /\ \A j \in matches : f[j] \in {0, 1} /\ f[j] = Rank(j)
  BY <1>1
<1>3. PICK e \in matches : IsFirstLeast(e, matches, f)
  <2>1. \A j \in matches : f[j] \in Int
    BY <1>2
  <2> HIDE DEF matches, Rank, f
  <2>2. QED
    BY <1>1, <1>2, <2>1, LeastExists
<1>4. PICK x \in matches : x = FirstLeast(matches, Rank) /\ IsFirstLeast(x, matches, f)
  <2> HIDE DEF matches, Rank
  <2>1. QED
    BY <1>3 DEF FirstLeast, IsFirstLeast
<1>5. x = i
  <2>1. CASE stop.seq = r[i].seq
    <3>1. f[i] = 0
      BY <1>2, <2>1
    <3>2. f[x] = 0
      <4> HIDE DEF f, matches, Rank
      <4>1. f[x] < f[i] \/ f[x] = f[i]
        BY <1>2, <1>4 DEF IsFirstLeast
      <4>2. f[x] \in {0, 1}
        BY <1>2, <1>4
      <4>3. QED
        BY <3>1, <4>1, <4>2
    <3>3. r[x].seq = r[i].seq
      <4>1. Rank(x) = 0
        <5> HIDE DEF f, matches, Rank
        <5>1. QED
          BY <1>2, <1>4, <3>2
      <4>2. QED
        BY <2>1, <4>1
    <3> HIDE DEF f, matches, Rank
    <3>4. x \in 1 .. n /\ i \in 1 .. n /\ x \in DOMAIN r
      BY <1>1, <1>2, <1>4
    <3>5. ~(x < i) /\ ~(i < x)
      BY <1>1, <3>3, <3>4
    <3>6. QED
      BY <1>1, <3>4, <3>5
  <2>2. CASE stop.seq = Absent /\ stop.id = r[i].id
    <3>1. x \in DOMAIN r
      <4> HIDE DEF f, matches, Rank
      <4>1. QED
        BY <1>2, <1>4
    <3>2. r[x].seq # Absent
      BY <1>1, <3>1, MeasurementAssumption
    <3>3. r[x].id = r[i].id
      BY <1>4, <2>2, <3>2
    <3>4. QED
      BY <3>1, <3>3 DEF StopsAreDistinct
  <2>3. QED
    BY <2>1, <2>2
<1>6. matches # {} /\ ScheduledArrival(r, stop) = r[FirstLeast(matches, Rank)].time
  BY <1>2 DEF ScheduledArrival
<1>7. QED
  BY <1>4, <1>5, <1>6

\* Whatever it is measured by, a delay is one the vehicle has had, or shows.
LEMMA MeasuresArePlausible ==
  ASSUME CorruptionShows, NEW u, IsUpdate(u), NEW w \in Nat,
         NEW r, IsTimetable(r), StopsAreDistinct(r), Claims(u, w, r),
         NEW s, s \in {r, Absent}, NEW t \in Nat, Known(MeasureDelay(u, s, t))
  PROVE  Plausible(MeasureDelay(u, s, t).delay, w)
<1> DEFINE stop == CurrentStop(u, t)
           delay == TripDelay(u, stop, s, t)
<1>1. Known(delay) /\ MeasureDelay(u, s, t).delay = delay.delay
  BY DEF MeasureDelay, Known
<1>2. CASE Known(u.delay)
  BY <1>1, <1>2 DEF TripDelay, Measured, Claims, Plausible
<1>3. CASE ~Known(u.delay)
  <2>1. Known(stop)
    BY <1>1, <1>3 DEF TripDelay, Known
  <2>2. PICK k \in DOMAIN u.stops : stop = u.stops[k]
    BY <2>1, CurrentIsAStop DEF IsUpdate
  <2>3. PICK i \in DOMAIN r :
          /\ stop.seq = r[i].seq \/ (stop.seq = Absent /\ stop.id = r[i].id)
          /\ stop.departure = [time |-> Absent, delay |-> Absent]
          /\ Known(stop.arrival.delay) => Plausible(stop.arrival.delay, w)
          /\ Known(stop.arrival.time) => /\ Plausible(stop.arrival.time - r[i].time, w)
                                         /\ stop.arrival.time - r[i].time <= w + CORRUPTION
    BY <2>2 DEF Claims
  <2>4. StopDelay(stop) = stop.arrival.delay /\ EventTime(stop) = stop.arrival.time
    BY <2>3 DEF StopDelay, EventTime, Known
  <2>5. CASE Known(StopDelay(stop))
    BY <1>1, <1>3, <2>1, <2>3, <2>4, <2>5 DEF TripDelay, Measured
  <2>6. CASE ~Known(StopDelay(stop))
    <3>1. /\ Known(s) /\ Known(ScheduledComparison(u, stop, s, t))
          /\ delay.delay = ScheduledComparison(u, stop, s, t)
      BY <1>1, <1>3, <2>1, <2>6 DEF TripDelay, Measured, Known
    <3>2. s = r /\ ScheduledArrival(r, stop) = r[i].time
      BY <2>3, <3>1, ArrivalIsTheRows DEF Known
    <3> DEFINE q == DAY * ServiceDate(u, t)
    <3>3. /\ Known(stop.arrival.time)
          /\ delay.delay = stop.arrival.time - (q + r[i].time)
      BY <2>4, <3>1, <3>2 DEF ScheduledComparison, Known
    <3>4. stop.arrival.time \in Int /\ r[i].time \in Nat /\ CORRUPTION \in Nat /\ DAY \in Nat \ {0}
      BY <2>2, <3>3, JourneyAssumption, MeasurementAssumption DEF IsUpdate, IsReport, IsEvent, IsTimetable, Known
    <3>5. q \in Nat /\ (q = 0 \/ q >= DAY)
      <4>1. ServiceDate(u, t) \in Nat
        BY <3>4, Division DEF ServiceDate, IsUpdate, IsReport, Known
      <4>2. PICK d \in Nat : d = ServiceDate(u, t)
        BY <4>1
      <4>3. DAY * d \in Nat
        BY <3>4
      <4>4. d = 0 \/ DAY * 1 <= DAY * d
        BY <3>4, ProductMonotone
      <4>5. QED
        BY <3>4, <4>2, <4>3, <4>4
    <3>6. PICK p \in Int : p = stop.arrival.time - r[i].time /\ Plausible(p, w) /\ p <= w + CORRUPTION
      BY <2>3, <3>3, <3>4
    <3>7. delay.delay = p - q
      <4> HIDE DEF q, delay
      <4>1. QED
        BY <3>3, <3>4, <3>5, <3>6
    <3> HIDE DEF q, delay
    <3>8. QED
      BY <1>1, <3>4, <3>5, <3>6, <3>7 DEF Plausible, CorruptionShows
  <2>7. QED
    BY <2>5, <2>6
<1>4. QED
  BY <1>2, <1>3

\* What was claimed stays claimed when the vehicle gets later.
LEMMA ClaimsLast ==
  ASSUME NEW u, IsUpdate(u), NEW r, IsTimetable(r), NEW w \in Nat, NEW v \in Nat, w <= v,
         Claims(u, w, r)
  PROVE  Claims(u, v, r)
<1>1. /\ CORRUPTION \in Nat /\ u.delay \in Int \cup {Absent}
      /\ \A i \in DOMAIN r : r[i].time \in Nat
      /\ \A k \in DOMAIN u.stops : /\ u.stops[k].arrival.time \in Int \cup {Absent}
                                   /\ u.stops[k].arrival.delay \in Int \cup {Absent}
  BY JourneyAssumption DEF IsUpdate, IsReport, IsEvent, IsTimetable
<1>2. Known(u.delay) => u.delay <= v
  BY <1>1 DEF Claims, Known
<1>3. ASSUME NEW k \in DOMAIN u.stops
      PROVE  \E i \in DOMAIN r :
               /\ \/ u.stops[k].seq = r[i].seq
                  \/ u.stops[k].seq = Absent /\ u.stops[k].id = r[i].id
               /\ u.stops[k].departure = [time |-> Absent, delay |-> Absent]
               /\ Known(u.stops[k].arrival.delay) => Plausible(u.stops[k].arrival.delay, v)
               /\ Known(u.stops[k].arrival.time) =>
                    /\ Plausible(u.stops[k].arrival.time - r[i].time, v)
                    /\ u.stops[k].arrival.time - r[i].time <= v + CORRUPTION
  <2>1. PICK i \in DOMAIN r :
          /\ \/ u.stops[k].seq = r[i].seq
             \/ u.stops[k].seq = Absent /\ u.stops[k].id = r[i].id
          /\ u.stops[k].departure = [time |-> Absent, delay |-> Absent]
          /\ Known(u.stops[k].arrival.delay) => Plausible(u.stops[k].arrival.delay, w)
          /\ Known(u.stops[k].arrival.time) =>
               /\ Plausible(u.stops[k].arrival.time - r[i].time, w)
               /\ u.stops[k].arrival.time - r[i].time <= w + CORRUPTION
    BY DEF Claims
  <2>2. Known(u.stops[k].arrival.delay) => Plausible(u.stops[k].arrival.delay, v)
    BY <1>1, <2>1 DEF Plausible, Known
  <2>3. Known(u.stops[k].arrival.time) =>
          /\ Plausible(u.stops[k].arrival.time - r[i].time, v)
          /\ u.stops[k].arrival.time - r[i].time <= v + CORRUPTION
    BY <1>1, <2>1 DEF Plausible, Known
  <2>4. QED
    BY <2>1, <2>2, <2>3
<1>4. QED
  BY <1>2, <1>3 DEF Claims

LEMMA PublishedClaims ==
  ASSUME IInv, Vouched, NEW wrong \in {0} \cup (reached + 2 .. Last)
  PROVE  Claims(TripUpdate(wrong), worst, rows)
<1> DEFINE first == IF style.kept THEN 1 ELSE reached + 1
           n == Last - first + 1
           Off(i) == IF i = wrong THEN CORRUPTION ELSE 0
           u == TripUpdate(wrong)
<1>1. /\ Last \in Nat /\ reached \in 0 .. Last /\ CORRUPTION \in Nat /\ worst \in Nat
      /\ late \in 0 .. worst /\ DOMAIN rows = 1 .. Last /\ at \in Seq(Nat) /\ Len(at) = reached
      /\ \A i \in 1 .. Last : rows[i].time \in Nat
  <2>1. IsTimetable(rows) /\ CORRUPTION \in Nat /\ at \in Seq(Nat)
    BY JourneyAssumption DEF IInv, OnTheRoad
  <2>2. Last \in Nat /\ DOMAIN rows = 1 .. Last /\ \A i \in 1 .. Last : rows[i].time \in Nat
    BY <2>1 DEF IsTimetable, Last
  <2>3. reached \in 0 .. Last /\ late \in 0 .. worst /\ Len(at) = reached /\ worst \in Nat
    BY DEF IInv, TypeOK
  <2>4. QED
    BY <2>1, <2>2, <2>3
<1>2. \A k \in 1 .. n : first + k - 1 \in 1 .. Last
  BY <1>1
<1>3. /\ u.delay = (IF style.fields = "trip" THEN late ELSE Absent)
      /\ u.stops = [k \in 1 .. n |-> StopTimeUpdate(first + k - 1, Off(first + k - 1))]
  BY DEF TripUpdate
<1>4. Known(u.delay) => u.delay <= worst
  BY <1>1, <1>3 DEF Known
<1>5. \A i \in 1 .. Last : Predicted(i) \in Int /\ Off(i) \in Nat /\ rows[i].time \in Nat
  BY <1>1 DEF Predicted
<1>6. ASSUME NEW i \in 1 .. Last, NEW p, p = Predicted(i) + Off(i)
      PROVE  /\ Plausible(p - rows[i].time, worst)
             /\ p - rows[i].time <= worst + CORRUPTION
  <2>1. CASE i <= reached
    <3>1. p = at[i] /\ at[i] \in Nat
      <4>1. Predicted(i) = at[i] /\ Off(i) = 0 /\ at[i] \in Nat
        BY <1>1, <2>1 DEF Predicted
      <4> HIDE DEF Off
      <4>2. QED
        BY <1>6, <4>1
    <3>2. at[i] - rows[i].time <= worst
      BY <1>1, <2>1 DEF Vouched
    <3>3. QED
      BY <1>1, <3>1, <3>2 DEF Plausible
  <2>2. CASE ~(i <= reached)
    <3>1. Predicted(i) = rows[i].time + late /\ Off(i) \in {0, CORRUPTION}
      BY <2>2 DEF Predicted
    <3> HIDE DEF Off
    <3>2. p \in {rows[i].time + late, rows[i].time + late + CORRUPTION}
      BY <1>1, <1>6, <3>1
    <3>3. QED
      BY <1>1, <3>2 DEF Plausible
  <2>3. QED
    BY <2>1, <2>2
<1> HIDE DEF n, first, Off
<1>7. ASSUME NEW k \in DOMAIN u.stops
      PROVE  \E i \in DOMAIN rows :
               /\ \/ u.stops[k].seq = rows[i].seq
                  \/ u.stops[k].seq = Absent /\ u.stops[k].id = rows[i].id
               /\ u.stops[k].departure = [time |-> Absent, delay |-> Absent]
               /\ Known(u.stops[k].arrival.delay) => Plausible(u.stops[k].arrival.delay, worst)
               /\ Known(u.stops[k].arrival.time) =>
                    /\ Plausible(u.stops[k].arrival.time - rows[i].time, worst)
                    /\ u.stops[k].arrival.time - rows[i].time <= worst + CORRUPTION
  <2>1. PICK i \in 1 .. Last : i = first + k - 1
    BY <1>2, <1>3
  <2>2. PICK x : x = u.stops[k] /\ x = StopTimeUpdate(i, Off(i))
    BY <1>3, <2>1
  <2>3. PICK p : p = Predicted(i) + Off(i)
    OBVIOUS
  <2>4. /\ x.seq = (IF style.numbered THEN rows[i].seq ELSE Absent)
        /\ x.id = (IF style.numbered THEN Absent ELSE rows[i].id)
        /\ x.departure = [time |-> Absent, delay |-> Absent]
        /\ x.arrival.time \in {Absent, p}
        /\ x.arrival.delay \in {Absent, p - rows[i].time}
    <3>1. /\ x.seq = (IF style.numbered THEN rows[i].seq ELSE Absent)
          /\ x.id = (IF style.numbered THEN Absent ELSE rows[i].id)
          /\ x.departure = [time |-> Absent, delay |-> Absent]
          /\ x.arrival.time = (IF style.fields = "bare" THEN Absent ELSE Predicted(i) + Off(i))
          /\ x.arrival.delay = (IF style.fields \in {"stop", "bare"}
                                THEN Predicted(i) + Off(i) - rows[i].time ELSE Absent)
      BY <2>2 DEF StopTimeUpdate
    <3>2. Predicted(i) + Off(i) - rows[i].time = p - rows[i].time
      BY <1>5, <2>3
    <3>3. QED
      BY <2>3, <3>1, <3>2
  <2>5. /\ Plausible(p - rows[i].time, worst)
        /\ p - rows[i].time <= worst + CORRUPTION
    BY <1>6, <2>3
  <2>6. /\ Known(x.arrival.delay) => Plausible(x.arrival.delay, worst)
        /\ Known(x.arrival.time) => /\ Plausible(x.arrival.time - rows[i].time, worst)
                                    /\ x.arrival.time - rows[i].time <= worst + CORRUPTION
    BY <2>4, <2>5, Zenon DEF Known
  <2>7. x.seq = rows[i].seq \/ (x.seq = Absent /\ x.id = rows[i].id)
    BY <2>4
  <2> HIDE DEF u
  <2>8. QED
    BY <1>1, <2>2, <2>4, <2>6, <2>7
<1>8. QED
  BY <1>4, <1>7 DEF Claims

LEMMA DriveVouches ==
  ASSUME IInv, Vouched, NEW change \in {-1, 0, 1}, Drive(change)
  PROVE  Vouched'
<1>1. /\ rows' = rows /\ feed' = feed /\ tracks' = tracks /\ card' = card
      /\ now' = now + 1
      /\ late' = late + change /\ worst' = Furthest(worst, late')
  BY DEF Drive, agency, memory
<1>2. /\ now \in Nat /\ reached \in 0 .. Last /\ Last \in Nat /\ worst \in Nat /\ late \in Int
      /\ at \in Seq(Nat) /\ Len(at) = reached /\ IsTimetable(rows)
      /\ \A i \in 1 .. Last : rows[i].time \in Nat
  <2>1. IsTimetable(rows) /\ at \in Seq(Nat) /\ now \in Nat
    BY DEF IInv, OnTheRoad
  <2>2. Last \in Nat /\ \A i \in 1 .. Last : rows[i].time \in Nat
    BY <2>1 DEF IsTimetable, Last
  <2>3. reached \in 0 .. Last /\ late \in Int /\ Len(at) = reached /\ worst \in Nat
    BY DEF IInv, TypeOK
  <2>4. QED
    BY <2>1, <2>2, <2>3
<1>3. worst' \in Nat /\ worst <= worst' /\ late' <= worst' /\ late' \in Int
  BY <1>1, <1>2 DEF Furthest
<1>4. \A i \in 1 .. reached' : at'[i] - rows[i].time <= worst'
  <2>1. \A i \in 1 .. reached : at[i] - rows[i].time <= worst'
    BY <1>2, <1>3, SMTT(30) DEF Vouched
  <2>2. CASE reached' = reached + 1
    <3>1. /\ at' = Append(at, now + 1) /\ reached < Last
          /\ rows[reached + 1].time + late + change = now + 1
      BY <1>2, <2>2 DEF Drive
    <3>2. at'[reached + 1] = now + 1 /\ \A i \in 1 .. reached : at'[i] = at[i]
      BY <1>2, <3>1
    <3>3. rows[reached + 1].time \in Nat
      BY <1>2, <3>1
    <3>4. at'[reached + 1] - rows[reached + 1].time <= worst'
      <4>1. (now + 1) - rows[reached + 1].time = late + change
        BY <1>2, <3>1, <3>3, SMTT(30)
      <4>2. QED
        BY <1>1, <1>3, <3>2, <4>1
    <3>5. \A i \in 1 .. reached' : i \in 1 .. reached \/ i = reached + 1
      BY <1>2, <2>2
    <3>6. QED
      BY <2>1, <3>2, <3>4, <3>5
  <2>3. CASE reached' = reached /\ at' = at
    BY <2>1, <2>3
  <2>4. QED
    BY <2>2, <2>3 DEF Drive
<1>5. \A k \in DOMAIN feed : Claims(feed[k], worst', rows)
  BY <1>2, <1>3, ClaimsLast DEF Vouched, IInv, FeedIs
<1>6. Believed(tracks, worst')
  BY <1>2, <1>3 DEF Vouched, Believed, IInv, TypeOK, Track
<1>7. Known(card) => card.peak <= worst'
  BY <1>2, <1>3 DEF Vouched, IInv, TypeOK, Card, Known
<1>8. QED
  BY <1>1, <1>4, <1>5, <1>6, <1>7 DEF Vouched

LEMMA PublishVouches ==
  ASSUME IInv, Vouched, Publish
  PROVE  Vouched'
<1>1. /\ reached' = reached /\ at' = at /\ worst' = worst /\ rows' = rows
      /\ tracks' = tracks /\ card' = card
  BY DEF Publish, vehicle, memory
<1>2. ASSUME NEW k \in DOMAIN feed'
      PROVE  Claims(feed'[k], worst, rows)
  <2>1. CASE \E wrong \in {0} \cup (IF style.corrupt THEN reached + 2 .. Last ELSE {}) :
               feed' = <<TripUpdate(wrong)>>
    <3>1. PICK wrong \in {0} \cup (reached + 2 .. Last) : feed' = <<TripUpdate(wrong)>>
      BY <2>1
    <3>2. PICK u : u = TripUpdate(wrong) /\ feed' = <<u>> /\ Claims(u, worst, rows)
      BY <3>1, PublishedClaims
    <3>3. feed'[k] = u
      BY <1>2, <3>2
    <3>4. QED
      BY <3>2, <3>3
  <2>2. CASE feed # <<>> /\ feed' = <<TripUpdate(0), feed[1]>>
    <3>1. PICK u : u = TripUpdate(0) /\ feed' = <<u, feed[1]>> /\ Claims(u, worst, rows)
      BY <2>2, PublishedClaims
    <3>2. Claims(feed[1], worst, rows)
      BY <2>2 DEF Vouched, IInv, FeedIs
    <3>3. feed'[k] \in {u, feed[1]}
      BY <1>2, <3>1
    <3>4. QED
      BY <3>1, <3>2, <3>3
  <2>3. CASE feed' = <<>>
    BY <1>2, <2>3
  <2>4. QED
    BY <2>1, <2>2, <2>3 DEF Publish
<1>3. QED
  BY <1>1, <1>2 DEF Vouched

\* Neither birth nor growth lets a corrupt delay through.
LEMMA FoldBelieves ==
  ASSUME CorruptionShows, NEW w \in Nat, w <= MaxLate, NEW t \in Nat,
         NEW known, AreTracks(known, t), Believed(known, w),
         NEW obs, DOMAIN obs \subseteq {Trip},
         \A x \in DOMAIN obs : obs[x] \in Observation /\ Plausible(obs[x].delay, w)
  PROVE  /\ Believed(Fold(known, obs, t), w)
         /\ \A x \in DOMAIN obs : Fold(known, obs, t)[x].last_delay = obs[x].delay
<1> DEFINE after == Fold(known, obs, t)
<1>1. DOMAIN after = Remembered(known, t) \cup DOMAIN obs /\ Remembered(known, t) \subseteq DOMAIN known
  BY DEF Fold, Remembered
<1>2. /\ CREDIBLE_BIRTH_DELAY \in Nat /\ JUMP_SLACK \in Nat /\ ABSENCE_RESET \in Nat
      /\ MaxLate \in Nat /\ CORRUPTION \in Nat
      /\ CORRUPTION > CREDIBLE_BIRTH_DELAY + MaxLate
      /\ CORRUPTION > ABSENCE_RESET + JUMP_SLACK + MaxLate
  BY TripTrackAssumption, JourneyAssumption DEF CorruptionShows
<1>3. ASSUME NEW x \in DOMAIN after
      PROVE  /\ after[x].credible => after[x].last_delay <= w
             /\ x \in DOMAIN obs => after[x].last_delay = obs[x].delay
  <2>1. CASE x \notin DOMAIN obs
    <3>1. after[x] = known[x] /\ x \in DOMAIN known
      BY <1>1, <2>1 DEF Fold
    <3> HIDE DEF after
    <3>2. QED
      BY <2>1, <3>1 DEF Believed
  <2>2. CASE x \in DOMAIN obs /\ x \in Remembered(known, t)
    <3>1. after[x] = Observe(known[x], obs[x], t) /\ x \in DOMAIN known
      BY <1>1, <2>2 DEF Fold
    <3>2. PICK o, k : o = obs[x] /\ k = known[x]
      OBVIOUS
    <3>3. /\ k \in Track /\ o \in Observation /\ Plausible(o.delay, w)
          /\ t - k.last_seen <= ABSENCE_RESET
          /\ k.credible => k.last_delay <= w
      BY <2>2, <3>1, <3>2 DEF AreTracks, Remembered, Believed
    <3> HIDE DEF after
    <3>4. after[x].last_delay = o.delay
      BY <3>1, <3>2, <3>3 DEF Observe, Track
    <3>5. after[x].credible => k.credible /\ WithinStep(k, o, t)
      BY <3>1, <3>2, <3>3 DEF Observe, Track
    <3>6. ASSUME k.credible, WithinStep(k, o, t)
          PROVE  o.delay <= w
      <4>1. /\ o.delay \in Int /\ k.last_delay \in Int /\ k.last_seen \in Int
            /\ k.last_delay <= w /\ t - k.last_seen <= ABSENCE_RESET
            /\ o.delay <= k.last_delay + (t - k.last_seen) + JUMP_SLACK
        BY <3>3, <3>6 DEF Track, Observation, WithinStep
      <4>2. o.delay <= w + ABSENCE_RESET + JUMP_SLACK
        BY <1>2, <4>1
      <4>3. QED
        BY <1>2, <3>3, <4>1, <4>2 DEF Plausible
    <3>7. QED
      BY <3>2, <3>4, <3>5, <3>6
  <2>3. CASE x \in DOMAIN obs /\ x \notin Remembered(known, t)
    <3>1. after[x] = Born(obs[x], t)
      BY <1>1, <2>3 DEF Fold
    <3>2. PICK o : o = obs[x] /\ o.delay \in Int /\ Plausible(o.delay, w)
      BY <2>3 DEF Observation
    <3> HIDE DEF after
    <3>3. /\ after[x].last_delay = o.delay
          /\ after[x].credible = (o.delay <= CREDIBLE_BIRTH_DELAY)
      <4>1. after[x] = Born(o, t)
        BY <3>1, <3>2
      <4>2. QED
        BY <4>1 DEF Born
    <3>4. o.delay <= CREDIBLE_BIRTH_DELAY => o.delay <= w
      BY <1>2, <3>2 DEF Plausible
    <3>5. QED
      BY <3>2, <3>3, <3>4
  <2>4. QED
    BY <2>1, <2>2, <2>3
<1> HIDE DEF after
<1>4. QED
  BY <1>1, <1>3 DEF Believed, after

LEMMA DelaysArePlausible ==
  ASSUME CorruptionShows, IInv, Vouched
  PROVE  /\ \A m \in Delays : IsMeasurement(m) /\ Plausible(m.delay, worst)
         /\ \A l, m \in Delays : l = m
<1>1. /\ now \in Nat /\ IsTimetable(rows) /\ worst \in Nat
      /\ Len(feed) \in Nat /\ DOMAIN feed = 1 .. Len(feed)
      /\ \A k \in DOMAIN feed : IsUpdate(feed[k]) /\ Claims(feed[k], worst, rows)
      /\ StopsAreDistinct(rows)
  BY DEF IInv, TypeOK, OnTheRoad, FeedIs, Vouched
<1>2. IsSchedule(Schedules)
  BY <1>1 DEF IsSchedule, Schedules, Known, IsTimetable
<1>3. \A m \in Delays : IsMeasurement(m)
  BY <1>1, <1>2, DelaysAre DEF Delays
<1> DEFINE Rows(trip) == IF Known(Schedules) /\ Known(trip) THEN Schedules[trip] ELSE Absent
<1>4. ASSUME NEW m \in Delays
      PROVE  Plausible(m.delay, worst)
  <2>1. PICK k \in DOMAIN feed : m = MeasureDelay(feed[k], Rows(feed[k].trip), now) /\ Known(m)
    BY <1>4 DEF Delays, DelayedTrips
  <2>2. feed[k].trip = Trip
    BY <1>1 DEF IsUpdate, IsReport
  <2>3. Rows(Trip) \in {rows, Absent}
    BY DEF Schedules, Known
  <2> HIDE DEF Rows
  <2>4. QED
    BY <1>1, <2>1, <2>2, <2>3, MeasuresArePlausible
<1>5. \A l, m \in Delays : l = m
  <2>1. \A k \in 1 .. Len(feed) :
          /\ IsReport(feed[k])
          /\ Known(RowsOf(Schedules, feed[k].trip)) => IsRows(RowsOf(Schedules, feed[k].trip))
    <3>1. IsRows(rows)
      BY <1>1 DEF IsTimetable, IsRows
    <3>2. RowsOf(Schedules, Trip) \in {rows, Absent}
      BY DEF Schedules, RowsOf, Known
    <3>3. QED
      BY <1>1, <3>1, <3>2 DEF IsUpdate, Known
  <2>2. \A l, m \in Delays : l.trip = m.trip => l = m
    BY <1>1, <2>1, EachTripOnceByItsWorst DEF Delays
  <2>3. QED
    BY <1>3, <2>2 DEF IsMeasurement
<1>6. QED
  BY <1>3, <1>4, <1>5

LEMMA PollVouches ==
  ASSUME CorruptionShows, IInv, Vouched, Poll
  PROVE  Vouched'
<1> DEFINE delays == Delays
           obs == Observations(delays)
           known == Fold(tracks, obs, now)
           credited == Credited(known, LateTrips(delays))
<1>1. reached' = reached /\ at' = at /\ worst' = worst /\ rows' = rows /\ feed' = feed
  BY DEF Poll, vehicle, agency
<1>2. /\ now \in Nat /\ AreTracks(tracks, now) /\ Believed(tracks, worst)
      /\ worst \in Nat /\ MaxLate \in Nat /\ worst <= MaxLate
  <2>1. worst \in 0 .. MaxLate /\ MaxLate \in Nat
    BY JourneyAssumption DEF IInv, TypeOK
  <2>2. QED
    BY <2>1 DEF IInv, OnTheRoad, Followed, Vouched
<1>3. /\ \A m \in delays : IsMeasurement(m) /\ Plausible(m.delay, worst)
      /\ \A l, m \in delays : l = m
  BY DelaysArePlausible
<1> HIDE DEF delays
<1>4. /\ DOMAIN obs = {m.trip : m \in delays} /\ DOMAIN obs \subseteq {Trip}
      /\ \A x \in DOMAIN obs : obs[x] \in Observation
  BY <1>3, ObservationsAre
<1>5. ASSUME NEW m \in delays
      PROVE  Trip \in DOMAIN obs /\ obs[Trip].delay = m.delay
  <2>1. m.trip = Trip /\ Trip \in DOMAIN obs
    BY <1>3, <1>4, <1>5 DEF IsMeasurement
  <2>2. PICK l \in delays : l = CHOOSE q \in delays : q.trip = Trip
    BY <1>5, <2>1
  <2>3. obs[Trip] = TripObservation(l)
    BY <1>4, <2>1, <2>2 DEF Observations
  <2>4. l = m
    BY <1>3, <1>5
  <2>5. QED
    BY <2>1, <2>3, <2>4 DEF TripObservation
<1> HIDE DEF obs
<1>6. \A x \in DOMAIN obs : Plausible(obs[x].delay, worst)
  <2> TAKE x \in DOMAIN obs
  <2>1. PICK m \in delays : m.trip = x
    BY <1>4
  <2>2. x = Trip /\ obs[x].delay = m.delay
    BY <1>4, <1>5
  <2>3. QED
    BY <1>3, <2>2
<1>7. /\ Believed(known, worst)
      /\ \A x \in DOMAIN obs : known[x].last_delay = obs[x].delay
  BY <1>2, <1>4, <1>6, FoldBelieves
<1> HIDE DEF known
<1>8. tracks' = known
  BY DEF Poll, known, obs, delays
<1>9. Known(card') => card'.peak <= worst
  <2>1. CASE credited = {}
    <3>1. card' = card \/ card' = Absent
      BY <2>1 DEF Poll, known, obs, delays
    <3>2. QED
      BY <3>1 DEF Vouched, Known
  <2>2. CASE credited # {}
    <3>1. PICK m : m = (CHOOSE n \in delays : TRUE) /\ card' = Upsert(m, known[Trip], loaded')
      BY <2>2 DEF Poll, known, obs, delays
    <3>2. PICK n \in delays : n.trip \in credited
      BY <2>2 DEF Credited, LateTrips
    <3>3. m \in delays /\ IsMeasurement(m)
      BY <1>3, <3>1, <3>2
    <3>4. Trip \in DOMAIN known /\ known[Trip].credible
      BY <1>3, <3>2 DEF IsMeasurement, Credited
    <3>5. m.delay <= worst
      BY <1>5, <1>7, <3>3, <3>4 DEF Believed
    <3>6. card'.peak = IF Known(card) THEN Furthest(card.peak, m.delay) ELSE m.delay
      BY <3>1 DEF Upsert
    <3>7. QED
      BY <3>5, <3>6 DEF Vouched, Furthest
  <2>3. QED
    BY <2>1, <2>2
<1>10. QED
  BY <1>1, <1>7, <1>8, <1>9 DEF Vouched

LEMMA VouchedKeeps ==
  ASSUME CorruptionShows, IInv, Vouched, [Next]_vars
  PROVE  Vouched'
<1>1. ASSUME NEW change \in {-1, 0, 1}, Drive(change)
      PROVE  Vouched'
  BY <1>1, DriveVouches
<1>2. CASE Publish
  BY <1>2, PublishVouches
<1>3. CASE Poll
  BY <1>3, PollVouches
<1>4. CASE UNCHANGED vars
  BY <1>4 DEF Vouched, vars, vehicle, agency, memory
<1>5. QED
  BY <1>1, <1>2, <1>3, <1>4 DEF Next

\* history.rs: "only credit lateness we actually watched accumulate".  Whatever
\* the agency publishes, however late it is read, and whichever day it is taken
\* for, a trip is ranked on a delay its vehicle has had.
THEOREM NoTripOutrunsItsVehicle ==
  ASSUME CorruptionShows, \A s \in Scenarios : StopsAreDistinct(s.rows)
  PROVE  Spec => []NeverLaterThanTheVehicle
<1>1. Init => Vouched
  <2> SUFFICES ASSUME Init
               PROVE  Vouched
    OBVIOUS
  <2>1. StopsAreDistinct(rows)
    BY DEF Init
  <2>2. 1 .. reached = {} /\ feed = <<>> /\ DOMAIN tracks = {} /\ card = Absent
    BY DEF Init
  <2>3. QED
    BY <2>1, <2>2 DEF Vouched, Believed, Known
<1>2. IInv /\ Vouched /\ [Next]_vars => Vouched'
  BY VouchedKeeps
<1>3. Vouched => NeverLaterThanTheVehicle
  BY DEF Vouched, NeverLaterThanTheVehicle
<1>4. QED
  BY <1>1, <1>2, <1>3, Invariance, PTL DEF Spec

-----------------------------------------------------------------------------
(* An honest trip.                                                         *)

SegmentsAreShort == \A i \in 1 .. Last - 1 : rows[i + 1].time - rows[i].time <= JUMP_SLACK

\* The antecedent of HonestIsBelieved.
Faultless ==
  /\ style.fresh /\ ~style.corrupt /\ ~style.repeated
  /\ style.kept => SegmentsAreShort

\* Of a feed that keeps its stops: the one reached last is predicted nearer to now
\* than the next.
Nearer == reached = Last \/ now - at[reached] <= rows[reached + 1].time + late - now

\* The stop a faultless feed is about, past the last if it has dropped them all.
About ==
  IF ~style.kept THEN reached + 1
  ELSE IF style.fields = "bare" THEN 1
  ELSE IF reached > 0 /\ Nearer THEN reached ELSE reached + 1

\* The delay it gives there, and what a comparison with the schedule of a trip
\* without a date takes off it after midnight.
Said == IF style.fields = "trip" \/ About > reached THEN late ELSE at[About] - rows[About].time
Midnight(t) == IF style.fields = "times" /\ ~style.dated THEN DAY * (t \div DAY) ELSE 0

\* Since d was measured at t, neither what the feed says nor what it may come to
\* say has grown faster than the clock.
Within(d, t) ==
  /\ Said - Midnight(now) <= d + (now - t) + JUMP_SLACK
  /\ reached < Last /\ ~(style.fields = "bare" /\ style.kept)
       => late - Midnight(now) <= d + (now - t) + JUMP_SLACK

Trusted(track) ==
  /\ track.birth_delay <= CREDIBLE_BIRTH_DELAY => track.credible
  /\ Within(track.birth_delay, track.born_at)
  /\ Within(track.last_delay, track.last_seen)
  /\ track.max_sequence # NoSequence =>
       \E j \in 1 .. Last : j <= About /\ track.max_sequence = rows[j].seq

\* A stop that was reached was due before now, however late the vehicle is.
Passed == reached > 0 => rows[reached].time + late <= now

Honesty ==
  Faultless => /\ made = now /\ feed # <<>> => feed = <<TripUpdate(0)>>
               /\ \A x \in DOMAIN tracks : Trusted(tracks[x])

\* No stop's sequence is so near the width of its type that rule 3 wraps.
SequencesAreFar(r) == \A i \in DOMAIN r : r[i].seq + SEQ_TOLERANCE < U32

LEMMA RoadIs ==
  ASSUME IInv
  PROVE  /\ now \in Nat /\ Last \in Nat /\ reached \in 0 .. Last /\ late \in Int
         /\ IsTimetable(rows) /\ DOMAIN rows = 1 .. Last
         /\ \A i \in 1 .. Last : rows[i].seq \in Nat /\ rows[i].time \in Nat
         /\ \A i, j \in 1 .. Last : i < j => rows[i].seq < rows[j].seq /\ rows[i].time < rows[j].time
         /\ at \in Seq(Nat) /\ Len(at) = reached
         /\ \A i \in 1 .. reached : at[i] \in Nat /\ at[i] <= now
         /\ \A i, j \in 1 .. reached : i < j => at[i] < at[j]
         /\ reached < Last => rows[reached + 1].time + late > now
         /\ style \in Style /\ JUMP_SLACK \in Nat /\ DAY \in Nat \ {0}
<1>1. /\ now \in Nat /\ IsTimetable(rows) /\ at \in Seq(Nat)
      /\ \A i \in 1 .. reached : at[i] <= now
      /\ \A i, j \in 1 .. reached : i < j => at[i] < at[j]
      /\ reached < Last => rows[reached + 1].time + late > now
  BY DEF IInv, OnTheRoad
<1>2. /\ reached \in 0 .. Last /\ late \in Int /\ Len(at) = reached /\ style \in Style
  BY DEF IInv, TypeOK
<1>3. /\ Last \in Nat /\ DOMAIN rows = 1 .. Last
      /\ \A i \in 1 .. Last : rows[i].seq \in Nat /\ rows[i].time \in Nat
      /\ \A i, j \in 1 .. Last : i < j => rows[i].seq < rows[j].seq /\ rows[i].time < rows[j].time
  BY <1>1, SequencesAreNat DEF IsTimetable, Last
<1>4. \A i \in 1 .. reached : at[i] \in Nat
  BY <1>1, <1>2
<1>5. JUMP_SLACK \in Nat /\ DAY \in Nat \ {0}
  BY TripTrackAssumption, MeasurementAssumption
<1>6. QED
  BY <1>1, <1>2, <1>3, <1>4, <1>5

LEMMA RoadNumbers ==
  ASSUME IInv
  PROVE  /\ now \in Nat /\ Last \in Nat /\ reached \in Nat /\ reached <= Last /\ late \in Int
         /\ style \in Style /\ JUMP_SLACK \in Nat
BY RoadIs

LEMMA MidnightIs ==
  ASSUME NEW t \in Nat, DAY \in Nat \ {0}
  PROVE  Midnight(t) \in Nat /\ Midnight(t) <= Midnight(t + 1)
<1>1. PICK p, q : p = t \div DAY /\ q = (t + 1) \div DAY
  OBVIOUS
<1>2. p \in Nat /\ q \in Nat
  BY <1>1, Division
<1>3. p <= q
  <2>1. t * DAY <= (t + 1) * DAY
    BY ProductMonotone
  <2>2. QED
    BY <1>1, <2>1, QuotientMonotone
<1>4. DAY * p \in Nat /\ DAY * p <= DAY * q
  BY <1>2, <1>3, ProductMonotone
<1>5. QED
  BY <1>1, <1>4 DEF Midnight

LEMMA AboutIs ==
  ASSUME IInv
  PROVE  /\ About \in 1 .. Last + 1 \/ Last = 0
         /\ About \in Nat
         /\ About <= reached => About \in 1 .. reached
         /\ Said \in Int
<1>1. /\ About \in Nat /\ (About \in 1 .. Last + 1 \/ Last = 0)
      /\ About <= reached => About \in 1 .. reached
  BY RoadIs DEF About
<1>2. Said \in Int
  <2>1. CASE style.fields = "trip" \/ About > reached
    BY <2>1, RoadIs DEF Said
  <2>2. CASE ~(style.fields = "trip" \/ About > reached)
    <3>1. About \in 1 .. reached /\ About \in 1 .. Last
      BY <1>1, <2>2, RoadIs
    <3>2. at[About] \in Nat /\ rows[About].time \in Nat
      BY <3>1, RoadIs
    <3>3. QED
      BY <2>2, <3>2 DEF Said
  <2>3. QED
    BY <2>1, <2>2
<1>3. QED
  BY <1>1, <1>2

\* The vehicle goes on: the stop the feed is about does not go back, and what it
\* says stays or is the lateness of now.
LEMMA DriveSays ==
  ASSUME IInv, NEW change \in {-1, 0, 1}, Drive(change)
  PROVE  /\ now' = now + 1 /\ late' = late + change /\ rows' = rows /\ style' = style
         /\ reached <= reached' /\ reached' \in Nat
         /\ About <= About'
         /\ \/ Said' = Said
            \/ /\ Said' = late' /\ reached < Last
               /\ style.fields = "bare" /\ style.kept => Said = late
<1>1. /\ now' = now + 1 /\ late' = late + change /\ rows' = rows /\ style' = style /\ Last' = Last
      /\ reached = Last => change = 0
  BY DEF Drive, agency, Last
<1>2. CASE reached' = reached /\ at' = at
  <2>1. reached > 0 /\ Nearer' => Nearer
    <3>1. CASE reached = Last
      BY <3>1 DEF Nearer
    <3>2. CASE reached > 0 /\ reached # Last
      <4>0. reached \in 1 .. reached /\ reached + 1 \in 1 .. Last
        BY <3>2, RoadIs
      <4>1. PICK a \in Nat, b \in Nat : a = at[reached] /\ b = rows[reached + 1].time
        BY <4>0, RoadIs
      <4>2. /\ now' = now + 1 /\ late' = late + change
            /\ at'[reached'] = a /\ rows'[reached' + 1].time = b /\ reached' # Last'
        BY <1>1, <1>2, <3>2, <4>1
      <4>3. Nearer' <=> now' - a <= b + late' - now'
        BY <4>2 DEF Nearer
      <4>4. Nearer <=> now - a <= b + late - now
        BY <3>2, <4>1 DEF Nearer
      <4>5. now \in Int /\ late \in Int
        BY RoadIs
      <4>6. QED
        BY <4>1, <4>2, <4>3, <4>4, <4>5
    <3>3. QED
      BY <3>1, <3>2
  <2>2. About <= About'
    <3>1. reached \in Nat /\ reached' = reached /\ style' = style
      BY <1>1, <1>2, RoadIs
    <3>2. QED
      BY <2>1, <3>1 DEF About
  <2>3. CASE reached = Last
    <3>1. Nearer' = Nearer
      BY <1>1, <1>2, <2>3 DEF Nearer
    <3>2. About' = About
      BY <1>1, <1>2, <3>1 DEF About
    <3>3. late' = late
      BY <1>1, <2>3, RoadIs
    <3>4. Said' = Said
      BY <1>1, <1>2, <3>2, <3>3 DEF Said
    <3>5. QED
      BY <1>1, <1>2, <2>2, <3>4, RoadIs
  <2>4. CASE reached < Last
    <3>1. CASE style.fields = "trip" \/ About' > reached
      <4>1. Said' = late'
        BY <1>1, <1>2, <3>1 DEF Said
      <4>2. style.fields = "bare" /\ style.kept => Said = late
        BY <1>1, <3>1 DEF Said, About
      <4>3. QED
        BY <1>1, <1>2, <2>2, <2>4, <4>1, <4>2, RoadIs
    <3>2. CASE ~(style.fields = "trip" \/ About' > reached)
      <4>1. About = About'
        BY <1>1, <1>2, <2>1, <3>2, RoadIs DEF About
      <4>2. Said' = Said
        BY <1>1, <1>2, <3>2, <4>1 DEF Said
      <4>3. QED
        BY <1>1, <1>2, <2>2, <4>2, RoadIs
    <3>3. QED
      BY <3>1, <3>2
  <2>5. QED
    BY <2>3, <2>4, RoadIs
<1>3. CASE reached' = reached + 1
  <2>1. /\ reached < Last /\ at' = Append(at, now + 1)
        /\ rows[reached + 1].time + late + change = now + 1
    BY <1>3, RoadNumbers DEF Drive
  <2>2. at'[reached + 1] = now + 1 /\ \A i \in 1 .. reached : at'[i] = at[i]
    BY <2>1, RoadIs
  <2>3. at'[reached + 1] - rows[reached + 1].time = late'
    <3>1. PICK b \in Nat : b = rows[reached + 1].time
      BY <2>1, RoadIs
    <3>2. now \in Int /\ late \in Int
      BY RoadIs
    <3>3. b + late + change = now + 1 /\ late' = late + change /\ at'[reached + 1] = now + 1
      BY <1>1, <2>1, <2>2, <3>1
    <3>4. (now + 1) - b = late'
      BY <3>1, <3>2, <3>3
    <3>5. QED
      BY <3>1, <3>3, <3>4
  <2>4. About <= About'
    BY <1>1, <1>3, RoadNumbers DEF About
  <2>5. CASE style.fields = "trip" \/ About' >= reached + 1
    <3>1. About' <= reached' => About' = reached + 1
      BY <1>1, <1>3, <2>5, RoadNumbers DEF About
    <3>2. Said' = late'
      BY <1>1, <1>3, <2>3, <2>5, <3>1, RoadNumbers DEF Said, About
    <3>3. style.fields = "bare" /\ style.kept => Said = late
      BY <1>1, <2>5, RoadNumbers DEF Said, About
    <3>4. QED
      BY <1>1, <1>3, <2>1, <2>4, <3>2, <3>3, RoadNumbers
  <2>6. CASE ~(style.fields = "trip" \/ About' >= reached + 1)
    <3>1. About' = 1 /\ About = 1 /\ reached >= 1
      BY <1>1, <1>3, <2>6, RoadNumbers DEF About
    <3>2. Said' = at'[1] - rows[1].time /\ Said = at[1] - rows[1].time
      BY <1>1, <1>3, <2>6, <3>1, RoadNumbers DEF Said
    <3>3. Said' = Said
      BY <2>2, <3>1, <3>2, RoadNumbers
    <3>4. QED
      BY <1>1, <1>3, <2>4, <3>3, RoadNumbers
  <2>7. QED
    BY <2>5, <2>6
<1>4. QED
  BY <1>2, <1>3 DEF Drive

LEMMA DriveKeepsWithin ==
  ASSUME IInv, NEW change \in {-1, 0, 1}, Drive(change),
         NEW d \in Int, NEW t \in Int, Within(d, t)
  PROVE  Within(d, t)'
<1>1. /\ now' = now + 1 /\ late' = late + change /\ rows' = rows /\ style' = style /\ Last' = Last
      /\ reached <= reached' /\ reached' \in Nat
      /\ \/ Said' = Said
         \/ /\ Said' = late' /\ reached < Last
            /\ style.fields = "bare" /\ style.kept => Said = late
  BY DriveSays DEF Last
<1>2. /\ now \in Nat /\ late \in Int /\ Said \in Int /\ JUMP_SLACK \in Nat
      /\ reached \in Nat /\ Last \in Nat
  BY RoadIs, AboutIs
<1>3. PICK p \in Nat, q \in Nat : p = Midnight(now) /\ q = Midnight(now + 1) /\ p <= q
  <2>1. DAY \in Nat \ {0} /\ now + 1 \in Nat
    BY <1>2, RoadIs
  <2>2. QED
    BY <1>2, <2>1, MidnightIs
<1>4. Midnight(now)' = q
  BY <1>1, <1>3 DEF Midnight
<1>5. PICK x \in Int, y \in Int : x = Said /\ y = Said' /\ (y = x \/ (y = late + change /\ reached < Last
          /\ (style.fields = "bare" /\ style.kept => x = late)))
  BY <1>1, <1>2
<1>6. /\ x - p <= d + (now - t) + JUMP_SLACK
      /\ reached < Last /\ ~(style.fields = "bare" /\ style.kept)
           => late - p <= d + (now - t) + JUMP_SLACK
  BY <1>3, <1>5 DEF Within
<1>7. y - q <= d + (now + 1 - t) + JUMP_SLACK
  <2>1. CASE y = x
    BY <1>2, <1>3, <1>6, <2>1
  <2>2. CASE y = late + change /\ late - p <= d + (now - t) + JUMP_SLACK
    BY <1>2, <1>3, <2>2
  <2>3. QED
    BY <1>5, <1>6, <2>1, <2>2
<1>8. reached' < Last /\ ~(style.fields = "bare" /\ style.kept)
        => late + change - q <= d + (now + 1 - t) + JUMP_SLACK
  <2>1. SUFFICES ASSUME reached' < Last, ~(style.fields = "bare" /\ style.kept)
                 PROVE  late + change - q <= d + (now + 1 - t) + JUMP_SLACK
    OBVIOUS
  <2>2. late - p <= d + (now - t) + JUMP_SLACK
    BY <1>1, <1>2, <1>6, <2>1
  <2>3. QED
    BY <1>2, <1>3, <2>2
<1>9. Said' - Midnight(now)' <= d + (now' - t) + JUMP_SLACK
  <2>1. Said' = y /\ now' = now + 1
    BY <1>1, <1>5
  <2>2. y - q <= d + (now' - t) + JUMP_SLACK
    BY <1>2, <1>7, <2>1
  <2>3. QED
    BY <1>4, <2>1, <2>2
<1>10. reached' < Last' /\ ~(style'.fields = "bare" /\ style'.kept)
         => late' - Midnight(now)' <= d + (now' - t) + JUMP_SLACK
  <2>1. /\ now' = now + 1 /\ late' = late + change
        /\ reached' < Last' /\ ~(style'.fields = "bare" /\ style'.kept)
             => reached' < Last /\ ~(style.fields = "bare" /\ style.kept)
    BY <1>1
  <2>2. reached' < Last' /\ ~(style'.fields = "bare" /\ style'.kept)
          => late' - q <= d + (now' - t) + JUMP_SLACK
    BY <1>2, <1>8, <2>1
  <2>3. QED
    BY <1>4, <2>2
<1>11. QED
  BY <1>9, <1>10 DEF Within

LEMMA DriveKeepsPassed ==
  ASSUME IInv, Passed, NEW change \in {-1, 0, 1}, Drive(change)
  PROVE  Passed'
<1>1. now' = now + 1 /\ late' = late + change /\ rows' = rows
  BY DriveSays
<1>2. CASE reached' = reached
  <2>1. SUFFICES ASSUME reached > 0
                 PROVE  rows[reached].time + late' <= now'
    BY <1>1, <1>2 DEF Passed
  <2>2. reached \in 1 .. Last
    BY <2>1, RoadIs
  <2>3. PICK b \in Nat : b = rows[reached].time /\ b + late <= now
    BY <2>1, <2>2, RoadIs DEF Passed
  <2>4. late \in Int /\ now \in Int
    BY RoadIs
  <2>5. QED
    BY <1>1, <2>3, <2>4
<1>3. CASE reached' = reached + 1
  <2>1. rows[reached + 1].time + late + change = now + 1 /\ reached < Last
    BY <1>3, RoadNumbers DEF Drive
  <2>2. PICK b \in Nat : b = rows[reached + 1].time
    BY <2>1, RoadIs
  <2>3. b + late' <= now'
    <3>1. late \in Int /\ now \in Int /\ b + late + change = now + 1
      BY <2>1, <2>2, RoadIs
    <3>2. QED
      BY <1>1, <2>2, <3>1
  <2>4. QED
    BY <1>1, <1>3, <2>2, <2>3 DEF Passed
<1>4. QED
  BY <1>2, <1>3 DEF Drive

LEMMA DriveIsHonest ==
  ASSUME IInv, Honesty, NEW change \in {-1, 0, 1}, Drive(change)
  PROVE  Honesty'
<1>1. SUFFICES ASSUME Faultless'
               PROVE  made' # now' /\ (\A x \in DOMAIN tracks : Trusted(tracks[x]))'
  BY DEF Honesty
<1>2. /\ now' = now + 1 /\ rows' = rows /\ style' = style /\ Last' = Last
      /\ made' = made /\ tracks' = tracks
  BY DEF Drive, agency, memory, Last
<1>3. Faultless
  BY <1>1, <1>2 DEF Faultless, SegmentsAreShort
<1>4. made' # now'
  <2>1. made \in 0 .. now /\ now \in Nat
    BY DEF IInv, TypeOK, OnTheRoad
  <2>2. QED
    BY <1>2, <2>1
<1>5. ASSUME NEW x \in DOMAIN tracks
      PROVE  Trusted(tracks[x])'
  <2>1. PICK k \in Track : k = tracks[x] /\ Trusted(k)
    BY <1>3 DEF Honesty, IInv, TypeOK
  <2>2. /\ k.birth_delay \in Int /\ k.born_at \in Int /\ k.last_delay \in Int /\ k.last_seen \in Int
    BY DEF Track
  <2>3. Within(k.birth_delay, k.born_at)' /\ Within(k.last_delay, k.last_seen)'
    BY <2>1, <2>2, DriveKeepsWithin DEF Trusted
  <2>4. k.max_sequence # NoSequence =>
          \E j \in 1 .. Last : j <= About' /\ k.max_sequence = rows[j].seq
    <3>1. About <= About' /\ About \in Nat /\ About' \in Nat
      <4>1. About <= About' /\ reached' \in Nat
        BY DriveSays
      <4>2. About' \in {1, reached', reached' + 1}
        BY Zenon DEF About
      <4>3. QED
        BY <4>1, <4>2, AboutIs
    <3>2. Last \in Nat
      BY RoadIs
    <3>3. QED
      BY <2>1, <3>1, <3>2 DEF Trusted
  <2>5. QED
    BY <1>2, <2>1, <2>3, <2>4 DEF Trusted
<1>6. QED
  BY <1>1, <1>2, <1>4, <1>5

LEMMA PublishIsHonest ==
  ASSUME IInv, Honesty, Publish
  PROVE  Honesty'
<1>1. /\ now' = now /\ reached' = reached /\ at' = at /\ late' = late
      /\ rows' = rows /\ style' = style /\ tracks' = tracks
  BY DEF Publish, vehicle, memory
<1>2. SUFFICES ASSUME Faultless'
               PROVE  /\ feed' # <<>> => feed' = <<TripUpdate(0)'>>
                      /\ (\A x \in DOMAIN tracks : Trusted(tracks[x]))'
  BY DEF Honesty
<1>3. Faultless
  BY <1>1, <1>2 DEF Faultless, SegmentsAreShort, Last
<1>4. TripUpdate(0)' = TripUpdate(0)
  BY <1>1 DEF TripUpdate, StopTimeUpdate, Predicted, Last
<1>5. feed' = <<TripUpdate(0)>> \/ feed' = <<>>
  BY <1>3 DEF Publish, Faultless
<1>6. ASSUME NEW x \in DOMAIN tracks
      PROVE  Trusted(tracks[x])'
  <2>1. Trusted(tracks[x])
    BY <1>3 DEF Honesty
  <2>2. About' = About
    BY <1>1 DEF About, Nearer, Last
  <2>3. Said' = Said
    BY <1>1, <2>2 DEF Said
  <2>4. Midnight(now)' = Midnight(now)
    BY <1>1 DEF Midnight
  <2>5. ASSUME NEW d, NEW t, Within(d, t)
        PROVE  Within(d, t)'
    BY <1>1, <2>3, <2>4, <2>5 DEF Within, Last
  <2>6. PICK k : k = tracks[x]
    OBVIOUS
  <2>7. Within(k.birth_delay, k.born_at)' /\ Within(k.last_delay, k.last_seen)'
    BY <2>1, <2>5, <2>6 DEF Trusted
  <2>8. Trusted(k)'
    BY <1>1, <2>1, <2>2, <2>6, <2>7 DEF Trusted, Last
  <2>9. QED
    BY <1>1, <2>6, <2>8
<1>7. QED
  BY <1>1, <1>4, <1>5, <1>6

\* The stops of a faultless feed, by their place in the timetable.
LEMMA FaultlessStops ==
  ASSUME IInv, NEW u, u = TripUpdate(0), NEW first, first = IF style.kept THEN 1 ELSE reached + 1
  PROVE  /\ first \in Nat \ {0} /\ Last - first + 1 \in Nat
         /\ DOMAIN u.stops = 1 .. Last - first + 1
         /\ \A k \in 1 .. Last - first + 1 :
              /\ first + k - 1 \in 1 .. Last
              /\ u.stops[k] = StopTimeUpdate(first + k - 1, 0)
<1>1. first \in Nat \ {0} /\ Last - first + 1 \in Nat /\ reached \in Nat /\ Last \in Nat
  BY RoadNumbers
<1> DEFINE Off(i) == IF i = 0 THEN CORRUPTION ELSE 0
<1>2. u.stops = [k \in 1 .. Last - first + 1 |->
                   StopTimeUpdate(first + k - 1, Off(first + k - 1))]
  BY DEF TripUpdate
<1>3. ASSUME NEW k \in 1 .. Last - first + 1
      PROVE  first + k - 1 \in 1 .. Last /\ u.stops[k] = StopTimeUpdate(first + k - 1, 0)
  <2>1. first + k - 1 \in 1 .. Last
    BY <1>1
  <2>2. PICK i \in 1 .. Last : i = first + k - 1
    BY <2>1
  <2>3. Off(i) = 0
    BY <2>2
  <2> HIDE DEF Off
  <2>4. u.stops[k] = StopTimeUpdate(i, Off(i))
    BY <1>2, <2>2
  <2>5. QED
    BY <2>2, <2>3, <2>4
<1>4. DOMAIN u.stops = 1 .. Last - first + 1
  BY <1>2
<1>5. QED
  BY <1>1, <1>3, <1>4

\* Of all stops of a faultless feed the one it is about is predicted nearest to now.
LEMMA AboutIsNearest ==
  ASSUME IInv, NEW i \in 1 .. Last, style.kept \/ i > reached, About \in 1 .. Last,
         style.fields # "bare"
  PROVE  /\ Predicted(i) \in Int /\ Predicted(About) \in Int
         /\ \/ Distance(Predicted(About), now) < Distance(Predicted(i), now)
            \/ Distance(Predicted(About), now) = Distance(Predicted(i), now) /\ About <= i
<1>1. now \in Nat /\ late \in Int /\ reached \in 0 .. Last /\ Last \in Nat
  BY RoadIs
<1>2. ASSUME NEW j \in 1 .. Last, j <= reached
      PROVE  /\ Predicted(j) = at[j] /\ at[j] \in Nat /\ at[j] <= now
             /\ Distance(Predicted(j), now) = now - at[j]
  <2>1. j \in 1 .. reached /\ Predicted(j) = at[j]
    BY <1>1, <1>2 DEF Predicted
  <2>2. at[j] \in Nat /\ at[j] <= now
    BY <2>1, RoadIs
  <2>3. QED
    BY <1>1, <2>1, <2>2 DEF Distance
<1>3. ASSUME NEW j \in 1 .. Last, ~(j <= reached)
      PROVE  /\ reached < Last /\ reached + 1 \in 1 .. Last
             /\ rows[j].time \in Nat /\ rows[reached + 1].time \in Nat
             /\ rows[reached + 1].time <= rows[j].time
             /\ j # reached + 1 => rows[reached + 1].time < rows[j].time
             /\ Predicted(j) = rows[j].time + late
             /\ Distance(Predicted(j), now) = rows[j].time + late - now
  <2>1. reached < Last /\ reached + 1 \in 1 .. Last /\ (j = reached + 1 \/ reached + 1 < j)
    BY <1>1, <1>3
  <2>2. rows[j].time \in Nat /\ rows[reached + 1].time \in Nat /\ rows[reached + 1].time + late > now
    BY <2>1, RoadIs
  <2>3. rows[reached + 1].time <= rows[j].time /\ (j # reached + 1 => rows[reached + 1].time < rows[j].time)
    <3>1. reached + 1 < j => rows[reached + 1].time < rows[j].time
      BY <2>1, RoadIs
    <3>2. QED
      BY <2>1, <2>2, <3>1
  <2>4. Predicted(j) = rows[j].time + late
    BY <1>3 DEF Predicted
  <2>5. PICK a \in Nat, b \in Nat : a = rows[j].time /\ b = rows[reached + 1].time /\ b <= a /\ b + late > now
    BY <2>2, <2>3
  <2>6. Distance(a + late, now) = a + late - now
    BY <1>1, <2>5 DEF Distance
  <2>7. QED
    BY <2>1, <2>2, <2>3, <2>4, <2>5, <2>6
<1>4. Predicted(i) \in Int /\ Predicted(About) \in Int
  <2>1. \A j \in 1 .. Last : Predicted(j) \in Int
    BY <1>1, <1>2, <1>3
  <2>2. QED
    BY <2>1
<1>5. CASE About = reached + 1 /\ i > reached
  <2>1. PICK a \in Nat, b \in Nat : a = rows[i].time /\ b = rows[reached + 1].time /\ b <= a /\ (i # reached + 1 => b < a)
    BY <1>1, <1>3, <1>5
  <2>2. Distance(Predicted(i), now) = a + late - now /\ Distance(Predicted(About), now) = b + late - now
    BY <1>1, <1>3, <1>5, <2>1
  <2>3. About <= i
    BY <1>1, <1>5
  <2>4. QED
    BY <1>1, <1>4, <2>1, <2>2, <2>3
<1>6. CASE About = reached + 1 /\ ~(i > reached)
  <2>1. reached > 0 /\ reached \in 1 .. reached /\ reached \in 1 .. Last /\ i \in 1 .. reached
    BY <1>1, <1>6
  <2>2. ~Nearer
    BY <1>1, <1>6, <2>1 DEF About
  <2>3. PICK r \in Nat, b \in Nat, a \in Nat :
          /\ r = at[reached] /\ b = rows[reached + 1].time /\ a = at[i]
          /\ Distance(Predicted(About), now) = b + late - now
          /\ Distance(Predicted(i), now) = now - a
          /\ a <= r /\ r <= now
    <3>1. /\ at[reached] \in Nat /\ rows[reached + 1].time \in Nat /\ at[i] \in Nat
          /\ Distance(Predicted(About), now) = rows[reached + 1].time + late - now
          /\ Distance(Predicted(i), now) = now - at[i]
          /\ at[reached] <= now
      BY <1>1, <1>2, <1>3, <1>6, <2>1
    <3>2. at[i] <= at[reached]
      <4>1. i = reached \/ i < reached
        BY <1>1, <2>1
      <4>2. i < reached => at[i] < at[reached]
        BY <2>1, RoadIs
      <4>3. QED
        BY <3>1, <4>1, <4>2
    <3>3. QED
      BY <3>1, <3>2
  <2>4. ~(now - r <= b + late - now)
    BY <2>2, <2>3 DEF Nearer
  <2>5. b + late - now < now - a
    BY <1>1, <2>3, <2>4
  <2>6. QED
    BY <1>4, <2>3, <2>5
<1>7. CASE About = reached /\ Nearer
  <2>1. reached \in 1 .. reached /\ reached \in 1 .. Last
    BY <1>1, <1>7
  <2>2. PICK r \in Nat : r = at[reached] /\ r <= now /\ Distance(Predicted(About), now) = now - r
    BY <1>1, <1>2, <1>7, <2>1
  <2>3. CASE i <= reached
    <3>1. i \in 1 .. reached /\ (i = reached \/ i < reached)
      BY <1>1, <2>3
    <3>2. PICK a \in Nat : a = at[i] /\ Distance(Predicted(i), now) = now - a
      BY <1>1, <1>2, <2>3
    <3>3. i < reached => a < r
      BY <2>1, <2>2, <3>1, <3>2, RoadIs
    <3>4. now - r < now - a \/ (i = reached /\ now - r = now - a)
      <4>1. i = reached => a = r
        BY <2>2, <3>2
      <4>2. QED
        BY <1>1, <2>2, <3>1, <3>2, <3>3, <4>1
    <3>5. i = reached => About <= i
      BY <1>1, <1>7
    <3>6. QED
      BY <1>4, <2>2, <3>2, <3>4, <3>5
  <2>4. CASE ~(i <= reached)
    <3>1. PICK a \in Nat, b \in Nat :
            /\ a = rows[i].time /\ b = rows[reached + 1].time /\ b <= a
            /\ Distance(Predicted(i), now) = a + late - now
      BY <1>3, <2>4
    <3>2. now - r <= b + late - now
      BY <1>1, <1>3, <1>7, <2>2, <2>4, <3>1 DEF Nearer
    <3>3. now - r <= a + late - now
      BY <1>1, <2>2, <3>1, <3>2
    <3>4. About <= i
      BY <1>1, <1>7, <2>4
    <3>5. now - r < a + late - now \/ now - r = a + late - now
      BY <1>1, <2>2, <3>1, <3>3
    <3>6. QED
      BY <1>4, <2>2, <3>1, <3>4, <3>5
  <2>5. QED
    BY <2>3, <2>4
<1>8. QED
  BY <1>1, <1>4, <1>5, <1>6, <1>7 DEF About

\* One stop of a feed without corruption.
LEMMA FaultlessStopIs ==
  ASSUME NEW i, NEW stop, stop = StopTimeUpdate(i, 0)
  PROVE  /\ stop.scheduled = TRUE
         /\ stop.seq = IF style.numbered THEN rows[i].seq ELSE Absent
         /\ EventTime(stop) = IF style.fields = "bare" THEN Absent ELSE Predicted(i) + 0
<1>1. /\ stop.scheduled = TRUE /\ stop.seq = IF style.numbered THEN rows[i].seq ELSE Absent
      /\ stop.arrival.time = (IF style.fields = "bare" THEN Absent ELSE Predicted(i) + 0)
      /\ stop.departure.time = Absent
  BY DEF StopTimeUpdate
<1>2. EventTime(stop) = IF style.fields = "bare" THEN Absent ELSE Predicted(i) + 0
  BY <1>1 DEF EventTime, Known
<1>3. QED
  BY <1>1, <1>2

LEMMA OneFirstLeast ==
  ASSUME NEW S, S \subseteq Int, NEW f, \A j \in S : f[j] \in Int,
         NEW e \in S, IsFirstLeast(e, S, f), NEW x \in S, IsFirstLeast(x, S, f)
  PROVE  x = e
<1>1. f[e] \in Int /\ f[x] \in Int /\ e \in Int /\ x \in Int
  OBVIOUS
<1>2. /\ f[e] < f[x] \/ (f[e] = f[x] /\ e <= x)
      /\ f[x] < f[e] \/ (f[x] = f[e] /\ x <= e)
  BY DEF IsFirstLeast
<1>3. QED
  BY <1>1, <1>2

\* current_stop of a faultless feed.
LEMMA CurrentIsAbout ==
  ASSUME IInv, NEW u, u = TripUpdate(0), Known(CurrentStop(u, now))
  PROVE  About \in 1 .. Last /\ CurrentStop(u, now) = StopTimeUpdate(About, 0)
<1>1. PICK first : first = IF style.kept THEN 1 ELSE reached + 1
  OBVIOUS
<1>2. PICK n \in Nat : n = Last - first + 1
  BY <1>1, FaultlessStops
<1>3. /\ first \in Nat \ {0} /\ DOMAIN u.stops = 1 .. n
      /\ \A k \in 1 .. n : /\ first + k - 1 \in 1 .. Last
                           /\ u.stops[k] = StopTimeUpdate(first + k - 1, 0)
  BY <1>1, <1>2, FaultlessStops
<1>4. Last \in Nat /\ reached \in 0 .. Last /\ now \in Nat
  BY RoadIs
<1>5. n >= 1
  <2>1. IsUpdate(u)
    BY PublishedIs
  <2>2. PICK k \in DOMAIN u.stops : TRUE
    BY <1>4, <2>1, CurrentIsAStop DEF IsUpdate
  <2>3. QED
    BY <1>2, <1>3, <2>2
<1>6. About \in first .. Last
  BY <1>1, <1>2, <1>3, <1>4, <1>5 DEF About, Nearer
<1>7. PICK e \in 1 .. n : About = first + e - 1 /\ u.stops[e] = StopTimeUpdate(About, 0)
  <2>1. About - first + 1 \in 1 .. n /\ first + (About - first + 1) - 1 = About
    BY <1>2, <1>3, <1>4, <1>6
  <2>2. QED
    BY <1>3, <2>1
<1>8. About \in 1 .. Last
  BY <1>3, <1>4, <1>6
<1>9. \A k \in 1 .. n :
        /\ u.stops[k].scheduled = TRUE
        /\ EventTime(u.stops[k])
             = IF style.fields = "bare" THEN Absent ELSE Predicted(first + k - 1) + 0
        /\ u.stops[k].seq = IF style.numbered THEN rows[first + k - 1].seq ELSE Absent
  <2> TAKE k \in 1 .. n
  <2>1. PICK i : i = first + k - 1 /\ u.stops[k] = StopTimeUpdate(i, 0)
    BY <1>3
  <2>2. QED
    BY <2>1, FaultlessStopIs
<1>10. ScheduledStops(u) = 1 .. n
  BY <1>3, <1>9 DEF ScheduledStops
<1>11. 1 .. n \subseteq Int /\ 1 \in 1 .. n
  BY <1>2, <1>5
<1>12. CASE style.fields = "bare"
  <2>1. TimedStops(u) = {}
    BY <1>10, <1>9, <1>12 DEF TimedStops, Known
  <2>2. CurrentStop(u, now) = EarliestStop(u)
    BY <2>1 DEF CurrentStop
  <2>3. e = 1
    <3>1. About = first
      BY <1>1, <1>12 DEF About
    <3>2. QED
      BY <1>2, <1>3, <1>7, <3>1
  <2> DEFINE numbered == {i \in ScheduledStops(u) : Known(u.stops[i].seq)}
  <2>4. CASE style.numbered
    <3> DEFINE f == [k \in 1 .. n |-> u.stops[k].seq]
    <3>1. \A k \in 1 .. n : /\ u.stops[k].seq = rows[first + k - 1].seq
                            /\ rows[first + k - 1].seq \in Nat
      BY <1>3, <1>9, <2>4, RoadIs
    <3>2. numbered = 1 .. n
      BY <1>10, <3>1, MeasurementAssumption DEF Known
    <3>3. /\ \A j \in 1 .. n : f[j] \in Int
          /\ \A j \in 1 .. n : j # 1 => f[1] < f[j]
      <4>1. ASSUME NEW j \in 1 .. n, j # 1
            PROVE  rows[first + 1 - 1].seq < rows[first + j - 1].seq
        <5>1. /\ first + 1 - 1 \in 1 .. Last /\ first + j - 1 \in 1 .. Last
              /\ first + 1 - 1 < first + j - 1
          BY <1>2, <1>3, <1>11, <4>1
        <5>2. QED
          BY <5>1, RoadIs
      <4>2. QED
        BY <1>11, <3>1, <4>1
    <3>4. /\ IsFirstLeast(1, 1 .. n, f)
          /\ \A x \in 1 .. n : IsFirstLeast(x, 1 .. n, f) => x = 1
      <4> HIDE DEF f
      <4>1. QED
        BY <1>11, <3>3, OnlyLeast
    <3>5. FirstLeast(1 .. n, LAMBDA k : u.stops[k].seq) = 1
      BY <1>11, <3>4 DEF IsFirstLeast, FirstLeast
    <3>6. EarliestStop(u) = u.stops[FirstLeast(numbered, LAMBDA k : u.stops[k].seq)]
      BY <1>11, <3>2 DEF EarliestStop
    <3>7. QED
      BY <1>7, <1>8, <2>2, <2>3, <3>2, <3>5, <3>6
  <2>5. CASE ~style.numbered
    <3> DEFINE f == [k \in 1 .. n |-> k]
    <3>1. numbered = {}
      BY <1>10, <1>9, <2>5 DEF Known
    <3>2. /\ \A j \in 1 .. n : f[j] \in Int
          /\ \A j \in 1 .. n : j # 1 => f[1] < f[j]
      BY <1>2, <1>11
    <3>3. /\ IsFirstLeast(1, 1 .. n, f)
          /\ \A x \in 1 .. n : IsFirstLeast(x, 1 .. n, f) => x = 1
      <4> HIDE DEF f
      <4>1. QED
        BY <1>11, <3>2, OnlyLeast
    <3>4. FirstLeast(1 .. n, LAMBDA k : k) = 1
      BY <1>11, <3>3 DEF IsFirstLeast, FirstLeast
    <3>5. EarliestStop(u) = u.stops[FirstLeast(ScheduledStops(u), LAMBDA k : k)]
      BY <1>10, <1>11, <3>1 DEF EarliestStop
    <3>6. QED
      BY <1>7, <1>8, <1>10, <2>2, <2>3, <3>4, <3>5
  <2>6. QED
    BY <2>4, <2>5
<1>13. CASE style.fields # "bare"
  <2> DEFINE Gap(k) == Distance(EventTime(u.stops[k]), now)
             f == [k \in 1 .. n |-> Gap(k)]
  <2>1. ASSUME NEW k \in 1 .. n
        PROVE  /\ Known(EventTime(u.stops[k])) /\ f[k] \in Int
               /\ f[e] < f[k] \/ (f[e] = f[k] /\ e <= k)
    <3>1. PICK i \in 1 .. Last : i = first + k - 1 /\ (style.kept \/ i > reached)
      <4>1. PICK i \in 1 .. Last : i = first + k - 1
        BY <1>3
      <4>2. ~style.kept => i > reached
        BY <1>1, <1>4, <4>1
      <4>3. QED
        BY <4>1, <4>2
    <3>2. /\ Predicted(i) \in Int /\ Predicted(About) \in Int
          /\ \/ Distance(Predicted(About), now) < Distance(Predicted(i), now)
             \/ Distance(Predicted(About), now) = Distance(Predicted(i), now) /\ About <= i
      BY <1>8, <1>13, <3>1, AboutIsNearest
    <3>3. EventTime(u.stops[k]) = Predicted(i) /\ EventTime(u.stops[e]) = Predicted(About)
      BY <1>7, <1>9, <1>13, <3>1, <3>2
    <3>4. About <= i => e <= k
      BY <1>2, <1>3, <1>7, <3>1
    <3>5. Distance(Predicted(i), now) \in Int
      BY <1>4, <3>2 DEF Distance
    <3>6. f[k] = Distance(Predicted(i), now) /\ f[e] = Distance(Predicted(About), now)
      BY <3>3
    <3> HIDE DEF f, Gap
    <3>7. QED
      BY <3>2, <3>3, <3>4, <3>5, <3>6, MeasurementAssumption DEF Known
  <2>2. TimedStops(u) = 1 .. n
    BY <1>10, <2>1 DEF TimedStops
  <2>3. \A k \in 1 .. n : f[k] = Gap(k)
    OBVIOUS
  <2> HIDE DEF f
  <2>4. /\ IsFirstLeast(e, 1 .. n, f)
        /\ \A x \in 1 .. n : IsFirstLeast(x, 1 .. n, f) => x = e
    <3>1. IsFirstLeast(e, 1 .. n, f)
      BY <2>1 DEF IsFirstLeast
    <3>2. \A k \in 1 .. n : f[k] \in Int
      BY <2>1
    <3>3. QED
      BY <1>11, <3>1, <3>2, OneFirstLeast
  <2> HIDE DEF Gap
  <2>5. FirstLeast(1 .. n, Gap) = e
    BY <2>3, <2>4 DEF IsFirstLeast, FirstLeast
  <2>6. CurrentStop(u, now) \in {u.stops[FirstLeast(1 .. n, Gap)], Absent}
    BY <1>11, <2>2 DEF CurrentStop, Gap
  <2>7. QED
    BY <1>7, <1>8, <2>5, <2>6 DEF Known
<1>14. QED
  BY <1>12, <1>13

\* What is measured of a faultless feed is what it says, on the day it is taken for.
LEMMA MeasuresWhatIsSaid ==
  ASSUME IInv, StopsAreDistinct(rows), NEW u, u = TripUpdate(0),
         NEW s, s \in {rows, Absent}, Known(MeasureDelay(u, s, now)),
         NEW m, m = MeasureDelay(u, s, now)
  PROVE  /\ m.delay = Said - Midnight(now)
         /\ m.sequence # Absent => About \in 1 .. Last /\ m.sequence = rows[About].seq
<1> DEFINE stop == CurrentStop(u, now)
           delay == TripDelay(u, stop, s, now)
<1>1. /\ Known(delay) /\ m.delay = delay.delay
      /\ m.sequence = IF Known(stop) THEN stop.seq ELSE Absent
  BY DEF MeasureDelay, Known
<1>2. Known(stop) => About \in 1 .. Last /\ stop = StopTimeUpdate(About, 0)
  BY CurrentIsAbout
<1>3. m.sequence # Absent => About \in 1 .. Last /\ m.sequence = rows[About].seq
  BY <1>1, <1>2 DEF StopTimeUpdate
<1>4. late \in Int /\ now \in Nat /\ reached \in Nat /\ Last \in Nat /\ DAY \in Nat \ {0} /\ IsTimetable(rows)
  BY RoadIs
<1>5. /\ u.delay = (IF style.fields = "trip" THEN late ELSE Absent)
      /\ u.start_date = (IF style.dated THEN 0 ELSE Absent)
  BY DEF TripUpdate
<1>6. CASE style.fields = "trip"
  <2>1. delay.delay = late /\ Said = late /\ Midnight(now) = 0
    BY <1>4, <1>5, <1>6, MeasurementAssumption DEF TripDelay, Measured, Known, Said, Midnight
  <2> HIDE DEF delay
  <2>2. QED
    BY <1>1, <1>3, <1>4, <2>1
<1>7. CASE style.fields # "trip"
  <2>1. Known(stop)
    BY <1>1, <1>5, <1>7 DEF TripDelay, Known
  <2>2. PICK x \in Int, b \in Nat : x = Predicted(About) /\ b = rows[About].time /\ Said = x - b
    <3>1. About \in 1 .. Last /\ rows[About].time \in Nat
      BY <1>2, <2>1, RoadIs
    <3>2. CASE About > reached
      <4>1. ~(About <= reached)
        BY <1>4, <3>1, <3>2
      <4>2. Predicted(About) = rows[About].time + late /\ Said = late
        BY <3>2, <4>1 DEF Predicted, Said
      <4>3. PICK b \in Nat : b = rows[About].time
        BY <3>1
      <4>4. PICK x \in Int : x = b + late /\ late = x - b
        BY <1>4
      <4>5. QED
        BY <4>2, <4>3, <4>4
    <3>3. CASE ~(About > reached)
      <4>1. About \in 1 .. reached
        BY <1>4, <3>1, <3>3
      <4>2. Predicted(About) = at[About] /\ Said = at[About] - rows[About].time /\ at[About] \in Nat
        BY <1>4, <1>7, <3>3, <4>1, RoadIs DEF Predicted, Said
      <4>3. QED
        BY <3>1, <4>2
    <3>4. QED
      BY <3>2, <3>3
  <2>3. /\ EventTime(stop) = IF style.fields = "bare" THEN Absent ELSE x
        /\ StopDelay(stop) = IF style.fields \in {"stop", "bare"} THEN x - b ELSE Absent
    <3>1. stop = StopTimeUpdate(About, 0)
      BY <1>2, <2>1
    <3> HIDE DEF stop
    <3>2. /\ x + 0 = x /\ x + 0 - b = x - b
      BY <2>2
    <3>3. /\ stop.arrival.time = (IF style.fields = "bare" THEN Absent ELSE x)
          /\ stop.arrival.delay = (IF style.fields \in {"stop", "bare"} THEN x - b ELSE Absent)
          /\ stop.departure.time = Absent /\ stop.departure.delay = Absent
      BY <2>2, <3>1, <3>2 DEF StopTimeUpdate
    <3>4. QED
      BY <3>3 DEF EventTime, StopDelay, Known
  <2>4. CASE style.fields \in {"stop", "bare"}
    <3>1. StopDelay(stop) = x - b /\ Known(StopDelay(stop))
      BY <2>2, <2>3, <2>4, MeasurementAssumption DEF Known
    <3>2. delay.delay = x - b
      BY <1>5, <1>7, <2>1, <3>1 DEF TripDelay, Measured, Known
    <3>3. Midnight(now) = 0
      BY <2>4 DEF Midnight
    <3> HIDE DEF delay
    <3>4. QED
      BY <1>1, <1>3, <2>2, <3>2, <3>3
  <2>5. CASE style.fields = "times"
    <3>1. ~Known(StopDelay(stop)) /\ EventTime(stop) = x
      BY <2>3, <2>5 DEF Known
    <3>2. /\ Known(s) /\ Known(ScheduledComparison(u, stop, s, now))
          /\ delay.delay = ScheduledComparison(u, stop, s, now)
      BY <1>1, <1>5, <1>7, <2>1, <3>1 DEF TripDelay, Measured, Known
    <3>3. s = rows
      BY <3>2 DEF Known
    <3>4. ScheduledArrival(rows, stop) = b
      <4>1. About \in DOMAIN rows
        BY <1>2, <2>1, RoadIs
      <4>2. stop.seq = rows[About].seq \/ (stop.seq = Absent /\ stop.id = rows[About].id)
        BY <1>2, <2>1 DEF StopTimeUpdate
      <4> HIDE DEF stop
      <4>3. QED
        BY <1>4, <2>2, <4>1, <4>2, ArrivalIsTheRows
    <3>5. delay.delay = x - (DAY * ServiceDate(u, now) + b)
      BY <3>1, <3>2, <3>3, <3>4 DEF ScheduledComparison, Known
    <3>6. PICK q \in Nat : q = DAY * ServiceDate(u, now) /\ q = Midnight(now)
      <4>1. CASE style.dated
        <5>1. ServiceDate(u, now) = 0 /\ Midnight(now) = 0
          BY <1>5, <4>1, MeasurementAssumption DEF ServiceDate, Known, Midnight
        <5>2. DAY * 0 = 0
          BY <1>4
        <5>3. QED
          BY <5>1, <5>2
      <4>2. CASE ~style.dated
        <5>1. PICK d : d = now \div DAY
          OBVIOUS
        <5>2. ServiceDate(u, now) = d /\ Midnight(now) = DAY * d
          BY <1>5, <2>5, <4>2, <5>1 DEF ServiceDate, Known, Midnight
        <5>3. d \in Nat
          BY <1>4, <5>1, Division
        <5>4. DAY * d \in Nat
          BY <1>4, <5>3
        <5>5. QED
          BY <5>2, <5>4
      <4>3. QED
        BY <4>1, <4>2
    <3> HIDE DEF delay
    <3>7. x - (q + b) = (x - b) - q
      BY <2>2
    <3>8. QED
      BY <1>1, <1>3, <2>2, <3>5, <3>6, <3>7
  <2>6. QED
    BY <1>7, <2>4, <2>5, RoadIs DEF Style
<1>8. QED
  BY <1>6, <1>7

\* What is measured now leaves room for what is measured next: the next stop's
\* delay exceeds that of the stop reached last by at most the length of the segment
\* between them.
LEMMA Settles ==
  ASSUME IInv, Passed, Faultless
  PROVE  Within(Said - Midnight(now), now)
<1>1. /\ now \in Nat /\ late \in Int /\ Said \in Int /\ JUMP_SLACK \in Nat
      /\ reached \in Nat /\ Last \in Nat /\ reached <= Last
  BY RoadIs, AboutIs
<1>2. PICK p \in Nat : p = Midnight(now)
  BY <1>1, MidnightIs, RoadIs
<1>3. ASSUME reached < Last, ~(style.fields = "bare" /\ style.kept)
      PROVE  late <= Said + JUMP_SLACK
  <2>1. CASE style.fields = "trip" \/ About > reached
    <3>1. Said = late
      BY <2>1 DEF Said
    <3>2. QED
      BY <1>1, <3>1
  <2>2. CASE ~(style.fields = "trip" \/ About > reached)
    <3>1. style.kept /\ About = reached /\ reached > 0 /\ Nearer
      BY <1>1, <1>3, <2>2 DEF About
    <3>2. reached \in 1 .. reached /\ reached \in 1 .. Last /\ reached + 1 \in 1 .. Last
          /\ reached \in 1 .. Last - 1 /\ reached # Last
      BY <1>1, <1>3, <3>1
    <3>3. PICK a \in Nat, x \in Nat, y \in Nat :
            /\ a = at[reached] /\ x = rows[reached].time /\ y = rows[reached + 1].time
      BY <3>2, RoadIs
    <3>4. Said = a - x
      BY <2>2, <3>1, <3>3 DEF Said
    <3>5. now - a <= y + late - now
      BY <3>1, <3>2, <3>3 DEF Nearer
    <3>6. x + late <= now
      BY <3>1, <3>3 DEF Passed
    <3>7. y - x <= JUMP_SLACK
      BY <3>1, <3>2, <3>3 DEF Faultless, SegmentsAreShort
    <3>8. late <= a - x + JUMP_SLACK
      BY <1>1, <3>3, <3>5, <3>6, <3>7
    <3>9. QED
      BY <3>4, <3>8
  <2>3. QED
    BY <2>1, <2>2
<1>4. Said - p <= (Said - p) + (now - now) + JUMP_SLACK
  BY <1>1, <1>2
<1>5. reached < Last /\ ~(style.fields = "bare" /\ style.kept)
        => late - p <= (Said - p) + (now - now) + JUMP_SLACK
  <2>1. SUFFICES ASSUME late <= Said + JUMP_SLACK
                 PROVE  late - p <= (Said - p) + (now - now) + JUMP_SLACK
    BY <1>3
  <2>2. QED
    BY <1>1, <1>2, <2>1
<1>6. QED
  BY <1>2, <1>4, <1>5 DEF Within

\* An observation of a faultless feed.
IsHonest(o) ==
  /\ o \in Observation /\ o.delay = Said - Midnight(now)
  /\ o.sequence # NoSequence => About \in 1 .. Last /\ o.sequence = rows[About].seq

LEMMA BornIsTrusted ==
  ASSUME IInv, Passed, Faultless, NEW o, IsHonest(o)
  PROVE  Trusted(Born(o, now))
<1>1. PICK k : k = Born(o, now)
  OBVIOUS
<1>2. /\ k.birth_delay = o.delay /\ k.last_delay = o.delay /\ k.born_at = now /\ k.last_seen = now
      /\ k.max_sequence = o.sequence /\ k.credible = (o.delay <= CREDIBLE_BIRTH_DELAY)
  BY <1>1 DEF Born
<1>3. Within(o.delay, now)
  BY Settles DEF IsHonest
<1>4. About <= About
  BY AboutIs
<1>5. Trusted(k)
  BY <1>2, <1>3, <1>4 DEF Trusted, IsHonest
<1>6. QED
  BY <1>1, <1>5

LEMMA ObserveIsTrusted ==
  ASSUME IInv, Passed, Faultless, SequencesAreFar(rows),
         NEW k \in Track, Trusted(k), NEW o, IsHonest(o)
  PROVE  Trusted(Observe(k, o, now))
<1>1. PICK new : new = Observe(k, o, now)
  OBVIOUS
<1>2. /\ new.birth_delay = k.birth_delay /\ new.born_at = k.born_at
      /\ new.last_delay = o.delay /\ new.last_seen = now
      /\ new.max_sequence = Furthest(k.max_sequence, o.sequence)
      /\ k.credible /\ WithinStep(k, o, now) /\ WithinLife(k, o, now) /\ MovingForward(k, o)
           => new.credible
  BY <1>1 DEF Observe, Track
<1>3. Within(o.delay, now) /\ Within(k.birth_delay, k.born_at)
  BY Settles DEF IsHonest, Trusted
<1>4. WithinStep(k, o, now) /\ WithinLife(k, o, now)
  BY DEF Trusted, Within, IsHonest, WithinStep, WithinLife
<1>5. ASSUME o.sequence # NoSequence, k.max_sequence # NoSequence
      PROVE  /\ o.sequence \in Nat /\ k.max_sequence \in Nat /\ k.max_sequence <= o.sequence
             /\ o.sequence + SEQ_TOLERANCE < U32
  <2>1. About \in 1 .. Last /\ o.sequence = rows[About].seq
    BY <1>5 DEF IsHonest
  <2>2. PICK j \in 1 .. Last : j <= About /\ k.max_sequence = rows[j].seq
    BY <1>5 DEF Trusted
  <2>3. j = About \/ j < About
    BY <2>1, <2>2
  <2>4. rows[j].seq \in Nat /\ rows[About].seq \in Nat /\ (j < About => rows[j].seq < rows[About].seq)
    BY <2>1, <2>2, RoadIs
  <2>5. rows[j].seq <= rows[About].seq
    BY <2>3, <2>4
  <2>6. rows[About].seq + SEQ_TOLERANCE < U32
    BY <2>1, RoadIs DEF SequencesAreFar
  <2>7. QED
    BY <2>1, <2>2, <2>4, <2>5, <2>6
<1>6. MovingForward(k, o)
  <2>1. SUFFICES ASSUME o.sequence # NoSequence, k.max_sequence # NoSequence
                 PROVE  (o.sequence + SEQ_TOLERANCE) % U32 >= k.max_sequence
    BY DEF MovingForward
  <2>2. PICK a \in Nat, b \in Nat : a = o.sequence /\ b = k.max_sequence /\ b <= a /\ a + SEQ_TOLERANCE < U32
    BY <1>5, <2>1
  <2>3. SEQ_TOLERANCE \in Nat /\ U32 \in Nat \ {0}
    BY TripTrackAssumption
  <2>4. (a + SEQ_TOLERANCE) % U32 = a + SEQ_TOLERANCE
    BY <2>2, <2>3
  <2>5. QED
    BY <2>2, <2>3, <2>4
<1>7. new.birth_delay <= CREDIBLE_BIRTH_DELAY => new.credible
  BY <1>2, <1>4, <1>6 DEF Trusted
<1>8. new.max_sequence # NoSequence =>
        \E j \in 1 .. Last : j <= About /\ new.max_sequence = rows[j].seq
  <2>1. SUFFICES ASSUME new.max_sequence # NoSequence
                 PROVE  \E j \in 1 .. Last : j <= About /\ new.max_sequence = rows[j].seq
    OBVIOUS
  <2>2. new.max_sequence = k.max_sequence \/ new.max_sequence = o.sequence
    BY <1>2 DEF Furthest
  <2>3. CASE new.max_sequence = k.max_sequence
    BY <2>1, <2>3 DEF Trusted
  <2>4. CASE new.max_sequence = o.sequence
    <3>1. About \in 1 .. Last /\ o.sequence = rows[About].seq /\ About <= About
      BY <2>1, <2>4, AboutIs DEF IsHonest
    <3>2. QED
      BY <2>4, <3>1
  <2>5. QED
    BY <2>2, <2>3, <2>4
<1>9. Trusted(new)
  BY <1>2, <1>3, <1>7, <1>8 DEF Trusted
<1>10. QED
  BY <1>1, <1>9

\* What a poll makes of a faultless feed.
LEMMA ObservationsAreHonest ==
  ASSUME IInv, StopsAreDistinct(rows), feed = <<TripUpdate(0)>>, NEW x \in DOMAIN Observations(Delays)
  PROVE  x = Trip /\ IsHonest(Observations(Delays)[x])
<1>1. /\ now \in Nat /\ IsTimetable(rows) /\ Len(feed) \in Nat /\ DOMAIN feed = 1 .. Len(feed)
      /\ \A k \in DOMAIN feed : IsUpdate(feed[k])
  BY DEF IInv, OnTheRoad, FeedIs
<1>2. IsSchedule(Schedules)
  BY <1>1 DEF IsSchedule, Schedules, Known, IsTimetable
<1>3. \A m \in Delays : IsMeasurement(m)
  BY <1>1, <1>2, DelaysAre DEF Delays
<1> DEFINE Rows(trip) == IF Known(Schedules) /\ Known(trip) THEN Schedules[trip] ELSE Absent
           obs == Observations(Delays)
<1>4. obs[x] \in Observation /\ x = Trip /\ DOMAIN obs = {m.trip : m \in Delays}
  BY <1>3, ObservationsAre
<1>5. PICK m \in Delays : obs[x] = TripObservation(m)
  <2>1. \E m \in Delays : m.trip = x
    BY <1>4
  <2>2. PICK m : m = (CHOOSE q \in Delays : q.trip = x)
    OBVIOUS
  <2>3. m \in Delays
    BY <2>1, <2>2
  <2>4. obs[x] = TripObservation(m)
    BY <1>4, <2>2 DEF Observations
  <2>5. QED
    BY <2>3, <2>4
<1>6. PICK k \in DOMAIN feed : m = MeasureDelay(feed[k], Rows(feed[k].trip), now) /\ Known(m)
  BY DEF Delays, DelayedTrips
<1>7. feed[k] = TripUpdate(0) /\ feed[k].trip = Trip
  BY <1>1, <1>6 DEF IsUpdate, IsReport
<1>8. Rows(Trip) \in {rows, Absent}
  BY DEF Schedules, Known
<1> HIDE DEF Rows, obs
<1>9. /\ m.delay = Said - Midnight(now)
      /\ m.sequence # Absent => About \in 1 .. Last /\ m.sequence = rows[About].seq
  BY <1>6, <1>7, <1>8, MeasuresWhatIsSaid
<1>10. /\ obs[x].delay = m.delay
       /\ obs[x].sequence # NoSequence => m.sequence # Absent /\ obs[x].sequence = m.sequence
  BY <1>5 DEF TripObservation, Known
<1>11. IsHonest(obs[x])
  BY <1>4, <1>9, <1>10 DEF IsHonest
<1>12. QED
  BY <1>4, <1>11 DEF obs

LEMMA PollIsHonest ==
  ASSUME IInv, Passed, Honesty, StopsAreDistinct(rows), SequencesAreFar(rows), Poll
  PROVE  Honesty'
<1>1. /\ now' = now /\ reached' = reached /\ at' = at /\ late' = late
      /\ rows' = rows /\ style' = style /\ feed' = feed /\ made' = made
  BY DEF Poll, vehicle, agency
<1>2. SUFFICES ASSUME Faultless'
               PROVE  /\ made' = now' /\ feed' # <<>> => feed' = <<TripUpdate(0)'>>
                      /\ (\A x \in DOMAIN tracks : Trusted(tracks[x]))'
  BY DEF Honesty
<1>3. Faultless
  BY <1>1, <1>2 DEF Faultless, SegmentsAreShort, Last
<1>4. TripUpdate(0)' = TripUpdate(0)
  BY <1>1 DEF TripUpdate, StopTimeUpdate, Predicted, Last
<1>5. feed = <<TripUpdate(0)>>
  BY <1>3 DEF Honesty, Poll, Faultless
<1> DEFINE obs == Observations(Delays)
           known == Fold(tracks, obs, now)
<1>6. \A x \in DOMAIN obs : IsHonest(obs[x])
  BY <1>5, ObservationsAreHonest
<1> HIDE DEF obs
<1>7. tracks' = known
  BY DEF Poll, known, obs
<1>8. ASSUME NEW x \in DOMAIN known
      PROVE  Trusted(known[x])
  <2>1. \A y \in DOMAIN tracks : tracks[y] \in Track /\ Trusted(tracks[y])
    BY <1>3 DEF Honesty, IInv, TypeOK
  <2>2. DOMAIN known = Remembered(tracks, now) \cup DOMAIN obs /\ Remembered(tracks, now) \subseteq DOMAIN tracks
    BY DEF Fold, Remembered
  <2>3. CASE x \notin DOMAIN obs
    <3>1. known[x] = tracks[x] /\ x \in DOMAIN tracks
      BY <1>8, <2>2, <2>3 DEF Fold
    <3> HIDE DEF known
    <3>2. QED
      BY <2>1, <3>1
  <2>4. CASE x \in DOMAIN obs /\ x \in Remembered(tracks, now)
    <3>1. known[x] = Observe(tracks[x], obs[x], now) /\ x \in DOMAIN tracks
      BY <2>2, <2>4 DEF Fold
    <3> HIDE DEF known
    <3>2. QED
      BY <1>3, <1>6, <2>1, <2>4, <3>1, ObserveIsTrusted
  <2>5. CASE x \in DOMAIN obs /\ x \notin Remembered(tracks, now)
    <3>1. known[x] = Born(obs[x], now)
      BY <2>2, <2>5 DEF Fold
    <3> HIDE DEF known
    <3>2. QED
      BY <1>3, <1>6, <2>5, <3>1, BornIsTrusted
  <2>6. QED
    BY <2>3, <2>4, <2>5
<1>9. ASSUME NEW k, Trusted(k)
      PROVE  Trusted(k)'
  <2>1. About' = About
    BY <1>1 DEF About, Nearer, Last
  <2>2. Said' = Said
    BY <1>1, <2>1 DEF Said
  <2>3. Midnight(now)' = Midnight(now)
    BY <1>1 DEF Midnight
  <2>4. ASSUME NEW d, NEW t, Within(d, t)
        PROVE  Within(d, t)'
    BY <1>1, <2>2, <2>3, <2>4 DEF Within, Last
  <2>5. Within(k.birth_delay, k.born_at)' /\ Within(k.last_delay, k.last_seen)'
    BY <1>9, <2>4 DEF Trusted
  <2>6. QED
    BY <1>1, <1>9, <2>1, <2>5 DEF Trusted, Last
<1>10. ASSUME NEW x \in DOMAIN tracks'
       PROVE  Trusted(tracks[x])'
  <2>1. PICK k : k = known[x] /\ Trusted(k) /\ tracks'[x] = k
    BY <1>7, <1>8, <1>10
  <2>2. Trusted(k)'
    BY <1>9, <2>1
  <2>3. QED
    BY <2>1, <2>2
<1>11. QED
  BY <1>1, <1>4, <1>5, <1>10

Believable == Passed /\ Honesty /\ StopsAreDistinct(rows) /\ SequencesAreFar(rows)

LEMMA BelievableKeeps ==
  ASSUME IInv, Believable, [Next]_vars
  PROVE  Believable'
<1>1. rows' = rows
  BY DEF Next, Drive, Publish, Poll, vars, agency
<1>2. StopsAreDistinct(rows)' /\ SequencesAreFar(rows)'
  BY <1>1 DEF Believable
<1>3. ASSUME NEW change \in {-1, 0, 1}, Drive(change)
      PROVE  Believable'
  BY <1>2, <1>3, DriveKeepsPassed, DriveIsHonest DEF Believable
<1>4. CASE Publish
  <2>1. Passed'
    BY <1>4 DEF Believable, Passed, Publish, vehicle
  <2>2. QED
    BY <1>2, <1>4, <2>1, PublishIsHonest DEF Believable
<1>5. CASE Poll
  <2>1. Passed'
    BY <1>5 DEF Believable, Passed, Poll, vehicle, agency
  <2>2. QED
    BY <1>2, <1>5, <2>1, PollIsHonest DEF Believable
<1>6. CASE UNCHANGED vars
  BY <1>6 DEF Believable, Passed, Honesty, Faultless, SegmentsAreShort, StopsAreDistinct, SequencesAreFar,
       TripUpdate, StopTimeUpdate, Predicted, Trusted, Within, Said, About, Nearer, Midnight, Last,
       vars, vehicle, agency, memory
<1>7. QED
  BY <1>3, <1>4, <1>5, <1>6 DEF Next

\* No segment is longer than the longest.
LEMMA LongestIsLongest ==
  ASSUME IInv, LongestSegment <= JUMP_SLACK
  PROVE  SegmentsAreShort
<1> DEFINE segments == {rows[i + 1].time - rows[i].time : i \in 1 .. Last - 1}
<1>1. SUFFICES ASSUME NEW j \in 1 .. Last - 1
               PROVE  rows[j + 1].time - rows[j].time <= JUMP_SLACK
  BY DEF SegmentsAreShort
<1>2. PICK n \in Nat : n = Last - 1
  BY <1>1, RoadIs
<1>3. \A i \in 1 .. n : rows[i].time \in Nat /\ rows[i + 1].time \in Nat
  <2>1. \A i \in 1 .. n : i \in 1 .. Last /\ i + 1 \in 1 .. Last
    BY <1>2, RoadNumbers
  <2>2. \A i \in 1 .. Last : rows[i].time \in Nat
    BY RoadIs
  <2>3. QED
    BY <2>1, <2>2
<1>4. PICK f : f = [i \in 1 .. n |-> rows[i].time - rows[i + 1].time]
  OBVIOUS
<1>5. \A i \in 1 .. n : f[i] \in Int /\ rows[i + 1].time - rows[i].time = -f[i]
  BY <1>3, <1>4
<1>6. PICK i \in 1 .. n : IsFirstLeast(i, 1 .. n, f)
  BY <1>1, <1>2, <1>5, LeastExists
<1>7. \A k \in 1 .. n : -f[k] <= -f[i]
  BY <1>5, <1>6 DEF IsFirstLeast
<1>8. segments = {-f[k] : k \in 1 .. n}
  BY <1>2, <1>5
<1> HIDE DEF segments
<1>9. -f[i] \in segments /\ \A r \in segments : r <= -f[i]
  BY <1>7, <1>8
<1>10. PICK c \in segments : c = LongestSegment /\ \A r \in segments : r <= c
  BY <1>9 DEF LongestSegment, segments
<1>11. c \in Int /\ -f[j] \in segments /\ -f[j] <= c /\ c <= JUMP_SLACK /\ JUMP_SLACK \in Nat
  <2>1. j \in 1 .. n
    BY <1>1, <1>2
  <2>2. -f[j] \in segments
    BY <1>8, <2>1
  <2>3. \A k \in 1 .. n : -f[k] \in Int
    BY <1>5
  <2>4. c \in Int
    BY <1>8, <2>3
  <2>5. JUMP_SLACK \in Nat
    BY RoadIs
  <2>6. QED
    BY <1>10, <2>2, <2>4, <2>5
<1>12. rows[j + 1].time - rows[j].time <= c
  BY <1>1, <1>2, <1>5, <1>11
<1>13. QED
  BY <1>1, <1>2, <1>5, <1>11, <1>12

\* history.rs: "A trip's delay can grow no faster than the clock".  A trip met in
\* time, in a feed without faults, is never refused, whatever the style of the
\* feed, however its vehicle is held up or makes up time, and whether or not a day
\* ends on its way.
THEOREM HonestTripsAreBelieved ==
  ASSUME \A s \in Scenarios : StopsAreDistinct(s.rows) /\ SequencesAreFar(s.rows)
  PROVE  Spec => []HonestIsBelieved
<1>1. Init => Believable
  <2> SUFFICES ASSUME Init
               PROVE  Believable
    OBVIOUS
  <2>1. StopsAreDistinct(rows) /\ SequencesAreFar(rows)
    BY DEF Init
  <2>2. reached = 0 /\ feed = <<>> /\ DOMAIN tracks = {}
    BY DEF Init
  <2>3. QED
    BY <2>1, <2>2 DEF Believable, Passed, Honesty
<1>2. IInv /\ Believable /\ [Next]_vars => Believable'
  BY BelievableKeeps
<1>3. IInv /\ Believable => HonestIsBelieved
  <2> SUFFICES ASSUME IInv, Believable,
                      style.fresh, ~style.corrupt, ~style.repeated,
                      ~style.kept \/ LongestSegment <= JUMP_SLACK,
                      NEW t \in DOMAIN tracks, tracks[t].birth_delay <= CREDIBLE_BIRTH_DELAY
               PROVE  tracks[t].credible
    BY DEF HonestIsBelieved
  <2>1. Faultless
    BY LongestIsLongest DEF Faultless
  <2>2. QED
    BY <2>1 DEF Believable, Honesty, Trusted
<1>4. QED
  BY <1>1, <1>2, <1>3, Invariance, PTL DEF Spec
=============================================================================
