---------------------------- MODULE Agencies_proofs ----------------------------
(***************************************************************************)
(* Proofs about Agencies, for any files of the operator, any catalogs that *)
(* list configs and any radius.                                            *)
(***************************************************************************)
EXTENDS Agencies, FiniteSetTheorems, WellFoundedInduction, TLAPS

-----------------------------------------------------------------------------
(* Numbers, and what is defined by recursion over them.                    *)

\* A set of numbers has a least one.
LEMMA LeastNumber ==
  ASSUME NEW S, S \subseteq Nat, S # {}
  PROVE  \E n \in S : \A m \in S : n <= m
<1> DEFINE R == {ss \in Nat \X Nat : ss[1] < ss[2]}
<1>1. IsWellFoundedOn(R, Nat)
  BY NatLessThanWellFounded, Zenon DEF OpToRel
<1>2. \A m, n \in Nat : m < n => <<m, n>> \in R
  OBVIOUS
<1> HIDE DEF R
<1>3. PICK n \in S : \A m \in S : ~(<<m, n>> \in R)
  BY <1>1, WFMin
<1>4. ASSUME NEW m \in S
      PROVE  n <= m
  <2>1. ~(m < n)
    BY <1>2, <1>3
  <2>2. QED
    BY <2>1
<1>5. QED
  BY <1>4

\* Induction over the numbers, for a set: what holds is the set of those it holds for.
LEMMA Induction ==
  ASSUME NEW S, 0 \in S, \A n \in Nat : n \in S => n + 1 \in S
  PROVE  \A n \in Nat : n \in S
<1> SUFFICES ASSUME Nat \ S # {}
             PROVE  FALSE
  OBVIOUS
<1>1. PICK n \in Nat \ S : \A m \in Nat \ S : n <= m
  BY LeastNumber
<1>2. n - 1 \in Nat /\ ~(n <= n - 1)
  BY <1>1
<1>3. n - 1 \in S
  BY <1>1, <1>2
<1>4. QED
  BY <1>1, <1>2, <1>3

\* A function of the numbers to N is iterated by a step.
Step(step, N, V) == step \in [(1 .. N) \X V -> V]

Iterates(f, N, V, base, step) ==
  f \in [0 .. N -> V] /\ f[0] = base /\ \A n \in 1 .. N : f[n] = step[<<n, f[n - 1]>>]

\* So what the modules define by recursion is defined.
LEMMA Recursion ==
  ASSUME NEW N \in Nat, NEW V, NEW base \in V, NEW step, Step(step, N, V)
  PROVE  \E f : Iterates(f, N, V, base, step)
<1> DEFINE Upto(g, n) == Iterates(g, n, V, base, step)
           S == {n \in Nat : n <= N => \E g : Upto(g, n)}
<1>1. 0 \in S
  <2>1. Upto([m \in 0 .. 0 |-> base], 0)
    BY DEF Iterates
  <2>2. QED
    BY <2>1
<1>2. ASSUME NEW n \in Nat, n \in S
      PROVE  n + 1 \in S
  <2> SUFFICES ASSUME n + 1 <= N
               PROVE  \E g : Upto(g, n + 1)
    OBVIOUS
  <2>1. PICK g : Upto(g, n)
    BY <1>2
  <2> DEFINE h == [m \in 0 .. n + 1 |-> IF m = n + 1 THEN step[<<n + 1, g[n]>>] ELSE g[m]]
  <2>2. step[<<n + 1, g[n]>>] \in V
    BY <2>1 DEF Iterates, Step
  <2>3. h \in [0 .. n + 1 -> V] /\ h[0] = base
    BY <2>1, <2>2 DEF Iterates
  <2>4. \A m \in 0 .. n : h[m] = g[m]
    OBVIOUS
  <2>5. \A m \in 1 .. n : h[m] = step[<<m, h[m - 1]>>]
    BY <2>1, <2>4 DEF Iterates
  <2>6. h[n + 1] = step[<<n + 1, h[n]>>]
    <3>1. n \in 0 .. n /\ n + 1 \in 0 .. n + 1
      OBVIOUS
    <3>2. h[n + 1] = step[<<n + 1, g[n]>>]
      BY <3>1
    <3>3. h[n] = g[n]
      BY <2>4, <3>1
    <3>4. QED
      BY <3>2, <3>3
  <2>7. \A m \in 1 .. n + 1 : m \in 1 .. n \/ m = n + 1
    OBVIOUS
  <2>8. Upto(h, n + 1)
    <3> HIDE DEF h
    <3>1. QED
      BY <2>3, <2>5, <2>6, <2>7 DEF Iterates
  <2>9. QED
    BY <2>8
<1>3. N \in S
  <2> HIDE DEF S
  <2>1. QED
    BY <1>1, <1>2, Induction
<1>4. QED
  BY <1>3
-----------------------------------------------------------------------------
(* What a filter leaves.                                                   *)

\* s is what is wanted of the first n of a list, and f tells where each stood.
Selects(s, list, wanted, n, f) ==
  /\ f \in [1 .. Len(s) -> 1 .. n]
  /\ \A i, j \in 1 .. Len(s) : i < j => f[i] < f[j]
  /\ \A i \in 1 .. Len(s) : s[i] = list[f[i]] /\ s[i] \in wanted
  /\ \A m \in 1 .. n : list[m] \in wanted => \E i \in 1 .. Len(s) : f[i] = m

\* What is wanted stays, in the order it had, and nothing else does.
LEMMA ThoseSelect ==
  ASSUME NEW C, NEW list \in Seq(C), NEW wanted
  PROVE  /\ Those(list, wanted) \in Seq(C)
         /\ \E f : Selects(Those(list, wanted), list, wanted, Len(list), f)
<1> DEFINE N == Len(list)
           step == [p \in (1 .. N) \X Seq(C) |->
                      IF list[p[1]] \in wanted THEN Append(p[2], list[p[1]]) ELSE p[2]]
           upto == CHOOSE g : g = [n \in 0 .. N |->
                      IF n = 0 THEN <<>>
                      ELSE IF list[n] \in wanted THEN Append(g[n - 1], list[n]) ELSE g[n - 1]]
<1>1. N \in Nat /\ <<>> \in Seq(C) /\ \A n \in 1 .. N : list[n] \in C
  OBVIOUS
<1>2. step \in [(1 .. N) \X Seq(C) -> Seq(C)]
  BY <1>1
<1>3. PICK g : Iterates(g, N, Seq(C), <<>>, step)
  <2>1. Step(step, N, Seq(C))
    BY <1>2 DEF Step
  <2> HIDE DEF step, N
  <2>2. QED
    BY <1>1, <2>1, Recursion
<1>4. \A n \in 1 .. N : g[n] = IF list[n] \in wanted THEN Append(g[n - 1], list[n]) ELSE g[n - 1]
  <2>1. \A n \in 1 .. N : n - 1 \in 0 .. N
    BY <1>1
  <2>2. \A n \in 1 .. N : <<n, g[n - 1]>> \in (1 .. N) \X Seq(C)
    BY <1>3, <2>1 DEF Iterates
  <2>3. QED
    BY <1>3, <2>2 DEF Iterates
<1>5. g = [n \in 0 .. N |-> IF n = 0 THEN <<>>
             ELSE IF list[n] \in wanted THEN Append(g[n - 1], list[n]) ELSE g[n - 1]]
  <2>1. \A n \in 0 .. N : n = 0 \/ n \in 1 .. N
    BY <1>1
  <2>2. \A n \in 1 .. N : n # 0
    OBVIOUS
  <2>3. \A n \in 0 .. N : g[n] = IF n = 0 THEN <<>>
             ELSE IF list[n] \in wanted THEN Append(g[n - 1], list[n]) ELSE g[n - 1]
    <3> HIDE DEF N
    <3>1. QED
      BY <1>3, <1>4, <2>1, <2>2 DEF Iterates
  <2>4. QED
    BY <1>3, <2>3 DEF Iterates
<1>6. upto = [n \in 0 .. N |-> IF n = 0 THEN <<>>
             ELSE IF list[n] \in wanted THEN Append(upto[n - 1], list[n]) ELSE upto[n - 1]]
  BY <1>5
<1>7. Those(list, wanted) = upto[N]
  BY DEF Those
<1> HIDE DEF upto
<1>8. upto[0] = <<>>
  <2>1. 0 \in 0 .. N
    BY <1>1
  <2>2. QED
    BY <1>6, <2>1
<1>9. ASSUME NEW n \in 1 .. N
      PROVE  upto[n] = IF list[n] \in wanted THEN Append(upto[n - 1], list[n]) ELSE upto[n - 1]
  <2>1. n \in 0 .. N /\ n # 0
    BY <1>1
  <2> HIDE DEF N
  <2>2. QED
    BY <1>6, <2>1
<1> DEFINE S == {n \in Nat : n <= N => /\ upto[n] \in Seq(C)
                                     /\ \E f : Selects(upto[n], list, wanted, n, f)}
<1>10. 0 \in S
  <2>1. Selects(<<>>, list, wanted, 0, <<>>)
    BY DEF Selects
  <2>2. QED
    BY <1>1, <1>8, <2>1
<1>11. ASSUME NEW n \in Nat, n \in S
       PROVE  n + 1 \in S
  <2> SUFFICES ASSUME n + 1 <= N
               PROVE  upto[n + 1] \in Seq(C) /\ \E f : Selects(upto[n + 1], list, wanted, n + 1, f)
    OBVIOUS
  <2> DEFINE s == upto[n]
  <2>1. n + 1 \in 1 .. N /\ n <= N /\ (n + 1) - 1 = n
    BY <1>1
  <2>2. s \in Seq(C) /\ list[n + 1] \in C
    BY <1>1, <1>11, <2>1
  <2>3. PICK f : Selects(s, list, wanted, n, f)
    BY <1>11, <2>1
  <2>4. upto[n + 1] = IF list[n + 1] \in wanted THEN Append(s, list[n + 1]) ELSE s
    BY <1>9, <2>1
  <2> HIDE DEF s, S, N
  <2>5. CASE list[n + 1] \in wanted
    <3> DEFINE r == Append(s, list[n + 1])
               h == [i \in 1 .. Len(s) + 1 |-> IF i = Len(s) + 1 THEN n + 1 ELSE f[i]]
    <3>1. r \in Seq(C) /\ Len(r) = Len(s) + 1 /\ Len(s) \in Nat
          /\ r[Len(s) + 1] = list[n + 1] /\ \A i \in 1 .. Len(s) : r[i] = s[i]
      BY <2>2
    <3>0. /\ Len(s) + 1 \in 1 .. Len(s) + 1
          /\ \A i \in 1 .. Len(s) : i \in 1 .. Len(s) + 1 /\ i # Len(s) + 1
      BY <3>1
    <3>4. \A i \in 1 .. Len(s) + 1 : i \in 1 .. Len(s) \/ i = Len(s) + 1
      BY <3>1
    <3>2. /\ \A i \in 1 .. Len(s) : h[i] = f[i] /\ f[i] \in 1 .. n
          /\ h[Len(s) + 1] = n + 1
      BY <2>3, <3>0 DEF Selects
    <3>3. h \in [1 .. Len(s) + 1 -> 1 .. n + 1]
      <4>1. \A i \in 1 .. Len(s) + 1 : i # Len(s) + 1 => f[i] \in 1 .. n + 1
        BY <2>3, <3>4 DEF Selects
      <4>2. n + 1 \in 1 .. n + 1
        OBVIOUS
      <4>3. QED
        BY <4>1, <4>2
    <3> HIDE DEF r, h
    <3>5. \A i, j \in 1 .. Len(r) : i < j => h[i] < h[j]
      <4>1. ASSUME NEW i \in 1 .. Len(s), NEW j \in 1 .. Len(s), i < j
            PROVE  h[i] < h[j]
        BY <2>3, <3>2, <4>1 DEF Selects
      <4>2. ASSUME NEW i \in 1 .. Len(s)
            PROVE  h[i] < h[Len(s) + 1]
        BY <3>2
      <4>3. \A j \in 1 .. Len(s) + 1 : ~(Len(s) + 1 < j)
        BY <3>1
      <4>4. QED
        BY <3>1, <3>4, <4>1, <4>2, <4>3
    <3>6. \A i \in 1 .. Len(r) : r[i] = list[h[i]] /\ r[i] \in wanted
      BY <2>3, <2>5, <3>1, <3>2, <3>4 DEF Selects
    <3>7. ASSUME NEW m \in 1 .. n + 1, list[m] \in wanted
          PROVE  \E i \in 1 .. Len(r) : h[i] = m
      <4>1. CASE m = n + 1
        BY <3>1, <3>2, <4>1
      <4>2. CASE m \in 1 .. n
        <5>1. PICK i \in 1 .. Len(s) : f[i] = m
          BY <2>3, <3>7, <4>2 DEF Selects
        <5>2. i \in 1 .. Len(r)
          BY <3>1
        <5>3. QED
          BY <3>2, <5>1, <5>2
      <4>3. QED
        BY <4>1, <4>2
    <3>8. Selects(r, list, wanted, n + 1, h)
      BY <3>1, <3>3, <3>5, <3>6, <3>7 DEF Selects
    <3>9. QED
      BY <2>4, <2>5, <3>1, <3>8 DEF r
  <2>6. CASE list[n + 1] \notin wanted
    <3>0. \A m \in 1 .. n + 1 : m \in 1 .. n \/ m = n + 1
      OBVIOUS
    <3>2. f \in [1 .. Len(s) -> 1 .. n + 1]
      BY <2>3 DEF Selects
    <3>1. Selects(s, list, wanted, n + 1, f)
      BY <2>3, <2>6, <3>0, <3>2 DEF Selects
    <3>3. QED
      BY <2>2, <2>4, <2>6, <3>1
  <2>7. QED
    BY <2>5, <2>6
<1>12. N \in S
  <2> HIDE DEF S, N
  <2>1. QED
    BY <1>1, <1>10, <1>11, Induction
<1>13. QED
  BY <1>1, <1>7, <1>12
-----------------------------------------------------------------------------
(* The scope.                                                              *)

\* s is what the first n configs have in scope, and f tells where each stood.
Filters(s, configs, n, f) ==
  /\ f \in [1 .. Len(s) -> 1 .. n]
  /\ \A i, j \in 1 .. Len(s) : i < j => f[i] < f[j]
  /\ \A i \in 1 .. Len(s) : s[i] = configs[f[i]] /\ InScope(s[i])
  /\ \A m \in 1 .. n : InScope(configs[m]) => \E i \in 1 .. Len(s) : f[i] = m

\* retain: what is in scope stays, in the order it had, and nothing else does.
LEMMA InScopeOfFilters ==
  ASSUME NEW C, NEW configs \in Seq(C)
  PROVE  /\ InScopeOf(configs) \in Seq(C)
         /\ \E f : Filters(InScopeOf(configs), configs, Len(configs), f)
<1> DEFINE wanted == {c \in ToSet(configs) : InScope(c)}
<1>1. InScopeOf(configs) = Those(configs, wanted)
  BY DEF InScopeOf
<1>2. \A m \in 1 .. Len(configs) : configs[m] \in wanted <=> InScope(configs[m])
  BY DEF ToSet
<1>3. \A c \in wanted : InScope(c)
  OBVIOUS
<1> HIDE DEF wanted
<1>4. PICK f : Selects(Those(configs, wanted), configs, wanted, Len(configs), f)
  BY ThoseSelect
<1>5. Filters(Those(configs, wanted), configs, Len(configs), f)
  BY <1>2, <1>3, <1>4 DEF Selects, Filters
<1>6. QED
  BY <1>1, <1>5, ThoseSelect
-----------------------------------------------------------------------------
(* The invariant.                                                          *)

Scoped == InScopeOf(listed)

Lists == IsList(todo) /\ IsList(kept) /\ IsList(listed) /\ IsList(through)

StartsWith(s, first) == Len(first) <= Len(s) /\ \A i \in DOMAIN first : s[i] = first[i]

Distinct(s) == \A i, j \in DOMAIN s : i # j => ~Shares(s[i], s[j])

\* The rest of `list` is still to do.
IsRest(list) ==
  /\ Len(todo) <= Len(list)
  /\ \A i \in 1 .. Len(todo) : todo[i] = list[Len(list) - Len(todo) + i]

Done(list) == 1 .. Len(list) - Len(todo)

\* What `seen` holds is what the kept ones have.
SeenIsKept ==
  /\ seen.slugs = {kept[k].slug : k \in DOMAIN kept}
  /\ seen.statics = {kept[k].static : k \in DOMAIN kept}
  /\ seen.updates = UNION {ToSet(kept[k].updates) : k \in DOMAIN kept}

\* The i-th in scope is in s, or one before it is that shares its feed.
Survives(s, i) ==
  \/ Scoped[i] \in ToSet(s)
  \/ \E j \in 1 .. i - 1 : Shares(Scoped[i], Scoped[j]) /\ Scoped[j] \in ToSet(s)

\* s has the order that the sources were listed in.
InOrder(s) ==
  \A a, b \in DOMAIN s : a < b =>
    \A q \in DOMAIN Scoped : Scoped[q] = s[b] => \E p \in 1 .. q - 1 : Scoped[p] = s[a]

\* The candidate that HandConfiguredWins is about.
Preferred(h) ==
  \E i \in DOMAIN HandConfigured :
    /\ h = HandConfigured[i] /\ InScope(h) /\ HasTripUpdates(h)
    /\ \A j \in 1 .. i - 1 : ~Shares(h, HandConfigured[j]) /\ ~SameAgency(HandConfigured[j], h)

Loading ==
  /\ stage \in {"transitland", "mobilitydata", "scope"}
  /\ StartsWith(todo, HandConfigured)
  /\ kept = <<>> /\ seen = [slugs |-> {}, statics |-> {}, updates |-> {}]

PassOne ==
  /\ stage = "exact"
  /\ IsRest(Scoped)
  /\ SeenIsKept
  /\ \A k \in DOMAIN kept : \E j \in Done(Scoped) : kept[k] = Scoped[j]
  /\ \A i \in Done(Scoped) : Survives(kept, i)
  /\ InOrder(kept)

\* What the second pass has done, it has replaced by what is as useful.
AsUseful(c) == \E k \in DOMAIN kept : SameName(c, kept[k]) /\ Usefulness(kept[k]) >= Usefulness(c)

PassTwoOrPolling ==
  /\ stage \in {"fuzzy", "polling"} /\ (stage = "polling" => todo = <<>>)
  /\ \A i \in DOMAIN Scoped : Survives(through, i)
  /\ \A k \in DOMAIN through : \E j \in DOMAIN Scoped : through[k] = Scoped[j]
  /\ InOrder(through) /\ Distinct(through)
  /\ IsRest(through)
  /\ \A k \in DOMAIN kept : \E a \in Done(through) : kept[k] = through[a]
  /\ \A a \in Done(through) : AsUseful(through[a])
  /\ \A a \in Done(through) : Preferred(through[a]) => through[a] \in ToSet(kept)

Listed == StartsWith(listed, HandConfigured)

IInv ==
  /\ world \in Worlds
  /\ Lists
  /\ Distinct(kept)
  /\ Loading \/ (PassOne /\ Listed) \/ (PassTwoOrPolling /\ Listed)

-----------------------------------------------------------------------------
(* Lists.                                                                  *)

LEMMA ListOf ==
  ASSUME NEW S, NEW s \in Seq(S)
  PROVE  /\ IsList(s) /\ ToSet(s) \subseteq S
         /\ Len(s) \in Nat /\ DOMAIN s = 1 .. Len(s)
         /\ \A i \in DOMAIN s : s[i] \in ToSet(s)
<1>1. Len(s) \in Nat /\ DOMAIN s = 1 .. Len(s)
  OBVIOUS
<1>2. \A i \in DOMAIN s : s[i] \in ToSet(s) /\ s[i] \in S
  BY DEF ToSet
<1>3. ToSet(s) \subseteq S
  BY <1>2 DEF ToSet
<1>4. s \in Seq(ToSet(s))
  BY <1>1, <1>2
<1>5. QED
  BY <1>1, <1>2, <1>3, <1>4 DEF IsList

LEMMA IsListProperties ==
  ASSUME NEW s, IsList(s)
  PROVE  /\ Len(s) \in Nat /\ DOMAIN s = 1 .. Len(s)
         /\ \A i \in DOMAIN s : s[i] \in ToSet(s)
  BY ListOf DEF IsList

\* Two lists in a row are a list, the first before the second.
LEMMA ListConcat ==
  ASSUME NEW a, NEW b, IsList(a), IsList(b)
  PROVE  /\ IsList(a \o b) /\ Len(a \o b) = Len(a) + Len(b)
         /\ \A i \in DOMAIN a : i \in DOMAIN (a \o b) /\ (a \o b)[i] = a[i]
<1> DEFINE S == ToSet(a) \cup ToSet(b)
<1>1. \A i \in DOMAIN a : a[i] \in S
  BY IsListProperties
<1>2. \A i \in DOMAIN b : b[i] \in S
  BY IsListProperties
<1>3. a \in Seq(S) /\ b \in Seq(S)
  <2> HIDE DEF S
  <2>1. QED
    BY <1>1, <1>2, IsListProperties DEF IsList
<1> HIDE DEF S
<1>4. a \o b \in Seq(S)
  BY <1>3
<1>5. /\ Len(a \o b) = Len(a) + Len(b)
      /\ \A i \in DOMAIN a : i \in DOMAIN (a \o b) /\ (a \o b)[i] = a[i]
  BY <1>3
<1>6. IsList(a \o b)
  BY <1>4, ListOf
<1>7. QED
  BY <1>5, <1>6

LEMMA ListTail ==
  ASSUME NEW s, IsList(s), s # <<>>
  PROVE  /\ IsList(Tail(s)) /\ Len(Tail(s)) = Len(s) - 1 /\ Len(s) >= 1
         /\ Head(s) = s[1]
         /\ \A i \in 1 .. Len(s) - 1 : Tail(s)[i] = s[i + 1]
<1>1. s \in Seq(ToSet(s))
  BY DEF IsList
<1>2. Tail(s) \in Seq(ToSet(s))
  BY <1>1
<1>3. /\ Len(Tail(s)) = Len(s) - 1 /\ Len(s) >= 1 /\ Head(s) = s[1]
      /\ \A i \in 1 .. Len(s) - 1 : Tail(s)[i] = s[i + 1]
  BY <1>1
<1>4. IsList(Tail(s))
  BY <1>2, ListOf
<1>5. QED
  BY <1>3, <1>4

LEMMA ListAppend ==
  ASSUME NEW s, NEW x, IsList(s)
  PROVE  /\ IsList(Append(s, x)) /\ Len(Append(s, x)) = Len(s) + 1
         /\ DOMAIN Append(s, x) = 1 .. Len(s) + 1
         /\ Append(s, x)[Len(s) + 1] = x
         /\ \A i \in DOMAIN s : Append(s, x)[i] = s[i]
         /\ ToSet(Append(s, x)) = ToSet(s) \cup {x}
<1> DEFINE S == ToSet(s) \cup {x}
<1>1. \A i \in DOMAIN s : s[i] \in S
  BY IsListProperties
<1>2. x \in S
  OBVIOUS
<1> HIDE DEF S
<1>3. s \in Seq(S)
  BY <1>1, IsListProperties DEF IsList
<1>4. Append(s, x) \in Seq(S)
  BY <1>2, <1>3
<1>5. /\ Len(Append(s, x)) = Len(s) + 1 /\ Len(s) \in Nat
      /\ DOMAIN Append(s, x) = 1 .. Len(s) + 1 /\ DOMAIN s = 1 .. Len(s)
      /\ Append(s, x)[Len(s) + 1] = x
      /\ \A i \in DOMAIN s : Append(s, x)[i] = s[i]
  BY <1>2, <1>3
<1>6. \A y : y \in ToSet(Append(s, x)) <=> y \in ToSet(s) \/ y = x
  BY <1>5 DEF ToSet
<1>7. QED
  BY <1>4, <1>5, <1>6, ListOf

LEMMA ListReplace ==
  ASSUME NEW s, NEW x, IsList(s), NEW k \in DOMAIN s
  PROVE  /\ IsList([s EXCEPT ![k] = x])
         /\ DOMAIN [s EXCEPT ![k] = x] = DOMAIN s
         /\ [s EXCEPT ![k] = x][k] = x
         /\ \A i \in DOMAIN s : i # k => [s EXCEPT ![k] = x][i] = s[i]
<1> DEFINE S == ToSet(s) \cup {x}
<1>1. \A i \in DOMAIN s : s[i] \in S
  BY IsListProperties
<1>2. x \in S
  OBVIOUS
<1> HIDE DEF S
<1>3. s \in Seq(S)
  BY <1>1, IsListProperties DEF IsList
<1>4. [s EXCEPT ![k] = x] \in Seq(S)
  BY <1>2, <1>3
<1>5. QED
  BY <1>3, <1>4, ListOf

\* What is made of each of a list is a list.
LEMMA ListMap ==
  ASSUME NEW s, IsList(s), NEW t, t = [i \in DOMAIN s |-> t[i]]
  PROVE  IsList(t) /\ DOMAIN t = DOMAIN s /\ Len(t) = Len(s)
<1>1. Len(s) \in Nat /\ DOMAIN s = 1 .. Len(s)
  BY IsListProperties
<1>2. DOMAIN t = DOMAIN s
  BY Zenon
<1>3. \A i \in 1 .. Len(s) : t[i] \in ToSet(t)
  BY <1>1, <1>2 DEF ToSet
<1>4. t \in [1 .. Len(s) -> ToSet(t)]
  BY <1>1, <1>3
<1>5. t \in Seq(ToSet(t))
  BY <1>1, <1>4
<1>6. Len(t) = Len(s)
  BY <1>1, <1>2, <1>5
<1>7. QED
  BY <1>2, <1>5, <1>6 DEF IsList

\* A list of some of the members.
LEMMA ThoseAreOf ==
  ASSUME NEW s, IsList(s), NEW wanted
  PROVE  /\ IsList(Those(s, wanted))
         /\ \A x : x \in ToSet(Those(s, wanted)) <=> x \in ToSet(s) /\ x \in wanted
<1> DEFINE r == Those(s, wanted)
<1>1. s \in Seq(ToSet(s))
  BY DEF IsList
<1>2. r \in Seq(ToSet(s)) /\ \E f : Selects(r, s, wanted, Len(s), f)
  BY <1>1, ThoseSelect
<1> HIDE DEF r
<1>3. IsList(r) /\ ToSet(r) \subseteq ToSet(s)
  BY <1>2, ListOf
<1>4. PICK f : Selects(r, s, wanted, Len(s), f)
  BY <1>2
<1>5. DOMAIN r = 1 .. Len(r) /\ DOMAIN s = 1 .. Len(s)
  BY <1>3, IsListProperties
<1>6. ASSUME NEW x, x \in ToSet(r)
      PROVE  x \in wanted
  BY <1>4, <1>5, <1>6 DEF ToSet, Selects
<1>7. ASSUME NEW x, x \in ToSet(s), x \in wanted
      PROVE  x \in ToSet(r)
  <2>1. PICK m \in 1 .. Len(s) : s[m] = x
    BY <1>5, <1>7 DEF ToSet
  <2>2. PICK i \in 1 .. Len(r) : f[i] = m
    BY <1>4, <1>7, <2>1 DEF Selects
  <2>3. r[i] = x
    BY <1>4, <2>1, <2>2 DEF Selects
  <2>4. QED
    BY <1>5, <2>3 DEF ToSet
<1>8. QED
  BY <1>3, <1>6, <1>7 DEF r

\* Each member once, and no other.
LEMMA DedupedAreOf ==
  ASSUME NEW s, IsList(s)
  PROVE  /\ IsList(Deduped(s)) /\ ToSet(Deduped(s)) = ToSet(s)
         /\ \A k, l \in DOMAIN Deduped(s) : k # l => Deduped(s)[k] # Deduped(s)[l]
<1> DEFINE all == [i \in DOMAIN s |-> i]
           first == {i \in DOMAIN s : \A j \in 1 .. i - 1 : s[j] # s[i]}
           at == Those(all, first)
           r == [k \in DOMAIN at |-> s[at[k]]]
<1>1. Deduped(s) = r
  BY DEF Deduped
<1>2. Len(s) \in Nat /\ DOMAIN s = 1 .. Len(s)
  BY IsListProperties
<1>3. IsList(all) /\ Len(all) = Len(s) /\ \A i \in DOMAIN s : all[i] = i
  BY ListMap
<1>4. all \in Seq(ToSet(all))
  BY <1>3 DEF IsList
<1>5. PICK f : Selects(at, all, first, Len(s), f)
  <2> HIDE DEF all, first
  <2>1. QED
    BY <1>3, <1>4, ThoseSelect
<1>6. IsList(at)
  <2> HIDE DEF all, first
  <2>1. QED
    BY <1>3, ThoseAreOf
<1>7. DOMAIN at = 1 .. Len(at) /\ Len(at) \in Nat
  BY <1>6, IsListProperties
<1>8. IsList(r) /\ DOMAIN r = 1 .. Len(at)
  <2> HIDE DEF at
  <2>1. QED
    BY <1>6, <1>7, ListMap
<1>9. ASSUME NEW k \in 1 .. Len(at)
      PROVE  at[k] = f[k] /\ at[k] \in first /\ at[k] \in 1 .. Len(s)
  <2> HIDE DEF at, first
  <2>1. at[k] = all[f[k]] /\ f[k] \in 1 .. Len(s) /\ at[k] \in first
    BY <1>5 DEF Selects
  <2>2. QED
    BY <1>2, <1>3, <2>1
<1>10. \A k \in 1 .. Len(at) : r[k] = s[at[k]]
  BY <1>7
<1>11. ASSUME NEW k \in 1 .. Len(at), NEW l \in 1 .. Len(at), k < l
       PROVE  s[at[k]] # s[at[l]]
  <2>1. f[k] < f[l]
    BY <1>5, <1>11 DEF Selects
  <2>2. at[k] \in 1 .. at[l] - 1
    <3> HIDE DEF at, first
    <3>1. at[k] = f[k] /\ at[l] = f[l] /\ at[k] \in 1 .. Len(s) /\ at[l] \in 1 .. Len(s)
      BY <1>9
    <3>2. QED
      BY <2>1, <3>1
  <2>3. at[l] \in first
    BY <1>9
  <2>4. QED
    BY <2>2, <2>3
<1>12. ASSUME NEW x \in ToSet(s)
       PROVE  x \in ToSet(r)
  <2> DEFINE places == {i \in 1 .. Len(s) : s[i] = x}
  <2>1. places \subseteq Nat /\ places # {}
    BY <1>2 DEF ToSet
  <2>2. PICK i \in places : \A j \in places : i <= j
    BY <2>1, LeastNumber
  <2>3. \A j \in 1 .. i - 1 : j \notin places
    BY <2>2
  <2>4. \A j \in 1 .. i - 1 : j \in 1 .. Len(s)
    BY <1>2
  <2>5. i \in first
    BY <1>2, <2>3, <2>4
  <2>6. all[i] \in first /\ i \in 1 .. Len(s)
    BY <1>2, <1>3, <2>5
  <2>7. PICK k \in 1 .. Len(at) : f[k] = i
    <3> HIDE DEF at, first, all
    <3>1. QED
      BY <1>5, <2>6 DEF Selects
  <2>8. r[k] = x
    BY <1>9, <1>10, <2>7
  <2>9. QED
    BY <1>8, <2>8 DEF ToSet
<1>13. ToSet(r) \subseteq ToSet(s)
  <2>1. \A k \in 1 .. Len(at) : r[k] \in ToSet(s)
    BY <1>2, <1>9, <1>10 DEF ToSet
  <2> HIDE DEF r
  <2>2. QED
    BY <1>8, <2>1 DEF ToSet
<1>14. ASSUME NEW k \in 1 .. Len(at), NEW l \in 1 .. Len(at), k # l
       PROVE  r[k] # r[l]
  <2>1. k < l \/ l < k
    BY <1>14
  <2> HIDE DEF at, r
  <2>2. QED
    BY <1>10, <1>11, <2>1
<1>15. QED
  <2> HIDE DEF r
  <2>1. QED
    BY <1>1, <1>8, <1>12, <1>13, <1>14
-----------------------------------------------------------------------------
(* What is configured by hand.                                             *)

\* authed_agencies: each is an agency that has what it needs.
LEMMA AuthedAreOf ==
  ASSUME NEW agencies, IsList(agencies), NEW secrets
  PROVE  /\ IsList(AuthedAgencies(agencies, secrets))
         /\ \A c \in ToSet(AuthedAgencies(agencies, secrets)) :
              \E a \in ToSet(agencies) :
                c = AuthedConfig(a) /\ a.key \in secrets \cup {None} /\ Resolved(a, secrets)
<1> DEFINE able == {a \in ToSet(agencies) : a.key \in secrets \cup {None} /\ Resolved(a, secrets)}
           built == Those(agencies, able)
           authed == [i \in DOMAIN built |-> AuthedConfig(built[i])]
<1>1. AuthedAgencies(agencies, secrets) = authed
  BY DEF AuthedAgencies
<1>2. IsList(built) /\ \A a \in ToSet(built) : a \in able
  <2> HIDE DEF able
  <2>1. QED
    BY ThoseAreOf
<1>3. IsList(authed)
  <2> HIDE DEF built
  <2>1. QED
    BY <1>2, ListMap
<1>4. ASSUME NEW c \in ToSet(authed)
      PROVE  \E a \in able : c = AuthedConfig(a)
  <2> HIDE DEF built, able
  <2>1. PICK i \in DOMAIN built : c = AuthedConfig(built[i])
    BY DEF ToSet
  <2>2. built[i] \in able
    BY <1>2, IsListProperties
  <2>3. QED
    BY <2>1, <2>2
<1>5. QED
  <2> HIDE DEF authed
  <2>1. QED
    BY <1>1, <1>3, <1>4
-----------------------------------------------------------------------------
(* What the Atlas lists.                                                   *)

Fed(feeds) == {feeds[id] : id \in DOMAIN feeds}

\* associated_feeds: each is a feed of the index.
LEMMA AssociatedAreFed ==
  ASSUME NEW op, NEW feeds, IsList(op.associated)
  PROVE  IsList(AssociatedFeeds(op, feeds)) /\ ToSet(AssociatedFeeds(op, feeds)) \subseteq Fed(feeds)
<1> DEFINE nested == IF Known(op.nested) THEN <<op.nested>> ELSE <<>>
           ids == op.associated \o nested
           found == Those(ids, DOMAIN feeds)
           associated == [i \in DOMAIN found |-> feeds[found[i]]]
<1>1. AssociatedFeeds(op, feeds) = associated
  BY DEF AssociatedFeeds
<1>2. IsList(nested)
  <2>1. <<op.nested>> \in Seq({op.nested}) /\ <<>> \in Seq({op.nested})
    OBVIOUS
  <2>2. IsList(<<op.nested>>) /\ IsList(<<>>)
    BY <2>1, ListOf
  <2>3. QED
    BY <2>2
<1>3. IsList(ids)
  <2> HIDE DEF nested
  <2>1. QED
    BY <1>2, ListConcat
<1>4. IsList(found) /\ \A id \in ToSet(found) : id \in DOMAIN feeds
  <2> HIDE DEF ids
  <2>1. QED
    BY <1>3, ThoseAreOf
<1> HIDE DEF found
<1>5. IsList(associated)
  BY <1>4, ListMap
<1>6. \A i \in DOMAIN found : found[i] \in DOMAIN feeds
  BY <1>4, IsListProperties
<1>7. ToSet(associated) \subseteq Fed(feeds)
  BY <1>6 DEF ToSet, Fed
<1>8. QED
  BY <1>1, <1>5, <1>7

LEMMA StaticsAndRealtimes ==
  ASSUME NEW op, NEW feeds, IsList(op.associated)
  PROVE  /\ IsList(Statics(op, feeds)) /\ IsList(Realtimes(op, feeds))
         /\ \A f \in ToSet(Statics(op, feeds)) : f \in Fed(feeds) /\ Known(f.static)
         /\ \A f \in ToSet(Realtimes(op, feeds)) :
              f \in Fed(feeds) /\ f.spec = "gtfs-rt" /\ Known(f.updates)
<1> DEFINE associated == AssociatedFeeds(op, feeds)
           usable == {f \in ToSet(associated) : f.spec = "gtfs" /\ f.usable /\ Known(f.static)}
           live == {f \in ToSet(associated) : f.spec = "gtfs-rt" /\ Known(f.updates)}
<1>1. Statics(op, feeds) = Those(associated, usable) /\ Realtimes(op, feeds) = Those(associated, live)
  BY DEF Statics, Realtimes
<1>2. IsList(associated) /\ ToSet(associated) \subseteq Fed(feeds)
  BY AssociatedAreFed
<1>3. /\ \A f \in usable : f \in Fed(feeds) /\ Known(f.static)
      /\ \A f \in live : f \in Fed(feeds) /\ f.spec = "gtfs-rt" /\ Known(f.updates)
  BY <1>2
<1> HIDE DEF associated, usable, live
<1>4. /\ IsList(Those(associated, usable)) /\ IsList(Those(associated, live))
      /\ \A f \in ToSet(Those(associated, usable)) : f \in usable
      /\ \A f \in ToSet(Those(associated, live)) : f \in live
  BY <1>2, ThoseAreOf
<1>5. QED
  BY <1>1, <1>3, <1>4

\* pick_static finds a schedule, and one that is unclaimed as long as there is one.
LEMMA PickStaticPicks ==
  ASSUME NEW statics, IsList(statics), statics # <<>>, NEW key, NEW claimed
  PROVE  /\ PickStatic(statics, key, claimed) \in DOMAIN statics
         /\ DOMAIN statics \ claimed # {} => PickStatic(statics, key, claimed) \notin claimed
<1> DEFINE affinity == [i \in DOMAIN statics |-> IF key \in statics[i].words THEN 1 ELSE 0]
           free == DOMAIN statics \ claimed
           allowed == IF free = {} THEN DOMAIN statics ELSE free
           best == CHOOSE i \in allowed : \A j \in allowed :
                     affinity[i] > affinity[j] \/ (affinity[i] = affinity[j] /\ i <= j)
<1>1. DOMAIN statics = 1 .. Len(statics) /\ Len(statics) \in Nat /\ DOMAIN statics # {}
  <2>1. DOMAIN statics = 1 .. Len(statics) /\ Len(statics) \in Nat
    BY IsListProperties
  <2>2. statics \in Seq(ToSet(statics))
    BY DEF IsList
  <2>3. Len(statics) # 0
    BY <2>2
  <2>4. QED
    BY <2>1, <2>3
<1>2. PickStatic(statics, key, claimed) = best
  <2>1. \A i \in allowed : affinity[i] = IF key \in statics[i].words THEN 1 ELSE 0
    OBVIOUS
  <2>2. QED
    BY <2>1 DEF PickStatic
<1>3. allowed \subseteq Nat /\ allowed # {} /\ allowed \subseteq DOMAIN statics
  BY <1>1
<1>4. \A i \in DOMAIN statics : affinity[i] \in {0, 1}
  OBVIOUS
<1> HIDE DEF affinity, allowed
<1>5. \E i \in allowed : \A j \in allowed :
        affinity[i] > affinity[j] \/ (affinity[i] = affinity[j] /\ i <= j)
  <2> DEFINE good == {i \in allowed : affinity[i] = 1}
  <2>1. CASE good = {}
    <3>1. PICK i \in allowed : \A j \in allowed : i <= j
      BY <1>3, LeastNumber
    <3>2. \A j \in allowed : affinity[j] = 0
      BY <1>3, <1>4, <2>1
    <3>3. QED
      BY <3>1, <3>2
  <2>2. CASE good # {}
    <3>1. PICK i \in good : \A j \in good : i <= j
      <4>1. good \subseteq Nat
        BY <1>3
      <4>2. QED
        BY <2>2, <4>1, LeastNumber
    <3>2. \A j \in allowed : j \in good \/ affinity[j] = 0
      BY <1>3, <1>4
    <3>3. affinity[i] = 1 /\ \A j \in good : affinity[j] = 1
      BY <3>1
    <3>4. QED
      BY <3>1, <3>2, <3>3
  <2>3. QED
    BY <2>1, <2>2
<1>6. best \in allowed
  BY <1>5
<1>7. best \in DOMAIN statics
  BY <1>3, <1>6
<1>8. free # {} => best \notin claimed
  BY <1>6 DEF allowed
<1>9. QED
  BY <1>2, <1>7, <1>8

\* A mode's slice: the index of its schedule, and the URLs of realtime feeds that
\* are open if it is.
OfOpen(url, g, realtimes) ==
  \E f \in ToSet(realtimes) :
    /\ url \in {f.updates, f.positions} /\ Known(url)
    /\ g.gated = FALSE => ~f.gated

IsSlice(g, statics, realtimes) ==
  /\ g.index \in DOMAIN statics /\ g.static = statics[g.index].static
  /\ g.gated \in BOOLEAN
  /\ \A url \in ToSet(g.updates) \cup ToSet(g.positions) : OfOpen(url, g, realtimes)

LEMMA GroupIsSlice ==
  ASSUME NEW statics, IsList(statics), statics # <<>>,
         NEW realtimes, IsList(realtimes), \A f \in ToSet(realtimes) : Known(f.updates),
         NEW key, NEW claimed
  PROVE  /\ IsSlice(Group(key, statics, realtimes, claimed), statics, realtimes)
         /\ Group(key, statics, realtimes, claimed).index = PickStatic(statics, key, claimed)
<1> DEFINE g == Group(key, statics, realtimes, claimed)
           chosen == PickStatic(statics, key, claimed)
           ofMode == Those(realtimes, {f \in ToSet(realtimes) : ModeKey(f) = key})
           open == Those(ofMode, {f \in ToSet(ofMode) : ~f.gated})
           used == IF open = <<>> THEN ofMode ELSE open
           updates == [i \in DOMAIN used |-> used[i].updates]
<1>1. /\ g.index = chosen /\ g.static = statics[chosen].static /\ g.gated = (open = <<>>)
      /\ g.updates = updates /\ g.positions = Positions(used)
  BY DEF Group
<1>2. IsList(ofMode) /\ \A f \in ToSet(ofMode) : f \in ToSet(realtimes)
  BY ThoseAreOf
<1>3. IsList(open) /\ \A f \in ToSet(open) : f \in ToSet(ofMode) /\ ~f.gated
  <2> DEFINE ungated == {f \in ToSet(ofMode) : ~f.gated}
  <2>1. \A f \in ungated : ~f.gated
    OBVIOUS
  <2> HIDE DEF ofMode, ungated
  <2>2. IsList(Those(ofMode, ungated)) /\ \A f \in ToSet(Those(ofMode, ungated)) : f \in ToSet(ofMode) /\ f \in ungated
    BY <1>2, ThoseAreOf
  <2>3. open = Those(ofMode, ungated)
    BY DEF open, ungated
  <2>4. QED
    BY <2>1, <2>2, <2>3
<1>4. /\ IsList(used) /\ \A f \in ToSet(used) : f \in ToSet(realtimes)
      /\ g.gated = FALSE => \A f \in ToSet(used) : ~f.gated
  <2> HIDE DEF ofMode, open, g
  <2>1. CASE open = <<>>
    BY <1>1, <1>2, <2>1
  <2>2. CASE open # <<>>
    BY <1>2, <1>3, <2>2
  <2>3. QED
    BY <2>1, <2>2
<1> HIDE DEF used, g, open
<1>5. \A i \in DOMAIN used : used[i] \in ToSet(used)
  BY <1>4, IsListProperties
<1>6. ASSUME NEW url \in ToSet(updates)
      PROVE  OfOpen(url, g, realtimes)
  <2>1. PICK i \in DOMAIN used : url = used[i].updates
    BY DEF ToSet
  <2>2. used[i] \in ToSet(realtimes) /\ Known(used[i].updates)
    BY <1>4, <1>5
  <2>3. QED
    BY <1>4, <1>5, <2>1, <2>2 DEF OfOpen
<1>7. ASSUME NEW url \in ToSet(Positions(used))
      PROVE  OfOpen(url, g, realtimes)
  <2> DEFINE all == [i \in DOMAIN used |-> used[i].positions]
             known == {used[i].positions : i \in {j \in DOMAIN used : Known(used[j].positions)}}
  <2>1. IsList(all)
    BY <1>4, ListMap
  <2>2. url \in known
    <3>1. Positions(used) = Those(all, known)
      BY DEF Positions
    <3> HIDE DEF all, known
    <3>2. QED
      BY <2>1, <3>1, ThoseAreOf
  <2>3. PICK i \in DOMAIN used : url = used[i].positions /\ Known(used[i].positions)
    BY <2>2
  <2>4. QED
    BY <1>4, <1>5, <2>3 DEF OfOpen
<1>8. chosen \in DOMAIN statics
  BY PickStaticPicks
<1>9. g.gated \in BOOLEAN
  BY <1>1
<1>10. \A url \in ToSet(g.updates) \cup ToSet(g.positions) : OfOpen(url, g, realtimes)
  BY <1>1, <1>6, <1>7
<1>11. IsSlice(g, statics, realtimes)
  BY <1>1, <1>8, <1>9, <1>10 DEF IsSlice
<1>12. QED
  BY <1>1, <1>11 DEF g

LEMMA UpToIsFinite ==
  ASSUME NEW n \in Nat
  PROVE  IsFiniteSet(1 .. n) /\ Cardinality(1 .. n) = n
<1>1. IsFiniteSet(1 .. n) /\ Cardinality(1 .. n) = IF 1 > n THEN 0 ELSE n - 1 + 1
  BY FS_Interval
<1>2. QED
  BY <1>1

\* Whoever comes while fewer are claimed than there are schedules finds one free.
LEMMA OneIsUnclaimed ==
  ASSUME NEW statics, IsList(statics), NEW groups, IsList(groups), Len(groups) < Len(statics)
  PROVE  DOMAIN statics \ Claimed(groups) # {}
<1>1. /\ DOMAIN statics = 1 .. Len(statics) /\ Len(statics) \in Nat
      /\ DOMAIN groups = 1 .. Len(groups) /\ Len(groups) \in Nat
  BY IsListProperties
<1> DEFINE f == [i \in 1 .. Len(groups) |-> groups[i].index]
<1>2. f \in Surjection(1 .. Len(groups), Claimed(groups))
  BY <1>1 DEF Surjection, Claimed
<1> HIDE DEF f
<1>3. IsFiniteSet(1 .. Len(groups)) /\ Cardinality(1 .. Len(groups)) = Len(groups)
  BY <1>1, UpToIsFinite
<1>4. IsFiniteSet(Claimed(groups)) /\ Cardinality(Claimed(groups)) <= Len(groups)
  BY <1>2, <1>3, FS_Surjection
<1>5. Cardinality(1 .. Len(statics)) = Len(statics)
  BY <1>1, UpToIsFinite
<1>6. ASSUME 1 .. Len(statics) \subseteq Claimed(groups)
      PROVE  FALSE
  <2>1. Cardinality(1 .. Len(statics)) <= Cardinality(Claimed(groups))
    BY <1>4, <1>6, FS_Subset
  <2>2. Cardinality(Claimed(groups)) \in Nat
    BY <1>4, FS_CardinalityType
  <2>3. QED
    BY <1>1, <1>4, <1>5, <2>1, <2>2
<1>7. QED
  BY <1>1, <1>6

\* While there are schedules for all, no two slices have the same.
Apart(groups, statics) ==
  Len(groups) <= Len(statics) =>
    \A i, j \in DOMAIN groups : i # j => groups[i].index # groups[j].index

LEMMA GroupsAreSlices ==
  ASSUME NEW modes, IsList(modes), NEW statics, IsList(statics), statics # <<>>,
         NEW realtimes, IsList(realtimes), \A f \in ToSet(realtimes) : Known(f.updates)
  PROVE  /\ IsList(Groups(modes, statics, realtimes))
         /\ \A g \in ToSet(Groups(modes, statics, realtimes)) : IsSlice(g, statics, realtimes)
         /\ Apart(Groups(modes, statics, realtimes), statics)
<1> DEFINE N == Len(modes)
           G == {Group(key, statics, realtimes, claimed) :
                   key \in ToSet(modes), claimed \in SUBSET DOMAIN statics}
           V == {gs \in Seq(G) : Apart(gs, statics)}
           step == [p \in (1 .. N) \X V |->
                      Append(p[2], Group(modes[p[1]], statics, realtimes, Claimed(p[2])))]
           upto == CHOOSE h : h = [n \in 0 .. N |->
                      IF n = 0 THEN <<>>
                      ELSE Append(h[n - 1], Group(modes[n], statics, realtimes, Claimed(h[n - 1])))]
<1>1. N \in Nat /\ \A n \in 1 .. N : modes[n] \in ToSet(modes)
  BY IsListProperties
<1>2. \A g \in G : IsSlice(g, statics, realtimes)
  BY GroupIsSlice
<1>3. <<>> \in V
  BY DEF Apart
<1>4. ASSUME NEW n \in 1 .. N, NEW gs \in V
      PROVE  Append(gs, Group(modes[n], statics, realtimes, Claimed(gs))) \in V
  <2> DEFINE g == Group(modes[n], statics, realtimes, Claimed(gs))
             r == Append(gs, g)
  <2>1. gs \in Seq(G) /\ Apart(gs, statics)
    OBVIOUS
  <2>2. /\ IsList(gs) /\ \A x \in ToSet(gs) : x \in G
        /\ DOMAIN gs = 1 .. Len(gs) /\ Len(gs) \in Nat /\ \A i \in DOMAIN gs : gs[i] \in ToSet(gs)
    <3> HIDE DEF G
    <3>1. QED
      BY <2>1, ListOf
  <2>3. Claimed(gs) \subseteq DOMAIN statics
    <3>1. \A i \in DOMAIN gs : gs[i].index \in DOMAIN statics
      BY <1>2, <2>2 DEF IsSlice
    <3>2. QED
      BY <3>1 DEF Claimed
  <2>4. g \in G
    BY <1>1, <2>3
  <2>5. g.index = PickStatic(statics, modes[n], Claimed(gs))
    BY GroupIsSlice
  <2> HIDE DEF G, g
  <2>6. /\ r \in Seq(G) /\ Len(r) = Len(gs) + 1 /\ DOMAIN r = 1 .. Len(gs) + 1
        /\ r[Len(gs) + 1] = g /\ \A i \in 1 .. Len(gs) : r[i] = gs[i]
    BY <2>1, <2>2, <2>4
  <2> HIDE DEF r
  <2>7. ASSUME Len(r) <= Len(statics)
        PROVE  \A i, j \in DOMAIN r : i # j => r[i].index # r[j].index
    <3>1. Len(gs) < Len(statics) /\ Len(gs) <= Len(statics)
      BY <2>2, <2>6, <2>7, IsListProperties
    <3>2. g.index \notin Claimed(gs)
      BY <2>2, <2>5, <3>1, OneIsUnclaimed, PickStaticPicks
    <3>3. \A i \in 1 .. Len(gs) : gs[i].index # g.index
      BY <2>2, <3>2 DEF Claimed
    <3>4. \A i, j \in 1 .. Len(gs) : i # j => gs[i].index # gs[j].index
      BY <2>1, <2>2, <3>1 DEF Apart
    <3>5. \A i \in DOMAIN r : i \in 1 .. Len(gs) \/ i = Len(gs) + 1
      BY <2>2, <2>6
    <3>6. ASSUME NEW i \in DOMAIN r, NEW j \in DOMAIN r, i # j
          PROVE  r[i].index # r[j].index
      <4>1. CASE i \in 1 .. Len(gs) /\ j \in 1 .. Len(gs)
        BY <2>6, <3>4, <3>6, <4>1
      <4>2. CASE i \in 1 .. Len(gs) /\ j = Len(gs) + 1
        BY <2>6, <3>3, <4>2
      <4>3. CASE i = Len(gs) + 1 /\ j \in 1 .. Len(gs)
        BY <2>6, <3>3, <4>3
      <4>4. QED
        BY <3>5, <3>6, <4>1, <4>2, <4>3
    <3>7. QED
      BY <3>6
  <2>8. Apart(r, statics)
    BY <2>7 DEF Apart
  <2>9. QED
    BY <2>6, <2>8 DEF r, g
<1>5. PICK h : Iterates(h, N, V, <<>>, step)
  <2>1. Step(step, N, V)
    <3> HIDE DEF V
    <3>1. QED
      BY <1>4 DEF Step
  <2> HIDE DEF step, N, V
  <2>2. QED
    BY <1>1, <1>3, <2>1, Recursion
<1>6. h = [n \in 0 .. N |->
             IF n = 0 THEN <<>>
             ELSE Append(h[n - 1], Group(modes[n], statics, realtimes, Claimed(h[n - 1])))]
  <2> HIDE DEF V
  <2>1. \A n \in 1 .. N : n - 1 \in 0 .. N
    BY <1>1
  <2>2. \A n \in 1 .. N : <<n, h[n - 1]>> \in (1 .. N) \X V
    BY <1>5, <2>1 DEF Iterates
  <2>3. \A n \in 1 .. N :
          h[n] = Append(h[n - 1], Group(modes[n], statics, realtimes, Claimed(h[n - 1])))
    BY <1>5, <2>2 DEF Iterates
  <2>4. \A n \in 0 .. N : n = 0 \/ n \in 1 .. N
    BY <1>1
  <2> HIDE DEF N, step
  <2>5. QED
    BY <1>5, <2>3, <2>4 DEF Iterates
<1>7. upto = [n \in 0 .. N |->
                IF n = 0 THEN <<>>
                ELSE Append(upto[n - 1], Group(modes[n], statics, realtimes, Claimed(upto[n - 1])))]
  BY <1>6
<1>8. Groups(modes, statics, realtimes) = upto[N]
  BY DEF Groups
<1> HIDE DEF upto, V
<1> DEFINE S == {n \in Nat : n <= N => upto[n] \in V}
<1>9. 0 \in S
  BY <1>1, <1>3, <1>7
<1>10. ASSUME NEW n \in Nat, n \in S
       PROVE  n + 1 \in S
  <2> SUFFICES ASSUME n + 1 <= N
               PROVE  upto[n + 1] \in V
    OBVIOUS
  <2> HIDE DEF N
  <2>1. n + 1 \in 0 .. N /\ n + 1 # 0 /\ (n + 1) - 1 = n /\ n + 1 \in 1 .. N /\ n <= N
    BY <1>1
  <2>2. upto[n + 1] = Append(upto[n], Group(modes[n + 1], statics, realtimes, Claimed(upto[n])))
    BY <1>7, <2>1
  <2>3. upto[n] \in V
    BY <1>10, <2>1
  <2>4. QED
    BY <1>4, <2>1, <2>2, <2>3
<1>11. upto[N] \in V
  <2> HIDE DEF S, N
  <2>1. N \in S
    BY <1>1, <1>9, <1>10, Induction
  <2>2. QED
    BY <1>1, <2>1 DEF S
<1>12. upto[N] \in Seq(G) /\ Apart(upto[N], statics)
  BY <1>11 DEF V
<1>13. IsList(upto[N]) /\ \A g \in ToSet(upto[N]) : g \in G
  <2> HIDE DEF G, N
  <2>1. QED
    BY <1>12, ListOf
<1>14. QED
  BY <1>2, <1>8, <1>12, <1>13

\* decompose: slices of the operator's own feeds.
LEMMA DecomposeAreSlices ==
  ASSUME NEW op, NEW feeds, IsList(op.associated)
  PROVE  /\ IsList(Decompose(op, feeds))
         /\ \A g \in ToSet(Decompose(op, feeds)) : IsSlice(g, Statics(op, feeds), Realtimes(op, feeds))
         /\ Apart(Decompose(op, feeds), Statics(op, feeds))
<1> DEFINE statics == Statics(op, feeds)
           realtimes == Realtimes(op, feeds)
           keys == [i \in DOMAIN realtimes |-> ModeKey(realtimes[i])]
<1>1. /\ IsList(statics) /\ IsList(realtimes)
      /\ \A f \in ToSet(realtimes) : Known(f.updates)
  BY StaticsAndRealtimes
<1>2. CASE statics = <<>> \/ realtimes = <<>>
  <2>1. Decompose(op, feeds) = <<>>
    BY <1>2 DEF Decompose
  <2>2. IsList(<<>>) /\ ToSet(<<>>) = {} /\ Apart(<<>>, statics)
    BY DEF IsList, ToSet, Apart
  <2>3. QED
    BY <2>1, <2>2
<1>3. CASE ~(statics = <<>> \/ realtimes = <<>>)
  <2>1. Decompose(op, feeds) = Groups(Modes(realtimes), statics, realtimes)
    BY <1>3 DEF Decompose
  <2>2. Modes(realtimes) = Deduped(keys)
    BY DEF Modes
  <2> HIDE DEF statics, realtimes
  <2>3. IsList(keys)
    BY <1>1, ListMap
  <2> HIDE DEF keys
  <2>4. IsList(Modes(realtimes))
    BY <2>2, <2>3, DedupedAreOf
  <2>5. /\ IsList(Groups(Modes(realtimes), statics, realtimes))
        /\ \A g \in ToSet(Groups(Modes(realtimes), statics, realtimes)) : IsSlice(g, statics, realtimes)
        /\ Apart(Groups(Modes(realtimes), statics, realtimes), statics)
    BY <1>1, <1>3, <2>4, GroupsAreSlices
  <2>6. QED
    BY <2>1, <2>5 DEF statics, realtimes
<1>4. QED
  BY <1>2, <1>3

\* A config of the Atlas: its schedule is a feed's, and what it polls are URLs of
\* realtime feeds, which are open if it says so.
FromFeeds(c, feeds) ==
  /\ \E f \in Fed(feeds) : Known(f.static) /\ c.static = f.static
  /\ c.gated \in BOOLEAN \/ (c.gated = None /\ c.updates = <<>>)
  /\ \A url \in Requests(c) :
       \E f \in Fed(feeds) :
         /\ f.spec = "gtfs-rt" /\ url \in {f.updates, f.positions} /\ Known(url)
         /\ c.gated = FALSE => ~f.gated

LEMMA SlicesAreFromFeeds ==
  ASSUME NEW op, NEW feeds, IsList(op.associated)
  PROVE  /\ IsList(Slices(op, feeds))
         /\ \A s \in ToSet(Slices(op, feeds)) : FromFeeds(SliceConfig(s), feeds)
<1> DEFINE statics == Statics(op, feeds)
           realtimes == Realtimes(op, feeds)
           groups == Decompose(op, feeds)
           slices == [j \in DOMAIN groups |->
                        [op |-> op, group |-> groups[j],
                         label |-> IF Len(groups) > 1 THEN groups[j].label ELSE None]]
<1>1. Slices(op, feeds) = slices
  BY DEF Slices
<1>2. IsList(groups) /\ \A g \in ToSet(groups) : IsSlice(g, statics, realtimes)
  BY DecomposeAreSlices
<1>3. /\ IsList(statics) /\ \A f \in ToSet(statics) : f \in Fed(feeds) /\ Known(f.static)
      /\ \A f \in ToSet(realtimes) : f \in Fed(feeds) /\ f.spec = "gtfs-rt"
  BY StaticsAndRealtimes
<1> HIDE DEF groups, statics, realtimes
<1>4. IsList(slices)
  BY <1>2, ListMap
<1>5. ASSUME NEW s \in ToSet(slices)
      PROVE  FromFeeds(SliceConfig(s), feeds)
  <2>1. PICK j \in DOMAIN groups : s.group = groups[j]
    BY DEF ToSet
  <2>2. PICK g \in ToSet(groups) : g = groups[j]
    BY <1>2, IsListProperties
  <2>3. IsSlice(g, statics, realtimes)
    BY <1>2
  <2>4. PICK c : c = SliceConfig(s)
    OBVIOUS
  <2>5. c.static = g.static /\ c.gated = g.gated /\ c.updates = g.updates /\ c.positions = g.positions
    BY <2>1, <2>2, <2>4 DEF SliceConfig, BuildConfig
  <2>6. g.index \in DOMAIN statics /\ g.static = statics[g.index].static /\ g.gated \in BOOLEAN
    BY <2>3 DEF IsSlice
  <2>7. statics[g.index] \in ToSet(statics)
    BY <1>3, <2>6, IsListProperties
  <2>8. \E f \in Fed(feeds) : Known(f.static) /\ c.static = f.static
    BY <1>3, <2>5, <2>6, <2>7
  <2>9. ASSUME NEW url \in Requests(c)
        PROVE  \E f \in Fed(feeds) :
                 /\ f.spec = "gtfs-rt" /\ url \in {f.updates, f.positions} /\ Known(url)
                 /\ c.gated = FALSE => ~f.gated
    <3>1. OfOpen(url, g, realtimes)
      BY <2>3, <2>5 DEF IsSlice, Requests
    <3>2. QED
      BY <1>3, <2>5, <3>1 DEF OfOpen
  <2>10. FromFeeds(c, feeds)
    BY <2>5, <2>6, <2>8, <2>9 DEF FromFeeds
  <2>11. QED
    BY <2>4, <2>10
<1>6. QED
  BY <1>1, <1>4, <1>5

\* Lists of the same kind, one after the other, are one.
LEMMA FlattenIsOf ==
  ASSUME NEW C, NEW seqs, IsList(seqs), \A i \in DOMAIN seqs : seqs[i] \in Seq(C)
  PROVE  FlattenSeq(seqs) \in Seq(C)
<1>1. Len(seqs) \in Nat /\ DOMAIN seqs = 1 .. Len(seqs)
  BY IsListProperties
<1>2. CASE Len(seqs) = 0
  <2>1. FlattenSeq(seqs) = seqs
    BY <1>2 DEF FlattenSeq
  <2>2. seqs = <<>>
    <3>1. seqs \in Seq(ToSet(seqs))
      BY DEF IsList
    <3>2. QED
      BY <1>2, <3>1
  <2>3. QED
    BY <2>1, <2>2
<1>3. CASE Len(seqs) # 0
  <2> DEFINE N == Len(seqs)
             V == Seq(C)
             step == [p \in (1 .. N - 1) \X V |-> p[2] \o seqs[p[1] + 1]]
             flatten == CHOOSE h : h = [i \in 1 .. N |->
                          IF i = 1 THEN seqs[i] ELSE h[i - 1] \o seqs[i]]
  <2>1. N \in Nat /\ N - 1 \in Nat /\ 1 \in 1 .. N /\ \A n \in 1 .. N - 1 : n + 1 \in 1 .. N
    BY <1>1, <1>3
  <2>2. \A n \in 1 .. N : seqs[n] \in V
    BY <1>1
  <2>3. \A v, w \in V : v \o w \in V
    OBVIOUS
  <2>4. Step(step, N - 1, V)
    <3>1. \A n \in 1 .. N - 1 : seqs[n + 1] \in V
      BY <2>1, <2>2
    <3> HIDE DEF V, N
    <3>2. QED
      BY <2>3, <3>1 DEF Step
  <2>5. PICK f : Iterates(f, N - 1, V, seqs[1], step)
    <3>1. seqs[1] \in V
      BY <2>1, <2>2
    <3> HIDE DEF step, V, N
    <3>2. QED
      BY <2>1, <2>4, <3>1, Recursion
  <2> DEFINE h == [i \in 1 .. N |-> f[i - 1]]
  <2>6. h[1] = seqs[1]
    BY <2>1, <2>5 DEF Iterates
  <2>7. ASSUME NEW i \in 1 .. N, i # 1
        PROVE  h[i] = h[i - 1] \o seqs[i]
    <3>1. i - 1 \in 1 .. N - 1 /\ i - 1 \in 1 .. N /\ (i - 1) + 1 = i /\ (i - 1) - 1 \in 0 .. N - 1
      BY <2>1, <2>7
    <3>2. h[i] = f[i - 1] /\ h[i - 1] = f[(i - 1) - 1]
      BY <3>1
    <3>3. f[(i - 1) - 1] \in V
      <4> HIDE DEF V, step, N
      <4>1. QED
        BY <2>5, <3>1 DEF Iterates
    <3>4. f[i - 1] = step[<<i - 1, f[(i - 1) - 1]>>]
      <4> HIDE DEF V, step, N
      <4>1. QED
        BY <2>5, <3>1 DEF Iterates
    <3>5. step[<<i - 1, f[(i - 1) - 1]>>] = f[(i - 1) - 1] \o seqs[i]
      <4> HIDE DEF V, N
      <4>1. QED
        BY <3>1, <3>3
    <3>6. QED
      BY <3>2, <3>4, <3>5
  <2>8. h = [i \in 1 .. N |-> IF i = 1 THEN seqs[i] ELSE h[i - 1] \o seqs[i]]
    <3>1. h = [i \in 1 .. N |-> h[i]]
      OBVIOUS
    <3>2. \A i \in 1 .. N : h[i] = IF i = 1 THEN seqs[i] ELSE h[i - 1] \o seqs[i]
      <4> HIDE DEF h, N
      <4>1. QED
        BY <2>6, <2>7
    <3> HIDE DEF h, N
    <3>3. QED
      BY <3>1, <3>2
  <2>9. flatten = [i \in 1 .. N |-> IF i = 1 THEN seqs[i] ELSE flatten[i - 1] \o seqs[i]]
    <3> HIDE DEF h
    <3>1. QED
      BY <2>8
  <2>10. FlattenSeq(seqs) = flatten[N]
    BY <1>3 DEF FlattenSeq
  <2> HIDE DEF flatten, V
  <2> DEFINE S == {n \in Nat : n + 1 <= N => flatten[n + 1] \in V}
  <2>11. 0 \in S
    <3>1. flatten[1] = seqs[1]
      BY <2>1, <2>9
    <3>2. QED
      BY <2>1, <2>2, <3>1
  <2>12. ASSUME NEW n \in Nat, n \in S
         PROVE  n + 1 \in S
    <3> SUFFICES ASSUME n + 2 <= N
                 PROVE  flatten[n + 2] \in V
      BY <2>1
    <3>1. n + 2 \in 1 .. N /\ n + 2 # 1 /\ (n + 2) - 1 = n + 1 /\ n + 1 <= N
      BY <2>1
    <3>2. flatten[n + 1] \in V
      BY <2>12, <3>1
    <3> HIDE DEF N
    <3>3. flatten[n + 2] = flatten[n + 1] \o seqs[n + 2]
      BY <2>9, <3>1
    <3>4. QED
      BY <2>2, <2>3, <3>1, <3>2, <3>3
  <2>13. N - 1 \in S
    <3> HIDE DEF S, N
    <3>1. QED
      BY <2>1, <2>11, <2>12, Induction
  <2>14. flatten[N] \in V
    <3>1. (N - 1) + 1 = N
      BY <2>1
    <3>2. flatten[(N - 1) + 1] \in V
      BY <2>1, <2>13, <3>1
    <3>3. QED
      BY <3>1, <3>2
  <2>15. QED
    BY <2>10, <2>14 DEF V
<1>4. QED
  BY <1>2, <1>3

\* Pass 1 takes slices.
LEMMA PollableAreSlices ==
  ASSUME NEW slices, IsList(slices)
  PROVE  Pollable(slices) \in Seq({SliceConfig(s) : s \in ToSet(slices)})
<1> DEFINE N == Len(slices)
           V == Seq({SliceConfig(s) : s \in ToSet(slices)})
           polls(configs) == UNION {ToSet(configs[i].updates) : i \in DOMAIN configs}
           known(n, configs) == ToSet(slices[n].group.updates) \subseteq polls(configs)
           step == [p \in (1 .. N) \X V |->
                      IF known(p[1], p[2]) THEN p[2] ELSE Append(p[2], SliceConfig(slices[p[1]]))]
           upto == CHOOSE h : h = [n \in 0 .. N |->
                      IF n = 0 THEN <<>>
                      ELSE IF known(n, h[n - 1]) THEN h[n - 1]
                      ELSE Append(h[n - 1], SliceConfig(slices[n]))]
<1>1. N \in Nat /\ \A n \in 1 .. N : slices[n] \in ToSet(slices)
  BY IsListProperties
<1>2. <<>> \in V
  OBVIOUS
<1>3. ASSUME NEW n \in 1 .. N, NEW v \in V
      PROVE  Append(v, SliceConfig(slices[n])) \in V
  BY <1>1
<1>4. Pollable(slices) = upto[N]
  BY DEF Pollable
<1> HIDE DEF V, known
<1>5. PICK h : Iterates(h, N, V, <<>>, step)
  <2>1. Step(step, N, V)
    BY <1>3 DEF Step
  <2> HIDE DEF step, N
  <2>2. QED
    BY <1>1, <1>2, <2>1, Recursion
<1>6. h = [n \in 0 .. N |->
             IF n = 0 THEN <<>>
             ELSE IF known(n, h[n - 1]) THEN h[n - 1]
             ELSE Append(h[n - 1], SliceConfig(slices[n]))]
  <2>1. \A n \in 1 .. N : n - 1 \in 0 .. N
    BY <1>1
  <2>2. \A n \in 1 .. N : <<n, h[n - 1]>> \in (1 .. N) \X V
    BY <1>5, <2>1 DEF Iterates
  <2>3. \A n \in 1 .. N : h[n] = IF known(n, h[n - 1]) THEN h[n - 1]
                                 ELSE Append(h[n - 1], SliceConfig(slices[n]))
    BY <1>5, <2>2 DEF Iterates
  <2>4. \A n \in 0 .. N : n = 0 \/ n \in 1 .. N
    BY <1>1
  <2> HIDE DEF N, step
  <2>5. QED
    BY <1>5, <2>3, <2>4 DEF Iterates
<1>7. upto = [n \in 0 .. N |->
                IF n = 0 THEN <<>>
                ELSE IF known(n, upto[n - 1]) THEN upto[n - 1]
                ELSE Append(upto[n - 1], SliceConfig(slices[n]))]
  BY <1>6
<1> HIDE DEF upto
<1> DEFINE S == {n \in Nat : n <= N => upto[n] \in V}
<1>8. 0 \in S
  BY <1>1, <1>2, <1>7
<1>9. ASSUME NEW n \in Nat, n \in S
      PROVE  n + 1 \in S
  <2> SUFFICES ASSUME n + 1 <= N
               PROVE  upto[n + 1] \in V
    OBVIOUS
  <2>1. upto[n] \in V
    BY <1>1, <1>9
  <2> HIDE DEF N
  <2>2. n + 1 \in 0 .. N /\ n + 1 # 0 /\ (n + 1) - 1 = n /\ n + 1 \in 1 .. N
    BY <1>1
  <2>3. upto[n + 1] = IF known(n + 1, upto[n]) THEN upto[n]
                      ELSE Append(upto[n], SliceConfig(slices[n + 1]))
    BY <1>7, <2>2
  <2>4. QED
    BY <1>3, <2>1, <2>2, <2>3
<1>10. upto[N] \in V
  <2>1. N \in S
    <3> HIDE DEF S, N
    <3>1. QED
      BY <1>1, <1>8, <1>9, Induction
  <2>2. QED
    BY <1>1, <2>1
<1>11. QED
  BY <1>4, <1>10 DEF V

\* parse_atlas: all of it comes from the feeds.
LEMMA AtlasIsFromFeeds ==
  ASSUME NEW operators, IsList(operators), NEW feeds,
         \A o \in ToSet(operators) : IsList(o.associated)
  PROVE  /\ IsList(ParseAtlas(operators, feeds))
         /\ \A c \in ToSet(ParseAtlas(operators, feeds)) : FromFeeds(c, feeds)
<1> DEFINE N == Len(operators)
           sliced == [i \in DOMAIN operators |-> Slices(operators[i], feeds)]
           all == UNION {ToSet(Slices(o, feeds)) : o \in ToSet(operators)}
           slices == FlattenSeq(sliced)
           scheduled == {o \in ToSet(operators) : Statics(o, feeds) # <<>>}
           C == {SliceConfig(s) : s \in all} \cup {StaticOnly(o, feeds) : o \in scheduled}
           V == Seq(C)
           passed(n, configs) ==
             \/ Realtimes(operators[n], feeds) # <<>> \/ Statics(operators[n], feeds) = <<>>
             \/ \E i \in DOMAIN configs : configs[i].static = Statics(operators[n], feeds)[1].static
           step == [p \in (1 .. N) \X V |->
                      IF passed(p[1], p[2]) THEN p[2]
                      ELSE Append(p[2], StaticOnly(operators[p[1]], feeds))]
           upto == CHOOSE h : h = [n \in 0 .. N |->
                      IF n = 0 THEN Pollable(slices)
                      ELSE IF passed(n, h[n - 1]) THEN h[n - 1]
                      ELSE Append(h[n - 1], StaticOnly(operators[n], feeds))]
<1>1. /\ N \in Nat /\ DOMAIN operators = 1 .. N
      /\ \A n \in 1 .. N : operators[n] \in ToSet(operators) /\ IsList(operators[n].associated)
  BY IsListProperties
<1>2. slices \in Seq(all)
  <2>1. IsList(sliced) /\ DOMAIN sliced = DOMAIN operators
    BY ListMap
  <2>2. \A n \in 1 .. N : Slices(operators[n], feeds) \in Seq(all)
    <3>1. ASSUME NEW n \in 1 .. N
          PROVE  Slices(operators[n], feeds) \in Seq(all)
      <4>1. IsList(Slices(operators[n], feeds))
        BY <1>1, SlicesAreFromFeeds
      <4>2. \A i \in DOMAIN Slices(operators[n], feeds) : Slices(operators[n], feeds)[i] \in all
        BY <1>1, <4>1, IsListProperties
      <4> HIDE DEF all
      <4>3. QED
        BY <4>1, <4>2, IsListProperties DEF IsList
    <3>2. QED
      BY <3>1
  <2> HIDE DEF all
  <2>3. \A n \in DOMAIN sliced : sliced[n] \in Seq(all)
    BY <1>1, <2>1, <2>2
  <2> HIDE DEF sliced
  <2>4. QED
    BY <2>1, <2>3, FlattenIsOf
<1>3. Pollable(slices) \in V
  <2>1. IsList(slices) /\ ToSet(slices) \subseteq all
    <3> HIDE DEF all, slices
    <3>1. QED
      BY <1>2, ListOf
  <2> DEFINE taken == {SliceConfig(s) : s \in ToSet(slices)}
  <2>2. taken \subseteq C
    BY <2>1
  <2>3. Pollable(slices) \in Seq(taken)
    <3> HIDE DEF slices
    <3>1. QED
      BY <2>1, PollableAreSlices
  <2> HIDE DEF taken, C, slices
  <2>4. QED
    BY <2>2, <2>3
<1>4. \A c \in C : FromFeeds(c, feeds)
  <2>1. ASSUME NEW s \in all
        PROVE  FromFeeds(SliceConfig(s), feeds)
    BY SlicesAreFromFeeds
  <2>2. ASSUME NEW o \in scheduled
        PROVE  FromFeeds(StaticOnly(o, feeds), feeds)
    <3>1. PICK c, statics : c = StaticOnly(o, feeds) /\ statics = Statics(o, feeds)
      OBVIOUS
    <3>2. IsList(statics) /\ \A f \in ToSet(statics) : f \in Fed(feeds) /\ Known(f.static)
      BY <3>1, StaticsAndRealtimes
    <3>3. statics[1] \in ToSet(statics)
      <4>1. statics \in Seq(ToSet(statics)) /\ statics # <<>>
        BY <3>1, <3>2 DEF IsList
      <4>2. 1 \in DOMAIN statics
        BY <4>1
      <4>3. QED
        BY <3>2, <4>2, IsListProperties
    <3>4. c.static = statics[1].static /\ c.gated = None /\ c.updates = <<>> /\ c.positions = <<>>
      BY <3>1 DEF StaticOnly, BuildConfig
    <3>5. Requests(c) = {}
      BY <3>4 DEF Requests, ToSet
    <3>6. QED
      BY <3>1, <3>2, <3>3, <3>4, <3>5 DEF FromFeeds
  <2>3. QED
    BY <2>1, <2>2
<1>5. ASSUME NEW n \in 1 .. N, NEW v \in V, ~passed(n, v)
      PROVE  Append(v, StaticOnly(operators[n], feeds)) \in V
  <2>1. StaticOnly(operators[n], feeds) \in C
    BY <1>1, <1>5
  <2> HIDE DEF C
  <2>2. QED
    BY <2>1
<1>6. ParseAtlas(operators, feeds) = upto[N]
  BY DEF ParseAtlas
<1> HIDE DEF C, V, passed, slices
<1>7. PICK h : Iterates(h, N, V, Pollable(slices), step)
  <2>1. Step(step, N, V)
    BY <1>5 DEF Step
  <2> HIDE DEF step, N
  <2>2. QED
    BY <1>1, <1>3, <2>1, Recursion
<1>8. h = [n \in 0 .. N |->
             IF n = 0 THEN Pollable(slices)
             ELSE IF passed(n, h[n - 1]) THEN h[n - 1]
             ELSE Append(h[n - 1], StaticOnly(operators[n], feeds))]
  <2>1. \A n \in 1 .. N : n - 1 \in 0 .. N
    BY <1>1
  <2>2. \A n \in 1 .. N : <<n, h[n - 1]>> \in (1 .. N) \X V
    BY <1>7, <2>1 DEF Iterates
  <2>3. \A n \in 1 .. N : h[n] = IF passed(n, h[n - 1]) THEN h[n - 1]
                                 ELSE Append(h[n - 1], StaticOnly(operators[n], feeds))
    BY <1>7, <2>2 DEF Iterates
  <2>4. \A n \in 0 .. N : n = 0 \/ n \in 1 .. N
    BY <1>1
  <2> HIDE DEF N, step
  <2>5. QED
    BY <1>7, <2>3, <2>4 DEF Iterates
<1>9. upto = [n \in 0 .. N |->
                IF n = 0 THEN Pollable(slices)
                ELSE IF passed(n, upto[n - 1]) THEN upto[n - 1]
                ELSE Append(upto[n - 1], StaticOnly(operators[n], feeds))]
  BY <1>8
<1> HIDE DEF upto
<1> DEFINE S == {n \in Nat : n <= N => upto[n] \in V}
<1>10. 0 \in S
  BY <1>1, <1>3, <1>9
<1>11. ASSUME NEW n \in Nat, n \in S
       PROVE  n + 1 \in S
  <2> SUFFICES ASSUME n + 1 <= N
               PROVE  upto[n + 1] \in V
    OBVIOUS
  <2>1. upto[n] \in V
    BY <1>1, <1>11
  <2> HIDE DEF N
  <2>2. n + 1 \in 0 .. N /\ n + 1 # 0 /\ (n + 1) - 1 = n /\ n + 1 \in 1 .. N
    BY <1>1
  <2>3. upto[n + 1] = IF passed(n + 1, upto[n]) THEN upto[n]
                      ELSE Append(upto[n], StaticOnly(operators[n + 1], feeds))
    BY <1>9, <2>2
  <2>4. QED
    BY <1>5, <2>1, <2>2, <2>3
<1>12. upto[N] \in V
  <2>1. N \in S
    <3> HIDE DEF S, N
    <3>1. QED
      BY <1>1, <1>10, <1>11, Induction
  <2>2. QED
    BY <1>1, <2>1
<1>13. IsList(upto[N]) /\ ToSet(upto[N]) \subseteq C
  <2> HIDE DEF N
  <2>1. QED
    BY <1>12, ListOf DEF V
<1>14. QED
  BY <1>4, <1>6, <1>13
-----------------------------------------------------------------------------
(* What the rows list.                                                     *)

\* A config of the rows: what it polls are URLs of its own realtime rows, and it
\* says it is open only if one of its rows does, or none says that it is not.
FromRows(c, rows) ==
  /\ \E r \in ToSet(rows) : Known(r.url) /\ c.static = r.url
  /\ c.gated \in BOOLEAN \cup {None}
  /\ \A url \in Requests(c) :
       \E r \in ToSet(rows) :
         r.type = "gtfs_rt" /\ Known(r.url) /\ url = r.url /\ c.slug = <<AgencyOf(r)>>
  /\ c.gated # TRUE =>
       \A r \in ToSet(rows) : c.slug = <<AgencyOf(r)>> /\ r.auth \in {1, 2} =>
         \E s \in ToSet(rows) : AgencyOf(s) = AgencyOf(r) /\ Known(s.auth) /\ s.auth \notin {1, 2}

\* The first of those that speak, or None if none does.
LEMMA FirstKnownSpeaks ==
  ASSUME NEW values, IsList(values)
  PROVE  \/ FirstKnown(values) = None /\ \A v \in ToSet(values) : ~Known(v)
         \/ FirstKnown(values) \in ToSet(values) /\ Known(FirstKnown(values))
<1> DEFINE speaking == {v \in ToSet(values) : Known(v)}
           known == Those(values, speaking)
<1>1. FirstKnown(values) = IF known = <<>> THEN None ELSE Head(known)
  BY DEF FirstKnown
<1>2. IsList(known) /\ \A v : v \in ToSet(known) <=> v \in ToSet(values) /\ v \in speaking
  <2> HIDE DEF speaking
  <2>1. QED
    BY ThoseAreOf
<1> HIDE DEF known
<1>3. CASE known = <<>>
  <2>1. ToSet(known) = {}
    BY <1>3 DEF ToSet
  <2>2. QED
    BY <1>1, <1>2, <1>3, <2>1
<1>4. CASE known # <<>>
  <2>1. Head(known) = known[1] /\ 1 \in DOMAIN known
    <3>1. known \in Seq(ToSet(known))
      BY <1>2 DEF IsList
    <3>2. QED
      BY <1>4, <3>1
  <2>2. Head(known) \in ToSet(known)
    BY <1>2, <2>1, IsListProperties
  <2>3. QED
    BY <1>1, <1>2, <1>4, <2>2
<1>5. QED
  BY <1>3, <1>4

\* The URLs that serve an entity are those of realtime rows.
LEMMA ServingAreOf ==
  ASSUME NEW rows, IsList(rows), NEW entity, NEW url \in ToSet(Serving(rows, entity))
  PROVE  \E r \in ToSet(rows) : r.type = "gtfs_rt" /\ Known(r.url) /\ url = r.url
<1> DEFINE live == {r \in ToSet(rows) : /\ r.type = "gtfs_rt" /\ Known(r.url)
                                        /\ r.entities = {} \/ entity \in r.entities}
           serving == Those(rows, live)
           urls == [i \in DOMAIN serving |-> serving[i].url]
<1>1. Serving(rows, entity) = Deduped(urls)
  BY DEF Serving
<1>2. \A r \in live : r \in ToSet(rows) /\ r.type = "gtfs_rt" /\ Known(r.url)
  OBVIOUS
<1> HIDE DEF live
<1>3. IsList(serving) /\ \A r \in ToSet(serving) : r \in live
  BY ThoseAreOf
<1> HIDE DEF serving
<1>4. IsList(urls)
  BY <1>3, ListMap
<1>5. url \in ToSet(urls)
  <2> HIDE DEF urls
  <2>1. QED
    BY <1>1, <1>4, DedupedAreOf
<1>6. PICK i \in DOMAIN serving : url = serving[i].url
  BY <1>5 DEF ToSet
<1>7. serving[i] \in live
  BY <1>3, IsListProperties
<1>8. QED
  BY <1>2, <1>6, <1>7

\* fold: a build is of its rows.
LEMMA BuildIsFromRows ==
  ASSUME None \notin {1, 2}, NEW rows, IsList(rows), NEW id,
         Known(Build(id, OfAgency(id, rows)).static)
  PROVE  FromRows(Build(id, OfAgency(id, rows)), rows)
<1> DEFINE mine == {r \in ToSet(rows) : AgencyOf(r) = id}
           own == OfAgency(id, rows)
           static == [i \in DOMAIN own |-> IF own[i].type = "gtfs" THEN own[i].url ELSE None]
           auth == [i \in DOMAIN own |->
                      IF Known(own[i].auth) THEN own[i].auth \in {1, 2} ELSE None]
<1>0. PICK c : c = Build(id, OfAgency(id, rows))
  OBVIOUS
<1>1. /\ c.slug = <<id>> /\ c.static = FirstKnown(static) /\ c.gated = FirstKnown(auth)
      /\ c.updates = Serving(own, "tu") /\ c.positions = Serving(own, "vp")
  BY <1>0 DEF Build
<1>2. IsList(own) /\ \A r : r \in ToSet(own) <=> r \in ToSet(rows) /\ AgencyOf(r) = id
  <2>1. own = Those(rows, mine)
    BY DEF OfAgency
  <2>2. IsList(own) /\ \A r : r \in ToSet(own) <=> r \in ToSet(rows) /\ r \in mine
    <3> HIDE DEF mine, own
    <3>1. QED
      BY <2>1, ThoseAreOf
  <2>3. QED
    BY <2>2
<1> HIDE DEF own
<1>3. \A i \in DOMAIN own : own[i] \in ToSet(own)
  BY <1>2, IsListProperties
<1>4. IsList(static) /\ IsList(auth)
  BY <1>2, ListMap
<1>5. \E r \in ToSet(rows) : Known(r.url) /\ c.static = r.url
  <2>1. FirstKnown(static) \in ToSet(static) /\ Known(FirstKnown(static))
    <3> HIDE DEF static
    <3>1. QED
      BY <1>0, <1>1, <1>4, FirstKnownSpeaks DEF Known
  <2>2. PICK i \in DOMAIN own :
          FirstKnown(static) = IF own[i].type = "gtfs" THEN own[i].url ELSE None
    BY <2>1 DEF ToSet
  <2>3. c.static = own[i].url /\ Known(own[i].url)
    BY <1>1, <2>1, <2>2 DEF Known
  <2>4. QED
    BY <1>2, <1>3, <2>3
<1>6. \A i \in DOMAIN own : auth[i] = IF Known(own[i].auth) THEN own[i].auth \in {1, 2} ELSE None
  OBVIOUS
<1>7. DOMAIN auth = DOMAIN own
  OBVIOUS
<1> HIDE DEF auth
<1>8. c.gated \in BOOLEAN \cup {None}
  <2>1. ASSUME NEW v \in ToSet(auth)
        PROVE  v \in BOOLEAN \cup {None}
    <3>1. PICK i \in DOMAIN own : v = auth[i]
      BY <1>7 DEF ToSet
    <3>2. CASE Known(own[i].auth)
      <4>1. v = (own[i].auth \in {1, 2})
        BY <1>6, <3>1, <3>2
      <4>2. QED
        BY <4>1
    <3>3. CASE ~Known(own[i].auth)
      BY <1>6, <3>1, <3>3
    <3>4. QED
      BY <3>2, <3>3
  <2>2. QED
    BY <1>1, <1>4, <2>1, FirstKnownSpeaks
<1>9. ASSUME NEW url \in Requests(c)
      PROVE  \E r \in ToSet(rows) :
               r.type = "gtfs_rt" /\ Known(r.url) /\ url = r.url /\ c.slug = <<AgencyOf(r)>>
  <2>1. url \in ToSet(Serving(own, "tu")) \/ url \in ToSet(Serving(own, "vp"))
    BY <1>1 DEF Requests
  <2>2. PICK r \in ToSet(own) : r.type = "gtfs_rt" /\ Known(r.url) /\ url = r.url
    BY <1>2, <2>1, ServingAreOf
  <2>3. QED
    BY <1>1, <1>2, <2>2
<1>10. ASSUME c.gated # TRUE, NEW r \in ToSet(rows), c.slug = <<AgencyOf(r)>>, r.auth \in {1, 2}
       PROVE  \E s \in ToSet(rows) :
                AgencyOf(s) = AgencyOf(r) /\ Known(s.auth) /\ s.auth \notin {1, 2}
  <2>1. AgencyOf(r) = id
    BY <1>1, <1>10
  <2>2. PICK i \in DOMAIN own : own[i] = r
    BY <1>2, <2>1 DEF ToSet
  <2>3. Known(r.auth)
    BY <1>10 DEF Known
  <2>4. auth[i] = TRUE /\ auth[i] \in ToSet(auth)
    <3>1. auth[i] = (r.auth \in {1, 2})
      BY <1>6, <2>2, <2>3
    <3>2. QED
      BY <1>7, <1>10, <3>1 DEF ToSet
  <2>5. FirstKnown(auth) \in ToSet(auth) /\ Known(FirstKnown(auth))
    <3>1. CASE FirstKnown(auth) = None /\ \A v \in ToSet(auth) : ~Known(v)
      BY <1>1, <1>10, <2>4, <3>1 DEF Known
    <3>2. QED
      BY <1>4, <3>1, FirstKnownSpeaks
  <2>6. PICK j \in DOMAIN own : FirstKnown(auth) = auth[j]
    BY <1>7, <2>5 DEF ToSet
  <2>7. Known(own[j].auth)
    BY <1>6, <2>5, <2>6 DEF Known
  <2>8. own[j].auth \notin {1, 2}
    <3>1. auth[j] = (own[j].auth \in {1, 2})
      BY <1>6, <2>7
    <3>2. auth[j] # TRUE
      BY <1>1, <1>10, <2>6
    <3>3. QED
      BY <3>1, <3>2
  <2>9. own[j] \in ToSet(rows) /\ AgencyOf(own[j]) = id
    BY <1>2, <1>3
  <2>10. QED
    BY <2>1, <2>7, <2>8, <2>9
<1>11. FromRows(c, rows)
  BY <1>5, <1>8, <1>9, <1>10 DEF FromRows
<1>12. QED
  BY <1>0, <1>11

\* The agencies of the rows are finitely many, in whatever order they are listed.
LEMMA MobilityAreFromRows ==
  ASSUME None \notin {1, 2}, NEW rows, IsList(rows)
  PROVE  /\ \A c \in MobilityAgencies(rows) : FromRows(c, rows)
         /\ \A agencies \in SetToSeqs(MobilityAgencies(rows)) :
              IsList(agencies) /\ ToSet(agencies) \subseteq MobilityAgencies(rows)
<1> DEFINE M == MobilityAgencies(rows)
           build == [i \in 1 .. Len(rows) |-> Build(AgencyOf(rows[i]), OfAgency(AgencyOf(rows[i]), rows))]
           builds == {build[i] : i \in 1 .. Len(rows)}
<1>1. Len(rows) \in Nat /\ DOMAIN rows = 1 .. Len(rows)
  BY IsListProperties
<1>2. \A c \in M : /\ Known(c.static)
                   /\ \E i \in 1 .. Len(rows) : c = build[i]
  BY <1>1 DEF MobilityAgencies
<1>3. \A c \in M : FromRows(c, rows)
  BY <1>2, BuildIsFromRows
<1>4. IsFiniteSet(M)
  <2>1. build \in Surjection(1 .. Len(rows), builds)
    BY DEF Surjection
  <2>2. M \subseteq builds
    BY <1>2
  <2> HIDE DEF build, builds, M
  <2>3. IsFiniteSet(builds)
    BY <1>1, <2>1, UpToIsFinite, FS_Surjection
  <2>4. QED
    BY <2>2, <2>3, FS_Subset
<1> HIDE DEF M
<1>5. ASSUME NEW agencies \in SetToSeqs(M)
      PROVE  IsList(agencies) /\ ToSet(agencies) \subseteq M
  <2>1. Cardinality(M) \in Nat
    BY <1>4, FS_CardinalityType
  <2>2. agencies \in [1 .. Cardinality(M) -> M]
    BY DEF SetToSeqs
  <2>3. agencies \in Seq(M)
    BY <2>1, <2>2
  <2>4. QED
    BY <2>3, ListOf
<1>6. QED
  BY <1>3, <1>5 DEF M
-----------------------------------------------------------------------------
(* What the passes compare.                                                *)

LEMMA SharesIsSymmetric ==
  ASSUME NEW a, NEW b
  PROVE  Shares(a, b) <=> Shares(b, a)
  BY DEF Shares

\* `seen` remembers what pass 1 must know of the kept ones.
LEMMA SeenSharesWithKept ==
  ASSUME SeenIsKept, NEW config
  PROVE  Seen(config) <=> \E k \in DOMAIN kept : Shares(config, kept[k])
<1>1. config.slug \in seen.slugs <=> \E k \in DOMAIN kept : config.slug = kept[k].slug
  BY DEF SeenIsKept
<1>2. config.static \in seen.statics <=> \E k \in DOMAIN kept : config.static = kept[k].static
  BY DEF SeenIsKept
<1>3. ToSet(config.updates) \cap seen.updates # {}
      <=> \E k \in DOMAIN kept : ToSet(config.updates) \cap ToSet(kept[k].updates) # {}
  BY DEF SeenIsKept
<1>4. QED
  BY <1>1, <1>2, <1>3 DEF Seen, Shares

LEMMA UsefulnessIsBounded ==
  ASSUME NEW config
  PROVE  Usefulness(config) \in 0 .. 2
  BY DEF Usefulness

\* What is configured by hand is open.
LEMMA HandConfiguredIsOpen ==
  ASSUME world \in Worlds, NEW i \in DOMAIN HandConfigured
  PROVE  HandConfigured[i].gated = FALSE
<1> DEFINE authed == AuthedAgencies(world.hand, world.secrets)
<1>1. IsList(authed)
  BY AuthedAreOf, WorldsAssumption DEF IsWorld
<1>2. \A j \in DOMAIN authed : authed[j].gated = FALSE
  BY DEF AuthedAgencies, AuthedConfig
<1>3. NjTransit.gated = FALSE
  BY DEF NjTransit
<1> DEFINE S == {NjTransit} \cup ToSet(authed)
<1>4. <<NjTransit>> \in Seq(S) /\ authed \in Seq(S)
  <2>1. \A j \in DOMAIN authed : authed[j] \in S
    BY <1>1, IsListProperties
  <2> HIDE DEF authed
  <2>2. NjTransit \in S
    OBVIOUS
  <2> HIDE DEF S
  <2>3. QED
    BY <1>1, <2>1, <2>2, IsListProperties DEF IsList
<1> HIDE DEF S, authed
<1>5. \/ i = 1 /\ HandConfigured[i] = NjTransit
      \/ i - 1 \in DOMAIN authed /\ HandConfigured[i] = authed[i - 1]
  <2>1. HandConfigured = <<NjTransit>> \o authed
    BY DEF HandConfigured, authed
  <2>2. QED
    BY <1>4, <2>1
<1>6. QED
  BY <1>2, <1>3, <1>5

LEMMA PreferredIsMostUseful ==
  ASSUME world \in Worlds, NEW h, Preferred(h)
  PROVE  Usefulness(h) = 2
<1>1. h.gated = FALSE /\ HasTripUpdates(h)
  BY HandConfiguredIsOpen DEF Preferred
<1>2. QED
  BY <1>1 DEF Usefulness, RequiresAuth

\* First finds one of the set.
LEMMA FirstIsOneOfThem ==
  ASSUME NEW indices, indices \subseteq Nat, indices # {}
  PROVE  First(indices) \in indices
  BY LeastNumber DEF First

LEMMA ScopedIsAList ==
  ASSUME IsList(listed)
  PROVE  /\ IsList(Scoped)
         /\ \E f : Filters(Scoped, listed, Len(listed), f)
<1>1. listed \in Seq(ToSet(listed))
  BY DEF IsList
<1>2. Scoped \in Seq(ToSet(listed)) /\ \E f : Filters(Scoped, listed, Len(listed), f)
  BY <1>1, InScopeOfFilters DEF Scoped
<1>3. QED
  BY <1>2, ListOf

\* A source configured by hand and in scope is among those in scope, and what
\* comes before it there is configured by hand before it.
LEMMA HandConfiguredAreScopedFirst ==
  ASSUME IsList(listed), Listed, NEW i \in DOMAIN HandConfigured, InScope(HandConfigured[i]),
         IsList(HandConfigured)
  PROVE  \E q \in DOMAIN Scoped :
           /\ Scoped[q] = HandConfigured[i]
           /\ \A p \in 1 .. q - 1 : \E j \in 1 .. i - 1 : Scoped[p] = HandConfigured[j]
<1>1. PICK f : Filters(Scoped, listed, Len(listed), f)
  BY ScopedIsAList
<1>2. i \in 1 .. Len(listed) /\ listed[i] = HandConfigured[i]
  BY IsListProperties DEF Listed, StartsWith
<1>3. PICK q \in 1 .. Len(Scoped) : f[q] = i
  BY <1>1, <1>2 DEF Filters
<1>4. q \in DOMAIN Scoped /\ DOMAIN Scoped = 1 .. Len(Scoped) /\ Len(Scoped) \in Nat
  BY <1>3, IsListProperties, ScopedIsAList
<1>5. Scoped[q] = HandConfigured[i]
  BY <1>1, <1>2, <1>3 DEF Filters
<1>6. ASSUME NEW p \in 1 .. q - 1
      PROVE  \E j \in 1 .. i - 1 : Scoped[p] = HandConfigured[j]
  <2>1. p \in 1 .. Len(Scoped) /\ p < q
    BY <1>4
  <2>2. f[p] < i /\ f[p] \in 1 .. Len(listed) /\ Scoped[p] = listed[f[p]]
    BY <1>1, <1>3, <2>1 DEF Filters
  <2>3. f[p] \in 1 .. i - 1
    BY <1>2, <2>2
  <2>4. f[p] \in DOMAIN HandConfigured
    BY <2>3, IsListProperties
  <2>5. QED
    BY <2>2, <2>3, <2>4 DEF Listed, StartsWith
<1>7. QED
  BY <1>4, <1>5, <1>6

LEMMA HandConfiguredIsAList ==
  ASSUME world \in Worlds
  PROVE  IsList(HandConfigured)
<1>1. IsList(AuthedAgencies(world.hand, world.secrets))
  BY AuthedAreOf, WorldsAssumption DEF IsWorld
<1>2. <<NjTransit>> \in Seq({NjTransit})
  OBVIOUS
<1>3. IsList(<<NjTransit>>)
  BY <1>2, ListOf
<1>4. QED
  BY <1>1, <1>3, ListConcat DEF HandConfigured
-----------------------------------------------------------------------------
(* Every step keeps the invariant.                                         *)

LEMMA InitIInv == Init => IInv
<1> SUFFICES ASSUME Init
             PROVE  IInv
  OBVIOUS
<1>1. world \in Worlds /\ todo = HandConfigured /\ kept = <<>> /\ listed = <<>> /\ through = <<>>
  BY DEF Init, HandConfigured
<1>2. IsList(HandConfigured)
  BY <1>1, HandConfiguredIsAList
<1>3. IsList(<<>>)
  BY DEF IsList
<1>4. Distinct(<<>>)
  BY DEF Distinct
<1>5. Loading
  BY <1>1, <1>2, IsListProperties DEF Loading, StartsWith, Init
<1>6. QED
  BY <1>1, <1>2, <1>3, <1>4, <1>5 DEF IInv, Lists

\* What starts with a list starts with it when more is appended.
LEMMA StillStartsWith ==
  ASSUME NEW s, NEW first, NEW more, IsList(s), IsList(first), IsList(more), StartsWith(s, first)
  PROVE  StartsWith(s \o more, first) /\ IsList(s \o more)
<1>1. /\ IsList(s \o more) /\ Len(s \o more) = Len(s) + Len(more)
      /\ \A i \in DOMAIN s : (s \o more)[i] = s[i]
  BY ListConcat
<1>2. Len(s) \in Nat /\ Len(more) \in Nat /\ Len(first) \in Nat
  BY IsListProperties
<1>3. \A i \in DOMAIN first : i \in DOMAIN s
  BY <1>2, IsListProperties DEF StartsWith
<1>4. QED
  BY <1>1, <1>2, <1>3 DEF StartsWith

LEMMA LoadKeepsIInv ==
  ASSUME IInv, LoadTransitland \/ LoadMobilityData \/ LoadFails
  PROVE  IInv'
<1>1. /\ Loading /\ stage' \in {"mobilitydata", "scope"} /\ HandConfigured' = HandConfigured
      /\ UNCHANGED <<world, kept, seen, listed, through>>
  BY DEF IInv, Loading, PassOne, PassTwoOrPolling, LoadTransitland, LoadMobilityData, LoadFails,
         HandConfigured
<1>2. IsList(HandConfigured) /\ IsList(todo)
  BY HandConfiguredIsAList DEF IInv, Lists
<1>3. StartsWith(todo', HandConfigured) /\ IsList(todo')
  <2>1. CASE LoadTransitland
    <3>1. IsList(ParseAtlas(world.operators, world.feeds))
      BY AtlasIsFromFeeds, WorldsAssumption DEF IInv, IsWorld
    <3>2. QED
      BY <1>1, <1>2, <2>1, <3>1, StillStartsWith DEF Loading, LoadTransitland
  <2>2. CASE LoadMobilityData
    <3>1. PICK agencies \in SetToSeqs(MobilityAgencies(world.rows)) : todo' = todo \o agencies
      BY <2>2 DEF LoadMobilityData
    <3>2. IsList(agencies)
      BY <3>1, MobilityAreFromRows, AgenciesAssumption, WorldsAssumption DEF IInv, IsWorld
    <3>3. QED
      BY <1>1, <1>2, <3>1, <3>2, StillStartsWith DEF Loading
  <2>3. CASE LoadFails
    BY <1>1, <1>2, <2>3 DEF Loading, LoadFails
  <2>4. QED
    BY <2>1, <2>2, <2>3
<1>4. QED
  BY <1>1, <1>3 DEF IInv, Lists, Loading, Distinct

LEMMA ScopeKeepsIInv ==
  ASSUME IInv, Scope
  PROVE  IInv'
<1>1. /\ Loading /\ stage' = "exact" /\ listed' = todo /\ HandConfigured' = HandConfigured
      /\ todo' = Scoped' /\ kept' = <<>> /\ seen' = [slugs |-> {}, statics |-> {}, updates |-> {}]
      /\ UNCHANGED <<world, through>>
  BY DEF IInv, Loading, PassOne, PassTwoOrPolling, Scope, HandConfigured, Scoped
<1>2. IsList(listed')
  BY <1>1 DEF IInv, Lists
<1>3. IsList(Scoped')
  <2>1. listed' \in Seq(ToSet(listed'))
    BY <1>2 DEF IsList
  <2>2. Scoped' \in Seq(ToSet(listed'))
    BY <2>1, InScopeOfFilters DEF Scoped
  <2>3. QED
    BY <2>2, ListOf
<1>4. Listed'
  BY <1>1 DEF Listed, Loading, StartsWith
<1>5. Len(Scoped') \in Nat
  BY <1>3, IsListProperties
<1>6. IsRest(Scoped)' /\ Done(Scoped)' = {}
  BY <1>1, <1>5 DEF IsRest, Done
<1>7. SeenIsKept'
  BY <1>1 DEF SeenIsKept
<1>8. InOrder(kept)'
  BY <1>1 DEF InOrder
<1>9. PassOne'
  BY <1>1, <1>6, <1>7, <1>8 DEF PassOne
<1>10. Lists' /\ Distinct(kept)'
  BY <1>1, <1>2, <1>3 DEF IInv, Lists, Distinct, IsList
<1>11. QED
  BY <1>1, <1>4, <1>9, <1>10 DEF IInv

\* The turn of the n-th of a list, which leaves the rest.
IsTurn(list, rest, n) ==
  /\ n \in 1 .. Len(list) /\ n \in DOMAIN list
  /\ Head(todo) = list[n]
  /\ Done(list) = 1 .. n - 1
  /\ 1 .. Len(list) - Len(rest) = 1 .. n
  /\ IsList(rest) /\ Len(rest) <= Len(list)
  /\ \A i \in 1 .. Len(rest) : rest[i] = list[Len(list) - Len(rest) + i]

LEMMA HeadOfTheRest ==
  ASSUME NEW list, IsList(list), IsList(todo), IsRest(list), todo # <<>>
  PROVE  IsTurn(list, Tail(todo), Len(list) - Len(todo) + 1)
<1> DEFINE rest == Tail(todo)
           n == Len(list) - Len(todo) + 1
<1>1. /\ Len(list) \in Nat /\ DOMAIN list = 1 .. Len(list)
      /\ Len(todo) \in Nat
  BY IsListProperties
<1>2. /\ IsList(rest) /\ Len(rest) = Len(todo) - 1 /\ Len(todo) >= 1 /\ Head(todo) = todo[1]
      /\ \A i \in 1 .. Len(todo) - 1 : rest[i] = todo[i + 1]
  BY ListTail
<1>3. Len(todo) <= Len(list) /\ \A i \in 1 .. Len(todo) : todo[i] = list[Len(list) - Len(todo) + i]
  BY DEF IsRest
<1>4. Head(todo) = list[Len(list) - Len(todo) + 1]
  BY <1>1, <1>2, <1>3
<1>5. ASSUME NEW i \in 1 .. Len(rest)
      PROVE  rest[i] = list[Len(list) - Len(rest) + i]
  <2>1. i + 1 \in 1 .. Len(todo) /\ i \in 1 .. Len(todo) - 1
    BY <1>1, <1>2
  <2>2. Len(list) - Len(todo) + (i + 1) = Len(list) - Len(rest) + i
    BY <1>1, <1>2
  <2>3. QED
    BY <1>2, <1>3, <2>1, <2>2
<1>6. /\ Len(list) - Len(todo) + 1 \in 1 .. Len(list)
      /\ Len(list) - Len(todo) + 1 - 1 = Len(list) - Len(todo)
      /\ Len(list) - Len(rest) = Len(list) - Len(todo) + 1
      /\ Len(rest) <= Len(list)
  BY <1>1, <1>2, <1>3
<1>7. QED
  BY <1>1, <1>2, <1>4, <1>5, <1>6 DEF Done, IsTurn

\* What a step of pass 1 finds.
LEMMA PassOneTurn ==
  ASSUME IInv, stage = "exact", todo # <<>>, todo' = Tail(todo), UNCHANGED <<world, listed>>
  PROVE  LET n == Len(Scoped) - Len(todo) + 1
         IN /\ PassOne /\ Listed /\ Scoped' = Scoped /\ HandConfigured' = HandConfigured
            /\ IsList(Scoped)
            /\ n \in 1 .. Len(Scoped) /\ n \in DOMAIN Scoped /\ Head(todo) = Scoped[n]
            /\ Done(Scoped) = 1 .. n - 1 /\ Done(Scoped)' = 1 .. n
            /\ IsList(todo') /\ IsRest(Scoped)' /\ Listed'
<1>1. PassOne /\ Listed
  BY DEF IInv, Loading, PassTwoOrPolling
<1>2. Scoped' = Scoped /\ HandConfigured' = HandConfigured /\ Listed'
  BY <1>1 DEF Scoped, HandConfigured, Listed
<1>3. IsList(Scoped) /\ IsList(todo)
  BY ScopedIsAList DEF IInv, Lists
<1>4. IsRest(Scoped)
  BY <1>1 DEF PassOne
<1>5. PICK list, rest, n : list = Scoped /\ rest = todo' /\ n = Len(Scoped) - Len(todo) + 1
  OBVIOUS
<1>6. IsTurn(list, rest, n)
  BY <1>3, <1>4, <1>5, HeadOfTheRest
<1>7. IsRest(Scoped)' /\ Done(Scoped)' = 1 .. Len(list) - Len(rest)
  BY <1>2, <1>5, <1>6 DEF IsRest, Done, IsTurn
<1>8. QED
  BY <1>1, <1>2, <1>3, <1>5, <1>6, <1>7 DEF IsTurn

LEMMA ClaimKeepsIInv ==
  ASSUME IInv, Claim
  PROVE  IInv'
<1> DEFINE n == Len(Scoped) - Len(todo) + 1
           m == Len(kept) + 1
<1>1. /\ PassOne /\ Listed /\ Scoped' = Scoped /\ IsList(Scoped)
      /\ n \in 1 .. Len(Scoped) /\ n \in DOMAIN Scoped /\ Head(todo) = Scoped[n]
      /\ Done(Scoped) = 1 .. n - 1 /\ Done(Scoped)' = 1 .. n
      /\ IsList(todo') /\ IsRest(Scoped)' /\ Listed'
  BY PassOneTurn DEF Claim
<1> HIDE DEF n
<1>2. PICK c : c = Head(todo)
  OBVIOUS
<1>3. c = Scoped[n] /\ kept' = Append(kept, c) /\ ~Seen(c) /\ stage' = "exact"
  BY <1>1, <1>2 DEF Claim
<1>4. IsList(kept)
  BY DEF IInv, Lists
<1>5. /\ IsList(kept') /\ DOMAIN kept = 1 .. m - 1 /\ DOMAIN kept' = 1 .. m /\ m \in Nat \ {0}
      /\ kept'[m] = c /\ \A k \in DOMAIN kept : kept'[k] = kept[k]
      /\ ToSet(kept') = ToSet(kept) \cup {c}
  BY <1>3, <1>4, ListAppend, IsListProperties
<1> HIDE DEF m
<1>6. \A k \in 1 .. m : k \in DOMAIN kept \/ k = m
  BY <1>5
<1>7. n \in Nat /\ n >= 1 /\ Len(Scoped) \in Nat /\ DOMAIN Scoped = 1 .. Len(Scoped)
  BY <1>1, IsListProperties
<1>8. \A k \in DOMAIN kept : ~Shares(c, kept[k]) /\ ~Shares(kept[k], c)
  BY <1>1, <1>3, SeenSharesWithKept, SharesIsSymmetric DEF PassOne
<1>9. Distinct(kept)'
  <2>1. Distinct(kept)
    BY DEF IInv
  <2>2. ASSUME NEW i \in 1 .. m, NEW j \in 1 .. m, i # j
        PROVE  ~Shares(kept'[i], kept'[j])
    <3>1. CASE i \in DOMAIN kept /\ j \in DOMAIN kept
      BY <1>5, <2>1, <2>2, <3>1 DEF Distinct
    <3>2. CASE i = m /\ j \in DOMAIN kept
      BY <1>5, <1>8, <3>2
    <3>3. CASE j = m /\ i \in DOMAIN kept
      BY <1>5, <1>8, <3>3
    <3>4. QED
      BY <1>6, <2>2, <3>1, <3>2, <3>3
  <2>3. QED
    BY <1>5, <2>2 DEF Distinct
<1>10. SeenIsKept'
  <2>1. /\ seen'.slugs = seen.slugs \cup {c.slug}
        /\ seen'.statics = seen.statics \cup {c.static}
        /\ seen'.updates = seen.updates \cup ToSet(c.updates)
    BY <1>2 DEF Claim
  <2>2. SeenIsKept
    BY <1>1 DEF PassOne
  <2>3. seen'.slugs = {kept'[k].slug : k \in DOMAIN kept'}
    BY <1>5, <1>6, <2>1, <2>2 DEF SeenIsKept
  <2>4. seen'.statics = {kept'[k].static : k \in DOMAIN kept'}
    BY <1>5, <1>6, <2>1, <2>2 DEF SeenIsKept
  <2>5. seen'.updates = UNION {ToSet(kept'[k].updates) : k \in DOMAIN kept'}
    BY <1>5, <1>6, <2>1, <2>2 DEF SeenIsKept
  <2>6. QED
    BY <2>3, <2>4, <2>5 DEF SeenIsKept
<1>11. ASSUME NEW k \in DOMAIN kept'
       PROVE  \E j \in Done(Scoped)' : kept'[k] = Scoped[j]
  <2>1. CASE k = m
    BY <1>1, <1>3, <1>5, <1>7, <2>1
  <2>2. CASE k \in DOMAIN kept
    <3>1. PICK j \in Done(Scoped) : kept[k] = Scoped[j]
      BY <1>1, <2>2 DEF PassOne
    <3>2. j \in Done(Scoped)'
      BY <1>1, <1>7, <3>1
    <3>3. QED
      BY <1>5, <2>2, <3>1, <3>2
  <2>3. QED
    BY <1>5, <1>6, <2>1, <2>2
<1>12. ASSUME NEW i \in Done(Scoped)'
       PROVE  Survives(kept, i)'
  <2>1. CASE i = n
    BY <1>1, <1>3, <1>5, <2>1 DEF Survives
  <2>2. CASE i \in Done(Scoped)
    <3>1. Survives(kept, i)
      BY <1>1, <2>2 DEF PassOne
    <3>2. QED
      BY <1>1, <1>5, <3>1 DEF Survives
  <2>3. QED
    BY <1>1, <1>7, <2>1, <2>2
<1>13. ASSUME NEW q \in DOMAIN Scoped, Scoped[q] = c
       PROVE  q >= n
  <2> SUFFICES ASSUME q < n
               PROVE  FALSE
    BY <1>7
  <2>1. Survives(kept, q)
    BY <1>1, <1>7 DEF PassOne
  <2>2. \A x : x \in ToSet(kept) => ~Shares(c, x) /\ x # c
    <3>1. Shares(c, c)
      BY DEF Shares
    <3>2. \A x : x \in ToSet(kept) => \E k \in DOMAIN kept : x = kept[k]
      BY DEF ToSet
    <3>3. QED
      BY <1>8, <3>1, <3>2
  <2>3. QED
    BY <1>13, <2>1, <2>2 DEF Survives
<1>14. InOrder(kept)'
  <2>1. ASSUME NEW a \in 1 .. m, NEW b \in 1 .. m, a < b,
               NEW q \in DOMAIN Scoped, Scoped[q] = kept'[b]
        PROVE  \E p \in 1 .. q - 1 : Scoped[p] = kept'[a]
    <3>1. a \in DOMAIN kept /\ kept'[a] = kept[a]
      BY <1>5, <2>1
    <3>2. CASE b = m
      <4>1. PICK j \in Done(Scoped) : kept[a] = Scoped[j]
        BY <1>1, <3>1 DEF PassOne
      <4>2. q >= n
        BY <1>5, <1>13, <2>1, <3>2
      <4>3. j \in 1 .. q - 1
        BY <1>1, <1>7, <4>1, <4>2
      <4>4. QED
        BY <3>1, <4>1, <4>3
    <3>3. CASE b \in DOMAIN kept
      <4>1. InOrder(kept)
        BY <1>1 DEF PassOne
      <4>2. QED
        BY <1>5, <2>1, <3>1, <3>3, <4>1 DEF InOrder
    <3>4. QED
      BY <1>6, <3>2, <3>3
  <2>2. \A a, b \in DOMAIN kept' : a < b =>
          \A q \in DOMAIN Scoped : Scoped[q] = kept'[b] => \E p \in 1 .. q - 1 : Scoped[p] = kept'[a]
    BY <1>5, <2>1
  <2>3. QED
    BY <1>1, <2>2 DEF InOrder
<1>15. PassOne'
  BY <1>1, <1>3, <1>10, <1>11, <1>12, <1>14 DEF PassOne
<1>16. Lists' /\ world' \in Worlds
  BY <1>1, <1>5 DEF IInv, Lists, Claim
<1>17. QED
  BY <1>1, <1>9, <1>15, <1>16 DEF IInv

LEMMA DropKeepsIInv ==
  ASSUME IInv, Drop
  PROVE  IInv'
<1> DEFINE n == Len(Scoped) - Len(todo) + 1
<1>1. /\ PassOne /\ Listed /\ Scoped' = Scoped /\ IsList(Scoped)
      /\ n \in 1 .. Len(Scoped) /\ n \in DOMAIN Scoped /\ Head(todo) = Scoped[n]
      /\ Done(Scoped) = 1 .. n - 1 /\ Done(Scoped)' = 1 .. n
      /\ IsList(todo') /\ IsRest(Scoped)' /\ Listed'
  BY PassOneTurn DEF Drop
<1> HIDE DEF n
<1>2. /\ Seen(Scoped[n]) /\ stage' = "exact" /\ kept' = kept /\ seen' = seen
      /\ world' = world /\ listed' = listed /\ through' = through
  BY <1>1 DEF Drop
<1>3. n \in Nat /\ Len(Scoped) \in Nat
  BY <1>1, IsListProperties
<1>4. \A j \in Done(Scoped) : j \in Done(Scoped)'
  BY <1>1, <1>3
<1>5. ASSUME NEW i \in Done(Scoped)'
      PROVE  Survives(kept, i)'
  <2>1. CASE i = n
    <3>1. PICK k \in DOMAIN kept : Shares(Scoped[n], kept[k])
      BY <1>1, <1>2, SeenSharesWithKept DEF PassOne
    <3>2. PICK j \in Done(Scoped) : kept[k] = Scoped[j]
      BY <1>1 DEF PassOne
    <3>3. kept[k] \in ToSet(kept)
      BY IsListProperties DEF IInv, Lists
    <3>4. QED
      BY <1>1, <1>2, <2>1, <3>1, <3>2, <3>3 DEF Survives
  <2>2. CASE i \in Done(Scoped)
    <3>1. Survives(kept, i)
      BY <1>1, <2>2 DEF PassOne
    <3>2. QED
      BY <1>1, <1>2, <3>1 DEF Survives
  <2>3. QED
    BY <1>1, <1>3, <2>1, <2>2
<1>6. SeenIsKept' /\ InOrder(kept)'
  BY <1>1, <1>2 DEF PassOne, SeenIsKept, InOrder
<1>7. PassOne'
  BY <1>1, <1>2, <1>4, <1>5, <1>6 DEF PassOne
<1>8. QED
  BY <1>1, <1>2, <1>7 DEF IInv, Lists, Distinct

LEMMA PassTwoKeepsIInv ==
  ASSUME IInv, PassTwo
  PROVE  IInv'
<1>1. /\ PassOne /\ Listed /\ Lists /\ Distinct(kept) /\ world \in Worlds
  BY DEF IInv, Loading, PassTwoOrPolling, PassTwo
<1>2. /\ todo = <<>> /\ stage' = "fuzzy" /\ todo' = kept /\ kept' = <<>> /\ through' = kept
      /\ UNCHANGED <<world, seen, listed>>
  BY DEF PassTwo
<1>3. Scoped' = Scoped /\ Listed'
  BY <1>1, <1>2 DEF Scoped, Listed, HandConfigured
<1>4. IsList(Scoped) /\ Len(Scoped) \in Nat /\ DOMAIN Scoped = Done(Scoped)
  BY <1>1, <1>2, ScopedIsAList, IsListProperties DEF Done, Lists
<1>5. Len(kept) \in Nat
  BY <1>1, IsListProperties DEF Lists
<1>6. IsRest(through)' /\ Done(through)' = {}
  BY <1>2, <1>5 DEF IsRest, Done
<1>7. \A i \in DOMAIN Scoped : Survives(through, i)'
  BY <1>1, <1>2, <1>3, <1>4 DEF PassOne, Survives
<1>8. \A k \in DOMAIN kept : \E j \in DOMAIN Scoped : kept[k] = Scoped[j]
  BY <1>1, <1>4 DEF PassOne
<1>9. InOrder(through)' /\ Distinct(through)'
  BY <1>1, <1>2, <1>3 DEF PassOne, InOrder, Distinct
<1>10. PassTwoOrPolling'
  BY <1>2, <1>3, <1>6, <1>7, <1>8, <1>9 DEF PassTwoOrPolling
<1>11. Lists' /\ Distinct(kept)'
  BY <1>1, <1>2 DEF Lists, Distinct, IsList
<1>12. QED
  BY <1>1, <1>2, <1>3, <1>10, <1>11 DEF IInv

\* What a step of pass 2 finds: the next that came through pass 1.
PassTwoFinds(n) ==
  /\ PassTwoOrPolling /\ Listed /\ Lists /\ Distinct(kept) /\ world \in Worlds
  /\ Scoped' = Scoped /\ HandConfigured' = HandConfigured /\ Listed'
  /\ n \in DOMAIN through /\ Head(todo) = through[n]
  /\ n \in Nat /\ n >= 1 /\ Done(through) = 1 .. n - 1 /\ Done(through)' = 1 .. n
  /\ DOMAIN through = 1 .. Len(through) /\ Len(through) \in Nat
  /\ DOMAIN kept = 1 .. Len(kept) /\ Len(kept) \in Nat
  /\ IsList(todo') /\ IsRest(through)'

LEMMA PassTwoTurn ==
  ASSUME IInv, stage = "fuzzy", todo # <<>>, todo' = Tail(todo), UNCHANGED <<world, listed, through>>
  PROVE  PassTwoFinds(Len(through) - Len(todo) + 1)
<1>1. PassTwoOrPolling /\ Listed /\ Lists /\ Distinct(kept) /\ world \in Worlds
  BY DEF IInv, Loading, PassOne
<1>2. Scoped' = Scoped /\ HandConfigured' = HandConfigured /\ Listed'
  BY <1>1 DEF Scoped, HandConfigured, Listed
<1>3. IsList(through) /\ IsList(todo) /\ IsList(kept) /\ IsRest(through)
  BY <1>1 DEF Lists, PassTwoOrPolling
<1>4. PICK rest, n : rest = todo' /\ n = Len(through) - Len(todo) + 1
  OBVIOUS
<1>5. IsTurn(through, rest, n)
  BY <1>3, <1>4, HeadOfTheRest
<1>6. IsRest(through)' /\ Done(through)' = 1 .. Len(through) - Len(rest)
  BY <1>4, <1>5 DEF IsRest, Done, IsTurn
<1>7. DOMAIN through = 1 .. Len(through) /\ Len(through) \in Nat
  BY <1>3, IsListProperties
<1>8. DOMAIN kept = 1 .. Len(kept) /\ Len(kept) \in Nat
  BY <1>3, IsListProperties
<1>9. n \in Nat /\ n >= 1
  BY <1>5 DEF IsTurn
<1>10. QED
  BY <1>1, <1>2, <1>4, <1>5, <1>6, <1>7, <1>8, <1>9 DEF IsTurn, PassTwoFinds

\* Who is next in pass 2 shares its feed with none that pass 2 has kept.
LEMMA NextIsDistinct ==
  ASSUME NEW n, PassTwoFinds(n), NEW k \in DOMAIN kept
  PROVE  ~Shares(kept[k], through[n]) /\ ~Shares(through[n], kept[k])
<1>1. PICK a \in Done(through) : kept[k] = through[a]
  BY DEF PassTwoFinds, PassTwoOrPolling
<1>2. a \in DOMAIN through /\ a # n
  BY <1>1 DEF PassTwoFinds
<1>3. QED
  BY <1>1, <1>2 DEF PassTwoFinds, PassTwoOrPolling, Distinct

\* No candidate configured by hand is next while its agency is among the kept ones.
LEMMA PreferredMeetsNoneOfItsAgency ==
  ASSUME NEW n, PassTwoFinds(n), Preferred(through[n])
  PROVE  Same(through[n]) = {}
<1> DEFINE h == through[n]
<1> SUFFICES ASSUME NEW k \in DOMAIN kept, SameAgency(kept[k], h)
             PROVE  FALSE
  BY DEF Same
<1>1. PICK i \in DOMAIN HandConfigured :
        /\ h = HandConfigured[i] /\ InScope(h)
        /\ \A j \in 1 .. i - 1 : ~SameAgency(HandConfigured[j], h)
  BY DEF Preferred
<1>2. PICK q \in DOMAIN Scoped :
        /\ Scoped[q] = HandConfigured[i]
        /\ \A p \in 1 .. q - 1 : \E j \in 1 .. i - 1 : Scoped[p] = HandConfigured[j]
  <2>1. IsList(listed) /\ IsList(HandConfigured) /\ Listed
    BY HandConfiguredIsAList DEF PassTwoFinds, Lists
  <2>2. QED
    BY <1>1, <2>1, HandConfiguredAreScopedFirst
<1>3. PICK a \in Done(through) : kept[k] = through[a]
  BY DEF PassTwoFinds, PassTwoOrPolling
<1>4. a \in DOMAIN through /\ n \in DOMAIN through /\ a < n
  BY <1>3 DEF PassTwoFinds
<1>5. PICK p \in 1 .. q - 1 : Scoped[p] = through[a]
  <2>1. InOrder(through)
    BY DEF PassTwoFinds, PassTwoOrPolling
  <2>2. QED
    BY <1>1, <1>2, <1>4, <2>1 DEF InOrder
<1>6. QED
  BY <1>1, <1>2, <1>3, <1>5

\* What is left to show of a step of pass 2.
LEMMA PassTwoStep ==
  ASSUME NEW n, PassTwoFinds(n), stage' = "fuzzy", UNCHANGED <<world, listed, through>>,
         IsList(kept'), Distinct(kept'),
         \A k \in DOMAIN kept' : \E a \in 1 .. n : kept'[k] = through[a],
         \A a \in 1 .. n : AsUseful(through[a])',
         \A a \in 1 .. n : Preferred(through[a]) => through[a] \in ToSet(kept')
  PROVE  IInv'
<1>1. \A h : Preferred(h)' <=> Preferred(h)
  BY DEF Preferred, PassTwoFinds
<1>2. \A i \in DOMAIN Scoped : Survives(through, i)'
  BY DEF PassTwoFinds, PassTwoOrPolling, Survives
<1>3. InOrder(through)' /\ Distinct(through)'
  BY DEF PassTwoFinds, PassTwoOrPolling, InOrder, Distinct
<1>4. /\ \A k \in DOMAIN kept' : \E a \in Done(through)' : kept'[k] = through'[a]
      /\ \A a \in Done(through)' : AsUseful(through[a])'
      /\ \A a \in Done(through)' : Preferred(through[a])' => through'[a] \in ToSet(kept')
  BY <1>1 DEF PassTwoFinds
<1>5. \A k \in DOMAIN through' : \E j \in DOMAIN Scoped' : through'[k] = Scoped'[j]
  BY DEF PassTwoFinds, PassTwoOrPolling
<1>6. PassTwoOrPolling'
  BY <1>2, <1>3, <1>4, <1>5 DEF PassTwoFinds, PassTwoOrPolling
<1>7. Lists' /\ Distinct(kept)'
  BY DEF PassTwoFinds, Lists, Distinct
<1>8. QED
  BY <1>6, <1>7 DEF IInv, PassTwoFinds

LEMMA KeepKeepsIInv ==
  ASSUME IInv, Keep
  PROVE  IInv'
<1>1. PICK n : n = Len(through) - Len(todo) + 1
  OBVIOUS
<1>2. PassTwoFinds(n)
  BY <1>1, PassTwoTurn DEF Keep
<1>3. PICK c : c = through[n]
  OBVIOUS
<1>4. kept' = Append(kept, c) /\ stage' = "fuzzy" /\ UNCHANGED <<world, listed, through>>
  BY <1>2, <1>3 DEF Keep, PassTwoFinds
<1>5. PICK m : m = Len(kept) + 1
  OBVIOUS
<1>6. /\ IsList(kept') /\ DOMAIN kept = 1 .. m - 1 /\ DOMAIN kept' = 1 .. m /\ m \in Nat \ {0}
      /\ kept'[m] = c /\ \A k \in DOMAIN kept : kept'[k] = kept[k]
      /\ ToSet(kept') = ToSet(kept) \cup {c}
  BY <1>2, <1>4, <1>5, ListAppend DEF PassTwoFinds, Lists
<1>7. \A k \in 1 .. m : k \in DOMAIN kept \/ k = m
  BY <1>6
<1>8. Distinct(kept')
  <2>1. \A k \in DOMAIN kept : ~Shares(c, kept[k]) /\ ~Shares(kept[k], c)
    BY <1>2, <1>3, NextIsDistinct
  <2>2. Distinct(kept)
    BY <1>2 DEF PassTwoFinds
  <2>3. ASSUME NEW i \in 1 .. m, NEW j \in 1 .. m, i # j
        PROVE  ~Shares(kept'[i], kept'[j])
    <3>1. CASE i \in DOMAIN kept /\ j \in DOMAIN kept
      BY <1>6, <2>2, <2>3, <3>1 DEF Distinct
    <3>2. CASE i = m /\ j \in DOMAIN kept
      BY <1>6, <2>1, <3>2
    <3>3. CASE j = m /\ i \in DOMAIN kept
      BY <1>6, <2>1, <3>3
    <3>4. QED
      BY <1>7, <2>3, <3>1, <3>2, <3>3
  <2>4. QED
    BY <1>6, <2>3 DEF Distinct
<1>9. \A a \in 1 .. n : a \in Done(through) \/ a = n
  BY <1>2 DEF PassTwoFinds
<1>10. n \in 1 .. n /\ \A a \in Done(through) : a \in 1 .. n
  BY <1>2 DEF PassTwoFinds
<1>11. \A k \in DOMAIN kept' : \E a \in 1 .. n : kept'[k] = through[a]
  BY <1>2, <1>3, <1>6, <1>7, <1>10 DEF PassTwoFinds, PassTwoOrPolling
<1>12. ASSUME NEW a \in 1 .. n
       PROVE  AsUseful(through[a])'
  <2>1. CASE a = n
    <3>1. SameName(c, c) /\ Usefulness(c) >= Usefulness(c)
      BY UsefulnessIsBounded DEF SameName
    <3>2. m \in DOMAIN kept'
      BY <1>6
    <3>3. QED
      BY <1>3, <1>4, <1>6, <2>1, <3>1, <3>2 DEF AsUseful
  <2>2. CASE a \in Done(through)
    <3>1. PICK k \in DOMAIN kept :
            SameName(through[a], kept[k]) /\ Usefulness(kept[k]) >= Usefulness(through[a])
      BY <1>2, <2>2 DEF PassTwoFinds, PassTwoOrPolling, AsUseful
    <3>2. k \in DOMAIN kept' /\ kept'[k] = kept[k]
      BY <1>6
    <3>3. QED
      BY <1>4, <3>1, <3>2 DEF AsUseful
  <2>3. QED
    BY <1>9, <2>1, <2>2
<1>13. \A a \in 1 .. n : Preferred(through[a]) => through[a] \in ToSet(kept')
  BY <1>2, <1>3, <1>6, <1>9 DEF PassTwoFinds, PassTwoOrPolling
<1>14. QED
  BY <1>2, <1>4, <1>6, <1>8, <1>11, <1>12, <1>13, PassTwoStep

LEMMA ReplaceKeepsIInv ==
  ASSUME IInv, Replace
  PROVE  IInv'
<1>1. PICK n : n = Len(through) - Len(todo) + 1
  OBVIOUS
<1>2. PassTwoFinds(n)
  BY <1>1, PassTwoTurn DEF Replace
<1>3. PICK c, k0 : c = through[n] /\ k0 = First(Same(c))
  OBVIOUS
<1>4. /\ kept' = [kept EXCEPT ![k0] = c] /\ Usefulness(c) > Usefulness(kept[k0])
      /\ Same(c) # {} /\ stage' = "fuzzy" /\ UNCHANGED <<world, listed, through>>
  BY <1>2, <1>3 DEF Replace, PassTwoFinds
<1>5. k0 \in DOMAIN kept /\ SameAgency(kept[k0], c)
  <2>1. Same(c) \subseteq Nat
    BY <1>2 DEF Same, PassTwoFinds
  <2>2. k0 \in Same(c)
    BY <1>3, <1>4, <2>1, FirstIsOneOfThem
  <2>3. QED
    BY <2>2 DEF Same
<1>6. /\ IsList(kept') /\ DOMAIN kept' = DOMAIN kept /\ kept'[k0] = c
      /\ \A k \in DOMAIN kept : k # k0 => kept'[k] = kept[k]
  BY <1>2, <1>4, <1>5, ListReplace DEF PassTwoFinds, Lists
<1>7. Distinct(kept')
  <2>1. \A k \in DOMAIN kept : ~Shares(c, kept[k]) /\ ~Shares(kept[k], c)
    BY <1>2, <1>3, NextIsDistinct
  <2>2. Distinct(kept)
    BY <1>2 DEF PassTwoFinds
  <2>3. ASSUME NEW i \in DOMAIN kept, NEW j \in DOMAIN kept, i # j
        PROVE  ~Shares(kept'[i], kept'[j])
    <3>1. CASE i # k0 /\ j # k0
      BY <1>6, <2>2, <2>3, <3>1 DEF Distinct
    <3>2. CASE i = k0 \/ j = k0
      BY <1>6, <2>1, <2>3, <3>2
    <3>3. QED
      BY <3>1, <3>2
  <2>4. QED
    BY <1>6, <2>3 DEF Distinct
<1>8. /\ \A a \in 1 .. n : a \in Done(through) \/ a = n
      /\ n \in 1 .. n /\ \A a \in Done(through) : a \in 1 .. n
  BY <1>2 DEF PassTwoFinds
<1>9. \A k \in DOMAIN kept' : \E a \in 1 .. n : kept'[k] = through[a]
  BY <1>2, <1>3, <1>6, <1>8 DEF PassTwoFinds, PassTwoOrPolling
<1>10. ASSUME NEW a \in 1 .. n
       PROVE  AsUseful(through[a])'
  <2>1. CASE a = n
    <3>1. SameName(c, c) /\ Usefulness(c) >= Usefulness(c)
      BY UsefulnessIsBounded DEF SameName
    <3>2. QED
      BY <1>3, <1>4, <1>5, <1>6, <2>1, <3>1 DEF AsUseful
  <2>2. CASE a \in Done(through)
    <3>1. PICK k \in DOMAIN kept :
            SameName(through[a], kept[k]) /\ Usefulness(kept[k]) >= Usefulness(through[a])
      BY <1>2, <2>2 DEF PassTwoFinds, PassTwoOrPolling, AsUseful
    <3>2. CASE k # k0
      BY <1>4, <1>6, <3>1, <3>2 DEF AsUseful
    <3>3. CASE k = k0
      <4>1. SameName(through[a], c)
        BY <1>5, <3>1, <3>3 DEF SameAgency, SameName
      <4>2. Usefulness(c) >= Usefulness(through[a])
        <5>1. Usefulness(c) \in 0 .. 2 /\ Usefulness(kept[k0]) \in 0 .. 2
              /\ Usefulness(through[a]) \in 0 .. 2
          BY UsefulnessIsBounded
        <5>2. QED
          BY <1>4, <3>1, <3>3, <5>1
      <4>3. QED
        BY <1>4, <1>5, <1>6, <4>1, <4>2 DEF AsUseful
    <3>4. QED
      BY <3>2, <3>3
  <2>3. QED
    BY <1>8, <2>1, <2>2
<1>11. ASSUME NEW a \in 1 .. n, Preferred(through[a])
       PROVE  through[a] \in ToSet(kept')
  <2>1. CASE a = n
    BY <1>3, <1>5, <1>6, <2>1, IsListProperties
  <2>2. CASE a \in Done(through)
    <3>1. through[a] \in ToSet(kept)
      BY <1>2, <1>11, <2>2 DEF PassTwoFinds, PassTwoOrPolling
    <3>2. PICK k \in DOMAIN kept : kept[k] = through[a]
      BY <3>1 DEF ToSet
    <3>3. k # k0
      <4>1. Usefulness(through[a]) = 2
        BY <1>2, <1>11, PreferredIsMostUseful DEF PassTwoFinds
      <4>2. Usefulness(c) \in 0 .. 2
        BY UsefulnessIsBounded
      <4>3. QED
        BY <1>4, <3>2, <4>1, <4>2
    <3>4. QED
      BY <1>6, <3>2, <3>3, IsListProperties
  <2>3. QED
    BY <1>8, <2>1, <2>2
<1>12. QED
  BY <1>2, <1>4, <1>6, <1>7, <1>9, <1>10, <1>11, PassTwoStep

LEMMA MergeKeepsIInv ==
  ASSUME IInv, Merge
  PROVE  IInv'
<1>1. PICK n : n = Len(through) - Len(todo) + 1
  OBVIOUS
<1>2. PassTwoFinds(n)
  BY <1>1, PassTwoTurn DEF Merge
<1>3. PICK c, k0 : c = through[n] /\ k0 = First(Same(c))
  OBVIOUS
<1>4. /\ kept' = kept /\ Usefulness(c) <= Usefulness(kept[k0])
      /\ Same(c) # {} /\ stage' = "fuzzy" /\ UNCHANGED <<world, listed, through>>
  BY <1>2, <1>3 DEF Merge, PassTwoFinds
<1>5. k0 \in DOMAIN kept /\ SameAgency(kept[k0], c)
  <2>1. Same(c) \subseteq Nat
    BY <1>2 DEF Same, PassTwoFinds
  <2>2. k0 \in Same(c)
    BY <1>3, <1>4, <2>1, FirstIsOneOfThem
  <2>3. QED
    BY <2>2 DEF Same
<1>6. /\ \A a \in 1 .. n : a \in Done(through) \/ a = n
      /\ \A a \in Done(through) : a \in 1 .. n
  BY <1>2 DEF PassTwoFinds
<1>7. \A k \in DOMAIN kept' : \E a \in 1 .. n : kept'[k] = through[a]
  BY <1>2, <1>4, <1>6 DEF PassTwoFinds, PassTwoOrPolling
<1>8. ASSUME NEW a \in 1 .. n
      PROVE  AsUseful(through[a])'
  <2>1. CASE a = n
    <3>1. SameName(c, kept[k0]) /\ Usefulness(kept[k0]) >= Usefulness(c)
      <4>1. Usefulness(c) \in 0 .. 2 /\ Usefulness(kept[k0]) \in 0 .. 2
        BY UsefulnessIsBounded
      <4>2. QED
        BY <1>4, <1>5, <4>1 DEF SameAgency, SameName
    <3>2. QED
      BY <1>3, <1>4, <1>5, <2>1, <3>1 DEF AsUseful
  <2>2. CASE a \in Done(through)
    BY <1>2, <1>4, <2>2 DEF PassTwoFinds, PassTwoOrPolling, AsUseful
  <2>3. QED
    BY <1>6, <2>1, <2>2
<1>9. ASSUME NEW a \in 1 .. n, Preferred(through[a])
      PROVE  through[a] \in ToSet(kept')
  <2>1. a # n
    BY <1>2, <1>3, <1>4, <1>9, PreferredMeetsNoneOfItsAgency
  <2>2. QED
    BY <1>2, <1>4, <1>6, <1>9, <2>1 DEF PassTwoFinds, PassTwoOrPolling
<1>10. IsList(kept') /\ Distinct(kept')
  BY <1>2, <1>4 DEF PassTwoFinds, Lists
<1>11. QED
  BY <1>2, <1>4, <1>7, <1>8, <1>9, <1>10, PassTwoStep

\* A step that moves on, or none, keeps the invariant.
LEMMA StillKeepsIInv ==
  ASSUME IInv, Start \/ UNCHANGED vars
  PROVE  IInv'
<1>1. UNCHANGED <<world, todo, kept, seen, listed, through>>
  BY DEF Start, vars
<1>2. Scoped' = Scoped /\ HandConfigured' = HandConfigured /\ (Listed' <=> Listed)
  BY <1>1 DEF Scoped, HandConfigured, Listed
<1>3. /\ world' \in Worlds /\ Lists' /\ Distinct(kept)'
  BY <1>1 DEF IInv, Lists, Distinct
<1>4. CASE UNCHANGED vars
  <2>1. Loading => Loading'
    BY <1>2, <1>4 DEF Loading, vars
  <2>2. PassOne => PassOne'
    BY <1>2, <1>4 DEF PassOne, vars, IsRest, SeenIsKept, Done, Survives, InOrder
  <2>3. PassTwoOrPolling => PassTwoOrPolling'
    BY <1>2, <1>4 DEF PassTwoOrPolling, vars, IsRest, Done, Survives, InOrder, Distinct,
                      AsUseful, Preferred
  <2>4. QED
    BY <1>2, <1>3, <2>1, <2>2, <2>3 DEF IInv
<1>5. CASE Start
  <2>1. PassTwoOrPolling /\ Listed /\ stage' = "polling" /\ todo = <<>>
    BY <1>5 DEF Start, IInv, Loading, PassOne
  <2>2. PassTwoOrPolling'
    BY <1>1, <1>2, <2>1 DEF PassTwoOrPolling, IsRest, Done, Survives, InOrder, Distinct,
                            AsUseful, Preferred
  <2>3. QED
    BY <1>2, <1>3, <2>1, <2>2 DEF IInv
<1>6. QED
  BY <1>4, <1>5

LEMMA StepKeepsIInv == IInv /\ [Next]_vars => IInv'
  BY LoadKeepsIInv, ScopeKeepsIInv, ClaimKeepsIInv, DropKeepsIInv, PassTwoKeepsIInv,
     KeepKeepsIInv, ReplaceKeepsIInv, MergeKeepsIInv, StillKeepsIInv DEF Next

\* The passes stay consistent with what the sources listed.
LEMMA InvariantHolds == Spec => []IInv
  BY InitIInv, StepKeepsIInv, PTL DEF Spec
-----------------------------------------------------------------------------
(* What the invariant says of the sources.                                 *)

\* However many sources there are and however they overlap, no two that are kept
\* share a slug, a schedule or a trip updates URL, whichever took whose place in
\* the second pass.
THEOREM DistinctFeeds == Spec => []FeedsAreDistinct
<1>1. IInv => FeedsAreDistinct
  BY DEF IInv, Distinct, FeedsAreDistinct
<1>2. QED
  BY <1>1, InvariantHolds, PTL

\* Whatever the first pass drops in scope gave way to an earlier source that is in
\* scope, shares its feed and has itself come through.
THEOREM NothingLostTwice == Spec => []LostToAnEarlierOne
<1>1. ASSUME IInv
      PROVE  LostToAnEarlierOne
  <2> SUFFICES ASSUME stage \in {"fuzzy", "polling"},
                      NEW i \in DOMAIN listed, InScope(listed[i]), listed[i] \notin ToSet(through)
               PROVE  \E j \in 1 .. i - 1 : /\ Shares(listed[i], listed[j])
                                            /\ InScope(listed[j])
                                            /\ listed[j] \in ToSet(through)
    BY DEF LostToAnEarlierOne
  <2>1. PassTwoOrPolling /\ IsList(listed)
    BY <1>1 DEF IInv, Lists, Loading, PassOne
  <2>2. PICK f : Filters(Scoped, listed, Len(listed), f)
    BY <2>1, ScopedIsAList
  <2>3. DOMAIN listed = 1 .. Len(listed) /\ Len(listed) \in Nat
    BY <2>1, IsListProperties
  <2>4. DOMAIN Scoped = 1 .. Len(Scoped) /\ Len(Scoped) \in Nat
    BY <2>1, ScopedIsAList, IsListProperties
  <2>5. PICK q \in DOMAIN Scoped : f[q] = i
    BY <2>2, <2>3, <2>4 DEF Filters
  <2>6. Scoped[q] = listed[i]
    BY <2>2, <2>4, <2>5 DEF Filters
  <2>7. PICK j \in 1 .. q - 1 : Shares(Scoped[q], Scoped[j]) /\ Scoped[j] \in ToSet(through)
    BY <2>1, <2>6 DEF PassTwoOrPolling, Survives
  <2>8. j \in 1 .. Len(Scoped) /\ q \in 1 .. Len(Scoped) /\ j < q
    BY <2>4, <2>7
  <2>9. /\ f[j] < f[q] /\ f[j] \in 1 .. Len(listed)
        /\ Scoped[j] = listed[f[j]] /\ InScope(Scoped[j])
    BY <2>2, <2>8 DEF Filters
  <2>10. f[j] \in 1 .. i - 1
    BY <2>3, <2>5, <2>9
  <2>11. QED
    BY <2>6, <2>7, <2>9, <2>10
<1>2. QED
  BY <1>1, InvariantHolds, PTL

\* Once polling starts, whatever came through the first pass has a source of its
\* name and country that is at least as useful.
THEOREM NoneLessUseful == Spec => []UsefulnessIsKept
<1>1. ASSUME IInv
      PROVE  UsefulnessIsKept
  <2> SUFFICES ASSUME stage = "polling", NEW c \in ToSet(through)
               PROVE  \E k \in ToSet(kept) : SameName(c, k) /\ Usefulness(k) >= Usefulness(c)
    BY DEF UsefulnessIsKept
  <2>1. PassTwoOrPolling /\ todo = <<>> /\ IsList(kept) /\ IsList(through)
    BY <1>1 DEF IInv, Lists, Loading, PassOne, PassTwoOrPolling
  <2>2. PICK a \in DOMAIN through : c = through[a]
    BY DEF ToSet
  <2>3. a \in Done(through)
    BY <2>1, IsListProperties DEF Done
  <2>4. PICK k \in DOMAIN kept : SameName(c, kept[k]) /\ Usefulness(kept[k]) >= Usefulness(c)
    BY <2>1, <2>2, <2>3 DEF PassTwoOrPolling, AsUseful
  <2>5. kept[k] \in ToSet(kept)
    BY <2>1, IsListProperties
  <2>6. QED
    BY <2>4, <2>5
<1>2. QED
  BY <1>1, InvariantHolds, PTL

\* A source configured by hand, in scope and with its credentials, is kept unless
\* one configured by hand before it is the same feed or the same agency: nothing
\* the catalogs list takes its place.
THEOREM ByHandWins == Spec => []HandConfiguredWins
<1>1. ASSUME IInv
      PROVE  HandConfiguredWins
  <2> SUFFICES ASSUME stage = "polling", NEW i \in DOMAIN HandConfigured, NEW h,
                      h = HandConfigured[i], InScope(h), HasTripUpdates(h),
                      \A j \in 1 .. i - 1 : /\ ~Shares(h, HandConfigured[j])
                                            /\ ~SameAgency(HandConfigured[j], h)
               PROVE  h \in ToSet(kept)
    BY DEF HandConfiguredWins
  <2>1. /\ PassTwoOrPolling /\ Listed /\ todo = <<>> /\ world \in Worlds
        /\ IsList(through) /\ IsList(listed)
    BY <1>1 DEF IInv, Lists, Loading, PassOne, PassTwoOrPolling
  <2>2. PICK q \in DOMAIN Scoped :
          /\ Scoped[q] = h
          /\ \A p \in 1 .. q - 1 : \E j \in 1 .. i - 1 : Scoped[p] = HandConfigured[j]
    BY <2>1, HandConfiguredIsAList, HandConfiguredAreScopedFirst
  <2>3. h \in ToSet(through)
    BY <2>1, <2>2 DEF PassTwoOrPolling, Survives
  <2>4. PICK a \in DOMAIN through : h = through[a]
    BY <2>3 DEF ToSet
  <2>5. a \in Done(through)
    BY <2>1, <2>4, IsListProperties DEF Done
  <2>6. Preferred(h)
    BY DEF Preferred
  <2>7. QED
    BY <2>1, <2>4, <2>5, <2>6 DEF PassTwoOrPolling
<1>2. QED
  BY <1>1, InvariantHolds, PTL
-----------------------------------------------------------------------------
(* Where the sources come from.                                            *)

LEMMA MembersOfConcat ==
  ASSUME NEW a, NEW b, IsList(a), IsList(b)
  PROVE  ToSet(a \o b) \subseteq ToSet(a) \cup ToSet(b)
<1> DEFINE S == ToSet(a) \cup ToSet(b)
<1>1. (\A i \in DOMAIN a : a[i] \in S) /\ (\A i \in DOMAIN b : b[i] \in S)
  BY IsListProperties
<1> HIDE DEF S
<1>2. a \in Seq(S) /\ b \in Seq(S)
  BY <1>1, IsListProperties DEF IsList
<1>3. a \o b \in Seq(S)
  BY <1>2
<1>4. QED
  BY <1>3, ListOf DEF S

LEMMA MembersOfTail ==
  ASSUME NEW s, IsList(s), s # <<>>
  PROVE  ToSet(Tail(s)) \subseteq ToSet(s) /\ Head(s) \in ToSet(s)
<1>1. s \in Seq(ToSet(s))
  BY DEF IsList
<1>2. Tail(s) \in Seq(ToSet(s))
  BY <1>1
<1>3. Head(s) \in ToSet(s)
  BY <1>1
<1>4. QED
  BY <1>2, <1>3, ListOf

LEMMA MembersOfReplaced ==
  ASSUME NEW s, NEW k, NEW x, IsList(s), NEW C, ToSet(s) \subseteq C, x \in C
  PROVE  ToSet([s EXCEPT ![k] = x]) \subseteq C
<1>1. \A i \in DOMAIN s : s[i] \in C
  BY IsListProperties
<1>2. DOMAIN [s EXCEPT ![k] = x] = DOMAIN s
  OBVIOUS
<1>3. \A i \in DOMAIN s : [s EXCEPT ![k] = x][i] \in C
  BY <1>1
<1>4. QED
  BY <1>2, <1>3 DEF ToSet

Sources ==
  ToSet(HandConfigured) \cup ToSet(ParseAtlas(world.operators, world.feeds))
    \cup MobilityAgencies(world.rows)

Sourced == ToSet(todo) \cup ToSet(kept) \subseteq Sources

\* No step makes a config.
LEMMA StepKeepsSourced == IInv /\ Sourced /\ [Next]_vars => Sourced'
<1> SUFFICES ASSUME IInv, Sourced, [Next]_vars
             PROVE  Sourced'
  OBVIOUS
<1>1. /\ IsList(todo) /\ IsList(kept) /\ ToSet(todo) \subseteq Sources /\ ToSet(kept) \subseteq Sources
      /\ world \in Worlds
  BY DEF IInv, Lists, Sourced
<1>2. Sources' = Sources
  BY DEF vars, Next, LoadTransitland, LoadMobilityData, LoadFails, Scope, Claim, Drop, PassTwo,
         Keep, Replace, Merge, Start, Sources, HandConfigured
<1>3. IsWorld(world) /\ None \notin {1, 2}
  BY <1>1, WorldsAssumption, AgenciesAssumption
<1>4. CASE LoadTransitland
  <2>1. todo' = todo \o ParseAtlas(world.operators, world.feeds) /\ kept' = kept
    BY <1>4 DEF LoadTransitland
  <2>2. IsList(ParseAtlas(world.operators, world.feeds))
    BY <1>3, AtlasIsFromFeeds DEF IsWorld
  <2>3. ToSet(todo') \subseteq Sources
    BY <1>1, <2>1, <2>2, MembersOfConcat DEF Sources
  <2>4. QED
    BY <1>1, <1>2, <2>1, <2>3 DEF Sourced
<1>5. CASE LoadMobilityData
  <2>1. PICK agencies \in SetToSeqs(MobilityAgencies(world.rows)) :
          todo' = todo \o agencies /\ kept' = kept
    BY <1>5 DEF LoadMobilityData
  <2>2. IsList(agencies) /\ ToSet(agencies) \subseteq Sources
    BY <1>3, <2>1, MobilityAreFromRows DEF IsWorld, Sources
  <2>3. ToSet(todo') \subseteq Sources
    BY <1>1, <2>1, <2>2, MembersOfConcat
  <2>4. QED
    BY <1>1, <1>2, <2>1, <2>3 DEF Sourced
<1>6. CASE Scope
  <2>1. todo' = Those(todo, {c \in ToSet(todo) : InScope(c)}) /\ kept' = kept
    BY <1>6 DEF Scope, InScopeOf
  <2>2. ToSet(todo') \subseteq ToSet(todo)
    BY <1>1, <2>1, ThoseAreOf
  <2>3. QED
    BY <1>1, <1>2, <2>1, <2>2 DEF Sourced
<1>7. CASE Claim \/ Keep
  <2>1. todo # <<>> /\ todo' = Tail(todo) /\ kept' = Append(kept, Head(todo))
    BY <1>7 DEF Claim, Keep
  <2>2. ToSet(todo') \subseteq Sources /\ Head(todo) \in Sources
    BY <1>1, <2>1, MembersOfTail
  <2>3. ToSet(kept') \subseteq Sources
    BY <1>1, <2>1, <2>2, ListAppend
  <2>4. QED
    BY <1>2, <2>2, <2>3 DEF Sourced
<1>8. CASE Replace
  <2>1. todo # <<>> /\ todo' = Tail(todo) /\ kept' = [kept EXCEPT ![First(Same(Head(todo)))] = Head(todo)]
    BY <1>8 DEF Replace
  <2>2. ToSet(todo') \subseteq Sources /\ Head(todo) \in Sources
    BY <1>1, <2>1, MembersOfTail
  <2>3. ToSet(kept') \subseteq Sources
    BY <1>1, <2>1, <2>2, MembersOfReplaced
  <2>4. QED
    BY <1>2, <2>2, <2>3 DEF Sourced
<1>9. CASE Drop \/ Merge
  <2>1. todo # <<>> /\ todo' = Tail(todo) /\ kept' = kept
    BY <1>9 DEF Drop, Merge
  <2>2. ToSet(todo') \subseteq Sources
    BY <1>1, <2>1, MembersOfTail
  <2>3. QED
    BY <1>1, <1>2, <2>1, <2>2 DEF Sourced
<1>10. CASE PassTwo
  <2>1. todo' = kept /\ kept' = <<>>
    BY <1>10 DEF PassTwo
  <2>2. ToSet(kept') = {}
    BY <2>1 DEF ToSet
  <2>3. QED
    BY <1>1, <1>2, <2>1, <2>2 DEF Sourced
<1>11. CASE LoadFails \/ Start \/ UNCHANGED vars
  BY <1>1, <1>2, <1>11 DEF LoadFails, Start, vars, Sourced
<1>12. QED
  BY <1>4, <1>5, <1>6, <1>7, <1>8, <1>9, <1>10, <1>11 DEF Next

LEMMA SourcedHolds == Spec => [](IInv /\ Sourced)
<1>1. Init => Sourced
  <2> SUFFICES ASSUME Init
               PROVE  Sourced
    OBVIOUS
  <2>1. todo = HandConfigured /\ kept = <<>>
    BY DEF Init, HandConfigured
  <2>2. ToSet(<<>>) = {}
    BY DEF ToSet
  <2>3. QED
    BY <2>1, <2>2 DEF Sourced, Sources
<1>2. QED
  BY <1>1, InvariantHolds, StepKeepsSourced, PTL DEF Spec

\* Each is NJ Transit's, a keyed agency's, a slice of the Atlas or a build of rows.
LEMMA SourcesAreOf ==
  ASSUME world \in Worlds, NEW c \in Sources
  PROVE  \/ c = NjTransit
         \/ \E a \in ToSet(world.hand) :
              /\ c = AuthedConfig(a) /\ a.key \in world.secrets \cup {None}
              /\ Resolved(a, world.secrets)
         \/ FromFeeds(c, world.feeds)
         \/ FromRows(c, world.rows)
<1>1. IsWorld(world) /\ None \notin {1, 2}
  BY WorldsAssumption, AgenciesAssumption
<1>2. CASE c \in ToSet(HandConfigured)
  <2> DEFINE authed == AuthedAgencies(world.hand, world.secrets)
  <2>1. IsList(authed)
    BY <1>1, AuthedAreOf DEF IsWorld
  <2>2. IsList(<<NjTransit>>) /\ ToSet(<<NjTransit>>) \subseteq {NjTransit}
    <3>1. <<NjTransit>> \in Seq({NjTransit})
      OBVIOUS
    <3>2. QED
      BY <3>1, ListOf
  <2>3. ToSet(<<NjTransit>> \o authed) \subseteq ToSet(<<NjTransit>>) \cup ToSet(authed)
    <3> HIDE DEF authed
    <3>1. QED
      BY <2>1, <2>2, MembersOfConcat
  <2>4. c = NjTransit \/ c \in ToSet(authed)
    BY <1>2, <2>2, <2>3 DEF HandConfigured
  <2>5. QED
    BY <1>1, <2>4, AuthedAreOf DEF IsWorld
<1>3. CASE c \in ToSet(ParseAtlas(world.operators, world.feeds))
  BY <1>1, <1>3, AtlasIsFromFeeds DEF IsWorld
<1>4. CASE c \in MobilityAgencies(world.rows)
  BY <1>1, <1>4, MobilityAreFromRows DEF IsWorld
<1>5. QED
  BY <1>2, <1>3, <1>4 DEF Sources

Typed(c) ==
  /\ Urls(c) \subseteq [at : DOMAIN HostOf, with : SUBSET world.secrets]
  /\ c.gated \in BOOLEAN \cup {None}

LEMMA SourcesAreTyped ==
  ASSUME world \in Worlds, NEW c \in Sources
  PROVE  Typed(c)
<1>1. IsWorld(world) /\ \A url \in Urls(NjTransit) : url.at \in DOMAIN HostOf
  BY WorldsAssumption
<1>2. ASSUME NEW url, IsPublic(url), Known(url)
      PROVE  url \in [at : DOMAIN HostOf, with : SUBSET world.secrets]
  <2>1. url = [at |-> url.at, with |-> {}] /\ url.at \in DOMAIN HostOf
    BY <1>2 DEF IsPublic, IsUrl
  <2>2. QED
    BY <2>1
<1>3. CASE c = NjTransit
  <2>1. \A url \in Urls(c) : url \in {Url("getGTFS"), Url("getTripUpdates"), Url("getVehiclePositions")}
    <3>1. /\ c.static = Url("getGTFS") /\ c.updates = <<Url("getTripUpdates")>>
          /\ c.positions = <<Url("getVehiclePositions")>>
      BY <1>3 DEF NjTransit
    <3>2. \A x : ToSet(<<x>>) = {x}
      BY DEF ToSet
    <3>3. QED
      BY <3>1, <3>2 DEF Urls, Requests
  <2>2. ASSUME NEW url \in Urls(c)
        PROVE  url \in [at : DOMAIN HostOf, with : SUBSET world.secrets]
    <3>1. url = [at |-> url.at, with |-> {}]
      BY <2>1 DEF Url
    <3>2. url.at \in DOMAIN HostOf
      BY <1>1, <1>3
    <3>3. QED
      BY <3>1, <3>2
  <2>3. c.gated = FALSE
    BY <1>3 DEF NjTransit
  <2>4. QED
    BY <2>2, <2>3 DEF Typed
<1>4. ASSUME NEW a \in ToSet(world.hand), c = AuthedConfig(a), Resolved(a, world.secrets)
      PROVE  Typed(c)
  <2>1. Urls(c) = {a.static} \cup ToSet(a.updates) \cup ToSet(a.positions)
    BY <1>4 DEF AuthedConfig, Urls, Requests
  <2>2. ASSUME NEW url \in Urls(c)
        PROVE  url \in [at : DOMAIN HostOf, with : SUBSET world.secrets]
    <3>1. url.with \subseteq world.secrets
      BY <1>4, <2>1 DEF Resolved
    <3>2. IsUrl(url)
      BY <1>1, <2>1 DEF IsWorld, Urls, Requests
    <3>3. QED
      BY <3>1, <3>2 DEF IsUrl
  <2>3. c.gated = FALSE
    BY <1>4 DEF AuthedConfig
  <2>4. QED
    BY <2>2, <2>3 DEF Typed
<1>5. CASE FromFeeds(c, world.feeds)
  <2>1. \A f \in Fed(world.feeds) : IsPublic(f.static) /\ IsPublic(f.updates) /\ IsPublic(f.positions)
    BY <1>1 DEF Fed, IsWorld
  <2>2. \A url \in Urls(c) : IsPublic(url) /\ Known(url)
    BY <1>5, <2>1 DEF Urls, FromFeeds
  <2>3. QED
    BY <1>2, <1>5, <2>2 DEF Typed, FromFeeds
<1>6. CASE FromRows(c, world.rows)
  <2>1. \A r \in ToSet(world.rows) : IsPublic(r.url)
    BY <1>1 DEF IsWorld
  <2>2. \A url \in Urls(c) : IsPublic(url) /\ Known(url)
    BY <1>6, <2>1 DEF Urls, FromRows
  <2>3. QED
    BY <1>2, <1>6, <2>2 DEF Typed, FromRows
<1>7. QED
  BY <1>3, <1>4, <1>5, <1>6, SourcesAreOf

\* What is listed as open opens, if the lists are truthful.
LEMMA SourcesAreSigned ==
  ASSUME world \in Worlds, Truthful, NEW c \in Sources, c.gated # TRUE, HasTripUpdates(c),
         ~OfTwoMinds(c), NEW url \in Requests(c)
  PROVE  Signed(url)
<1>1. IsWorld(world) /\ None \notin {1, 2}
  BY WorldsAssumption, AgenciesAssumption
<1>2. world.lock[url.at] = None => Signed(url)
  BY DEF Signed
<1>3. CASE c = NjTransit
  BY <1>2, <1>3 DEF Truthful
<1>4. ASSUME NEW a \in ToSet(world.hand), c = AuthedConfig(a),
             a.key \in world.secrets \cup {None}, Resolved(a, world.secrets)
      PROVE  Signed(url)
  <2> DEFINE rules == {rule.key : rule \in {r \in world.injections : r.host = HostOf[url.at]}}
  <2>1. Requests(a) = Requests(c)
    BY <1>4 DEF AuthedConfig, Requests
  <2>2. world.lock[url.at] \in {None} \cup url.with \cup ({a.key} \cap rules)
    BY <2>1 DEF Truthful
  <2>3. url = [at |-> url.at, with |-> url.with]
    BY <1>1, <2>1 DEF IsWorld, IsUrl, Urls
  <2>4. Applied(url, world.injections, world.secrets).with = url.with \cup (rules \cap world.secrets)
    BY <2>3 DEF Applied
  <2> HIDE DEF rules
  <2>5. QED
    BY <1>4, <2>2, <2>4 DEF Signed
<1>5. CASE FromFeeds(c, world.feeds)
  <2>1. c.gated = FALSE
    BY <1>5 DEF FromFeeds, HasTripUpdates
  <2>2. PICK f \in Fed(world.feeds) :
          f.spec = "gtfs-rt" /\ url \in {f.updates, f.positions} /\ Known(url) /\ ~f.gated
    BY <1>5, <2>1 DEF FromFeeds
  <2>3. PICK id \in DOMAIN world.feeds : f = world.feeds[id]
    BY DEF Fed
  <2>4. url \in {f.updates, f.positions} \ {None}
    BY <2>2 DEF Known
  <2>5. world.lock[url.at] = None
    BY <2>2, <2>3, <2>4 DEF Truthful
  <2>6. QED
    BY <1>2, <2>5
<1>6. CASE FromRows(c, world.rows)
  <2>1. PICK r \in ToSet(world.rows) :
          r.type = "gtfs_rt" /\ Known(r.url) /\ url = r.url /\ c.slug = <<AgencyOf(r)>>
    BY <1>6 DEF FromRows
  <2>2. CASE r.auth \in {1, 2}
    <3>1. PICK s \in ToSet(world.rows) :
            AgencyOf(s) = AgencyOf(r) /\ Known(s.auth) /\ s.auth \notin {1, 2}
      BY <1>6, <2>1, <2>2 DEF FromRows
    <3>2. Known(r.auth)
      BY <1>1, <2>2 DEF Known
    <3>3. OfTwoMinds(c)
      BY <2>1, <2>2, <3>1, <3>2 DEF OfTwoMinds
    <3>4. QED
      BY <3>3
  <2>3. CASE r.auth \notin {1, 2}
    BY <1>2, <2>1, <2>3 DEF Truthful
  <2>4. QED
    BY <2>2, <2>3
<1>7. QED
  BY <1>3, <1>4, <1>5, <1>6, SourcesAreOf

\* Every config that a pass has or keeps asks known endpoints, with credentials
\* that keys.env has, whichever source it comes from.
THEOREM TypeCorrect == Spec => []TypeOK
<1>1. ASSUME IInv, Sourced
      PROVE  TypeOK
  <2>1. stage \in {"transitland", "mobilitydata", "scope", "exact", "fuzzy", "polling"}
    BY <1>1 DEF IInv, Loading, PassOne, PassTwoOrPolling
  <2>2. \A c \in ToSet(todo) \cup ToSet(kept) : Typed(c)
    BY <1>1, SourcesAreTyped DEF IInv, Sourced
  <2>3. QED
    BY <2>1, <2>2 DEF TypeOK, Typed
<1>2. QED
  BY <1>1, SourcedHolds, PTL

\* What is polled is open or its request carries its key, for any files, catalogs
\* and overlaps of these, if they say what is so and agree with themselves.
THEOREM NothingLockedIsPolled == Spec => []SignedOrOpen
<1>1. ASSUME IInv, Sourced
      PROVE  SignedOrOpen
  <2> SUFFICES ASSUME Truthful, NEW c \in Polled, ~OfTwoMinds(c), NEW url \in Requests(c)
               PROVE  Signed(url)
    BY DEF SignedOrOpen
  <2>1. PICK k \in DOMAIN kept : c = kept[k] /\ SourceState(kept[k]) = "Active"
    BY DEF Polled
  <2>2. c \in Sources
    BY <1>1, <2>1, IsListProperties DEF IInv, Lists, Sourced
  <2>3. HasTripUpdates(c) /\ ~RequiresAuth(c)
    BY <2>1 DEF SourceState
  <2>4. c.gated # TRUE
    BY <2>3 DEF RequiresAuth
  <2>5. QED
    BY <1>1, <2>2, <2>3, <2>4, SourcesAreSigned DEF IInv
<1>2. QED
  BY <1>1, SourcedHolds, PTL

\* However many modes an operator's feeds name, and however these fit its
\* schedules, none of the slices loses its schedule to another.
THEOREM SiblingsShareNoSchedule == Spec => []SiblingsAreDistinct
<1>1. ASSUME IInv
      PROVE  SiblingsAreDistinct
  <2> SUFFICES ASSUME NEW o \in DOMAIN world.operators
               PROVE  LET groups == Decompose(world.operators[o], world.feeds)
                          statics == Statics(world.operators[o], world.feeds)
                      IN ((\A i, j \in DOMAIN statics : i # j => statics[i].static # statics[j].static)
                            /\ Len(groups) <= Len(statics))
                         => \A i, j \in DOMAIN groups : i # j => groups[i].static # groups[j].static
    BY DEF SiblingsAreDistinct
  <2> DEFINE groups == Decompose(world.operators[o], world.feeds)
             statics == Statics(world.operators[o], world.feeds)
  <2> SUFFICES ASSUME \A i, j \in DOMAIN statics : i # j => statics[i].static # statics[j].static,
                      Len(groups) <= Len(statics)
               PROVE  \A i, j \in DOMAIN groups : i # j => groups[i].static # groups[j].static
    OBVIOUS
  <2>1. IsWorld(world)
    BY <1>1, WorldsAssumption DEF IInv
  <2>2. IsList(world.operators[o].associated)
    BY <2>1, IsListProperties DEF IsWorld
  <2>3. /\ IsList(groups) /\ Apart(groups, statics)
        /\ \A g \in ToSet(groups) : IsSlice(g, statics, Realtimes(world.operators[o], world.feeds))
    BY <2>2, DecomposeAreSlices
  <2> HIDE DEF groups, statics
  <2>4. \A i \in DOMAIN groups : /\ groups[i].index \in DOMAIN statics
                                 /\ groups[i].static = statics[groups[i].index].static
    BY <2>3, IsListProperties DEF IsSlice
  <2>5. \A i, j \in DOMAIN groups : i # j => groups[i].index # groups[j].index
    BY <2>3 DEF Apart
  <2>6. QED
    BY <2>4, <2>5
<1>2. QED
  BY <1>1, InvariantHolds, PTL
=============================================================================
