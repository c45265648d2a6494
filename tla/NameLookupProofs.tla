---------------------------- MODULE NameLookupProofs ----------------------------
(***************************************************************************)
(* The comparators with which addresses are sorted are strict weak orders; *)
(* DomainNotFound is reported only when no enabled family could be looked  *)
(* up; what is pinged and tried belongs to the URL of this attempt, TLS is *)
(* told its name, and candidates are tried fastest first: for every URL,   *)
(* whatever the name servers publish, however late their answers come, and *)
(* whatever the pinged servers answer.                                     *)
(***************************************************************************)
EXTENDS NameLookup, FiniteSetTheorems, TLAPS

--------------------------------------------------------------------------------
(* The comparators *)

\* Across families PingLess compares the time of the preferred family, less the margin, with
\* the time of the other; this is why family and time do not contradict each other.
LEMMA PingLessAcross ==
    ASSUME NEW a \in Answers, NEW b \in Answers, a.v6 = PreferIpv6, b.v6 # PreferIpv6
    PROVE  /\ PingLess(a, b) <=> a.time <= b.time + Close
           /\ PingLess(b, a) <=> b.time + Close < a.time
<1> USE AddressOrderAssumption
<1>1. a.time \in Nat /\ b.time \in Nat /\ a.v6 \in BOOLEAN /\ b.v6 \in BOOLEAN /\ Close \in Nat
  BY DEF Answers
<1>2. AbsDiff(a.time, b.time) = AbsDiff(b.time, a.time)
  BY <1>1 DEF AbsDiff
<1>3. CASE AbsDiff(a.time, b.time) > Close
  BY <1>1, <1>2, <1>3 DEF PingLess, AbsDiff
<1>4. CASE ~(AbsDiff(a.time, b.time) > Close)
  <2>1. PingLess(a, b) /\ ~PingLess(b, a)
    BY <1>1, <1>2, <1>4 DEF PingLess
  <2>2. a.time <= b.time + Close
    BY <1>1, <1>4 DEF AbsDiff
  <2> QED
    BY <1>1, <2>1, <2>2
<1> QED
  BY <1>3, <1>4

\* Within a family it compares the times.
LEMMA PingLessWithin ==
    ASSUME NEW a \in Answers, NEW b \in Answers, a.v6 = b.v6
    PROVE  PingLess(a, b) <=> a.time < b.time
BY DEF PingLess

\* Two addresses are of one family, or exactly one is of the preferred family.
LEMMA TwoFamilies ==
    ASSUME NEW p \in BOOLEAN, NEW q \in BOOLEAN, NEW r \in BOOLEAN
    PROVE  p = q \/ (p = r /\ q # r) \/ (p # r /\ q = r)
OBVIOUS

\* threadPingCandidates: the comparator given to std::sort is a strict weak order on whatever
\* answers have come in, although it goes by time for some pairs and by family for others.
THEOREM PingOrderIsConsistent ==
    ASSUME NEW answers \in SUBSET Answers
    PROVE  PingOrderedOn(answers)
<1> USE AddressOrderAssumption
<1> SUFFICES ASSUME NEW a \in Answers, NEW b \in Answers, NEW c \in Answers
             PROVE  /\ ~PingLess(a, a)
                    /\ PingLess(a, b) /\ PingLess(b, c) => PingLess(a, c)
                    /\ ~PingLess(a, b) /\ ~PingLess(b, c) => ~PingLess(a, c)
  BY DEF PingOrderedOn
<1> DEFINE Weight(x) == IF x.v6 = PreferIpv6 THEN 2 * x.time ELSE 2 * (x.time + Close) + 1
<1>1. \A x \in Answers : x.time \in Nat /\ x.v6 \in BOOLEAN
  BY DEF Answers
<1>3. \A x \in Answers : Weight(x) \in Nat
  <2>1. Close \in Nat
    BY Zenon
  <2> QED
    BY <1>1, <2>1
<1>2. ASSUME NEW x \in Answers, NEW y \in Answers
      PROVE  PingLess(x, y) <=> Weight(x) < Weight(y)
  <2>1. CASE x.v6 = y.v6
    BY <1>1, <2>1, PingLessWithin
  <2>2. CASE x.v6 = PreferIpv6 /\ y.v6 # PreferIpv6
    BY <1>1, <2>2, PingLessAcross
  <2>3. CASE x.v6 # PreferIpv6 /\ y.v6 = PreferIpv6
    BY <1>1, <2>3, PingLessAcross
  <2>4. x.v6 = y.v6 \/ (x.v6 = PreferIpv6 /\ y.v6 # PreferIpv6) \/ (x.v6 # PreferIpv6 /\ y.v6 = PreferIpv6)
    <3>1. x.v6 \in BOOLEAN /\ y.v6 \in BOOLEAN /\ PreferIpv6 \in BOOLEAN
      BY <1>1
    <3> QED
      BY <3>1, TwoFamilies
  <2> QED
    BY <2>1, <2>2, <2>3, <2>4
<1> HIDE DEF Weight
<1> QED
  BY <1>3, <1>2

\* threadFinalConnect: so is the one given to std::stable_sort.
THEOREM TypeOrderIsConsistent == TypeOrderConsistent
<1> DEFINE Rank(t) == IF t = PreferredType THEN 0 ELSE TypeRank(t)
<1>1. \A t \in ConnectionTypes : TypeRank(t) \in {10, 20, 30, 40}
  BY DEF TypeRank
<1>2. \A t \in ConnectionTypes : Rank(t) \in Nat
  BY <1>1
<1>3. \A s, t \in ConnectionTypes : TypeLess(s, t) <=> Rank(s) < Rank(t)
  BY <1>1 DEF TypeLess
<1> HIDE DEF Rank
<1> QED
  BY <1>2, <1>3 DEF TypeOrderConsistent

--------------------------------------------------------------------------------
(* Sorting *)

\* R orders S: an element is not before itself, and of two elements one is before the other.
OrderOn(S, R) ==
    /\ \A x \in S : <<x, x>> \notin R
    /\ \A x, y, z \in S : <<x, y>> \in R /\ <<y, z>> \in R => <<x, z>> \in R
    /\ \A x, y \in S : x # y => <<x, y>> \in R \/ <<y, x>> \in R

\* The elements before x.
Below(S, R, x) == {y \in S : <<y, x>> \in R}

\* The number of elements before an element tells them apart, and takes every value there is room for.
LEMMA RankFacts ==
    ASSUME NEW S, IsFiniteSet(S), NEW R, OrderOn(S, R)
    PROVE  /\ Cardinality(S) \in Nat
           /\ \A x \in S : Cardinality(Below(S, R, x)) \in Nat
           /\ \A x, y \in S : <<x, y>> \in R <=> Cardinality(Below(S, R, x)) < Cardinality(Below(S, R, y))
           /\ \A k \in 1..Cardinality(S) : \E x \in S : Cardinality(Below(S, R, x)) = k - 1
  <1> DEFINE rank(x) == Cardinality(Below(S, R, x))
             n == Cardinality(S)
  <1>1. n \in Nat
    BY FS_CardinalityType
  <1>2. ASSUME NEW x \in S
        PROVE  IsFiniteSet(Below(S, R, x)) /\ rank(x) \in Nat /\ rank(x) < n
    <2>1. Below(S, R, x) \in SUBSET S /\ x \notin Below(S, R, x)
      BY DEF Below, OrderOn
    <2>2. IsFiniteSet(Below(S, R, x)) /\ rank(x) <= n /\ (n = rank(x) => S = Below(S, R, x))
      BY <2>1, FS_Subset
    <2>3. rank(x) \in Nat
      BY <2>2, FS_CardinalityType
    <2> QED BY <1>1, <2>1, <2>2, <2>3
  <1>3. ASSUME NEW x \in S, NEW y \in S, <<x, y>> \in R
        PROVE  rank(x) < rank(y)
    <2>1. Below(S, R, x) \in SUBSET Below(S, R, y)
      BY <1>3 DEF Below, OrderOn
    <2>2. x \in Below(S, R, y) /\ x \notin Below(S, R, x)
      BY <1>3 DEF Below, OrderOn
    <2>3. rank(x) <= rank(y) /\ (rank(y) = rank(x) => Below(S, R, y) = Below(S, R, x))
      BY <1>2, <2>1, FS_Subset
    <2> QED BY <1>2, <2>2, <2>3
  <1>4. ASSUME NEW x \in S, NEW y \in S, rank(x) < rank(y)
        PROVE  <<x, y>> \in R
    <2>1. x # y /\ ~(rank(y) < rank(x))
      BY <1>2, <1>4
    <2> QED BY <1>3, <2>1 DEF OrderOn
  <1>5. ASSUME NEW k \in 1..n
        PROVE  \E x \in S : rank(x) = k - 1
    <2> DEFINE f == [x \in S |-> rank(x)]
               T == 0..(n - 1)
    <2>1. IsFiniteSet(T) /\ Cardinality(T) = n
      <3>1. n - 1 \in Int /\ 0 \in Int
        BY <1>1
      <3>2. IsFiniteSet(T) /\ Cardinality(T) = IF 0 > n - 1 THEN 0 ELSE (n - 1) - 0 + 1
        BY <3>1, FS_Interval
      <3> QED BY <1>1, <3>2
    <2>2. f \in Injection(S, T)
      <3>1. \A x \in S : rank(x) \in T
        BY <1>1, <1>2
      <3>2. ASSUME NEW x \in S, NEW y \in S, rank(x) = rank(y)
            PROVE  x = y
        <4>1. ~(rank(x) < rank(y)) /\ ~(rank(y) < rank(x))
          BY <1>2, <3>2
        <4> QED BY <1>3, <4>1 DEF OrderOn
      <3> HIDE DEF rank
      <3>3. f \in [S -> T]
        BY <3>1
      <3> QED BY <3>2, <3>3 DEF Injection, IsInjective
    <2>3. f \in Surjection(S, T)
      BY <2>1, <2>2, FS_Injection
    <2>4. k - 1 \in T
      BY <1>1, <1>5
    <2> HIDE DEF rank, T
    <2> QED BY <2>3, <2>4 DEF Surjection
  <1> QED BY <1>1, <1>2, <1>3, <1>4, <1>5

LEMMA FunctionIsSeq ==
    ASSUME NEW S, NEW n \in Nat, NEW s \in [1..n -> S]
    PROVE  s \in Seq(S) /\ Len(s) = n
  OBVIOUS

\* Every element is at the place that the number of elements before it gives.
Ranked(s, S, R) ==
    /\ s \in [1..Cardinality(S) -> S]
    /\ \A k \in 1..Cardinality(S) : Cardinality(Below(S, R, s[k])) = k - 1

\* s has every element of S once, in the order R.
Lists(s, S, R) ==
    /\ s \in Seq(S) /\ Len(s) = Cardinality(S) /\ ToSet(s) = S
    /\ \A i, j \in DOMAIN s : i < j => <<s[i], s[j]>> \in R
    /\ IsInjective(s)

\* A sequence in which every element has the elements before it in front of it is sorted and
\* has every element.
LEMMA InOrderFacts ==
    ASSUME NEW S, IsFiniteSet(S), NEW R, OrderOn(S, R), NEW s, Ranked(s, S, R)
    PROVE  Lists(s, S, R)
  <1> DEFINE n == Cardinality(S)
  <1>1. /\ n \in Nat
        /\ \A x, y \in S : <<x, y>> \in R <=> Cardinality(Below(S, R, x)) < Cardinality(Below(S, R, y))
        /\ \A x \in S : Cardinality(Below(S, R, x)) \in Nat
    BY RankFacts
  <1>2. DOMAIN s = 1..n /\ s \in [1..n -> S] /\ \A k \in 1..n : Cardinality(Below(S, R, s[k])) = k - 1
    BY DEF Ranked
  <1> HIDE DEF n
  <1>3. s \in Seq(S) /\ Len(s) = n
    BY <1>1, <1>2, FunctionIsSeq
  <1>4. ASSUME NEW i \in DOMAIN s, NEW j \in DOMAIN s, i < j
        PROVE  <<s[i], s[j]>> \in R
    <2>1. i \in Int /\ j \in Int /\ i - 1 < j - 1
      BY <1>1, <1>2, <1>4
    <2> QED BY <1>1, <1>2, <2>1 DEF n
  <1>5. ASSUME NEW i \in DOMAIN s, NEW j \in DOMAIN s, s[i] = s[j]
        PROVE  i = j
    <2>1. i \in Int /\ j \in Int /\ i - 1 = j - 1
      BY <1>1, <1>2, <1>5 DEF n
    <2> QED BY <2>1
  <1>6. ASSUME NEW x \in S
        PROVE  \E k \in DOMAIN s : s[k] = x
    <2>1. /\ \A y \in S : <<x, y>> \in R \/ <<y, x>> \in R \/ x = y
      BY DEF OrderOn
    <2>2. IsFiniteSet(Below(S, R, x)) /\ Cardinality(Below(S, R, x)) < n
      <3>1. Below(S, R, x) \in SUBSET S /\ x \notin Below(S, R, x)
        BY DEF Below, OrderOn
      <3> QED BY <1>1, <3>1, FS_Subset DEF n
    <2> DEFINE k == Cardinality(Below(S, R, x)) + 1
    <2>3. k \in 1..n /\ Cardinality(Below(S, R, x)) = k - 1
      BY <1>1, <2>2
    <2> HIDE DEF k
    <2>4. s[k] \in S /\ Cardinality(Below(S, R, s[k])) = Cardinality(Below(S, R, x))
      BY <1>2, <2>3
    <2>5. s[k] = x
      <3>1. /\ ~(Cardinality(Below(S, R, s[k])) < Cardinality(Below(S, R, x)))
            /\ ~(Cardinality(Below(S, R, x)) < Cardinality(Below(S, R, s[k])))
        BY <1>1, <2>4
      <3>2. <<s[k], x>> \notin R /\ <<x, s[k]>> \notin R
        BY <1>1, <2>4, <3>1
      <3> QED BY <2>1, <2>4, <3>2
    <2> QED BY <1>2, <2>3, <2>5
  <1>7. ToSet(s) = S
    BY <1>2, <1>6 DEF ToSet
  <1> QED BY <1>3, <1>4, <1>5, <1>7 DEF n, Lists, IsInjective

\* The elements of a sequence at some indices: each comes from one of them, and none twice.
LEMMA PickedFacts ==
    ASSUME NEW S, NEW s \in Seq(S), NEW indices \in SUBSET DOMAIN s
    PROVE  /\ Picked(s, indices) \in Seq(S)
           /\ \A k \in DOMAIN Picked(s, indices) : \E i \in indices : Picked(s, indices)[k] = s[i]
           /\ IsInjective(s) => IsInjective(Picked(s, indices))
  <1> DEFINE R == {o \in indices \X indices : o[1] < o[2]}
             n == Cardinality(indices)
             f == InOrder(indices, LAMBDA i, j : i < j)
  <1> HIDE DEF f
  <1>1. DOMAIN s = 1..Len(s) /\ Len(s) \in Nat
    OBVIOUS
  <1>2. IsFiniteSet(indices)
    <2>1. 0 \in Int /\ 1 \in Int /\ Len(s) \in Int
      BY <1>1
    <2>2. IsFiniteSet(1..Len(s))
      BY <2>1, FS_Interval
    <2> QED BY <1>1, <2>2, FS_Subset
  <1>3. OrderOn(indices, R)
    <2>1. \A i \in indices : i \in Int
      BY <1>1
    <2> QED BY <2>1 DEF OrderOn
  <1>4. \A x \in indices : {y \in indices : y < x} = Below(indices, R, x)
    BY DEF Below
  <1> HIDE DEF R
  <1>5. n \in Nat /\ \A k \in 1..n : \E x \in indices : Cardinality({y \in indices : y < x}) = k - 1
    <2>1. /\ n \in Nat
          /\ \A k \in 1..n : \E x \in indices : Cardinality(Below(indices, R, x)) = k - 1
      BY <1>2, <1>3, RankFacts
    <2> HIDE DEF n
    <2> QED BY <1>4, <2>1
  <1>6. f = [k \in 1..n |-> CHOOSE x \in indices : Cardinality({y \in indices : y < x}) = k - 1]
    BY Zenon DEF f, InOrder
  <1>7. ASSUME NEW k \in 1..n
        PROVE  f[k] \in indices /\ Cardinality(Below(indices, R, f[k])) = k - 1
    <2>1. f[k] = CHOOSE x \in indices : Cardinality({y \in indices : y < x}) = k - 1
      BY <1>6
    <2>2. f[k] \in indices /\ Cardinality({y \in indices : y < f[k]}) = k - 1
      BY <1>5, <2>1, Zenon
    <2> QED BY <1>4, <2>2
  <1>8. DOMAIN f = 1..n /\ f \in [1..n -> indices]
    BY <1>6, <1>7, Zenon
  <1>9. Picked(s, indices) = [k \in DOMAIN f |-> s[f[k]]]
    BY Zenon DEF Picked, f
  <1> HIDE DEF n
  <1>10. /\ f \in Seq(indices) /\ Len(f) = n
         /\ \A i, j \in DOMAIN f : f[i] = f[j] => i = j
    <2>1. Ranked(f, indices, R)
      BY <1>7, <1>8 DEF n, Ranked
    <2>2. Lists(f, indices, R)
      BY <1>2, <1>3, <2>1, InOrderFacts
    <2> QED BY <2>2 DEF n, Lists, IsInjective
  <1>11. DOMAIN f = 1..n /\ \A k \in 1..n : s[f[k]] \in S
    BY <1>1, <1>8, <1>7
  <1>12. Picked(s, indices) \in [1..n -> S] /\ DOMAIN Picked(s, indices) = 1..n
    BY <1>9, <1>11
  <1>13. Picked(s, indices) \in Seq(S)
    BY <1>5, <1>12, FunctionIsSeq
  <1>14. \A k \in 1..n : Picked(s, indices)[k] = s[f[k]] /\ f[k] \in DOMAIN s
    BY <1>7, <1>9, <1>11
  <1>15. IsInjective(s) => IsInjective(Picked(s, indices))
    BY <1>10, <1>11, <1>12, <1>14 DEF IsInjective
  <1> QED BY <1>7, <1>12, <1>13, <1>14, <1>15

\* sortAddresses returns every address once: addresses with one port are told apart by the order.
LEMMA SortAddressesFacts ==
    ASSUME NEW p, NEW set \in SUBSET [ip : Nat, v6 : BOOLEAN, port : {p}], IsFiniteSet(set)
    PROVE  /\ SortAddresses(set) \in Seq(set)
           /\ ToSet(SortAddresses(set)) = set
           /\ IsInjective(SortAddresses(set))
           /\ Len(SortAddresses(set)) = Cardinality(set)
  <1> DEFINE R == {o \in set \X set : AddressLess(o[1], o[2])}
             n == Cardinality(set)
             f == SortAddresses(set)
  <1>1. \A a, b \in set : <<a, b>> \in R <=> AddressLess(a, b)
    OBVIOUS
  <1>2. OrderOn(set, R)
    <2>1. \A a \in set : a.ip \in Nat /\ a.v6 \in BOOLEAN /\ a.port = p
      OBVIOUS
    <2>2. ASSUME NEW a \in set, NEW b \in set, a.ip = b.ip, a.v6 = b.v6
          PROVE  a = b
      BY <2>2
    <2>3. \A a \in set : ~AddressLess(a, a)
      BY <2>1 DEF AddressLess
    <2>4. ASSUME NEW a \in set, NEW b \in set, a # b
          PROVE  AddressLess(a, b) \/ AddressLess(b, a)
      <3>1. PreferIpv6 \in BOOLEAN
        BY AddressOrderAssumption
      <3>2. CASE a.v6 # b.v6
        BY <2>1, <3>1, <3>2 DEF AddressLess
      <3>3. CASE a.v6 = b.v6
        <4>1. a.ip # b.ip
          BY <2>2, <2>4, <3>3
        <4> QED BY <2>1, <3>3, <4>1 DEF AddressLess
      <3> QED BY <3>2, <3>3
    <2>5. ASSUME NEW a \in set, NEW b \in set, NEW c \in set, AddressLess(a, b), AddressLess(b, c)
          PROVE  AddressLess(a, c)
      <3>1. PreferIpv6 \in BOOLEAN
        BY AddressOrderAssumption
      <3> QED BY <2>1, <2>5, <3>1 DEF AddressLess
    <2> HIDE DEF R
    <2> QED BY <1>1, <2>3, <2>4, <2>5 DEF OrderOn
  <1>3. \A x \in set : {y \in set : AddressLess(y, x)} = Below(set, R, x)
    BY DEF Below
  <1> HIDE DEF R
  <1>4. n \in Nat /\ \A k \in 1..n : \E x \in set : Cardinality({y \in set : AddressLess(y, x)}) = k - 1
    <2>1. /\ n \in Nat
          /\ \A k \in 1..n : \E x \in set : Cardinality(Below(set, R, x)) = k - 1
      BY <1>2, RankFacts
    <2> HIDE DEF n
    <2> QED BY <1>3, <2>1
  <1>5. f = [k \in 1..n |-> CHOOSE x \in set : Cardinality({y \in set : AddressLess(y, x)}) = k - 1]
    BY DEF InOrder, SortAddresses
  <1>6. ASSUME NEW k \in 1..n
        PROVE  f[k] \in set /\ Cardinality(Below(set, R, f[k])) = k - 1
    <2>1. f[k] = CHOOSE x \in set : Cardinality({y \in set : AddressLess(y, x)}) = k - 1
      BY <1>5
    <2>2. f[k] \in set /\ Cardinality({y \in set : AddressLess(y, f[k])}) = k - 1
      BY <1>4, <2>1, Zenon
    <2> QED BY <1>3, <2>2
  <1>7. f = [k \in 1..n |-> f[k]]
    BY <1>5
  <1> HIDE DEF f
  <1>8. /\ f \in Seq(set) /\ Len(f) = n /\ ToSet(f) = set
        /\ \A i, j \in DOMAIN f : f[i] = f[j] => i = j
    <2>1. Ranked(f, set, R)
      BY <1>6, <1>7 DEF Ranked
    <2>2. Lists(f, set, R)
      BY <1>2, <2>1, InOrderFacts
    <2> QED BY <2>2 DEF Lists, IsInjective
  <1> QED BY <1>8 DEF f, IsInjective

\* The order of the loops over addresses and protocols.
LEMMA EarlierFacts ==
    ASSUME NEW P \in SUBSET (Int \X Int)
    PROVE  /\ \A c \in P : ~Earlier(c, c)
           /\ \A c, d, e \in P : Earlier(c, d) /\ Earlier(d, e) => Earlier(c, e)
           /\ \A c, d \in P : c # d => Earlier(c, d) \/ Earlier(d, c)
  <1>1. \A c \in P : c[1] \in Int /\ c[2] \in Int /\ c = <<c[1], c[2]>>
    OBVIOUS
  <1>2. \A c, d \in P : c # d => c[1] # d[1] \/ c[2] # d[2]
    BY <1>1
  <1> QED BY <1>1, <1>2 DEF Earlier

\* The order of threadFinalConnect: by type, and candidates of equivalent types as they were.
LEMMA TypeEarlierOrders ==
    ASSUME NEW P \in SUBSET (Int \X Int), NEW types, \A c \in P : types[c[2]].type \in ConnectionTypes
    PROVE  OrderOn(P, {o \in P \X P : TypeEarlier(types, o[1], o[2])})
  <1> DEFINE R == {o \in P \X P : TypeEarlier(types, o[1], o[2])}
             T(c) == types[c[2]].type
  <1>1. \A c, d \in P : <<c, d>> \in R <=> TypeLess(T(c), T(d)) \/ (~TypeLess(T(d), T(c)) /\ Earlier(c, d))
    BY DEF TypeEarlier
  <1> HIDE DEF R
  <1>2. \A c \in P : T(c) \in ConnectionTypes
    OBVIOUS
  <1> HIDE DEF T
  <1>3. \A r, s, t \in ConnectionTypes :
            /\ ~TypeLess(r, r)
            /\ TypeLess(r, s) /\ TypeLess(s, t) => TypeLess(r, t)
            /\ ~TypeLess(r, s) /\ ~TypeLess(s, t) => ~TypeLess(r, t)
    BY TypeOrderIsConsistent DEF TypeOrderConsistent
  <1>4. /\ \A c \in P : ~Earlier(c, c)
        /\ \A c, d, e \in P : Earlier(c, d) /\ Earlier(d, e) => Earlier(c, e)
        /\ \A c, d \in P : c # d => Earlier(c, d) \/ Earlier(d, c)
    BY EarlierFacts
  <1>5. \A c \in P : <<c, c>> \notin R
    BY <1>1, <1>2, <1>3, <1>4
  <1>6. ASSUME NEW c \in P, NEW d \in P, NEW e \in P, <<c, d>> \in R, <<d, e>> \in R
        PROVE  <<c, e>> \in R
    BY <1>1, <1>2, <1>3, <1>4, <1>6
  <1>7. \A c, d \in P : c # d => <<c, d>> \in R \/ <<d, c>> \in R
    BY <1>1, <1>4
  <1>8. OrderOn(P, R)
    BY <1>5, <1>6, <1>7 DEF OrderOn
  <1> QED BY <1>8 DEF R

\* A candidate of threadFinalConnect is an address with a protocol, by their places.
Chosen(final1, list, types, chosen) ==
    /\ DOMAIN final1 = DOMAIN chosen
    /\ chosen \in Seq(Pairs(list, types))
    /\ \A k \in DOMAIN chosen : final1[k] = Candidate(list[chosen[k][1]], types[chosen[k][2]])
    /\ \A i, j \in DOMAIN chosen : i < j => TypeEarlier(types, chosen[i], chosen[j])

LEMMA FinalAddrsFacts ==
    ASSUME NEW A, NEW T, NEW list \in Seq(A), NEW types \in Seq(T)
    PROVE  \E chosen : Chosen(FinalAddrs(list, types), list, types, chosen)
  <1> DEFINE P == Pairs(list, types)
             R == {o \in P \X P : TypeEarlier(types, o[1], o[2])}
             n == Cardinality(P)
             f == InOrder(P, LAMBDA c, d : TypeEarlier(types, c, d))
  <1> HIDE DEF f
  <1>1. P \in SUBSET (Int \X Int) /\ \A c \in P : types[c[2]].type \in ConnectionTypes
    BY DEF Pairs
  <1>2. IsFiniteSet(P)
    <2>1. /\ DOMAIN list = 1..Len(list) /\ DOMAIN types = 1..Len(types)
          /\ 1 \in Int /\ Len(list) \in Int /\ Len(types) \in Int
      OBVIOUS
    <2>2. IsFiniteSet(DOMAIN list) /\ IsFiniteSet(DOMAIN types)
      BY <2>1, FS_Interval
    <2>3. IsFiniteSet((DOMAIN list) \X (DOMAIN types))
      BY <2>2, FS_Product
    <2>4. P \in SUBSET ((DOMAIN list) \X (DOMAIN types))
      BY DEF Pairs
    <2> QED BY <2>3, <2>4, FS_Subset
  <1> HIDE DEF P
  <1>3. OrderOn(P, R)
    BY <1>1, TypeEarlierOrders
  <1>4. \A x \in P : {y \in P : TypeEarlier(types, y, x)} = Below(P, R, x)
    BY DEF Below
  <1>5. \A c, d \in P : <<c, d>> \in R <=> TypeEarlier(types, c, d)
    OBVIOUS
  <1> HIDE DEF R
  <1>6. n \in Nat /\ \A k \in 1..n : \E x \in P : Cardinality({y \in P : TypeEarlier(types, y, x)}) = k - 1
    <2>1. /\ n \in Nat
          /\ \A k \in 1..n : \E x \in P : Cardinality(Below(P, R, x)) = k - 1
      BY <1>2, <1>3, RankFacts
    <2> HIDE DEF n
    <2> QED BY <1>4, <2>1
  <1>7. f = [k \in 1..n |-> CHOOSE x \in P : Cardinality({y \in P : TypeEarlier(types, y, x)}) = k - 1]
    BY Zenon DEF f, InOrder
  <1>8. ASSUME NEW k \in 1..n
        PROVE  f[k] \in P /\ Cardinality(Below(P, R, f[k])) = k - 1
    <2>1. f[k] = CHOOSE x \in P : Cardinality({y \in P : TypeEarlier(types, y, x)}) = k - 1
      BY <1>7
    <2>2. f[k] \in P /\ Cardinality({y \in P : TypeEarlier(types, y, f[k])}) = k - 1
      BY <1>6, <2>1, Zenon
    <2> QED BY <1>4, <2>2
  <1>9. DOMAIN f = 1..n /\ f \in [1..n -> P]
    BY <1>7, <1>8, Zenon
  <1>10. FinalAddrs(list, types) = [k \in DOMAIN f |-> Candidate(list[f[k][1]], types[f[k][2]])]
    BY Zenon DEF FinalAddrs, f, P
  <1>11. Lists(f, P, R)
    <2>1. Ranked(f, P, R)
      BY <1>8, <1>9 DEF Ranked
    <2> QED BY <1>2, <1>3, <2>1, InOrderFacts
  <1>12. /\ DOMAIN FinalAddrs(list, types) = DOMAIN f
         /\ \A k \in DOMAIN f : FinalAddrs(list, types)[k] = Candidate(list[f[k][1]], types[f[k][2]])
    BY <1>10
  <1>13. f \in Seq(P) /\ \A i, j \in DOMAIN f : i < j => <<f[i], f[j]>> \in R
    BY <1>11 DEF Lists
  <1>14. \A i \in DOMAIN f : f[i] \in P
    BY <1>13
  <1>15. \A i, j \in DOMAIN f : i < j => TypeEarlier(types, f[i], f[j])
    BY <1>5, <1>13, <1>14
  <1>16. Chosen(FinalAddrs(list, types), list, types, f)
    BY <1>12, <1>13, <1>15 DEF Chosen, P
  <1> QED BY <1>16

--------------------------------------------------------------------------------
(* The inductive invariant of a lookup *)

Ips == {"A", "AAAA"}

\* What a call of queryA or queryAAAA can come to: a record that has addresses is its only
\* good outcome.
Outcome(c) == c = Error \/ c = Waiting \/ (c = Ok(c.value) /\ c.value # {})

TypeInv ==
    /\ enabled \subseteq Ips
    /\ DOMAIN call = RecordTypes

\* A record of addresses is only remembered if it has one.
CacheInv == \A k \in DOMAIN cache : k.rtype # "SRV" => cache[k] # {}

\* While and after fetchIps waits, the families that are enabled have been asked, and those only.
CallInv ==
    phase \in {"ips", "notfound"} =>
        \A t \in Ips : IF t \in enabled THEN Outcome(call[t]) ELSE call[t] = Off

\* Only a name is looked up.
UrlInv == phase \in {"srv", "ips"} => url.kind = "domain"

\* TLS is told the name of this attempt, and none if the URL has an address.
HostnameRight ==
    Addressed =>
        /\ url.kind = "ip" => connectHostname = NoName
        /\ url.kind = "domain" => connectHostname = url.host

IInv == TypeInv /\ CacheInv /\ CallInv /\ UrlInv /\ HostnameRight /\ OneFamilySuffices

--------------------------------------------------------------------------------
(* Facts about the operators *)

\* parseQuery returns no empty list of addresses.
LEMMA ParsedHasAddress ==
    ASSUME NEW key, key.rtype # "SRV", NEW value \in ParseQuery(key)
    PROVE  value # {}
  BY DEF ParseQuery

LEMMA OkFacts ==
    ASSUME NEW v
    PROVE  Ok(v).value = v /\ Ok(v).ok = TRUE /\ Ok(v) = Ok(Ok(v).value)
  BY DEF Ok

\* A lookup that begins: a record with addresses, an error at once, or a wait.
LEMMA StartedFacts ==
    ASSUME CacheInv, NEW t \in Ips, NEW name, NEW c \in Started(IpKey(t, name))
    PROVE  Outcome(c)
  <1> DEFINE key == IpKey(t, name)
  <1>1. key.rtype = t /\ key.rtype # "SRV"
    BY DEF IpKey, Ips
  <1> HIDE DEF key
  <1>2. \A v \in Cached(key) : v # {}
    <2> SUFFICES ASSUME NEW v \in Cached(key)
                 PROVE  v # {}
      OBVIOUS
    <2>1. CASE key.name = "localhost" /\ key.rtype # "SRV"
      BY <2>1 DEF Cached
    <2>2. CASE ~(key.name = "localhost" /\ key.rtype # "SRV")
      BY <2>2, <1>1 DEF Cached, CacheInv
    <2> QED BY <2>1, <2>2
  <1>3. c \in {Ok(v) : v \in Cached(key)} \/ c = Error \/ c = Waiting
    BY DEF Started, key
  <1>4. ASSUME NEW v \in Cached(key), c = Ok(v)
        PROVE  Outcome(c)
    BY <1>2, <1>4, OkFacts DEF Outcome
  <1> QED BY <1>3, <1>4 DEF Outcome

\* fetchIps: the enabled families are asked.
LEMMA FetchIpsFacts ==
    ASSUME CacheInv, NEW srv, NEW name, NEW itsPort, FetchIps(srv, name, itsPort)
    PROVE  /\ phase' = "ips"
           /\ DOMAIN call' = RecordTypes
           /\ \A t \in Ips : IF t \in enabled' THEN Outcome(call'[t]) ELSE call'[t] = Off
  <1>1. phase' = "ips"
    BY DEF FetchIps, NotYet
  <1>2. PICK a \in IF "A" \in enabled' THEN Started(IpKey("A", name)) ELSE {Off},
             aaaa \in IF "AAAA" \in enabled' THEN Started(IpKey("AAAA", name)) ELSE {Off} :
          call' = [t \in RecordTypes |-> CASE t = "SRV" -> srv [] t = "A" -> a [] t = "AAAA" -> aaaa]
    BY DEF FetchIps
  <1>3. DOMAIN call' = RecordTypes /\ call'["A"] = a /\ call'["AAAA"] = aaaa
    BY <1>2 DEF RecordTypes
  <1>4. IF "A" \in enabled' THEN Outcome(a) ELSE a = Off
    BY <1>2, StartedFacts DEF Ips
  <1>5. IF "AAAA" \in enabled' THEN Outcome(aaaa) ELSE aaaa = Off
    BY <1>2, StartedFacts DEF Ips
  <1> QED BY <1>1, <1>3, <1>4, <1>5 DEF Ips

LEMMA WithIpsFacts ==
    ASSUME NEW set, ThreadConnectWithIps(set)
    PROVE  phase' \in {"pinging", "connecting"}
  BY DEF ThreadConnectWithIps, ThreadPingCandidates, ThreadFinalConnect

\* An answer that reaches its call, or does not.
LEMMA DeliverFacts ==
    ASSUME TypeInv, CallInv, NEW q, NEW result, q.key.rtype # "SRV" => Outcome(result),
           call' = Deliver(q, result), UNCHANGED <<phase, enabled>>
    PROVE  /\ DOMAIN call' = RecordTypes
           /\ CallInv'
           /\ phase = "notfound" => call' = call
  <1>1. CASE call' = call
    BY <1>1 DEF TypeInv, CallInv
  <1>2. CASE /\ phase \in {"srv", "ips"} /\ call[q.key.rtype] = Waiting
             /\ call' = [call EXCEPT ![q.key.rtype] = result]
    <2>1. DOMAIN call' = RecordTypes
      BY <1>2 DEF TypeInv
    <2>2. \A t \in RecordTypes : call'[t] = IF t = q.key.rtype THEN result ELSE call[t]
      BY <1>2 DEF TypeInv
    <2>3. ASSUME phase = "ips", NEW t \in Ips
          PROVE  IF t \in enabled THEN Outcome(call'[t]) ELSE call'[t] = Off
      <3>1. t \in RecordTypes /\ t # "SRV"
        BY DEF Ips, RecordTypes
      <3>2. IF t \in enabled THEN Outcome(call[t]) ELSE call[t] = Off
        BY <2>3 DEF CallInv
      <3>3. CASE t # q.key.rtype
        BY <2>2, <3>1, <3>2, <3>3
      <3>4. CASE t = q.key.rtype
        <4>1. Waiting # Off
          <5>1. "off" \in DOMAIN Off /\ "off" \notin DOMAIN Waiting
            BY DEF Off, Waiting
          <5> QED BY <5>1
        <4>2. t \in enabled
          BY <1>2, <3>2, <3>4, <4>1
        <4> QED BY <2>2, <3>1, <3>4, <4>2
      <3> QED BY <3>3, <3>4
    <2> QED BY <1>2, <2>1, <2>3 DEF CallInv
  <1> QED BY <1>1, <1>2 DEF Deliver

--------------------------------------------------------------------------------
(* The steps *)

\* UrlParser::parse says what the URL names, or that it is bad.
LEMMA ParseFacts ==
    ASSUME NEW raw \in Urls
    PROVE  Parse(raw).kind \in {"bad", "ip", "domain"}
  BY DEF Parse

LEMMA ConnectStep ==
    ASSUME IInv, NEW raw \in Urls, NEW families \in Families, ThreadConnect(raw, families)
    PROVE  IInv'
  <1>1. /\ url' = Parse(raw) /\ enabled' = families /\ cache' = cache
    BY DEF ThreadConnect
  <1>2. enabled' \subseteq Ips
    BY <1>1, NameLookupAssumption DEF Ips
  <1>3. url'.kind \in {"bad", "ip", "domain"}
    BY <1>1, ParseFacts
  <1>4. CacheInv /\ CacheInv'
    BY <1>1 DEF IInv, CacheInv
  <1>5. CASE url'.kind = "bad"
    <2>1. phase' = "invalid" /\ call' = [t \in RecordTypes |-> Off]
      BY <1>5 DEF ThreadConnect, NotYet
    <2> QED BY <1>2, <1>4, <2>1
            DEF IInv, TypeInv, CallInv, UrlInv, HostnameRight, OneFamilySuffices, Addressed
  <1>6. CASE url'.kind = "ip"
    <2>1. ThreadConnectIp(url')
      BY <1>6 DEF ThreadConnect
    <2>2. connectHostname' = NoName /\ call' = [t \in RecordTypes |-> Off]
      BY <2>1 DEF ThreadConnectIp
    <2>3. phase' \in {"pinging", "connecting"}
      BY <2>1, WithIpsFacts DEF ThreadConnectIp
    <2> QED BY <1>2, <1>4, <1>6, <2>2, <2>3
            DEF IInv, TypeInv, CallInv, UrlInv, HostnameRight, OneFamilySuffices, Addressed
  <1>7. CASE url'.kind = "domain"
    <2>1. ThreadConnectDomain(url')
      BY <1>7 DEF ThreadConnect
    <2>2. CASE url'.port # NoPort
      <3>1. FetchIps(Off, url'.host, url'.port)
        BY <2>1, <2>2 DEF ThreadConnectDomain
      <3>2. /\ phase' = "ips"
            /\ DOMAIN call' = RecordTypes
            /\ \A t \in Ips : IF t \in enabled' THEN Outcome(call'[t]) ELSE call'[t] = Off
        BY <1>4, <3>1, FetchIpsFacts
      <3> QED BY <1>2, <1>4, <1>7, <3>2
              DEF IInv, TypeInv, CallInv, UrlInv, HostnameRight, OneFamilySuffices, Addressed
    <2>3. CASE ~(url'.port # NoPort)
      <3>1. phase' = "srv"
        BY <2>1, <2>3 DEF ThreadConnectDomain, NotYet
      <3>2. DOMAIN call' = RecordTypes
        BY <2>1, <2>3 DEF ThreadConnectDomain
      <3> QED BY <1>2, <1>4, <1>7, <3>1, <3>2
              DEF IInv, TypeInv, CallInv, UrlInv, HostnameRight, OneFamilySuffices, Addressed
    <2> QED BY <2>2, <2>3
  <1> QED BY <1>3, <1>5, <1>6, <1>7

LEMMA SrvStep ==
    ASSUME IInv, SrvDone
    PROVE  IInv'
  <1>1. /\ phase = "srv" /\ url' = url /\ enabled' = enabled /\ cache' = cache
    BY DEF SrvDone
  <1>2. \E srv, name, itsPort : FetchIps(srv, name, itsPort)
    <2>1. CASE call["SRV"].ok
      BY <2>1, Zenon DEF SrvDone
    <2>2. CASE ~call["SRV"].ok
      BY <2>2, Zenon DEF SrvDone
    <2> QED BY <2>1, <2>2
  <1>3. CacheInv /\ CacheInv'
    BY <1>1 DEF IInv, CacheInv
  <1>4. /\ phase' = "ips"
        /\ DOMAIN call' = RecordTypes
        /\ \A t \in Ips : IF t \in enabled' THEN Outcome(call'[t]) ELSE call'[t] = Off
    BY <1>2, <1>3, FetchIpsFacts
  <1>5. url'.kind = "domain" /\ enabled' \subseteq Ips
    BY <1>1 DEF IInv, UrlInv, TypeInv
  <1> QED BY <1>3, <1>4, <1>5
          DEF IInv, TypeInv, CallInv, UrlInv, HostnameRight, OneFamilySuffices, Addressed

\* Without an address, every family that was asked has failed.
LEMMA NothingFound ==
    ASSUME IInv, phase = "ips", \A t \in Ips : call[t] # Waiting, Found = {}
    PROVE  \A t \in enabled : call[t] = Error
  <1> SUFFICES ASSUME NEW t \in enabled, call[t] # Error
               PROVE  FALSE
    OBVIOUS
  <1>1. t \in Ips
    BY DEF IInv, TypeInv
  <1>2. call[t] = Ok(call[t].value) /\ call[t].value # {}
    BY <1>1 DEF IInv, CallInv, Outcome
  <1>3. call[t].ok = TRUE
    BY <1>2, OkFacts
  <1>4. PICK i : i \in call[t].value
    BY <1>2
  <1>5. [ip |-> i, v6 |-> t = "AAAA", port |-> port] \in Found
    BY <1>1, <1>3, <1>4 DEF Found, Ips
  <1> QED BY <1>5

LEMMA IpsStep ==
    ASSUME IInv, IpsDone
    PROVE  IInv'
  <1>1. /\ phase = "ips" /\ \A t \in Ips : call[t] # Waiting
        /\ url' = url /\ enabled' = enabled /\ cache' = cache /\ call' = call
    BY DEF IpsDone, Ips
  <1>2. TypeInv' /\ CacheInv'
    BY <1>1 DEF IInv, TypeInv, CacheInv
  <1>3. CASE Found = {}
    <2>1. phase' = "notfound"
      BY <1>3 DEF IpsDone, NotYet
    <2>2. \A t \in enabled : call[t] = Error
      BY <1>1, <1>3, NothingFound
    <2> QED BY <1>1, <1>2, <2>1, <2>2
            DEF IInv, CallInv, UrlInv, HostnameRight, OneFamilySuffices, Addressed
  <1>4. CASE Found # {}
    <2>1. connectHostname' = url.host /\ phase' \in {"pinging", "connecting"}
      BY <1>4, WithIpsFacts DEF IpsDone
    <2>2. url'.kind = "domain"
      BY <1>1 DEF IInv, UrlInv
    <2> QED BY <1>1, <1>2, <2>1, <2>2
            DEF IInv, CallInv, UrlInv, HostnameRight, OneFamilySuffices, Addressed
  <1> QED BY <1>3, <1>4

LEMMA CancelStep ==
    ASSUME IInv, ThreadCancelConnection
    PROVE  IInv'
  <1>1. /\ phase' = "idle" /\ call' = [t \in RecordTypes |-> Off]
        /\ enabled' = enabled /\ cache' = cache
    BY DEF ThreadCancelConnection, NotYet
  <1> QED BY <1>1 DEF IInv, TypeInv, CacheInv, CallInv, UrlInv, HostnameRight, OneFamilySuffices, Addressed

\* wrapSync gives up: that is an error of the call like any other.
LEMMA TimeoutStep ==
    ASSUME IInv, NEW t \in RecordTypes, Timeout(t)
    PROVE  IInv'
  <1>1. /\ phase \in {"srv", "ips"} /\ phase' = phase /\ call[t] = Waiting
        /\ call' = [call EXCEPT ![t] = Error]
        /\ url' = url /\ enabled' = enabled /\ cache' = cache
    BY DEF Timeout, pingVars
  <1>2. DOMAIN call' = RecordTypes
        /\ \A r \in RecordTypes : call'[r] = IF r = t THEN Error ELSE call[r]
    BY <1>1 DEF IInv, TypeInv
  <1>3. Waiting # Off
    <2>1. "off" \in DOMAIN Off /\ "off" \notin DOMAIN Waiting
      BY DEF Off, Waiting
    <2> QED BY <2>1
  <1>4. \A r \in Ips : r \in RecordTypes
    BY DEF Ips, RecordTypes
  <1>5. CallInv'
    BY <1>1, <1>2, <1>3, <1>4 DEF IInv, CallInv, Outcome
  <1> QED BY <1>1, <1>2, <1>5
          DEF IInv, TypeInv, CacheInv, UrlInv, HostnameRight, OneFamilySuffices, Addressed

\* An answer of c-ares, in time or too late.
LEMMA CallbackStep ==
    ASSUME IInv, QueryCallback
    PROVE  IInv'
  <1>1. /\ phase' = phase /\ url' = url /\ enabled' = enabled /\ connectHostname' = connectHostname
    BY DEF QueryCallback, pingVars
  <1>2. PICK q \in queries :
          \/ \E value \in ParseQuery(q.key) :
                /\ cache' = [k \in DOMAIN cache \cup {q.key} |-> IF k = q.key THEN value ELSE cache[k]]
                /\ call' = Deliver(q, Ok(value))
          \/ cache' = cache /\ call' = Deliver(q, Error)
    BY DEF QueryCallback
  <1>3. CacheInv' /\ \E result : /\ call' = Deliver(q, result)
                                 /\ q.key.rtype # "SRV" => Outcome(result)
    <2>1. CASE cache' = cache /\ call' = Deliver(q, Error)
      <3>1. Outcome(Error)
        BY DEF Outcome
      <3> QED BY <2>1, <3>1 DEF IInv, CacheInv
    <2>2. ASSUME NEW value \in ParseQuery(q.key),
                 cache' = [k \in DOMAIN cache \cup {q.key} |-> IF k = q.key THEN value ELSE cache[k]],
                 call' = Deliver(q, Ok(value))
          PROVE  CacheInv' /\ \E result : /\ call' = Deliver(q, result)
                                          /\ q.key.rtype # "SRV" => Outcome(result)
      <3>1. q.key.rtype # "SRV" => value # {}
        BY ParsedHasAddress
      <3>2. q.key.rtype # "SRV" => Outcome(Ok(value))
        BY <3>1, OkFacts DEF Outcome
      <3>3. CacheInv'
        BY <2>2, <3>1 DEF IInv, CacheInv
      <3> QED BY <2>2, <3>2, <3>3
    <2> QED BY <1>2, <2>1, <2>2
  <1>4. /\ DOMAIN call' = RecordTypes
        /\ CallInv'
        /\ phase = "notfound" => call' = call
    BY <1>1, <1>3, DeliverFacts DEF IInv
  <1> QED BY <1>1, <1>3, <1>4
          DEF IInv, TypeInv, UrlInv, HostnameRight, OneFamilySuffices, Addressed

LEMMA ExpireStep ==
    ASSUME IInv, CacheExpires
    PROVE  IInv'
  <1>1. /\ phase' = phase /\ url' = url /\ enabled' = enabled /\ call' = call
        /\ connectHostname' = connectHostname
    BY DEF CacheExpires, pingVars
  <1>2. CacheInv'
    BY DEF CacheExpires, IInv, CacheInv
  <1> QED BY <1>1, <1>2
          DEF IInv, TypeInv, CallInv, UrlInv, HostnameRight, OneFamilySuffices, Addressed

\* Pinging and trying the addresses is no lookup any more.
LEMMA PingStep ==
    ASSUME IInv, Ping
    PROVE  IInv'
  <1>1. /\ url' = url /\ enabled' = enabled /\ call' = call /\ cache' = cache
        /\ connectHostname' = connectHostname
    BY DEF Ping, lookupVars
  <1>2. /\ phase \in {"pinging", "collecting", "connecting"}
        /\ phase' \in {"pinging", "collecting", "connecting", "connected", "failed"}
    BY DEF Ping, PingNext, SendPings, CalledBack, TimePasses, Receive, FinishPinging, EndPinging, Try,
           TryFails, TrySucceeds
  <1> QED BY <1>1, <1>2
          DEF IInv, TypeInv, CacheInv, CallInv, UrlInv, HostnameRight, OneFamilySuffices, Addressed

--------------------------------------------------------------------------------
(* The theorems *)

\* The invariant of a lookup holds in every state.
THEOREM Invariance == Spec => []IInv
  <1>1. Init => IInv
    <2> SUFFICES ASSUME Init PROVE IInv
      OBVIOUS
    <2>1. phase = "idle" /\ enabled = {} /\ cache = <<>> /\ call = [t \in RecordTypes |-> Off]
      BY DEF Init, PingInit
    <2> QED BY <2>1
            DEF IInv, TypeInv, CacheInv, CallInv, UrlInv, HostnameRight, OneFamilySuffices, Addressed
  <1>2. IInv /\ [Next]_vars => IInv'
    <2> SUFFICES ASSUME IInv, [Next]_vars PROVE IInv'
      OBVIOUS
    <2>1. ASSUME NEW u \in Urls, NEW f \in Families, ThreadConnect(u, f) PROVE IInv'
      BY <2>1, ConnectStep
    <2>2. CASE SrvDone
      BY <2>2, SrvStep
    <2>3. CASE IpsDone
      BY <2>3, IpsStep
    <2>4. CASE ThreadCancelConnection
      BY <2>4, CancelStep
    <2>5. ASSUME NEW t \in RecordTypes, Timeout(t) PROVE IInv'
      BY <2>5, TimeoutStep
    <2>6. CASE QueryCallback
      BY <2>6, CallbackStep
    <2>7. CASE CacheExpires
      BY <2>7, ExpireStep
    <2>8. CASE Ping
      BY <2>8, PingStep
    <2>9. CASE UNCHANGED vars
      <3>1. /\ phase' = phase /\ url' = url /\ enabled' = enabled /\ call' = call
            /\ cache' = cache /\ connectHostname' = connectHostname
        BY <2>9 DEF vars, pingVars, lookupVars
      <3> QED BY <3>1
              DEF IInv, TypeInv, CacheInv, CallInv, UrlInv, HostnameRight, OneFamilySuffices, Addressed
    <2> QED BY <2>1, <2>2, <2>3, <2>4, <2>5, <2>6, <2>7, <2>8, <2>9 DEF Next
  <1> QED BY <1>1, <1>2, PTL DEF Spec

\* threadConnectDomain gives up for want of an address only if every enabled family failed: no answer
\* of one family, no answer to an earlier attempt and no empty record of the cache brings it about.
THEOREM OneFamilyIsEnough == Spec => []OneFamilySuffices
  <1>1. IInv => OneFamilySuffices
    BY DEF IInv
  <1> QED BY <1>1, Invariance, PTL

\* m_connConnectHostname is that of this attempt whenever an address is pinged or tried, although
\* it is left as it was until the addresses are known.
THEOREM HostnameOfThisAttempt == Spec => []HostnameRight
  <1>1. IInv => HostnameRight
    BY DEF IInv
  <1> QED BY <1>1, Invariance, PTL

--------------------------------------------------------------------------------
(* What the addresses belong to *)

\* What a lookup of a name finds.
Results(key) ==
    IF key.name = "localhost" /\ key.rtype # "SRV"
    THEN {IF key.rtype = "A" THEN {127} ELSE {1}}
    ELSE ParseQuery(key)

\* What is remembered is what was published.
CacheRight == \A k \in DOMAIN cache : cache[k] \in ParseQuery(k)

\* c-ares has queries of this attempt and of earlier ones.
QueriesRight == connects \in Nat /\ \A q \in queries : q.n \in Nat /\ q.n <= connects

\* During the first wait only the SRV record of this attempt has been asked for.
SrvRight ==
    phase = "srv" =>
        /\ url.port = NoPort
        /\ call["SRV"].ok => call["SRV"].value \in ParseQuery(SrvKey(url))
        /\ \A q \in queries : q.n = connects => q.key = SrvKey(url)

\* The lookups under way, and what they have found, are for one host and its port.
LooksUp(where) ==
    /\ port = where.port
    /\ \A t \in Ips : call[t].ok => call[t].value \in Results(IpKey(t, where.name))
    /\ \A q \in queries :
         q.n = connects /\ q.key.rtype \in Ips =>
             q.key = IpKey(q.key.rtype, where.name) /\ where.name # "localhost"

IpsRight == phase = "ips" => \E where \in Meant(url) : LooksUp(where)

Named ==
    \E where \in Meant(url), got \in SUBSET enabled :
        ToSet(addrs) = UNION {AddressesOf(family, where) : family \in got}

AddrsRight ==
    Addressed =>
        /\ url.kind = "ip" => Len(addrs) = 1 /\ addrs[1].ip = url.ip
        /\ url.kind = "domain" => Named

\* No two addresses are of one host.
HostsApart ==
    /\ addrs \in Seq(ToSet(addrs))
    /\ \A i, j \in DOMAIN addrs : SameHost(addrs[i], addrs[j]) => i = j

LookupInv == CacheRight /\ QueriesRight /\ SrvRight /\ IpsRight /\ AddrsRight /\ HostsApart

--------------------------------------------------------------------------------

\* The records of a type that are published under a name.
Records(key) ==
    {r \in IF key \in DOMAIN Published THEN ToSet(Published[key]) ELSE {} : r.type = key.rtype}

LEMMA RecordsFacts ==
    ASSUME NEW key
    PROVE  /\ IsFiniteSet(Records(key))
           /\ \A r \in Records(key) : /\ r.type = "SRV" => r.priority \in Nat /\ r.weight \in Nat
                                      /\ r.type \in Ips => r.ip \in Nat
  <1>1. CASE key \notin DOMAIN Published
    <2>1. Records(key) = {}
      BY <1>1 DEF Records
    <2> QED BY <2>1, FS_EmptySet
  <1>2. CASE key \in DOMAIN Published
    <2> DEFINE s == Published[key]
    <2>1. /\ DOMAIN s = 1..Len(s) /\ Len(s) \in Nat
          /\ \A i \in DOMAIN s : /\ s[i].type = "SRV" => s[i].priority \in Nat /\ s[i].weight \in Nat
                                 /\ s[i].type \in Ips => s[i].ip \in Nat
      BY <1>2, NameLookupAssumption DEF Ips
    <2> HIDE DEF s
    <2>2. Records(key) = {r \in ToSet(s) : r.type = key.rtype}
      BY <1>2 DEF Records, s
    <2>3. \A r \in Records(key) : \E i \in DOMAIN s : r = s[i]
      BY <2>2 DEF ToSet
    <2>4. IsFiniteSet(Records(key))
      <3>1. 1 \in Int /\ Len(s) \in Int
        BY <2>1
      <3>2. IsFiniteSet(DOMAIN s)
        BY <2>1, <3>1, FS_Interval
      <3>3. [i \in DOMAIN s |-> s[i]] \in Surjection(DOMAIN s, ToSet(s))
        BY DEF Surjection, ToSet
      <3>4. IsFiniteSet(ToSet(s))
        BY <3>2, <3>3, FS_Surjection
      <3>5. Records(key) \in SUBSET ToSet(s)
        BY <2>2
      <3> QED BY <3>4, <3>5, FS_Subset
    <2> QED BY <2>1, <2>3, <2>4
  <1> QED BY <1>1, <1>2

LEMMA ParseQueryRecords ==
    ASSUME NEW key
    PROVE  ParseQuery(key) = IF Records(key) = {} THEN {}
                             ELSE IF key.rtype # "SRV" THEN {{r.ip : r \in Records(key)}}
                             ELSE {e \in Records(key) : \A f \in Records(key) : ~SrvLess(f, e)}
  BY DEF ParseQuery, Records

\* A lookup of addresses finds finitely many, and always the same.
LEMMA ResultsFacts ==
    ASSUME NEW t \in Ips, NEW name, NEW value \in Results(IpKey(t, name))
    PROVE  /\ IsFiniteSet(value) /\ value \subseteq Nat
           /\ value = IF name = "localhost" THEN IF t = "A" THEN {127} ELSE {1}
                      ELSE UNION ParseQuery(IpKey(t, name))
  <1> DEFINE key == IpKey(t, name)
  <1>1. key.rtype = t /\ key.name = name /\ t # "SRV"
    BY DEF IpKey, Ips
  <1> HIDE DEF key
  <1>2. CASE name = "localhost"
    <2>1. value = IF t = "A" THEN {127} ELSE {1}
      BY <1>1, <1>2 DEF Results, key
    <2>2. IsFiniteSet(value)
      BY <2>1, FS_Singleton
    <2> QED BY <1>2, <2>1, <2>2
  <1>3. CASE name # "localhost"
    <2>1. value \in ParseQuery(key)
      BY <1>1, <1>3 DEF Results, key
    <2>2. value = {r.ip : r \in Records(key)} /\ ParseQuery(key) = {value}
      BY <1>1, <2>1, ParseQueryRecords
    <2>3. UNION ParseQuery(key) = value
      BY <2>2
    <2>4. IsFiniteSet(Records(key)) /\ \A r \in Records(key) : r.ip \in Nat
      <3>1. \A r \in Records(key) : r.type = t
        BY <1>1 DEF Records
      <3> QED BY <3>1, RecordsFacts
    <2>5. value \subseteq Nat
      BY <2>2, <2>4
    <2>6. IsFiniteSet(value)
      <3>1. [r \in Records(key) |-> r.ip] \in Surjection(Records(key), value)
        BY <2>2 DEF Surjection
      <3> QED BY <2>4, <3>1, FS_Surjection
    <2> QED BY <1>3, <2>3, <2>5, <2>6 DEF key
  <1> QED BY <1>2, <1>3

\* The endpoint that is used is one of those the name stands for.
LEMMA EndpointMeant ==
    ASSUME NEW u, u.port = NoPort, NEW e \in ParseQuery(SrvKey(u))
    PROVE  [name |-> e.target, port |-> IF e.port # 0 THEN e.port ELSE DefaultPort(u.type)] \in Meant(u)
  <1> DEFINE key == SrvKey(u)
             Endpoints == IF SrvKey(u) \in DOMAIN Published
                          THEN {r \in ToSet(Published[SrvKey(u)]) : r.type = "SRV"} ELSE {}
  <1>1. key.rtype = "SRV"
    BY DEF SrvKey
  <1>2. Endpoints = Records(key)
    BY <1>1 DEF Records
  <1> HIDE DEF key, Endpoints
  <1>3. e \in Records(key) /\ \A f \in Records(key) : ~SrvLess(f, e)
    BY <1>1, ParseQueryRecords DEF key
  <1>4. \A f \in Records(key) : f.priority \in Nat /\ f.weight \in Nat
    <2>1. \A f \in Records(key) : f.type = "SRV"
      BY <1>1 DEF Records
    <2> QED BY <2>1, RecordsFacts
  <1>5. \A f \in Records(key) : e.priority <= f.priority
    BY <1>3, <1>4 DEF SrvLess
  <1> QED BY <1>2, <1>3, <1>5 DEF Meant, Endpoints

\* The host itself is meant.
LEMMA HostMeant ==
    ASSUME NEW u
    PROVE  [name |-> u.host, port |-> IF u.port # NoPort THEN u.port ELSE DefaultPort(u.type)] \in Meant(u)
  BY DEF Meant

LEMMA NotOk == Off.ok = FALSE /\ Waiting.ok = FALSE /\ Error.ok = FALSE
  BY DEF Off, Waiting, Error

\* A lookup that begins with a record has the right one.
LEMMA StartedRight ==
    ASSUME CacheRight, NEW key, NEW c \in Started(key), c.ok
    PROVE  c.value \in Results(key)
  <1>1. CASE c \in {Ok(v) : v \in Cached(key)}
    <2>1. PICK v \in Cached(key) : c = Ok(v)
      BY <1>1
    <2>2. c.value = v
      BY <2>1, OkFacts
    <2>3. v \in Results(key)
      BY <2>1 DEF Cached, Results, CacheRight
    <2> QED BY <2>2, <2>3
  <1>2. CASE c = Error \/ c = Waiting
    BY <1>2, NotOk
  <1> QED BY <1>1, <1>2 DEF Started

\* Nobody is asked for the addresses of localhost.
LEMMA StartedWaits ==
    ASSUME NEW t \in Ips, NEW name, Waiting \in Started(IpKey(t, name))
    PROVE  name # "localhost"
  <1> SUFFICES ASSUME name = "localhost" PROVE FALSE
    OBVIOUS
  <1> DEFINE key == IpKey(t, name)
  <1>1. key.name = "localhost" /\ key.rtype # "SRV"
    BY DEF IpKey, Ips
  <1> HIDE DEF key
  <1>2. Cached(key) # {}
    BY <1>1 DEF Cached
  <1>3. PICK v : Waiting = Ok(v)
    BY <1>2 DEF Started, key
  <1> QED BY <1>3, NotOk, OkFacts

\* fetchIps asks for the host and the port it is given.
LEMMA FetchIpsRight ==
    ASSUME CacheRight, NEW srv, NEW name, NEW itsPort, FetchIps(srv, name, itsPort),
           \A q \in queries : q.n = connects' => q.key.rtype \notin Ips
    PROVE  /\ LooksUp([name |-> name, port |-> itsPort])'
           /\ \A q \in queries' : q \in queries \/ q.n = connects'
           /\ phase' = "ips" /\ addrs' = <<>>
  <1> DEFINE where == [name |-> name, port |-> itsPort]
  <1>1. phase' = "ips" /\ addrs' = <<>> /\ port' = itsPort
    BY DEF FetchIps, NotYet
  <1>2. PICK a \in IF "A" \in enabled' THEN Started(IpKey("A", name)) ELSE {Off},
             aaaa \in IF "AAAA" \in enabled' THEN Started(IpKey("AAAA", name)) ELSE {Off} :
          /\ call' = [t \in RecordTypes |-> CASE t = "SRV" -> srv [] t = "A" -> a [] t = "AAAA" -> aaaa]
          /\ queries' = queries \cup Asked({IpKey(t, name) : t \in {t \in {"A", "AAAA"} : call'[t] = Waiting}})
    BY DEF FetchIps
  <1>3. call'["A"] = a /\ call'["AAAA"] = aaaa
    BY <1>2 DEF RecordTypes
  <1>4. a.ok => a.value \in Results(IpKey("A", name))
    BY <1>2, StartedRight, NotOk
  <1>5. aaaa.ok => aaaa.value \in Results(IpKey("AAAA", name))
    BY <1>2, StartedRight, NotOk
  <1>6. \A t \in Ips : call'[t].ok => call'[t].value \in Results(IpKey(t, name))
    BY <1>3, <1>4, <1>5 DEF Ips
  <1>7. ASSUME NEW q \in queries', q \notin queries
        PROVE  q.n = connects' /\ \E t \in Ips : q.key = IpKey(t, name) /\ name # "localhost"
    <2>1. PICK t \in Ips : q = [n |-> connects', key |-> IpKey(t, name)] /\ call'[t] = Waiting
      BY <1>2, <1>7 DEF Asked, Ips
    <2>2. Waiting # Off
      <3>1. "off" \in DOMAIN Off /\ "off" \notin DOMAIN Waiting
        BY DEF Off, Waiting
      <3> QED BY <3>1
    <2>3. Waiting \in Started(IpKey(t, name))
      BY <1>2, <1>3, <2>1, <2>2 DEF Ips
    <2> QED BY <2>1, <2>3, StartedWaits
  <1>8. ASSUME NEW q \in queries', q.n = connects', q.key.rtype \in Ips
        PROVE  q.key = IpKey(q.key.rtype, name) /\ name # "localhost"
    <2>1. PICK t \in Ips : q.key = IpKey(t, name) /\ name # "localhost"
      BY <1>7, <1>8
    <2>2. q.key.rtype = t
      BY <2>1 DEF IpKey
    <2> QED BY <2>1, <2>2
  <1>9. where.name = name /\ where.port = itsPort
    OBVIOUS
  <1>10. LooksUp(where)'
    BY <1>1, <1>6, <1>8, <1>9 DEF LooksUp
  <1> QED BY <1>1, <1>7, <1>10

\* threadConnectWithIps hands all the addresses over.
LEMMA WithIpsRight ==
    ASSUME NEW p, NEW set \in SUBSET [ip : Nat, v6 : BOOLEAN, port : {p}], IsFiniteSet(set),
           ThreadConnectWithIps(set)
    PROVE  /\ ToSet(addrs') = set /\ Len(addrs') = Cardinality(set)
           /\ HostsApart'
  <1>1. addrs' = SortAddresses(set)
    BY DEF ThreadConnectWithIps, ThreadPingCandidates, ThreadFinalConnect
  <1>2. /\ addrs' \in Seq(set) /\ ToSet(addrs') = set /\ Len(addrs') = Cardinality(set)
        /\ \A i, j \in DOMAIN addrs' : addrs'[i] = addrs'[j] => i = j
    BY <1>1, SortAddressesFacts DEF IsInjective
  <1>3. ASSUME NEW i \in DOMAIN addrs', NEW j \in DOMAIN addrs', SameHost(addrs'[i], addrs'[j])
        PROVE  i = j
    <2>1. addrs'[i] \in [ip : Nat, v6 : BOOLEAN, port : {p}] /\ addrs'[j] \in [ip : Nat, v6 : BOOLEAN, port : {p}]
      BY <1>2
    <2>2. addrs'[i] = addrs'[j]
      BY <1>3, <2>1 DEF SameHost
    <2> QED BY <1>2, <2>2
  <1> QED BY <1>2, <1>3 DEF HostsApart

\* What fetchIps has found is what the host has, of the families that answered.
LEMMA FoundRight ==
    ASSUME IInv, phase = "ips", NEW where, LooksUp(where)
    PROVE  /\ Found \in SUBSET [ip : Nat, v6 : BOOLEAN, port : {port}]
           /\ IsFiniteSet(Found)
           /\ \E got \in SUBSET enabled : Found = UNION {AddressesOf(t, where) : t \in got}
  <1> DEFINE got == {t \in Ips : call[t].ok}
             F(t) == {[ip |-> i, v6 |-> t = "AAAA", port |-> port] : i \in call[t].value}
  <1>1. ASSUME NEW t \in got
        PROVE  IsFiniteSet(call[t].value) /\ call[t].value \subseteq Nat /\ F(t) = AddressesOf(t, where)
    <2>1. call[t].value \in Results(IpKey(t, where.name)) /\ port = where.port
      BY <1>1 DEF LooksUp
    <2>2. /\ IsFiniteSet(call[t].value) /\ call[t].value \subseteq Nat
          /\ call[t].value = IF where.name = "localhost" THEN IF t = "A" THEN {127} ELSE {1}
                             ELSE UNION ParseQuery(IpKey(t, where.name))
      BY <2>1, ResultsFacts
    <2>3. F(t) = AddressesOf(t, where)
      BY <2>1, <2>2, Zenon DEF AddressesOf
    <2> QED BY <2>2, <2>3
  <1>2. Found = UNION {F(t) : t \in got}
    BY DEF Found, Ips
  <1>3. got \subseteq enabled
    <2>1. \A t \in Ips : t \notin enabled => call[t] = Off
      BY DEF IInv, CallInv
    <2> QED BY <2>1, NotOk
  <1>4. ASSUME NEW t \in got
        PROVE  F(t) \in SUBSET [ip : Nat, v6 : BOOLEAN, port : {port}] /\ IsFiniteSet(F(t))
    <2>1. [i \in call[t].value |-> [ip |-> i, v6 |-> t = "AAAA", port |-> port]]
             \in Surjection(call[t].value, F(t))
      BY DEF Surjection
    <2>2. IsFiniteSet(F(t))
      BY <1>1, <2>1, FS_Surjection
    <2>3. ASSUME NEW x \in F(t)
          PROVE  x \in [ip : Nat, v6 : BOOLEAN, port : {port}]
      <3>1. PICK i \in call[t].value : x = [ip |-> i, v6 |-> t = "AAAA", port |-> port]
        BY <2>3
      <3>2. i \in Nat /\ (t = "AAAA") \in BOOLEAN
        BY <1>1, <3>1
      <3> QED BY <3>1, <3>2
    <2> QED BY <2>2, <2>3
  <1> HIDE DEF F
  <1>5. Found \in SUBSET [ip : Nat, v6 : BOOLEAN, port : {port}]
    BY <1>2, <1>4
  <1>6. IsFiniteSet(Found)
    <2> DEFINE G(t) == IF t \in got THEN F(t) ELSE {}
    <2>1. IsFiniteSet(G("A")) /\ IsFiniteSet(G("AAAA"))
      BY <1>4, FS_EmptySet
    <2>2. Found = G("A") \cup G("AAAA")
      BY <1>2 DEF Ips
    <2> HIDE DEF G
    <2> QED BY <2>1, <2>2, FS_Union
  <1>7. Found = UNION {AddressesOf(t, where) : t \in got}
    BY <1>1, <1>2
  <1> HIDE DEF got
  <1> QED BY <1>3, <1>5, <1>6, <1>7

--------------------------------------------------------------------------------

\* Without a lookup under way there is nothing to keep about it.
LEMMA NoLookup ==
    ASSUME CacheRight', QueriesRight', phase' \notin {"srv", "ips"}, ~Addressed', addrs' = <<>>
    PROVE  LookupInv'
  <1>1. HostsApart'
    BY DEF HostsApart
  <1> QED BY <1>1 DEF LookupInv, SrvRight, IpsRight, AddrsRight

LEMMA ConnectRight ==
    ASSUME IInv, LookupInv, NEW raw \in Urls, NEW families \in Families, ThreadConnect(raw, families)
    PROVE  LookupInv'
  <1>1. /\ url' = Parse(raw) /\ cache' = cache /\ connects' = connects + 1
    BY DEF ThreadConnect
  <1>2. CacheRight /\ CacheRight'
    BY <1>1 DEF LookupInv, CacheRight
  <1>3. /\ connects \in Nat /\ connects' \in Nat
        /\ \A q \in queries : q.n \in Nat /\ q.n <= connects' /\ q.n # connects'
    BY <1>1 DEF LookupInv, QueriesRight
  <1>4. url'.kind \in {"bad", "ip", "domain"}
    BY <1>1, ParseFacts
  <1>5. CASE url'.kind = "bad"
    <2>1. phase' = "invalid" /\ addrs' = <<>> /\ queries' = queries
      BY <1>5 DEF ThreadConnect, NotYet
    <2>2. QueriesRight'
      BY <1>3, <2>1 DEF QueriesRight
    <2> QED BY <1>2, <2>1, <2>2, NoLookup DEF Addressed
  <1>6. CASE url'.kind = "ip"
    <2> DEFINE a == [ip |-> url'.ip, v6 |-> url'.v6, port |-> port']
    <2>1. ThreadConnectIp(url')
      BY <1>6 DEF ThreadConnect
    <2>2. queries' = queries /\ ThreadConnectWithIps({a})
      BY <2>1 DEF ThreadConnectIp
    <2>3. url'.ip \in Nat /\ url'.v6 \in BOOLEAN
      BY <1>1, <1>6, NameLookupAssumption DEF Parse
    <2>4. {a} \in SUBSET [ip : Nat, v6 : BOOLEAN, port : {port'}]
      BY <2>3
    <2>5. a.ip = url'.ip
      OBVIOUS
    <2> HIDE DEF a
    <2>6. IsFiniteSet({a}) /\ Cardinality({a}) = 1
      BY FS_Singleton
    <2>7. ToSet(addrs') = {a} /\ Len(addrs') = 1 /\ HostsApart'
      BY <2>2, <2>4, <2>6, WithIpsRight
    <2>8. phase' \in {"pinging", "connecting"}
      BY <2>2, WithIpsFacts
    <2>9. addrs'[1] = a
      <3>1. DOMAIN addrs' = 1..1
        BY <2>7 DEF HostsApart
      <3>2. 1 \in DOMAIN addrs'
        BY <3>1
      <3>3. addrs'[1] \in ToSet(addrs')
        BY <3>2 DEF ToSet
      <3> QED BY <2>7, <3>3
    <2>10. QueriesRight'
      BY <1>3, <2>2 DEF QueriesRight
    <2> QED BY <1>2, <1>6, <2>5, <2>7, <2>8, <2>9, <2>10
            DEF LookupInv, SrvRight, IpsRight, AddrsRight
  <1>7. CASE url'.kind = "domain"
    <2>1. ThreadConnectDomain(url')
      BY <1>7 DEF ThreadConnect
    <2>2. CASE url'.port # NoPort
      <3>1. FetchIps(Off, url'.host, url'.port)
        BY <2>1, <2>2 DEF ThreadConnectDomain
      <3>0. PICK host, p, where : host = url'.host /\ p = url'.port /\ where = [name |-> host, port |-> p]
        OBVIOUS
      <3>2. /\ LooksUp([name |-> host, port |-> p])'
            /\ \A q \in queries' : q \in queries \/ q.n = connects'
            /\ phase' = "ips" /\ addrs' = <<>>
        BY <1>2, <1>3, <3>0, <3>1, FetchIpsRight
      <3>3. where \in Meant(url')
        BY <2>2, <3>0, HostMeant
      <3>4. IpsRight'
        BY <3>0, <3>2, <3>3 DEF IpsRight
      <3>5. QueriesRight' /\ HostsApart'
        BY <1>3, <3>2 DEF QueriesRight, HostsApart
      <3> QED BY <1>2, <3>2, <3>4, <3>5 DEF LookupInv, SrvRight, AddrsRight, Addressed
    <2>3. CASE url'.port = NoPort
      <3>1. PICK srv \in Started(SrvKey(url')) :
              /\ call' = [t \in RecordTypes |-> IF t = "SRV" THEN srv ELSE Off]
              /\ queries' = queries \cup Asked(IF srv = Waiting THEN {SrvKey(url')} ELSE {})
        BY <2>1, <2>3 DEF ThreadConnectDomain
      <3>2. phase' = "srv" /\ addrs' = <<>>
        BY <2>1, <2>3 DEF ThreadConnectDomain, NotYet
      <3>3. call'["SRV"] = srv
        BY <3>1 DEF RecordTypes
      <3>4. srv.ok => srv.value \in ParseQuery(SrvKey(url'))
        <4>1. SrvKey(url').rtype = "SRV"
          BY DEF SrvKey
        <4>2. Results(SrvKey(url')) = ParseQuery(SrvKey(url'))
          BY <4>1 DEF Results
        <4> QED BY <1>2, <3>1, <4>2, StartedRight
      <3>5. ASSUME NEW q \in queries', q \notin queries
            PROVE  q.n = connects' /\ q.key = SrvKey(url')
        BY <3>1, <3>5 DEF Asked
      <3>6. SrvRight'
        BY <1>3, <2>3, <3>3, <3>4, <3>5 DEF SrvRight
      <3>7. QueriesRight' /\ HostsApart'
        BY <1>3, <3>2, <3>5 DEF QueriesRight, HostsApart
      <3> QED BY <1>2, <3>2, <3>6, <3>7 DEF LookupInv, IpsRight, AddrsRight, Addressed
    <2> QED BY <2>2, <2>3
  <1> QED BY <1>4, <1>5, <1>6, <1>7

LEMMA SrvDoneRight ==
    ASSUME IInv, LookupInv, SrvDone
    PROVE  LookupInv'
  <1>1. /\ phase = "srv" /\ url' = url /\ cache' = cache /\ connects' = connects
    BY DEF SrvDone
  <1>2. CacheRight /\ CacheRight'
    BY <1>1 DEF LookupInv, CacheRight
  <1>3. /\ connects \in Nat
        /\ \A q \in queries : q.n \in Nat /\ q.n <= connects
    BY DEF LookupInv, QueriesRight
  <1>4. \A q \in queries : q.n = connects' => q.key.rtype \notin Ips
    BY <1>1 DEF LookupInv, SrvRight, SrvKey, Ips
  <1>5. url.port = NoPort
    BY <1>1 DEF LookupInv, SrvRight
  <1>6. PICK where \in Meant(url) : \E srv : FetchIps(srv, where.name, where.port)
    <2> DEFINE w == [name |-> url.host, port |-> DefaultPort(url.type)]
    <2>1. CASE ~call["SRV"].ok
      <3>1. FetchIps(call["SRV"], url.host, DefaultPort(url.type))
        BY <2>1, Zenon DEF SrvDone
      <3>2. w \in Meant(url) /\ w.name = url.host /\ w.port = DefaultPort(url.type)
        BY <1>5, HostMeant
      <3> QED BY <3>1, <3>2
    <2>2. CASE call["SRV"].ok
      <3> DEFINE e == call["SRV"].value
                 v == [name |-> e.target, port |-> IF e.port # 0 THEN e.port ELSE DefaultPort(url.type)]
      <3>1. FetchIps(call["SRV"], e.target, IF e.port # 0 THEN e.port ELSE DefaultPort(url.type))
        BY <2>2, Zenon DEF SrvDone
      <3>2. e \in ParseQuery(SrvKey(url))
        BY <1>1, <2>2 DEF LookupInv, SrvRight
      <3>3. v \in Meant(url)
        BY <1>5, <3>2, EndpointMeant
      <3>4. v.name = e.target /\ v.port = IF e.port # 0 THEN e.port ELSE DefaultPort(url.type)
        OBVIOUS
      <3>5. FetchIps(call["SRV"], v.name, v.port)
        BY <3>1, <3>4, Zenon
      <3> HIDE DEF v
      <3> QED BY <3>3, <3>5
    <2> QED BY <2>1, <2>2
  <1> DEFINE host == [name |-> where.name, port |-> where.port]
  <1>7. /\ LooksUp(host)'
        /\ \A q \in queries' : q \in queries \/ q.n = connects'
        /\ phase' = "ips" /\ addrs' = <<>>
    <2>1. PICK srv : FetchIps(srv, where.name, where.port)
      BY <1>6
    <2> QED BY <1>2, <1>4, <2>1, FetchIpsRight
  <1>8. LooksUp(where)'
    BY <1>7 DEF LooksUp
  <1>9. IpsRight'
    BY <1>1, <1>6, <1>8 DEF IpsRight
  <1>10. QueriesRight' /\ HostsApart'
    BY <1>1, <1>3, <1>7 DEF QueriesRight, HostsApart
  <1> QED BY <1>2, <1>7, <1>9, <1>10 DEF LookupInv, SrvRight, AddrsRight, Addressed

LEMMA IpsDoneRight ==
    ASSUME IInv, LookupInv, IpsDone
    PROVE  LookupInv'
  <1>1. /\ phase = "ips" /\ url' = url /\ enabled' = enabled /\ cache' = cache
        /\ connects' = connects /\ queries' = queries /\ port' = port
    BY DEF IpsDone
  <1>2. CacheRight' /\ QueriesRight'
    BY <1>1 DEF LookupInv, CacheRight, QueriesRight
  <1>3. CASE Found = {}
    <2>1. phase' = "notfound" /\ addrs' = <<>>
      BY <1>3 DEF IpsDone, NotYet
    <2> QED BY <1>2, <2>1, NoLookup DEF Addressed
  <1>4. CASE Found # {}
    <2>1. PICK where \in Meant(url) : LooksUp(where)
      BY <1>1 DEF LookupInv, IpsRight
    <2>2. /\ Found \in SUBSET [ip : Nat, v6 : BOOLEAN, port : {port}] /\ IsFiniteSet(Found)
          /\ \E got \in SUBSET enabled : Found = UNION {AddressesOf(t, where) : t \in got}
      BY <1>1, <2>1, FoundRight
    <2>3. ThreadConnectWithIps(Found)
      BY <1>4 DEF IpsDone
    <2>4. ToSet(addrs') = Found /\ HostsApart'
      BY <2>2, <2>3, WithIpsRight
    <2>5. phase' \in {"pinging", "connecting"}
      BY <2>3, WithIpsFacts
    <2>6. url'.kind = "domain"
      BY <1>1 DEF IInv, UrlInv
    <2>7. Named'
      BY <1>1, <2>1, <2>2, <2>4, Zenon DEF Named
    <2> QED BY <1>2, <2>4, <2>5, <2>6, <2>7 DEF LookupInv, SrvRight, IpsRight, AddrsRight
  <1> QED BY <1>3, <1>4

LEMMA CancelRight ==
    ASSUME LookupInv, ThreadCancelConnection
    PROVE  LookupInv'
  <1>1. /\ phase' = "idle" /\ addrs' = <<>> /\ cache' = cache /\ queries' = queries
        /\ connects' = connects
    BY DEF ThreadCancelConnection, NotYet
  <1>2. CacheRight' /\ QueriesRight'
    BY <1>1 DEF LookupInv, CacheRight, QueriesRight
  <1> QED BY <1>1, <1>2, NoLookup DEF Addressed

\* A call gets its answer, an error, or nothing: what it has then is right if the answer is.
LEMMA AnswerRight ==
    ASSUME IInv, LookupInv, CacheRight', UNCHANGED <<phase, url, enabled, connects, port, addrs>>,
           queries' \subseteq queries, NEW key, NEW result, DOMAIN call' = RecordTypes,
           \A t \in RecordTypes : call'[t] = call[t] \/ (key.rtype = t /\ call'[t] = result),
           result.ok => \E q \in queries : /\ q.n = connects /\ q.key = key
                                           /\ result.value \in ParseQuery(key)
    PROVE  LookupInv'
  <1>1. QueriesRight' /\ AddrsRight' /\ HostsApart'
    BY DEF LookupInv, QueriesRight, AddrsRight, HostsApart, Addressed, Named
  <1>2. ASSUME phase = "srv"
        PROVE  SrvRight'
    <2>1. /\ url.port = NoPort
          /\ call["SRV"].ok => call["SRV"].value \in ParseQuery(SrvKey(url))
          /\ \A q \in queries : q.n = connects => q.key = SrvKey(url)
      BY <1>2 DEF LookupInv, SrvRight
    <2>2. call'["SRV"].ok => call'["SRV"].value \in ParseQuery(SrvKey(url))
      BY <2>1 DEF RecordTypes
    <2> QED BY <2>1, <2>2 DEF SrvRight
  <1>3. ASSUME phase = "ips"
        PROVE  IpsRight'
    <2>1. PICK where \in Meant(url) : LooksUp(where)
      BY <1>3 DEF LookupInv, IpsRight
    <2>2. ASSUME NEW t \in Ips, call'[t].ok
          PROVE  call'[t].value \in Results(IpKey(t, where.name))
      <3>1. t \in RecordTypes
        BY DEF Ips, RecordTypes
      <3>2. CASE call'[t] = call[t]
        BY <2>1, <2>2, <3>2 DEF LooksUp
      <3>3. CASE key.rtype = t /\ call'[t] = result
        <4>1. key = IpKey(t, where.name) /\ where.name # "localhost" /\ result.value \in ParseQuery(key)
          BY <2>1, <2>2, <3>3 DEF LooksUp
        <4>2. key.name = where.name
          BY <4>1 DEF IpKey
        <4>3. Results(key) = ParseQuery(key)
          BY <4>1, <4>2 DEF Results
        <4> QED BY <3>3, <4>1, <4>3
      <3> QED BY <3>1, <3>2, <3>3
    <2>3. LooksUp(where)'
      BY <2>1, <2>2 DEF LooksUp
    <2> QED BY <2>1, <2>3 DEF IpsRight
  <1> QED BY <1>1, <1>2, <1>3 DEF LookupInv, SrvRight, IpsRight

LEMMA TimeoutRight ==
    ASSUME IInv, LookupInv, NEW t \in RecordTypes, Timeout(t)
    PROVE  LookupInv'
  <1>1. /\ call' = [call EXCEPT ![t] = Error] /\ queries' = queries /\ cache' = cache
        /\ UNCHANGED <<phase, url, enabled, connects, port, addrs>>
    BY DEF Timeout, pingVars
  <1>2. DOMAIN call' = RecordTypes /\ \A r \in RecordTypes : call'[r] = call[r] \/ (t = r /\ call'[r] = Error)
    BY <1>1 DEF IInv, TypeInv
  <1>3. PICK key : key = [rtype |-> t]
    OBVIOUS
  <1>4. key.rtype = t
    BY <1>3
  <1>5. CacheRight' /\ ~Error.ok
    BY <1>1, NotOk DEF LookupInv, CacheRight
  <1> QED BY <1>1, <1>2, <1>4, <1>5, AnswerRight

LEMMA CallbackRight ==
    ASSUME IInv, LookupInv, QueryCallback
    PROVE  LookupInv'
  <1>1. UNCHANGED <<phase, url, enabled, connects, port, addrs>>
    BY DEF QueryCallback, pingVars
  <1>2. PICK q \in queries :
          /\ queries' = queries \ {q}
          /\ \/ \E value \in ParseQuery(q.key) :
                  /\ cache' = [k \in DOMAIN cache \cup {q.key} |-> IF k = q.key THEN value ELSE cache[k]]
                  /\ call' = Deliver(q, Ok(value))
             \/ cache' = cache /\ call' = Deliver(q, Error)
    BY DEF QueryCallback
  <1>3. PICK result : /\ call' = Deliver(q, result) /\ CacheRight'
                      /\ result.ok => result.value \in ParseQuery(q.key)
    <2>1. CASE cache' = cache /\ call' = Deliver(q, Error)
      BY <2>1, NotOk DEF LookupInv, CacheRight
    <2>2. ASSUME NEW value \in ParseQuery(q.key),
                 cache' = [k \in DOMAIN cache \cup {q.key} |-> IF k = q.key THEN value ELSE cache[k]],
                 call' = Deliver(q, Ok(value))
          PROVE  \E result : /\ call' = Deliver(q, result) /\ CacheRight'
                             /\ result.ok => result.value \in ParseQuery(q.key)
      <3>1. CacheRight'
        BY <2>2 DEF LookupInv, CacheRight
      <3>2. Ok(value).value \in ParseQuery(q.key)
        BY <2>2, OkFacts
      <3> QED BY <2>2, <3>1, <3>2
    <2> QED BY <1>2, <2>1, <2>2
  <1>4. DOMAIN call = RecordTypes
    BY DEF IInv, TypeInv
  <1>5. CASE q.n # connects
    <2>1. call' = call
      BY <1>3, <1>5 DEF Deliver
    <2>2. ~Error.ok
      BY NotOk
    <2> QED BY <1>1, <1>2, <1>3, <1>4, <2>1, <2>2, AnswerRight
  <1>6. CASE q.n = connects
    <2>1. /\ DOMAIN call' = RecordTypes
          /\ \A t \in RecordTypes : call'[t] = call[t] \/ (q.key.rtype = t /\ call'[t] = result)
      BY <1>3, <1>4 DEF Deliver
    <2>2. queries' \subseteq queries
      BY <1>2
    <2> QED BY <1>1, <1>2, <1>3, <1>6, <2>1, <2>2, AnswerRight
  <1> QED BY <1>5, <1>6

LEMMA ExpireRight ==
    ASSUME LookupInv, CacheExpires
    PROVE  LookupInv'
  <1>1. UNCHANGED <<phase, url, enabled, connects, port, addrs, call, queries>>
    BY DEF CacheExpires, pingVars
  <1>2. CacheRight'
    BY DEF CacheExpires, LookupInv, CacheRight
  <1> QED BY <1>1, <1>2 DEF LookupInv, QueriesRight, SrvRight, IpsRight, LooksUp, AddrsRight,
                            Addressed, Named, HostsApart

\* Pinging keeps the addresses.
LEMMA PingRight ==
    ASSUME LookupInv, Ping
    PROVE  LookupInv'
  <1>1. UNCHANGED <<url, enabled, connects, port, addrs, call, queries, cache>>
    BY DEF Ping, lookupVars, PingNext, SendPings, CalledBack, TimePasses, Receive, FinishPinging, EndPinging, Try,
           TryFails, TrySucceeds
  <1>2. /\ phase \in {"pinging", "collecting", "connecting"}
        /\ phase' \in {"pinging", "collecting", "connecting", "connected", "failed"}
    BY DEF Ping, PingNext, SendPings, CalledBack, TimePasses, Receive, FinishPinging, EndPinging, Try,
           TryFails, TrySucceeds
  <1>3. CacheRight' /\ QueriesRight' /\ HostsApart'
    BY <1>1 DEF LookupInv, CacheRight, QueriesRight, HostsApart
  <1>4. AddrsRight'
    BY <1>1, <1>2 DEF LookupInv, AddrsRight, Addressed, Named
  <1> QED BY <1>2, <1>3, <1>4 DEF LookupInv, SrvRight, IpsRight

--------------------------------------------------------------------------------
(* What the pings come to *)

Protocol == [type : STRING \ {"WebSocketTls"}, port : Nat]

PingTypeInv ==
    /\ pinged \subseteq ToSet(addrs)
    /\ channel \in Seq(ToSet(addrs) \X Replies)
    /\ pingResults \in Seq([addr : ToSet(addrs), time : Times])
    /\ protocols \in Seq(Protocol)

\* An address is waited for, answered or counted, and once.
ApartInv ==
    /\ \A i \in DOMAIN channel : channel[i][1] \notin pinged
    /\ \A i, j \in DOMAIN channel : channel[i][1] = channel[j][1] => i = j
    /\ \A i \in DOMAIN pingResults :
         /\ pingResults[i].addr \notin pinged
         /\ \A j \in DOMAIN channel : channel[j][1] # pingResults[i].addr
    /\ \A i, j \in DOMAIN pingResults : pingResults[i].addr = pingResults[j].addr => i = j

PingStart == phase = "pinging" => channel = <<>> /\ pingResults = <<>>

\* What is tried has an address of this attempt.
FromAddrs == \A k \in DOMAIN final : \E i \in DOMAIN addrs : SameHost(final[k].addr, addrs[i])

\* With answers, what is tried is what both sorts leave of them.
FinalInv ==
    Decided /\ pingResults # <<>> =>
        \E results \in SortedByPing(pingResults) : final = FinalAddrs(AddrsOf(results), protocols)

PingInv == PingTypeInv /\ ApartInv /\ PingStart /\ FromAddrs /\ FinalInv

\* Every candidate has an address of the list.
LEMMA FinalFromList ==
    ASSUME NEW A, NEW T, NEW list \in Seq(A), NEW types \in Seq(T), NEW k \in DOMAIN FinalAddrs(list, types)
    PROVE  \E i \in DOMAIN list : SameHost(FinalAddrs(list, types)[k].addr, list[i])
  <1>1. PICK chosen : Chosen(FinalAddrs(list, types), list, types, chosen)
    BY FinalAddrsFacts
  <1>2. k \in DOMAIN chosen /\ chosen \in Seq(Pairs(list, types))
        /\ FinalAddrs(list, types)[k] = Candidate(list[chosen[k][1]], types[chosen[k][2]])
    BY <1>1 DEF Chosen
  <1>3. chosen[k] \in Pairs(list, types)
    BY <1>2
  <1>4. chosen[k][1] \in DOMAIN list
    BY <1>3 DEF Pairs
  <1>5. SameHost(Candidate(list[chosen[k][1]], types[chosen[k][2]]).addr, list[chosen[k][1]])
    BY DEF SameHost, Candidate
  <1> QED BY <1>2, <1>4, <1>5

\* A result of std::sort is a sequence of the answers.
LEMMA SortedFacts ==
    ASSUME NEW S, NEW s \in Seq(S), NEW results \in SortedByPing(s)
    PROVE  /\ results \in Seq(S) /\ DOMAIN results = DOMAIN s
           /\ \A i \in DOMAIN s : \E j \in DOMAIN s : results[i] = s[j]
           /\ \A i, j \in DOMAIN s : i < j => ~PingLess(Key(results[j]), Key(results[i]))
  <1>1. PICK p \in [DOMAIN s -> DOMAIN s] :
          /\ \A i, j \in DOMAIN s : i < j => ~PingLess(Key(s[p[j]]), Key(s[p[i]]))
          /\ results = [i \in DOMAIN s |-> s[p[i]]]
    BY DEF SortedByPing
  <1>2. DOMAIN results = DOMAIN s /\ \A i \in DOMAIN s : results[i] = s[p[i]] /\ p[i] \in DOMAIN s
    BY <1>1
  <1>3. results \in Seq(S)
    <2>1. DOMAIN s = 1..Len(s) /\ Len(s) \in Nat /\ \A i \in DOMAIN s : s[i] \in S
      OBVIOUS
    <2>2. results \in [1..Len(s) -> S]
      BY <1>1, <2>1
    <2> QED BY <2>1, <2>2, FunctionIsSeq
  <1> QED BY <1>1, <1>2, <1>3

LEMMA SeqElements ==
    ASSUME NEW S, NEW s \in Seq(S)
    PROVE  DOMAIN s = 1..Len(s) /\ Len(s) \in Nat /\ \A i \in DOMAIN s : s[i] \in S
  OBVIOUS

LEMMA AddrsOfFacts ==
    ASSUME NEW A, NEW B, NEW s \in Seq([addr : A, time : B])
    PROVE  /\ AddrsOf(s) \in Seq(A) /\ DOMAIN AddrsOf(s) = DOMAIN s
           /\ \A i \in DOMAIN s : AddrsOf(s)[i] = s[i].addr
  <1>1. DOMAIN s = 1..Len(s) /\ Len(s) \in Nat /\ \A i \in DOMAIN s : s[i] \in [addr : A, time : B]
    BY SeqElements
  <1>2. \A i \in DOMAIN s : s[i].addr \in A
    BY <1>1
  <1>3. AddrsOf(s) \in [1..Len(s) -> A]
    BY <1>1, <1>2 DEF AddrsOf
  <1>4. AddrsOf(s) \in Seq(A)
    BY <1>1, <1>3, FunctionIsSeq
  <1> QED BY <1>4 DEF AddrsOf

--------------------------------------------------------------------------------

\* A coroutine that begins has no answers.
LEMMA NotYetPings ==
    ASSUME NEW p, NotYet(p)
    PROVE  PingInv'
  <1>1. addrs' = <<>> /\ final' = <<>> /\ NoPings
    BY DEF NotYet
  <1>2. PingTypeInv' /\ ApartInv' /\ PingStart' /\ FromAddrs' /\ FinalInv'
    BY <1>1 DEF NoPings, PingTypeInv, ApartInv, PingStart, FromAddrs, FinalInv
  <1> QED BY <1>2 DEF PingInv

LEMMA WithIpsPings ==
    ASSUME NEW set, ThreadConnectWithIps(set), HostsApart'
    PROVE  PingInv'
  <1>1. NoPings
    BY DEF ThreadConnectWithIps, ThreadPingCandidates, ThreadFinalConnect
  <1>2. PingTypeInv' /\ ApartInv' /\ PingStart' /\ FinalInv'
    BY <1>1 DEF NoPings, PingTypeInv, ApartInv, PingStart, FinalInv
  <1>3. CASE final' = <<>>
    BY <1>2, <1>3 DEF PingInv, FromAddrs
  <1>4. CASE final' # <<>>
    <2>1. PICK types : final' = FinalAddrs(addrs', types) /\ types \in Seq({types[1]})
      <3>1. final' = FinalAddrs(addrs', <<[type |-> url'.type, port |-> NoPort]>>)
        BY <1>4 DEF ThreadConnectWithIps, ThreadPingCandidates, ThreadFinalConnect
      <3>2. PICK t : t = [type |-> url'.type, port |-> NoPort]
        OBVIOUS
      <3>3. <<t>> \in Seq({<<t>>[1]})
        OBVIOUS
      <3> QED BY <3>1, <3>2, <3>3
    <2>2. addrs' \in Seq(ToSet(addrs'))
      BY DEF HostsApart
    <2>3. FromAddrs'
      BY <2>1, <2>2, FinalFromList DEF FromAddrs
    <2> QED BY <1>2, <2>3 DEF PingInv
  <1> QED BY <1>3, <1>4

\* The lookups begin and end without pings.
LEMMA LookupPings ==
    ASSUME PingInv, HostsApart',
           \/ \E u \in Urls, f \in Families : ThreadConnect(u, f)
           \/ SrvDone \/ IpsDone \/ ThreadCancelConnection
           \/ \E t \in RecordTypes : Timeout(t)
           \/ QueryCallback \/ CacheExpires
    PROVE  PingInv'
  <1>1. \/ UNCHANGED pingVars
        \/ \E p : NotYet(p)
        \/ \E set : ThreadConnectWithIps(set)
    <2>1. ASSUME NEW u \in Urls, NEW f \in Families, ThreadConnect(u, f)
          PROVE  (\E p : NotYet(p)) \/ (\E set : ThreadConnectWithIps(set))
      <3>1. CASE url'.kind = "bad"
        BY <2>1, <3>1 DEF ThreadConnect
      <3>2. CASE url'.kind = "ip"
        BY <2>1, <3>2 DEF ThreadConnect, ThreadConnectIp
      <3>3. CASE url'.kind = "domain"
        BY <2>1, <3>3 DEF ThreadConnect, ThreadConnectDomain, FetchIps
      <3>4. url'.kind \in {"bad", "ip", "domain"}
        BY <2>1, ParseFacts DEF ThreadConnect
      <3> QED BY <3>1, <3>2, <3>3, <3>4
    <2>2. CASE SrvDone
      BY <2>2 DEF SrvDone, FetchIps
    <2>3. CASE IpsDone
      BY <2>3 DEF IpsDone
    <2>4. CASE ThreadCancelConnection
      BY <2>4 DEF ThreadCancelConnection
    <2>5. ASSUME NEW t \in RecordTypes, Timeout(t)
          PROVE  UNCHANGED pingVars
      BY <2>5 DEF Timeout
    <2>6. CASE QueryCallback \/ CacheExpires
      BY <2>6 DEF QueryCallback, CacheExpires
    <2> QED BY <2>1, <2>2, <2>3, <2>4, <2>5, <2>6
  <1>2. CASE UNCHANGED pingVars
    BY <1>2 DEF pingVars, PingInv, PingTypeInv, ApartInv, PingStart, FromAddrs, FinalInv, Decided
  <1> QED BY <1>1, <1>2, NotYetPings, WithIpsPings

--------------------------------------------------------------------------------

\* The part of the invariant that is about addresses, for the steps that collect the answers.
LEMMA CollectKeeps ==
    ASSUME PingInv, PingTypeInv', ApartInv', phase = "collecting" \/ phase = "pinging", phase' = "collecting",
           UNCHANGED <<addrs, final>>
    PROVE  PingInv'
  <1>1. PingStart' /\ FromAddrs' /\ FinalInv'
    BY DEF PingInv, PingStart, FromAddrs, FinalInv, Decided
  <1> QED BY <1>1 DEF PingInv

LEMMA SendPingsStep ==
    ASSUME PingInv, HostsApart, SendPings
    PROVE  PingInv'
  <1>1. /\ phase = "pinging" /\ phase' = "collecting"
        /\ UNCHANGED <<addrs, pingResults, protocols, final>>
    BY DEF SendPings
  <1>2. channel = <<>> /\ pingResults = <<>>
    BY <1>1 DEF PingInv, PingStart
  <1>3. PICK cached \in SUBSET ToSet(addrs) :
          /\ \E answer \in [cached -> Replies \ {Failed}] :
               LET known == Picked(addrs, {i \in DOMAIN addrs : addrs[i] \in cached})
               IN  channel' = [i \in 1..(IF Len(known) < ChannelSize THEN Len(known) ELSE ChannelSize)
                                 |-> <<known[i], answer[known[i]]>>]
          /\ pinged' = ToSet(addrs) \ cached
    BY DEF SendPings
  <1> DEFINE indices == {i \in DOMAIN addrs : addrs[i] \in cached}
             known == Picked(addrs, indices)
  <1>4. PICK answer \in [cached -> Replies \ {Failed}] :
          channel' = [i \in 1..(IF Len(known) < ChannelSize THEN Len(known) ELSE ChannelSize)
                        |-> <<known[i], answer[known[i]]>>]
    BY <1>3
  <1>5. /\ known \in Seq(ToSet(addrs))
        /\ \A k \in DOMAIN known : \E i \in indices : known[k] = addrs[i]
        /\ IsInjective(addrs) => IsInjective(known)
    BY PickedFacts DEF HostsApart
  <1>6. IsInjective(addrs)
    <2>1. \A a : SameHost(a, a)
      BY DEF SameHost
    <2> QED BY <2>1 DEF HostsApart, IsInjective
  <1>7. \A k \in DOMAIN known : known[k] \in cached
    BY <1>5
  <1> HIDE DEF indices, known
  <1> DEFINE m == IF Len(known) < ChannelSize THEN Len(known) ELSE ChannelSize
  <1>8. m \in Nat /\ 1..m \subseteq DOMAIN known
    BY <1>5, PingCandidatesAssumption
  <1> HIDE DEF m
  <1>9. DOMAIN channel' = 1..m /\ \A i \in 1..m : channel'[i] = <<known[i], answer[known[i]]>>
    BY <1>4 DEF m
  <1>10. \A i \in 1..m : channel'[i][1] = known[i] /\ known[i] \in cached
    BY <1>7, <1>8, <1>9
  <1>11. channel' \in Seq(ToSet(addrs) \X Replies)
    <2>1. \A i \in 1..m : channel'[i] \in ToSet(addrs) \X Replies
      BY <1>3, <1>4, <1>9, <1>10
    <2>2. channel' \in [1..m -> ToSet(addrs) \X Replies]
      BY <1>4, <1>9, <2>1 DEF m
    <2> QED BY <1>8, <2>2, FunctionIsSeq
  <1>12. PingTypeInv'
    BY <1>1, <1>3, <1>11 DEF PingInv, PingTypeInv
  <1>13. ApartInv'
    <2>1. \A i \in DOMAIN channel' : channel'[i][1] \notin pinged'
      BY <1>3, <1>9, <1>10
    <2>2. \A i, j \in DOMAIN channel' : channel'[i][1] = channel'[j][1] => i = j
      BY <1>5, <1>6, <1>8, <1>9, <1>10 DEF IsInjective
    <2> QED BY <1>1, <1>2, <2>1, <2>2 DEF ApartInv
  <1> QED BY <1>1, <1>12, <1>13, CollectKeeps

LEMMA CalledBackStep ==
    ASSUME PingInv, CalledBack
    PROVE  PingInv'
  <1>1. /\ phase = "collecting" /\ phase' = phase
        /\ UNCHANGED <<addrs, pingResults, protocols, final>>
    BY DEF CalledBack
  <1>2. PICK a \in pinged, reply \in Replies :
          /\ pinged' = pinged \ {a}
          /\ channel' = IF Len(channel) < ChannelSize THEN Append(channel, <<a, reply>>) ELSE channel
    BY DEF CalledBack
  <1> DEFINE Q == ToSet(addrs) \X Replies
             e == <<a, reply>>
  <1>3. channel \in Seq(Q) /\ pinged \subseteq ToSet(addrs)
    BY DEF PingInv, PingTypeInv
  <1>4. e \in Q /\ e[1] = a
    BY <1>2, <1>3
  <1>5. ApartInv
    BY DEF PingInv
  <1>6. CASE channel' = channel
    <2>1. PingTypeInv' /\ ApartInv'
      BY <1>1, <1>2, <1>6 DEF PingInv, PingTypeInv, ApartInv
    <2> QED BY <1>1, <2>1, CollectKeeps
  <1>7. CASE channel' = Append(channel, e)
    <2> HIDE DEF Q, e
    <2>1. /\ channel' \in Seq(Q) /\ Len(channel) \in Nat
          /\ DOMAIN channel = 1..Len(channel) /\ DOMAIN channel' = 1..(Len(channel) + 1)
          /\ \A i \in DOMAIN channel : channel'[i] = channel[i]
          /\ channel'[Len(channel) + 1] = e
      BY <1>3, <1>4, <1>7
    <2>2. PingTypeInv'
      BY <1>1, <1>2, <2>1 DEF PingInv, PingTypeInv, Q
    <2>3. \A i \in DOMAIN channel' : i \in DOMAIN channel \/ i = Len(channel) + 1
      BY <2>1
    <2>4. \A i \in DOMAIN channel' : channel'[i][1] = IF i \in DOMAIN channel THEN channel[i][1] ELSE a
      BY <1>4, <2>1, <2>3
    <2>5. \A i \in DOMAIN channel : channel[i][1] # a
      BY <1>2, <1>5 DEF ApartInv
    <2>6. \A i \in DOMAIN pingResults : pingResults[i].addr # a
      BY <1>2, <1>5 DEF ApartInv
    <2>7. \A i, j \in DOMAIN channel' : channel'[i][1] = channel'[j][1] => i = j
      BY <1>5, <2>3, <2>4, <2>5 DEF ApartInv
    <2>8. \A i \in DOMAIN channel' : channel'[i][1] \notin pinged'
      BY <1>2, <1>5, <2>4 DEF ApartInv
    <2>9. \A i \in DOMAIN pingResults : /\ pingResults[i].addr \notin pinged'
                                        /\ \A j \in DOMAIN channel' : channel'[j][1] # pingResults[i].addr
      BY <1>2, <1>5, <2>4, <2>6 DEF ApartInv
    <2>10. ApartInv'
      BY <1>1, <1>5, <2>7, <2>8, <2>9 DEF ApartInv
    <2> QED BY <1>1, <2>2, <2>10, CollectKeeps
  <1> QED BY <1>2, <1>6, <1>7

\* The protocols of an answer are added to those that are known.
LEMMA MergeType ==
    ASSUME NEW S, NEW known \in Seq(S), NEW more \in Seq(S)
    PROVE  Merge(known, more) \in Seq(S)
  <1> DEFINE indices == {j \in DOMAIN more : /\ \A i \in DOMAIN known : known[i].type # more[j].type
                                             /\ \A i \in 1..(j - 1) : more[i].type # more[j].type}
  <1>1. indices \in SUBSET DOMAIN more
    OBVIOUS
  <1>2. Merge(known, more) = known \o Picked(more, indices)
    BY DEF Merge
  <1> HIDE DEF indices
  <1>3. Picked(more, indices) \in Seq(S)
    BY <1>1, PickedFacts
  <1> QED BY <1>2, <1>3

LEMMA ReceiveStep ==
    ASSUME PingInv, Receive
    PROVE  PingInv'
  <1>1. /\ phase = "collecting" /\ phase' = phase /\ channel # <<>> /\ channel' = Tail(channel)
        /\ UNCHANGED <<addrs, pinged, final>>
    BY DEF Receive
  <1> DEFINE Q == ToSet(addrs) \X Replies
             P == [addr : ToSet(addrs), time : Times]
  <1>2. channel \in Seq(Q) /\ pingResults \in Seq(P) /\ protocols \in Seq(Protocol)
    BY DEF PingInv, PingTypeInv
  <1>3. ApartInv
    BY DEF PingInv
  <1>4. PICK a, reply : a = channel[1][1] /\ reply = channel[1][2]
    OBVIOUS
  <1> HIDE DEF Q, P
  <1>5. /\ channel' \in Seq(Q) /\ Len(channel) \in Nat /\ Len(channel) > 0
        /\ DOMAIN channel = 1..Len(channel) /\ DOMAIN channel' = 1..(Len(channel) - 1)
        /\ \A i \in DOMAIN channel' : channel'[i] = channel[i + 1]
        /\ channel[1] \in Q /\ Head(channel) = channel[1]
    BY <1>1, <1>2
  <1>6. a \in ToSet(addrs) /\ reply \in Replies
    BY <1>4, <1>5 DEF Q
  <1>7. \A i \in DOMAIN channel' : i + 1 \in DOMAIN channel /\ i + 1 # 1 /\ i \in Int
    BY <1>5
  <1>8. 1 \in DOMAIN channel
    BY <1>5
  <1>9. /\ \A i \in DOMAIN channel' : channel'[i][1] \notin pinged
        /\ \A i, j \in DOMAIN channel' : channel'[i][1] = channel'[j][1] => i = j
        /\ \A i \in DOMAIN channel' : channel'[i][1] # a
        /\ a \notin pinged
    <2>1. \A i \in DOMAIN channel' : channel'[i][1] \notin pinged
      BY <1>3, <1>5, <1>7 DEF ApartInv
    <2>2. ASSUME NEW i \in DOMAIN channel', NEW j \in DOMAIN channel', channel'[i][1] = channel'[j][1]
          PROVE  i = j
      <3>1. i + 1 = j + 1
        BY <1>3, <1>5, <1>7, <2>2 DEF ApartInv
      <3> QED BY <1>7, <3>1
    <2>3. \A i \in DOMAIN channel' : channel'[i][1] # a
      BY <1>3, <1>4, <1>5, <1>7, <1>8 DEF ApartInv
    <2>4. a \notin pinged
      BY <1>3, <1>4, <1>8 DEF ApartInv
    <2> QED BY <2>1, <2>2, <2>3, <2>4
  <1>10. CASE UNCHANGED <<pingResults, protocols>>
    <2>1. PingTypeInv'
      BY <1>1, <1>5, <1>10 DEF PingInv, PingTypeInv, Q
    <2>2. \A i \in DOMAIN pingResults : \A j \in DOMAIN channel' : channel'[j][1] # pingResults[i].addr
      BY <1>3, <1>5, <1>7 DEF ApartInv
    <2>3. ApartInv'
      BY <1>1, <1>3, <1>9, <1>10, <2>2 DEF ApartInv
    <2> QED BY <1>1, <2>1, <2>3, CollectKeeps
  <1>11. CASE ~UNCHANGED <<pingResults, protocols>>
    <2> DEFINE r == [addr |-> a, time |-> reply.time]
    <2>1. /\ pingResults' = Append(pingResults, r) /\ reply.ok
          /\ protocols' = Merge(protocols, reply.speaks)
      BY <1>4, <1>5, <1>11 DEF Receive
    <2>2. reply.time \in Times /\ reply.speaks \in Seq(Protocol)
      <3>1. Failed.ok = FALSE
        BY DEF Failed
      <3>2. reply \in [ok : {TRUE}, time : Times, speaks : Announced]
        BY <1>6, <2>1, <3>1 DEF Replies
      <3>3. reply.time \in Times /\ reply.speaks \in Announced
        BY <3>2
      <3> QED BY <3>3, PingCandidatesAssumption DEF Protocol
    <2>3. r \in P /\ r.addr = a
      BY <1>6, <2>2 DEF P
    <2> HIDE DEF r
    <2>4. /\ pingResults' \in Seq(P) /\ Len(pingResults) \in Nat
          /\ DOMAIN pingResults = 1..Len(pingResults) /\ DOMAIN pingResults' = 1..(Len(pingResults) + 1)
          /\ \A i \in DOMAIN pingResults : pingResults'[i] = pingResults[i]
          /\ pingResults'[Len(pingResults) + 1] = r
      BY <1>2, <2>1, <2>3
    <2>5. protocols' \in Seq(Protocol)
      BY <1>2, <2>1, <2>2, MergeType
    <2>6. PingTypeInv'
      BY <1>1, <1>5, <2>4, <2>5 DEF PingInv, PingTypeInv, Q, P
    <2>7. \A i \in DOMAIN pingResults' : i \in DOMAIN pingResults \/ i = Len(pingResults) + 1
      BY <2>4
    <2>8. \A i \in DOMAIN pingResults' :
             pingResults'[i].addr = IF i \in DOMAIN pingResults THEN pingResults[i].addr ELSE a
      BY <2>3, <2>4, <2>7
    <2>9. \A i \in DOMAIN pingResults : pingResults[i].addr # a
      BY <1>3, <1>4, <1>8 DEF ApartInv
    <2>10. \A i, j \in DOMAIN pingResults' : pingResults'[i].addr = pingResults'[j].addr => i = j
      BY <1>3, <2>7, <2>8, <2>9 DEF ApartInv
    <2>11. \A i \in DOMAIN pingResults : \A j \in DOMAIN channel' : channel'[j][1] # pingResults[i].addr
      BY <1>3, <1>5, <1>7 DEF ApartInv
    <2>12. \A i \in DOMAIN pingResults' : /\ pingResults'[i].addr \notin pinged
                                          /\ \A j \in DOMAIN channel' : channel'[j][1] # pingResults'[i].addr
      BY <1>3, <1>9, <2>8, <2>11 DEF ApartInv
    <2>13. ApartInv'
      BY <1>1, <1>9, <2>10, <2>12 DEF ApartInv
    <2> QED BY <1>1, <2>6, <2>13, CollectKeeps
  <1> QED BY <1>10, <1>11

LEMMA FinishStep ==
    ASSUME PingInv, HostsApart, FinishPinging
    PROVE  PingInv'
  <1>1. /\ phase' = "connecting"
        /\ UNCHANGED <<pinged, addrs, channel, pingResults, protocols>>
        /\ IF pingResults = <<>>
           THEN final' = FinalAddrs(addrs, AllTypes)
           ELSE \E results \in SortedByPing(pingResults) : final' = FinalAddrs(AddrsOf(results), protocols)
    BY DEF FinishPinging, EndPinging
  <1>2. PingTypeInv' /\ ApartInv' /\ PingStart'
    BY <1>1 DEF PingInv, PingTypeInv, ApartInv, PingStart
  <1>3. FinalInv'
    BY <1>1, Zenon DEF FinalInv
  <1>4. CASE pingResults = <<>>
    <2>1. final' = FinalAddrs(addrs, AllTypes)
      BY <1>1, <1>4
    <2>2. addrs \in Seq(ToSet(addrs)) /\ AllTypes \in Seq(ToSet(AllTypes))
      BY DEF HostsApart, AllTypes, ToSet
    <2>3. FromAddrs'
      BY <1>1, <2>1, <2>2, FinalFromList DEF FromAddrs
    <2> QED BY <1>2, <1>3, <2>3 DEF PingInv
  <1>5. CASE pingResults # <<>>
    <2>1. PICK results \in SortedByPing(pingResults) : final' = FinalAddrs(AddrsOf(results), protocols)
      BY <1>1, <1>5
    <2>2. pingResults \in Seq([addr : ToSet(addrs), time : Times]) /\ protocols \in Seq(Protocol)
      BY DEF PingInv, PingTypeInv
    <2>3. results \in Seq([addr : ToSet(addrs), time : Times])
      BY <2>1, <2>2, SortedFacts
    <2>4. AddrsOf(results) \in Seq(ToSet(addrs))
      BY <2>3, AddrsOfFacts
    <2>5. \A k \in DOMAIN final' : \E i \in DOMAIN AddrsOf(results) : SameHost(final'[k].addr, AddrsOf(results)[i])
      BY <2>1, <2>2, <2>4, FinalFromList
    <2>6. \A i \in DOMAIN AddrsOf(results) : \E j \in DOMAIN addrs : AddrsOf(results)[i] = addrs[j]
      BY <2>4, SeqElements DEF ToSet
    <2>7. FromAddrs'
      BY <1>1, <2>5, <2>6 DEF FromAddrs
    <2> QED BY <1>2, <1>3, <2>7 DEF PingInv
  <1> QED BY <1>4, <1>5

LEMMA PingPings ==
    ASSUME PingInv, HostsApart, Ping
    PROVE  PingInv'
  <1>1. CASE TimePasses
    <2>1. PingTypeInv' /\ ApartInv'
      BY <1>1 DEF TimePasses, PingInv, PingTypeInv, ApartInv
    <2> QED BY <1>1, <2>1, CollectKeeps DEF TimePasses
  <1>2. CASE Try
    <2>1. /\ phase = "connecting" /\ phase' \in {"connecting", "connected", "failed"}
          /\ UNCHANGED <<pinged, addrs, channel, pingResults, protocols, final>>
      BY <1>2 DEF Try, TryFails, TrySucceeds
    <2> QED BY <2>1 DEF PingInv, PingTypeInv, ApartInv, PingStart, FromAddrs, FinalInv, Decided
  <1> QED BY <1>1, <1>2, SendPingsStep, CalledBackStep, ReceiveStep, FinishStep DEF Ping, PingNext

\* An answer is not sorted behind one that is slower by more than the margin.
LEMMA SortedByTime ==
    ASSUME NEW r, NEW s, r.time \in Nat, s.time \in Nat, ~PingLess(Key(s), Key(r))
    PROVE  r.time <= s.time + Close
  <1> USE AddressOrderAssumption
  <1>1. Key(r).time = r.time /\ Key(s).time = s.time
    BY DEF Key
  <1>2. Close \in Nat
    OBVIOUS
  <1> QED BY <1>1, <1>2 DEF PingLess, AbsDiff

\* Two sorts, one after the other: the second keeps the order of the first within a type.
LEMMA FastestFirstHolds ==
    ASSUME PingInv, HostsApart
    PROVE  FastestFirst
  <1> SUFFICES ASSUME Decided, pingResults # <<>>, NEW i \in DOMAIN final, NEW j \in DOMAIN final, i < j
               PROVE  /\ final[j].type = PreferredType => final[i].type = PreferredType
                      /\ PreferredType \notin {final[i].type, final[j].type} =>
                           TypeRank(final[i].type) <= TypeRank(final[j].type)
                      /\ final[i].type = final[j].type =>
                           \A r, s \in ToSet(pingResults) :
                               SameHost(r.addr, final[i].addr) /\ SameHost(s.addr, final[j].addr)
                                   => r.time <= s.time + Close
    BY DEF FastestFirst
  <1> DEFINE A == ToSet(addrs)
             P == [addr : A, time : Times]
  <1>1. PICK results \in SortedByPing(pingResults) : final = FinalAddrs(AddrsOf(results), protocols)
    BY DEF PingInv, FinalInv
  <1>2. pingResults \in Seq(P) /\ protocols \in Seq(Protocol)
    BY DEF PingInv, PingTypeInv
  <1>3. /\ results \in Seq(P) /\ DOMAIN results = DOMAIN pingResults
        /\ \A k \in DOMAIN pingResults : \E l \in DOMAIN pingResults : results[k] = pingResults[l]
        /\ \A k, l \in DOMAIN pingResults : k < l => ~PingLess(Key(results[l]), Key(results[k]))
    BY <1>1, <1>2, SortedFacts
  <1> HIDE DEF A
  <1>4. /\ AddrsOf(results) \in Seq(A) /\ DOMAIN AddrsOf(results) = DOMAIN results
        /\ \A k \in DOMAIN results : AddrsOf(results)[k] = results[k].addr
    <2>1. results \in Seq([addr : A, time : Times])
      BY <1>3
    <2>2. AddrsOf(results) \in Seq(A)
      BY <2>1, AddrsOfFacts
    <2>3. DOMAIN AddrsOf(results) = DOMAIN results
          /\ \A k \in DOMAIN results : AddrsOf(results)[k] = results[k].addr
      BY DEF AddrsOf
    <2> QED BY <2>2, <2>3
  <1> DEFINE list == AddrsOf(results)
  <1> HIDE DEF list, P
  <1>5. PICK chosen : Chosen(final, list, protocols, chosen)
    BY <1>1, <1>2, <1>4, FinalAddrsFacts DEF list
  <1> DEFINE c == chosen[i]
             d == chosen[j]
             T(e) == protocols[e[2]].type
  <1>6. /\ c \in Pairs(list, protocols) /\ d \in Pairs(list, protocols)
        /\ final[i] = Candidate(list[c[1]], protocols[c[2]])
        /\ final[j] = Candidate(list[d[1]], protocols[d[2]])
        /\ TypeEarlier(protocols, c, d)
    <2>1. /\ i \in DOMAIN chosen /\ j \in DOMAIN chosen /\ chosen \in Seq(Pairs(list, protocols))
          /\ final[i] = Candidate(list[c[1]], protocols[c[2]])
          /\ final[j] = Candidate(list[d[1]], protocols[d[2]])
          /\ TypeEarlier(protocols, c, d)
      BY <1>5 DEF Chosen
    <2> QED BY <2>1, SeqElements
  <1>7. /\ c[1] \in DOMAIN pingResults /\ d[1] \in DOMAIN pingResults
        /\ T(c) \in ConnectionTypes /\ T(d) \in ConnectionTypes
    BY <1>3, <1>4, <1>6 DEF Pairs, list
  <1>8. TypeLess(T(c), T(d)) \/ (~TypeLess(T(d), T(c)) /\ Earlier(c, d))
    BY <1>6 DEF TypeEarlier
  <1>9. /\ final[i].type = T(c) /\ final[j].type = T(d)
        /\ SameHost(final[i].addr, list[c[1]]) /\ SameHost(final[j].addr, list[d[1]])
    BY <1>6 DEF Candidate, SameHost
  <1> HIDE DEF c, d, T
  <1>10. ASSUME final[j].type = PreferredType
         PROVE  final[i].type = PreferredType
    BY <1>8, <1>9, <1>10 DEF TypeLess
  <1>12. ASSUME PreferredType \notin {final[i].type, final[j].type}
         PROVE  TypeRank(final[i].type) <= TypeRank(final[j].type)
    <2>1. TypeRank(T(c)) \in Nat /\ TypeRank(T(d)) \in Nat
      BY DEF TypeRank
    <2>2. ~(TypeRank(T(d)) < TypeRank(T(c)))
      BY <1>8, <1>9, <1>12, <2>1 DEF TypeLess
    <2> QED BY <1>9, <2>1, <2>2
  <1>11. ASSUME final[i].type = final[j].type,
                NEW r \in ToSet(pingResults), NEW s \in ToSet(pingResults),
                SameHost(r.addr, final[i].addr), SameHost(s.addr, final[j].addr)
         PROVE  r.time <= s.time + Close
    <2>1. \A t \in ConnectionTypes : ~TypeLess(t, t)
      BY TypeOrderIsConsistent DEF TypeOrderConsistent
    <2>2. Earlier(c, d)
      BY <1>7, <1>8, <1>9, <1>11, <2>1
    <2>3. results[c[1]] = r /\ results[d[1]] = s
      <3>1. ASSUME NEW q \in ToSet(pingResults), NEW k \in DOMAIN pingResults, SameHost(q.addr, list[k])
            PROVE  results[k] = q
        <4>1. PICK m \in DOMAIN pingResults : q = pingResults[m]
          BY <3>1 DEF ToSet
        <4>2. PICK l \in DOMAIN pingResults : results[k] = pingResults[l]
          BY <1>3
        <4>3. list[k] = pingResults[l].addr
          BY <1>3, <1>4, <4>2 DEF list
        <4>4. pingResults[m] \in P /\ pingResults[l] \in P
          BY <1>2, SeqElements
        <4>5. pingResults[m].addr \in ToSet(addrs) /\ pingResults[l].addr \in ToSet(addrs)
          BY <4>4 DEF P, A
        <4>6. pingResults[m].addr = pingResults[l].addr
          BY <3>1, <4>1, <4>3, <4>5 DEF HostsApart, ToSet
        <4>7. m = l
          BY <4>6 DEF PingInv, ApartInv
        <4> QED BY <4>1, <4>2, <4>7
      <3>2. SameHost(r.addr, list[c[1]]) /\ SameHost(s.addr, list[d[1]])
        BY <1>9, <1>11 DEF SameHost
      <3> QED BY <1>7, <3>1, <3>2
    <2>4. r \in P /\ s \in P
      BY <1>3, <1>7, <2>3, SeqElements
    <2>5. r.addr \in ToSet(addrs) /\ s.addr \in ToSet(addrs) /\ r.time \in Times /\ s.time \in Times
      BY <2>4 DEF P, A
    <2>6. r.time \in Nat /\ s.time \in Nat /\ Close \in Nat
      BY <2>5, AddressOrderAssumption
    <2>7. CASE c[1] = d[1]
      BY <2>3, <2>6, <2>7
    <2>8. CASE c[1] # d[1]
      <3>1. ~PingLess(Key(s), Key(r))
        BY <1>3, <1>7, <2>2, <2>3, <2>8 DEF Earlier
      <3> QED BY <2>6, <3>1, SortedByTime
    <2> QED BY <2>7, <2>8
  <1> QED BY <1>10, <1>11, <1>12

--------------------------------------------------------------------------------

\* What is looked up, remembered and used belongs to the attempt, in every state.
THEOREM LookupInvariance == Spec => []LookupInv
  <1>1. Init => LookupInv
    <2> SUFFICES ASSUME Init PROVE LookupInv
      OBVIOUS
    <2>1. /\ phase = "idle" /\ connects = 0 /\ queries = {} /\ cache = <<>> /\ addrs = <<>>
      BY DEF Init, PingInit
    <2> QED BY <2>1 DEF LookupInv, CacheRight, QueriesRight, SrvRight, IpsRight, AddrsRight, Addressed, HostsApart
  <1>2. IInv /\ LookupInv /\ [Next]_vars => LookupInv'
    <2> SUFFICES ASSUME IInv, LookupInv, [Next]_vars PROVE LookupInv'
      OBVIOUS
    <2>1. CASE UNCHANGED vars
      <3>1. UNCHANGED <<phase, url, enabled, connects, port, addrs, call, queries, cache>>
        BY <2>1 DEF vars, pingVars, lookupVars
      <3> QED BY <3>1 DEF LookupInv, CacheRight, QueriesRight, SrvRight, IpsRight, LooksUp, AddrsRight,
                          Addressed, Named, HostsApart
    <2> QED BY <2>1, ConnectRight, SrvDoneRight, IpsDoneRight, CancelRight, TimeoutRight, CallbackRight,
               ExpireRight, PingRight DEF Next
  <1> QED BY <1>1, <1>2, Invariance, PTL DEF Spec

\* An address is pinged once and counted once, and what is tried comes from the answers.
THEOREM PingInvariance == Spec => []PingInv
  <1>1. Init => PingInv
    <2> SUFFICES ASSUME Init PROVE PingInv
      OBVIOUS
    <2>1. /\ phase = "idle" /\ pinged = {} /\ channel = <<>> /\ pingResults = <<>> /\ protocols = <<>>
          /\ final = <<>>
      BY DEF Init, PingInit
    <2> QED BY <2>1 DEF PingInv, PingTypeInv, ApartInv, PingStart, FromAddrs, FinalInv
  <1>2. LookupInv /\ LookupInv' /\ PingInv /\ [Next]_vars => PingInv'
    <2> SUFFICES ASSUME LookupInv, LookupInv', PingInv, [Next]_vars PROVE PingInv'
      OBVIOUS
    <2>1. HostsApart /\ HostsApart'
      BY DEF LookupInv
    <2>2. CASE UNCHANGED vars
      BY <2>2 DEF vars, pingVars, PingInv, PingTypeInv, ApartInv, PingStart, FromAddrs, FinalInv, Decided
    <2> QED BY <2>1, <2>2, LookupPings, PingPings DEF Next
  <1> QED BY <1>1, <1>2, LookupInvariance, PTL DEF Spec

\* What is pinged or tried belongs to the URL of this attempt: no answer to an earlier attempt, no
\* record of the cache and no late answer brings in the address, the port or the name of another host.
THEOREM AddressesAreRight == Spec => []AddressesRight
  <1>1. IInv /\ LookupInv /\ PingInv => AddressesRight
    <2> SUFFICES ASSUME IInv, LookupInv, PingInv, Addressed
                 PROVE  /\ \A c \in ToSet(final) : \E a \in ToSet(addrs) : SameHost(c.addr, a)
                        /\ url.kind = "ip" => connectHostname = NoName /\ Len(addrs) = 1 /\ addrs[1].ip = url.ip
                        /\ url.kind = "domain" => connectHostname = url.host /\ Named
      BY Zenon DEF AddressesRight, Named
    <2>1. \A c \in ToSet(final) : \E a \in ToSet(addrs) : SameHost(c.addr, a)
      BY DEF PingInv, FromAddrs, ToSet
    <2> QED BY <2>1 DEF IInv, HostnameRight, LookupInv, AddrsRight
  <1> QED BY <1>1, Invariance, LookupInvariance, PingInvariance, PTL

\* Sorting by the answers and then, stably, by type leaves the candidates of each type fastest first, and
\* those of the preferred type in front, whatever answers came in and in whatever order.
THEOREM FastestIsFirst == Spec => []FastestFirst
  <1>1. LookupInv /\ PingInv => FastestFirst
    BY FastestFirstHolds DEF LookupInv
  <1> QED BY <1>1, LookupInvariance, PingInvariance, PTL

================================================================================
