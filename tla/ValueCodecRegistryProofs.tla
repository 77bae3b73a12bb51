----------------------- MODULE ValueCodecRegistryProofs -----------------------
(* Theorems about ValueCodecRegistry: the registries of any program, with    *)
(* any registrations, threads and ids of any length.                         *)
EXTENDS ValueCodecRegistryProps, TLAPS, FiniteSetTheorems, WellFoundedInduction

-----------------------------------------------------------------------------
(* Least and greatest members, and counting.                                 *)

LEMMA LeastNat ==
    ASSUME NEW S, S \subseteq Nat, S # {}
    PROVE  /\ Min(S) \in S
           /\ \A y \in S : Min(S) <= y
<1> DEFINE Below == {0..n : n \in S}
<1>1. Below \subseteq FiniteSubsetsOf(Nat)
  <2> SUFFICES ASSUME NEW n \in S
               PROVE  0..n \in FiniteSubsetsOf(Nat)
    OBVIOUS
  <2>1. IsFiniteSet(0..n)
    BY FS_Interval
  <2> QED BY <2>1 DEF FiniteSubsetsOf
<1>2. Below # {}
  OBVIOUS
<1>3. PICK x \in Below : \A y \in Below : ~(<<y, x>> \in StrictSubsetOrdering(Nat))
  <2> HIDE DEF Below
  <2>1. IsWellFoundedOn(StrictSubsetOrdering(Nat), FiniteSubsetsOf(Nat))
    BY FS_StrictSubsetOrderingWellFounded
  <2> QED BY ONLY <2>1, <1>1, <1>2, WFMin
<1>4. PICK m \in S : x = 0..m
  OBVIOUS
<1>5. ASSUME NEW n \in S, n < m PROVE FALSE
  <2>1. 0..n \in Below
    OBVIOUS
  <2>2. <<0..n, x>> \in StrictSubsetOrdering(Nat)
    BY <1>4, <1>5 DEF StrictSubsetOrdering
  <2> QED BY <2>1, <2>2, <1>3
<1>6. \A y \in S : m <= y
  BY <1>5
<1> QED BY <1>6 DEF Min

LEMMA LeastIs ==
    ASSUME NEW S, S \subseteq Nat, NEW m \in S, \A y \in S : m <= y
    PROVE  Min(S) = m
<1>1. Min(S) \in S /\ \A y \in S : Min(S) <= y
  BY LeastNat
<1>2. Min(S) \in Nat /\ m \in Nat /\ Min(S) <= m /\ m <= Min(S)
  BY <1>1
<1> QED BY <1>2

LEMMA GreatestOfInterval ==
    ASSUME NEW n \in Nat, NEW S, S \subseteq 1..n, S # {}
    PROVE  /\ Max(S) \in S
           /\ \A y \in S : Max(S) >= y
<1> DEFINE T == {n - y : y \in S}
<1>1. Min(T) \in T /\ \A y \in T : Min(T) <= y
  <2>1. \A y \in S : y \in Int /\ n - y \in Nat
    OBVIOUS
  <2>2. T \subseteq Nat /\ T # {}
    BY <2>1
  <2> HIDE DEF T
  <2> QED BY <2>2, LeastNat
<1>2. PICK m \in S : Min(T) = n - m
  BY <1>1
<1>3. \A y \in S : m >= y
  <2> SUFFICES ASSUME NEW y \in S PROVE m >= y
    OBVIOUS
  <2>1. n - y \in T
    OBVIOUS
  <2>2. Min(T) <= n - y
    BY <2>1, <1>1
  <2>3. m \in Int /\ y \in Int
    OBVIOUS
  <2> QED BY <2>2, <2>3, <1>2
<1> QED BY <1>3 DEF Max

\* Counting through a one-to-one correspondence.
Corresponds(S, T, f) ==
    /\ f \in [S -> T]
    /\ \A i, j \in S : f[i] = f[j] => i = j
    /\ \A k \in T : \E i \in S : f[i] = k

LEMMA SameCount ==
    ASSUME NEW S, NEW T, IsFiniteSet(S), NEW f, Corresponds(S, T, f)
    PROVE  Cardinality(S) = Cardinality(T)
<1>1. f \in Bijection(S, T)
  BY DEF Corresponds, Bijection, Injection, Surjection, IsInjective
<1> QED BY <1>1, FS_Bijection DEF ExistsBijection

OneToOne(n, p) ==
    /\ p \in [1..n -> 1..n]
    /\ \A i, j \in 1..n : p[i] = p[j] => i = j

LEMMA OneToOneIsOnto ==
    ASSUME NEW n \in Nat, NEW p, OneToOne(n, p)
    PROVE  \A k \in 1..n : \E i \in 1..n : p[i] = k
<1>1. IsFiniteSet(1..n)
  BY FS_Interval
<1>2. p \in Injection(1..n, 1..n)
  BY DEF OneToOne, Injection, IsInjective
<1>3. p \in Surjection(1..n, 1..n)
  BY <1>1, <1>2, FS_Injection
<1> QED BY <1>3 DEF Surjection

LEMMA FiniteIndices ==
    ASSUME NEW n \in Nat, NEW S, S \subseteq 1..n
    PROVE  IsFiniteSet(S) /\ Cardinality(S) \in Nat
<1>1. IsFiniteSet(1..n)
  BY FS_Interval
<1>2. IsFiniteSet(S)
  BY <1>1, FS_Subset
<1> QED BY <1>2, FS_CardinalityType

LEMMA MoreThanOne ==
    ASSUME NEW n \in Nat, NEW S, S \subseteq 1..n
    PROVE  Cardinality(S) > 1 <=> \E i, j \in S : i < j
<1>1. IsFiniteSet(S) /\ Cardinality(S) \in Nat
  BY FiniteIndices
<1>2. ASSUME NEW i \in S, NEW j \in S, i < j
      PROVE  Cardinality(S) > 1
  <2>1. IsFiniteSet(S \ {i}) /\ Cardinality(S \ {i}) = Cardinality(S) - 1
    BY <1>1, FS_RemoveElement
  <2>2. Cardinality(S \ {i}) # 0
    BY <2>1, <1>2, FS_EmptySet
  <2>3. Cardinality(S \ {i}) \in Nat
    BY <2>1, FS_CardinalityType
  <2> QED BY <2>1, <2>2, <2>3, <1>1
<1>3. ASSUME Cardinality(S) > 1
      PROVE  \E i, j \in S : i < j
  <2>1. S # {}
    BY <1>1, <1>3, FS_EmptySet
  <2>2. PICK a : a \in S
    BY <2>1
  <2>3. S # {a}
    BY <1>1, <1>3, FS_Singleton
  <2>4. PICK b : b \in S /\ b # a
    BY <2>2, <2>3
  <2>5. a \in 1..n /\ b \in 1..n
    BY <2>2, <2>4
  <2>6. a < b \/ b < a
    BY <2>4, <2>5
  <2> QED BY <2>2, <2>4, <2>6
<1> QED BY <1>2, <1>3

-----------------------------------------------------------------------------
(* Rearranging a sequence.                                                   *)

\* s is another arrangement of r: p[i] is the place in r of what is at i.
Arranges(s, r, p) ==
    /\ OneToOne(Len(r), p)
    /\ \A i \in 1..Len(r) : s[i] = r[p[i]]

\* An arrangement has as many places that satisfy a condition as the original.
PlacesOf(n, p, T) == {i \in 1..n : p[i] \in T}

LEMMA ArrangedCount ==
    ASSUME NEW n \in Nat, NEW p, OneToOne(n, p), NEW T, T \subseteq 1..n
    PROVE  Cardinality(PlacesOf(n, p, T)) = Cardinality(T)
<1> DEFINE S == PlacesOf(n, p, T)
           f == [i \in S |-> p[i]]
<1>1. S \subseteq 1..n /\ \A i \in 1..n : i \in S <=> p[i] \in T
  BY DEF PlacesOf
<1> HIDE DEF S
<1>2. IsFiniteSet(S)
  BY <1>1, FiniteIndices
<1>3. f \in [S -> T]
  BY <1>1
<1>4. \A i, j \in S : f[i] = f[j] => i = j
  BY <1>1 DEF OneToOne
<1>5. ASSUME NEW k \in T PROVE \E i \in S : f[i] = k
  <2>1. PICK i \in 1..n : p[i] = k
    BY OneToOneIsOnto
  <2>2. i \in S
    BY <2>1, <1>1
  <2> QED BY <2>1, <2>2
<1> HIDE DEF f
<1>6. Corresponds(S, T, f)
  BY <1>3, <1>4, <1>5 DEF Corresponds
<1>7. Cardinality(S) = Cardinality(T)
  BY <1>2, <1>6, SameCount
<1> QED BY <1>7 DEF S

LEMMA ArrangedFacts ==
    ASSUME NEW r \in Seq(Registrations), NEW s \in Seq(Registrations), Len(s) = Len(r),
           NEW p, Arranges(s, r, p)
    PROVE  /\ Range(s) = Range(r)
           /\ \A x : Cardinality({i \in 1..Len(s) : s[i] = x})
                        = Cardinality({i \in 1..Len(r) : r[i] = x})
<1> DEFINE n == Len(r)
<1>1. n \in Nat /\ DOMAIN r = 1..n /\ DOMAIN s = 1..n
  OBVIOUS
<1>2. OneToOne(n, p) /\ \A i \in 1..n : s[i] = r[p[i]]
  BY DEF Arranges
<1> HIDE DEF n
<1>3. \A k \in 1..n : \E i \in 1..n : p[i] = k
  BY <1>1, <1>2, OneToOneIsOnto
<1>4. \A i \in 1..n : p[i] \in 1..n
  BY <1>2 DEF OneToOne
<1>5. Range(s) = Range(r)
  <2>1. ASSUME NEW i \in 1..n PROVE s[i] \in Range(r)
    BY <1>1, <1>2, <1>4 DEF Range
  <2>2. ASSUME NEW k \in 1..n PROVE r[k] \in Range(s)
    <3>1. PICK i \in 1..n : p[i] = k
      BY <1>3
    <3> QED BY <3>1, <1>1, <1>2 DEF Range
  <2> QED BY <2>1, <2>2, <1>1 DEF Range
<1>6. ASSUME NEW x
      PROVE  Cardinality({i \in 1..n : s[i] = x}) = Cardinality({i \in 1..n : r[i] = x})
  <2> DEFINE S == {i \in 1..n : s[i] = x}
             T == {i \in 1..n : r[i] = x}
  <2>1. S = PlacesOf(n, p, T) /\ T \subseteq 1..n
    BY <1>2, <1>4 DEF PlacesOf
  <2> HIDE DEF S, T
  <2>2. Cardinality(PlacesOf(n, p, T)) = Cardinality(T)
    BY <1>1, <1>2, <2>1, ArrangedCount
  <2> QED BY <2>1, <2>2 DEF S, T
<1> QED BY <1>5, <1>6 DEF n

\* What a sort of sort_by_key or sort_unstable comes to.
LEMMA SortOrderFacts ==
    ASSUME NEW n \in Nat, NEW keys \in [1..n -> Nat], NEW order \in SortOrders(keys)
    PROVE  /\ OneToOne(n, order)
           /\ \A i, j \in 1..n : i < j => keys[order[i]] <= keys[order[j]]
<1>1. DOMAIN keys = 1..n
  OBVIOUS
<1>2. /\ order \in [1..n -> 1..n]
      /\ \A i, j \in 1..n : i < j =>
            \/ keys[order[i]] < keys[order[j]]
            \/ keys[order[i]] = keys[order[j]] /\ order[i] < order[j]
  BY <1>1 DEF SortOrders
<1>3. \A i \in 1..n : order[i] \in 1..n /\ order[i] \in Int /\ keys[order[i]] \in Nat
  BY <1>2
<1>4. ASSUME NEW i \in 1..n, NEW j \in 1..n, i < j
      PROVE  order[i] # order[j] /\ keys[order[i]] <= keys[order[j]]
  <2> DEFINE a == order[i]
             b == order[j]
             x == keys[a]
             y == keys[b]
  <2>1. a \in Int /\ b \in Int /\ x \in Nat /\ y \in Nat
    BY <1>3
  <2>2. x < y \/ (x = y /\ a < b)
    BY <1>2, <1>4
  <2>3. a = b => x = y
    OBVIOUS
  <2> HIDE DEF a, b, x, y
  <2>4. a # b /\ x <= y
    BY <2>1, <2>2, <2>3
  <2> QED BY <2>4 DEF a, b, x, y
<1>5. ASSUME NEW i \in 1..n, NEW j \in 1..n, order[i] = order[j]
      PROVE  i = j
  <2>1. ~(i < j) /\ ~(j < i)
    BY <1>4, <1>5
  <2> QED BY <2>1
<1> QED BY <1>2, <1>4, <1>5 DEF OneToOne

SortedById(s) == \A i, j \in 1..Len(s) : i < j => s[i].id <= s[j].id

LEMMA RegistrationFacts ==
    ASSUME NEW r \in Registrations
    PROVE  /\ r.id \in Ids /\ r.desc \in Descriptors
           /\ r.id \in Nat /\ r.desc \in Nat
           /\ r = [id |-> r.id, desc |-> r.desc]
  BY RegistryAssumption DEF Registrations

\* sort_by_key leaves an arrangement of the registrations, ordered by id.
LEMMA SortedFacts ==
    ASSUME NEW regs \in Seq(Registrations), NEW s \in Sorted(regs)
    PROVE  /\ s \in Seq(Registrations)
           /\ Len(s) = Len(regs)
           /\ SortedById(s)
           /\ \E p : Arranges(s, regs, p)
<1> DEFINE n == Len(regs)
           keys == [i \in DOMAIN regs |-> regs[i].id]
<1>1. n \in Nat /\ DOMAIN regs = 1..n /\ \A i \in 1..n : regs[i] \in Registrations
  OBVIOUS
<1>2. keys \in [1..n -> Nat] /\ \A i \in 1..n : keys[i] = regs[i].id
  BY <1>1, RegistrationFacts
<1>3. PICK order \in SortOrders(keys) : s = Rearranged(regs, order)
  BY DEF Sorted
<1> HIDE DEF keys, n
<1>4. /\ OneToOne(n, order)
      /\ \A i, j \in 1..n : i < j => keys[order[i]] <= keys[order[j]]
  BY <1>1, <1>2, SortOrderFacts
<1>5. s = [i \in 1..n |-> regs[order[i]]]
  BY <1>1, <1>3 DEF Rearranged
<1>6. s \in Seq(Registrations) /\ Len(s) = n /\ \A i \in 1..n : s[i] = regs[order[i]]
  BY <1>1, <1>4, <1>5 DEF OneToOne
<1>7. SortedById(s)
  <2> SUFFICES ASSUME NEW i \in 1..n, NEW j \in 1..n, i < j
               PROVE  s[i].id <= s[j].id
    BY <1>6 DEF SortedById
  <2>1. order[i] \in 1..n /\ order[j] \in 1..n /\ keys[order[i]] <= keys[order[j]]
    BY <1>4 DEF OneToOne
  <2> QED BY <2>1, <1>2, <1>6
<1>8. Arranges(s, regs, order)
  BY <1>4, <1>6 DEF Arranges, n
<1> QED BY <1>6, <1>7, <1>8 DEF n

-----------------------------------------------------------------------------
(* Duplicate ids.                                                            *)

\* The places of an id, and the places where the loop of build finds a pair.
Places(s, id) == {i \in 1..Len(s) : s[i].id = id}

Twins(s) == {i \in 1..(Len(s) - 1) : s[i].id = s[i + 1].id}

LEMMA TwiceFacts ==
    ASSUME NEW s \in Seq(Registrations), NEW id
    PROVE  id \in Twice(s) <=> id \in Ids /\ \E i, j \in Places(s, id) : i < j
<1>1. Len(s) \in Nat /\ DOMAIN s = 1..Len(s) /\ Places(s, id) \subseteq 1..Len(s)
  BY DEF Places
<1>2. Cardinality(Places(s, id)) > 1 <=> \E i, j \in Places(s, id) : i < j
  BY <1>1, MoreThanOne
<1>3. id \in Twice(s) <=> id \in Ids /\ Cardinality(Places(s, id)) > 1
  BY <1>1 DEF Twice, Places
<1> QED BY <1>2, <1>3

LEMMA ArrangedTwice ==
    ASSUME NEW r \in Seq(Registrations), NEW s \in Seq(Registrations),
           Len(s) = Len(r), NEW p, Arranges(s, r, p)
    PROVE  Twice(s) = Twice(r)
<1> DEFINE n == Len(r)
<1>1. n \in Nat /\ DOMAIN r = 1..n /\ DOMAIN s = 1..n
  OBVIOUS
<1>2. OneToOne(n, p) /\ \A i \in 1..n : s[i] = r[p[i]]
  BY DEF Arranges
<1>3. \A i \in 1..n : p[i] \in 1..n
  BY <1>2 DEF OneToOne
<1>4. ASSUME NEW id
      PROVE  Cardinality(Places(s, id)) = Cardinality(Places(r, id))
  <2>1. Places(s, id) = PlacesOf(n, p, Places(r, id)) /\ Places(r, id) \subseteq 1..n
    BY <1>2, <1>3 DEF PlacesOf, Places
  <2> HIDE DEF n
  <2>2. Cardinality(PlacesOf(n, p, Places(r, id))) = Cardinality(Places(r, id))
    BY <1>1, <1>2, <2>1, ArrangedCount
  <2> QED BY <2>1, <2>2
<1>5. Twice(s) = {id \in Ids : Cardinality(Places(s, id)) > 1}
  BY <1>1 DEF Twice, Places
<1>6. Twice(r) = {id \in Ids : Cardinality(Places(r, id)) > 1}
  BY <1>1 DEF Twice, Places
<1> QED BY <1>4, <1>5, <1>6

\* Among sorted registrations an id is there twice iff it is at a place and at
\* the next one.
LEMMA TwinsAreTwice ==
    ASSUME NEW s \in Seq(Registrations), SortedById(s)
    PROVE  /\ \A i \in Twins(s) : s[i].id \in Twice(s)
           /\ \A id \in Twice(s) : \E i \in Twins(s) : s[i].id = id
<1> DEFINE n == Len(s)
<1>1. n \in Nat /\ \A i \in 1..n : s[i] \in Registrations
  OBVIOUS
<1>2. \A i \in 1..n : s[i].id \in Ids /\ s[i].id \in Nat
  BY <1>1, RegistrationFacts
<1>3. \A i, j \in 1..n : i < j => s[i].id <= s[j].id
  BY DEF SortedById
<1>4. ASSUME NEW i \in Twins(s) PROVE s[i].id \in Twice(s)
  <2>1. i \in 1..n /\ i + 1 \in 1..n /\ i < i + 1 /\ s[i].id = s[i + 1].id
    BY <1>1 DEF Twins
  <2>2. i \in Places(s, s[i].id) /\ i + 1 \in Places(s, s[i].id)
    BY <2>1 DEF Places
  <2> QED BY <2>1, <2>2, <1>2, TwiceFacts
<1>5. ASSUME NEW id \in Twice(s) PROVE \E i \in Twins(s) : s[i].id = id
  <2>1. PICK i \in Places(s, id), j \in Places(s, id) : i < j
    BY TwiceFacts
  <2>2. i \in 1..n /\ j \in 1..n /\ s[i].id = id /\ s[j].id = id
    BY DEF Places
  <2>3. i \in 1..(n - 1) /\ i + 1 \in 1..n /\ i < i + 1 /\ (i + 1 = j \/ i + 1 < j)
    BY <2>1, <2>2, <1>1
  <2>4. s[i].id <= s[i + 1].id /\ s[i + 1].id <= s[j].id
    <3>1. s[i].id <= s[i + 1].id
      BY <2>2, <2>3, <1>3
    <3>2. s[i + 1].id <= s[j].id
      BY <2>2, <2>3, <1>2, <1>3
    <3> QED BY <3>1, <3>2
  <2>5. s[i + 1].id = id
    <3>1. s[i + 1].id \in Nat /\ id \in Nat
      BY <2>2, <2>3, <1>2
    <3> QED BY <3>1, <2>2, <2>4
  <2> QED BY <2>2, <2>3, <2>5 DEF Twins
<1> QED BY <1>4, <1>5

\* The first pair of neighbours is of the least duplicate, and begins its run.
LEMMA FirstTwin ==
    ASSUME NEW s \in Seq(Registrations), SortedById(s), Twins(s) # {}
    PROVE  /\ Min(Twins(s)) \in Twins(s)
           /\ s[Min(Twins(s))].id = Min(Twice(s))
           /\ \A j \in Places(s, s[Min(Twins(s))].id) : Min(Twins(s)) <= j
<1> DEFINE n == Len(s)
           m == Min(Twins(s))
<1>1. n \in Nat /\ \A i \in 1..n : s[i] \in Registrations
  OBVIOUS
<1>2. \A i \in 1..n : s[i].id \in Ids /\ s[i].id \in Nat
  BY <1>1, RegistrationFacts
<1>3. \A i, j \in 1..n : i < j => s[i].id <= s[j].id
  BY DEF SortedById
<1>4. Twins(s) \subseteq Nat /\ Twins(s) \subseteq 1..(n - 1)
  BY <1>1 DEF Twins
<1>5. m \in Twins(s) /\ \A y \in Twins(s) : m <= y
  BY <1>4, LeastNat
<1>6. m \in 1..n /\ m \in Nat
  BY <1>1, <1>4, <1>5
<1> HIDE DEF m
<1>7. s[m].id = Min(Twice(s))
  <2>1. s[m].id \in Twice(s)
    BY <1>5, TwinsAreTwice
  <2>2. ASSUME NEW id \in Twice(s) PROVE s[m].id <= id
    <3>1. PICK i \in Twins(s) : s[i].id = id
      BY TwinsAreTwice
    <3>2. i \in 1..n /\ m <= i
      BY <1>1, <1>4, <1>5
    <3>3. m = i \/ m < i
      BY <3>2, <1>6
    <3> QED BY <3>1, <3>2, <3>3, <1>2, <1>3, <1>6
  <2>3. Twice(s) \subseteq Nat
    BY RegistryAssumption DEF Twice
  <2> QED BY <2>1, <2>2, <2>3, LeastIs
<1>8. ASSUME NEW j \in Places(s, s[m].id) PROVE m <= j
  <2>1. j \in 1..n /\ s[j].id = s[m].id
    BY DEF Places
  <2>2. SUFFICES ASSUME j < m PROVE FALSE
    BY <2>1, <1>6
  <2>3. j \in 1..(n - 1) /\ j + 1 \in 1..n /\ j < j + 1 /\ (j + 1 = m \/ j + 1 < m)
    BY <2>1, <2>2, <1>1, <1>6
  <2>4. s[j].id <= s[j + 1].id
    BY <2>1, <2>3, <1>3
  <2>5. s[j + 1].id <= s[m].id
    BY <2>3, <1>2, <1>3, <1>6
  <2>6. s[j + 1].id = s[j].id
    BY <2>1, <2>3, <2>4, <2>5, <1>2
  <2>7. j \in Twins(s)
    BY <2>3, <2>6 DEF Twins
  <2> QED BY <2>1, <2>2, <2>7, <1>5, <1>6
<1> QED BY <1>5, <1>7, <1>8 DEF m

\* take_while from the first place of an id meets all of its places.
RunFrom(s, i) == {j \in i..Len(s) : \A k \in i..j : s[k].id = s[i].id}

LEMMA RunIsPlaces ==
    ASSUME NEW s \in Seq(Registrations), SortedById(s), NEW m \in 1..Len(s),
           \A j \in Places(s, s[m].id) : m <= j
    PROVE  \E e \in m..Len(s) :
               /\ RunFrom(s, m) = m..e
               /\ Places(s, s[m].id) = m..e
<1> DEFINE n == Len(s)
           T == Places(s, s[m].id)
           e == Max(T)
<1>1. n \in Nat /\ m \in Nat /\ m \in Int /\ \A i \in 1..n : s[i] \in Registrations
  OBVIOUS
<1>2. \A i \in 1..n : s[i].id \in Ids /\ s[i].id \in Nat
  BY <1>1, RegistrationFacts
<1>3. \A i, j \in 1..n : i < j => s[i].id <= s[j].id
  BY DEF SortedById
<1>4. T \subseteq 1..n /\ m \in T
  BY DEF Places
<1> HIDE DEF T
<1>5. e \in T /\ \A y \in T : e >= y
  BY <1>1, <1>4, GreatestOfInterval
<1> HIDE DEF e
<1>6. e \in 1..n /\ e \in Int /\ s[e].id = s[m].id /\ m <= e
  BY <1>1, <1>4, <1>5 DEF T, Places
<1>7. ASSUME NEW k \in m..e PROVE k \in 1..n /\ k \in T
  <2>1. k \in 1..n /\ (m = k \/ m < k) /\ (k = e \/ k < e)
    BY <1>1, <1>6
  <2>2. s[m].id <= s[k].id
    BY <2>1, <1>2, <1>3
  <2>3. s[k].id <= s[e].id
    BY <2>1, <1>2, <1>3, <1>6
  <2>4. s[k].id = s[m].id
    BY <2>1, <2>2, <2>3, <1>2, <1>6
  <2> QED BY <2>1, <2>4 DEF T, Places
<1>8. ASSUME NEW k \in T PROVE k \in m..e
  <2>1. m <= k
    BY DEF T
  <2>2. e >= k /\ k \in 1..n
    BY <1>4, <1>5
  <2> QED BY <2>1, <2>2, <1>1, <1>6
<1>9. T = m..e
  BY <1>7, <1>8
<1>10. ASSUME NEW j \in RunFrom(s, m) PROVE j \in m..e
  <2>1. j \in m..n /\ s[j].id = s[m].id
    BY <1>1 DEF RunFrom
  <2>2. j \in 1..n
    BY <2>1, <1>1
  <2> QED BY <2>1, <2>2, <1>9 DEF T, Places
<1>11. ASSUME NEW j \in m..e PROVE j \in RunFrom(s, m)
  <2>1. j \in m..n /\ m..j \subseteq m..e
    BY <1>1, <1>6
  <2>2. \A k \in m..j : s[k].id = s[m].id
    BY <2>1, <1>7 DEF T, Places
  <2> QED BY <2>1, <2>2 DEF RunFrom
<1>12. RunFrom(s, m) = m..e
  BY <1>10, <1>11
<1>13. e \in m..n
  BY <1>1, <1>6
<1> QED BY <1>9, <1>12, <1>13 DEF T

\* The sources of a duplicate are the declarations of its registrations, each
\* as often as it occurs, in order.
LEMMA SourcesFacts ==
    ASSUME NEW s \in Seq(Registrations), SortedById(s), NEW m \in 1..Len(s),
           \A j \in Places(s, s[m].id) : m <= j,
           NEW sources \in SourcesFrom(s, m)
    PROVE  /\ IsSorted(sources, <=)
           /\ \A d \in Descriptors :
                 Cardinality({i \in DOMAIN sources : sources[i] = d})
                   = Cardinality({i \in 1..Len(s) : s[i] = [id |-> s[m].id, desc |-> d]})
<1> DEFINE n == Len(s)
<1>1. n \in Nat /\ m \in Nat /\ m \in Int /\ \A i \in 1..n : s[i] \in Registrations
  OBVIOUS
<1>2. PICK e \in m..n : RunFrom(s, m) = m..e /\ Places(s, s[m].id) = m..e
  BY RunIsPlaces
<1> DEFINE c == e - m + 1
           raw == [j \in 1..c |-> s[m + j - 1].desc]
<1>3. e \in Int /\ m <= e /\ e <= n /\ c \in Nat
  BY <1>1, <1>2
<1>4. Cardinality(RunFrom(s, m)) = c
  <2>1. Cardinality(m..e) = c
    BY <1>1, <1>3, FS_Interval
  <2> QED BY <2>1, <1>2
<1>5. \A j \in 1..c : m + j - 1 \in m..e /\ m + j - 1 \in 1..n
  BY <1>1, <1>3
<1>6. \A j \in 1..c : raw[j] = s[m + j - 1].desc /\ s[m + j - 1].id = s[m].id
  BY <1>2, <1>5 DEF Places
<1>7. raw \in [1..c -> Nat]
  <2>1. \A j \in 1..c : s[m + j - 1].desc \in Nat
    BY <1>1, <1>5, RegistrationFacts
  <2> QED BY <2>1
<1>8. PICK order \in SortOrders(raw) : sources = Rearranged(raw, order)
  BY <1>4 DEF SourcesFrom, RunFrom
<1> HIDE DEF raw, c
<1>9. /\ OneToOne(c, order)
      /\ \A i, j \in 1..c : i < j => raw[order[i]] <= raw[order[j]]
  BY <1>3, <1>7, <1>8, SortOrderFacts
<1>10. sources = [j \in 1..c |-> raw[order[j]]]
  BY <1>7, <1>8 DEF Rearranged
<1>11. /\ DOMAIN sources = 1..c /\ Len(sources) = c
       /\ \A j \in 1..c : sources[j] = raw[order[j]] /\ order[j] \in 1..c
  BY <1>3, <1>9, <1>10 DEF OneToOne
<1>12. IsSorted(sources, <=)
  BY <1>9, <1>11 DEF IsSorted
<1>13. ASSUME NEW d \in Descriptors
       PROVE  Cardinality({i \in 1..c : sources[i] = d})
                = Cardinality({i \in 1..n : s[i] = [id |-> s[m].id, desc |-> d]})
  <2> DEFINE A == {i \in 1..c : sources[i] = d}
             B == {j \in 1..c : raw[j] = d}
             C == {i \in 1..n : s[i] = [id |-> s[m].id, desc |-> d]}
             f == [j \in B |-> m + j - 1]
  <2>1. A = PlacesOf(c, order, B) /\ B \subseteq 1..c
    BY <1>11 DEF PlacesOf
  <2>2. Cardinality(A) = Cardinality(B)
    <3> HIDE DEF A, B
    <3>1. Cardinality(PlacesOf(c, order, B)) = Cardinality(B)
      BY <2>1, <1>3, <1>9, ArrangedCount
    <3> QED BY <2>1, <3>1
  <2>3. IsFiniteSet(B)
    <3> HIDE DEF B
    <3> QED BY <2>1, <1>3, FiniteIndices
  <2>4. \A j \in B : m + j - 1 \in C
    <3> SUFFICES ASSUME NEW j \in B PROVE m + j - 1 \in C
      OBVIOUS
    <3>1. j \in 1..c /\ raw[j] = d
      OBVIOUS
    <3>2. m + j - 1 \in 1..n /\ s[m + j - 1].desc = d /\ s[m + j - 1].id = s[m].id
      BY <3>1, <1>5, <1>6
    <3>3. s[m + j - 1] = [id |-> s[m + j - 1].id, desc |-> s[m + j - 1].desc]
      BY <3>2, <1>1, RegistrationFacts
    <3> QED BY <3>2, <3>3
  <2>5. \A i, j \in B : f[i] = f[j] => i = j
    BY <1>1, <1>3
  <2>6. ASSUME NEW k \in C PROVE \E j \in B : f[j] = k
    <3>1. k \in 1..n /\ s[k].id = s[m].id /\ s[k].desc = d
      OBVIOUS
    <3>2. k \in m..e
      BY <3>1, <1>2 DEF Places
    <3>3. k - m + 1 \in 1..c /\ m + (k - m + 1) - 1 = k
      BY <3>1, <3>2, <1>1, <1>3 DEF c
    <3>4. raw[k - m + 1] = d
      BY <3>1, <3>3, <1>6
    <3> QED BY <3>3, <3>4
  <2>7. f \in [B -> C]
    BY <2>4
  <2> HIDE DEF A, B, C, f
  <2>8. Corresponds(B, C, f)
    BY <2>5, <2>6, <2>7 DEF Corresponds
  <2>9. Cardinality(B) = Cardinality(C)
    BY <2>3, <2>8, SameCount
  <2> QED BY <2>2, <2>9 DEF A, C
<1> QED BY <1>11, <1>12, <1>13

-----------------------------------------------------------------------------
(* build answers from the bag of the registrations.                          *)

\* Without twins every id is at one place, the one its index names.
LEMMA IndexFacts ==
    ASSUME NEW s \in Seq(Registrations), SortedById(s), Twins(s) = {},
           NEW result \in Freeze(s)
    PROVE  /\ result.tag = "Ok" /\ result.regs = s
           /\ \A id \in Ids : Get(result, id) = {r \in Range(s) : r.id = id}
<1> DEFINE n == Len(s)
           indices == [id \in {s[i].id : i \in DOMAIN s} |->
                          CHOOSE i \in DOMAIN s : s[i].id = id]
<1>1. n \in Nat /\ DOMAIN s = 1..n /\ \A i \in 1..n : s[i] \in Registrations
  OBVIOUS
<1>2. result = Frozen(s, indices)
  BY DEF Freeze, Twins
<1>3. ASSUME NEW i \in 1..n, NEW j \in 1..n, s[i].id = s[j].id, i < j
      PROVE  FALSE
  <2>1. i \in Places(s, s[i].id) /\ j \in Places(s, s[i].id) /\ s[i].id \in Ids
    BY <1>1, <1>3, RegistrationFacts DEF Places
  <2>2. s[i].id \in Twice(s)
    BY <2>1, <1>3, TwiceFacts
  <2> QED BY <2>2, TwinsAreTwice
<1>4. \A i, j \in 1..n : s[i].id = s[j].id => i = j
  <2> SUFFICES ASSUME NEW i \in 1..n, NEW j \in 1..n, s[i].id = s[j].id
               PROVE  i = j
    OBVIOUS
  <2>1. ~(i < j) /\ ~(j < i)
    BY <1>3
  <2> QED BY <2>1
<1>5. result.tag = "Ok" /\ result.regs = s /\ result.indices = indices
  BY <1>2 DEF Frozen
<1>6. ASSUME NEW id \in Ids, NEW k \in 1..n, s[k].id = id
      PROVE  Get(result, id) = {r \in Range(s) : r.id = id}
  <2>1. id \in DOMAIN indices /\ indices[id] \in 1..n /\ s[indices[id]].id = id
    BY <1>1, <1>6
  <2>2. indices[id] = k
    BY <2>1, <1>4, <1>6
  <2>3. Get(result, id) = {s[k]}
    BY <2>1, <2>2, <1>5 DEF Get
  <2>4. \A r \in Range(s) : r.id = id => r = s[k]
    BY <1>1, <1>4, <1>6 DEF Range
  <2>5. s[k] \in Range(s)
    BY <1>1 DEF Range
  <2> QED BY <2>3, <2>4, <2>5, <1>6
<1>7. ASSUME NEW id \in Ids, \A k \in 1..n : s[k].id # id
      PROVE  Get(result, id) = {r \in Range(s) : r.id = id}
  <2>1. id \notin DOMAIN indices
    BY <1>1, <1>7
  <2>2. Get(result, id) = {}
    BY <2>1, <1>5 DEF Get
  <2> QED BY <2>2, <1>1, <1>7 DEF Range
<1> HIDE DEF n, indices
<1> QED BY <1>5, <1>6, <1>7

LEMMA FreezeDescribes ==
    ASSUME NEW regs \in Seq(Registrations), NEW s \in Seq(Registrations),
           Len(s) = Len(regs), SortedById(s), NEW p, Arranges(s, regs, p),
           NEW result \in Freeze(s)
    PROVE  Describes(result, regs)
<1>1. DOMAIN regs = 1..Len(s) /\ DOMAIN s = 1..Len(s) /\ Len(s) \in Nat
  OBVIOUS
<1>2. /\ Range(s) = Range(regs)
      /\ \A x : Cardinality({i \in 1..Len(s) : s[i] = x})
                   = Cardinality({i \in 1..Len(regs) : regs[i] = x})
  BY ArrangedFacts
<1>3. Twice(s) = Twice(regs)
  BY ArrangedTwice
<1>4. CASE Twins(s) = {}
  <2>1. Twice(regs) = {}
    BY <1>3, <1>4, TwinsAreTwice
  <2>2. /\ result.tag = "Ok" /\ result.regs = s
        /\ \A id \in Ids : Get(result, id) = {r \in Range(s) : r.id = id}
    BY <1>4, IndexFacts
  <2>3. ToBag(s) = ToBag(regs)
    <3>1. ToBag(s) = [x \in Range(s) |-> Cardinality({i \in 1..Len(s) : s[i] = x})]
      BY <1>1 DEF ToBag
    <3>2. ToBag(regs) = [x \in Range(regs) |->
                            Cardinality({i \in 1..Len(regs) : regs[i] = x})]
      BY <1>1 DEF ToBag
    <3> QED BY <3>1, <3>2, <1>2
  <2>4. IsSorted(result.regs, LAMBDA a, b : a.id <= b.id)
    BY <2>2 DEF IsSorted, SortedById
  <2> QED BY <2>1, <2>2, <2>3, <2>4, <1>2 DEF Describes
<1>5. CASE Twins(s) # {}
  <2> DEFINE m == Min(Twins(s))
  <2>1. /\ m \in Twins(s)
        /\ s[m].id = Min(Twice(s))
        /\ \A j \in Places(s, s[m].id) : m <= j
    BY <1>5, FirstTwin
  <2>2. m \in 1..Len(s)
    BY <2>1, <1>1 DEF Twins
  <2>3. Twice(regs) # {}
    BY <1>3, <2>1, TwinsAreTwice
  <2>4. PICK sources \in SourcesFrom(s, m) : result = DuplicateId(s[m].id, sources)
    BY <1>5 DEF Freeze, Twins
  <2> HIDE DEF m
  <2>5. /\ IsSorted(sources, <=)
        /\ \A d \in Descriptors :
              Cardinality({i \in DOMAIN sources : sources[i] = d})
                = Cardinality({i \in 1..Len(s) : s[i] = [id |-> s[m].id, desc |-> d]})
    BY <2>1, <2>2, SourcesFacts
  <2>6. result.tag = "DuplicateId" /\ result.id = Min(Twice(regs)) /\ result.sources = sources
    BY <2>1, <2>4, <1>3 DEF DuplicateId
  <2>7. ASSUME NEW d \in Descriptors
        PROVE  Cardinality({i \in DOMAIN result.sources : result.sources[i] = d})
                 = Cardinality({i \in DOMAIN regs :
                                   regs[i] = [id |-> Min(Twice(regs)), desc |-> d]})
    <3> DEFINE x == [id |-> s[m].id, desc |-> d]
    <3>1. Cardinality({i \in 1..Len(s) : s[i] = x})
            = Cardinality({i \in 1..Len(regs) : regs[i] = x})
      BY <1>2
    <3>2. x = [id |-> Min(Twice(regs)), desc |-> d]
      BY <2>1, <1>3
    <3>3. Cardinality({i \in DOMAIN sources : sources[i] = d})
            = Cardinality({i \in 1..Len(s) : s[i] = x})
      BY <2>5
    <3> HIDE DEF x
    <3> QED BY <3>1, <3>2, <3>3, <2>6, <1>1
  <2> QED BY <2>3, <2>5, <2>6, <2>7 DEF Describes
<1> QED BY <1>4, <1>5

\* The same registrations in link order, and in the opposite one.
LEMMA BuildDescribes ==
    ASSUME NEW regs \in Seq(Registrations), NEW result \in BuildRegistry(regs)
    PROVE  Describes(result, regs)
<1>1. PICK s \in Sorted(regs) : result \in Freeze(s)
  BY DEF BuildRegistry
<1>2. /\ s \in Seq(Registrations) /\ Len(s) = Len(regs)
      /\ SortedById(s) /\ \E p : Arranges(s, regs, p)
  BY SortedFacts
<1> QED BY <1>1, <1>2, FreezeDescribes

LEMMA BuildReverseDescribes ==
    ASSUME NEW regs \in Seq(Registrations), NEW result \in BuildRegistry(Reverse(regs))
    PROVE  Describes(result, regs)
<1> DEFINE n == Len(regs)
           rev == Reverse(regs)
<1>1. n \in Nat /\ \A i \in 1..n : regs[i] \in Registrations
  OBVIOUS
<1>2. rev = [i \in 1..n |-> regs[(n - i) + 1]]
  BY DEF Reverse
<1>3. \A i \in 1..n : (n - i) + 1 \in 1..n
  BY <1>1
<1>4. rev \in Seq(Registrations) /\ Len(rev) = n /\ \A i \in 1..n : rev[i] = regs[(n - i) + 1]
  BY <1>1, <1>2, <1>3
<1>5. PICK s \in Sorted(rev) : result \in Freeze(s)
  BY DEF BuildRegistry
<1> HIDE DEF rev
<1>6. /\ s \in Seq(Registrations) /\ Len(s) = n /\ SortedById(s)
      /\ \E p : Arranges(s, rev, p)
  BY <1>4, <1>5, SortedFacts
<1>7. PICK p : Arranges(s, rev, p)
  BY <1>6
<1>8. OneToOne(n, p) /\ \A i \in 1..n : s[i] = rev[p[i]]
  BY <1>4, <1>7 DEF Arranges
<1>9. \A i \in 1..n : p[i] \in 1..n /\ p[i] \in Int
  BY <1>8 DEF OneToOne
<1> DEFINE q == [i \in 1..n |-> (n - p[i]) + 1]
<1>10. q \in [1..n -> 1..n]
  BY <1>3, <1>9
<1>11. \A i, j \in 1..n : q[i] = q[j] => i = j
  <2> SUFFICES ASSUME NEW i \in 1..n, NEW j \in 1..n, q[i] = q[j] PROVE i = j
    OBVIOUS
  <2>1. p[i] = p[j]
    BY <1>1, <1>9
  <2> QED BY <2>1, <1>8 DEF OneToOne
<1>12. \A i \in 1..n : s[i] = regs[q[i]]
  BY <1>4, <1>8, <1>9
<1> HIDE DEF q
<1>13. Arranges(s, regs, q)
  BY <1>10, <1>11, <1>12 DEF Arranges, OneToOne
<1> QED BY <1>5, <1>6, <1>13, FreezeDescribes

LEMMA EmptyDescribes ==
    Describes(EmptyRegistry, <<>>)
<1>1. Range(<<>>) = {} /\ Len(<<>>) = 0 /\ DOMAIN <<>> = {}
  BY DEF Range
<1>2. Twice(<<>>) = {}
  <2>1. <<>> \in Seq(Registrations) /\ \A id : Places(<<>>, id) = {}
    BY <1>1 DEF Places
  <2> QED BY <2>1, TwiceFacts
<1>3. EmptyRegistry.tag = "Ok" /\ EmptyRegistry.regs = <<>> /\ EmptyRegistry.indices = <<>>
  BY DEF EmptyRegistry, Frozen
<1>4. \A id : Get(EmptyRegistry, id) = {}
  BY <1>1, <1>3 DEF Get
<1>5. IsSorted(<<>>, LAMBDA a, b : a.id <= b.id)
  BY DEF IsSorted
<1> QED BY <1>1, <1>2, <1>3, <1>4, <1>5 DEF Describes

\* A registry is an answer when no id is there twice, an error when one is.
LEMMA DescribesTag ==
    ASSUME NEW result, NEW regs, Describes(result, regs)
    PROVE  result.tag # "Ok" <=> Twice(regs) # {}
  BY DEF Describes

-----------------------------------------------------------------------------
(* The inductive invariant.                                                  *)

\* What thread t is doing, and what a cell may hold.
CallOK(call, links) ==
    /\ call.pc \in {"building", "waiting", "has"} => call.wire \in Wires
    /\ call.pc = "id" =>
          call.bytes \in Seq(ByteClasses) /\ call.outcome = Validate(call.bytes)
    /\ call.pc = "has" => Describes(call.result, links[call.wire])
    /\ call.pc = "panicked" => Twice(links[call.wire]) # {}
    /\ call.pc = "ran" =>
          /\ [id |-> call.id, desc |-> call.codec] \in Range(links[call.wire])
          /\ (call.outcome = "TypeMismatch") <=> (call.type # call.codec)

CellOK(result, regs) == result \notin {Uninit, Busy} => Describes(result, regs)

LEMMA IInvParts ==
    IInv <=> /\ DOMAIN linked = Wires /\ DOMAIN cell = Wires /\ DOMAIN at = Threads
             /\ \A w \in Wires : linked[w] \in Seq(Registrations)
             /\ \A w \in Wires : CellOK(cell[w], linked[w])
             /\ \A t \in Threads : CallOK(at[t], linked)
  BY Zenon DEF IInv, SameAnswerForEveryone, CellOK, CallOK

\* A step that changes the call of one thread and at most one cell.
LEMMA StepKeepsIInv ==
    ASSUME IInv, linked' = linked, NEW t \in Threads, NEW call, CallOK(call, linked),
           at' = [at EXCEPT ![t] = call],
           DOMAIN cell' = Wires, \A w \in Wires : CellOK(cell'[w], linked[w])
    PROVE  IInv'
<1>1. /\ DOMAIN linked = Wires /\ DOMAIN at = Threads
      /\ \A w \in Wires : linked[w] \in Seq(Registrations)
      /\ \A u \in Threads : CallOK(at[u], linked)
  BY IInvParts
<1>2. DOMAIN at' = Threads /\ \A u \in Threads : at'[u] = IF u = t THEN call ELSE at[u]
  BY <1>1
<1>3. \A u \in Threads : CallOK(at'[u], linked')
  <2> SUFFICES ASSUME NEW u \in Threads PROVE CallOK(at'[u], linked')
    OBVIOUS
  <2>1. CASE u = t
    BY <2>1, <1>2
  <2>2. CASE u # t
    BY <2>2, <1>1, <1>2
  <2> QED BY <2>1, <2>2
<1>4. /\ DOMAIN linked' = Wires /\ DOMAIN cell' = Wires /\ DOMAIN at' = Threads
      /\ \A w \in Wires : linked'[w] \in Seq(Registrations)
      /\ \A w \in Wires : CellOK(cell'[w], linked'[w])
  BY <1>1, <1>2
<1> QED BY <1>3, <1>4, Zenon DEF IInv, SameAnswerForEveryone, CellOK, CallOK

LEMMA ReturnedOK ==
    ASSUME IInv, NEW w \in Wires, NEW op, NEW result, Describes(result, linked[w])
    PROVE  CallOK(Returned(op, w, result), linked)
<1>1. result.tag # "Ok" <=> Twice(linked[w]) # {}
  BY DescribesTag
<1> DEFINE call == Returned(op, w, result)
<1> SUFFICES CallOK(call, linked)
  OBVIOUS
<1>2. CASE op = "global" /\ result.tag # "Ok"
  <2>1. call.pc = "panicked" /\ call.wire = w
    BY <1>2 DEF Returned
  <2> HIDE DEF call
  <2> QED BY <2>1, <1>1, <1>2 DEF CallOK
<1>3. CASE ~(op = "global" /\ result.tag # "Ok")
  <2>1. call.pc = "has" /\ call.wire = w /\ call.result = result
    BY <1>3 DEF Returned, Has
  <2> HIDE DEF call
  <2> QED BY <2>1 DEF CallOK
<1> QED BY <1>2, <1>3

LEMMA InitIInv ==
    Init => IInv
<1> SUFFICES ASSUME Init PROVE IInv
  OBVIOUS
<1>1. DOMAIN linked = Wires /\ \A w \in Wires : linked[w] \in Seq(Registrations)
  <2>1. linked \in [Wires -> UNION {BoundedSeq(Registrations, n) : n \in Range(MaxLinked)}]
    BY DEF Init
  <2>2. ASSUME NEW n, NEW x \in BoundedSeq(Registrations, n)
        PROVE  x \in Seq(Registrations)
    BY DEF BoundedSeq, SeqOf
  <2> QED BY <2>1, <2>2
<1>2. DOMAIN cell = Wires /\ \A w \in Wires : CellOK(cell[w], linked[w])
  BY DEF Init, CellOK
<1>3. DOMAIN at = Threads /\ \A t \in Threads : at[t].pc = "idle"
  BY DEF Init, Idle
<1>4. \A t \in Threads : CallOK(at[t], linked)
  BY <1>3 DEF CallOK
<1> QED BY <1>1, <1>2, <1>3, <1>4, IInvParts

LEMMA TryGlobalIInv ==
    ASSUME IInv, NEW t \in Threads, NEW op \in {"try_global", "global"}, NEW w \in Wires,
           TryGlobal(t, op, w)
    PROVE  IInv'
<1>1. DOMAIN cell = Wires /\ \A v \in Wires : CellOK(cell[v], linked[v])
  BY IInvParts
<1>2. linked' = linked
  BY DEF TryGlobal
<1>3. CASE EnterFull(t, op, w)
  <2>1. /\ at' = [at EXCEPT ![t] = Returned(op, w, cell[w])] /\ cell' = cell
        /\ Describes(cell[w], linked[w])
    BY <1>1, <1>3 DEF EnterFull, CellOK
  <2>2. CallOK(Returned(op, w, cell[w]), linked)
    BY <2>1, ReturnedOK
  <2> QED BY <1>1, <1>2, <2>1, <2>2, StepKeepsIInv
<1>4. CASE EnterFirst(t, op, w)
  <2>1. at' = [at EXCEPT ![t] = In("building", op, w)] /\ cell' = [cell EXCEPT ![w] = Busy]
    BY <1>4 DEF EnterFirst
  <2>2. CallOK(In("building", op, w), linked)
    BY DEF CallOK, In
  <2>3. DOMAIN cell' = Wires /\ \A v \in Wires : CellOK(cell'[v], linked[v])
    BY <1>1, <2>1 DEF CellOK
  <2> QED BY <1>2, <2>1, <2>2, <2>3, StepKeepsIInv
<1>5. CASE EnterBusy(t, op, w)
  <2>1. at' = [at EXCEPT ![t] = In("waiting", op, w)] /\ cell' = cell
    BY <1>5 DEF EnterBusy
  <2>2. CallOK(In("waiting", op, w), linked)
    BY DEF CallOK, In
  <2> QED BY <1>1, <1>2, <2>1, <2>2, StepKeepsIInv
<1> QED BY <1>3, <1>4, <1>5 DEF TryGlobal

LEMMA BuildIInv ==
    ASSUME IInv, NEW t \in Threads, Build(t)
    PROVE  IInv'
<1> DEFINE w == at[t].wire
<1>1. /\ DOMAIN cell = Wires /\ \A v \in Wires : CellOK(cell[v], linked[v])
      /\ \A v \in Wires : linked[v] \in Seq(Registrations)
      /\ CallOK(at[t], linked)
  BY IInvParts
<1>2. at[t].pc = "building" /\ linked' = linked
  BY DEF Build
<1>3. w \in Wires
  BY <1>1, <1>2 DEF CallOK
<1>4. PICK result \in BuildRegistry(linked[w]) :
         /\ cell' = [cell EXCEPT ![w] = result]
         /\ at' = [at EXCEPT ![t] = Returned(at[t].op, w, result)]
  BY DEF Build
<1>5. Describes(result, linked[w])
  BY <1>1, <1>3, BuildDescribes
<1> HIDE DEF w
<1>6. CallOK(Returned(at[t].op, w, result), linked)
  BY <1>3, <1>5, ReturnedOK
<1>7. DOMAIN cell' = Wires /\ \A v \in Wires : CellOK(cell'[v], linked[v])
  BY <1>1, <1>4, <1>5 DEF CellOK
<1> QED BY <1>2, <1>4, <1>6, <1>7, StepKeepsIInv

LEMMA WakeIInv ==
    ASSUME IInv, NEW t \in Threads, Wake(t)
    PROVE  IInv'
<1> DEFINE w == at[t].wire
<1>1. /\ DOMAIN cell = Wires /\ \A v \in Wires : CellOK(cell[v], linked[v])
      /\ CallOK(at[t], linked)
  BY IInvParts
<1>2. /\ at[t].pc = "waiting" /\ linked' = linked /\ cell' = cell
      /\ cell[w] \notin {Uninit, Busy}
      /\ at' = [at EXCEPT ![t] = Returned(at[t].op, w, cell[w])]
  BY DEF Wake
<1>3. w \in Wires
  BY <1>1, <1>2 DEF CallOK
<1>4. Describes(cell[w], linked[w])
  BY <1>1, <1>2, <1>3 DEF CellOK
<1> HIDE DEF w
<1>5. CallOK(Returned(at[t].op, w, cell[w]), linked)
  BY <1>3, <1>4, ReturnedOK
<1> QED BY <1>1, <1>2, <1>5, StepKeepsIInv

LEMMA FromRegistrationsIInv ==
    ASSUME IInv, NEW t \in Threads, NEW w \in Wires, FromRegistrations(t, w)
    PROVE  IInv'
<1>1. /\ DOMAIN cell = Wires /\ \A v \in Wires : CellOK(cell[v], linked[v])
      /\ linked[w] \in Seq(Registrations)
  BY IInvParts
<1>2. linked' = linked /\ cell' = cell
  BY DEF FromRegistrations
<1>3. PICK result \in BuildRegistry(Reverse(linked[w])) :
         at' = [at EXCEPT ![t] = Has(w, result)]
  BY DEF FromRegistrations
<1>4. Describes(result, linked[w])
  BY <1>1, BuildReverseDescribes
<1>5. CallOK(Has(w, result), linked)
  BY <1>4 DEF CallOK, Has
<1> QED BY <1>1, <1>2, <1>3, <1>5, StepKeepsIInv

LEMMA EmptyIInv ==
    ASSUME IInv, NEW t \in Threads, NEW w \in Wires, Empty(t, w)
    PROVE  IInv'
<1>1. DOMAIN cell = Wires /\ \A v \in Wires : CellOK(cell[v], linked[v])
  BY IInvParts
<1>2. /\ linked' = linked /\ cell' = cell /\ linked[w] = <<>>
      /\ at' = [at EXCEPT ![t] = Has(w, EmptyRegistry)]
  BY DEF Empty
<1>3. Describes(EmptyRegistry, linked[w])
  BY <1>2, EmptyDescribes
<1>4. CallOK(Has(w, EmptyRegistry), linked)
  BY <1>3 DEF CallOK, Has
<1> QED BY <1>1, <1>2, <1>4, StepKeepsIInv

\* What an erased call finds was registered under the id it asked for.
LEMMA ExecuteIInv ==
    ASSUME IInv, NEW t \in Threads, NEW id \in Ids, Execute(t, id)
    PROVE  IInv'
<1> DEFINE w == at[t].wire
<1>1. /\ DOMAIN cell = Wires /\ \A v \in Wires : CellOK(cell[v], linked[v])
      /\ \A v \in Wires : linked[v] \in Seq(Registrations)
      /\ CallOK(at[t], linked)
  BY IInvParts
<1>2. at[t].pc = "has" /\ at[t].result.tag = "Ok" /\ linked' = linked /\ cell' = cell
  BY DEF Execute
<1>3. w \in Wires /\ Describes(at[t].result, linked[w])
  BY <1>1, <1>2 DEF CallOK
<1>4. PICK reg \in Get(at[t].result, id), type \in Descriptors :
         \E outcome \in EncodeOutcomes(reg, type) \cup
                        (IF type = reg.desc THEN DecodeOutcomes ELSE {}) :
             at' = [at EXCEPT ![t] = Ran(w, id, type, outcome, reg.desc)]
  BY DEF Execute
<1>5. PICK outcome \in EncodeOutcomes(reg, type) \cup
                       (IF type = reg.desc THEN DecodeOutcomes ELSE {}) :
         at' = [at EXCEPT ![t] = Ran(w, id, type, outcome, reg.desc)]
  BY <1>4
<1>6. Twice(linked[w]) = {}
  BY <1>2, <1>3, DescribesTag
<1>7. Get(at[t].result, id) = {r \in Range(linked[w]) : r.id = id}
  BY <1>3, <1>6 DEF Describes
<1>8. reg \in Range(linked[w]) /\ reg.id = id
  BY <1>4, <1>7
<1>9. reg \in Registrations
  BY <1>1, <1>3, <1>8 DEF Range
<1>10. [id |-> id, desc |-> reg.desc] = reg
  BY <1>8, <1>9, RegistrationFacts
<1>11. (outcome = "TypeMismatch") <=> (type # reg.desc)
  BY <1>5 DEF EncodeOutcomes, DecodeOutcomes, CodecEncodes, CodecDecodes
<1> DEFINE call == Ran(w, id, type, outcome, reg.desc)
<1>12. /\ call.pc = "ran" /\ call.id = id /\ call.codec = reg.desc /\ call.wire = w
       /\ call.type = type /\ call.outcome = outcome
  BY DEF Ran
<1>13. at' = [at EXCEPT ![t] = call]
  BY <1>5
<1> HIDE DEF w, call
<1>14. CallOK(call, linked)
  BY <1>8, <1>10, <1>11, <1>12 DEF CallOK
<1> QED BY <1>1, <1>2, <1>13, <1>14, StepKeepsIInv

LEMMA TryNewIInv ==
    ASSUME IInv, NEW t \in Threads, TryNew(t)
    PROVE  IInv'
<1>1. DOMAIN cell = Wires /\ \A v \in Wires : CellOK(cell[v], linked[v])
  BY IInvParts
<1>2. linked' = linked /\ cell' = cell
  BY DEF TryNew
<1>3. PICK bytes \in BoundedSeq(ByteClasses, MaxId) :
         at' = [at EXCEPT ![t] =
                   [pc |-> "id", bytes |-> bytes, outcome |-> Validate(bytes)]]
  BY DEF TryNew
<1>4. bytes \in Seq(ByteClasses)
  BY DEF BoundedSeq, SeqOf
<1>5. CallOK([pc |-> "id", bytes |-> bytes, outcome |-> Validate(bytes)], linked)
  BY <1>4 DEF CallOK
<1> QED BY <1>1, <1>2, <1>3, <1>5, StepKeepsIInv

LEMMA DropIInv ==
    ASSUME IInv, NEW t \in Threads, Drop(t)
    PROVE  IInv'
<1>1. DOMAIN cell = Wires /\ \A v \in Wires : CellOK(cell[v], linked[v])
  BY IInvParts
<1>2. linked' = linked /\ cell' = cell /\ at' = [at EXCEPT ![t] = Idle]
  BY DEF Drop
<1>3. CallOK(Idle, linked)
  BY DEF CallOK, Idle
<1> QED BY <1>1, <1>2, <1>3, StepKeepsIInv

LEMMA NextIInv ==
    IInv /\ [Next]_vars => IInv'
<1> SUFFICES ASSUME IInv, [Next]_vars PROVE IInv'
  OBVIOUS
<1>1. CASE UNCHANGED vars
  BY <1>1 DEF vars, IInv, SameAnswerForEveryone
<1>2. ASSUME NEW t \in Threads, NEW w \in Wires, NEW op \in {"try_global", "global"},
             TryGlobal(t, op, w)
      PROVE  IInv'
  BY <1>2, TryGlobalIInv
<1>3. ASSUME NEW t \in Threads, Build(t) PROVE IInv'
  BY <1>3, BuildIInv
<1>4. ASSUME NEW t \in Threads, Wake(t) PROVE IInv'
  BY <1>4, WakeIInv
<1>5. ASSUME NEW t \in Threads, NEW w \in Wires, FromRegistrations(t, w) PROVE IInv'
  BY <1>5, FromRegistrationsIInv
<1>6. ASSUME NEW t \in Threads, NEW w \in Wires, Empty(t, w) PROVE IInv'
  BY <1>6, EmptyIInv
<1>7. ASSUME NEW t \in Threads, NEW id \in Ids, Execute(t, id) PROVE IInv'
  BY <1>7, ExecuteIInv
<1>8. ASSUME NEW t \in Threads, TryNew(t) PROVE IInv'
  BY <1>8, TryNewIInv
<1>9. ASSUME NEW t \in Threads, Drop(t) PROVE IInv'
  BY <1>9, DropIInv
<1> QED BY <1>1, <1>2, <1>3, <1>4, <1>5, <1>6, <1>7, <1>8, <1>9 DEF Next

(* The invariant that makes the answers agree: whatever a thread or a cell  *)
(* holds was built from the registrations of a wire, which do not change    *)
(* (try_global, from_registrations, the descriptors' encode and decode).    *)
THEOREM InductiveInvariant ==
    Spec => []IInv
<1>1. Init => IInv
  BY InitIInv
<1>2. IInv /\ [Next]_vars => IInv'
  BY NextIInv
<1> QED BY <1>1, <1>2, PTL DEF Spec

(* Every thread of every program gets the same answer for a wire, from the  *)
(* shared registry or from one of its own, in any link order and whichever  *)
(* thread builds first: build depends on the bag of registrations alone,    *)
(* names the least duplicate with all of its sources in order, and an       *)
(* erased call runs a codec registered under the id it asked for.           *)
THEOREM SameAnswer ==
    Spec => []SameAnswerForEveryone
<1>1. IInv => SameAnswerForEveryone
  BY DEF IInv
<1> QED BY <1>1, InductiveInvariant, PTL

-----------------------------------------------------------------------------
(* The validation of ids.                                                    *)

\* Where a segment ends: at a dot, or after the last byte.
Ends(bytes) ==
    {i \in 1..Len(bytes) : bytes[i] = "dot"} \cup {Len(bytes) + 1}

SegmentAt(bytes, end) == SubSeq(bytes, SegmentStart(bytes, end), end - 1)

\* A segment begins after the dot before it, or with the id.
LEMMA StartFacts ==
    ASSUME NEW bytes \in Seq(ByteClasses), NEW end \in Ends(bytes)
    PROVE  LET start == SegmentStart(bytes, end)
           IN  /\ start \in 1..end
               /\ start = 1 \/ bytes[start - 1] = "dot"
               /\ \A i \in start..(end - 1) : bytes[i] # "dot"
<1> DEFINE n == Len(bytes)
           I == {i \in 1..(end - 1) : bytes[i] = "dot"}
           start == SegmentStart(bytes, end)
<1>1. n \in Nat /\ end \in 1..(n + 1)
  BY DEF Ends
<1>2. start = 1 + (IF I # {} THEN Max(I) ELSE 0)
  BY DEF SegmentStart, SelectLastInSubSeq
<1>3. CASE I = {}
  <2>1. start = 1
    BY <1>2, <1>3
  <2>2. \A i \in 1..(end - 1) : bytes[i] # "dot"
    BY <1>3
  <2> HIDE DEF start
  <2> QED BY <2>1, <2>2, <1>1 DEF start
<1>4. CASE I # {}
  <2>1. Max(I) \in I /\ \A y \in I : Max(I) >= y
    <3>1. I \subseteq 1..(end - 1) /\ end - 1 \in Nat
      BY <1>1
    <3> HIDE DEF I
    <3> QED BY <3>1, <1>4, GreatestOfInterval
  <2> DEFINE m == Max(I)
  <2>2. m \in 1..(end - 1) /\ bytes[m] = "dot" /\ start = 1 + m
    BY <2>1, <1>2, <1>4
  <2>3. ASSUME NEW i \in (1 + m)..(end - 1), bytes[i] = "dot" PROVE FALSE
    <3>1. i \in I
      BY <2>2, <2>3, <1>1
    <3>2. m >= i
      BY <3>1, <2>1
    <3> QED BY <3>2, <2>2, <1>1
  <2> HIDE DEF start, m, I
  <2>4. start \in 1..end /\ start - 1 = m
    BY <2>2, <1>1
  <2> QED BY <2>2, <2>3, <2>4 DEF start
<1> QED BY <1>3, <1>4

\* The segments are what ends at a dot or with the id.
LEMMA SegmentsFacts ==
    ASSUME NEW bytes \in Seq(ByteClasses)
    PROVE  Segments(bytes) = {SegmentAt(bytes, end) : end \in Ends(bytes)}
<1> DEFINE n == Len(bytes)
           dots == {i \in 1..n : bytes[i] = "dot"} \cup {0, n + 1}
           After(i) == {j \in dots : j > i}
<1>1. n \in Nat
  OBVIOUS
<1>2. dots \subseteq Nat /\ Ends(bytes) = dots \ {0} /\ 0 \in dots /\ n + 1 \in dots
  BY <1>1 DEF Ends
<1>3. Segments(bytes) = {SubSeq(bytes, i + 1, Min(After(i)) - 1) : i \in dots \ {n + 1}}
  BY DEF Segments
<1>4. ASSUME NEW i \in dots \ {n + 1}
      PROVE  /\ Min(After(i)) \in Ends(bytes)
             /\ SegmentStart(bytes, Min(After(i))) = i + 1
  <2> DEFINE e == Min(After(i))
             start == SegmentStart(bytes, e)
  <2>1. i \in 0..n /\ (i = 0 \/ bytes[i] = "dot") /\ After(i) \subseteq Nat
    BY <1>1, <1>2
  <2>2. n + 1 \in After(i)
    BY <2>1, <1>1
  <2>3. e \in After(i) /\ \A y \in After(i) : e <= y
    <3> HIDE DEF After, e
    <3> QED BY <2>1, <2>2, LeastNat DEF e
  <2>4. e \in dots /\ e > i /\ e \in Ends(bytes) /\ e \in 1..(n + 1)
    BY <2>1, <2>3, <1>1, <1>2
  <2>5. /\ start \in 1..e
        /\ start = 1 \/ bytes[start - 1] = "dot"
        /\ \A k \in start..(e - 1) : bytes[k] # "dot"
    <3> HIDE DEF e
    <3> QED BY <2>4, StartFacts
  <2>6. \A k \in dots : k > i => e <= k
    BY <2>3
  <2> HIDE DEF e, start
  <2>7. ~(start - 1 > i)
    <3> SUFFICES ASSUME start - 1 > i PROVE FALSE
      OBVIOUS
    <3>1. start - 1 \in 1..n /\ start # 1 /\ start - 1 < e
      BY <2>1, <2>4, <2>5, <1>1
    <3>2. start - 1 \in dots
      BY <2>5, <3>1
    <3>3. e <= start - 1
      BY <2>6, <3>2
    <3> QED BY <3>1, <3>3, <2>4
  <2>8. ~(start <= i)
    <3> SUFFICES ASSUME start <= i PROVE FALSE
      OBVIOUS
    <3>1. i \in start..(e - 1) /\ i # 0
      BY <2>1, <2>4, <2>5, <1>1
    <3> QED BY <3>1, <2>1, <2>5
  <2>9. start = i + 1
    BY <2>1, <2>4, <2>5, <2>7, <2>8
  <2> QED BY <2>4, <2>9 DEF e, start
<1>5. ASSUME NEW end \in Ends(bytes)
      PROVE  \E i \in dots \ {n + 1} : Min(After(i)) = end
  <2> DEFINE start == SegmentStart(bytes, end)
             i == start - 1
  <2>1. /\ start \in 1..end
        /\ start = 1 \/ bytes[start - 1] = "dot"
        /\ \A k \in start..(end - 1) : bytes[k] # "dot"
    BY StartFacts
  <2>2. end \in dots /\ end \in 1..(n + 1)
    BY <1>1, <1>2 DEF Ends
  <2> HIDE DEF start
  <2>3. i \in 0..n /\ i < end /\ i \in dots \ {n + 1}
    BY <2>1, <2>2, <1>1
  <2>4. end \in After(i) /\ After(i) \subseteq Nat
    BY <2>2, <2>3, <1>2
  <2>5. ASSUME NEW y \in After(i) PROVE end <= y
    <3>1. y \in dots /\ y > i /\ y \in 1..(n + 1)
      BY <2>3, <1>1, <1>2
    <3>2. SUFFICES ASSUME y < end PROVE FALSE
      BY <3>1, <2>2
    <3>3. y \in start..(end - 1) /\ y # n + 1 /\ y # 0
      BY <3>1, <3>2, <2>1, <2>2, <2>3, <1>1
    <3> QED BY <3>1, <3>3, <2>1
  <2>6. Min(After(i)) = end
    <3> HIDE DEF After, i
    <3> QED BY <2>4, <2>5, LeastIs
  <2> QED BY <2>3, <2>6
<1>6. ASSUME NEW x \in Segments(bytes)
      PROVE  x \in {SegmentAt(bytes, end) : end \in Ends(bytes)}
  <2>1. PICK i \in dots \ {n + 1} : x = SubSeq(bytes, i + 1, Min(After(i)) - 1)
    BY <1>3
  <2>2. x = SegmentAt(bytes, Min(After(i)))
    BY <2>1, <1>4 DEF SegmentAt
  <2> QED BY <2>2, <1>4
<1>7. ASSUME NEW end \in Ends(bytes)
      PROVE  SegmentAt(bytes, end) \in Segments(bytes)
  <2>1. PICK i \in dots \ {n + 1} : Min(After(i)) = end
    BY <1>5
  <2>2. SegmentAt(bytes, end) = SubSeq(bytes, i + 1, Min(After(i)) - 1)
    BY <2>1, <1>4 DEF SegmentAt
  <2> QED BY <2>2, <1>3
<1> QED BY <1>6, <1>7

\* validate_segment is right about a segment.
LEMMA ValidateSegmentFacts ==
    ASSUME NEW bytes \in Seq(ByteClasses), NEW end \in Ends(bytes)
    PROVE  LET start == SegmentStart(bytes, end)
           IN  /\ ValidateSegment(bytes, start, end) \in {"Ok", "InvalidSegment"}
               /\ ValidateSegment(bytes, start, end) = "Ok"
                    <=> WellFormed(SegmentAt(bytes, end))
               /\ SegmentAt(bytes, end) = <<>> <=> start = end
<1> DEFINE n == Len(bytes)
           start == SegmentStart(bytes, end)
           x == SegmentAt(bytes, end)
<1>1. n \in Nat /\ end \in 1..(n + 1) /\ start \in 1..end
  BY StartFacts DEF Ends
<1> HIDE DEF start
<1>2. x = SubSeq(bytes, start, end - 1)
  BY DEF SegmentAt, start
<1> HIDE DEF x
<1>3. /\ x \in Seq(ByteClasses) /\ Len(x) = end - start
      /\ \A i \in 1..(end - start) : x[i] = bytes[start + i - 1]
  BY <1>1, <1>2
<1>4. x = <<>> <=> start = end
  BY <1>1, <1>3
<1>5. ValidateSegment(bytes, start, end) \in {"Ok", "InvalidSegment"}
  BY DEF ValidateSegment
<1>6. ValidateSegment(bytes, start, end) = "Ok" <=>
         /\ start # end
         /\ bytes[start] = "letter"
         /\ \A i \in (start + 1)..(end - 1) : bytes[i] \in {"letter", "digit", "underscore"}
  BY DEF ValidateSegment
<1>7. ASSUME start # end
      PROVE  /\ x[1] = bytes[start]
             /\ Range(x) \subseteq {"letter", "digit", "underscore"} <=>
                   \A i \in start..(end - 1) : bytes[i] \in {"letter", "digit", "underscore"}
  <2>1. 1 \in 1..(end - start) /\ start + 1 - 1 = start
    BY <1>1, <1>7
  <2>2. DOMAIN x = 1..(end - start)
    BY <1>3
  <2>3. \A i \in start..(end - 1) : i - start + 1 \in 1..(end - start)
                                     /\ start + (i - start + 1) - 1 = i
    BY <1>1
  <2>4. \A i \in start..(end - 1) : bytes[i] = x[i - start + 1]
    BY <2>3, <1>3
  <2>5. \A i \in 1..(end - start) : start + i - 1 \in start..(end - 1)
    BY <1>1
  <2>6. ASSUME Range(x) \subseteq {"letter", "digit", "underscore"},
               NEW i \in start..(end - 1)
        PROVE  bytes[i] \in {"letter", "digit", "underscore"}
    <3>1. x[i - start + 1] \in Range(x)
      BY <2>2, <2>3 DEF Range
    <3> QED BY <3>1, <2>4, <2>6
  <2>7. ASSUME \A i \in start..(end - 1) : bytes[i] \in {"letter", "digit", "underscore"},
               NEW c \in Range(x)
        PROVE  c \in {"letter", "digit", "underscore"}
    <3>1. PICK i \in 1..(end - start) : c = x[i]
      BY <2>2 DEF Range
    <3> QED BY <3>1, <2>5, <2>7, <1>3
  <2>8. x[1] = bytes[start]
    BY <2>1, <1>3
  <2> QED BY <2>6, <2>7, <2>8
<1>8. ASSUME start # end
      PROVE  WellFormed(x) <=>
                /\ bytes[start] = "letter"
                /\ \A i \in start..(end - 1) : bytes[i] \in {"letter", "digit", "underscore"}
  BY <1>4, <1>7, <1>8 DEF WellFormed
<1>9. ASSUME bytes[start] = "letter"
      PROVE  (\A i \in start..(end - 1) : bytes[i] \in {"letter", "digit", "underscore"})
               <=> (\A i \in (start + 1)..(end - 1) :
                       bytes[i] \in {"letter", "digit", "underscore"})
  <2>1. \A i \in start..(end - 1) : i = start \/ i \in (start + 1)..(end - 1)
    BY <1>1
  <2>2. \A i \in (start + 1)..(end - 1) : i \in start..(end - 1)
    BY <1>1
  <2> QED BY <2>1, <2>2, <1>9
<1>10. ValidateSegment(bytes, start, end) = "Ok" <=> WellFormed(x)
  <2>1. CASE start = end
    BY <2>1, <1>4, <1>6 DEF WellFormed
  <2>2. CASE start # end
    BY <2>2, <1>6, <1>8, <1>9
  <2> QED BY <2>1, <2>2
<1> QED BY <1>4, <1>5, <1>10 DEF start, x

LEMMA AtDotFacts ==
    ASSUME NEW bytes \in Seq(ByteClasses), NEW i \in 1..Len(bytes), bytes[i] = "dot"
    PROVE  LET outcome == AtDot(bytes, SegmentStart(bytes, i), i)
           IN  /\ outcome \in {"Ok", "EmptySegment", "InvalidSegment"}
               /\ outcome = "Ok" => WellFormed(SegmentAt(bytes, i)) /\ i # Len(bytes)
               /\ outcome = "EmptySegment" => <<>> \in Segments(bytes)
               /\ outcome = "InvalidSegment" =>
                     \E s \in Segments(bytes) : s # <<>> /\ ~WellFormed(s)
<1> DEFINE n == Len(bytes)
           start == SegmentStart(bytes, i)
           x == SegmentAt(bytes, i)
<1>1. n \in Nat /\ i \in Ends(bytes) /\ n + 1 \in Ends(bytes)
  BY DEF Ends
<1>2. /\ ValidateSegment(bytes, start, i) \in {"Ok", "InvalidSegment"}
      /\ ValidateSegment(bytes, start, i) = "Ok" <=> WellFormed(x)
      /\ x = <<>> <=> start = i
  BY <1>1, ValidateSegmentFacts
<1>3. x \in Segments(bytes) /\ SegmentAt(bytes, n + 1) \in Segments(bytes)
  BY <1>1, SegmentsFacts
<1>4. i = n => SegmentAt(bytes, n + 1) = <<>>
  <2> SUFFICES ASSUME i = n PROVE SegmentAt(bytes, n + 1) = <<>>
    OBVIOUS
  <2> DEFINE last == SegmentStart(bytes, n + 1)
  <2>1. last \in 1..(n + 1) /\ \A k \in last..((n + 1) - 1) : bytes[k] # "dot"
    BY <1>1, StartFacts
  <2> HIDE DEF last
  <2>2. last = n + 1
    BY <2>1, <1>1
  <2> HIDE DEF n
  <2> QED BY <2>2, <1>1, ValidateSegmentFacts DEF last
<1>5. CASE start = i \/ i = n
  <2>1. AtDot(bytes, start, i) = "EmptySegment"
    BY <1>5 DEF AtDot
  <2>2. <<>> \in Segments(bytes)
    BY <1>2, <1>3, <1>4, <1>5
  <2> QED BY <2>1, <2>2
<1>6. CASE ~(start = i \/ i = n)
  <2>1. AtDot(bytes, start, i) = ValidateSegment(bytes, start, i)
    BY <1>6 DEF AtDot
  <2> HIDE DEF start, x, n
  <2>2. /\ AtDot(bytes, start, i) \in {"Ok", "InvalidSegment"}
        /\ AtDot(bytes, start, i) = "Ok" => WellFormed(x) /\ i # n
        /\ AtDot(bytes, start, i) = "InvalidSegment" => x # <<>> /\ ~WellFormed(x)
    BY <2>1, <1>2, <1>6
  <2> QED BY <2>2, <1>3 DEF start, x, n
<1> QED BY <1>5, <1>6

\* The reason that IdErrorIsTrue asks of an outcome.
TrueOf(outcome, bytes) ==
    CASE outcome = "Ok" -> \A s \in Segments(bytes) : WellFormed(s)
      [] outcome = "Empty" -> bytes = <<>>
      [] outcome = "EmptySegment" -> <<>> \in Segments(bytes)
      [] outcome = "InvalidSegment" ->
            \E s \in Segments(bytes) : s # <<>> /\ ~WellFormed(s)

LEMMA ValidateIsTrue ==
    ASSUME NEW bytes \in Seq(ByteClasses)
    PROVE  TrueOf(Validate(bytes), bytes)
<1> DEFINE n == Len(bytes)
           bad == {i \in 1..n : bytes[i] = "dot" /\
                                AtDot(bytes, SegmentStart(bytes, i), i) # "Ok"}
           end == n + 1
<1>1. n \in Nat /\ end \in Ends(bytes) /\ bad \subseteq Nat
  BY DEF Ends
<1>2. CASE bytes = <<>>
  <2>1. Validate(bytes) = "Empty"
    BY <1>2 DEF Validate
  <2> QED BY <2>1, <1>2 DEF TrueOf
<1>3. CASE bytes # <<>> /\ bad # {}
  <2> DEFINE m == Min(bad)
  <2>1. m \in bad
    <3> HIDE DEF bad
    <3> QED BY <1>1, <1>3, LeastNat
  <2>2. m \in 1..n /\ bytes[m] = "dot" /\ AtDot(bytes, SegmentStart(bytes, m), m) # "Ok"
    BY <2>1
  <2>3. Validate(bytes) = AtDot(bytes, SegmentStart(bytes, m), m)
    BY <1>3 DEF Validate
  <2> DEFINE outcome == AtDot(bytes, SegmentStart(bytes, m), m)
  <2> HIDE DEF m
  <2>4. /\ outcome \in {"Ok", "EmptySegment", "InvalidSegment"}
        /\ outcome = "EmptySegment" => <<>> \in Segments(bytes)
        /\ outcome = "InvalidSegment" =>
              \E s \in Segments(bytes) : s # <<>> /\ ~WellFormed(s)
    BY <2>2, AtDotFacts
  <2> HIDE DEF outcome
  <2>5. TrueOf(outcome, bytes)
    <3>1. CASE outcome = "EmptySegment"
      BY <3>1, <2>4 DEF TrueOf
    <3>2. CASE outcome = "InvalidSegment"
      BY <3>2, <2>4 DEF TrueOf
    <3> QED BY <3>1, <3>2, <2>2, <2>4 DEF outcome
  <2> QED BY <2>3, <2>5 DEF outcome
<1>4. CASE bytes # <<>> /\ bad = {}
  <2> DEFINE start == SegmentStart(bytes, end)
             outcome == ValidateSegment(bytes, start, end)
             x == SegmentAt(bytes, end)
  <2>1. Validate(bytes) = outcome
    BY <1>4 DEF Validate
  <2>2. \A i \in 1..n : bytes[i] = "dot" =>
           WellFormed(SegmentAt(bytes, i)) /\ i # n
    <3> SUFFICES ASSUME NEW i \in 1..n, bytes[i] = "dot"
                 PROVE  WellFormed(SegmentAt(bytes, i)) /\ i # n
      OBVIOUS
    <3>1. AtDot(bytes, SegmentStart(bytes, i), i) = "Ok"
      BY <1>4
    <3> QED BY <3>1, AtDotFacts
  <2>3. /\ outcome \in {"Ok", "InvalidSegment"}
        /\ outcome = "Ok" <=> WellFormed(x)
        /\ x = <<>> <=> start = end
    BY <1>1, ValidateSegmentFacts
  <2>4. start # end
    <3>1. start = 1 \/ bytes[start - 1] = "dot"
      BY <1>1, StartFacts
    <3>2. n \in 1..n /\ end - 1 = n /\ end # 1
      BY <1>1, <1>4
    <3> QED BY <3>1, <3>2, <2>2
  <2>5. CASE outcome = "Ok"
    <3>1. ASSUME NEW s \in Segments(bytes) PROVE WellFormed(s)
      <4>1. PICK e \in Ends(bytes) : s = SegmentAt(bytes, e)
        BY SegmentsFacts
      <4>2. CASE e = end
        BY <4>1, <4>2, <2>3, <2>5
      <4>3. CASE e # end
        <5>1. e \in 1..n /\ bytes[e] = "dot"
          BY <4>1, <4>3 DEF Ends
        <5> QED BY <4>1, <5>1, <2>2
      <4> QED BY <4>2, <4>3
    <3> QED BY <3>1, <2>1, <2>5 DEF TrueOf
  <2>6. CASE outcome = "InvalidSegment"
    <3>1. x # <<>> /\ ~WellFormed(x)
      BY <2>3, <2>4, <2>6
    <3>2. x \in Segments(bytes)
      BY <1>1, SegmentsFacts
    <3> HIDE DEF x
    <3> QED BY <3>1, <3>2, <2>1, <2>6 DEF TrueOf
  <2> QED BY <2>3, <2>5, <2>6
<1> QED BY <1>2, <1>3, <1>4

(* try_new accepts exactly the ids all of whose segments are well formed    *)
(* and gives a true reason for refusing the others, whatever their length   *)
(* (validate, validate_segment).                                            *)
THEOREM IdErrors ==
    Spec => []IdErrorIsTrue
<1>1. IInv => IdErrorIsTrue
  <2> SUFFICES ASSUME IInv PROVE IdErrorIsTrue
    OBVIOUS
  <2>1. ASSUME NEW t \in Threads, at[t].pc = "id"
        PROVE  TrueOf(at[t].outcome, at[t].bytes)
    <3>1. at[t].bytes \in Seq(ByteClasses) /\ at[t].outcome = Validate(at[t].bytes)
      BY <2>1 DEF IInv
    <3> QED BY <3>1, ValidateIsTrue
  <2> QED BY <2>1 DEF IdErrorIsTrue, TrueOf
<1> QED BY <1>1, InductiveInvariant, PTL

===============================================================================
