------------------------- MODULE CandleCacheProofs -------------------------
(***************************************************************************)
(* Theorems of CandleCache, for any number of clients, any bounds they ask *)
(* for and any failures: whatever the requests interleave, an answer is in *)
(* order and not staler than a fetch, and the database fails no request    *)
(* without a start; the store has no hole unless more bars close than a    *)
(* page has.                                                               *)
(***************************************************************************)
EXTENDS CandleCache, FiniteSetTheorems, SequenceTheorems, TLAPS

(***************************************************************************)
(* Lists of bars.                                                          *)
(***************************************************************************)

Ascending(list) == \A i, j \in 1..Len(list) : i < j => list[i] < list[j]

LEMMA Constants ==
  /\ FirstNow \in 1..MaxNow /\ MaxNow \in Nat /\ Limit \in Nat \ {0}
  /\ Limit <= Limit * MaxPages /\ Limit * MaxPages \in Nat
  /\ \A ask \in Asks : ask[1] \in 0..MaxNow /\ ask[2] \in 0..MaxNow
  /\ \A t \in 1..MaxNow : DayOpen[t] \in 1..MaxNow /\ DayOpen[t] <= t
  /\ Reach \in Nat
<1>1. /\ FirstNow \in 1..MaxNow /\ MaxNow \in Nat /\ Limit \in Nat \ {0}
      /\ MaxPages \in Nat \ {0}
      /\ \A ask \in Asks : ask[1] \in 0..MaxNow /\ ask[2] \in 0..MaxNow
      /\ \A t \in 1..MaxNow : DayOpen[t] \in 1..MaxNow /\ DayOpen[t] <= t
      /\ Reach \in Nat
  BY CandleAssumption DEF Times
<1>2. Limit <= Limit * MaxPages /\ Limit * MaxPages \in Nat
  BY <1>1, SMT
<1> QED
  BY <1>1, <1>2

\* Every set of times is finite, and so are its parts.
LEMMA Finite ==
  ASSUME NEW T \in SUBSET (1..MaxNow)
  PROVE  IsFiniteSet(T) /\ Cardinality(T) \in Nat
<1>1. IsFiniteSet(1..MaxNow)
  BY Constants, FS_Interval
<1>2. IsFiniteSet(T)
  BY <1>1, FS_Subset
<1> QED
  BY <1>2, FS_CardinalityType

\* How many members of T there are up to t.
Rank(T, t) == Cardinality({u \in T : u <= t})

\* The ranks of the members of a set of times are the numbers up to its size.
LEMMA Ranks ==
  ASSUME NEW T \in SUBSET (1..MaxNow)
  PROVE  /\ \A t, u \in T : t < u => Rank(T, t) < Rank(T, u)
         /\ \A t \in T : Rank(T, t) \in 1..Cardinality(T)
         /\ \A i \in 1..Cardinality(T) : \E t \in T : Rank(T, t) = i
<1> DEFINE upto(t) == {u \in T : u <= t}
           rank == [t \in T |-> Rank(T, t)]
           n == Cardinality(T)
<1>1. IsFiniteSet(T) /\ n \in Nat /\ \A t \in T : t \in Int
  BY Finite, Constants
<1>2. \A t : Rank(T, t) = Cardinality(upto(t))
  BY DEF Rank
<1>3. \A t \in T : IsFiniteSet(upto(t)) /\ Rank(T, t) \in 1..n
  <2> TAKE t \in T
  <2>1. IsFiniteSet(upto(t)) /\ Cardinality(upto(t)) <= n
    BY <1>1, FS_Subset
  <2>2. Cardinality(upto(t)) \in Nat
    BY <2>1, FS_CardinalityType
  <2>3. t \in upto(t)
    BY <1>1
  <2>4. Cardinality(upto(t)) # 0
    BY <2>1, <2>3, FS_EmptySet
  <2> HIDE DEF upto
  <2> QED
    BY <1>1, <1>2, <2>1, <2>2, <2>4
<1>4. ASSUME NEW t \in T, NEW u \in T, t < u
      PROVE  Rank(T, t) < Rank(T, u)
  <2>1. t \in Int /\ u \in Int
    BY <1>1
  <2>2. ASSUME NEW v \in upto(t)
        PROVE  v \in upto(u)
    <3>1. v \in T /\ v <= t /\ v \in Int
      BY <1>1
    <3>2. v <= u
      BY <1>4, <2>1, <3>1
    <3> QED
      BY <3>1, <3>2
  <2>3. u \in upto(u) /\ u \notin upto(t)
    BY <1>4, <2>1
  <2>4. /\ Cardinality(upto(t)) <= Cardinality(upto(u))
        /\ Cardinality(upto(u)) = Cardinality(upto(t)) => upto(u) = upto(t)
    BY <1>3, <2>2, FS_Subset
  <2> HIDE DEF upto
  <2>5. Rank(T, t) # Rank(T, u) /\ Rank(T, t) <= Rank(T, u)
    BY <1>2, <2>3, <2>4
  <2> QED
    BY <1>1, <1>3, <2>5
<1> HIDE DEF upto
<1>5. rank \in Injection(T, 1..n)
  <2>1. rank \in [T -> 1..n]
    BY <1>3
  <2>2. ASSUME NEW t \in T, NEW u \in T, rank[t] = rank[u]
        PROVE  t = u
    <3>1. t \in Int /\ u \in Int
      BY <1>1
    <3>4. Rank(T, t) \in Int /\ Rank(T, u) \in Int
      BY <1>1, <1>3
    <3>2. Rank(T, t) = Rank(T, u)
      BY <2>2
    <3>3. ~(t < u) /\ ~(u < t)
      BY <1>4, <3>1, <3>2, <3>4
    <3> QED
      BY <3>1, <3>3
  <2> HIDE DEF rank
  <2> QED
    BY <2>1, <2>2 DEF Injection, IsInjective
<1>6. IsFiniteSet(1..n) /\ Cardinality(1..n) = n
  BY <1>1, FS_Interval
<1>7. \A i \in 1..n : \E t \in T : rank[t] = i
  <2> HIDE DEF rank
  <2>1. rank \in Surjection(T, 1..n)
    BY <1>5, <1>6, FS_Injection
  <2> QED
    BY <2>1 DEF Surjection
<1> QED
  BY <1>3, <1>4, <1>7

\* InOrder lists the members of a set of times, each once and ascending.
LEMMA InOrderLists ==
  ASSUME NEW T \in SUBSET (1..MaxNow)
  PROVE  /\ InOrder(T) \in Seq(T) /\ Len(InOrder(T)) = Cardinality(T)
         /\ Ascending(InOrder(T)) /\ Range(InOrder(T)) = T
         /\ InOrder(T) = <<>> <=> T = {}
<1> DEFINE list == InOrder(T)
           n == Cardinality(T)
<1>1. n \in Nat /\ IsFiniteSet(T) /\ \A t \in T : t \in Int
  BY Finite, Constants
<1>2. /\ \A t, u \in T : t < u => Rank(T, t) < Rank(T, u)
      /\ \A t \in T : Rank(T, t) \in 1..n
      /\ \A i \in 1..n : \E t \in T : Rank(T, t) = i
  BY Ranks
<1>3. list = [i \in 1..n |-> CHOOSE t \in T : Rank(T, t) = i]
  BY DEF InOrder, Rank
<1> HIDE DEF list
<1>4. \A i \in 1..n : list[i] \in T /\ Rank(T, list[i]) = i
  BY <1>2, <1>3
<1>5. list \in [1..n -> T]
  BY <1>3, <1>4
<1>6. list \in Seq(T) /\ Len(list) = n
  BY <1>1, <1>5
<1>7. Ascending(list)
  <2>1. SUFFICES ASSUME NEW i \in 1..n, NEW j \in 1..n, i < j
                 PROVE  list[i] < list[j]
    BY <1>6 DEF Ascending
  <2>2. list[i] \in Int /\ list[j] \in Int /\ list[i] \in T /\ list[j] \in T
    BY <1>1, <1>4
  <2>3. Rank(T, list[i]) = i /\ Rank(T, list[j]) = j
    BY <1>4
  <2>4. ~(list[j] < list[i]) /\ list[i] # list[j]
    BY <1>2, <2>1, <2>2, <2>3
  <2> QED
    BY <2>2, <2>4
<1>8. Range(list) = T
  <2>1. Range(list) \subseteq T
    BY <1>5 DEF Range
  <2>2. ASSUME NEW t \in T
        PROVE  t \in Range(list)
    <3> DEFINE i == Rank(T, t)
               u == list[i]
    <3>1. i \in 1..n /\ u \in T /\ Rank(T, u) = i
      BY <1>2, <1>4
    <3>2. t \in Int /\ u \in Int
      BY <1>1, <3>1
    <3>5. i \in Int
      BY <1>1, <3>1
    <3>3. ~(u < t) /\ ~(t < u)
      BY <1>2, <3>1, <3>2, <3>5
    <3>4. u = t
      <4> HIDE DEF u
      <4> QED
        BY <3>2, <3>3
    <3> QED
      BY <1>5, <3>1, <3>4 DEF Range
  <2> QED
    BY <2>1, <2>2
<1>9. list = <<>> <=> T = {}
  <2>1. list = <<>> <=> n = 0
    BY <1>6, EmptySeq
  <2> QED
    BY <1>1, <2>1, FS_EmptySet
<1> QED
  BY <1>6, <1>7, <1>8, <1>9 DEF list

\* The last bar of an ascending list is its latest, the first its earliest.
LEMMA LastIsLatest ==
  ASSUME NEW list \in Seq(1..MaxNow), Ascending(list), list # <<>>
  PROVE  /\ Last(list) \in Range(list) /\ Last(list) \in 1..MaxNow
         /\ \A t \in Range(list) : t <= Last(list)
<1>1. Len(list) \in Nat \ {0} /\ DOMAIN list = 1..Len(list)
      /\ \A i \in 1..Len(list) : list[i] \in 1..MaxNow
  BY EmptySeq, LenProperties, ElementOfSeq
<1>2. Last(list) = list[Len(list)]
  BY DEF Last
<1>3. \A i \in 1..Len(list) : list[i] <= list[Len(list)]
  BY <1>1, Constants DEF Ascending
<1> QED
  BY <1>1, <1>2, <1>3 DEF Range

\* A list with later bars appended is still ascending.
LEMMA Appended ==
  ASSUME NEW n \in Nat, n <= MaxNow, NEW list \in Seq(1..n), NEW more \in Seq(1..n),
         Ascending(list), Ascending(more),
         \A t \in Range(list), u \in Range(more) : t < u
  PROVE  /\ (list \o more) \in Seq(1..n) /\ Ascending(list \o more)
         /\ Range(list \o more) = Range(list) \cup Range(more)
         /\ more # <<>> => /\ list \o more # <<>>
                           /\ Last(list \o more) = Last(more)
<1> DEFINE whole == list \o more
           m == Len(list)
           k == Len(more)
<1>1. m \in Nat /\ k \in Nat /\ DOMAIN list = 1..m /\ DOMAIN more = 1..k
  BY LenProperties
<1>2. /\ whole \in Seq(1..n) /\ Len(whole) = m + k
      /\ \A i \in 1..(m + k) : whole[i] = IF i <= m THEN list[i] ELSE more[i - m]
  BY ConcatProperties
<1>3. DOMAIN whole = 1..(m + k)
  BY <1>2, LenProperties
<1>4. /\ \A i \in 1..m : list[i] \in 1..n
      /\ \A i \in 1..k : more[i] \in 1..n
      /\ \A i \in 1..m, j \in 1..k : list[i] < more[j]
  BY <1>1, ElementOfSeq DEF Range
<1>5. /\ \A i, j \in 1..m : i < j => list[i] < list[j]
      /\ \A i, j \in 1..k : i < j => more[i] < more[j]
  BY DEF Ascending
<1> HIDE DEF whole, m, k
<1>6. Ascending(whole)
  <2>1. SUFFICES ASSUME NEW i \in 1..(m + k), NEW j \in 1..(m + k), i < j
                 PROVE  whole[i] < whole[j]
    BY <1>2 DEF Ascending
  <2>2. CASE j <= m
    BY <1>1, <1>2, <1>5, <2>1, <2>2
  <2>3. CASE i > m
    <3>1. i - m \in 1..k /\ j - m \in 1..k /\ i - m < j - m
      BY <1>1, <2>1, <2>3
    <3> QED
      BY <1>1, <1>2, <1>5, <2>1, <2>3, <3>1
  <2>4. CASE i <= m /\ j > m
    <3>1. i \in 1..m /\ j - m \in 1..k
      BY <1>1, <2>1, <2>4
    <3> QED
      BY <1>1, <1>2, <1>4, <2>1, <2>4, <3>1
  <2> QED
    BY <1>1, <2>2, <2>3, <2>4
<1>7. Range(whole) = Range(list) \cup Range(more)
  <2>1. ASSUME NEW t \in Range(whole)
        PROVE  t \in Range(list) \cup Range(more)
    <3>1. PICK i \in DOMAIN whole : t = whole[i]
      BY <2>1 DEF Range
    <3>4. i \in 1..(m + k) /\ t = IF i <= m THEN list[i] ELSE more[i - m]
      BY <1>2, <1>3, <3>1
    <3>2. CASE i <= m
      <4>1. i \in DOMAIN list /\ t = list[i]
        BY <1>1, <3>2, <3>4
      <4> QED
        BY <4>1 DEF Range
    <3>3. CASE i > m
      <4>1. i - m \in DOMAIN more /\ t = more[i - m]
        BY <1>1, <3>3, <3>4
      <4> QED
        BY <4>1 DEF Range
    <3> QED
      BY <1>1, <3>2, <3>3, <3>4
  <2>2. ASSUME NEW t \in Range(list)
        PROVE  t \in Range(whole)
    <3>1. PICK i \in 1..m : t = list[i]
      BY <1>1, <2>2 DEF Range
    <3>2. i \in 1..(m + k) /\ whole[i] = t
      BY <1>1, <1>2, <3>1
    <3> QED
      BY <1>3, <3>2 DEF Range
  <2>3. ASSUME NEW t \in Range(more)
        PROVE  t \in Range(whole)
    <3>1. PICK i \in 1..k : t = more[i]
      BY <1>1, <2>3 DEF Range
    <3>2. i + m \in 1..(m + k) /\ ~(i + m <= m) /\ (i + m) - m = i
      BY <1>1, <3>1
    <3>3. whole[i + m] = t
      BY <1>2, <3>1, <3>2
    <3> QED
      BY <1>3, <3>2, <3>3 DEF Range
  <2> QED
    BY <2>1, <2>2, <2>3
<1>8. ASSUME more # <<>>
      PROVE  whole # <<>> /\ Last(whole) = Last(more)
  <2>1. k \in Nat \ {0}
    BY <1>8, EmptySeq DEF k
  <2>2. whole # <<>>
    BY <1>1, <1>2, <2>1, EmptySeq
  <2>3. m + k \in 1..(m + k) /\ ~(m + k <= m) /\ (m + k) - m = k
    BY <1>1, <2>1
  <2>4. whole[m + k] = more[k]
    BY <1>2, <2>3
  <2> QED
    BY <1>2, <2>2, <2>4 DEF Last, k
<1> QED
  BY <1>2, <1>6, <1>7, <1>8 DEF whole

(***************************************************************************)
(* The providers.                                                          *)
(***************************************************************************)

\* The bars an answer may hold: none before the day of its start, none beyond its end.
Allowed(start, end) ==
  {t \in Times : /\ start # NoBound => t >= DayOpen[start]
                 /\ end # NoBound => t <= end}

\* The latest bar that every provider has: Yahoo leaves out the day of the end.
Latest(end) == IF end = NoBound \/ DayOpen[end] > now THEN now ELSE DayOpen[end] - 1

\* A part of the available bars that leaves out only older ones, and none of the
\* Limit latest, or has none at all.
Recent(T, W) ==
  /\ T \in SUBSET W
  /\ \A t \in T, u \in W : u > t => u \in T
  /\ T # {} => \A u \in W : Cardinality({v \in W : v > u}) < Limit => u \in T

LEMMA LastOfIsRecent ==
  ASSUME NEW W \in SUBSET (1..MaxNow), NEW n \in Nat, n >= Limit
  PROVE  Recent(LastOf(W, n), W)
<1> DEFINE later(t) == {v \in W : v > t}
<1>1. \A t \in W : IsFiniteSet(later(t)) /\ Cardinality(later(t)) \in Nat
  <2> TAKE t \in W
  <2>1. later(t) \in SUBSET (1..MaxNow)
    OBVIOUS
  <2> QED
    BY <2>1, Finite
<1>2. ASSUME NEW t \in LastOf(W, n), NEW u \in W, u > t
      PROVE  u \in LastOf(W, n)
  <2>1. t \in W /\ Cardinality(later(t)) < n
    BY DEF LastOf
  <2>2. \A v \in W : v \in Int
    BY Constants
  <2>3. \A v \in later(u) : v \in later(t)
    BY <1>2, <2>1, <2>2
  <2>4. Cardinality(later(u)) <= Cardinality(later(t))
    BY <1>1, <2>1, <2>3, FS_Subset
  <2> HIDE DEF later
  <2>5. Cardinality(later(u)) < n
    BY <1>1, <2>1, <2>4
  <2> QED
    BY <2>5 DEF LastOf, later
<1>3. ASSUME NEW u \in W, Cardinality(later(u)) < Limit
      PROVE  u \in LastOf(W, n)
  <2>1. Cardinality(later(u)) \in Nat
    BY <1>1
  <2> HIDE DEF later
  <2>2. Cardinality(later(u)) < n
    BY <1>3, <2>1, Constants
  <2> QED
    BY <2>2 DEF LastOf, later
<1>4. LastOf(W, n) \in SUBSET W
  BY DEF LastOf
<1> QED
  BY <1>2, <1>3, <1>4 DEF Recent

\* The latest of the bars from a to b is in a recent part of them that has any.
LEMMA RecentHasLast ==
  ASSUME now \in 1..MaxNow, NEW a \in Int, NEW b \in Int, b <= now, NEW T,
         Recent(T, {t \in 1..now : t >= a /\ t <= b}), T # {}
  PROVE  b \in T /\ \A t \in T : t <= b
<1> DEFINE W == {t \in 1..now : t >= a /\ t <= b}
<1>1. now \in Nat /\ T \in SUBSET W
  BY Constants DEF Recent
<1>2. PICK t \in W : t \in T
  BY <1>1
<1>3. b \in W
  BY <1>1, <1>2
<1>4. {v \in W : v > b} = {}
  BY <1>1
<1>5. Cardinality({v \in W : v > b}) < Limit
  <2>1. Cardinality({v \in W : v > b}) = 0
    BY <1>4, FS_EmptySet, Zenon
  <2> HIDE DEF W
  <2> QED
    BY <2>1, Constants
<1>6. Recent(T, W)
  OBVIOUS
<1>7. \A u \in T : u <= b
  BY <1>1
<1> HIDE DEF W
<1>8. b \in T
  BY <1>2, <1>3, <1>5, <1>6 DEF Recent
<1> QED
  BY <1>7, <1>8

\* What an answer may be made of: bars of the market that are allowed; if any, then up to
\* the latest that every provider has; and without an end, a recent part of the bars
\* since the start, or since an earlier one.
Offered(T, start, end) ==
  /\ T \in SUBSET (1..now) /\ T \subseteq Allowed(start, end)
  /\ T # {} => \E m \in T : m >= Latest(end) /\ \A t \in T : t <= m
  /\ end = NoBound => \E from \in 1..MaxNow :
       Recent(T, from..now) /\ from <= (IF start = NoBound THEN 1 ELSE start)

\* A recent part of the bars from a to b is an offer, if they are allowed and b is late
\* enough.
LEMMA PartOffered ==
  ASSUME NEW start \in 0..MaxNow, NEW end \in 0..MaxNow, now \in 1..MaxNow,
         NEW a \in Int, NEW b \in Int, b <= now, b >= Latest(end), Latest(end) \in Int,
         start # NoBound => a >= DayOpen[start],
         end # NoBound => b <= end,
         end = NoBound => a <= (IF start = NoBound THEN 1 ELSE start) /\ b = now,
         NEW T, Recent(T, {t \in 1..now : t >= a /\ t <= b})
  PROVE  Offered(T, start, end)
<1>1. now \in Nat /\ now <= MaxNow /\ MaxNow \in Nat /\ NoBound = 0
  BY Constants DEF NoBound
<1>2. \A t \in T : t \in 1..now /\ t >= a /\ t <= b
  BY DEF Recent
<1>3. start # NoBound => DayOpen[start] \in Int
  BY <1>1, Constants
<1>4. T \in SUBSET (1..now) /\ T \subseteq Allowed(start, end)
  BY <1>1, <1>2, <1>3 DEF Allowed, Times
<1>5. T # {} => \E m \in T : m >= Latest(end) /\ \A t \in T : t <= m
  BY RecentHasLast
<1>6. ASSUME end = NoBound
      PROVE  \E from \in 1..MaxNow :
               Recent(T, from..now) /\ from <= (IF start = NoBound THEN 1 ELSE start)
  <2> DEFINE from == IF a < 1 THEN 1 ELSE a
  <2>1. from \in 1..MaxNow /\ from <= (IF start = NoBound THEN 1 ELSE start)
    BY <1>1, <1>6
  <2>2. {t \in 1..now : t >= a /\ t <= b} = from..now
    BY <1>1, <1>6
  <2> QED
    BY <2>1, <2>2
<1> QED
  BY <1>4, <1>5, <1>6 DEF Offered

LEMMA LatestType ==
  ASSUME NEW end \in 0..MaxNow, now \in 1..MaxNow
  PROVE  /\ Latest(end) \in Int /\ Latest(end) <= now
         /\ end # NoBound => Latest(end) < end
         /\ end = NoBound => Latest(end) = now
<1>1. now \in Nat /\ end \in Nat /\ NoBound = 0
  BY Constants DEF NoBound
<1>2. end # NoBound => DayOpen[end] \in Int /\ DayOpen[end] <= end
  BY <1>1, Constants
<1> QED
  BY <1>1, <1>2 DEF Latest

\* Yahoo's list is an offer.
LEMMA YahooOffers ==
  ASSUME NEW start \in 0..MaxNow, NEW end \in 0..MaxNow, now \in 1..MaxNow
  PROVE  \E T : Offered(T, start, end) /\ Yahoo(start, end) = InOrder(T)
<1>1. /\ now \in Nat /\ now <= MaxNow /\ MaxNow \in Nat /\ NoBound = 0 /\ 1 \in 1..MaxNow
      /\ start \in Int /\ end \in Int /\ Limit \in Nat /\ Reach \in Nat
  BY Constants DEF NoBound
<1>2. /\ Latest(end) \in Int /\ Latest(end) <= now
      /\ end # NoBound => Latest(end) < end
      /\ end = NoBound => Latest(end) = now
  BY LatestType
<1>3. CASE start = NoBound /\ end = NoBound
  <2> DEFINE W == 1..now
             T == LastOf(W, Limit)
  <2>1. W \in SUBSET (1..MaxNow) /\ T \subseteq W
    BY <1>1 DEF LastOf
  <2>2. Recent(T, W)
    BY <1>1, <2>1, LastOfIsRecent
  <2>3. W = {t \in 1..now : t >= 1 /\ t <= now}
    BY <1>1
  <2>4. Yahoo(start, end) = InOrder(T \cap 1..now) /\ T \cap 1..now = T
    BY <1>3, <2>1 DEF Yahoo, Quotes
  <2> HIDE DEF T
  <2>5. Recent(T, {t \in 1..now : t >= 1 /\ t <= now})
    BY <2>2, <2>3
  <2>6. Offered(T, start, end)
    BY <1>1, <1>2, <1>3, <2>5, PartOffered
  <2> QED
    BY <2>4, <2>6
<1>4. CASE ~(start = NoBound /\ end = NoBound)
  <2> DEFINE from == IF start = NoBound THEN ReachBack(end) ELSE start
             T == WholeDays(from, end) \cap 1..now
             a == DayOpen[from]
             b == Latest(end)
  <2>1. from \in 1..MaxNow /\ (start # NoBound => from = start)
    BY <1>1, <1>4 DEF ReachBack
  <2>2. a \in Int /\ a <= from
    BY <2>1, Constants
  <2>3. Yahoo(start, end) = InOrder(T)
    BY <1>4 DEF Yahoo, Quotes
  <2>4. T = {t \in 1..now : t >= a /\ (end = NoBound \/ t < DayOpen[end])}
    BY <1>1 DEF WholeDays, Times
  <2>5. \A t \in 1..now : (end = NoBound \/ t < DayOpen[end]) <=> t <= b
    <3>1. end # NoBound => DayOpen[end] \in Int
      BY <1>1, Constants
    <3> QED
      BY <1>1, <3>1 DEF Latest
  <2>6. b \in Int /\ b <= now /\ (end # NoBound => b <= end) /\ (end = NoBound => b = now)
        /\ b >= Latest(end)
    BY <1>1, <1>2
  <2>7. (end = NoBound => a <= (IF start = NoBound THEN 1 ELSE start))
        /\ (start # NoBound => a >= DayOpen[start])
    BY <1>1, <1>4, <2>1, <2>2
  <2> HIDE DEF a, b, from, T
  <2>8. T = {t \in 1..now : t >= a /\ t <= b}
    BY <2>4, <2>5
  <2>9. Recent(T, T)
    BY DEF Recent
  <2>10. Recent(T, {t \in 1..now : t >= a /\ t <= b})
    BY <2>8, <2>9
  <2>11. Offered(T, start, end)
    BY <1>2, <2>2, <2>6, <2>7, <2>10, PartOffered
  <2> QED
    BY <2>3, <2>11
<1> QED
  BY <1>3, <1>4

\* Bybit's list is an offer.
LEMMA BybitOffers ==
  ASSUME NEW start \in 0..MaxNow, NEW end \in 0..MaxNow, now \in 1..MaxNow
  PROVE  \E T : Offered(T, start, end) /\ Bybit(start, end) = InOrder(T)
<1> DEFINE W == Within(start, end) \cap 1..now
           n == Limit * (IF start = NoBound THEN 1 ELSE MaxPages)
           T == LastOf(W, n)
           b == IF end = NoBound \/ end > now THEN now ELSE end
<1>1. /\ now \in Nat /\ now <= MaxNow /\ MaxNow \in Nat /\ NoBound = 0
      /\ start \in Int /\ end \in Int
  BY Constants DEF NoBound
<1>2. n \in Nat /\ n >= Limit
  <2>1. Limit * 1 = Limit /\ Limit \in Nat
    BY Constants
  <2> QED
    BY <2>1, Constants
<1>3. W \in SUBSET (1..MaxNow) /\ W \in SUBSET (1..now)
  BY <1>1
<1>4. Recent(T, W)
  BY <1>2, <1>3, LastOfIsRecent
<1>5. T \cap 1..now = T
  BY <1>3 DEF LastOf
<1>6. Bybit(start, end) = InOrder(T)
  BY <1>5 DEF Bybit, Quotes
<1>7. W = {t \in 1..now : t >= start /\ t <= b}
  BY <1>1 DEF Within, Times
<1>8. /\ Latest(end) \in Int /\ Latest(end) <= now
      /\ end # NoBound => Latest(end) < end
      /\ end = NoBound => Latest(end) = now
  BY LatestType
<1>9. b \in Int /\ b <= now /\ (end # NoBound => b <= end) /\ (end = NoBound => b = now)
      /\ b >= Latest(end)
  BY <1>1, <1>8
<1>10. start # NoBound => start >= DayOpen[start]
  BY <1>1, Constants
<1>11. end = NoBound => start <= (IF start = NoBound THEN 1 ELSE start)
  BY <1>1
<1> HIDE DEF W, n, T, b
<1>12. Recent(T, {t \in 1..now : t >= start /\ t <= b})
  BY <1>4, <1>7
<1>13. Offered(T, start, end)
  BY <1>1, <1>8, <1>9, <1>10, <1>11, <1>12, PartOffered
<1> QED
  BY <1>6, <1>13

\* Every provider lists an offer, or nothing.
LEMMA AnswerIsOffered ==
  ASSUME NEW start \in 0..MaxNow, NEW end \in 0..MaxNow, now \in 1..MaxNow,
         NEW bars \in Answers(start, end)
  PROVE  \E T : Offered(T, start, end) /\ bars = InOrder(T)
<1>1. bars \in {Yahoo(start, end), Bybit(start, end), <<>>}
  BY DEF Answers
<1>2. <<>> = InOrder({})
  BY InOrderLists
<1>3. Offered({}, start, end)
  <2>1. 1 \in 1..MaxNow /\ 1 <= (IF start = NoBound THEN 1 ELSE start)
    BY Constants DEF NoBound
  <2>2. Recent({}, 1..now)
    BY DEF Recent
  <2> QED
    BY <2>1, <2>2 DEF Offered
<1> QED
  BY <1>1, <1>2, <1>3, YahooOffers, BybitOffers

(***************************************************************************)
(* Types.                                                                  *)
(***************************************************************************)

RequestsUntil(n) ==
  [pc : Stages, start : 0..MaxNow, end : 0..MaxNow, asked : 0..n,
   cached : Seq(1..n), fetched : Seq(1..n), answer : Seq(1..n),
   source : {"none", "cache", "provider", "plain"}, raised : BOOLEAN]

TypeInv ==
  /\ now \in FirstNow..MaxNow /\ bounded \in BOOLEAN
  /\ store \subseteq 1..now
  /\ req \in [Requests -> RequestsUntil(now)]

LEMMA RequestType ==
  ASSUME NEW n \in Nat, NEW start \in 0..MaxNow, NEW end \in 0..MaxNow, NEW asked \in 0..n
  PROVE  Request(start, end, asked) \in RequestsUntil(n)
  BY EmptySeq DEF Request, RequestsUntil, Stages

LEMMA NoRequestType ==
  ASSUME NEW n \in Nat
  PROVE  NoRequest \in RequestsUntil(n)
<1>1. Request(NoBound, NoBound, 0) \in RequestsUntil(n)
  BY RequestType, Constants DEF NoBound
<1> QED
  BY <1>1 DEF NoRequest, RequestsUntil, Stages

LEMMA Later ==
  ASSUME NEW n \in Nat, NEW q \in RequestsUntil(n)
  PROVE  q \in RequestsUntil(n + 1)
<1>1. 1..n \subseteq 1..(n + 1) /\ 0..n \subseteq 0..(n + 1)
  OBVIOUS
<1>2. Seq(1..n) \subseteq Seq(1..(n + 1))
  BY <1>1, SeqMonotonic
<1> QED
  BY <1>1, <1>2 DEF RequestsUntil

(***************************************************************************)
(* Requests.                                                               *)
(***************************************************************************)

\* What holds of a request at any time, whatever the others and the market do.
RequestOK(q) ==
  /\ Ascending(q.cached) /\ Range(q.cached) \subseteq Allowed(q.start, q.end)
  /\ Ascending(q.answer) /\ Range(q.answer) \subseteq Allowed(q.start, q.end)
  /\ q.start = NoBound /\ (q.pc = "store" \/ (q.pc = "done" /\ q.source = "provider"))
       => q.answer # <<>> /\ Last(q.answer) >= Due(q)
  /\ q.pc = "done" /\ q.source = "cache" => q.start # NoBound
  /\ q.pc = "plain" => q.start = NoBound
  /\ q.pc = "failed" /\ q.start = NoBound => q.raised

LEMMA EmptyList ==
  Ascending(<<>>) /\ Range(<<>>) = {}
  BY EmptySeq DEF Ascending, Range

LEMMA AskOK ==
  ASSUME NEW start, NEW end, NEW asked
  PROVE  RequestOK(Request(start, end, asked))
  BY EmptyList DEF RequestOK, Request

LEMMA NoRequestOK == RequestOK(NoRequest)
  BY EmptyList DEF RequestOK, NoRequest, Request

\* What an answer makes of a request, and what a failure does.
Answered(q, bars, source) ==
  [Asked(q) EXCEPT !.pc = "done", !.answer = bars, !.source = source]
Failed(q, pc, raised) == [Asked(q) EXCEPT !.pc = pc, !.raised = raised]

LEMMA AnswerOK ==
  ASSUME NEW n \in Nat, NEW q \in RequestsUntil(n),
         NEW bars \in Seq(1..n), NEW source \in {"none", "cache", "provider", "plain"},
         Ascending(bars), Range(bars) \subseteq Allowed(q.start, q.end),
         source = "cache" => q.start # NoBound,
         source = "provider" /\ q.start = NoBound => bars # <<>> /\ Last(bars) >= Due(q)
  PROVE  LET a == Answered(q, bars, source)
         IN  /\ a \in RequestsUntil(n) /\ RequestOK(a)
             /\ a.start = q.start /\ a.end = q.end /\ a.cached = <<>> /\ a.pc = "done"
<1> DEFINE a == Answered(q, bars, source)
<1>1. /\ a.pc = "done" /\ a.start = q.start /\ a.end = q.end /\ a.asked = q.asked
      /\ a.cached = <<>> /\ a.answer = bars /\ a.source = source
  BY DEF Answered, Failed, Asked, Request
<1>2. q.start \in 0..MaxNow /\ q.end \in 0..MaxNow /\ q.asked \in 0..n
  BY DEF RequestsUntil
<1>3. Request(q.start, q.end, q.asked) \in RequestsUntil(n)
  BY <1>2, RequestType
<1>4. Due(a) = Due(q)
  BY <1>1 DEF Due
<1>5. a \in RequestsUntil(n)
  BY <1>3 DEF Answered, Failed, Asked, RequestsUntil, Stages
<1> HIDE DEF a
<1>6. RequestOK(a)
  BY <1>1, <1>4, EmptyList DEF RequestOK
<1> QED
  BY <1>1, <1>5, <1>6 DEF a

\* A failure.
LEMMA FailureOK ==
  ASSUME NEW n \in Nat, NEW q \in RequestsUntil(n), NEW pc, NEW raised \in BOOLEAN,
         pc = AfterFailure(q) \/ (pc = "failed" /\ raised)
  PROVE  LET a == Failed(q, pc, raised)
         IN  /\ a \in RequestsUntil(n) /\ RequestOK(a)
             /\ a.start = q.start /\ a.end = q.end /\ a.cached = <<>>
             /\ a.pc \in {"plain", "failed"}
<1> DEFINE a == Failed(q, pc, raised)
<1>1. /\ a.pc = pc /\ a.start = q.start /\ a.end = q.end /\ a.asked = q.asked
      /\ a.cached = <<>> /\ a.answer = <<>> /\ a.source = "none" /\ a.raised = raised
  BY DEF Answered, Failed, Asked, Request
<1>2. q.start \in 0..MaxNow /\ q.end \in 0..MaxNow /\ q.asked \in 0..n
  BY DEF RequestsUntil
<1>3. Request(q.start, q.end, q.asked) \in RequestsUntil(n)
  BY <1>2, RequestType
<1>4. /\ pc = "plain" => q.start = NoBound
      /\ pc = "failed" /\ q.start = NoBound => raised
      /\ pc \in {"plain", "failed"}
  BY DEF AfterFailure
<1>5. a \in RequestsUntil(n)
  BY <1>3, <1>4 DEF Answered, Failed, Asked, RequestsUntil, Stages
<1> HIDE DEF a
<1>6. RequestOK(a)
  BY <1>1, <1>4, EmptyList DEF RequestOK
<1> QED
  BY <1>1, <1>4, <1>5, <1>6 DEF a

\* A list made of a set of bars of the market.
LEMMA ListOf ==
  ASSUME NEW n \in Nat, n <= MaxNow, NEW T \in SUBSET (1..n)
  PROVE  /\ InOrder(T) \in Seq(1..n) /\ Ascending(InOrder(T)) /\ Range(InOrder(T)) = T
         /\ InOrder(T) = <<>> <=> T = {}
<1>1. T \in SUBSET (1..MaxNow)
  BY Constants
<1>2. InOrder(T) \in Seq(T)
  BY <1>1, InOrderLists
<1>3. InOrder(T) \in Seq(1..n)
  BY <1>2, SeqMonotonic
<1> QED
  BY <1>1, <1>3, InOrderLists

\* Of the bars T that came, those that are new to the request.
NewOf(q, T) == {t \in T : q.start # NoBound \/ q.cached = <<>> \/ t > Last(q.cached)}

LEMMA NewsLists ==
  ASSUME NEW n \in Nat, n <= MaxNow, NEW T \in SUBSET (1..n), NEW q
  PROVE  News(q, InOrder(T)) = InOrder(NewOf(q, T))
<1>1. Range(InOrder(T)) = T
  BY ListOf
<1>2. CASE q.start # NoBound \/ q.cached = <<>>
  <2>1. NewOf(q, T) = T
    BY <1>2 DEF NewOf
  <2> QED
    BY <1>2, <2>1 DEF News
<1>3. CASE ~(q.start # NoBound \/ q.cached = <<>>)
  <2>1. NewOf(q, T) = {t \in T : t > Last(q.cached)}
    BY <1>3 DEF NewOf
  <2> QED
    BY <1>1, <1>3, <2>1 DEF News
<1> QED
  BY <1>2, <1>3

\* What is asked of a provider.
LEMMA FetchStartType ==
  ASSUME NEW n \in Nat, n <= MaxNow, NEW q \in RequestsUntil(n), Ascending(q.cached)
  PROVE  /\ FetchStart(q) \in 0..MaxNow /\ q.end \in 0..MaxNow
         /\ Allowed(FetchStart(q), q.end) \subseteq Allowed(q.start, q.end)
<1>1. q.start \in 0..MaxNow /\ q.end \in 0..MaxNow /\ q.cached \in Seq(1..n)
  BY DEF RequestsUntil
<1>2. 1..n \subseteq 1..MaxNow
  BY Constants
<1>3. q.cached \in Seq(1..MaxNow)
  BY <1>1, <1>2, SeqMonotonic
<1>4. FetchStart(q) \in 0..MaxNow /\ (q.start # NoBound => FetchStart(q) = q.start)
  <2>1. CASE q.start = NoBound /\ q.cached # <<>>
    <3>1. Last(q.cached) \in 1..MaxNow
      BY <1>3, <2>1, LastIsLatest
    <3> QED
      BY <2>1, <3>1, Constants DEF FetchStart
  <2>2. CASE ~(q.start = NoBound /\ q.cached # <<>>)
    BY <1>1, <2>2 DEF FetchStart
  <2> QED
    BY <2>1, <2>2
<1> QED
  BY <1>1, <1>4 DEF Allowed

\* What a fetch makes of the cached bars and those that came.
LEMMA Glued ==
  ASSUME now \in 1..MaxNow, NEW q \in RequestsUntil(now), RequestOK(q),
         NEW T, Offered(T, FetchStart(q), q.end)
  PROVE  LET news == InOrder(NewOf(q, T))
             whole == IF q.start = NoBound THEN q.cached \o news ELSE news
         IN  /\ news \in Seq(1..now) /\ Range(news) = NewOf(q, T)
             /\ news = <<>> <=> NewOf(q, T) = {}
             /\ whole \in Seq(1..now) /\ Ascending(whole)
             /\ Range(whole) \subseteq Allowed(q.start, q.end)
             /\ q.start = NoBound /\ T # {} => whole # <<>> /\ Last(whole) >= Due(q)
<1> DEFINE N == NewOf(q, T)
           news == InOrder(N)
           whole == IF q.start = NoBound THEN q.cached \o news ELSE news
           list == q.cached
<1>1. /\ now \in Nat /\ now <= MaxNow /\ MaxNow \in Nat
      /\ q.start \in 0..MaxNow /\ q.end \in 0..MaxNow /\ q.asked \in 0..now
      /\ list \in Seq(1..now)
  BY Constants DEF RequestsUntil
<1>2. /\ Ascending(list) /\ Range(list) \subseteq Allowed(q.start, q.end)
  BY DEF RequestOK
<1>3. /\ FetchStart(q) \in 0..MaxNow
      /\ Allowed(FetchStart(q), q.end) \subseteq Allowed(q.start, q.end)
  BY <1>1, <1>2, FetchStartType
<1>4. T \subseteq Allowed(q.start, q.end) /\ T \in SUBSET (1..now)
  BY <1>3 DEF Offered
<1>5. N \in SUBSET (1..now) /\ N \subseteq T
  BY <1>4 DEF NewOf
<1>6. /\ news \in Seq(1..now) /\ Ascending(news) /\ Range(news) = N
      /\ news = <<>> <=> N = {}
  BY <1>1, <1>5, ListOf
<1>7. list # <<>> => /\ Last(list) \in 1..MaxNow
                     /\ \A t \in Range(list) : t <= Last(list)
  <2>1. 1..now \subseteq 1..MaxNow
    BY <1>1
  <2>2. list \in Seq(1..MaxNow)
    BY <1>1, <2>1, SeqMonotonic
  <2> QED
    BY <1>2, <2>2, LastIsLatest
<1>8. news # <<>> => /\ Last(news) \in N
                     /\ \A t \in N : t <= Last(news)
  <2>1. 1..now \subseteq 1..MaxNow
    BY <1>1
  <2>2. news \in Seq(1..MaxNow)
    BY <1>6, <2>1, SeqMonotonic
  <2> HIDE DEF news
  <2> QED
    BY <1>6, <2>2, LastIsLatest
<1>9. N = {t \in T : q.start # NoBound \/ list = <<>> \/ t > Last(list)}
  BY DEF NewOf
<1> HIDE DEF N, news, list
<1>10. CASE q.start # NoBound
  BY <1>4, <1>5, <1>6, <1>10 DEF news, N
<1>11. CASE q.start = NoBound
  <2>1. \A t \in Range(list), u \in N : t < u
    <3>1. SUFFICES ASSUME NEW t \in Range(list), NEW u \in N
                   PROVE  t < u
      OBVIOUS
    <3>2. list # <<>>
      BY <3>1, EmptyList
    <3>3. u > Last(list) /\ t <= Last(list) /\ Last(list) \in Int
      BY <1>7, <1>9, <1>11, <3>1, <3>2
    <3>4. t \in 1..MaxNow /\ u \in 1..now
      BY <1>2, <1>5, <3>1 DEF Allowed, Times
    <3> QED
      BY <1>1, <3>3, <3>4
  <2>2. whole = list \o news
    BY <1>11 DEF list
  <2> HIDE DEF whole
  <2>3. /\ whole \in Seq(1..now) /\ Ascending(whole)
        /\ Range(whole) = Range(list) \cup N
        /\ news # <<>> => whole # <<>> /\ Last(whole) = Last(news)
    BY <1>1, <1>2, <1>6, <2>1, <2>2, Appended
  <2>4. Range(whole) \subseteq Allowed(q.start, q.end)
    BY <1>2, <1>4, <1>5, <2>3 DEF list
  <2>5. ASSUME T # {}
        PROVE  whole # <<>> /\ Last(whole) >= Due(q)
    <3>1. PICK m \in T : m >= Latest(q.end) /\ \A t \in T : t <= m
      BY <2>5 DEF Offered
    <3>2. m >= Due(q) /\ m \in Int /\ Due(q) \in Int
      <4>1. q.end # NoBound => DayOpen[q.end] \in Int
        BY <1>1, Constants DEF NoBound
      <4>2. Latest(q.end) >= Due(q) /\ Due(q) \in Int /\ Latest(q.end) \in Int
        BY <1>1, <4>1 DEF Latest, Due
      <4>3. m \in Int
        BY <1>1, <1>4
      <4> QED
        BY <3>1, <4>2, <4>3
    <3>3. CASE news # <<>>
      <4>1. PICK u \in N : TRUE
        BY <1>6, <3>3
      <4>2. u \in T /\ u <= m /\ u \in Int
        BY <1>5, <3>1, <4>1, <1>1
      <4>3. list = <<>> \/ m > Last(list)
        BY <1>7, <1>9, <1>11, <3>2, <4>1, <4>2
      <4>4. m \in N
        BY <1>9, <3>1, <4>3
      <4>5. m <= Last(news) /\ Last(news) \in 1..now
        BY <1>5, <1>8, <3>3, <4>4
      <4> QED
        BY <1>1, <2>3, <3>2, <3>3, <4>5
    <3>4. CASE news = <<>>
      <4>1. N = {} /\ m \notin N
        BY <1>6, <3>4
      <4>2. list # <<>> /\ ~(m > Last(list))
        BY <1>9, <3>1, <4>1
      <4>3. whole = list
        BY <1>1, <2>2, <3>4, ConcatEmptySeq DEF list
      <4> QED
        BY <1>7, <3>2, <4>2, <4>3
    <3> QED
      BY <3>3, <3>4
  <2> QED
    BY <1>6, <1>11, <2>3, <2>4, <2>5 DEF whole, news, N
<1> QED
  BY <1>10, <1>11

(***************************************************************************)
(* Steps.                                                                  *)
(***************************************************************************)

IInv == TypeInv /\ \A r \in Requests : RequestOK(req[r])

\* What a step between the question and the answer makes of a request.
Effect(q, p) ==
  /\ p.start = q.start /\ p.end = q.end
  /\ \/ p.cached = <<>> /\ p.pc # "store"
     \/ p.pc = "fetch" /\ p.cached = Stored(q.start, q.end)
     \/ /\ p.pc = "store" /\ p.cached = q.cached
        /\ \E T : /\ Offered(T, FetchStart(q), q.end)
                  /\ Range(p.fetched) = NewOf(q, T) /\ NewOf(q, T) # {}

Goes(r, p) ==
  /\ p \in RequestsUntil(now) /\ RequestOK(p)
  /\ req' = [req EXCEPT ![r] = p]

LEMMA Market ==
  ASSUME TypeInv
  PROVE  /\ now \in Nat /\ now \in 1..MaxNow /\ now <= MaxNow /\ FirstNow \in Nat
         /\ FirstNow <= now /\ \A r \in Requests : req[r] \in RequestsUntil(now)
  BY Constants DEF TypeInv

LEMMA StoredLists ==
  ASSUME TypeInv, NEW start \in 0..MaxNow, NEW end \in 0..MaxNow
  PROVE  LET rows == Stored(start, end)
         IN  /\ rows \in Seq(1..now) /\ Ascending(rows)
             /\ Range(rows) \subseteq Allowed(start, end) /\ Range(rows) \subseteq store
<1> DEFINE T == store \cap Within(start, end)
<1>1. T \in SUBSET (1..now) /\ now \in Nat /\ now <= MaxNow
  BY Market DEF TypeInv
<1>2. /\ InOrder(T) \in Seq(1..now) /\ Ascending(InOrder(T)) /\ Range(InOrder(T)) = T
  BY <1>1, ListOf
<1>3. Within(start, end) \subseteq Allowed(start, end)
  <2>1. start # NoBound => DayOpen[start] \in Int /\ DayOpen[start] <= start
    BY Constants DEF NoBound
  <2> QED
    BY <2>1, Constants DEF Within, Allowed, Times, NoBound
<1> QED
  BY <1>2, <1>3 DEF Stored

\* The two ways a step ends a request.
LEMMA Answering ==
  ASSUME TypeInv, NEW r \in Requests, NEW q, q = req[r], NEW bars \in Seq(1..now),
         NEW source \in {"none", "cache", "provider", "plain"},
         Answer(r, bars, source), Ascending(bars),
         Range(bars) \subseteq Allowed(q.start, q.end),
         source = "cache" => q.start # NoBound,
         source = "provider" /\ q.start = NoBound => bars # <<>> /\ Last(bars) >= Due(q)
  PROVE  \E p : Goes(r, p) /\ Effect(q, p)
<1> DEFINE p == Answered(q, bars, source)
<1>1. now \in Nat /\ q \in RequestsUntil(now)
  BY Market
<1>2. req' = [req EXCEPT ![r] = p]
  BY DEF Answer, Answered, Become
<1>3. /\ p \in RequestsUntil(now) /\ RequestOK(p)
      /\ p.start = q.start /\ p.end = q.end /\ p.cached = <<>> /\ p.pc = "done"
  BY <1>1, AnswerOK
<1> HIDE DEF p
<1>4. Goes(r, p)
  BY <1>2, <1>3 DEF Goes
<1>5. Effect(q, p)
  BY <1>3 DEF Effect
<1> QED
  BY <1>4, <1>5

LEMMA Failing ==
  ASSUME TypeInv, NEW r \in Requests, NEW q, q = req[r], NEW pc, NEW raised \in BOOLEAN,
         pc = AfterFailure(q) \/ (pc = "failed" /\ raised),
         Become(r, [Asked(q) EXCEPT !.pc = pc, !.raised = raised])
  PROVE  \E p : Goes(r, p) /\ Effect(q, p)
<1> DEFINE p == Failed(q, pc, raised)
<1>1. now \in Nat /\ q \in RequestsUntil(now)
  BY Market
<1>2. req' = [req EXCEPT ![r] = p]
  BY DEF Become, Failed
<1>3. /\ p \in RequestsUntil(now) /\ RequestOK(p)
      /\ p.start = q.start /\ p.end = q.end /\ p.cached = <<>>
      /\ p.pc \in {"plain", "failed"}
  BY <1>1, FailureOK
<1> HIDE DEF p
<1>4. Goes(r, p)
  BY <1>2, <1>3 DEF Goes
<1>5. Effect(q, p)
  BY <1>3 DEF Effect
<1> QED
  BY <1>4, <1>5

LEMMA ReadCacheStep ==
  ASSUME IInv, NEW r \in Requests, ReadCache(r)
  PROVE  \E p : Goes(r, p) /\ Effect(req[r], p)
<1> DEFINE q == req[r]
           rows == Stored(q.start, q.end)
<1>1. TypeInv /\ q \in RequestsUntil(now) /\ RequestOK(q) /\ now \in Nat
  BY Market DEF IInv
<1>2. /\ rows \in Seq(1..now) /\ Ascending(rows)
      /\ Range(rows) \subseteq Allowed(q.start, q.end)
  <2>1. q.start \in 0..MaxNow /\ q.end \in 0..MaxNow
    BY <1>1 DEF RequestsUntil
  <2> QED
    BY <1>1, <2>1, StoredLists
<1>3. /\ q.pc = "read"
      /\ IF Hit(q, rows) THEN Answer(r, rows, "cache")
         ELSE Become(r, [q EXCEPT !.pc = "fetch", !.cached = rows])
  BY DEF ReadCache, At
<1> HIDE DEF rows
<1>4. CASE Hit(q, rows)
  <2>1. q.start # NoBound /\ Answer(r, rows, "cache")
    BY <1>3, <1>4 DEF Hit
  <2> QED
    BY <1>1, <1>2, <2>1, Answering
<1>5. CASE ~Hit(q, rows)
  <2> DEFINE p == [q EXCEPT !.pc = "fetch", !.cached = rows]
  <2>1. req' = [req EXCEPT ![r] = p]
    BY <1>3, <1>5 DEF Become
  <2> HIDE DEF q
  <2>2. p \in RequestsUntil(now)
    BY <1>1, <1>2 DEF RequestsUntil, Stages
  <2>3. /\ p.pc = "fetch" /\ p.cached = rows /\ p.start = q.start /\ p.end = q.end
        /\ p.answer = q.answer
    BY <1>1 DEF RequestsUntil
  <2> HIDE DEF p
  <2>4. RequestOK(p)
    BY <1>1, <1>2, <2>3 DEF RequestOK
  <2>5. Goes(r, p)
    BY <2>1, <2>2, <2>4 DEF Goes
  <2>6. Effect(q, p)
    BY <2>3 DEF Effect, rows
  <2> QED
    BY <2>5, <2>6 DEF q
<1> QED
  BY <1>4, <1>5

LEMMA FetchStep ==
  ASSUME IInv, NEW r \in Requests, Fetch(r)
  PROVE  \E p : Goes(r, p) /\ Effect(req[r], p)
<1> DEFINE q == req[r]
<1>1. TypeInv /\ q \in RequestsUntil(now) /\ RequestOK(q) /\ now \in Nat
      /\ now \in 1..MaxNow /\ now <= MaxNow
  BY Market DEF IInv
<1>2. PICK bars \in Answers(FetchStart(q), q.end) :
        LET news == News(q, bars)
            whole == IF q.start = NoBound THEN q.cached \o news ELSE news
        IN  IF news = <<>>
            THEN Answer(r, whole, IF bars = <<>> THEN "none" ELSE "provider")
            ELSE Become(r, [q EXCEPT !.pc = "store", !.answer = whole, !.fetched = news])
  BY DEF Fetch
<1>3. FetchStart(q) \in 0..MaxNow /\ q.end \in 0..MaxNow
  BY <1>1, FetchStartType DEF RequestOK
<1>4. PICK T : Offered(T, FetchStart(q), q.end) /\ bars = InOrder(T)
  BY <1>1, <1>3, AnswerIsOffered
<1>5. T \in SUBSET (1..now) /\ T \in SUBSET (1..MaxNow)
  BY <1>1, <1>4, Constants DEF Offered
<1> DEFINE news == InOrder(NewOf(q, T))
           whole == IF q.start = NoBound THEN q.cached \o news ELSE news
<1>6. News(q, bars) = news
  BY <1>1, <1>4, <1>5, NewsLists
<1>7. /\ news \in Seq(1..now) /\ Range(news) = NewOf(q, T)
      /\ news = <<>> <=> NewOf(q, T) = {}
      /\ whole \in Seq(1..now) /\ Ascending(whole)
      /\ Range(whole) \subseteq Allowed(q.start, q.end)
      /\ q.start = NoBound /\ T # {} => whole # <<>> /\ Last(whole) >= Due(q)
  BY <1>1, <1>4, Glued
<1>8. IF news = <<>>
      THEN Answer(r, whole, IF bars = <<>> THEN "none" ELSE "provider")
      ELSE Become(r, [q EXCEPT !.pc = "store", !.answer = whole, !.fetched = news])
  BY <1>2, <1>6
<1>9. bars = <<>> <=> T = {}
  BY <1>4, <1>5, InOrderLists
<1>10. NewOf(q, T) # {} => T # {}
  BY DEF NewOf
<1> HIDE DEF q, news, whole
<1>11. CASE news = <<>>
  <2> DEFINE source == IF bars = <<>> THEN "none" ELSE "provider"
  <2>1. Answer(r, whole, source)
    BY <1>8, <1>11
  <2>2. source \in {"none", "cache", "provider", "plain"} /\ source # "cache"
        /\ (source = "provider" => T # {})
    BY <1>9
  <2> HIDE DEF source
  <2> QED
    BY <1>1, <1>7, <2>1, <2>2, Answering DEF q
<1>12. CASE news # <<>>
  <2> DEFINE p == [q EXCEPT !.pc = "store", !.answer = whole, !.fetched = news]
  <2>1. req' = [req EXCEPT ![r] = p]
    BY <1>8, <1>12 DEF Become
  <2>2. p \in RequestsUntil(now)
    BY <1>1, <1>7 DEF RequestsUntil, Stages
  <2>3. /\ p.pc = "store" /\ p.cached = q.cached /\ p.start = q.start /\ p.end = q.end
        /\ p.asked = q.asked /\ p.answer = whole /\ p.fetched = news
    BY <1>1 DEF RequestsUntil
  <2> HIDE DEF p
  <2>4. Due(p) = Due(q)
    BY <2>3 DEF Due
  <2>5. RequestOK(p)
    BY <1>1, <1>7, <1>10, <1>12, <2>3, <2>4 DEF RequestOK
  <2>6. Goes(r, p)
    BY <2>1, <2>2, <2>5 DEF Goes
  <2>7. Effect(q, p)
    BY <1>4, <1>7, <1>12, <2>3 DEF Effect
  <2> QED
    BY <2>6, <2>7 DEF q
<1> QED
  BY <1>11, <1>12

LEMMA StoreStep ==
  ASSUME IInv, NEW r \in Requests, Store(r)
  PROVE  \E p : Goes(r, p) /\ Effect(req[r], p)
<1> DEFINE q == req[r]
<1>1. TypeInv /\ q \in RequestsUntil(now) /\ RequestOK(q)
  BY Market DEF IInv
<1>2. q.pc = "store" /\ Answer(r, q.answer, "provider")
  BY DEF Store, At
<1>5. q = req[r]
  OBVIOUS
<1> HIDE DEF q
<1>3. q.answer \in Seq(1..now)
  BY <1>1 DEF RequestsUntil
<1>4. /\ Ascending(q.answer) /\ Range(q.answer) \subseteq Allowed(q.start, q.end)
      /\ q.start = NoBound => q.answer # <<>> /\ Last(q.answer) >= Due(q)
  BY <1>1, <1>2 DEF RequestOK
<1> QED
  BY <1>1, <1>2, <1>3, <1>4, <1>5, Answering

LEMMA FailsStep ==
  ASSUME IInv, NEW r \in Requests, Fails(r)
  PROVE  \E p : Goes(r, p) /\ Effect(req[r], p)
<1> DEFINE raised == At(r, "fetch")
           pc == AfterFailure(req[r])
<1>1. Become(r, [Asked(req[r]) EXCEPT !.pc = pc, !.raised = raised])
  BY DEF Fails
<1>2. raised \in BOOLEAN /\ TypeInv
  BY DEF At, IInv
<1>3. pc = AfterFailure(req[r])
  OBVIOUS
<1> HIDE DEF raised, pc
<1> QED
  BY <1>1, <1>2, <1>3, Failing

LEMMA PlainFetchStep ==
  ASSUME IInv, NEW r \in Requests, PlainFetch(r)
  PROVE  \E p : Goes(r, p) /\ Effect(req[r], p)
<1> DEFINE q == req[r]
<1>1. TypeInv /\ q \in RequestsUntil(now) /\ RequestOK(q) /\ now \in Nat
      /\ now \in 1..MaxNow /\ now <= MaxNow
  BY Market DEF IInv
<1>2. q.start = NoBound /\ q.end \in 0..MaxNow
  BY <1>1 DEF PlainFetch, At, RequestOK, RequestsUntil
<1>3. CASE \E bars \in Answers(NoBound, q.end) : Answer(r, bars, "plain")
  <2>1. PICK bars \in Answers(NoBound, q.end) : Answer(r, bars, "plain")
    BY <1>3
  <2>5. NoBound \in 0..MaxNow
    BY Constants DEF NoBound
  <2>2. PICK T : Offered(T, NoBound, q.end) /\ bars = InOrder(T)
    BY <1>1, <1>2, <2>1, <2>5, AnswerIsOffered
  <2>3. T \in SUBSET (1..now) /\ T \subseteq Allowed(q.start, q.end)
    BY <1>2, <2>2 DEF Offered
  <2>4. bars \in Seq(1..now) /\ Ascending(bars) /\ Range(bars) = T
    BY <1>1, <2>2, <2>3, ListOf
  <2> QED
    BY <1>1, <2>1, <2>3, <2>4, Answering
<1>4. CASE Become(r, [Asked(q) EXCEPT !.pc = "failed", !.raised = TRUE])
  BY <1>1, <1>4, Failing
<1> QED
  BY <1>3, <1>4 DEF PlainFetch

LEMMA StepEffect ==
  ASSUME IInv, NEW r \in Requests, Step(r)
  PROVE  \E p : Goes(r, p) /\ Effect(req[r], p)
  BY ReadCacheStep, FetchStep, StoreStep, FailsStep, PlainFetchStep DEF Step

(***************************************************************************)
(* Every request, at every time.                                           *)
(***************************************************************************)

LEMMA InitInv == Init => IInv
<1> SUFFICES ASSUME Init
             PROVE  IInv
  OBVIOUS
<1>1. NoRequest \in RequestsUntil(now) /\ now \in FirstNow..MaxNow /\ now \in Nat
  BY NoRequestType, Constants DEF Init
<1>2. TypeInv
  BY <1>1 DEF Init, TypeInv
<1>3. \A r \in Requests : RequestOK(req[r])
  BY NoRequestOK DEF Init
<1> QED
  BY <1>2, <1>3 DEF IInv

\* A step of a request leaves the others and the market alone, and adds to the
\* store what it fetched.
LEMMA StepFrame ==
  ASSUME TypeInv, NEW r \in Requests, Step(r)
  PROVE  /\ now' = now /\ bounded' = bounded
         /\ \/ store' = store
            \/ req[r].pc = "store" /\ store' = store \cup Range(req[r].fetched)
         /\ store \subseteq store' /\ store' \subseteq 1..now
<1>1. /\ now' = now /\ bounded' = bounded
      /\ \/ store' = store
         \/ req[r].pc = "store" /\ store' = store \cup Range(req[r].fetched)
  BY DEF Step, ReadCache, Fetch, Store, Fails, PlainFetch, At
<1>2. req[r].fetched \in Seq(1..now)
  BY Market DEF RequestsUntil
<1>3. Range(req[r].fetched) \subseteq 1..now
  <2> DEFINE list == req[r].fetched
  <2>1. DOMAIN list = 1..Len(list) /\ \A i \in 1..Len(list) : list[i] \in 1..now
    BY <1>2, LenProperties, ElementOfSeq
  <2> HIDE DEF list
  <2>2. Range(list) \subseteq 1..now
    BY <2>1 DEF Range
  <2> QED
    BY <2>2 DEF list
<1> QED
  BY <1>1, <1>3 DEF TypeInv

LEMMA GoesKeeps ==
  ASSUME IInv, NEW r \in Requests, NEW p, Goes(r, p), now' = now, bounded' \in BOOLEAN,
         store' \subseteq 1..now
  PROVE  IInv'
<1>1. req' \in [Requests -> RequestsUntil(now)]
  BY DEF Goes, IInv, TypeInv
<1>2. \A s \in Requests : req'[s] = IF s = r THEN p ELSE req[s]
  BY DEF Goes, IInv, TypeInv
<1>3. \A s \in Requests : RequestOK(req'[s])
  BY <1>2 DEF Goes, IInv
<1>4. TypeInv'
  BY <1>1 DEF TypeInv, IInv
<1> QED
  BY <1>3, <1>4 DEF IInv

LEMMA NextInv == IInv /\ [Next]_vars => IInv'
<1> SUFFICES ASSUME IInv, [Next]_vars
             PROVE  IInv'
  OBVIOUS
<1>1. TypeInv /\ now \in Nat
  BY Market DEF IInv
<1>2. ASSUME NEW r \in Requests, Ask(r)
      PROVE  IInv'
  <2>1. PICK ask \in Asks : /\ req' = [req EXCEPT ![r] = Request(ask[1], ask[2], now)]
                            /\ bounded' = (bounded \/ ask # <<NoBound, NoBound>>)
    BY <1>2 DEF Ask, Become
  <2>2. /\ Request(ask[1], ask[2], now) \in RequestsUntil(now)
        /\ RequestOK(Request(ask[1], ask[2], now))
    BY <1>1, RequestType, AskOK, Constants
  <2>3. Goes(r, Request(ask[1], ask[2], now))
    BY <2>1, <2>2 DEF Goes
  <2>4. bounded' \in BOOLEAN /\ now' = now /\ store' = store
    BY <1>2, <2>1 DEF Ask
  <2> QED
    BY <1>1, <2>3, <2>4, GoesKeeps DEF TypeInv
<1>3. ASSUME NEW r \in Requests, Step(r)
      PROVE  IInv'
  <2>1. PICK p : Goes(r, p)
    BY <1>3, StepEffect
  <2>2. now' = now /\ bounded' = bounded /\ store' \subseteq 1..now
    BY <1>1, <1>3, StepFrame
  <2> QED
    BY <1>1, <2>1, <2>2, GoesKeeps DEF TypeInv
<1>4. ASSUME NEW r \in Requests, Leave(r)
      PROVE  IInv'
  <2>1. Goes(r, NoRequest)
    BY <1>1, <1>4, NoRequestType, NoRequestOK DEF Leave, Goes
  <2> QED
    BY <1>1, <1>4, <2>1, GoesKeeps DEF Leave, TypeInv
<1>5. ASSUME NewBar
      PROVE  IInv'
  <2>1. /\ now' = now + 1 /\ now < MaxNow
        /\ store' = store /\ req' = req /\ bounded' = bounded
    BY <1>5 DEF NewBar
  <2>2. now' \in FirstNow..MaxNow /\ 1..now \subseteq 1..now'
    BY <1>1, <2>1, Market, Constants DEF TypeInv
  <2>3. req \in [Requests -> RequestsUntil(now + 1)]
    BY <1>1, Later DEF TypeInv
  <2>4. TypeInv'
    BY <1>1, <2>1, <2>2, <2>3 DEF TypeInv
  <2> QED
    BY <2>1, <2>4 DEF IInv
<1>6. CASE UNCHANGED vars
  BY <1>6 DEF IInv, TypeInv, vars
<1> QED
  BY <1>2, <1>3, <1>4, <1>5, <1>6 DEF Next

LEMMA Invariant == Spec => []IInv
  BY InitInv, NextInv, PTL DEF Spec

\* Nothing is stored, cached or answered that the market does not have yet, whoever
\* stores what meanwhile (backtest_service.py, data_provider.py).
THEOREM TypeCorrect == Spec => []TypeOK
<1>1. IInv => TypeOK
  BY DEF IInv, TypeInv, TypeOK, RequestsUntil
<1> QED
  BY <1>1, Invariant, PTL

\* Every answer is strictly ascending, goes no further than its end and starts no earlier
\* than the day of its start, though it may be glued from a cache read before the fetch
\* and a tail fetched after others stored theirs (_get_bars_incremental,
\* dedupe_sort_bars).
THEOREM AlwaysAscending == Spec => []AnswersAscend
<1>1. ASSUME IInv
      PROVE  AnswersAscend
  <2>1. SUFFICES ASSUME NEW r \in Requests
                 PROVE  /\ \A i \in 1..(Len(req[r].answer) - 1) :
                             req[r].answer[i] < req[r].answer[i + 1]
                        /\ Range(req[r].answer) \subseteq Allowed(req[r].start, req[r].end)
    BY DEF AnswersAscend, Allowed
  <2>2. /\ req[r].answer \in Seq(1..now) /\ Ascending(req[r].answer)
        /\ Range(req[r].answer) \subseteq Allowed(req[r].start, req[r].end)
    BY <1>1, Market DEF IInv, RequestsUntil, RequestOK
  <2> DEFINE list == req[r].answer
  <2>3. Len(list) \in Nat
    BY <2>2, LenProperties
  <2> HIDE DEF list
  <2>4. \A i \in 1..(Len(list) - 1) : list[i] < list[i + 1]
    <3> TAKE i \in 1..(Len(list) - 1)
    <3>1. i \in 1..Len(list) /\ i + 1 \in 1..Len(list) /\ i < i + 1
      BY <2>3
    <3> QED
      BY <2>2, <3>1 DEF Ascending, list
  <2> QED
    BY <2>2, <2>4 DEF list
<1> QED
  BY <1>1, Invariant, PTL

\* An answer to a request without a start, made with a provider's word, reaches the bar
\* that was forming when the request came or the last one before the day of its end,
\* whichever is earlier, however old the cache it was glued to (_get_bars_incremental).
THEOREM TailAlwaysFresh == Spec => []TailIsFresh
<1>1. IInv => TailIsFresh
  BY DEF IInv, RequestOK, TailIsFresh, At
<1> QED
  BY <1>1, Invariant, PTL

\* A request without a start never fails by the database: it fails only when a provider
\* raised in the end (backtest_service.py:185-187).  Of a request with a start nothing is
\* said: a failure of the database ends it.
THEOREM StartlessFailOnlyByProvider == Spec => []CachingNeverFails
<1>1. IInv => CachingNeverFails
  BY DEF IInv, RequestOK, CachingNeverFails, At
<1> QED
  BY <1>1, Invariant, PTL

(***************************************************************************)
(* The store without a hole.                                               *)
(***************************************************************************)

\* Bars without a hole among them, that reach into the time of the requests and
\* leave, since then, no hole in T either.
Convex(S) == \A t, v \in S : t..v \subseteq S
Reaches(S, T) == \A v \in S : (FirstNow + 1)..v \subseteq T
Piece(S, T) == Convex(S) /\ Reaches(S, T) /\ \E v \in S : v >= FirstNow

WholeInv ==
  ~bounded =>
    /\ store # {} => Piece(store, store)
    /\ \A r \in Requests :
         /\ req[r].start = NoBound /\ req[r].end = NoBound
         /\ Range(req[r].cached) \subseteq store
         /\ req[r].pc = "store" =>
              Piece(Range(req[r].fetched), store \cup Range(req[r].fetched))

\* Two pieces make one.
LEMMA PiecesJoin ==
  ASSUME NEW S \in SUBSET (1..MaxNow), NEW T \in SUBSET (1..MaxNow),
         S # {} => Piece(S, S), Piece(T, S \cup T)
  PROVE  Piece(S \cup T, S \cup T)
<1> DEFINE A == S \cup T
<1>1. CASE S = {}
  <2>1. A = T
    BY <1>1
  <2> QED
    BY <2>1
<1>2. CASE S # {}
  <2>1. Piece(S, S) /\ Piece(T, A)
    BY <1>2
  <2>2. FirstNow \in Int /\ \A t \in A : t \in Int
    BY Constants
  <2>3. Reaches(A, A)
    BY <2>1 DEF Piece, Reaches
  <2>4. ASSUME NEW t \in A, NEW v \in A, NEW u \in t..v
        PROVE  u \in A
    <3>1. u \in Int /\ t <= u /\ u <= v /\ t \in Int /\ v \in Int
      BY <2>2
    <3>2. CASE u > FirstNow
      <4>1. u \in (FirstNow + 1)..v
        BY <2>2, <3>1, <3>2
      <4> QED
        BY <2>3, <4>1 DEF Reaches
    <3>3. CASE u <= FirstNow /\ t \in S
      <4>1. PICK w \in S : w >= FirstNow
        BY <2>1 DEF Piece
      <4>2. w \in Int /\ u \in t..w
        BY <2>2, <3>1, <3>3, <4>1
      <4>3. u \in S
        BY <2>1, <3>3, <4>2 DEF Piece, Convex
      <4> QED
        BY <4>3
    <3>4. CASE u <= FirstNow /\ t \in T
      <4>1. PICK w \in T : w >= FirstNow
        BY <2>1 DEF Piece
      <4>2. w \in Int /\ u \in t..w
        BY <2>2, <3>1, <3>4, <4>1
      <4>3. u \in T
        BY <2>1, <3>4, <4>2 DEF Piece, Convex
      <4> QED
        BY <4>3
    <3> QED
      BY <2>2, <3>1, <3>2, <3>3, <3>4
  <2>5. Convex(A)
    BY <2>4 DEF Convex
  <2>6. \E v \in A : v >= FirstNow
    BY <2>1 DEF Piece
  <2> QED
    BY <2>3, <2>5, <2>6 DEF Piece
<1> QED
  BY <1>1, <1>2

\* A bar that fewer than Limit others can follow is in every recent part.
LEMMA RecentHas ==
  ASSUME MaxNow <= FirstNow + Limit, now \in 1..MaxNow,
         NEW W \in SUBSET (1..now), NEW T, Recent(T, W), T # {},
         NEW u \in W, u > FirstNow
  PROVE  u \in T
<1>1. now \in Nat /\ u \in Nat /\ u <= now /\ now <= MaxNow /\ MaxNow \in Nat
      /\ Limit \in Nat /\ FirstNow \in Nat
  BY Constants
<1>2. {v \in W : v > u} \in SUBSET ((u + 1)..now)
  <2>1. ASSUME NEW v \in W, v > u
        PROVE  v \in (u + 1)..now
    BY <1>1, <2>1
  <2> QED
    BY <2>1
<1>3. IsFiniteSet((u + 1)..now)
      /\ Cardinality((u + 1)..now) = IF u + 1 > now THEN 0 ELSE (now - (u + 1)) + 1
  BY <1>1, FS_Interval
<1>4. Cardinality({v \in W : v > u}) <= Cardinality((u + 1)..now)
      /\ IsFiniteSet({v \in W : v > u})
  BY <1>2, <1>3, FS_Subset
<1>5. Cardinality((u + 1)..now) \in Nat /\ Cardinality((u + 1)..now) < Limit
  BY <1>1, <1>3
<1>6. Cardinality({v \in W : v > u}) \in Nat
  BY <1>4, FS_CardinalityType
<1>7. Cardinality({v \in W : v > u}) < Limit
  BY <1>1, <1>4, <1>5, <1>6
<1> QED
  BY <1>7 DEF Recent

\* What a fetch without bounds adds is a piece of the store.
LEMMA NewsIsPiece ==
  ASSUME MaxNow <= FirstNow + Limit, IInv, WholeInv, ~bounded, NEW r \in Requests,
         NEW T, Offered(T, FetchStart(req[r]), NoBound),
         NewOf(req[r], T) # {}
  PROVE  Piece(NewOf(req[r], T), store \cup NewOf(req[r], T))
<1> DEFINE q == req[r]
           N == NewOf(q, T)
           s == FetchStart(q)
           list == q.cached
<1>1. /\ now \in 1..MaxNow /\ now \in Nat /\ now >= FirstNow /\ FirstNow \in Nat
      /\ MaxNow \in Nat /\ now <= MaxNow
      /\ q \in RequestsUntil(now) /\ RequestOK(q)
  BY Market, Constants DEF IInv
<1>2. q.start = NoBound /\ Range(list) \subseteq store /\ (store # {} => Piece(store, store))
  BY DEF WholeInv
<1>3. list \in Seq(1..now) /\ Ascending(list)
  BY <1>1 DEF RequestsUntil, RequestOK
<1>4. list # <<>> => /\ Last(list) \in Range(list) /\ Last(list) \in 1..MaxNow
  <2>1. 1..now \subseteq 1..MaxNow
    BY <1>1
  <2>2. list \in Seq(1..MaxNow)
    BY <1>3, <2>1, SeqMonotonic
  <2> HIDE DEF list
  <2> QED
    BY <1>3, <2>2, LastIsLatest
<1>5. s = IF list = <<>> THEN 0 ELSE Last(list)
  BY <1>2 DEF FetchStart, NoBound
<1>6. N = {t \in T : list = <<>> \/ t > Last(list)}
  BY <1>2 DEF NewOf
<1>16. PICK from \in 1..MaxNow :
         Recent(T, from..now) /\ from <= (IF s = NoBound THEN 1 ELSE s)
  BY DEF Offered
<1> DEFINE W == from..now
<1>7. Recent(T, W) /\ N # {}
  BY <1>16
<1>8. s \in 0..MaxNow /\ from \in Nat /\ from <= (IF s = 0 THEN 1 ELSE s)
  BY <1>1, <1>4, <1>5, <1>16 DEF NoBound
<1>9. \A t : t \in W <=> t \in 1..now /\ t >= from
  BY <1>1, <1>8
<1>17. T # {} => \E m \in T : m >= now
  BY DEF Offered, Latest
<1> HIDE DEF q, N, s, W, list
<1>10. W \in SUBSET (1..now) /\ T \subseteq W /\ N \subseteq T /\ T # {}
  BY <1>6, <1>7, <1>9 DEF Recent
<1>11. now \in T
  <2>1. PICK m \in T : m >= now
    BY <1>10, <1>17
  <2>2. m = now
    BY <1>1, <1>10, <2>1
  <2> QED
    BY <2>1, <2>2
<1>12. now \in N
  <2>1. PICK t \in N : TRUE
    BY <1>7
  <2>2. t \in 1..now /\ (list = <<>> \/ t > Last(list))
    BY <1>6, <1>10, <2>1
  <2> QED
    BY <1>1, <1>4, <1>6, <1>11, <2>2
<1>13. ASSUME NEW t \in N, NEW v \in N, NEW u \in t..v
       PROVE  u \in N
  <2>1. t \in 1..now /\ v \in 1..now /\ t >= from /\ t \in T
    BY <1>9, <1>10
  <2>2. u \in 1..now /\ u >= from /\ u >= t
    BY <1>1, <1>8, <2>1
  <2>3. u \in W
    BY <1>9, <2>2
  <2>4. u \in T
    BY <1>7, <2>1, <2>2, <2>3 DEF Recent
  <2>5. list = <<>> \/ u > Last(list)
    BY <1>4, <1>6, <2>1, <2>2
  <2> QED
    BY <1>6, <2>4, <2>5
<1>14. ASSUME NEW v \in N, NEW u \in (FirstNow + 1)..v
       PROVE  u \in store \cup N
  <2>1. u \in 1..now /\ u > FirstNow
    BY <1>1, <1>9, <1>10
  <2>2. CASE u >= s
    <3>1. u \in W
      BY <1>1, <1>8, <1>9, <2>1, <2>2
    <3>2. u \in T
      BY <1>1, <1>7, <1>10, <2>1, <3>1, RecentHas
    <3>3. CASE list = <<>> \/ u > Last(list)
      BY <1>6, <3>2, <3>3
    <3>4. CASE list # <<>> /\ u = Last(list)
      BY <1>2, <1>4, <3>4 DEF list
    <3> QED
      BY <1>4, <1>5, <2>1, <2>2, <3>3, <3>4
  <2>3. CASE u < s
    <3>1. list # <<>> /\ s = Last(list) /\ s \in store
      BY <1>2, <1>4, <1>5, <2>1, <2>3
    <3>2. u \in (FirstNow + 1)..s
      BY <1>1, <1>8, <2>1, <2>3
    <3> QED
      BY <1>2, <3>1, <3>2 DEF Piece, Reaches
  <2> QED
    BY <1>8, <2>1, <2>2, <2>3
<1>15. Piece(N, store \cup N)
  BY <1>1, <1>12, <1>13, <1>14 DEF Piece, Convex, Reaches
<1> QED
  BY <1>15 DEF N, q

LEMMA WholeInit == Init => WholeInv
<1>1. NoRequest.start = NoBound /\ NoRequest.end = NoBound /\ NoRequest.cached = <<>>
      /\ NoRequest.pc = "idle"
  BY DEF NoRequest, Request
<1> QED
  BY <1>1, EmptyList DEF Init, WholeInv

\* A piece stays one when the store grows.
LEMMA PieceStays ==
  ASSUME NEW S, NEW T, NEW U, Piece(S, T), T \subseteq U
  PROVE  Piece(S, U)
  BY DEF Piece, Reaches

LEMMA WholeNext ==
  ASSUME MaxNow <= FirstNow + Limit, IInv, IInv', WholeInv, [Next]_vars
  PROVE  WholeInv'
<1> SUFFICES ASSUME ~bounded'
             PROVE  /\ store' # {} => Piece(store', store')
                    /\ \A r \in Requests :
                         /\ req'[r].start = NoBound /\ req'[r].end = NoBound
                         /\ Range(req'[r].cached) \subseteq store'
                         /\ req'[r].pc = "store" =>
                              Piece(Range(req'[r].fetched), store' \cup Range(req'[r].fetched))
  BY DEF WholeInv
<1> DEFINE Fits(q, st) ==
             /\ q.start = NoBound /\ q.end = NoBound
             /\ Range(q.cached) \subseteq st
             /\ q.pc = "store" => Piece(Range(q.fetched), st \cup Range(q.fetched))
<1>1. SUFFICES /\ store' # {} => Piece(store', store')
               /\ \A r \in Requests : Fits(req'[r], store')
  OBVIOUS
<1>2. TypeInv /\ req \in [Requests -> RequestsUntil(now)]
      /\ store \in SUBSET (1..MaxNow) /\ bounded \in BOOLEAN
  <2>1. TypeInv /\ store \subseteq 1..now
    BY DEF IInv, TypeInv
  <2>2. 1..now \subseteq 1..MaxNow
    BY <2>1, Market, Constants
  <2> QED
    BY <2>1, <2>2 DEF TypeInv
<1>3. ~bounded => /\ store # {} => Piece(store, store)
                  /\ \A r \in Requests : Fits(req[r], store)
  BY DEF WholeInv
<1>4. \A q, st, more : Fits(q, st) /\ st \subseteq more => Fits(q, more)
  <2> SUFFICES ASSUME NEW q, NEW st, NEW more, Fits(q, st), st \subseteq more
               PROVE  Fits(q, more)
    OBVIOUS
  <2>1. (st \cup Range(q.fetched)) \subseteq (more \cup Range(q.fetched))
    OBVIOUS
  <2> QED
    BY <2>1, PieceStays
<1> HIDE DEF Fits
<1>5. ASSUME NEW r \in Requests, Ask(r)
      PROVE  /\ store' # {} => Piece(store', store')
             /\ \A s \in Requests : Fits(req'[s], store')
  <2>1. PICK ask \in Asks : /\ req' = [req EXCEPT ![r] = Request(ask[1], ask[2], now)]
                            /\ bounded' = (bounded \/ ask # <<NoBound, NoBound>>)
    BY <1>5 DEF Ask, Become
  <2>4. ~bounded /\ ask = <<NoBound, NoBound>>
    BY <2>1, Zenon
  <2>2. ~bounded /\ ask[1] = NoBound /\ ask[2] = NoBound /\ store' = store
    BY <1>5, <2>4 DEF Ask
  <2>3. Fits(Request(ask[1], ask[2], now), store)
    BY <2>2, EmptyList DEF Fits, Request
  <2> QED
    BY <1>2, <1>3, <2>1, <2>2, <2>3
<1>6. ASSUME NEW r \in Requests, Step(r)
      PROVE  /\ store' # {} => Piece(store', store')
             /\ \A s \in Requests : Fits(req'[s], store')
  <2>1. PICK p : Goes(r, p) /\ Effect(req[r], p)
    BY <1>6, StepEffect
  <2>2. /\ now' = now /\ bounded' = bounded
        /\ \/ store' = store
           \/ req[r].pc = "store" /\ store' = store \cup Range(req[r].fetched)
        /\ store \subseteq store'
    BY <1>2, <1>6, StepFrame
  <2>3. /\ ~bounded /\ (store # {} => Piece(store, store))
        /\ \A s \in Requests : Fits(req[s], store)
    BY <1>3, <2>2
  <2>4. store' # {} => Piece(store', store')
    <3>1. CASE store' = store
      BY <2>3, <3>1
    <3>2. CASE req[r].pc = "store" /\ store' = store \cup Range(req[r].fetched)
      <4> DEFINE T == Range(req[r].fetched)
      <4>1. Piece(T, store \cup T)
        BY <2>3, <3>2 DEF Fits
      <4>2. T \in SUBSET (1..MaxNow)
        <5>1. store' \subseteq 1..now /\ now <= MaxNow /\ now \in Nat
          BY <1>2, <1>6, StepFrame, Market
        <5> QED
          BY <3>2, <5>1, Constants
      <4> HIDE DEF T
      <4> QED
        BY <1>2, <2>3, <3>2, <4>1, <4>2, PiecesJoin DEF T
    <3> QED
      BY <2>2, <3>1, <3>2
  <2>5. Fits(p, store)
    <3>1. Fits(req[r], store)
      BY <2>3
    <3>2. p.start = NoBound /\ p.end = NoBound /\ req[r].end = NoBound
      BY <2>1, <3>1 DEF Effect, Fits
    <3>3. CASE p.cached = <<>> /\ p.pc # "store"
      BY <3>2, <3>3, EmptyList DEF Fits
    <3>4. CASE p.pc = "fetch" /\ p.cached = Stored(req[r].start, req[r].end)
      <4>1. Range(p.cached) \subseteq store
        <5>1. req[r].start \in 0..MaxNow /\ req[r].end \in 0..MaxNow
          BY <1>2 DEF RequestsUntil
        <5> QED
          BY <1>2, <3>4, <5>1, StoredLists
      <4> QED
        BY <3>2, <3>4, <4>1 DEF Fits
    <3>5. CASE /\ p.pc = "store" /\ p.cached = req[r].cached
               /\ \E T : /\ Offered(T, FetchStart(req[r]), req[r].end)
                         /\ Range(p.fetched) = NewOf(req[r], T) /\ NewOf(req[r], T) # {}
      <4>1. PICK T : /\ Offered(T, FetchStart(req[r]), NoBound)
                     /\ Range(p.fetched) = NewOf(req[r], T) /\ NewOf(req[r], T) # {}
        BY <3>2, <3>5
      <4>2. Piece(NewOf(req[r], T), store \cup NewOf(req[r], T))
        BY <2>3, <4>1, NewsIsPiece
      <4> QED
        BY <3>1, <3>2, <3>5, <4>1, <4>2 DEF Fits
    <3> QED
      BY <2>1, <3>3, <3>4, <3>5 DEF Effect
  <2>6. \A s \in Requests : Fits(req'[s], store)
    BY <1>2, <2>1, <2>3, <2>5 DEF Goes
  <2> QED
    BY <1>4, <2>2, <2>4, <2>6
<1>7. ASSUME NEW r \in Requests, Leave(r)
      PROVE  /\ store' # {} => Piece(store', store')
             /\ \A s \in Requests : Fits(req'[s], store')
  <2>1. Fits(NoRequest, store)
    BY EmptyList DEF Fits, NoRequest, Request
  <2> QED
    BY <1>2, <1>3, <1>7, <2>1 DEF Leave
<1>8. CASE NewBar
  BY <1>2, <1>3, <1>8 DEF NewBar
<1>9. CASE UNCHANGED vars
  BY <1>2, <1>3, <1>9 DEF vars
<1> QED
  BY <1>5, <1>6, <1>7, <1>8, <1>9 DEF Next

\* As long as nobody asked for a range, concurrent seeds and tails leave no hole in the
\* store (_get_bars_incremental), provided that no more bars close than a page holds: a
\* tail or a seed that comes later than that starts beyond what the store has.
THEOREM StoreStaysWhole ==
  ASSUME MaxNow <= FirstNow + Limit
  PROVE  Spec => []UnboundedStaysWhole
<1>1. Init => IInv /\ WholeInv
  BY InitInv, WholeInit
<1>2. (IInv /\ WholeInv) /\ [Next]_vars => (IInv /\ WholeInv)'
  BY NextInv, WholeNext
<1>3. ASSUME WholeInv
      PROVE  UnboundedStaysWhole
  <2> SUFFICES ASSUME ~bounded, NEW t \in Times, NEW u \in Times, NEW v \in Times,
                      t < u, u < v, t \in store, v \in store
               PROVE  u \in store
    BY DEF UnboundedStaysWhole
  <2>1. Convex(store)
    BY <1>3 DEF WholeInv, Piece
  <2>2. u \in t..v
    BY Constants DEF Times
  <2> QED
    BY <2>1, <2>2 DEF Convex
<1> QED
  BY <1>1, <1>2, <1>3, PTL DEF Spec

=============================================================================
