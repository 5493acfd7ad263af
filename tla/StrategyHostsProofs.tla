------------------------ MODULE StrategyHostsProofs ------------------------
(***************************************************************************)
(* Theorems of StrategyHosts, for any prices, periods, warm-up and windows *)
(* of the providers: the types, that a strategy answers alike live and in  *)
(* a backtest if the window is as long as its indicators need, and that    *)
(* the replay of submitted code shows it no bar too early.                 *)
(***************************************************************************)
EXTENDS StrategyHosts, SequenceTheorems, WellFoundedInduction, TLAPS

(***************************************************************************)
(* The last values of a sequence.                                          *)
(***************************************************************************)

LEMMA TailsType ==
  ASSUME NEW S, NEW s \in Seq(S), NEW n \in 1..Len(s)
  PROVE  /\ Tails(s, n) \in Seq(S) /\ Len(Tails(s, n)) = n
         /\ \A i \in 1..n : Tails(s, n)[i] = s[Len(s) - n + i]
<1> DEFINE first == Len(s) - n + 1
           last  == Len(s)
<1>1. last \in Nat /\ first \in 1..last /\ last - first + 1 = n
  OBVIOUS
<1>2. \A i \in first..last : s[i] \in S
  BY <1>1
<1>3. /\ SubSeq(s, first, last) \in Seq(S)
      /\ Len(SubSeq(s, first, last)) = IF first <= last THEN last - first + 1 ELSE 0
      /\ \A i \in 1..last - first + 1 : SubSeq(s, first, last)[i] = s[first + i - 1]
  BY <1>1, <1>2, SubSeqProperties
<1>4. \A i \in 1..n : first + i - 1 = last - n + i
  BY <1>1
<1> QED
  BY <1>1, <1>3, <1>4 DEF Tails

LEMMA BeforeType ==
  ASSUME NEW S, NEW s \in Seq(S), Len(s) >= 1
  PROVE  /\ Before(s) \in Seq(S) /\ Len(Before(s)) = Len(s) - 1
         /\ \A i \in 1..Len(s) - 1 : Before(s)[i] = s[i]
<1> DEFINE last == Len(s) - 1
<1>1. last \in Nat /\ \A i \in 1..last : s[i] \in S
  OBVIOUS
<1>2. /\ SubSeq(s, 1, last) \in Seq(S)
      /\ Len(SubSeq(s, 1, last)) = IF 1 <= last THEN last - 1 + 1 ELSE 0
      /\ \A i \in 1..last - 1 + 1 : SubSeq(s, 1, last)[i] = s[1 + i - 1]
  BY <1>1, SubSeqProperties
<1>3. \A m \in Nat : /\ (IF 1 <= m THEN m - 1 + 1 ELSE 0) = m /\ m - 1 + 1 = m
                     /\ \A i \in 1..m : 1 + i - 1 = i
  OBVIOUS
<1>4. Before(s) = SubSeq(s, 1, last)
  BY DEF Before, Front
<1> HIDE DEF last
<1>5. /\ Before(s) \in Seq(S) /\ Len(Before(s)) = last
      /\ \A i \in 1..last : Before(s)[i] = s[i]
  BY <1>1, <1>2, <1>3, <1>4
<1> QED
  BY <1>5 DEF last

LEMMA SameSequence ==
  ASSUME NEW S, NEW s \in Seq(S), NEW t \in Seq(S), Len(s) = Len(t),
         \A i \in 1..Len(s) : s[i] = t[i]
  PROVE  s = t
  OBVIOUS

\* The last values of the last ones.
LEMMA TailsOfTails ==
  ASSUME NEW S, NEW s \in Seq(S), NEW n \in 1..Len(s), NEW k \in 1..n
  PROVE  Tails(Tails(s, n), k) = Tails(s, k)
<1> DEFINE u == Tails(s, n)
           a == Tails(u, k)
           b == Tails(s, k)
<1>1. /\ u \in Seq(S) /\ Len(u) = n
      /\ \A i \in 1..n : u[i] = s[Len(s) - n + i]
  BY TailsType
<1>2. k \in 1..Len(s) /\ k \in 1..Len(u)
  BY <1>1
<1> HIDE DEF u
<1>3. a \in Seq(S) /\ Len(a) = k /\ \A i \in 1..k : a[i] = u[Len(u) - k + i]
  BY <1>1, <1>2, TailsType
<1>4. b \in Seq(S) /\ Len(b) = k /\ \A i \in 1..k : b[i] = s[Len(s) - k + i]
  BY <1>2, TailsType
<1> HIDE DEF a, b
<1>5. ASSUME NEW i \in 1..k
      PROVE  a[i] = b[i]
  <2>1. n - k + i \in 1..n /\ Len(s) - n + (n - k + i) = Len(s) - k + i
    OBVIOUS
  <2> QED
    BY <1>1, <1>3, <1>4, <2>1
<1>6. a = b
  BY <1>3, <1>4, <1>5, SameSequence
<1> QED
  BY <1>6 DEF a, b, u

LEMMA BeforeTails ==
  ASSUME NEW S, NEW s \in Seq(S), NEW n \in 2..Len(s)
  PROVE  Before(Tails(s, n)) = Tails(Before(s), n - 1)
<1> DEFINE u == Tails(s, n)
           v == Before(s)
           a == Before(u)
           b == Tails(v, n - 1)
<1>1. u \in Seq(S) /\ Len(u) = n /\ \A i \in 1..n : u[i] = s[Len(s) - n + i]
  BY TailsType
<1>2. v \in Seq(S) /\ Len(v) = Len(s) - 1 /\ \A i \in 1..Len(s) - 1 : v[i] = s[i]
  BY BeforeType
<1>3. n - 1 \in 1..Len(v)
  BY <1>2
<1> HIDE DEF u, v
<1>4. b \in Seq(S) /\ Len(b) = n - 1 /\ \A i \in 1..n - 1 : b[i] = v[Len(v) - (n - 1) + i]
  BY <1>2, <1>3, TailsType
<1>5. a \in Seq(S) /\ Len(a) = n - 1 /\ \A i \in 1..n - 1 : a[i] = u[i]
  <2>1. Len(u) >= 1
    BY <1>1
  <2>2. a \in Seq(S) /\ Len(a) = Len(u) - 1 /\ \A i \in 1..Len(u) - 1 : a[i] = u[i]
    BY <1>1, <2>1, BeforeType
  <2> QED
    BY <1>1, <2>2
<1> HIDE DEF a, b
<1>6. ASSUME NEW i \in 1..n - 1
      PROVE  a[i] = b[i]
  <2> DEFINE j == Len(s) - n + i
  <2>1. i \in 1..n /\ j \in 1..Len(s) - 1 /\ Len(v) - (n - 1) + i = j
    BY <1>2
  <2>2. u[i] = s[j]
    BY <1>1, <2>1
  <2> HIDE DEF j
  <2>3. b[i] = v[j]
    BY <1>4, <2>1
  <2>4. v[j] = s[j]
    BY <1>2, <2>1
  <2> QED
    BY <1>5, <2>2, <2>3, <2>4
<1>7. a = b
  BY <1>4, <1>5, <1>6, SameSequence
<1> QED
  BY <1>7 DEF a, b, u, v


(***************************************************************************)
(* What the indicators see.  Each looks at a fixed number of the last      *)
(* closes, so that a window that holds those gives the signal of all.      *)
(***************************************************************************)

Closes == Seq(Nat)

LEMMA PeriodTypes ==
  /\ FastPeriod \in Nat /\ SlowPeriod \in Nat /\ RsiPeriod \in Nat /\ BandPeriod \in Nat
  /\ FastPeriod >= 2 /\ SlowPeriod > FastPeriod /\ RsiPeriod >= 2 /\ BandPeriod >= 2
  BY SignalRulesAssumption DEF SmaParameters, RsiParameters, BandParameters

LEMMA WindowIs ==
  ASSUME NEW S, NEW s \in Seq(S), NEW n \in 2..Len(s)
  PROVE  /\ Tails(s, n) \in Seq(S) /\ Len(Tails(s, n)) = n
         /\ Before(Tails(s, n)) = Tails(Before(s), n - 1)
         /\ Before(s) \in Seq(S) /\ Len(Before(s)) = Len(s) - 1 /\ n - 1 \in 1..Len(s) - 1
         /\ Last(Tails(s, n)) = Last(s) /\ Tails(s, n)[n - 1] = s[Len(s) - 1]
         /\ \A k \in 1..n : Tails(Tails(s, n), k) = Tails(s, k)
         /\ \A k \in 1..n - 1 : Tails(Before(Tails(s, n)), k) = Tails(Before(s), k)
<1> DEFINE w == Tails(s, n)
           v == Before(s)
<1>1. n \in 1..Len(s) /\ Len(s) >= 1 /\ n - 1 \in 1..Len(s) - 1 /\ n \in 1..n /\ n - 1 \in 1..n
  OBVIOUS
<1>2. w \in Seq(S) /\ Len(w) = n /\ \A i \in 1..n : w[i] = s[Len(s) - n + i]
  BY <1>1, TailsType
<1>3. v \in Seq(S) /\ Len(v) = Len(s) - 1
  BY <1>1, BeforeType
<1>4. Before(w) = Tails(v, n - 1)
  BY BeforeTails
<1>5. \A k \in 1..n : Tails(w, k) = Tails(s, k)
  BY <1>1, TailsOfTails
<1> HIDE DEF w, v
<1>6. \A k \in 1..n - 1 : Tails(Tails(v, n - 1), k) = Tails(v, k)
  <2>1. n - 1 \in 1..Len(v)
    BY <1>1, <1>3
  <2> QED
    BY <1>3, <2>1, TailsOfTails
<1>7. \A k \in 1..n - 1 : Tails(Before(w), k) = Tails(v, k)
  BY <1>4, <1>6
<1>8. Last(w) = Last(s) /\ w[n - 1] = s[Len(s) - 1]
  <2>1. w[n] = s[Len(s) - n + n] /\ w[n - 1] = s[Len(s) - n + (n - 1)]
    BY <1>1, <1>2
  <2>2. Len(s) - n + n = Len(s) /\ Len(s) - n + (n - 1) = Len(s) - 1
    OBVIOUS
  <2> QED
    BY <1>2, <2>1, <2>2 DEF Last
<1> QED
  BY <1>1, <1>2, <1>3, <1>4, <1>5, <1>7, <1>8 DEF w, v

\* A crossover of simple averages compares two windows at two bars.
LEMMA SmaWindow ==
  ASSUME NEW s \in Closes, NEW n \in 1..Len(s), n >= SlowPeriod + 1
  PROVE  SmaSignal(Tails(s, n)) = SmaSignal(s)
<1> DEFINE w == Tails(s, n)
           v == Before(s)
           u == Before(w)
<1>1. n \in 2..Len(s) /\ FastPeriod \in 1..n - 1 /\ SlowPeriod \in 1..n - 1
      /\ FastPeriod \in 1..n /\ SlowPeriod \in 1..n /\ SlowPeriod + 1 \in Nat
  BY PeriodTypes
<1>2. /\ Len(w) = n /\ Len(s) \in Nat
      /\ \A k \in 1..n : Tails(w, k) = Tails(s, k)
      /\ \A k \in 1..n - 1 : Tails(u, k) = Tails(v, k)
  <2>1. s \in Seq(Nat) /\ Len(s) \in Nat
    BY DEF Closes
  <2> QED
    BY <1>1, <2>1, WindowIs
<1> HIDE DEF w, v, u
<1>3. Above(w) = Above(s)
  BY <1>1, <1>2 DEF Above
<1>4. Above(u) = Above(v)
  BY <1>1, <1>2 DEF Above
<1>5. ~(Len(w) < SlowPeriod + 1) /\ ~(Len(s) < SlowPeriod + 1)
  BY <1>1, <1>2
<1>6. SmaSignal(w) = FirstOf(~Above(u) /\ Above(w), Above(u) /\ ~Above(w))
  BY <1>5 DEF SmaSignal, u
<1>7. SmaSignal(s) = FirstOf(~Above(v) /\ Above(s), Above(v) /\ ~Above(s))
  BY <1>5 DEF SmaSignal, v
<1>8. SmaSignal(w) = SmaSignal(s)
  BY <1>3, <1>4, <1>6, <1>7
<1> QED
  BY <1>8 DEF w

\* The relative strength of a sequence of changes.
Changes(prices) == [i \in 1..Len(prices) - 1 |-> prices[i + 1] - prices[i]]

Strength(recent) ==
  LET gains  == Total(SelectSeq(recent, LAMBDA d : d > 0))
      losses == -Total(SelectSeq(recent, LAMBDA d : d < 0))
  IN  IF losses = 0 THEN [num |-> 1, den |-> 1] ELSE [num |-> gains, den |-> gains + losses]

LEMMA RsiIs == ASSUME NEW s PROVE Rsi(s) = Strength(Tails(Changes(s), RsiPeriod))
  BY DEF Rsi, Strength, Changes

LEMMA ChangesOfTails ==
  ASSUME NEW s \in Closes, NEW n \in 2..Len(s)
  PROVE  /\ Changes(s) \in Seq(Int) /\ Len(Changes(s)) = Len(s) - 1
         /\ Changes(Tails(s, n)) = Tails(Changes(s), n - 1)
<1> DEFINE w == Tails(s, n)
           c == Changes(s)
           a == Changes(w)
           b == Tails(c, n - 1)
<1>1. w \in Closes /\ Len(w) = n /\ \A i \in 1..n : w[i] = s[Len(s) - n + i]
  <2>1. n \in 1..Len(s)
    OBVIOUS
  <2> QED
    BY <2>1, TailsType DEF Closes
<1>2. ASSUME NEW z \in Closes, Len(z) >= 1
      PROVE  /\ Changes(z) \in Seq(Int) /\ Len(Changes(z)) = Len(z) - 1
             /\ \A i \in 1..Len(z) - 1 : Changes(z)[i] = z[i + 1] - z[i]
  <2>1. \A i \in 1..Len(z) - 1 : z[i + 1] - z[i] \in Int
    <3>1. \A i \in 1..Len(z) : z[i] \in Nat
      BY DEF Closes
    <3>2. \A i \in 1..Len(z) - 1 : i \in 1..Len(z) /\ i + 1 \in 1..Len(z)
      BY DEF Closes
    <3> QED
      BY <3>1, <3>2
  <2>2. Len(z) - 1 \in Nat
    BY <1>2 DEF Closes
  <2> QED
    BY <2>1, <2>2 DEF Changes
<1>3. c \in Seq(Int) /\ Len(c) = Len(s) - 1 /\ \A i \in 1..Len(s) - 1 : c[i] = s[i + 1] - s[i]
  BY <1>2
<1> HIDE DEF w, c
<1>4. a \in Seq(Int) /\ Len(a) = n - 1 /\ \A i \in 1..n - 1 : a[i] = w[i + 1] - w[i]
  <2>1. Len(w) >= 1
    BY <1>1
  <2> QED
    BY <1>1, <1>2, <2>1
<1>5. b \in Seq(Int) /\ Len(b) = n - 1 /\ \A i \in 1..n - 1 : b[i] = c[Len(c) - (n - 1) + i]
  <2>1. n - 1 \in 1..Len(c)
    BY <1>3 DEF Closes
  <2> QED
    BY <1>3, <2>1, TailsType
<1> HIDE DEF a, b
<1>6. ASSUME NEW i \in 1..n - 1
      PROVE  a[i] = b[i]
  <2> DEFINE j == Len(s) - n + i
  <2>1. /\ i \in 1..n /\ i + 1 \in 1..n /\ j \in 1..Len(s) - 1
        /\ Len(s) - n + (i + 1) = j + 1 /\ Len(c) - (n - 1) + i = j
    BY <1>3 DEF Closes
  <2>2. w[i] = s[j] /\ w[i + 1] = s[j + 1]
    BY <1>1, <2>1
  <2> HIDE DEF j
  <2>3. b[i] = c[j]
    BY <1>5, <2>1
  <2>4. c[j] = s[j + 1] - s[j]
    BY <1>3, <2>1
  <2> QED
    BY <1>4, <2>2, <2>3, <2>4
<1>7. a = b
  BY <1>4, <1>5, <1>6, SameSequence
<1> QED
  BY <1>3, <1>7 DEF a, b, w, c

LEMMA RsiWindow ==
  ASSUME NEW s \in Closes, NEW n \in 1..Len(s), n >= RsiPeriod + 2
  PROVE  RsiSignal(Tails(s, n)) = RsiSignal(s)
<1> DEFINE w == Tails(s, n)
           v == Before(s)
           u == Before(w)
<1>1. /\ n \in 2..Len(s) /\ RsiPeriod \in 1..n - 1 /\ RsiPeriod \in 1..n - 2
      /\ n - 1 \in 2..Len(s) - 1 /\ RsiPeriod + 2 \in Nat
  BY PeriodTypes DEF Closes
<1>2. /\ Len(w) = n /\ u = Tails(v, n - 1) /\ v \in Closes /\ Len(v) = Len(s) - 1
  <2>1. s \in Seq(Nat)
    BY DEF Closes
  <2> QED
    BY <1>1, <2>1, WindowIs DEF Closes
<1> HIDE DEF w, v, u
<1>3. ASSUME NEW z \in Closes, NEW m \in 2..Len(z), RsiPeriod \in 1..m - 1
      PROVE  Rsi(Tails(z, m)) = Rsi(z)
  <2>1. /\ Changes(z) \in Seq(Int) /\ Len(Changes(z)) = Len(z) - 1
        /\ Changes(Tails(z, m)) = Tails(Changes(z), m - 1)
    BY ChangesOfTails
  <2>2. m - 1 \in 1..Len(Changes(z))
    BY <2>1 DEF Closes
  <2>3. Tails(Tails(Changes(z), m - 1), RsiPeriod) = Tails(Changes(z), RsiPeriod)
    BY <1>3, <2>1, <2>2, TailsOfTails
  <2> QED
    BY <2>1, <2>3, RsiIs
<1>4. Rsi(w) = Rsi(s)
  BY <1>1, <1>3 DEF w
<1>5. Rsi(u) = Rsi(v)
  <2>1. n - 1 \in 2..Len(v) /\ RsiPeriod \in 1..(n - 1) - 1
    BY <1>1, <1>2
  <2> QED
    BY <1>2, <1>3, <2>1
<1>6. ~(Len(w) < RsiPeriod + 2) /\ ~(Len(s) < RsiPeriod + 2)
  <2>1. Len(s) \in Nat
    BY DEF Closes
  <2> QED
    BY <1>1, <1>2, <2>1
<1>7. RsiSignal(w) = FirstOf(~RsiUnder(u, Oversold) /\ RsiUnder(w, Oversold),
                             ~RsiOver(u, Overbought) /\ RsiOver(w, Overbought))
  BY <1>6 DEF RsiSignal, u
<1>8. RsiSignal(s) = FirstOf(~RsiUnder(v, Oversold) /\ RsiUnder(s, Oversold),
                             ~RsiOver(v, Overbought) /\ RsiOver(s, Overbought))
  BY <1>6 DEF RsiSignal, v
<1>9. /\ RsiUnder(u, Oversold) = RsiUnder(v, Oversold)
      /\ RsiUnder(w, Oversold) = RsiUnder(s, Oversold)
      /\ RsiOver(u, Overbought) = RsiOver(v, Overbought)
      /\ RsiOver(w, Overbought) = RsiOver(s, Overbought)
  BY <1>4, <1>5 DEF RsiUnder, RsiOver
<1>10. RsiSignal(w) = RsiSignal(s)
  BY <1>7, <1>8, <1>9
<1> QED
  BY <1>10 DEF w

LEMMA BandWindow ==
  ASSUME NEW s \in Closes, NEW n \in 1..Len(s), n >= BandPeriod + 1
  PROVE  BandSignal(Tails(s, n)) = BandSignal(s)
<1> DEFINE w == Tails(s, n)
<1>1. n \in 2..Len(s) /\ BandPeriod \in 1..n /\ BandPeriod + 1 \in Nat
  BY PeriodTypes DEF Closes
<1>2. /\ Len(w) = n /\ Last(w) = Last(s) /\ w[n - 1] = s[Len(s) - 1]
      /\ Tails(w, BandPeriod) = Tails(s, BandPeriod)
  <2>1. s \in Seq(Nat)
    BY DEF Closes
  <2> QED
    BY <1>1, <2>1, WindowIs
<1> HIDE DEF w
<1>3. \A price : /\ BelowBand(w, price) = BelowBand(s, price)
                 /\ OverMiddle(w, price) = OverMiddle(s, price)
  BY <1>2 DEF BelowBand, OverMiddle
<1>4. ~(Len(w) < BandPeriod + 1) /\ ~(Len(s) < BandPeriod + 1)
  <2>1. Len(s) \in Nat
    BY DEF Closes
  <2> QED
    BY <1>1, <1>2, <2>1
<1> DEFINE Verdict(z, was, is) ==
             FirstOf(~BelowBand(z, was) /\ BelowBand(z, is), OverMiddle(z, is) /\ ~OverMiddle(z, was))
<1>5. BandSignal(w) = Verdict(w, w[Len(w) - 1], Last(w))
  BY <1>4 DEF BandSignal
<1>6. BandSignal(s) = Verdict(s, s[Len(s) - 1], Last(s))
  BY <1>4 DEF BandSignal
<1>7. \A was, is : Verdict(w, was, is) = Verdict(s, was, is)
  BY <1>3
<1> HIDE DEF Verdict
<1>8. BandSignal(w) = BandSignal(s)
  BY <1>2, <1>5, <1>6, <1>7
<1> QED
  BY <1>8 DEF w

\* Every strategy gives at most one signal.
LEMMA GeneratedType ==
  ASSUME NEW name \in RuleNames, NEW s
  PROVE  Generated(name, s) \in {<<>>} \cup {<<x>> : x \in Signals}
<1>2. SmaSignal(s) \in {<<>>, <<"long">>, <<"close">>}
  BY DEF SmaSignal, FirstOf
<1>3. RsiSignal(s) \in {<<>>, <<"long">>, <<"close">>}
  BY DEF RsiSignal, FirstOf
<1>4. MacdSignal(s) \in {<<>>, <<"long">>, <<"close">>}
  BY DEF MacdSignal, FirstOf
<1>5. BandSignal(s) \in {<<>>, <<"long">>, <<"close">>}
  BY DEF BandSignal, FirstOf
<1>6. Generated(name, s) \in {<<>>, <<"long">>, <<"close">>}
  BY <1>2, <1>3, <1>4, <1>5 DEF Generated, RuleNames
<1> QED
  BY <1>6 DEF Signals

(***************************************************************************)
(* Sequences put together.  FlattenSeq is a recursive function of the      *)
(* library; that it has the values its recursion says is an induction.     *)
(***************************************************************************)

\* Induction over the naturals, for a set in place of a predicate: the order is well founded.
LEMMA NaturalsFrom ==
  ASSUME NEW T \in SUBSET Nat, 0 \in T, \A n \in T : n + 1 \in T
  PROVE  T = Nat
<1> DEFINE R == OpToRel(<, Nat)
           U == Nat \ T
<1>1. IsWellFoundedOn(R, Nat)
  BY NatLessThanWellFounded
<1>2. R = {ss \in Nat \X Nat : ss[1] < ss[2]}
  BY DEF OpToRel
<1>3. \A x, y \in Nat : x < y => <<x, y>> \in R
  BY <1>2
<1>4. SUFFICES ASSUME U # {} PROVE FALSE
  OBVIOUS
<1> HIDE DEF R
<1>5. PICK x \in U : \A y \in U : ~(<<y, x>> \in R)
  BY <1>1, <1>4, WFMin
<1>6. x # 0 /\ x \in Nat
  BY <1>5
<1>7. x - 1 \in Nat /\ x - 1 < x /\ x - 1 + 1 = x
  BY <1>6
<1>8. x - 1 \in T
  BY <1>3, <1>5, <1>6, <1>7
<1>9. x \in T
  BY <1>7, <1>8
<1> QED
  BY <1>5, <1>9

\* f lists what the first sequences make when put together, up to the m-th.
Flattens(f, m, ss, S) ==
  /\ f \in [0..m -> Seq(S)] /\ f[0] = <<>>
  /\ \A i \in 1..m : f[i] = f[i - 1] \o ss[i]

LEMMA FlattensExists ==
  ASSUME NEW S, NEW ss \in Seq(Seq(S))
  PROVE  \E f : Flattens(f, Len(ss), ss, S)
<1> DEFINE n == Len(ss)
           T == {m \in Nat : m <= n => \E f : Flattens(f, m, ss, S)}
<1>1. n \in Nat /\ \A i \in 1..n : ss[i] \in Seq(S)
  OBVIOUS
<1>2. 0 \in T
  <2> DEFINE f == [i \in 0..0 |-> <<>>]
  <2>1. f \in [0..0 -> Seq(S)] /\ f[0] = <<>> /\ 1..0 = {}
    OBVIOUS
  <2>2. Flattens(f, 0, ss, S)
    BY <2>1 DEF Flattens
  <2> QED
    BY <2>2
<1>3. ASSUME NEW m \in T
      PROVE  m + 1 \in T
  <2>1. m \in Nat /\ m + 1 \in Nat
    OBVIOUS
  <2>2. SUFFICES ASSUME m + 1 <= n PROVE \E f : Flattens(f, m + 1, ss, S)
    BY <2>1
  <2>3. PICK f : Flattens(f, m, ss, S)
    BY <1>1, <2>1, <2>2
  <2> DEFINE g == [i \in 0..m + 1 |-> IF i = m + 1 THEN f[m] \o ss[m + 1] ELSE f[i]]
  <2>4. f[m] \in Seq(S) /\ ss[m + 1] \in Seq(S)
    BY <1>1, <2>1, <2>2, <2>3 DEF Flattens
  <2>5. f[m] \o ss[m + 1] \in Seq(S)
    BY <2>4, ConcatProperties
  <2>6. g \in [0..m + 1 -> Seq(S)] /\ g[0] = <<>>
    BY <2>1, <2>3, <2>5 DEF Flattens
  <2>7. ASSUME NEW i \in 1..m + 1
        PROVE  g[i] = g[i - 1] \o ss[i]
    <3>1. CASE i = m + 1
      <4>1. i \in 0..m + 1 /\ i - 1 = m /\ m \in 0..m + 1 /\ m # m + 1
        BY <2>1, <3>1
      <4>2. g[i] = f[m] \o ss[i] /\ g[i - 1] = f[m]
        BY <3>1, <4>1
      <4> QED
        BY <4>2
    <3>2. CASE i # m + 1
      <4>1. i \in 1..m /\ i - 1 \in 0..m /\ i \in 0..m + 1 /\ i - 1 \in 0..m + 1 /\ i - 1 # m + 1
        BY <2>1, <3>2
      <4>2. g[i] = f[i] /\ g[i - 1] = f[i - 1]
        BY <3>2, <4>1
      <4>3. f[i] = f[i - 1] \o ss[i]
        BY <2>3, <4>1 DEF Flattens
      <4> QED
        BY <4>2, <4>3
    <3> QED
      BY <3>1, <3>2
  <2>8. Flattens(g, m + 1, ss, S)
    BY <2>6, <2>7 DEF Flattens
  <2> QED
    BY <2>8
<1>4. T = Nat
  <2> HIDE DEF T
  <2>1. T \in SUBSET Nat
    BY DEF T
  <2> QED
    BY <1>2, <1>3, <2>1, NaturalsFrom
<1>5. n \in T
  BY <1>1, <1>4
<1> QED
  BY <1>1, <1>5

\* FlattenSeq is the last of them.
LEMMA FlattenIs ==
  ASSUME NEW S, NEW ss \in Seq(Seq(S)), NEW f, Flattens(f, Len(ss), ss, S)
  PROVE  FlattenSeq(ss) = f[Len(ss)]
<1> DEFINE n == Len(ss)
           Def(g) == [i \in 1..n |-> IF i = 1 THEN ss[i] ELSE g[i - 1] \o ss[i]]
           c == CHOOSE g : g = Def(g)
<1>1. n \in Nat /\ \A i \in 1..n : ss[i] \in Seq(S)
  OBVIOUS
<1>2. Flattens(f, n, ss, S)
  OBVIOUS
<1>3. /\ n \in Nat /\ \A i \in 1..n : ss[i] \in Seq(S)
      /\ f \in [0..n -> Seq(S)] /\ f[0] = <<>>
      /\ \A i \in 1..n : f[i] = f[i - 1] \o ss[i]
  <2> HIDE DEF n
  <2> QED
    BY <1>1, <1>2 DEF Flattens
<1>4. CASE n = 0
  <2>1. ss = <<>>
    BY <1>4
  <2> QED
    BY <1>3, <1>4, <2>1 DEF FlattenSeq
<1>5. CASE n # 0
  <2> DEFINE h == [i \in 1..n |-> f[i]]
  <2>1. h = Def(h)
    <3>1. ASSUME NEW i \in 1..n
          PROVE  h[i] = Def(h)[i]
      <4>1. CASE i = 1
        <5>1. f[i] = f[i - 1] \o ss[i] /\ ss[i] \in Seq(S)
          BY <1>3
        <5>2. f[i - 1] = <<>>
          BY <1>3, <4>1
        <5>3. f[i] = ss[i]
          BY <5>1, <5>2, ConcatEmptySeq
        <5> QED
          BY <4>1, <5>3
      <4>2. CASE i # 1
        <5>1. i - 1 \in 1..n
          BY <1>3, <4>2
        <5> QED
          BY <1>3, <4>2, <5>1
      <4> QED
        BY <4>1, <4>2
    <3> QED
      BY <3>1
  <2>2. c = Def(c)
    <3>1. \E g : g = Def(g)
      BY <2>1
    <3> HIDE DEF Def
    <3> QED
      BY <3>1
  <2>3. FlattenSeq(ss) = c[n]
    BY <1>5 DEF FlattenSeq
  <2> HIDE DEF c
  <2> DEFINE T == {m \in Nat : m + 1 <= n => c[m + 1] = f[m + 1]}
  <2>4. 1 \in 1..n
    BY <1>3, <1>5
  <2>5. 0 \in T
    <3>1. c[1] = ss[1] /\ 1 - 1 = 0 /\ ss[1] \in Seq(S)
      BY <1>3, <2>2, <2>4
    <3>2. f[1] = <<>> \o ss[1]
      BY <1>3, <2>4, <3>1
    <3>3. f[1] = ss[1]
      BY <3>1, <3>2, ConcatEmptySeq
    <3> QED
      BY <3>1, <3>3
  <2>6. ASSUME NEW m \in T
        PROVE  m + 1 \in T
    <3>1. m \in Nat /\ m + 1 \in Nat
      OBVIOUS
    <3>2. SUFFICES ASSUME m + 2 <= n PROVE c[m + 2] = f[m + 2]
      BY <3>1
    <3>3. m + 2 \in 1..n /\ m + 2 # 1 /\ (m + 2) - 1 = m + 1 /\ m + 1 <= n
      BY <1>3, <3>1, <3>2
    <3>4. c[m + 2] = c[m + 1] \o ss[m + 2]
      BY <2>2, <3>3
    <3>5. c[m + 1] = f[m + 1]
      BY <3>3
    <3>6. f[m + 2] = f[m + 1] \o ss[m + 2]
      BY <1>3, <3>3
    <3> QED
      BY <3>4, <3>5, <3>6
  <2>7. T = Nat
    <3> HIDE DEF T
    <3>1. T \in SUBSET Nat
      BY DEF T
    <3> QED
      BY <2>5, <2>6, <3>1, NaturalsFrom
  <2>8. n - 1 \in Nat /\ (n - 1) + 1 = n
    BY <1>3, <1>5
  <2>9. n - 1 \in T
    BY <2>7, <2>8
  <2>10. c[n] = f[n]
    BY <1>3, <2>8, <2>9
  <2> QED
    BY <2>3, <2>10
<1> QED
  BY <1>4, <1>5

LEMMA FlattenType ==
  ASSUME NEW S, NEW ss \in Seq(Seq(S))
  PROVE  FlattenSeq(ss) \in Seq(S)
<1>1. PICK f : Flattens(f, Len(ss), ss, S)
  BY FlattensExists
<1>2. FlattenSeq(ss) = f[Len(ss)]
  BY <1>1, FlattenIs
<1>3. Len(ss) \in Nat
  OBVIOUS
<1> QED
  BY <1>1, <1>2, <1>3 DEF Flattens

LEMMA FlattenConcat ==
  ASSUME NEW S, NEW ss \in Seq(Seq(S)), NEW tt \in Seq(Seq(S))
  PROVE  FlattenSeq(ss \o tt) = FlattenSeq(ss) \o FlattenSeq(tt)
<1> DEFINE m == Len(ss)
           n == Len(tt)
           all == ss \o tt
<1>1. PICK f : Flattens(f, m, ss, S)
  BY FlattensExists
<1>2. PICK g : Flattens(g, n, tt, S)
  BY FlattensExists
<1>3. FlattenSeq(ss) = f[m] /\ FlattenSeq(tt) = g[n]
  BY <1>1, <1>2, FlattenIs
<1>4. /\ m \in Nat /\ n \in Nat /\ all \in Seq(Seq(S)) /\ Len(all) = m + n
      /\ \A i \in 1..m + n : all[i] = IF i <= m THEN ss[i] ELSE tt[i - m]
      /\ \A j \in 1..n : tt[j] \in Seq(S)
  BY ConcatProperties
<1>5. \A x, y, z \in Seq(S) : (x \o y) \o z = x \o (y \o z)
  BY ConcatAssociative
<1> HIDE DEF m, n, all
<1>6. /\ f \in [0..m -> Seq(S)] /\ f[0] = <<>> /\ \A i \in 1..m : f[i] = f[i - 1] \o ss[i]
      /\ g \in [0..n -> Seq(S)] /\ g[0] = <<>> /\ \A i \in 1..n : g[i] = g[i - 1] \o tt[i]
      /\ f[m] \in Seq(S)
  <2>1. f \in [0..m -> Seq(S)] /\ f[0] = <<>> /\ \A i \in 1..m : f[i] = f[i - 1] \o ss[i]
    BY <1>1 DEF Flattens
  <2>2. g \in [0..n -> Seq(S)] /\ g[0] = <<>> /\ \A i \in 1..n : g[i] = g[i - 1] \o tt[i]
    BY <1>2 DEF Flattens
  <2>3. m \in 0..m
    BY <1>4
  <2> QED
    BY <2>1, <2>2, <2>3
<1> DEFINE h == [i \in 0..m + n |-> IF i <= m THEN f[i] ELSE f[m] \o g[i - m]]
<1>7. h \in [0..m + n -> Seq(S)]
  <2>1. ASSUME NEW i \in 0..m + n
        PROVE  (IF i <= m THEN f[i] ELSE f[m] \o g[i - m]) \in Seq(S)
    <3>1. CASE i <= m
      <4>1. i \in 0..m
        BY <1>4, <3>1
      <4> QED
        BY <1>6, <3>1, <4>1
    <3>2. CASE ~(i <= m)
      <4>1. i - m \in 0..n
        BY <1>4, <3>2
      <4>2. g[i - m] \in Seq(S)
        BY <1>6, <4>1
      <4> QED
        BY <1>6, <3>2, <4>2, ConcatProperties
    <3> QED
      BY <3>1, <3>2
  <2> QED
    BY <2>1
<1>8. h[0] = <<>>
  BY <1>4, <1>6
<1>9. ASSUME NEW i \in 1..m + n
      PROVE  h[i] = h[i - 1] \o all[i]
  <2>1. i \in 0..m + n /\ i - 1 \in 0..m + n
    BY <1>4
  <2>2. CASE i <= m
    <3>1. i \in 1..m /\ i - 1 <= m
      BY <1>4, <2>2
    <3>2. h[i] = f[i] /\ h[i - 1] = f[i - 1] /\ all[i] = ss[i]
      BY <1>4, <2>1, <2>2, <3>1
    <3>3. f[i] = f[i - 1] \o ss[i]
      BY <1>6, <3>1
    <3> QED
      BY <3>2, <3>3
  <2>3. CASE ~(i <= m)
    <3> DEFINE k == i - m
    <3>1. k \in 1..n /\ k - 1 \in 0..n /\ (i - 1) - m = k - 1
      BY <1>4, <2>3
    <3>2. h[i] = f[m] \o g[k] /\ all[i] = tt[k]
      BY <1>4, <2>1, <2>3
    <3>3. h[i - 1] = f[m] \o g[k - 1]
      <4>1. CASE i - 1 <= m
        <5>1. i - 1 = m /\ k - 1 = 0
          BY <1>4, <2>3, <4>1
        <5>2. h[i - 1] = f[m]
          BY <2>1, <4>1, <5>1
        <5>3. g[k - 1] = <<>>
          BY <1>6, <5>1
        <5> HIDE DEF h, k
        <5> QED
          BY <1>6, <5>2, <5>3, ConcatEmptySeq
      <4>2. CASE ~(i - 1 <= m)
        BY <2>1, <3>1, <4>2
      <4> QED
        BY <4>1, <4>2
    <3> HIDE DEF k
    <3>4. g[k] = g[k - 1] \o tt[k] /\ g[k - 1] \in Seq(S) /\ tt[k] \in Seq(S)
      BY <1>4, <1>6, <3>1
    <3>5. f[m] \o (g[k - 1] \o tt[k]) = (f[m] \o g[k - 1]) \o tt[k]
      <4> HIDE DEF h
      <4> QED
        BY <1>6, <1>5, <3>4
    <3> QED
      BY <3>2, <3>3, <3>4, <3>5
  <2> QED
    BY <2>2, <2>3
<1>10. Flattens(h, Len(all), all, S)
  <2> HIDE DEF h
  <2> QED
    BY <1>4, <1>7, <1>8, <1>9 DEF Flattens
<1>11. FlattenSeq(all) = h[m + n]
  <2> HIDE DEF h
  <2> QED
    BY <1>4, <1>10, FlattenIs
<1>12. h[m + n] = f[m] \o g[n]
  <2>1. m + n \in 0..m + n /\ (m + n) - m = n
    BY <1>4
  <2>2. CASE m + n <= m
    <3>1. n = 0 /\ m + n = m
      BY <1>4, <2>2
    <3>2. h[m + n] = f[m] /\ g[n] = <<>>
      BY <1>6, <2>1, <2>2, <3>1
    <3> HIDE DEF h
    <3> QED
      BY <1>6, <3>2, ConcatEmptySeq
  <2>3. CASE ~(m + n <= m)
    BY <2>1, <2>3
  <2> QED
    BY <2>2, <2>3
<1> QED
  BY <1>3, <1>11, <1>12 DEF all

\* Sequences of one value each make the sequence of the values.
LEMMA FlattenOfOnes ==
  ASSUME NEW S, NEW a \in Seq(S)
  PROVE  FlattenSeq([j \in 1..Len(a) |-> <<a[j]>>]) = a
<1> DEFINE n  == Len(a)
           ss == [j \in 1..n |-> <<a[j]>>]
           f  == [m \in 0..n |-> SubSeq(a, 1, m)]
<1>1. n \in Nat /\ \A j \in 1..n : a[j] \in S
  OBVIOUS
<1>2. ss \in Seq(Seq(S)) /\ Len(ss) = n
  BY <1>1
<1>3. ASSUME NEW m \in 0..n
      PROVE  SubSeq(a, 1, m) \in Seq(S)
  BY <1>1, SubSeqProperties
<1>4. f \in [0..n -> Seq(S)] /\ f[0] = <<>>
  <2>1. f[0] = SubSeq(a, 1, 0)
    BY <1>1
  <2>2. SubSeq(a, 1, 0) = <<>>
    BY SubSeqEmpty
  <2> QED
    BY <1>3, <2>1, <2>2
<1>5. ASSUME NEW i \in 1..n
      PROVE  f[i] = f[i - 1] \o ss[i]
  <2>1. i \in 0..n /\ i - 1 \in 0..n /\ 1 \in 1..n /\ i \in 1..Len(a)
    BY <1>1
  <2>2. f[i] = SubSeq(a, 1, i) /\ f[i - 1] = SubSeq(a, 1, i - 1) /\ ss[i] = <<a[i]>>
    BY <2>1
  <2>3. SubSeq(a, 1, i) = SubSeq(a, 1, i - 1) \o <<a[i]>>
    BY <2>1, SubSeqRecursiveSecond
  <2> QED
    BY <2>2, <2>3
<1> HIDE DEF ss, f
<1>6. Flattens(f, Len(ss), ss, S)
  BY <1>2, <1>4, <1>5 DEF Flattens
<1>7. FlattenSeq(ss) = f[n]
  BY <1>2, <1>6, FlattenIs
<1>8. f[n] = a
  BY <1>1, SubSeqFull DEF f
<1> QED
  BY <1>7, <1>8 DEF ss

LEMMA FlattenOfNone ==
  ASSUME NEW n \in Nat
  PROVE  FlattenSeq([j \in 1..n |-> <<>>]) = <<>>
<1> DEFINE ss == [j \in 1..n |-> <<>>]
           f  == [m \in 0..n |-> <<>>]
<1>1. ss \in Seq(Seq({})) /\ Len(ss) = n
  OBVIOUS
<1>2. f \in [0..n -> Seq({})] /\ f[0] = <<>> /\ f[n] = <<>>
  OBVIOUS
<1>3. ASSUME NEW i \in 1..n
      PROVE  f[i] = f[i - 1] \o ss[i]
  <2>1. i \in 0..n /\ i - 1 \in 0..n
    OBVIOUS
  <2>2. f[i] = <<>> /\ f[i - 1] = <<>> /\ ss[i] = <<>>
    BY <2>1
  <2>3. <<>> \in Seq({})
    OBVIOUS
  <2> QED
    BY <2>2, <2>3, ConcatEmptySeq
<1> HIDE DEF ss, f
<1>4. Flattens(f, Len(ss), ss, {})
  BY <1>1, <1>2, <1>3 DEF Flattens
<1>5. FlattenSeq(ss) = f[n]
  BY <1>1, <1>4, FlattenIs
<1> QED
  BY <1>2, <1>5 DEF ss

(***************************************************************************)
(* What the sandbox replays.                                               *)
(***************************************************************************)

Directions == Signals \cup {"sideways"}
Entries == [index : Int, direction : Directions]

\* What the harness writes for one bar.
Block(answers, index) ==
  [j \in 1..Len(answers) |-> [index |-> index, direction |-> answers[j]]]

LEMMA AnsweredType ==
  ASSUME rule \in RuleNames, NEW code, NEW bars
  PROVE  Answered(code, bars) \in Seq(Directions)
<1>1. Generated(rule, bars) \in Seq(Directions)
  <2>1. Generated(rule, bars) \in {<<>>} \cup {<<x>> : x \in Signals}
    BY GeneratedType
  <2>2. \A x \in Signals : <<x>> \in Seq(Directions)
    BY DEF Directions
  <2>3. <<>> \in Seq(Directions)
    OBVIOUS
  <2> QED
    BY <2>1, <2>2, <2>3
<1>2. <<"sideways">> \in Seq(Directions) /\ <<>> \in Seq(Directions)
  BY DEF Directions
<1>3. <<"sideways">> \o Generated(rule, bars) \in Seq(Directions)
  BY <1>1, <1>2, ConcatProperties
<1> QED
  BY <1>1, <1>2, <1>3 DEF Answered

LEMMA BlockType ==
  ASSUME NEW a \in Seq(Directions), NEW k \in Int
  PROVE  /\ Block(a, k) \in Seq(Entries) /\ Len(Block(a, k)) = Len(a)
         /\ \A j \in 1..Len(a) : /\ Block(a, k)[j].index = k
                                 /\ Block(a, k)[j].direction = a[j]
<1>1. Len(a) \in Nat /\ \A j \in 1..Len(a) : a[j] \in Directions
  OBVIOUS
<1>2. \A j \in 1..Len(a) : [index |-> k, direction |-> a[j]] \in Entries
  BY <1>1 DEF Entries
<1> QED
  BY <1>1, <1>2 DEF Block

\* The entries of a bar among some, each by itself.
Picks(out, i) ==
  [j \in 1..Len(out) |-> IF out[j].index = i THEN <<out[j].direction>> ELSE <<>>]

LEMMA PicksType ==
  ASSUME NEW out \in Seq(Entries), NEW i
  PROVE  /\ Picks(out, i) \in Seq(Seq(Directions)) /\ Len(Picks(out, i)) = Len(out)
         /\ \A j \in 1..Len(out) : Picks(out, i)[j] =
              IF out[j].index = i THEN <<out[j].direction>> ELSE <<>>
<1>1. \A j \in 1..Len(out) : out[j].direction \in Directions
  <2>1. \A j \in 1..Len(out) : out[j] \in Entries
    OBVIOUS
  <2> QED
    BY <2>1 DEF Entries
<1>2. \A j \in 1..Len(out) :
        (IF out[j].index = i THEN <<out[j].direction>> ELSE <<>>) \in Seq(Directions)
  BY <1>1
<1>3. Len(out) \in Nat
  OBVIOUS
<1> QED
  BY <1>2, <1>3 DEF Picks

LEMMA ByBarConcat ==
  ASSUME NEW s \in Seq(Entries), NEW t \in Seq(Entries), NEW i
  PROVE  ByBar(s \o t, i) = ByBar(s, i) \o ByBar(t, i)
<1> DEFINE a == Picks(s, i)
           b == Picks(t, i)
           c == Picks(s \o t, i)
           m == Len(s)
           n == Len(t)
<1>1. /\ s \o t \in Seq(Entries) /\ Len(s \o t) = m + n /\ m \in Nat /\ n \in Nat
      /\ \A j \in 1..m + n : (s \o t)[j] = IF j <= m THEN s[j] ELSE t[j - m]
  BY ConcatProperties
<1>2. a \in Seq(Seq(Directions)) /\ Len(a) = m
      /\ \A j \in 1..m : a[j] = IF s[j].index = i THEN <<s[j].direction>> ELSE <<>>
  BY PicksType
<1>3. b \in Seq(Seq(Directions)) /\ Len(b) = n
      /\ \A j \in 1..n : b[j] = IF t[j].index = i THEN <<t[j].direction>> ELSE <<>>
  BY PicksType
<1>4. c \in Seq(Seq(Directions)) /\ Len(c) = m + n
      /\ \A j \in 1..m + n : c[j] = IF (s \o t)[j].index = i THEN <<(s \o t)[j].direction>> ELSE <<>>
  <2>1. PICK u : u = s \o t
    OBVIOUS
  <2>2. u \in Seq(Entries) /\ Len(u) = m + n
    BY <1>1, <2>1
  <2>3. Picks(u, i) \in Seq(Seq(Directions)) /\ Len(Picks(u, i)) = Len(u)
        /\ \A j \in 1..Len(u) : Picks(u, i)[j] = IF u[j].index = i THEN <<u[j].direction>> ELSE <<>>
    BY <2>2, PicksType
  <2> QED
    BY <2>1, <2>2, <2>3
<1>5. ByBar(s, i) = FlattenSeq(a) /\ ByBar(t, i) = FlattenSeq(b) /\ ByBar(s \o t, i) = FlattenSeq(c)
  BY DEF ByBar, Picks
<1> HIDE DEF a, b, c, m, n
<1>6. a \o b \in Seq(Seq(Directions)) /\ Len(a \o b) = m + n
      /\ \A j \in 1..m + n : (a \o b)[j] = IF j <= m THEN a[j] ELSE b[j - m]
  <2>1. Len(a \o b) = Len(a) + Len(b) /\ a \o b \in Seq(Seq(Directions))
        /\ \A j \in 1..Len(a) + Len(b) : (a \o b)[j] = IF j <= Len(a) THEN a[j] ELSE b[j - Len(a)]
    BY <1>2, <1>3, ConcatProperties
  <2> QED
    BY <1>2, <1>3, <2>1
<1>7. ASSUME NEW j \in 1..m + n
      PROVE  c[j] = (a \o b)[j]
  <2>1. CASE j <= m
    <3>1. j \in 1..m
      BY <1>1, <2>1
    <3>2. (s \o t)[j] = s[j] /\ (a \o b)[j] = a[j]
      BY <1>1, <1>6, <2>1
    <3> QED
      BY <1>2, <1>4, <3>1, <3>2
  <2>2. CASE ~(j <= m)
    <3>1. j - m \in 1..n
      BY <1>1, <2>2
    <3>2. (s \o t)[j] = t[j - m] /\ (a \o b)[j] = b[j - m]
      BY <1>1, <1>6, <2>2
    <3> QED
      BY <1>3, <1>4, <3>1, <3>2
  <2> QED
    BY <2>1, <2>2
<1>8. c = a \o b
  <2>1. Len(c) = Len(a \o b) /\ \A j \in 1..Len(c) : c[j] = (a \o b)[j]
    BY <1>4, <1>6, <1>7
  <2> QED
    BY <1>4, <1>6, <2>1, SeqEqual
<1>9. FlattenSeq(a \o b) = FlattenSeq(a) \o FlattenSeq(b)
  BY <1>2, <1>3, FlattenConcat
<1> QED
  BY <1>5, <1>8, <1>9

\* Of what is written for one bar, all or nothing is found at a bar.
LEMMA ByBarBlock ==
  ASSUME NEW a \in Seq(Directions), NEW k \in Int, NEW i \in Int
  PROVE  ByBar(Block(a, k), i) = IF i = k THEN a ELSE <<>>
<1> DEFINE p == Picks(Block(a, k), i)
           n == Len(a)
<1>1. /\ Block(a, k) \in Seq(Entries) /\ Len(Block(a, k)) = n
      /\ \A j \in 1..n : Block(a, k)[j].index = k /\ Block(a, k)[j].direction = a[j]
  BY BlockType
<1>2. /\ n \in Nat
      /\ p = [j \in 1..n |-> IF k = i THEN <<a[j]>> ELSE <<>>]
  BY <1>1 DEF Picks
<1>3. ByBar(Block(a, k), i) = FlattenSeq(p)
  BY DEF ByBar, Picks
<1> HIDE DEF p
<1>4. CASE i = k
  <2>1. p = [j \in 1..Len(a) |-> <<a[j]>>]
    BY <1>2, <1>4
  <2> QED
    BY <1>3, <1>4, <2>1, FlattenOfOnes
<1>5. CASE i # k
  <2>1. p = [j \in 1..n |-> <<>>]
    BY <1>2, <1>5
  <2>2. FlattenSeq(p) = <<>>
    BY <1>2, <2>1, FlattenOfNone
  <2> QED
    BY <1>3, <1>5, <2>2
<1> QED
  BY <1>4, <1>5

\* At every bar the harness asked about, the code's answers to the bars up to it.
LEMMA WrittenByBar ==
  ASSUME rule \in RuleNames, NEW code, NEW bars, Len(bars) \in Nat,
         NEW i \in Warmup + 1..Len(bars)
  PROVE  ByBar(Written(code, bars), i - 1) = Answered(code, SubSeq(bars, 1, i))
<1> DEFINE A(k) == Answered(code, SubSeq(bars, 1, Warmup + k))
           n == Len(bars) - Warmup
           blocks == [k \in 1..n |-> Block(A(k), Warmup + k - 1)]
           own == i - Warmup
<1>1. /\ Warmup \in Nat /\ n \in Nat /\ own \in 1..n /\ Warmup + own = i
      /\ Warmup + own - 1 = i - 1 /\ i - 1 \in Int
  BY StrategyHostsAssumption
<1>2. \A k \in 1..n : A(k) \in Seq(Directions)
  BY AnsweredType
<1>3. Written(code, bars) = FlattenSeq(blocks)
  BY DEF Written, Block
<1> HIDE DEF A
<1>4. \A k \in 1..n : Block(A(k), Warmup + k - 1) \in Seq(Entries)
  <2> SUFFICES ASSUME NEW k \in 1..n PROVE Block(A(k), Warmup + k - 1) \in Seq(Entries)
    OBVIOUS
  <2>1. Warmup + k - 1 \in Int
    BY <1>1
  <2> QED
    BY <1>2, <2>1, BlockType
<1>5. blocks \in Seq(Seq(Entries)) /\ Len(blocks) = n
  BY <1>1, <1>4
<1>6. \A k \in 1..n : blocks[k] = Block(A(k), Warmup + k - 1)
  OBVIOUS
<1> HIDE DEF n, blocks, own
<1>7. PICK f : Flattens(f, n, blocks, Entries)
  BY <1>5, FlattensExists
<1>8. Written(code, bars) = f[n]
  BY <1>3, <1>5, <1>7, FlattenIs
<1>9. /\ f \in [0..n -> Seq(Entries)] /\ f[0] = <<>>
      /\ \A k \in 1..n : f[k] = f[k - 1] \o blocks[k]
  BY <1>7 DEF Flattens
<1> DEFINE found(m) == IF own <= m THEN A(own) ELSE <<>>
           T == {m \in Nat : m <= n => ByBar(f[m], i - 1) = found(m)}
<1>10. 0 \in T
  <2>1. Picks(<<>>, i - 1) = [j \in 1..0 |-> <<>>]
    BY DEF Picks
  <2>2. ByBar(<<>>, i - 1) = FlattenSeq(Picks(<<>>, i - 1))
    BY DEF ByBar, Picks
  <2>3. FlattenSeq([j \in 1..0 |-> <<>>]) = <<>>
    BY FlattenOfNone
  <2>4. found(0) = <<>>
    BY <1>1
  <2> QED
    BY <1>9, <2>1, <2>2, <2>3, <2>4
<1>11. ASSUME NEW m \in T
       PROVE  m + 1 \in T
  <2>1. m \in Nat /\ m + 1 \in Nat
    OBVIOUS
  <2>2. SUFFICES ASSUME m + 1 <= n PROVE ByBar(f[m + 1], i - 1) = found(m + 1)
    BY <2>1
  <2> DEFINE k == m + 1
  <2>3. k \in 1..n /\ k - 1 = m /\ m \in 0..n /\ m <= n /\ Warmup + k - 1 \in Int
    BY <1>1, <2>1, <2>2
  <2>4. ByBar(f[m], i - 1) = found(m)
    BY <2>3
  <2> HIDE DEF k
  <2>5. f[k] = f[m] \o blocks[k] /\ f[m] \in Seq(Entries)
    BY <1>9, <2>3
  <2>6. blocks[k] = Block(A(k), Warmup + k - 1) /\ A(k) \in Seq(Directions)
        /\ blocks[k] \in Seq(Entries)
    BY <1>2, <1>4, <1>6, <2>3
  <2>7. ByBar(f[k], i - 1) = ByBar(f[m], i - 1) \o ByBar(blocks[k], i - 1)
    BY <2>5, <2>6, ByBarConcat
  <2>8. ByBar(blocks[k], i - 1) = IF i - 1 = Warmup + k - 1 THEN A(k) ELSE <<>>
    BY <1>1, <2>3, <2>6, ByBarBlock
  <2>9. i - 1 = Warmup + k - 1 <=> own = k
    BY <1>1, <2>3 DEF own
  <2>10. A(own) \in Seq(Directions) /\ <<>> \in Seq(Directions)
    BY <1>1, <1>2
  <2>11. CASE own <= m
    <3>1. own # k /\ own <= k
      BY <1>1, <2>3, <2>11
    <3>2. ByBar(f[k], i - 1) = A(own) \o <<>>
      BY <2>4, <2>7, <2>8, <2>9, <2>11, <3>1
    <3>3. ByBar(f[k], i - 1) = A(own)
      BY <2>10, <3>2, ConcatEmptySeq
    <3> QED
      BY <3>1, <3>3 DEF k
  <2>12. CASE own = k
    <3>1. ~(own <= m) /\ own <= k
      BY <1>1, <2>3, <2>12
    <3>2. ByBar(f[k], i - 1) = <<>> \o A(own)
      BY <2>4, <2>7, <2>8, <2>9, <2>12, <3>1
    <3>3. ByBar(f[k], i - 1) = A(own)
      BY <2>10, <3>2, ConcatEmptySeq
    <3> QED
      BY <3>1, <3>3 DEF k
  <2>13. CASE ~(own <= m) /\ own # k
    <3>1. ~(own <= k)
      BY <1>1, <2>1, <2>3, <2>13
    <3>2. ByBar(f[k], i - 1) = <<>> \o <<>>
      BY <2>4, <2>7, <2>8, <2>9, <2>13
    <3>3. ByBar(f[k], i - 1) = <<>>
      BY <2>10, <3>2, ConcatEmptySeq
    <3> QED
      BY <3>1, <3>3 DEF k
  <2> QED
    BY <2>11, <2>12, <2>13
<1>12. T = Nat
  <2> HIDE DEF T
  <2>1. T \in SUBSET Nat
    BY DEF T
  <2> QED
    BY <1>10, <1>11, <2>1, NaturalsFrom
<1>13. ByBar(f[n], i - 1) = found(n)
  <2>1. n \in T /\ n <= n
    BY <1>1, <1>12
  <2> QED
    BY <2>1
<1>14. found(n) = A(own)
  BY <1>1
<1>15. A(own) = Answered(code, SubSeq(bars, 1, i))
  BY <1>1 DEF A
<1> QED
  BY <1>8, <1>13, <1>14, <1>15

(***************************************************************************)
(* The invariant.                                                          *)
(***************************************************************************)

Procs == {"none", "running", "exited", "killed"}
Kinds == Codes \cup {"sound"}
Replies == {0, 200, 400, 408, 502}

\* The fields of the sandbox, whatever its process wrote.
Boxes(outs) ==
  [waiting : BOOLEAN, proc : Procs, code : Kinds, bars : Seq(Prices), out : outs,
   reply : Replies]

\* The executor's last look saw all bars up to one, the ended ones as they ended, through
\* the window of some provider.
Looked(all, limit) ==
  /\ Len(all) = look.bar /\ Last(all) = look.price
  /\ \A i \in 1..look.bar - 1 : all[i] = closes[i]
  /\ look.first = look.bar - Len(Limited(all, limit)) + 1
  /\ look.given = Generated(rule, Limited(all, limit))

LookOK ==
  \/ look = NoLook
  \/ /\ look.bar \in 1..Len(closes) + 1
     /\ \E all \in Seq(Prices), limit \in Limits : Looked(all, limit)

BoxOK == \E outs : box \in Boxes(outs)

Inv == TypeOK /\ LookOK /\ BoxOK

LEMMA BoundTypes ==
  /\ FirstBars \in Nat /\ FirstBars >= 1 /\ MaxBars \in Nat /\ FirstBars <= MaxBars
  /\ \A limit \in Limits : limit \in Nat /\ limit >= 1
  /\ \A late \in Delays : late \in {0, 1}
  BY StrategyHostsAssumption

LEMMA LimitedType ==
  ASSUME NEW S, NEW all \in Seq(S), Len(all) >= 1, NEW limit \in Nat, limit >= 1
  PROVE  /\ Limited(all, limit) \in Seq(S)
         /\ Len(Limited(all, limit)) \in 1..Len(all)
         /\ Last(Limited(all, limit)) = Last(all)
<1>1. CASE Len(all) > limit
  <2> DEFINE w == Tails(all, limit)
  <2>1. limit \in 1..Len(all) /\ Len(all) - limit + limit = Len(all) /\ limit \in 1..limit
    BY <1>1
  <2>2. w \in Seq(S) /\ Len(w) = limit /\ \A i \in 1..limit : w[i] = all[Len(all) - limit + i]
    BY <2>1, TailsType
  <2> HIDE DEF w
  <2>3. Last(w) = Last(all)
    BY <2>1, <2>2 DEF Last
  <2>4. Limited(all, limit) = w
    BY <1>1 DEF Limited, w
  <2> QED
    BY <2>1, <2>2, <2>3, <2>4
<1>2. CASE ~(Len(all) > limit)
  BY <1>2 DEF Limited
<1> QED
  BY <1>1, <1>2

LEMMA AvailableType ==
  ASSUME TypeOK, NEW late \in Delays
  PROVE  /\ Available(late) \in Seq(Prices)
         /\ Len(Available(late)) \in 1..Len(closes) + 1
         /\ \A i \in 1..Len(Available(late)) - 1 : Available(late)[i] = closes[i]
<1>1. closes \in Seq(Prices) /\ forming \in Prices /\ Len(closes) >= 1 /\ Len(closes) \in Nat
  BY BoundTypes DEF TypeOK
<1>2. CASE late = 1
  BY <1>1, <1>2 DEF Available
<1>3. CASE late # 1
  BY <1>1, <1>3 DEF Available
<1> QED
  BY <1>2, <1>3

LEMMA InitInv == Init => Inv
<1> SUFFICES ASSUME Init PROVE Inv
  OBVIOUS
<1> USE DEF Init
<1>1. closes \in Seq(Prices) /\ Len(closes) = FirstBars /\ FirstBars \in FirstBars..MaxBars
  BY BoundTypes
<1>2. EmptyBox \in Boxes({<<>>})
  BY DEF EmptyBox, Boxes, Procs, Kinds, Replies
<1>3. TypeOK
  <2>1. Len(closes) \in FirstBars..MaxBars /\ Len(closes) \in Nat
    BY <1>1, BoundTypes
  <2>2. /\ cursor \in 0..Len(closes) + 1 /\ look.bar \in 0..Len(closes) + 1
        /\ look.first \in 0..look.bar /\ look.given = <<>>
    BY <2>1 DEF NoLook
  <2>3. /\ box.proc = "none" /\ box.code = "sound" /\ box.reply = 0 /\ box.waiting = FALSE
    BY DEF EmptyBox
  <2> QED
    BY <1>1, <2>1, <2>2, <2>3 DEF TypeOK
<1> QED
  BY <1>2, <1>3 DEF Inv, LookOK, BoxOK

LEMMA MarketInv == ASSUME Inv, Tick \/ BarEnds PROVE Inv'
<1>1. /\ forming \in Prices /\ closes \in Seq(Prices) /\ Len(closes) \in FirstBars..MaxBars
      /\ TypeOK /\ LookOK /\ BoxOK
  BY DEF Inv, TypeOK
<1>2. UNCHANGED <<host, rule, cursor, look, box, crashed>>
  BY DEF Tick, BarEnds
<1>3. /\ forming' \in Prices /\ closes' \in Seq(Prices) /\ Len(closes') \in FirstBars..MaxBars
      /\ Len(closes') >= Len(closes) /\ \A i \in 1..Len(closes) : closes'[i] = closes[i]
  <2>1. CASE Tick
    BY <1>1, <2>1 DEF Tick
  <2>2. CASE BarEnds
    BY <1>1, <2>2, BoundTypes DEF BarEnds
  <2> QED
    BY <2>1, <2>2
<1>4. Len(closes) \in Nat /\ Len(closes') \in Nat
  BY <1>1, <1>3
<1>5. TypeOK'
  BY <1>1, <1>2, <1>3, <1>4 DEF TypeOK
<1>6. LookOK'
  <2>1. CASE look = NoLook
    BY <1>2, <2>1 DEF LookOK
  <2>2. CASE look # NoLook
    <3>1. PICK all \in Seq(Prices), limit \in Limits : Looked(all, limit)
      BY <1>1, <2>2 DEF LookOK
    <3>2. look.bar \in 1..Len(closes) + 1
      BY <1>1, <2>2 DEF LookOK
    <3>3. \A i \in 1..look.bar - 1 : i \in 1..Len(closes)
      BY <1>4, <3>2
    <3>4. /\ Len(all) = look'.bar /\ Last(all) = look'.price
          /\ \A i \in 1..look'.bar - 1 : all[i] = closes'[i]
          /\ look'.first = look'.bar - Len(Limited(all, limit)) + 1
          /\ look'.given = Generated(rule', Limited(all, limit))
      BY <1>2, <1>3, <3>1, <3>3 DEF Looked
    <3>5. look'.bar \in 1..Len(closes') + 1
      BY <1>2, <1>3, <1>4, <3>2
    <3> QED
      BY <3>4, <3>5 DEF LookOK, Looked
  <2> QED
    BY <2>1, <2>2
<1>7. BoxOK'
  BY <1>1, <1>2 DEF BoxOK
<1> QED
  BY <1>5, <1>6, <1>7 DEF Inv

LEMMA PollInv == ASSUME Inv, Poll PROVE Inv'
<1>1. PICK late \in Delays, limit \in Limits :
        LET bar  == Len(Available(late))
            bars == Limited(Available(late), limit)
        IN  /\ cursor' = bar
            /\ look' = [bar |-> bar, first |-> bar - Len(bars) + 1, price |-> Last(bars),
                        given |-> Generated(rule, bars)]
  BY DEF Poll
<1> DEFINE all  == Available(late)
           bars == Limited(all, limit)
           bar  == Len(all)
<1>2. /\ cursor' = bar
      /\ look' = [bar |-> bar, first |-> bar - Len(bars) + 1, price |-> Last(bars),
                  given |-> Generated(rule, bars)]
      /\ UNCHANGED <<host, rule, closes, forming, box, crashed>>
  BY <1>1 DEF Poll
<1>3. TypeOK /\ BoxOK /\ rule \in RuleNames /\ Len(closes) \in Nat
  BY StrategyHostsAssumption DEF Inv, TypeOK
<1>4. all \in Seq(Prices) /\ bar \in 1..Len(closes) + 1 /\ \A i \in 1..bar - 1 : all[i] = closes[i]
  BY <1>3, AvailableType
<1> HIDE DEF all
<1>5. Len(bars) \in 1..bar /\ Last(bars) = Last(all)
  BY <1>4, BoundTypes, LimitedType
<1>6. Generated(rule, bars) \in {<<>>} \cup {<<x>> : x \in Signals}
  BY <1>3, GeneratedType
<1> HIDE DEF bars
<1>7. /\ look'.bar = bar /\ look'.first = bar - Len(bars) + 1 /\ look'.price = Last(bars)
      /\ look'.given = Generated(rule, bars)
  BY <1>2
<1>8. TypeOK'
  <2>1. bar \in 0..Len(closes) + 1 /\ bar - Len(bars) + 1 \in 0..bar
    BY <1>3, <1>4, <1>5
  <2> HIDE DEF bar
  <2> QED
    BY <1>2, <1>3, <1>6, <1>7, <2>1 DEF TypeOK
<1>9. LookOK'
  <2>1. /\ Len(all) = look'.bar /\ Last(all) = look'.price
        /\ \A i \in 1..look'.bar - 1 : all[i] = closes'[i]
        /\ look'.first = look'.bar - Len(Limited(all, limit)) + 1
        /\ look'.given = Generated(rule', Limited(all, limit))
    BY <1>2, <1>4, <1>5, <1>7 DEF bars
  <2>2. look'.bar \in 1..Len(closes') + 1
    BY <1>2, <1>4, <1>7
  <2> QED
    BY <1>4, <2>1, <2>2 DEF LookOK, Looked
<1> QED
  BY <1>2, <1>3, <1>8, <1>9 DEF Inv, BoxOK

\* A step that leaves the executor's look alone, and where the sandbox is well typed.
LEMMA ElsewhereInv ==
  ASSUME Inv, UNCHANGED <<host, rule, closes, forming, look>>, cursor' \in {0, cursor},
         crashed' \in BOOLEAN, BoxOK',
         box'.waiting => box'.proc \in {"running", "exited"} /\ Len(box'.bars) >= MinBars
  PROVE  Inv'
<1>1. TypeOK /\ Len(closes) \in Nat
  BY DEF Inv, TypeOK
<1>2. PICK outs : box' \in Boxes(outs)
  BY DEF BoxOK
<1>3. TypeOK'
  <2>1. cursor' \in 0..Len(closes) + 1
    BY <1>1 DEF TypeOK
  <2>2. box'.proc \in Procs /\ box'.code \in Kinds /\ box'.reply \in Replies
    BY <1>2 DEF Boxes
  <2> QED
    BY <1>1, <2>1, <2>2 DEF TypeOK, Procs, Kinds, Replies
<1>4. LookOK'
  BY DEF Inv, LookOK, Looked
<1> QED
  BY <1>3, <1>4 DEF Inv

LEMMA BoxIs ==
  ASSUME Inv
  PROVE  /\ \E outs : box \in Boxes(outs)
         /\ box.waiting => box.proc \in {"running", "exited"} /\ Len(box.bars) >= MinBars
         /\ crashed \in BOOLEAN
  BY DEF Inv, BoxOK, TypeOK

LEMMA ReloadInv == ASSUME Inv, Reload PROVE Inv'
  BY BoxIs, ElsewhereInv DEF Reload, BoxOK

\* A request that is answered before any process is started.
LEMMA RefusedInv == ASSUME Inv, Submit, Refused PROVE Inv'
<1> DEFINE e == EmptyBox
<1>1. e \in Boxes({<<>>}) /\ e.waiting = FALSE
  BY DEF EmptyBox, Boxes, Procs, Kinds, Replies
<1>2. (box' = [e EXCEPT !.reply = 400]) \/ (box' = [e EXCEPT !.reply = 502])
  BY DEF Refused
<1> HIDE DEF e
<1>3. box' \in Boxes({<<>>}) /\ box'.waiting = FALSE
  BY <1>1, <1>2 DEF Boxes, Replies
<1> QED
  BY <1>3, BoxIs, ElsewhereInv DEF Submit, BoxOK

LEMMA SubmitInv == ASSUME Inv, Submit PROVE Inv'
<1>0. SUFFICES ASSUME ~Refused PROVE Inv'
  BY RefusedInv
<1>1. PICK code \in Codes, late \in Delays, limit \in Limits :
        box' = IF Len(Limited(Available(late), limit)) < MinBars
               THEN [EmptyBox EXCEPT !.reply = 400]
               ELSE [EmptyBox EXCEPT !.waiting = TRUE, !.proc = "running", !.code = code,
                                     !.bars = Limited(Available(late), limit)]
  BY <1>0 DEF Submit
<1> DEFINE bars == Limited(Available(late), limit)
<1>2. bars \in Seq(Prices) /\ Len(bars) \in Nat
  <2>1. TypeOK
    BY DEF Inv
  <2>2. Available(late) \in Seq(Prices) /\ Len(Available(late)) \in 1..Len(closes) + 1
    BY <2>1, AvailableType
  <2>3. Len(Available(late)) >= 1 /\ Len(Available(late)) \in Nat
    BY <2>2
  <2>4. limit \in Nat /\ limit >= 1
    BY BoundTypes
  <2> QED
    BY <2>2, <2>3, <2>4, LimitedType
<1> HIDE DEF bars
<1> DEFINE e == EmptyBox
<1>3. e \in Boxes({<<>>}) /\ e.waiting = FALSE
  BY DEF EmptyBox, Boxes, Procs, Kinds, Replies
<1>4. MinBars \in Nat /\ code \in Kinds
  BY StrategyHostsAssumption DEF Kinds
<1>5. \/ box' = [e EXCEPT !.reply = 400]
      \/ /\ ~(Len(bars) < MinBars)
         /\ box' = [e EXCEPT !.waiting = TRUE, !.proc = "running", !.code = code, !.bars = bars]
  BY <1>1 DEF bars
<1> HIDE DEF e
<1>6. CASE box' = [e EXCEPT !.reply = 400]
  <2>1. box' \in Boxes({<<>>}) /\ box'.waiting = FALSE
    BY <1>3, <1>6 DEF Boxes, Replies
  <2> QED
    BY <2>1, BoxIs, ElsewhereInv DEF Submit, BoxOK
<1>7. CASE /\ ~(Len(bars) < MinBars)
           /\ box' = [e EXCEPT !.waiting = TRUE, !.proc = "running", !.code = code, !.bars = bars]
  <2>1. box' \in Boxes({<<>>}) /\ box'.proc = "running" /\ box'.bars = bars
    BY <1>2, <1>3, <1>4, <1>7 DEF Boxes, Procs
  <2>2. Len(bars) >= MinBars
    BY <1>2, <1>4, <1>7
  <2> QED
    BY <2>1, <2>2, BoxIs, ElsewhereInv DEF Submit, BoxOK
<1> QED
  BY <1>5, <1>6, <1>7

LEMMA ProcessEndsInv == ASSUME Inv, ProcessEnds PROVE Inv'
<1>1. PICK outs : box \in Boxes(outs)
  BY BoxIs
<1> DEFINE wrote == IF box.out = <<>> /\ box.code \in {"sound", "raises", "odd"}
                    THEN Written(box.code, box.bars) ELSE box.out
<1>2. box' = [box EXCEPT !.proc = "exited", !.out = wrote]
  BY DEF ProcessEnds
<1> HIDE DEF wrote
<1>3. /\ box' \in Boxes({wrote}) /\ box'.waiting = box.waiting /\ box'.proc = "exited"
      /\ box'.bars = box.bars
  BY <1>1, <1>2 DEF Boxes, Procs
<1> QED
  BY <1>3, BoxIs, ElsewhereInv DEF ProcessEnds, BoxOK

LEMMA CollectInv == ASSUME Inv, Collect PROVE Inv'
<1>1. PICK outs : box \in Boxes(outs)
  BY BoxIs
<1> DEFINE reply == IF box.code \in {"broken", "classless", "chatty"} THEN 400 ELSE 200
<1>2. box' = [box EXCEPT !.waiting = FALSE, !.reply = reply]
  BY DEF Collect
<1>3. reply \in Replies
  BY DEF Replies
<1> HIDE DEF reply
<1>4. box' \in Boxes(outs) /\ ~box'.waiting
  BY <1>1, <1>2, <1>3 DEF Boxes
<1> QED
  BY <1>4, BoxIs, ElsewhereInv DEF Collect, BoxOK

LEMMA TimesOutInv == ASSUME Inv, TimesOut PROVE Inv'
<1>1. PICK outs : box \in Boxes(outs)
  BY BoxIs
<1>2. ASSUME NEW reply \in Replies, box' = [box EXCEPT !.waiting = FALSE, !.reply = reply]
      PROVE  box' \in Boxes(outs) /\ ~box'.waiting
  BY <1>1, <1>2 DEF Boxes
<1>3. ASSUME box' = [box EXCEPT !.waiting = FALSE, !.proc = "killed", !.reply = 408]
      PROVE  box' \in Boxes(outs) /\ ~box'.waiting
  <2>1. PICK proc \in Procs : proc = "killed"
    BY DEF Procs
  <2>2. PICK reply \in Replies : reply = 408
    BY DEF Replies
  <2>3. PICK b : b = box
    OBVIOUS
  <2>4. box' = [b EXCEPT !.waiting = FALSE, !.proc = proc, !.reply = reply]
    BY <1>3, <2>1, <2>2, <2>3
  <2>5. b \in Boxes(outs)
    BY <1>1, <2>3
  <2>6. /\ [b EXCEPT !.waiting = FALSE, !.proc = proc, !.reply = reply] \in Boxes(outs)
        /\ ~[b EXCEPT !.waiting = FALSE, !.proc = proc, !.reply = reply].waiting
    BY <2>5 DEF Boxes
  <2> QED
    BY <2>4, <2>6
<1>4. box' \in Boxes(outs) /\ ~box'.waiting
  <2>1. CASE box' = [box EXCEPT !.waiting = FALSE, !.proc = "killed", !.reply = 408]
    BY <1>3, <2>1
  <2>2. ASSUME NEW r \in {408, 502}, box' = [box EXCEPT !.waiting = FALSE, !.reply = r]
        PROVE  box' \in Boxes(outs) /\ ~box'.waiting
    <3>1. r \in Replies
      BY DEF Replies
    <3> QED
      BY <1>2, <2>2, <3>1
  <2> QED
    BY <2>1, <2>2 DEF TimesOut, GivenUp
<1> QED
  BY <1>4, BoxIs, ElsewhereInv DEF TimesOut, BoxOK

LEMMA RestartInv == ASSUME Inv, Restart PROVE Inv'
<1>1. PICK outs : box \in Boxes(outs)
  BY BoxIs
<1>2. box' = [box EXCEPT !.waiting = FALSE]
  BY DEF Restart
<1>3. box' \in Boxes(outs) /\ ~box'.waiting
  BY <1>1, <1>2 DEF Boxes
<1> QED
  BY <1>3, ElsewhereInv DEF Restart, BoxOK

LEMMA NextInv == Inv /\ [Next]_vars => Inv'
<1> SUFFICES ASSUME Inv, [Next]_vars PROVE Inv'
  OBVIOUS
<1>1. CASE UNCHANGED vars
  BY <1>1, BoxIs, ElsewhereInv DEF vars, BoxOK
<1> QED
  BY <1>1, MarketInv, PollInv, ReloadInv, SubmitInv, ProcessEndsInv, CollectInv, TimesOutInv,
     RestartInv DEF Next

LEMMA Invariance == Spec => []Inv
  BY InitInv, NextInv, PTL DEF Spec

\* What the process of a request has written: nothing as long as it runs, and then what the
\* harness writes of the bars it was given, unless the code is of a kind that ends otherwise.
Whole == {"sound", "raises", "odd"}

RanOK ==
  /\ box.proc = "running" => box.out = <<>>
  /\ box.proc = "exited" =>
       /\ box.code # "loops"
       /\ box.code \in Whole => box.out = Written(box.code, box.bars)
  /\ box.reply = 200 => box.proc = "exited" /\ box.code \in Whole

\* What is written depends on the strategy, which never changes.
LEMMA SameWritten ==
  ASSUME rule' = rule
  PROVE  \A code, bars : Written(code, bars)' = Written(code, bars)
  BY DEF Written, Answered

\* Steps that leave the process and what it wrote alone.
LEMMA RanElsewhere ==
  ASSUME RanOK, rule' = rule, box'.proc = box.proc, box'.out = box.out, box'.code = box.code,
         box'.bars = box.bars, box'.reply \in {box.reply, 400, 408, 502}
  PROVE  RanOK'
<1>1. Written(box.code, box.bars)' = Written(box.code, box.bars)
  <2>1. PICK c, b : c = box.code /\ b = box.bars
    OBVIOUS
  <2>2. Written(c, b)' = Written(c, b)
    BY SameWritten
  <2>3. Written(box.code, box.bars)' = Written(c, b)'
    BY <2>1
  <2> QED
    BY <2>1, <2>2
<1> QED
  BY <1>1 DEF RanOK

LEMMA RanInit == Init => RanOK
  BY DEF Init, RanOK, EmptyBox

LEMMA SubmitRan == ASSUME Inv, RanOK, Submit PROVE RanOK'
<1>1. PICK code, bars :
        \/ \E reply \in {400, 502} : box' = [EmptyBox EXCEPT !.reply = reply]
        \/ box' = [EmptyBox EXCEPT !.waiting = TRUE, !.proc = "running", !.code = code,
                                   !.bars = bars]
  BY DEF Submit, Refused
<1> DEFINE e == EmptyBox
<1>2. e \in Boxes({<<>>}) /\ e.proc = "none" /\ e.reply = 0 /\ e.out = <<>>
  BY DEF EmptyBox, Boxes, Procs, Kinds, Replies
<1> HIDE DEF e
<1>3. CASE \E reply \in {400, 502} : box' = [e EXCEPT !.reply = reply]
  <2>1. box'.proc = "none" /\ box'.reply # 200
    BY <1>2, <1>3 DEF Boxes
  <2> QED
    BY <2>1 DEF RanOK
<1>4. CASE box' = [e EXCEPT !.waiting = TRUE, !.proc = "running", !.code = code, !.bars = bars]
  <2>1. box'.proc = "running" /\ box'.reply = 0 /\ box'.out = <<>>
    BY <1>2, <1>4 DEF Boxes
  <2> QED
    BY <2>1 DEF RanOK
<1> QED
  BY <1>1, <1>3, <1>4 DEF e

LEMMA ProcessEndsRan == ASSUME Inv, RanOK, ProcessEnds PROVE RanOK'
<1>1. PICK outs : box \in Boxes(outs)
  BY BoxIs
<1>2. PICK wrote : /\ wrote = IF box.out = <<>> /\ box.code \in Whole
                              THEN Written(box.code, box.bars) ELSE box.out
                   /\ box' = [box EXCEPT !.proc = "exited", !.out = wrote]
  BY DEF ProcessEnds, Whole
<1>3. /\ box'.proc = "exited" /\ box'.out = wrote /\ box'.code = box.code
      /\ box'.bars = box.bars /\ box'.reply = box.reply
  BY <1>1, <1>2 DEF Boxes
<1>4. rule' = rule /\ box.proc = "running" /\ box.code # "loops"
  BY DEF ProcessEnds
<1>5. box.out = <<>> /\ box.reply # 200
  BY <1>4 DEF RanOK
<1>6. box.code \in Whole => wrote = Written(box.code, box.bars)
  BY <1>2, <1>5
<1>7. Written(box.code, box.bars)' = Written(box.code, box.bars)
  <2>1. PICK c, b : c = box.code /\ b = box.bars
    OBVIOUS
  <2>2. Written(c, b)' = Written(c, b)
    BY <1>4, SameWritten
  <2>3. Written(box.code, box.bars)' = Written(c, b)'
    BY <1>3, <2>1
  <2> QED
    BY <2>1, <2>2, <2>3
<1> QED
  BY <1>3, <1>4, <1>5, <1>6, <1>7 DEF RanOK

LEMMA CollectRan == ASSUME Inv, RanOK, Collect PROVE RanOK'
<1>1. PICK outs : box \in Boxes(outs)
  BY BoxIs
<1>2. PICK reply : /\ reply = IF box.code \in {"broken", "classless", "chatty"} THEN 400 ELSE 200
                   /\ box' = [box EXCEPT !.waiting = FALSE, !.reply = reply]
  BY DEF Collect
<1>3. /\ box'.proc = box.proc /\ box'.out = box.out /\ box'.code = box.code
      /\ box'.bars = box.bars /\ box'.reply = reply
  BY <1>1, <1>2 DEF Boxes
<1>4. rule' = rule /\ box.proc = "exited"
  BY DEF Collect
<1>5. box.code \in Kinds /\ box.code # "loops"
  BY <1>1, <1>4 DEF Boxes, RanOK
<1>6. reply = 400 \/ (reply = 200 /\ box.code \in Whole)
  BY <1>2, <1>5, StrategyHostsAssumption DEF Kinds, Whole
<1>7. CASE reply = 400
  BY <1>3, <1>4, <1>7, RanElsewhere
<1>8. CASE reply = 200 /\ box.code \in Whole
  <2>1. Written(box.code, box.bars)' = Written(box.code, box.bars)
    <3>1. PICK c, b : c = box.code /\ b = box.bars
      OBVIOUS
    <3>2. Written(c, b)' = Written(c, b)
      BY <1>4, SameWritten
    <3>3. Written(box.code, box.bars)' = Written(c, b)'
      BY <1>3, <3>1
    <3> QED
      BY <3>1, <3>2, <3>3
  <2> QED
    BY <1>3, <1>4, <1>5, <1>8, <2>1 DEF RanOK
<1> QED
  BY <1>6, <1>7, <1>8

LEMMA TimesOutRan == ASSUME Inv, RanOK, TimesOut PROVE RanOK'
<1>1. PICK outs : box \in Boxes(outs)
  BY BoxIs
<1>2. rule' = rule
  BY DEF TimesOut
<1>3. ASSUME box' = [box EXCEPT !.waiting = FALSE, !.proc = "killed", !.reply = 408]
      PROVE  RanOK'
  <2>1. PICK proc, reply : proc = "killed" /\ reply = 408
    OBVIOUS
  <2>2. box' = [box EXCEPT !.waiting = FALSE, !.proc = proc, !.reply = reply]
    BY <1>3, <2>1
  <2>3. box'.proc = proc /\ box'.reply = reply
    BY <1>1, <2>2 DEF Boxes
  <2> QED
    BY <2>1, <2>3 DEF RanOK
<1>4. ASSUME NEW r \in {408, 502}, box' = [box EXCEPT !.waiting = FALSE, !.reply = r]
      PROVE  RanOK'
  <2>1. /\ box'.proc = box.proc /\ box'.out = box.out /\ box'.code = box.code
        /\ box'.bars = box.bars /\ box'.reply = r
    BY <1>1, <1>4 DEF Boxes
  <2> QED
    BY <1>2, <2>1, RanElsewhere
<1> QED
  BY <1>3, <1>4 DEF TimesOut, GivenUp

LEMMA RestartRan == ASSUME Inv, RanOK, Restart PROVE RanOK'
<1>1. PICK outs : box \in Boxes(outs)
  BY BoxIs
<1>2. box' = [box EXCEPT !.waiting = FALSE] /\ rule' = rule
  BY DEF Restart
<1>3. /\ box'.proc = box.proc /\ box'.out = box.out /\ box'.code = box.code
      /\ box'.bars = box.bars /\ box'.reply = box.reply
  BY <1>1, <1>2 DEF Boxes
<1> QED
  BY <1>2, <1>3, RanElsewhere

LEMMA RanNext == Inv /\ RanOK /\ [Next]_vars => RanOK'
<1> SUFFICES ASSUME Inv, RanOK, [Next]_vars PROVE RanOK'
  OBVIOUS
<1>1. CASE UNCHANGED <<rule, box>>
  BY <1>1, RanElsewhere
<1>2. CASE Tick \/ BarEnds \/ Poll \/ Reload \/ UNCHANGED vars
  BY <1>1, <1>2 DEF Tick, BarEnds, Poll, Reload, vars
<1> QED
  BY <1>2, SubmitRan, ProcessEndsRan, CollectRan, TimesOutRan, RestartRan DEF Next

LEMMA RanInvariance == Spec => [](Inv /\ RanOK)
  BY InitInv, NextInv, RanInit, RanNext, PTL DEF Spec

(***************************************************************************)
(* The theorems.                                                           *)
(***************************************************************************)

\* Every variable keeps its type: in particular a waiting request has a process that runs
\* or has ended, and an answer is at most one signal.
THEOREM Typed == Spec => []TypeOK
  BY Invariance, PTL DEF Inv

\* How many bars the generate_signals of a strategy asks for before it answers.
Needs(name) ==
  CASE name = "sma" -> SlowPeriod + 1
    [] name = "rsi" -> RsiPeriod + 2
    [] OTHER        -> BandPeriod + 1

\* What the theorem supposes of the providers' windows: each holds the bars a strategy
\* asks for.  The executor asks for 200 (strategy_executor.py:267), and the periods have no
\* upper bound: a crossover of 50 and 200 bars never signals live, though it does in a
\* backtest.
WindowsSuffice == \A name \in Rules \ {"macd"}, limit \in Limits : limit >= Needs(name)

\* A strategy answers alike live and in a backtest, from whatever window, at every bar that
\* closed at the price the executor saw (strategy_executor.py:262-296, sma_crossover.py).
THEOREM HostsAgreeAlways == ASSUME WindowsSuffice PROVE Spec => []HostsAgree
<1>1. Inv => HostsAgree
  <2> SUFFICES ASSUME Inv, look.bar \in Warmup + 1..Len(closes),
                      look.price = closes[look.bar], rule = "macd" => look.first = 1
               PROVE  look.given = BacktestSays(SubSeq(closes, 1, look.bar))
    BY DEF HostsAgree
  <2> DEFINE bar  == look.bar
             past == SubSeq(closes, 1, bar)
  <2>1. /\ closes \in Seq(Prices) /\ Len(closes) \in Nat /\ rule \in Rules /\ rule \in RuleNames
        /\ Warmup \in Nat /\ LookOK /\ Prices \subseteq Nat
    BY StrategyHostsAssumption DEF Inv, TypeOK
  <2>2. bar \in 1..Len(closes) /\ bar > Warmup
    BY <2>1
  <2>3. PICK all \in Seq(Prices), limit \in Limits : Looked(all, limit)
    <3>1. look # NoLook
      BY <2>2 DEF NoLook
    <3> QED
      BY <2>1, <3>1 DEF LookOK
  <2>4. past \in Seq(Prices) /\ Len(past) = bar /\ \A i \in 1..bar : past[i] = closes[i]
    <3>1. \A i \in 1..bar : closes[i] \in Prices
      BY <2>1, <2>2
    <3>2. /\ past \in Seq(Prices) /\ Len(past) = IF 1 <= bar THEN bar - 1 + 1 ELSE 0
          /\ \A i \in 1..bar - 1 + 1 : past[i] = closes[1 + i - 1]
      BY <2>2, <3>1, SubSeqProperties
    <3>3. bar - 1 + 1 = bar /\ \A i \in 1..bar : 1 + i - 1 = i
      BY <2>2
    <3> QED
      BY <2>2, <3>2, <3>3
  <2>5. all = past
    <3>1. Len(all) = bar /\ all[bar] = closes[bar] /\ \A i \in 1..bar - 1 : all[i] = closes[i]
      BY <2>3 DEF Looked, Last
    <3>2. \A i \in 1..bar : all[i] = past[i]
      <4>1. \A i \in 1..bar : i = bar \/ i \in 1..bar - 1
        BY <2>2
      <4> QED
        BY <2>4, <3>1, <4>1
    <3> HIDE DEF past
    <3> QED
      BY <2>4, <3>1, <3>2, SameSequence
  <2>6. BacktestSays(past) = Generated(rule, past)
    <3>1. ~(Len(past) <= Warmup)
      BY <2>1, <2>2, <2>4
    <3> QED
      BY <3>1 DEF BacktestSays
  <2>7. Generated(rule, Limited(past, limit)) = Generated(rule, past)
    <3>1. CASE ~(Len(past) > limit)
      BY <3>1 DEF Limited
    <3>2. CASE Len(past) > limit
      <4>1. limit \in Nat /\ limit >= 1 /\ Limited(past, limit) = Tails(past, limit)
        BY <3>2, BoundTypes DEF Limited
      <4>2. past \in Closes /\ limit \in 1..Len(past)
        <5> HIDE DEF past
        <5>1. ASSUME NEW i \in 1..Len(past) PROVE past[i] \in Nat
          <6>1. i \in 1..Len(closes) /\ past[i] = closes[i]
            BY <2>1, <2>2, <2>4
          <6>2. closes[i] \in Prices
            BY <2>1, <6>1
          <6> QED
            BY <2>1, <6>1, <6>2
        <5> QED
          BY <2>2, <2>4, <3>2, <4>1, <5>1 DEF Closes
      <4>3. rule # "macd"
        <5>1. Len(Tails(past, limit)) = limit
          BY <2>4, <4>2, TailsType
        <5>2. look.first = bar - limit + 1
          BY <2>3, <2>5, <4>1, <5>1 DEF Looked
        <5>3. bar - limit + 1 # 1
          BY <2>2, <2>4, <3>2, <4>1
        <5> QED
          BY <5>2, <5>3
      <4>4. limit >= Needs(rule)
        BY <2>1, <4>3 DEF WindowsSuffice
      <4> HIDE DEF past
      <4>5. CASE rule = "sma"
        BY <4>1, <4>2, <4>4, <4>5, SmaWindow DEF Generated, Needs
      <4>6. CASE rule = "rsi"
        BY <4>1, <4>2, <4>4, <4>6, RsiWindow DEF Generated, Needs
      <4>7. CASE rule = "bands"
        BY <4>1, <4>2, <4>4, <4>7, BandWindow DEF Generated, Needs
      <4> QED
        BY <2>1, <4>3, <4>5, <4>6, <4>7 DEF RuleNames
    <3> QED
      BY <3>1, <3>2
  <2> QED
    BY <2>3, <2>5, <2>6, <2>7 DEF Looked
<1> QED
  BY <1>1, Invariance, PTL

\* What the engine replays at a bar is what the code answered when it saw the bars up to it,
\* whatever came later and whatever the code did at other bars: for any warm-up, any number
\* of bars and any kind of code (strategy_sandbox.py:166-182, :303-329).
THEOREM ReplayIsCausalAlways == Spec => []ReplayIsCausal
<1>1. Inv /\ RanOK => ReplayIsCausal
  <2> SUFFICES ASSUME Inv, RanOK, box.reply = 200, NEW i \in Warmup + 1..Len(box.bars)
               PROVE  Replayed(box.out, SubSeq(box.bars, 1, i)) =
                        Known(Answered(box.code, SubSeq(box.bars, 1, i)))
    BY DEF ReplayIsCausal
  <2> DEFINE bars == box.bars
             seen == SubSeq(bars, 1, i)
  <2>1. box.out = Written(box.code, bars)
    BY DEF RanOK
  <2>2. rule \in RuleNames /\ bars \in Seq(Prices) /\ Len(bars) \in Nat
    <3>1. rule \in RuleNames
      BY StrategyHostsAssumption DEF Inv, TypeOK
    <3>2. bars \in Seq(Prices)
      BY BoxIs DEF Boxes
    <3> QED
      BY <3>1, <3>2
  <2>3. Len(seen) = i
    <3>1. i \in 1..Len(bars) /\ Warmup \in Nat
      BY <2>2, StrategyHostsAssumption
    <3>2. \A j \in 1..i : bars[j] \in Prices
      BY <2>2, <3>1
    <3>3. Len(seen) = IF 1 <= i THEN i - 1 + 1 ELSE 0
      BY <3>1, <3>2, SubSeqProperties
    <3> QED
      BY <3>1, <3>3
  <2>4. ByBar(Written(box.code, bars), i - 1) = Answered(box.code, seen)
    BY <2>2, WrittenByBar
  <2> HIDE DEF bars, seen
  <2> QED
    BY <2>1, <2>3, <2>4 DEF Replayed, bars, seen
<1> QED
  BY <1>1, RanInvariance, PTL

=============================================================================
