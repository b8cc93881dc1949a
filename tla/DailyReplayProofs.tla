------------------------- MODULE DailyReplayProofs --------------------------
(***************************************************************************)
(* Theorems about DailyReplay, for any names, strategies, windows, tapes   *)
(* and number of days: the book follows the targets, the gross exposure is *)
(* kept, and every rule of DailyTargets trades on the side it ranks for.   *)
(*                                                                         *)
(* First the rules: one lemma per rule says that its results are weights   *)
(* (IsSeries) and on the right side (Sides).  Then the replay: what is     *)
(* pending is within the gross allowed (RInv), truncation at the open only *)
(* lowers a position, and a sum of parts is within the sum of bounds.      *)
(***************************************************************************)
EXTENDS DailyReplay, SumTheorems, SequenceTheorems

----------------------------------------------------------------------------
(* Series and their sums                                                   *)

LEMMA SeriesIs ==
  ASSUME NEW f
  PROVE  IsSeries(f) <=> \E S \in SUBSET Symbols : f \in [S -> Int]
<1>1. ASSUME IsSeries(f) PROVE \E S \in SUBSET Symbols : f \in [S -> Int]
  <2>1. DOMAIN f \in SUBSET Symbols /\ f \in [DOMAIN f -> Int]
    BY <1>1 DEF IsSeries
  <2> QED
    BY <2>1
<1>2. ASSUME NEW S \in SUBSET Symbols, f \in [S -> Int] PROVE IsSeries(f)
  BY <1>2 DEF IsSeries
<1> QED
  BY <1>1, <1>2

LEMMA FlatIs == DOMAIN Flat = {} /\ IsSeries(Flat)
<1>1. Flat \in Seq(Int) /\ Len(Flat) = 0
  BY DEF Flat
<1>2. DOMAIN Flat = {}
  BY <1>1
<1> QED
  BY <1>1, <1>2 DEF IsSeries

LEMMA TotalIsSum == ASSUME NEW f PROVE Total(f) = SumOf(f)
  BY DEF Total, SumOf, FoldFunction, FoldFunctionOnSet, MapThenSumSet

LEMMA FinitePart == ASSUME NEW S \in SUBSET Symbols PROVE IsFiniteSet(S)
  BY TargetsAssumption, FS_Subset

LEMMA TotalType ==
  ASSUME NEW f, IsSeries(f)
  PROVE  Total(f) \in Int
  BY SeriesIs, TotalIsSum, FinitePart, SumType

LEMMA TotalOfNone == Total(Flat) = 0
<1>1. Flat = [s \in {} |-> 0] /\ IsFiniteSet({})
  BY FlatIs, FS_EmptySet DEF IsSeries
<1> QED
  BY <1>1, TotalIsSum, SumOfZeros

LEMMA MinusIs ==
  ASSUME NEW f, IsSeries(f)
  PROVE  /\ IsSeries(Minus(f)) /\ DOMAIN Minus(f) = DOMAIN f
         /\ \A s \in DOMAIN f : Minus(f)[s] = -f[s]
  BY DEF IsSeries, Minus

LEMMA PartIs ==
  ASSUME NEW f, IsSeries(f), NEW S
  PROVE  /\ IsSeries(OnlyOn(f, S)) /\ DOMAIN OnlyOn(f, S) = DOMAIN f \cap S
         /\ \A s \in DOMAIN f \cap S : OnlyOn(f, S)[s] = f[s]
  BY DEF IsSeries, OnlyOn

LEMMA CardType ==
  ASSUME NEW f, IsSeries(f)
  PROVE  Card(f) \in Nat /\ (DOMAIN f # {} => Card(f) > 0)
  BY SeriesIs, FinitePart, FS_CardinalityType, FS_EmptySet DEF Card, IsSeries

LEMMA DeviationIs ==
  ASSUME NEW f, IsSeries(f)
  PROVE  /\ IsSeries(Deviation(f)) /\ DOMAIN Deviation(f) = DOMAIN f
         /\ \A x, y \in DOMAIN f : Deviation(f)[x] >= Deviation(f)[y] => f[x] >= f[y]
<1>1. Card(f) \in Nat /\ Total(f) \in Int
  BY CardType, TotalType
<1>2. IsSeries(Deviation(f)) /\ DOMAIN Deviation(f) = DOMAIN f
  BY <1>1 DEF IsSeries, Deviation
<1>3. ASSUME NEW x \in DOMAIN f, NEW y \in DOMAIN f, Deviation(f)[x] >= Deviation(f)[y]
      PROVE  f[x] >= f[y]
  <2>1. f[x] \in Int /\ f[y] \in Int /\ Card(f) > 0
    BY CardType DEF IsSeries
  <2>2. Card(f) * f[x] - Total(f) >= Card(f) * f[y] - Total(f)
    BY <1>3 DEF Deviation
  <2>3. \A k \in Nat \ {0} : \A a, b, t \in Int : k * a - t >= k * b - t => a >= b
    OBVIOUS
  <2> QED
    BY <1>1, <2>1, <2>2, <2>3
<1> QED
  BY <1>2, <1>3

(* What is cut off towards zero keeps its sign and is no larger.           *)
LEMMA TruncatedIs ==
  ASSUME NEW n \in Int, NEW d \in Nat \ {0}
  PROVE  /\ Truncated(n, d) \in Int
         /\ Size(Truncated(n, d)) * d <= Size(n)
         /\ Truncated(n, d) > 0 => n > 0
         /\ Truncated(n, d) < 0 => n < 0
<1>1. \A m \in Nat : m \div d \in Int /\ m \div d >= 0 /\ (m \div d) * d <= m /\ (m = 0 => m \div d = 0)
  OBVIOUS
<1>2. CASE n < 0
  <2> DEFINE q == (-n) \div d
  <2>1. q \in Int /\ q >= 0 /\ q * d <= -n /\ Truncated(n, d) = -q
    BY <1>1, <1>2 DEF Truncated
  <2> HIDE DEF q
  <2>2. Size(-q) = q /\ Size(n) = -n
    BY <1>2, <2>1 DEF Size
  <2> QED
    BY <1>2, <2>1, <2>2
<1>3. CASE n >= 0
  <2> DEFINE q == n \div d
  <2>1. q \in Int /\ q >= 0 /\ q * d <= n /\ (n = 0 => q = 0) /\ Truncated(n, d) = q
    BY <1>1, <1>3 DEF Truncated
  <2> HIDE DEF q
  <2>2. Size(q) = q /\ Size(n) = n
    BY <1>3, <2>1 DEF Size
  <2> QED
    BY <1>3, <2>1, <2>2
<1> QED
  BY <1>2, <1>3

----------------------------------------------------------------------------
(* Rankings, and the weights that are made of them                         *)

LEMMA RankedIs ==
  ASSUME NEW score, IsSeries(score), NEW q \in Ranked(score)
  PROVE  /\ q \in Seq(DOMAIN score) /\ Len(q) = Card(score)
         /\ \A i, j \in 1 .. Len(q) : i < j => score[q[i]] >= score[q[j]]
<1> DEFINE n == Cardinality(DOMAIN score)
<1>1. n \in Nat
  BY CardType DEF Card
<1> HIDE DEF n
<1>2. q \in [1 .. n -> DOMAIN score] /\ \A i, j \in DOMAIN q : i < j => score[q[i]] >= score[q[j]]
  BY DEF Ranked, SetToSeqs, n
<1>3. q \in Seq(DOMAIN score) /\ Len(q) \in Nat /\ DOMAIN q = 1 .. Len(q) /\ Len(q) = n
  BY <1>1, <1>2
<1> QED
  BY <1>2, <1>3 DEF Card, n

\* The place of a name in a ranking is among the first, or the last, n.
LEMMA BestIs ==
  ASSUME NEW S, NEW q \in Seq(S), NEW n \in Nat \ {0}, NEW x
  PROVE  x \in Best(q, n) <=> \E i \in 1 .. Len(q) : i <= n /\ q[i] = x
<1> DEFINE k == Lesser(n, Len(q))
           b == SubSeq(q, 1, k)
<1>1. Len(q) \in Nat /\ k \in 0 .. Len(q) /\ \A i \in 1 .. Len(q) : i <= k <=> i <= n
  BY DEF Lesser
<1> HIDE DEF k
<1>2. DOMAIN b = 1 .. k /\ \A i \in 1 .. k : b[i] = q[i]
  BY <1>1
<1>3. Best(q, n) = {b[i] : i \in 1 .. k}
  BY <1>2 DEF Best, Range, k
<1> HIDE DEF b
<1> QED
  BY <1>1, <1>2, <1>3

LEMMA WorstIs ==
  ASSUME NEW S, NEW q \in Seq(S), NEW n \in Nat \ {0}, NEW x
  PROVE  x \in Worst(q, n) <=> \E i \in 1 .. Len(q) : i > Len(q) - n /\ q[i] = x
<1> DEFINE k == Larger(1, Len(q) - n + 1)
           b == SubSeq(q, k, Len(q))
           l == Len(q) - k + 1
<1>1. Len(q) \in Nat /\ k \in Nat /\ k >= 1 /\ \A i \in 1 .. Len(q) : i >= k <=> i > Len(q) - n
  BY DEF Larger
<1> HIDE DEF k
<1>2. DOMAIN b = 1 .. l /\ \A i \in 1 .. l : b[i] = q[i + k - 1]
  BY <1>1
<1>3. Worst(q, n) = {b[i] : i \in 1 .. l}
  BY <1>2 DEF Worst, Range, k
<1> HIDE DEF b
<1>4. ASSUME x \in Worst(q, n) PROVE \E i \in 1 .. Len(q) : i > Len(q) - n /\ q[i] = x
  <2>1. PICK i \in 1 .. l : x = q[i + k - 1]
    BY <1>2, <1>3, <1>4
  <2>2. i + k - 1 \in 1 .. Len(q) /\ i + k - 1 >= k
    BY <1>1
  <2> QED
    BY <1>1, <2>1, <2>2
<1>5. ASSUME NEW i \in 1 .. Len(q), i > Len(q) - n, q[i] = x PROVE x \in Worst(q, n)
  <2>1. i - k + 1 \in 1 .. l /\ (i - k + 1) + k - 1 = i
    BY <1>1, <1>5
  <2> QED
    BY <1>2, <1>3, <1>5, <2>1
<1> QED
  BY <1>4, <1>5

LEMMA ShareType ==
  ASSUME NEW n \in Nat, NEW p, p.fraction \in Nat
  PROVE  Share(n, p) \in Nat \ {0}
<1> DEFINE k == n * p.fraction
<1>1. k \in Nat
  OBVIOUS
<1> HIDE DEF k
<1>2. k \div 10 \in Int
  BY <1>1
<1> QED
  BY <1>2 DEF Share, Larger, k

(* What a result buys scores no less than what it shorts.                  *)
Follows(t, score) ==
  \A x, y \in DOMAIN t :
    t[x] > 0 /\ t[y] < 0 => x \in DOMAIN score /\ y \in DOMAIN score /\ score[x] >= score[y]

LEMMA EqualWeightsAre ==
  ASSUME NEW longs \in SUBSET Symbols, NEW shorts \in SUBSET Symbols
  PROVE  /\ IsSeries(EqualWeights(longs, shorts))
         /\ \A x \in DOMAIN EqualWeights(longs, shorts) :
              /\ EqualWeights(longs, shorts)[x] > 0 => x \in longs
              /\ EqualWeights(longs, shorts)[x] < 0 => x \in shorts \ longs
<1> DEFINE k == Cardinality(longs) + Cardinality(shorts)
           weight == Unit \div k
<1>1. Cardinality(longs) \in Nat /\ Cardinality(shorts) \in Nat
  BY FinitePart, FS_CardinalityType
<1>2. longs \cup shorts # {} => k \in Nat \ {0}
  BY <1>1, FinitePart, FS_EmptySet
<1> HIDE DEF k
<1>3. longs \cup shorts # {} => weight \in Int /\ weight >= 0
  BY <1>2, TargetsAssumption
<1>4. EqualWeights(longs, shorts) = [s \in longs \cup shorts |-> IF s \in longs THEN weight ELSE -weight]
  BY DEF EqualWeights, k
<1> HIDE DEF weight
<1> QED
  BY <1>3, <1>4 DEF IsSeries

LEMMA LongShortIs ==
  ASSUME NEW score, IsSeries(score), NEW p, p.fraction \in Nat, NEW t \in LongShort(score, p)
  PROVE  IsSeries(t) /\ Follows(t, score)
<1>1. PICK q \in Ranked(score) : t = _long_short(q, p)
  BY DEF LongShort
<1> DEFINE n == Share(Len(q), p)
           longs == Best(q, n)
           shorts == IF p.allow_short THEN Worst(q, n) ELSE {}
<1>2. q \in Seq(DOMAIN score) /\ Len(q) \in Nat
  BY RankedIs
<1>3. n \in Nat \ {0}
  BY <1>2, ShareType
<1>4. CASE t = Flat
  BY <1>4, FlatIs DEF Follows
<1>5. CASE t = EqualWeights(longs, shorts)
  <2> HIDE DEF n
  <2>1. longs \in SUBSET DOMAIN score /\ shorts \in SUBSET DOMAIN score
    BY <1>2, <1>3, BestIs, WorstIs
  <2>2. \A x \in longs, y \in shorts \ longs : score[x] >= score[y]
    <3> SUFFICES ASSUME NEW x \in longs, NEW y \in shorts \ longs PROVE score[x] >= score[y]
        OBVIOUS
    <3>1. PICK i \in 1 .. Len(q) : i <= n /\ q[i] = x
      BY <1>2, <1>3, BestIs
    <3>2. PICK j \in 1 .. Len(q) : q[j] = y
      BY <1>2, <1>3, WorstIs
    <3>3. ~(j <= n)
      BY <1>2, <1>3, <3>2, BestIs
    <3>4. i < j
      BY <1>2, <1>3, <3>1, <3>3
    <3> QED
      BY <3>1, <3>2, <3>4, RankedIs
  <2>3. DOMAIN score \in SUBSET Symbols
    BY DEF IsSeries
  <2> HIDE DEF longs, shorts
  <2> QED
    BY <1>5, <2>1, <2>2, <2>3, EqualWeightsAre DEF Follows
<1> QED
  BY <1>1, <1>4, <1>5 DEF _long_short

----------------------------------------------------------------------------
(* The rules                                                               *)
(*                                                                         *)
(* Of each rule: its results are weights, and what a result buys is, by a  *)
(* count the rule looks at, no less than what it shorts.                   *)

Sides(p, w, t) ==
  \A x, y \in DOMAIN t :
    t[x] > 0 /\ t[y] < 0 /\ Comparable(p, w, x, y) =>
      \E f \in Merits(p, w) : {x, y} \subseteq DOMAIN f /\ f[x] >= f[y]

Good(p, w, t) == IsSeries(t) /\ Sides(p, w, t)

LEMMA FlatGood == ASSUME NEW p, NEW w PROVE Good(p, w, Flat)
  BY FlatIs DEF Good, Sides

LEMMA FollowsGood ==
  ASSUME NEW p, NEW w, NEW f \in Merits(p, w), NEW t, IsSeries(t), Follows(t, f)
  PROVE  Good(p, w, t)
  BY DEF Good, Sides, Follows

\* What has one name has one side.
OneName(s, t) == \E k \in Int : t = [x \in {s} |-> k]

LEMMA OneNameGood ==
  ASSUME NEW p, NEW w, NEW s \in Symbols, NEW t, OneName(s, t)
  PROVE  Good(p, w, t)
<1>1. PICK k \in Int : t = [x \in {s} |-> k]
  BY DEF OneName
<1> QED
  BY <1>1 DEF Good, Sides, IsSeries

LEMMA ReturnsAre ==
  ASSUME NEW w, IsSeries(w.ret), NEW n
  PROVE  IsSeries(_window_returns(w, n)) /\ _window_returns(w, n) \in {Flat, w.ret}
  BY FlatIs DEF _window_returns

LEMMA PriceMomentumGood ==
  ASSUME NEW p, p.kind = "price_momentum", p.fraction \in Nat,
         NEW w, IsSeries(w.ret), NEW t \in PriceMomentum(p, w)
  PROVE  Good(p, w, t)
<1>1. w.ret \in Merits(p, w)
  BY DEF Merits
<1> QED
  BY <1>1, FlatGood, LongShortIs, FollowsGood DEF PriceMomentum

LEMMA FollowsFlat ==
  ASSUME NEW t, Follows(t, Flat), NEW f
  PROVE  Follows(t, f)
  BY FlatIs DEF Follows

LEMMA ResidualMomentumGood ==
  ASSUME NEW p, p.kind = "residual_momentum", p.fraction \in Nat,
         NEW w, IsSeries(w.resid), NEW t \in ResidualMomentum(p, w)
  PROVE  Good(p, w, t)
<1>1. w.resid \in Merits(p, w)
  BY DEF Merits
<1>2. CASE t = Flat
  BY <1>2, FlatGood
<1>3. CASE t \in LongShort(Flat, p)
  BY <1>1, <1>3, FlatIs, LongShortIs, FollowsFlat, FollowsGood
<1>4. CASE t \in LongShort(w.resid, p)
  BY <1>1, <1>4, LongShortIs, FollowsGood
<1> QED
  BY <1>2, <1>3, <1>4 DEF ResidualMomentum

LEMMA IbsGood ==
  ASSUME NEW p, p.kind = "ibs_mean_reversion", p.fraction \in Nat,
         NEW w, IsSeries(w.ibs), NEW t \in IbsMeanReversion(p, w)
  PROVE  Good(p, w, t)
<1>1. Minus(w.ibs) \in Merits(p, w)
  BY DEF Merits
<1> QED
  BY <1>1, MinusIs, LongShortIs, FollowsGood DEF IbsMeanReversion

\* A ranking of a part of the names is one of them all.
LEMMA FollowsWhole ==
  ASSUME NEW f, IsSeries(f), NEW S, NEW t, Follows(t, Minus(OnlyOn(f, S)))
  PROVE  Follows(t, Minus(f))
<1>1. /\ DOMAIN Minus(OnlyOn(f, S)) = DOMAIN f \cap S /\ DOMAIN Minus(f) = DOMAIN f
      /\ \A s \in DOMAIN f \cap S : Minus(OnlyOn(f, S))[s] = Minus(f)[s]
  BY DEF IsSeries, Minus, OnlyOn
<1> QED
  BY <1>1 DEF Follows

LEMMA LowVolatilityGood ==
  ASSUME NEW p, p.kind = "low_volatility", p.fraction \in Nat,
         NEW w, IsSeries(w.vol), NEW t \in LowVolatility(p, w)
  PROVE  Good(p, w, t)
<1> DEFINE S == {s \in DOMAIN w.vol : w.vol[s] > 0}
           score == Minus(OnlyOn(w.vol, S))
<1>1. Minus(w.vol) \in Merits(p, w)
  BY DEF Merits
<1>2. CASE t = Flat
  BY <1>2, FlatGood
<1>3. CASE t \in LongShort(score, p)
  <2> HIDE DEF S
  <2>1. IsSeries(score)
    BY PartIs, MinusIs
  <2>2. IsSeries(t) /\ Follows(t, score)
    BY <1>3, <2>1, LongShortIs
  <2>3. Follows(t, Minus(w.vol))
    BY <2>2, FollowsWhole
  <2> QED
    BY <1>1, <2>2, <2>3, FollowsGood
<1> QED
  BY <1>2, <1>3 DEF LowVolatility

LEMMA CountsReturns ==
  ASSUME NEW w, IsSeries(w.ret), NEW n, NEW k \in Nat \ {0}, ~(Card(_window_returns(w, n)) < k)
  PROVE  _window_returns(w, n) = w.ret
<1>1. Card(Flat) = 0
  BY FlatIs, FS_EmptySet DEF Card
<1> QED
  BY <1>1, ReturnsAre

\* Each name that is used takes part of a total no smaller than it.
LEMMA ProportionalIs ==
  ASSUME NEW dev, IsSeries(dev), NEW short
  PROVE  /\ IsSeries(Proportional(dev, short)) /\ DOMAIN Proportional(dev, short) \subseteq DOMAIN dev
         /\ \A x \in DOMAIN Proportional(dev, short) :
              /\ Proportional(dev, short)[x] > 0 => dev[x] < 0
              /\ Proportional(dev, short)[x] < 0 => dev[x] > 0
<1> DEFINE S == {s \in DOMAIN dev : dev[s] < 0 \/ (short /\ dev[s] > 0)}
           used == OnlyOn(dev, S)
           sizes == [s \in DOMAIN used |-> Size(used[s])]
           total == Total(sizes)
<1>1. /\ IsSeries(used) /\ DOMAIN used \in SUBSET Symbols /\ DOMAIN used \subseteq DOMAIN dev
      /\ \A s \in DOMAIN used : used[s] = dev[s] /\ used[s] \in Int /\ used[s] # 0
  <2>1. S \in SUBSET DOMAIN dev /\ \A s \in S : dev[s] \in Int /\ dev[s] # 0
    BY DEF IsSeries
  <2> HIDE DEF S
  <2>2. DOMAIN dev \cap S = S
    BY <2>1
  <2>3. IsSeries(used) /\ DOMAIN used = S /\ \A s \in S : used[s] = dev[s]
    BY <2>1, <2>2 DEF IsSeries, OnlyOn
  <2> QED
    BY <2>1, <2>3 DEF IsSeries
<1>2. Proportional(dev, short) = [s \in DOMAIN used |-> Truncated(-used[s] * Unit, total)]
  BY DEF Proportional
<1> HIDE DEF used
<1>3. sizes \in [DOMAIN used -> Int] /\ \A s \in DOMAIN used : sizes[s] > 0
  BY <1>1 DEF Size
<1> HIDE DEF sizes
<1>4. \A s \in DOMAIN used : total \in Nat \ {0}
  <2> TAKE s \in DOMAIN used
  <2>1. IsFiniteSet(DOMAIN used)
    BY <1>1, FinitePart
  <2>2. SumOf(sizes) \in Int /\ SumOf(sizes) >= sizes[s]
    BY <1>3, <2>1, SumType, SumAtLeast
  <2>3. sizes[s] \in Int
    BY <1>3
  <2> QED
    BY <1>3, <2>2, <2>3, TotalIsSum
<1> HIDE DEF total
<1>5. \A s \in DOMAIN used : -used[s] * Unit \in Int /\ (-used[s] * Unit > 0 => dev[s] < 0) /\ (-used[s] * Unit < 0 => dev[s] > 0)
  <2>1. \A k \in Int, u \in Nat \ {0} : -k * u \in Int /\ (-k * u > 0 => k < 0) /\ (-k * u < 0 => k > 0)
    OBVIOUS
  <2> QED
    BY <1>1, <2>1, TargetsAssumption
<1>6. \A s \in DOMAIN used :
         /\ Truncated(-used[s] * Unit, total) \in Int
         /\ Truncated(-used[s] * Unit, total) > 0 => dev[s] < 0
         /\ Truncated(-used[s] * Unit, total) < 0 => dev[s] > 0
  BY <1>4, <1>5, TruncatedIs
<1> QED
  BY <1>1, <1>2, <1>6 DEF IsSeries

LEMMA MeanReversionGood ==
  ASSUME NEW p, p.kind = "mean_reversion", p.fraction \in Nat,
         NEW w, IsSeries(w.ret), NEW t \in MeanReversion(p, w)
  PROVE  Good(p, w, t)
<1>1. Minus(w.ret) \in Merits(p, w)
  BY DEF Merits
<1>2. CASE t = Flat
  BY <1>2, FlatGood
<1>3. CASE t \in LongShort(Minus(w.ret), p)
  BY <1>1, <1>3, MinusIs, LongShortIs, FollowsGood
<1>4. CASE t = Proportional(Deviation(w.ret), p.allow_short)
  <2> DEFINE dev == Deviation(w.ret)
  <2>1. /\ IsSeries(dev) /\ DOMAIN dev = DOMAIN w.ret
        /\ \A x, y \in DOMAIN w.ret : dev[y] >= dev[x] => w.ret[y] >= w.ret[x]
    BY DeviationIs
  <2> HIDE DEF dev
  <2>2. /\ IsSeries(t) /\ DOMAIN t \subseteq DOMAIN w.ret
        /\ \A x \in DOMAIN t : (t[x] > 0 => dev[x] < 0) /\ (t[x] < 0 => dev[x] > 0)
    BY <1>4, <2>1, ProportionalIs DEF dev
  <2>3. ASSUME NEW x \in DOMAIN t, NEW y \in DOMAIN t, t[x] > 0, t[y] < 0
        PROVE  Minus(w.ret)[x] >= Minus(w.ret)[y]
    <3>1. dev[x] \in Int /\ dev[y] \in Int /\ w.ret[x] \in Int /\ w.ret[y] \in Int
      BY <2>1, <2>2 DEF IsSeries
    <3>2. dev[y] >= dev[x]
      BY <2>2, <2>3, <3>1
    <3>3. w.ret[y] >= w.ret[x]
      BY <2>1, <2>2, <3>2
    <3> QED
      BY <2>2, <3>1, <3>3, MinusIs
  <2>4. Follows(t, Minus(w.ret))
    BY <2>2, <2>3, MinusIs DEF Follows
  <2> QED
    BY <1>1, <2>2, <2>4, FollowsGood
<1> QED
  <2>1. CASE Card(_window_returns(w, p.lookback_days)) < 3
    BY <1>2, <2>1 DEF MeanReversion
  <2>2. CASE ~(Card(_window_returns(w, p.lookback_days)) < 3)
    <3>1. _window_returns(w, p.lookback_days) = w.ret
      BY <2>2, CountsReturns
    <3> QED
      BY <1>3, <1>4, <2>2, <3>1 DEF MeanReversion
  <2> QED
    BY <2>1, <2>2

\* The groups of a clustering are rankings of disjoint sets of names.
LEMMA GroupsAre ==
  ASSUME NEW p, NEW r, IsSeries(r), NEW traded \in Groups(p, r)
  PROVE  /\ \A g \in traded :
              \E c : g \in Ranked(Minus(OnlyOn(r, {s \in DOMAIN r : _cluster(p, s) = c})))
         /\ \A g, h \in traded : \A i \in 1 .. Len(g), j \in 1 .. Len(h) :
              _cluster(p, g[i]) = _cluster(p, h[j]) => g = h
<1> DEFINE part(c) == OnlyOn(r, {s \in DOMAIN r : _cluster(p, s) = c})
           ranks(c) == Ranked(Minus(part(c)))
           clusters == {_cluster(p, s) : s \in DOMAIN r}
<1>1. PICK f : /\ DOMAIN f = clusters /\ \A c \in clusters : f[c] \in ranks(c)
               /\ traded = {g \in Range(f) : Len(g) >= 2}
  BY DEF Groups
<1>2. \A g \in traded : \E c \in clusters : g = f[c] /\ g \in ranks(c)
  BY <1>1 DEF Range
<1>3. ASSUME NEW c, NEW g \in ranks(c), NEW i \in 1 .. Len(g)
      PROVE  g[i] \in DOMAIN r /\ _cluster(p, g[i]) = c
  <2> DEFINE S == {s \in DOMAIN r : _cluster(p, s) = c}
  <2>1. \A s \in S : s \in DOMAIN r /\ _cluster(p, s) = c
    OBVIOUS
  <2> HIDE DEF S
  <2>2. IsSeries(Minus(OnlyOn(r, S))) /\ DOMAIN Minus(OnlyOn(r, S)) = DOMAIN r \cap S
    BY PartIs, MinusIs
  <2>3. g \in Ranked(Minus(OnlyOn(r, S)))
    BY <1>3 DEF S
  <2>4. g \in Seq(DOMAIN r \cap S)
    BY <2>2, <2>3, RankedIs
  <2> QED
    BY <2>1, <2>4
<1> HIDE DEF ranks, clusters
<1>4. ASSUME NEW g \in traded, NEW h \in traded, NEW i \in 1 .. Len(g), NEW j \in 1 .. Len(h),
             _cluster(p, g[i]) = _cluster(p, h[j])
      PROVE  g = h
  <2>1. PICK c \in clusters : g = f[c] /\ g \in ranks(c)
    BY <1>2
  <2>2. PICK d \in clusters : h = f[d] /\ h \in ranks(d)
    BY <1>2
  <2>3. c = d
    BY <1>3, <1>4, <2>1, <2>2
  <2> QED
    BY <2>1, <2>2, <2>3
<1> QED
  BY <1>2, <1>4 DEF ranks

LEMMA MultiGood ==
  ASSUME NEW p, p.kind = "mean_reversion_multi", p.fraction \in Nat,
         NEW w, IsSeries(w.ret), NEW t \in MeanReversionMulti(p, w)
  PROVE  Good(p, w, t)
<1>1. CASE t = Flat
  BY <1>1, FlatGood
<1>2. ASSUME NEW traded \in Groups(p, w.ret), t = OfClusters(p, traded), t # Flat
      PROVE  Good(p, w, t)
  <2> DEFINE n(g) == Share(Len(g), p)
             longs == UNION {Best(g, n(g)) : g \in traded}
             worst == UNION {Worst(g, n(g)) : g \in traded}
             shorts == IF p.allow_short THEN worst \ longs ELSE {}
             score == Minus(w.ret)
  <2>1. ASSUME NEW g \in traded
        PROVE  /\ g \in Seq(DOMAIN w.ret) /\ Len(g) \in Nat /\ n(g) \in Nat \ {0}
               /\ \A i, j \in 1 .. Len(g) : i < j => score[g[i]] >= score[g[j]]
    <3>1. PICK c : g \in Ranked(Minus(OnlyOn(w.ret, {s \in DOMAIN w.ret : _cluster(p, s) = c})))
      BY GroupsAre
    <3> DEFINE S == {s \in DOMAIN w.ret : _cluster(p, s) = c}
               own == Minus(OnlyOn(w.ret, S))
    <3> HIDE DEF S
    <3>2. IsSeries(own) /\ DOMAIN own \subseteq DOMAIN w.ret /\ \A s \in DOMAIN own : own[s] = score[s]
      BY DEF IsSeries, Minus, OnlyOn
    <3>3. g \in Ranked(own)
      BY <3>1 DEF S
    <3> HIDE DEF own
    <3>4. g \in Seq(DOMAIN own) /\ \A i, j \in 1 .. Len(g) : i < j => own[g[i]] >= own[g[j]]
      BY <3>2, <3>3, RankedIs
    <3>5. g \in Seq(DOMAIN w.ret) /\ Len(g) \in Nat /\ \A i \in 1 .. Len(g) : g[i] \in DOMAIN own
      BY <3>2, <3>4
    <3>6. n(g) \in Nat \ {0}
      BY <3>5, ShareType
    <3> HIDE DEF score, n
    <3> QED
      BY <3>2, <3>4, <3>5, <3>6
  <2> HIDE DEF n
  <2>2. ASSUME NEW x, x \in longs
        PROVE  \E g \in traded : \E i \in 1 .. Len(g) : i <= n(g) /\ g[i] = x
    BY <2>1, <2>2, BestIs
  <2>3. ASSUME NEW y, y \in worst \ longs
        PROVE  \E g \in traded : \E i \in 1 .. Len(g) : ~(i <= n(g)) /\ g[i] = y
    <3>1. PICK g \in traded : y \in Worst(g, n(g)) /\ y \notin Best(g, n(g))
      BY <2>3
    <3> QED
      BY <2>1, <3>1, BestIs, WorstIs
  <2> HIDE DEF longs, worst
  <2>4. longs \subseteq DOMAIN w.ret /\ shorts \subseteq DOMAIN w.ret /\ DOMAIN w.ret \subseteq Symbols
    BY <2>1, <2>2, <2>3 DEF IsSeries
  <2>5. ASSUME NEW x \in longs, NEW y \in shorts \ longs, _cluster(p, x) = _cluster(p, y)
        PROVE  score[x] >= score[y]
    <3>1. PICK g \in traded : \E i \in 1 .. Len(g) : i <= n(g) /\ g[i] = x
      BY <2>2
    <3>2. PICK i \in 1 .. Len(g) : i <= n(g) /\ g[i] = x
      BY <3>1
    <3>3. PICK h \in traded : \E j \in 1 .. Len(h) : ~(j <= n(h)) /\ h[j] = y
      BY <2>3
    <3>4. PICK j \in 1 .. Len(h) : ~(j <= n(h)) /\ h[j] = y
      BY <3>3
    <3>5. g = h
      BY <2>5, <3>2, <3>4, GroupsAre
    <3>6. n(g) \in Nat /\ Len(g) \in Nat
      BY <2>1
    <3>7. i < j /\ j \in 1 .. Len(g)
      BY <3>2, <3>4, <3>5, <3>6
    <3> QED
      BY <2>1, <3>2, <3>4, <3>5, <3>7
  <2>6. OfClusters(p, traded) = IF longs \cup shorts = {} THEN Flat ELSE EqualWeights(longs, shorts)
    BY DEF OfClusters, longs, worst, n
  <2> HIDE DEF shorts
  <2>7. IsSeries(t) /\ \A x \in DOMAIN t : (t[x] > 0 => x \in longs) /\ (t[x] < 0 => x \in shorts \ longs)
    BY <1>2, <2>4, <2>6, EqualWeightsAre
  <2>8. score \in Merits(p, w) /\ DOMAIN score = DOMAIN w.ret
    BY MinusIs DEF Merits
  <2> HIDE DEF score
  <2>9. \A x, y \in DOMAIN t : t[x] > 0 /\ t[y] < 0 /\ Comparable(p, w, x, y)
                                 => {x, y} \subseteq DOMAIN score /\ score[x] >= score[y]
    BY <2>4, <2>5, <2>7, <2>8 DEF Comparable
  <2> QED
    BY <2>7, <2>8, <2>9 DEF Good, Sides
<1> QED
  <2>1. CASE Card(_window_returns(w, p.lookback_days)) < 3
    BY <1>1, <2>1 DEF MeanReversionMulti
  <2>2. CASE ~(Card(_window_returns(w, p.lookback_days)) < 3)
    <3>1. _window_returns(w, p.lookback_days) = w.ret
      BY <2>2, CountsReturns
    <3> QED
      BY <1>1, <1>2, <2>2, <3>1 DEF MeanReversionMulti
  <2> QED
    BY <2>1, <2>2

----------------------------------------------------------------------------
(* Weights by the reciprocals                                              *)
(*                                                                         *)
(* A product over a finite set is, as a sum is, a recursive function; that *)
(* there is one is shown as in SumTheorems.                                *)

Product(f) == FoldFunction(LAMBDA x, y : x * y, 1, f)
Times(f, g, T) == IF T = {} THEN 1 ELSE f[Pick(T)] * g[T \ {Pick(T)}]
Products(f, g) == g = [T \in SUBSET DOMAIN f |-> Times(f, g, T)]
Positive == Nat \ {0}

LEMMA ProductsExist ==
  ASSUME NEW S, IsFiniteSet(S), NEW f \in [S -> Positive]
  PROVE  \E g : Products(f, g)
<1> DEFINE UpTo(n, g) == \A T \in SUBSET S : Cardinality(T) <= n => g[T] = Times(f, g, T)
           Sizes == {n \in Nat : \E g \in [SUBSET S -> Positive] : UpTo(n, g)}
           Longer(g) == [T \in SUBSET S |-> Times(f, g, T)]
<1>1. \A T \in SUBSET S : IsFiniteSet(T) /\ Cardinality(T) \in Nat
  BY FS_Subset, FS_CardinalityType
<1>2. \A g \in [SUBSET S -> Positive] : Longer(g) \in [SUBSET S -> Positive]
  <2> SUFFICES ASSUME NEW g \in [SUBSET S -> Positive], NEW T \in SUBSET S, T # {}
               PROVE  f[Pick(T)] * g[T \ {Pick(T)}] \in Positive
      BY DEF Times, Positive
  <2>1. f[Pick(T)] \in Positive /\ g[T \ {Pick(T)}] \in Positive
    BY PickIn
  <2>2. \A i, j \in Positive : i * j \in Positive
    BY DEF Positive
  <2> QED
    BY <2>1, <2>2
<1>3. 0 \in Sizes
  <2>1. [T \in SUBSET S |-> 1] \in [SUBSET S -> Positive]
    BY DEF Positive
  <2>2. \A T \in SUBSET S : Cardinality(T) <= 0 => T = {}
    BY <1>1, FS_EmptySet
  <2>3. UpTo(0, [T \in SUBSET S |-> 1])
    BY <2>2 DEF Times
  <2> QED
    BY <2>1, <2>3
<1>4. \A n \in Nat : n \in Sizes => n + 1 \in Sizes
  <2> SUFFICES ASSUME NEW n \in Nat, n \in Sizes PROVE n + 1 \in Sizes
      OBVIOUS
  <2> PICK g \in [SUBSET S -> Positive] : UpTo(n, g)
      OBVIOUS
  <2>1. UpTo(n + 1, Longer(g))
    <3> SUFFICES ASSUME NEW T \in SUBSET S, Cardinality(T) <= n + 1
                 PROVE  Longer(g)[T] = Times(f, Longer(g), T)
        OBVIOUS
    <3>1. CASE T = {}
      BY <3>1 DEF Times
    <3>2. CASE T # {}
      <4> DEFINE R == T \ {Pick(T)}
      <4>1. R \in SUBSET S /\ Cardinality(R) <= n
        BY <1>1, <3>2, SmallerWithout
      <4>2. Longer(g)[R] = g[R]
        BY <4>1
      <4> QED
        BY <3>2, <4>2 DEF Times
    <3> QED
      BY <3>1, <3>2
  <2>2. Longer(g) \in [SUBSET S -> Positive]
    BY <1>2
  <2> HIDE DEF Longer, UpTo
  <2> QED
    BY <2>1, <2>2
<1>5. Cardinality(S) \in Sizes
  <2> HIDE DEF Sizes
  <2>1. Nat \subseteq Sizes
    BY <1>3, <1>4, NatSetInduction
  <2> QED
    BY <1>1, <2>1
<1>6. PICK g \in [SUBSET S -> Positive] : UpTo(Cardinality(S), g)
  BY <1>5
<1>7. \A T \in SUBSET S : Cardinality(T) <= Cardinality(S)
  BY FS_Subset
<1>8. Products(f, g)
  BY <1>6, <1>7 DEF Products
<1> QED
  BY <1>8

\* A product of positive numbers is at least each of them.
LEMMA ProductAtLeast ==
  ASSUME NEW S, IsFiniteSet(S), NEW f \in [S -> Positive]
  PROVE  Product(f) \in Positive /\ \A s \in S : Product(f) >= f[s]
<1> DEFINE g == CHOOSE h : Products(f, h)
           G == {T \in SUBSET S : g[T] \in Positive /\ \A s \in T : g[T] >= f[s]}
<1>1. Product(f) = g[S]
  BY DEF Product, FoldFunction, FoldFunctionOnSet, MapThenFoldSet, Products, Times, Pick
<1>2. \A T \in SUBSET S : g[T] = Times(f, g, T)
  <2>1. Products(f, g)
    BY ProductsExist
  <2> HIDE DEF g
  <2> QED
    BY <2>1 DEF Products
<1> HIDE DEF g
<1>3. {} \in G
  BY <1>2 DEF Times, Positive
<1>4. \A T \in SUBSET S : T # {} /\ T \ {Pick(T)} \in G => T \in G
  <2> SUFFICES ASSUME NEW T \in SUBSET S, T # {}, T \ {Pick(T)} \in G
               PROVE  g[T] \in Positive /\ \A s \in T : g[T] >= f[s]
      OBVIOUS
  <2> DEFINE x == Pick(T)
             R == T \ {x}
  <2>1. x \in S /\ f[x] \in Positive /\ R \in SUBSET S
    BY PickIn
  <2>2. g[R] \in Positive /\ \A s \in R : g[R] >= f[s]
    OBVIOUS
  <2>3. g[T] = f[x] * g[R]
    BY <1>2 DEF Times
  <2>4. \A i, j \in Positive : i * j \in Positive /\ i * j >= i /\ i * j >= j
    BY DEF Positive
  <2>5. g[T] \in Positive /\ g[T] >= f[x] /\ g[T] >= g[R]
    BY <2>1, <2>2, <2>3, <2>4
  <2>6. \A s \in T : s = x \/ s \in R
    OBVIOUS
  <2>7. \A s \in T : f[s] \in Positive
    OBVIOUS
  <2> HIDE DEF x, R
  <2> QED
    BY <2>2, <2>5, <2>6, <2>7 DEF Positive
<1> HIDE DEF G
<1>5. SUBSET S \subseteq G
  BY <1>3, <1>4, SubsetInduction
<1> QED
  BY <1>1, <1>5 DEF G

LEMMA ReciprocalIs ==
  ASSUME NEW vol, IsSeries(vol), \A s \in DOMAIN vol : vol[s] > 0
  PROVE  /\ IsSeries(Reciprocal(vol)) /\ DOMAIN Reciprocal(vol) = DOMAIN vol
         /\ \A s \in DOMAIN vol : Reciprocal(vol)[s] > 0
<1>1. vol \in [DOMAIN vol -> Positive] /\ IsFiniteSet(DOMAIN vol)
  BY FinitePart DEF IsSeries, Positive
<1>2. Product(vol) \in Positive /\ \A s \in DOMAIN vol : Product(vol) >= vol[s]
  BY <1>1, ProductAtLeast
<1>3. Reciprocal(vol) = [s \in DOMAIN vol |-> Product(vol) \div vol[s]]
  BY DEF Reciprocal, Product
<1>4. \A k, d \in Positive : k >= d => k \div d \in Int /\ k \div d > 0
  BY DEF Positive
<1>5. \A s \in DOMAIN vol : Product(vol) \div vol[s] \in Int /\ Product(vol) \div vol[s] > 0
  BY <1>1, <1>2, <1>4
<1> QED
  BY <1>3, <1>5 DEF IsSeries

LEMMA InverseWeightsAre ==
  ASSUME NEW inv, IsSeries(inv), \A s \in DOMAIN inv : inv[s] > 0,
         NEW longs \in SUBSET DOMAIN inv, NEW shorts \in SUBSET DOMAIN inv
  PROVE  /\ IsSeries(InverseWeights(inv, longs, shorts))
         /\ \A x \in DOMAIN InverseWeights(inv, longs, shorts) :
              /\ InverseWeights(inv, longs, shorts)[x] > 0 => x \in longs
              /\ InverseWeights(inv, longs, shorts)[x] < 0 => x \in shorts \ longs
<1> DEFINE S == longs \cup shorts
           part == OnlyOn(inv, S)
           total == Total(part)
           k(s) == (inv[s] * Unit) \div total
<1>1. S \in SUBSET Symbols /\ \A s \in S : inv[s] \in Int /\ inv[s] > 0
  BY DEF IsSeries
<1>2. part \in [S -> Int] /\ \A s \in S : part[s] > 0
  <2>1. part = [s \in S |-> inv[s]]
    BY DEF OnlyOn
  <2> QED
    BY <1>1, <2>1
<1>3. InverseWeights(inv, longs, shorts) = [s \in S |-> (IF s \in longs THEN 1 ELSE -1) * k(s)]
  BY DEF InverseWeights
<1> HIDE DEF S, part
<1>4. \A s \in S : total \in Nat \ {0}
  <2> TAKE s \in S
  <2>1. SumOf(part) \in Int /\ SumOf(part) >= part[s]
    BY <1>1, <1>2, FinitePart, SumType, SumAtLeast
  <2>2. part[s] \in Int
    BY <1>2
  <2> QED
    BY <1>2, <2>1, <2>2, TotalIsSum
<1> HIDE DEF total
<1>5. \A i \in Int, d \in Nat \ {0} : i > 0 => (i * Unit) \div d \in Int /\ (i * Unit) \div d >= 0
  <2>1. \A m \in Nat, d \in Nat \ {0} : m \div d \in Int /\ m \div d >= 0
    OBVIOUS
  <2>2. \A i \in Int : i > 0 => i * Unit \in Nat
    BY TargetsAssumption
  <2> QED
    BY <2>1, <2>2
<1>6. \A s \in S : k(s) \in Int /\ k(s) >= 0
  BY <1>1, <1>4, <1>5
<1> HIDE DEF k
<1>7. \A i \in Int : 1 * i = i /\ (-1) * i = -i
  OBVIOUS
<1>8. \A s \in S : InverseWeights(inv, longs, shorts)[s] = IF s \in longs THEN k(s) ELSE -k(s)
  BY <1>3, <1>6, <1>7
<1>9. S = longs \cup shorts
  BY DEF S
<1> QED
  BY <1>1, <1>3, <1>6, <1>8, <1>9 DEF IsSeries

LEMMA WeightedDeviationIs ==
  ASSUME NEW p, NEW w, IsSeries(w.ret), IsSeries(w.vol)
  PROVE  /\ IsSeries(WeightedDeviation(p, w)) /\ DOMAIN WeightedDeviation(p, w) \subseteq DOMAIN w.vol
         /\ \A s \in DOMAIN WeightedDeviation(p, w) : w.vol[s] > 0
<1> DEFINE all == _window_returns(w, p.lookback_days)
           ok == {s \in DOMAIN all \cap DOMAIN w.vol : w.vol[s] > 0}
           dev == Deviation(OnlyOn(all, ok))
           vol == OnlyOn(w.vol, ok)
           inv == Reciprocal(vol)
<1>1. /\ IsSeries(all) /\ ok \subseteq DOMAIN all /\ ok \subseteq DOMAIN w.vol /\ ok \subseteq Symbols
      /\ \A s \in ok : w.vol[s] > 0
  BY ReturnsAre DEF IsSeries
<1>2. WeightedDeviation(p, w) = [s \in ok |-> dev[s] * inv[s]]
  BY DEF WeightedDeviation
<1> HIDE DEF all, ok
<1>3. IsSeries(OnlyOn(all, ok)) /\ DOMAIN OnlyOn(all, ok) = ok
  BY <1>1 DEF IsSeries, OnlyOn
<1>4. IsSeries(vol) /\ DOMAIN vol = ok /\ \A s \in ok : vol[s] > 0
  BY <1>1 DEF IsSeries, OnlyOn
<1> HIDE DEF vol
<1>5. IsSeries(dev) /\ DOMAIN dev = ok
  BY <1>3, DeviationIs
<1>6. IsSeries(inv) /\ DOMAIN inv = ok
  BY <1>4, ReciprocalIs
<1> HIDE DEF dev, inv
<1>7. \A s \in ok : dev[s] * inv[s] \in Int
  BY <1>5, <1>6 DEF IsSeries
<1> QED
  BY <1>1, <1>2, <1>7 DEF IsSeries

LEMMA WeightedGood ==
  ASSUME NEW p, p.kind = "mean_reversion_weighted", p.fraction \in Nat,
         NEW w, IsSeries(w.ret), IsSeries(w.vol), NEW t \in MeanReversionWeighted(p, w)
  PROVE  Good(p, w, t)
<1> DEFINE wdev == WeightedDeviation(p, w)
           score == Minus(wdev)
           n == Share(Card(wdev), p)
           inv == Reciprocal(OnlyOn(w.vol, DOMAIN wdev))
<1>1. CASE t = Flat
  BY <1>1, FlatGood
<1>2. ASSUME NEW q \in Ranked(score),
             t = InverseWeights(inv, Best(q, n), IF p.allow_short THEN Worst(q, n) \ Best(q, n) ELSE {})
      PROVE  Good(p, w, t)
  <2> DEFINE longs == Best(q, n)
             shorts == IF p.allow_short THEN Worst(q, n) \ Best(q, n) ELSE {}
  <2>1. score \in Merits(p, w)
    BY DEF Merits
  <2>2. t = InverseWeights(inv, longs, shorts)
    BY <1>2
  <2>3. IsSeries(wdev) /\ DOMAIN wdev \subseteq DOMAIN w.vol /\ \A s \in DOMAIN wdev : w.vol[s] > 0
    BY WeightedDeviationIs
  <2> HIDE DEF wdev
  <2>4. n \in Nat \ {0} /\ IsSeries(score) /\ DOMAIN score = DOMAIN wdev
    BY <2>3, CardType, ShareType, MinusIs
  <2> HIDE DEF n
  <2>5. IsSeries(inv) /\ DOMAIN inv = DOMAIN wdev /\ \A s \in DOMAIN wdev : inv[s] > 0
    <3> DEFINE vol == OnlyOn(w.vol, DOMAIN wdev)
    <3>1. IsSeries(vol) /\ DOMAIN vol = DOMAIN wdev /\ \A s \in DOMAIN wdev : vol[s] > 0
      BY <2>3 DEF IsSeries, OnlyOn
    <3> HIDE DEF vol
    <3> QED
      BY <3>1, ReciprocalIs DEF vol
  <2> HIDE DEF inv, score
  <2>6. q \in Seq(DOMAIN score) /\ \A i, j \in 1 .. Len(q) : i < j => score[q[i]] >= score[q[j]]
    BY <1>2, <2>4, RankedIs
  <2>7. longs \in SUBSET DOMAIN inv /\ shorts \in SUBSET DOMAIN inv
    BY <2>4, <2>5, <2>6, BestIs, WorstIs
  <2>8. ASSUME NEW x \in longs, NEW y \in shorts \ longs PROVE score[x] >= score[y]
    <3>1. PICK i \in 1 .. Len(q) : i <= n /\ q[i] = x
      BY <2>4, <2>6, BestIs
    <3>2. PICK j \in 1 .. Len(q) : q[j] = y
      BY <2>4, <2>6, WorstIs
    <3>3. ~(j <= n)
      BY <2>4, <2>6, <3>2, BestIs
    <3>4. i < j
      BY <2>4, <2>6, <3>1, <3>3
    <3> QED
      BY <2>6, <3>1, <3>2, <3>4
  <2> HIDE DEF longs, shorts
  <2>9. IsSeries(t) /\ Follows(t, score)
    BY <2>2, <2>4, <2>5, <2>7, <2>8, InverseWeightsAre DEF Follows
  <2> QED
    BY <2>1, <2>9, FollowsGood
<1> QED
  BY <1>1, <1>2 DEF MeanReversionWeighted

----------------------------------------------------------------------------
(* Several scores                                                          *)

LEMMA ShortAppend ==
  ASSUME NEW R, NEW a \in R, NEW b \in R, NEW c \in R, NEW i, NEW j, NEW k
  PROVE  LET zs == (IF i THEN << a >> ELSE << >>) \o (IF j THEN << b >> ELSE << >>)
                   \o (IF k THEN << c >> ELSE << >>)
         IN  zs \in Seq(R) /\ Len(zs) \in 0 .. 3
<1> DEFINE x == IF i THEN << a >> ELSE << >>
           y == IF j THEN << b >> ELSE << >>
           z == IF k THEN << c >> ELSE << >>
<1>1. x \in Seq(R) /\ Len(x) \in 0 .. 1
  OBVIOUS
<1>2. y \in Seq(R) /\ Len(y) \in 0 .. 1
  OBVIOUS
<1>3. z \in Seq(R) /\ Len(z) \in 0 .. 1
  OBVIOUS
<1> HIDE DEF x, y, z
<1>4. x \o y \in Seq(R) /\ Len(x \o y) \in 0 .. 2
  BY <1>1, <1>2, ConcatProperties
<1>5. (x \o y) \o z \in Seq(R) /\ Len((x \o y) \o z) \in 0 .. 3
  BY <1>3, <1>4, ConcatProperties
<1> QED
  BY <1>5 DEF x, y, z

LEMMA FirstNumbers == ASSUME NEW n \in Nat PROVE IsFiniteSet(1 .. n) /\ Cardinality(1 .. n) = n
  BY FS_Interval

LEMMA AlphaGood ==
  ASSUME NEW p, p.kind = "alpha_combo", p.fraction \in Nat,
         NEW w, IsSeries(w.ret), IsSeries(w.rev), IsSeries(w.vol), NEW t \in AlphaCombo(p, w)
  PROVE  Good(p, w, t)
<1> DEFINE i == w.rows >= p.momentum_days + p.momentum_skip
           j == w.rows >= p.reversal_days + 1
           k == w.rows >= p.vol_days
           zs == (IF i THEN << _zscore(w.ret) >> ELSE << >>) \o (IF j THEN << _zscore(Minus(w.rev)) >> ELSE << >>)
                 \o (IF k THEN << _zscore(Minus(w.vol)) >> ELSE << >>)
           having(s) == {n \in DOMAIN zs : s \in DOMAIN zs[n]}
           column(s) == [n \in having(s) |-> zs[n][s]]
           D == UNION {DOMAIN zs[n] : n \in DOMAIN zs}
           composite == [s \in D |-> (6 * Total(column(s))) \div Cardinality(having(s))]
<1>1. t = Flat \/ t \in LongShort(composite, p)
  BY DEF AlphaCombo
<1>2. /\ zs \in Seq({_zscore(f) : f \in Merits(p, w)})
      /\ Len(zs) \in 0 .. 3
  <2>1. Merits(p, w) = {w.ret, Minus(w.rev), Minus(w.vol)}
    BY DEF Merits
  <2> DEFINE R == {_zscore(f) : f \in Merits(p, w)}
  <2>2. _zscore(w.ret) \in R /\ _zscore(Minus(w.rev)) \in R /\ _zscore(Minus(w.vol)) \in R
    BY <2>1
  <2> HIDE DEF R, i, j, k
  <2>3. zs \in Seq(R) /\ Len(zs) \in 0 .. 3
    BY <2>2, ShortAppend
  <2> QED
    BY <2>3 DEF R
<1>3. \A f \in Merits(p, w) :
         /\ IsSeries(f) /\ IsSeries(_zscore(f)) /\ DOMAIN _zscore(f) = DOMAIN f
         /\ \A x, y \in DOMAIN f : _zscore(f)[x] >= _zscore(f)[y] => f[x] >= f[y]
  <2>1. \A f \in Merits(p, w) : IsSeries(f)
    BY MinusIs DEF Merits
  <2> QED
    BY <2>1, DeviationIs DEF _zscore
<1> HIDE DEF zs
<1>4. DOMAIN zs = 1 .. Len(zs) /\ \A n \in DOMAIN zs : \E f \in Merits(p, w) : zs[n] = _zscore(f)
  BY <1>2
<1>5. \A n \in DOMAIN zs : IsSeries(zs[n])
  BY <1>3, <1>4
<1>6. IsFiniteSet(DOMAIN zs) /\ Cardinality(DOMAIN zs) = Len(zs)
  <2>1. Len(zs) \in Nat
    BY <1>2
  <2> QED
    BY <1>4, <2>1, FirstNumbers
<1>7. \A s \in D : having(s) # {} /\ having(s) \in SUBSET DOMAIN zs
  OBVIOUS
<1>8. \A s \in D : column(s) \in [having(s) -> Int]
  BY <1>5 DEF IsSeries
<1> HIDE DEF having, column
<1>9. \A s \in D : IsFiniteSet(having(s)) /\ Total(column(s)) \in Int /\ Cardinality(having(s)) \in Nat \ {0}
  <2> TAKE s \in D
  <2>1. IsFiniteSet(having(s))
    BY <1>6, <1>7, FS_Subset
  <2>2. Cardinality(having(s)) \in Nat /\ Cardinality(having(s)) # 0
    BY <1>7, <2>1, FS_CardinalityType, FS_EmptySet
  <2>3. SumOf(column(s)) \in Int
    BY <1>8, <2>1, SumType
  <2> QED
    BY <2>1, <2>2, <2>3, TotalIsSum
<1>10. D \subseteq Symbols
  BY <1>5 DEF IsSeries
<1> HIDE DEF D
<1>11. IsSeries(composite) /\ DOMAIN composite = D
  <2>1. \A a \in Int, b \in Nat \ {0} : (6 * a) \div b \in Int
    OBVIOUS
  <2>2. \A s \in D : (6 * Total(column(s))) \div Cardinality(having(s)) \in Int
    BY <1>9, <2>1
  <2> QED
    BY <1>10, <2>2 DEF IsSeries
<1>12. ASSUME NEW x \in D, NEW y \in D, Comparable(p, w, x, y), composite[x] >= composite[y]
       PROVE  \E f \in Merits(p, w) : {x, y} \subseteq DOMAIN f /\ f[x] >= f[y]
  <2> DEFINE H == DOMAIN zs
  <2>1. \A f \in Merits(p, w) : {x, y} \subseteq DOMAIN f
    BY <1>12 DEF Comparable
  <2>2. \A n \in H : x \in DOMAIN zs[n] /\ y \in DOMAIN zs[n]
    BY <1>3, <1>4, <2>1
  <2>3. having(x) = H /\ having(y) = H
    BY <2>2 DEF having
  <2>4. \A n \in H : column(x)[n] = zs[n][x] /\ column(y)[n] = zs[n][y]
    BY <2>3 DEF column
  <2>5. column(x) \in [H -> Int] /\ column(y) \in [H -> Int]
    BY <1>8, <2>3
  <2>6. ASSUME \A n \in H : column(x)[n] < column(y)[n] PROVE FALSE
    <3>1. PICK n \in H : TRUE
      BY <1>7, <2>3
    <3>2. column(x)[n] < column(y)[n] /\ \A m \in H : column(x)[m] <= column(y)[m]
      BY <2>5, <2>6
    <3>3. SumOf(column(x)) < SumOf(column(y))
      BY <1>6, <2>5, <3>2, SumStrict
    <3>4. Total(column(x)) < Total(column(y)) /\ Total(column(x)) \in Int /\ Total(column(y)) \in Int
      BY <1>9, <3>3, TotalIsSum
    <3>5. Cardinality(H) \in 1 .. 3
      <4>1. Cardinality(having(x)) \in Nat \ {0}
        BY <1>9
      <4>2. Len(zs) \in 0 .. 3
        BY <1>2
      <4>3. Cardinality(H) = Len(zs) /\ Cardinality(H) = Cardinality(having(x))
        BY <1>6, <2>3
      <4> HIDE DEF H
      <4> QED
        BY <4>1, <4>2, <4>3
    <3>6. \A a, b \in Int : a < b => /\ ~((6 * a) \div 1 >= (6 * b) \div 1)
                                     /\ ~((6 * a) \div 2 >= (6 * b) \div 2)
                                     /\ ~((6 * a) \div 3 >= (6 * b) \div 3)
      OBVIOUS
    <3>7. ~((6 * Total(column(x))) \div Cardinality(H) >= (6 * Total(column(y))) \div Cardinality(H))
      BY <3>4, <3>5, <3>6
    <3> QED
      BY <1>12, <2>3, <3>7
  <2>7. PICK n \in H : ~(column(x)[n] < column(y)[n])
    BY <2>6
  <2>8. zs[n][x] >= zs[n][y]
    BY <2>4, <2>5, <2>7
  <2>9. PICK f \in Merits(p, w) : zs[n] = _zscore(f)
    BY <1>4
  <2> QED
    BY <1>3, <2>1, <2>8, <2>9
<1> HIDE DEF composite
<1>13. CASE t = Flat
  BY <1>13, FlatGood
<1>14. CASE t \in LongShort(composite, p)
  <2>1. IsSeries(t) /\ Follows(t, composite)
    BY <1>11, <1>14, LongShortIs
  <2> QED
    BY <1>11, <1>12, <2>1 DEF Good, Sides, Follows
<1> QED
  BY <1>1, <1>13, <1>14

LEMMA RanksAre ==
  ASSUME NEW f, IsSeries(f)
  PROVE  /\ IsSeries(Ranks(f)) /\ DOMAIN Ranks(f) = DOMAIN f
         /\ \A x, y \in DOMAIN f : Ranks(f)[x] >= Ranks(f)[y] => f[x] >= f[y]
<1> DEFINE below(s) == {t \in DOMAIN f : f[t] < f[s]}
           upto(s) == {t \in DOMAIN f : f[t] <= f[s]}
<1>1. IsFiniteSet(DOMAIN f)
  BY FinitePart DEF IsSeries
<1>2. \A s \in DOMAIN f : /\ IsFiniteSet(below(s)) /\ IsFiniteSet(upto(s))
                          /\ Cardinality(below(s)) \in Nat /\ Cardinality(upto(s)) \in Nat
  <2> TAKE s \in DOMAIN f
  <2>1. below(s) \in SUBSET DOMAIN f /\ upto(s) \in SUBSET DOMAIN f
    OBVIOUS
  <2> HIDE DEF below, upto
  <2> QED
    BY <1>1, <2>1, FS_Subset, FS_CardinalityType
<1>3. Ranks(f) = [s \in DOMAIN f |-> Cardinality(below(s)) + Cardinality(upto(s)) + 1]
  BY DEF Ranks
<1>4. ASSUME NEW x \in DOMAIN f, NEW y \in DOMAIN f, f[x] < f[y] PROVE Ranks(f)[x] < Ranks(f)[y]
  <2>1. below(x) \in SUBSET below(y) /\ upto(x) \in SUBSET upto(y) /\ y \in upto(y) /\ y \notin upto(x)
    BY <1>4 DEF IsSeries
  <2> HIDE DEF below, upto
  <2>2. Cardinality(below(x)) <= Cardinality(below(y))
    BY <1>2, <2>1, FS_Subset
  <2>3. Cardinality(upto(x)) < Cardinality(upto(y))
    BY <1>2, <2>1, FS_Subset
  <2> QED
    BY <1>2, <1>3, <2>2, <2>3
<1> HIDE DEF below, upto
<1>5. IsSeries(Ranks(f)) /\ DOMAIN Ranks(f) = DOMAIN f
  BY <1>2, <1>3 DEF IsSeries
<1>6. \A x, y \in DOMAIN f : f[x] >= f[y] \/ f[x] < f[y]
  BY DEF IsSeries
<1>7. \A x, y \in DOMAIN f : Ranks(f)[x] < Ranks(f)[y] => ~(Ranks(f)[x] >= Ranks(f)[y])
  BY <1>5 DEF IsSeries
<1> QED
  BY <1>4, <1>5, <1>6, <1>7

LEMMA MultifactorGood ==
  ASSUME NEW p, p.kind = "multifactor", p.fraction \in Nat,
         NEW w, IsSeries(w.ret), IsSeries(w.vol), NEW t \in Multifactor(p, w)
  PROVE  Good(p, w, t)
<1> DEFINE common == DOMAIN w.ret \cap DOMAIN w.vol
           ret == OnlyOn(w.ret, common)
           vol == Minus(OnlyOn(w.vol, common))
           mom == Ranks(ret)
           calm == Ranks(vol)
           score == [s \in common |-> mom[s] + calm[s]]
<1>1. t = Flat \/ t \in LongShort(score, p)
  BY DEF Multifactor
<1>2. common \subseteq DOMAIN w.ret /\ common \subseteq DOMAIN w.vol /\ common \subseteq Symbols
  BY DEF IsSeries
<1>3. w.ret \in Merits(p, w) /\ Minus(w.vol) \in Merits(p, w)
  BY DEF Merits
<1> HIDE DEF common
<1>4. IsSeries(ret) /\ DOMAIN ret = common /\ \A s \in common : ret[s] = w.ret[s]
  BY <1>2 DEF IsSeries, OnlyOn
<1>5. IsSeries(vol) /\ DOMAIN vol = common /\ \A s \in common : vol[s] = Minus(w.vol)[s]
  BY <1>2 DEF IsSeries, OnlyOn, Minus
<1>6. DOMAIN Minus(w.vol) = DOMAIN w.vol
  BY MinusIs
<1> HIDE DEF ret, vol
<1>7. /\ IsSeries(mom) /\ DOMAIN mom = common
      /\ \A x, y \in common : mom[x] >= mom[y] => ret[x] >= ret[y]
  BY <1>4, RanksAre
<1>8. /\ IsSeries(calm) /\ DOMAIN calm = common
      /\ \A x, y \in common : calm[x] >= calm[y] => vol[x] >= vol[y]
  BY <1>5, RanksAre
<1> HIDE DEF mom, calm
<1>9. \A s \in common : mom[s] \in Int /\ calm[s] \in Int
  BY <1>7, <1>8 DEF IsSeries
<1>10. IsSeries(score) /\ DOMAIN score = common
  BY <1>2, <1>9 DEF IsSeries
<1>11. \A x, y \in common : score[x] >= score[y] => mom[x] >= mom[y] \/ calm[x] >= calm[y]
  BY <1>9
<1> HIDE DEF score
<1>12. CASE t = Flat
  BY <1>12, FlatGood
<1>13. CASE t \in LongShort(score, p)
  <2>1. IsSeries(t) /\ Follows(t, score)
    BY <1>10, <1>13, LongShortIs
  <2>2. ASSUME NEW x \in common, NEW y \in common, score[x] >= score[y]
        PROVE  \E f \in Merits(p, w) : {x, y} \subseteq DOMAIN f /\ f[x] >= f[y]
    <3>1. CASE mom[x] >= mom[y]
      BY <1>2, <1>3, <1>4, <1>7, <3>1
    <3>2. CASE calm[x] >= calm[y]
      BY <1>2, <1>3, <1>5, <1>6, <1>8, <3>2
    <3> QED
      BY <1>11, <2>2, <3>1, <3>2
  <2> QED
    BY <1>10, <2>1, <2>2 DEF Good, Sides, Follows
<1> QED
  BY <1>1, <1>12, <1>13

----------------------------------------------------------------------------
(* Sectors, asset classes and single funds                                 *)

\* What is never short is on no wrong side.
LEMMA LongOnlyGood ==
  ASSUME NEW p, NEW w, NEW t, IsSeries(t), \A x \in DOMAIN t : t[x] >= 0
  PROVE  Good(p, w, t)
  BY DEF Good, Sides, IsSeries

LEMMA RotationGood ==
  ASSUME NEW p, p.kind = "sector_rotation", p.top_n \in Nat \ {0},
         NEW w, IsSeries(w.ret), NEW q \in Ranked(w.ret)
  PROVE  Good(p, w, Rotation(p, w, q))
<1> DEFINE t == Rotation(p, w, q)
           first == Best(q, p.top_n)
           longs == IF p.ma_filter THEN first \cap w.above ELSE first
           shorts == IF p.allow_short THEN Worst(q, p.top_n) \ longs ELSE {}
<1>1. t = Flat \/ t = EqualWeights(longs, shorts)
  BY DEF Rotation
<1>2. /\ q \in Seq(DOMAIN w.ret) /\ Len(q) = Card(w.ret) /\ Len(q) \in Nat
      /\ \A i, j \in 1 .. Len(q) : i < j => w.ret[q[i]] >= w.ret[q[j]]
  BY RankedIs
<1>3. w.ret \in Merits(p, w)
  BY DEF Merits
<1>4. first \subseteq DOMAIN w.ret /\ Worst(q, p.top_n) \subseteq DOMAIN w.ret
  BY <1>2, BestIs, WorstIs
<1>5. longs \subseteq first /\ shorts \subseteq Worst(q, p.top_n)
  OBVIOUS
<1>6. ASSUME NEW x \in longs, NEW y \in shorts, Comparable(p, w, x, y)
      PROVE  w.ret[x] >= w.ret[y]
  <2>1. PICK i \in 1 .. Len(q) : i <= p.top_n /\ q[i] = x
    BY <1>2, <1>5, BestIs
  <2>2. PICK j \in 1 .. Len(q) : j > Len(q) - p.top_n /\ q[j] = y
    BY <1>2, <1>5, WorstIs
  <2>3. CASE ~p.ma_filter
    <3>1. y \notin first
      BY <2>3
    <3>2. ~(j <= p.top_n)
      BY <1>2, <2>2, <3>1, BestIs
    <3> QED
      BY <1>2, <2>1, <2>2, <3>2
  <2>4. CASE p.ma_filter
    <3>1. Len(q) >= 2 * p.top_n
      BY <1>2, <1>6, <2>4 DEF Comparable
    <3>2. i <= j /\ (i = j => FALSE)
      BY <1>2, <2>1, <2>2, <3>1
    <3> QED
      BY <1>2, <2>1, <2>2, <3>2
  <2> QED
    BY <2>3, <2>4
<1> HIDE DEF first, longs, shorts
<1>7. CASE t = EqualWeights(longs, shorts)
  <2>1. longs \in SUBSET Symbols /\ shorts \in SUBSET Symbols
    BY <1>4, <1>5 DEF IsSeries
  <2> HIDE DEF t
  <2>2. IsSeries(t) /\ \A x \in DOMAIN t : (t[x] > 0 => x \in longs) /\ (t[x] < 0 => x \in shorts \ longs)
    BY <1>7, <2>1, EqualWeightsAre
  <2>3. \A x, y \in DOMAIN t : t[x] > 0 /\ t[y] < 0 /\ Comparable(p, w, x, y)
                                 => {x, y} \subseteq DOMAIN w.ret /\ w.ret[x] >= w.ret[y]
    BY <1>4, <1>5, <1>6, <2>2
  <2> QED
    BY <1>3, <2>2, <2>3 DEF Good, Sides, t
<1> QED
  BY <1>1, <1>7, FlatGood

LEMMA SectorGood ==
  ASSUME NEW p, p.kind = "sector_rotation", p.top_n \in Nat \ {0},
         NEW w, IsSeries(w.ret), NEW t \in SectorRotation(p, w)
  PROVE  Good(p, w, t)
<1>1. CASE t = Flat
  BY <1>1, FlatGood
<1>2. CASE t = [s \in {p.defensive} \cap Symbols |-> Unit]
  <2>1. IsSeries(t) /\ \A x \in DOMAIN t : t[x] >= 0
    BY <1>2, TargetsAssumption DEF IsSeries
  <2> QED
    BY <2>1, LongOnlyGood
<1>3. CASE \E q \in Ranked(w.ret) : t = Rotation(p, w, q)
  BY <1>3, RotationGood
<1> QED
  <2>1. CASE Card(_window_returns(w, p.formation_days)) < 2
    BY <1>1, <1>2, <2>1 DEF SectorRotation
  <2>2. CASE ~(Card(_window_returns(w, p.formation_days)) < 2)
    <3>1. _window_returns(w, p.formation_days) = w.ret
      BY <2>2, CountsReturns
    <3> QED
      BY <1>2, <1>3, <2>2, <3>1 DEF SectorRotation
  <2> QED
    BY <2>1, <2>2

LEMMA RawIs ==
  ASSUME NEW p, p.weighting \in {"equal", "mom", "mom_over_vol", "mom_over_var"},
         NEW w, IsSeries(w.ret), IsSeries(w.vol),
         NEW keep \in SUBSET DOMAIN w.ret, \A s \in keep : w.ret[s] > 0
  PROVE  IsSeries(Raw(p, w, keep)) /\ \A s \in DOMAIN Raw(p, w, keep) : Raw(p, w, keep)[s] >= 0
<1> DEFINE usable == {s \in keep \cap DOMAIN w.vol : w.vol[s] > 0}
           raw == Raw(p, w, keep)
<1>1. /\ keep \subseteq Symbols /\ usable \subseteq keep
      /\ \A s \in keep : w.ret[s] \in Int /\ w.ret[s] > 0
      /\ \A s \in usable : w.vol[s] \in Int /\ w.vol[s] > 0
  BY DEF IsSeries
<1>2. \A a \in Nat, d \in Nat \ {0} : a \div d \in Int /\ a \div d >= 0
  OBVIOUS
<1>3. CASE p.weighting = "equal"
  <2>1. raw = [s \in keep |-> 1]
    BY <1>3 DEF Raw
  <2> QED
    BY <1>1, <2>1 DEF IsSeries
<1>4. CASE p.weighting = "mom"
  <2>1. raw = [s \in keep |-> w.ret[s]]
    BY <1>4 DEF Raw, OnlyOn
  <2> HIDE DEF raw
  <2> QED
    BY <1>1, <2>1 DEF IsSeries, raw
<1>5. CASE p.weighting = "mom_over_vol"
  <2>1. raw = [s \in usable |-> (4 * w.ret[s]) \div w.vol[s]]
    BY <1>5 DEF Raw
  <2> HIDE DEF usable
  <2>2. \A s \in usable : (4 * w.ret[s]) \div w.vol[s] \in Int /\ (4 * w.ret[s]) \div w.vol[s] >= 0
    BY <1>1, <1>2
  <2> QED
    BY <1>1, <2>1, <2>2 DEF IsSeries
<1>6. CASE p.weighting = "mom_over_var"
  <2>1. raw = [s \in usable |-> (4 * w.ret[s]) \div (w.vol[s] * w.vol[s])]
    BY <1>6 DEF Raw
  <2> HIDE DEF usable
  <2>2. \A d \in Nat \ {0} : d * d \in Nat \ {0}
    OBVIOUS
  <2>3. \A s \in usable : w.vol[s] * w.vol[s] \in Nat \ {0} /\ 4 * w.ret[s] \in Nat
    BY <1>1, <2>2
  <2>4. \A s \in usable : /\ (4 * w.ret[s]) \div (w.vol[s] * w.vol[s]) \in Int
                          /\ (4 * w.ret[s]) \div (w.vol[s] * w.vol[s]) >= 0
    BY <1>2, <2>3
  <2> QED
    BY <1>1, <2>1, <2>4 DEF IsSeries
<1> QED
  BY <1>3, <1>4, <1>5, <1>6

LEMMA TrendGood ==
  ASSUME NEW p, p.max_weight \in Nat, p.weighting \in {"equal", "mom", "mom_over_vol", "mom_over_var"},
         NEW w, IsSeries(w.ret), IsSeries(w.vol), NEW t \in MultiAssetTrend(p, w)
  PROVE  Good(p, w, t)
<1> DEFINE mom == _window_returns(w, p.formation_days)
           keep == {s \in DOMAIN mom : mom[s] > 0 /\ (p.ma_filter => s \in w.above)}
           raw == Raw(p, w, keep)
           total == Total(raw)
<1>1. keep \in SUBSET DOMAIN w.ret /\ \A s \in keep : w.ret[s] > 0
  <2>1. mom \in {Flat, w.ret}
    BY ReturnsAre
  <2> QED
    BY <2>1, FlatIs
<1>2. t = Flat \/ (~(total <= 0) /\ t = [s \in DOMAIN raw |-> Lesser((raw[s] * Unit) \div total, p.max_weight)])
  BY DEF MultiAssetTrend
<1> HIDE DEF keep
<1>3. IsSeries(raw) /\ \A s \in DOMAIN raw : raw[s] >= 0
  BY <1>1, RawIs
<1> HIDE DEF raw
<1>4. total \in Int
  BY <1>3, TotalType
<1> HIDE DEF total
<1>5. CASE t = Flat
  BY <1>5, FlatGood
<1>6. CASE ~(total <= 0) /\ t = [s \in DOMAIN raw |-> Lesser((raw[s] * Unit) \div total, p.max_weight)]
  <2>1. total \in Nat \ {0}
    BY <1>4, <1>6
  <2>2. \A a \in Nat, d \in Nat \ {0} : a \div d \in Int /\ a \div d >= 0
    OBVIOUS
  <2>3. \A a \in Int : a >= 0 => a * Unit \in Nat
    BY TargetsAssumption
  <2>4. \A s \in DOMAIN raw : raw[s] * Unit \in Nat
    BY <1>3, <2>3 DEF IsSeries
  <2>5. \A a \in Int : a >= 0 => Lesser(a, p.max_weight) \in Int /\ Lesser(a, p.max_weight) >= 0
    BY DEF Lesser
  <2>6. \A s \in DOMAIN raw : t[s] \in Int /\ t[s] >= 0
    BY <1>6, <2>1, <2>2, <2>4, <2>5
  <2>7. DOMAIN t = DOMAIN raw /\ t = [s \in DOMAIN raw |-> t[s]]
    BY <1>6
  <2> HIDE <1>6
  <2> QED
    BY <1>3, <2>6, <2>7, LongOnlyGood DEF IsSeries
<1> QED
  BY <1>2, <1>5, <1>6

LEMMA VolTargetingIs ==
  ASSUME NEW p, p.symbol \in Symbols, p.target_vol \in Nat, p.max_leverage \in Nat,
         NEW w, IsSeries(w.vol), \A s \in DOMAIN w.vol : w.vol[s] >= 0, NEW last \in Int
  PROVE  VolTargeting(p, w, last) = Flat \/ OneName(p.symbol, VolTargeting(p, w, last))
<1> DEFINE vol == w.vol[p.symbol]
           target == Lesser(p.max_leverage, (p.target_vol * Unit) \div vol)
           near == last > 0 /\ Size(target - last) * 100 < p.rebalance_threshold * last
           k == IF near THEN last ELSE target
<1>1. CASE p.symbol \in DOMAIN w.vol /\ vol # 0
  <2>1. vol \in Nat \ {0}
    BY <1>1 DEF IsSeries
  <2>2. p.target_vol * Unit \in Nat
    BY TargetsAssumption
  <2>3. \A a \in Nat, d \in Nat \ {0} : a \div d \in Int
    OBVIOUS
  <2>4. (p.target_vol * Unit) \div vol \in Int
    BY <2>1, <2>2, <2>3
  <2>5. target \in Int
    BY <2>4 DEF Lesser
  <2>6. VolTargeting(p, w, last) = Flat \/ VolTargeting(p, w, last) = [s \in {p.symbol} |-> k]
    BY DEF VolTargeting
  <2> HIDE DEF target, near
  <2>7. k \in Int
    BY <2>5
  <2> HIDE DEF k
  <2> QED
    BY <2>6, <2>7 DEF OneName
<1>2. CASE ~(p.symbol \in DOMAIN w.vol /\ vol # 0)
  BY <1>2 DEF VolTargeting
<1> QED
  BY <1>1, <1>2

LEMMA MovingAverageGood ==
  ASSUME NEW p, p.symbol \in Symbols, NEW w
  PROVE  Good(p, w, MovingAverageRule(p, w))
<1>1. MovingAverageRule(p, w) \in {Flat, [s \in {p.symbol} |-> Unit], [s \in {p.symbol} |-> -Unit]}
  BY DEF MovingAverageRule
<1>2. PICK up \in Int, down \in Int : up = Unit /\ down = -Unit
  BY TargetsAssumption
<1> DEFINE t == MovingAverageRule(p, w)
<1>3. t = Flat \/ t = [s \in {p.symbol} |-> up] \/ t = [s \in {p.symbol} |-> down]
  BY <1>1, <1>2
<1> HIDE DEF t
<1>4. CASE t = Flat
  BY <1>4, FlatGood DEF t
<1>5. CASE t = [s \in {p.symbol} |-> up]
  <2>1. OneName(p.symbol, t)
    BY <1>5 DEF OneName
  <2> QED
    BY <2>1, OneNameGood DEF t
<1>6. CASE t = [s \in {p.symbol} |-> down]
  <2>1. OneName(p.symbol, t)
    BY <1>6 DEF OneName
  <2> QED
    BY <2>1, OneNameGood DEF t
<1> QED
  BY <1>3, <1>4, <1>5, <1>6

\* Every result of a rule is weights, and on the right side.
LEMMA TargetsGood ==
  ASSUME NEW p, AreParameters(p), NEW w, IsWindow(p.kind, w), NEW last \in Int,
         NEW t \in targets(p, w, last)
  PROVE  Good(p, w, t)
<1>1. p.kind \in {"price_momentum", "residual_momentum", "mean_reversion", "mean_reversion_multi",
                  "mean_reversion_weighted", "alpha_combo", "low_volatility", "multifactor",
                  "ibs_mean_reversion", "sector_rotation", "multi_asset_trend", "vol_targeting", "ma_rule"}
  BY DEF AreParameters, Reads
<1>2. CASE p.kind = "price_momentum"
  BY <1>2, PriceMomentumGood DEF AreParameters, IsWindow, Reads, targets
<1>3. CASE p.kind = "residual_momentum"
  BY <1>3, ResidualMomentumGood DEF AreParameters, IsWindow, Reads, targets
<1>4. CASE p.kind = "mean_reversion"
  BY <1>4, MeanReversionGood DEF AreParameters, IsWindow, Reads, targets
<1>5. CASE p.kind = "mean_reversion_multi"
  BY <1>5, MultiGood DEF AreParameters, IsWindow, Reads, targets
<1>6. CASE p.kind = "mean_reversion_weighted"
  BY <1>6, WeightedGood DEF AreParameters, IsWindow, Reads, targets
<1>7. CASE p.kind = "alpha_combo"
  BY <1>7, AlphaGood DEF AreParameters, IsWindow, Reads, targets
<1>8. CASE p.kind = "low_volatility"
  BY <1>8, LowVolatilityGood DEF AreParameters, IsWindow, Reads, targets
<1>9. CASE p.kind = "multifactor"
  BY <1>9, MultifactorGood DEF AreParameters, IsWindow, Reads, targets
<1>10. CASE p.kind = "ibs_mean_reversion"
  BY <1>10, IbsGood DEF AreParameters, IsWindow, Reads, targets
<1>11. CASE p.kind = "sector_rotation"
  BY <1>11, SectorGood DEF AreParameters, IsWindow, Reads, targets
<1>12. CASE p.kind = "multi_asset_trend"
  BY <1>12, TrendGood DEF AreParameters, IsWindow, Reads, targets
<1>13. CASE p.kind = "vol_targeting"
  <2>1. /\ p.symbol \in Symbols /\ p.target_vol \in Nat /\ p.max_leverage \in Nat
        /\ IsSeries(w.vol) /\ \A s \in DOMAIN w.vol : w.vol[s] >= 0
        /\ t = VolTargeting(p, w, last)
    BY <1>13 DEF AreParameters, IsWindow, Reads, targets
  <2>2. CASE t = Flat
    BY <2>2, FlatGood
  <2>3. CASE OneName(p.symbol, t)
    BY <2>1, <2>3, OneNameGood
  <2> QED
    BY <2>1, <2>2, <2>3, VolTargetingIs
<1>14. CASE p.kind = "ma_rule"
  BY <1>14, MovingAverageGood DEF AreParameters, IsWindow, Reads, targets
<1> QED
  BY <1>1, <1>2, <1>3, <1>4, <1>5, <1>6, <1>7, <1>8, <1>9, <1>10, <1>11, <1>12, <1>13, <1>14

----------------------------------------------------------------------------
(* The replay                                                              *)

\* What waits for an open is weights within the gross that is allowed.
Replayed ==
  /\ strategy \in Strategies /\ stage \in {"open", "close"} /\ last_w \in Int
  /\ cash \in Int /\ qty \in [Symbols -> Int] /\ marks \in [Symbols -> Int]
  /\ pending # None => IsSeries(pending) /\ Gross(pending) <= MaxGross
  /\ stage = "open" => applied = None

RInv == Replayed /\ BookFollows /\ WithinGross

LEMMA GrossIs ==
  ASSUME NEW t, IsSeries(t)
  PROVE  /\ [s \in DOMAIN t |-> Size(t[s])] \in [DOMAIN t -> Int]
         /\ \A s \in DOMAIN t : Size(t[s]) >= 0
         /\ IsFiniteSet(DOMAIN t)
         /\ Gross(t) = SumOf([s \in DOMAIN t |-> Size(t[s])]) /\ Gross(t) \in Int
<1>1. \A s \in DOMAIN t : Size(t[s]) \in Int /\ Size(t[s]) >= 0
  BY DEF IsSeries, Size
<1>2. IsFiniteSet(DOMAIN t)
  BY FinitePart DEF IsSeries
<1> DEFINE f == [s \in DOMAIN t |-> Size(t[s])]
<1>3. f \in [DOMAIN t -> Int] /\ Gross(t) = Total(f)
  BY <1>1 DEF Gross
<1> HIDE DEF f
<1>4. Gross(t) = SumOf(f) /\ SumOf(f) \in Int
  BY <1>2, <1>3, TotalIsSum, SumType
<1> QED
  BY <1>1, <1>2, <1>3, <1>4 DEF f

(* Scaled down, every part is cut off towards zero, and the parts sum up to *)
(* no more than what is allowed.                                           *)
LEMMA ScaledIs ==
  ASSUME NEW t, IsSeries(t)
  PROVE  IsSeries(Scaled(t)) /\ Gross(Scaled(t)) <= MaxGross
<1>1. CASE Gross(t) > MaxGross
  <2> DEFINE G == Gross(t)
             S == DOMAIN t
             r == Scaled(t)
             f == [s \in S |-> Size(t[s])]
             h == [s \in S |-> Size(r[s])]
  <2>1. /\ f \in [S -> Int] /\ (\A s \in S : f[s] >= 0 /\ t[s] \in Int) /\ IsFiniteSet(S)
        /\ G = SumOf(f) /\ G \in Nat \ {0} /\ MaxGross \in Nat
    BY <1>1, GrossIs, ReplayAssumption DEF IsSeries
  <2>2. r = [s \in S |-> Truncated(t[s] * MaxGross, G)]
    BY <1>1 DEF Scaled
  <2>3. \A s \in S : f[s] = Size(t[s])
    OBVIOUS
  <2> HIDE DEF G, f
  <2>4. \A k \in Int, m \in Nat : Size(k * m) = m * Size(k) /\ k * m \in Int
    BY DEF Size
  <2>5. \A s \in S : r[s] \in Int /\ Size(r[s]) * G <= MaxGross * f[s]
    <3> SUFFICES ASSUME NEW s \in S PROVE r[s] \in Int /\ Size(r[s]) * G <= MaxGross * f[s]
        OBVIOUS
    <3>1. PICK n \in Int : n = t[s] * MaxGross
      BY <2>1
    <3>2. r[s] = Truncated(n, G)
      BY <2>2, <3>1
    <3>3. Size(n) = MaxGross * f[s]
      BY <2>1, <2>3, <2>4, <3>1
    <3> HIDE DEF r
    <3> QED
      BY <2>1, <3>2, <3>3, TruncatedIs
  <2>6. DOMAIN r = S /\ IsSeries(r)
    BY <2>2, <2>5 DEF IsSeries
  <2> HIDE DEF r
  <2>7. h \in [S -> Int] /\ \A s \in S : h[s] = Size(r[s])
    BY <2>5 DEF Size
  <2>8. Gross(r) = SumOf(h)
    BY <2>6, GrossIs
  <2> HIDE DEF h
  <2>9. SumOf([s \in S |-> G * h[s]]) = G * SumOf(h)
    BY <2>1, <2>7, SumScaled
  <2>10. SumOf([s \in S |-> MaxGross * f[s]]) = MaxGross * SumOf(f)
    BY <2>1, SumScaled
  <2>11. SumOf([s \in S |-> G * h[s]]) <= SumOf([s \in S |-> MaxGross * f[s]])
    <3> DEFINE x == [s \in S |-> G * h[s]]
               y == [s \in S |-> MaxGross * f[s]]
    <3>1. x \in [S -> Int] /\ y \in [S -> Int]
      BY <2>1, <2>7
    <3>2. \A i, j \in Int : i * j = j * i
      OBVIOUS
    <3>3. \A s \in S : h[s] \in Int /\ G \in Int
      BY <2>1, <2>7
    <3>4. \A s \in S : G * h[s] <= MaxGross * f[s]
      BY <2>5, <2>7, <3>2, <3>3
    <3>5. \A s \in S : x[s] <= y[s]
      BY <3>4
    <3> HIDE DEF x, y
    <3>6. SumOf(x) <= SumOf(y)
      BY <2>1, <3>1, <3>5, SumMonotone
    <3> QED
      BY <3>6 DEF x, y
  <2>12. SumOf(h) \in Int /\ SumOf(f) \in Int
    BY <2>1, <2>7, SumType
  <2>13. G * SumOf(h) <= MaxGross * G
    BY <2>1, <2>9, <2>10, <2>11
  <2>14. \A i, m \in Int, g \in Nat \ {0} : g * i <= m * g => i <= m
    OBVIOUS
  <2>15. SumOf(h) <= MaxGross
    BY <2>1, <2>12, <2>13, <2>14
  <2> QED
    BY <2>6, <2>8, <2>15 DEF r
<1>2. CASE ~(Gross(t) > MaxGross)
  <2>1. Scaled(t) = t
    BY <1>2 DEF Scaled
  <2>2. MaxGross \in Int
    BY ReplayAssumption
  <2>3. Gross(t) \in Int
    BY GrossIs, Zenon
  <2> QED
    BY <1>2, <2>1, <2>2, <2>3
<1> QED
  BY <1>1, <1>2

LEMMA FlatScaled == IsSeries(Flat) /\ Gross(Flat) <= MaxGross
<1> DEFINE z == [s \in DOMAIN Flat |-> Size(Flat[s])]
<1>1. z = [s \in {} |-> 0] /\ IsFiniteSet({})
  BY FlatIs, FS_EmptySet
<1>2. Gross(Flat) = SumOf(z)
  BY FlatIs, GrossIs
<1> HIDE DEF z
<1>3. SumOf(z) = 0
  BY <1>1, SumOfZeros
<1> QED
  BY <1>2, <1>3, FlatIs, ReplayAssumption

\* What a name becomes at the open: on the side of its target, and worth no
\* more than the target's part of the equity.
LEMMA TargetIs ==
  ASSUME pending # None, IsSeries(pending), NEW s \in Symbols, NEW equity \in Int, NEW px \in Nat \ {0}
  PROVE  LET q == target_qty(s, equity, px)
             part == IF s \in DOMAIN pending THEN pending[s] ELSE 0
         IN  /\ q \in Int
             /\ Unit * (Size(q) * px) <= Size(equity) * Size(part)
             /\ q # 0 /\ equity > 0 => s \in DOMAIN pending /\ ~Opposite(q, pending[s])
<1> DEFINE q == target_qty(s, equity, px)
           part == IF s \in DOMAIN pending THEN pending[s] ELSE 0
<1>1. part \in Int
  BY DEF IsSeries
<1>2. PICK n \in Int, d \in Nat \ {0} : n = equity * part /\ d = px * Unit
  <2>1. \A i, j \in Nat \ {0} : i * j \in Nat \ {0}
    OBVIOUS
  <2>2. px * Unit \in Nat \ {0}
    BY <2>1, TargetsAssumption
  <2>3. equity * part \in Int
    BY <1>1
  <2> QED
    BY <2>2, <2>3
<1>3. q = Truncated(n, d)
  BY <1>2 DEF target_qty
<1>4. part # 0 => s \in DOMAIN pending /\ part = pending[s]
  OBVIOUS
<1> HIDE DEF q, part
<1>5. q \in Int /\ Size(q) * d <= Size(n) /\ (q > 0 => n > 0) /\ (q < 0 => n < 0)
  BY <1>3, TruncatedIs
<1>6. Size(n) = Size(equity) * Size(part)
  <2>1. \A i, j \in Int : Size(i * j) = Size(i) * Size(j)
    <3> SUFFICES ASSUME NEW i \in Int, NEW j \in Int PROVE Size(i * j) = Size(i) * Size(j)
        OBVIOUS
    <3>1. CASE i >= 0 /\ j >= 0
      BY <3>1 DEF Size
    <3>2. CASE i >= 0 /\ j < 0
      <4>1. i * j = -(i * (-j)) /\ i * (-j) >= 0 /\ (i * j < 0 \/ i * j = 0)
        BY <3>2
      <4> QED
        BY <3>2, <4>1 DEF Size
    <3>3. CASE i < 0 /\ j >= 0
      <4>1. i * j = -((-i) * j) /\ (-i) * j >= 0 /\ (i * j < 0 \/ i * j = 0)
        BY <3>3
      <4> QED
        BY <3>3, <4>1 DEF Size
    <3>4. CASE i < 0 /\ j < 0
      <4>1. i * j = (-i) * (-j) /\ i * j >= 0
        BY <3>4
      <4> QED
        BY <3>4, <4>1 DEF Size
    <3> QED
      BY <3>1, <3>2, <3>3, <3>4
  <2> QED
    BY <1>1, <1>2, <2>1
<1>7. Unit * (Size(q) * px) = Size(q) * d
  <2>1. Size(q) \in Int /\ Unit \in Int
    BY <1>5, TargetsAssumption DEF Size
  <2> QED
    BY <1>2, <2>1
<1>8. ASSUME q # 0, equity > 0 PROVE s \in DOMAIN pending /\ ~Opposite(q, pending[s])
  <2>1. \A i, j \in Int : i > 0 => (i * j > 0 => j > 0) /\ (i * j < 0 => j < 0)
    OBVIOUS
  <2>2. (q > 0 => part > 0) /\ (q < 0 => part < 0)
    BY <1>1, <1>2, <1>5, <1>8, <2>1
  <2>3. part # 0
    BY <1>5, <1>8, <2>2
  <2>4. s \in DOMAIN pending /\ part = pending[s]
    BY <1>4, <2>3
  <2>5. ~Opposite(q, part)
    BY <1>1, <1>5, <1>8, <2>2 DEF Opposite
  <2> QED
    BY <2>4, <2>5
<1> QED
  BY <1>5, <1>6, <1>7, <1>8 DEF q, part

LEMMA ValueType ==
  ASSUME Replayed, NEW prices \in [Symbols -> Int]
  PROVE  Value(prices) \in Int
<1> DEFINE f == [s \in Held |-> qty[s] * prices[s]]
<1>1. Held \in SUBSET Symbols /\ f \in [Held -> Int]
  BY DEF Held, Replayed
<1>2. Value(prices) = cash + Total(f)
  BY DEF Value
<1> HIDE DEF f
<1>3. Total(f) \in Int
  BY <1>1, FinitePart, SumType, TotalIsSum
<1> QED
  BY <1>2, <1>3 DEF Replayed

LEMMA AtOpenType ==
  ASSUME Replayed, NEW b \in Tapes
  PROVE  AtOpen(b) \in [Symbols -> Int] /\ b \in [Symbols -> [open : Int, close : Int]]
<1>1. b \in [Symbols -> [open : Int, close : Int]]
  <2>1. NoBar \in [open : Int, close : Int]
    BY DEF NoBar
  <2>2. [open : Nat, close : Nat] \subseteq [open : Int, close : Int]
    OBVIOUS
  <2> QED
    BY <2>1, <2>2, ReplayAssumption
<1>2. \A s \in Symbols : b[s].open \in Int
  BY <1>1
<1> QED
  BY <1>1, <1>2 DEF AtOpen, Replayed

\* Numbers of which each is no more than the equity's part sum up to no more
\* than the gross of the parts.
LEMMA SumsWithin ==
  ASSUME NEW t, IsSeries(t), NEW O \in SUBSET Symbols, NEW worth \in [O -> Int], NEW e \in Nat,
         \A s \in O : Unit * worth[s] <= e * Size(IF s \in DOMAIN t THEN t[s] ELSE 0)
  PROVE  Unit * Total(worth) <= e * Gross(t)
<1> DEFINE size(s) == Size(IF s \in DOMAIN t THEN t[s] ELSE 0)
           F == [s \in Symbols |-> IF s \in O THEN Unit * worth[s] ELSE 0]
           W == [s \in Symbols |-> size(s)]
           H == [s \in Symbols |-> e * W[s]]
           V == [s \in O |-> Unit * worth[s]]
           Z == [s \in DOMAIN t |-> Size(t[s])]
<1>1. /\ IsFiniteSet(Symbols) /\ IsFiniteSet(O) /\ Unit \in Nat /\ DOMAIN t \in SUBSET Symbols
      /\ \A s \in DOMAIN t : t[s] \in Int
  BY FinitePart, TargetsAssumption DEF IsSeries
<1>2. W \in [Symbols -> Int] /\ (\A s \in Symbols : W[s] = size(s) /\ W[s] >= 0)
  BY <1>1 DEF Size
<1>3. (\A s \in Symbols \ DOMAIN t : W[s] = 0) /\ \A s \in DOMAIN t : W[s] = Size(t[s])
  BY <1>1 DEF Size
<1>4. SumOf(W) = Gross(t)
  <2>1. SumOf(W) = SumOf([s \in DOMAIN t |-> W[s]])
    BY <1>1, <1>2, <1>3, SumOnPart
  <2>2. [s \in DOMAIN t |-> W[s]] = Z
    BY <1>3
  <2>3. Gross(t) = SumOf(Z)
    BY GrossIs
  <2> HIDE DEF W, Z
  <2> QED
    BY <2>1, <2>2, <2>3
<1> HIDE DEF W, Z
<1>5. H \in [Symbols -> Int] /\ \A s \in Symbols : H[s] = e * W[s]
  BY <1>2
<1>6. SumOf(H) = e * SumOf(W)
  BY <1>1, <1>2, SumScaled
<1>7. V \in [O -> Int] /\ SumOf(V) = Unit * SumOf(worth)
  <2>1. V \in [O -> Int]
    BY <1>1
  <2>2. Unit \in Int
    BY <1>1
  <2>3. SumOf(V) = Unit * SumOf(worth)
    BY <1>1, <2>2, SumScaled
  <2> QED
    BY <2>1, <2>3
<1>8. /\ F \in [Symbols -> Int] /\ (\A s \in Symbols \ O : F[s] = 0) /\ [s \in O |-> F[s]] = V
      /\ \A s \in O : F[s] = Unit * worth[s]
  BY <1>1
<1> HIDE DEF F, H, V
<1>9. SumOf(F) = SumOf(V)
  BY <1>1, <1>8, SumOnPart
<1>10. \A s \in Symbols : F[s] <= H[s]
  <2>1. \A i \in Int : i >= 0 => e * i >= 0 /\ e * i \in Int
    OBVIOUS
  <2>2. \A s \in O : F[s] <= H[s]
    BY <1>2, <1>5, <1>8
  <2>3. \A s \in Symbols \ O : F[s] <= H[s]
    BY <1>2, <1>5, <1>8, <2>1
  <2> QED
    BY <2>2, <2>3
<1>11. SumOf(F) <= SumOf(H)
  BY <1>1, <1>5, <1>8, <1>10, SumMonotone
<1> QED
  BY <1>4, <1>6, <1>7, <1>9, <1>11, TotalIsSum

LEMMA SlippageIs == SlippageBps \in Int
  BY ReplayAssumption

LEMMA SpentType ==
  ASSUME Replayed, NEW b \in [Symbols -> [open : Int, close : Int]], NEW new \in [Symbols -> Int]
  PROVE  Total([s \in {x \in Symbols : new[x] # qty[x]} |->
                  (new[s] - qty[s]) * Paid(b[s].open, new[s] - qty[s])]) \in Int
<1> DEFINE S == {x \in Symbols : new[x] # qty[x]}
           f == [s \in S |-> (new[s] - qty[s]) * Paid(b[s].open, new[s] - qty[s])]
<1>1. \A px \in Int, delta \in Int : Paid(px, delta) \in Int
  <2>1. \A k \in Int : k \div 10000 \in Int
    OBVIOUS
  <2>2. SlippageBps \in Int
    BY SlippageIs
  <2>3. SUFFICES ASSUME NEW px \in Int, NEW delta \in Int PROVE Paid(px, delta) \in Int
    OBVIOUS
  <2>4. PICK k \in Int : k = (IF delta > 0 THEN 1 ELSE -1) * px * SlippageBps
    BY <2>2
  <2>5. Paid(px, delta) = px + k \div 10000
    BY <2>4 DEF Paid
  <2> QED
    BY <2>1, <2>5
<1>2. \A s \in S : new[s] - qty[s] \in Int /\ b[s].open \in Int
  BY DEF Replayed
<1>3. \A s \in S : (new[s] - qty[s]) * Paid(b[s].open, new[s] - qty[s]) \in Int
  <2> TAKE s \in S
  <2>1. PICK delta \in Int, px \in Int : delta = new[s] - qty[s] /\ px = b[s].open
    BY <1>2
  <2>2. PICK paid \in Int : paid = Paid(px, delta)
    BY <1>1
  <2>3. delta * paid \in Int
    OBVIOUS
  <2> QED
    BY <2>1, <2>2, <2>3
<1>4. S \in SUBSET Symbols /\ f \in [S -> Int]
  BY <1>3
<1> HIDE DEF S, f
<1>5. Total(f) \in Int
  BY <1>4, FinitePart, SumType, TotalIsSum
<1> QED
  BY <1>5 DEF S, f

\* The rebalance itself.
LEMMA FillFollows ==
  ASSUME Replayed, pending # None, NEW b \in Tapes, Fill(b), bars' = b
  PROVE  /\ qty' \in [Symbols -> Int] /\ cash' \in Int
         /\ BookFollows' /\ WithinGross'
<1> DEFINE base == Value(AtOpen(b))
           new == [s \in Symbols |-> IF s \in Traded(b) THEN target_qty(s, base, b[s].open) ELSE qty[s]]
           part(s) == IF s \in DOMAIN pending THEN pending[s] ELSE 0
<1>1. PICK e \in Int : e = base
  BY AtOpenType, ValueType
<1>2. b \in [Symbols -> [open : Int, close : Int]] /\ IsSeries(pending) /\ Gross(pending) <= MaxGross
  BY AtOpenType DEF Replayed
<1>3. /\ qty' = [s \in Symbols |-> IF s \in Traded(b) THEN target_qty(s, e, b[s].open) ELSE qty[s]]
      /\ applied' = pending /\ eq_open' = e
  BY <1>1 DEF Fill
<1>4. Opened(b) \in SUBSET Symbols /\ \A s \in Opened(b) : b[s].open \in Nat \ {0}
  BY <1>2 DEF Opened
<1>5. Traded(b) \subseteq Opened(b) /\ \A s \in Opened(b) : qty[s] # 0 => s \in Traded(b)
  BY <1>4 DEF Traded, Held
<1>6. ASSUME NEW s \in Opened(b)
      PROVE  /\ qty'[s] \in Int
             /\ Unit * (Size(qty'[s]) * b[s].open) <= Size(e) * Size(part(s))
             /\ qty'[s] # 0 /\ e > 0 => s \in DOMAIN pending /\ ~Opposite(qty'[s], pending[s])
  <2>1. s \in Symbols /\ b[s].open \in Nat \ {0}
    BY <1>4
  <2>2. PICK px \in Nat \ {0} : px = b[s].open
    BY <2>1
  <2>3. CASE s \in Traded(b)
    <3>1. qty'[s] = target_qty(s, e, px)
      BY <1>3, <2>1, <2>2, <2>3
    <3> QED
      BY <1>2, <2>1, <2>2, <3>1, TargetIs
  <2>4. CASE s \notin Traded(b)
    <3>1. qty'[s] = 0
      BY <1>3, <1>5, <2>1, <2>4
    <3>2. Size(0) = 0 /\ part(s) \in Int
      BY <1>2 DEF Size, IsSeries
    <3> HIDE DEF part
    <3>3. Size(e) \in Nat /\ Size(part(s)) \in Nat
      BY <3>2 DEF Size
    <3>4. Size(e) * Size(part(s)) >= 0
      BY <3>3
    <3>5. Unit * (Size(qty'[s]) * b[s].open) = 0
      BY <2>1, <3>1, <3>2, TargetsAssumption
    <3> QED
      BY <3>1, <3>4, <3>5
  <2> QED
    BY <2>3, <2>4
<1>7. qty' \in [Symbols -> Int]
  <2>1. \A s \in Symbols : qty'[s] \in Int
    <3> TAKE s \in Symbols
    <3>1. CASE s \in Opened(b)
      BY <1>6, <3>1
    <3>2. CASE s \notin Opened(b)
      BY <1>3, <1>5, <3>2 DEF Replayed
    <3> QED
      BY <3>1, <3>2
  <2> QED
    BY <1>3, <2>1
<1>8. cash' \in Int
  <2>1. PICK n : n = new
    OBVIOUS
  <2>2. qty' = n /\ n \in [Symbols -> Int]
    BY <1>7, <2>1 DEF Fill
  <2>3. cash' = cash - Total([s \in {x \in Symbols : n[x] # qty[x]} |->
                                (n[s] - qty[s]) * Paid(b[s].open, n[s] - qty[s])])
    BY <2>1 DEF Fill
  <2>4. Total([s \in {x \in Symbols : n[x] # qty[x]} |->
                 (n[s] - qty[s]) * Paid(b[s].open, n[s] - qty[s])]) \in Int
    BY <1>2, <2>2, SpentType
  <2> QED
    BY <2>3, <2>4 DEF Replayed
<1>9. BookFollows'
  BY <1>3, <1>6 DEF BookFollows, Held, Opened
<1>10. WithinGross'
  <2> DEFINE worth == [s \in Opened(b) |-> Size(qty'[s]) * b[s].open]
  <2>1. worth \in [Opened(b) -> Int] /\ \A s \in Opened(b) : worth[s] = Size(qty'[s]) * b[s].open
    BY <1>4, <1>6 DEF Size
  <2>2. Size(e) \in Nat
    BY DEF Size
  <2>3. \A s \in Opened(b) : Unit * worth[s] <= Size(e) * Size(IF s \in DOMAIN pending THEN pending[s] ELSE 0)
    BY <1>6, <2>1
  <2> HIDE DEF worth
  <2>4. Unit * Total(worth) <= Size(e) * Gross(pending)
    BY <1>2, <1>4, <2>1, <2>2, <2>3, SumsWithin
  <2>5. Gross(pending) \in Int /\ MaxGross \in Int
    <3>1. Gross(pending) \in Int
      BY <1>2, GrossIs, Zenon
    <3>2. MaxGross \in Int
      BY ReplayAssumption
    <3> QED
      BY <3>1, <3>2
  <2>6. \A i \in Nat, j, k \in Int : j <= k => i * j <= k * i
    OBVIOUS
  <2>7. Size(e) * Gross(pending) <= MaxGross * Size(e)
    BY <1>2, <2>2, <2>5, <2>6
  <2>8. Total(worth) \in Int
    BY <1>4, <2>1, FinitePart, SumType, TotalIsSum
  <2>9. Unit * Total(worth) <= MaxGross * Size(e)
    <3>1. Unit * Total(worth) \in Int /\ Size(e) * Gross(pending) \in Int /\ MaxGross * Size(e) \in Int
      BY <2>2, <2>5, <2>8, TargetsAssumption
    <3> QED
      BY <2>4, <2>7, <3>1
  <2> QED
    BY <1>3, <2>9 DEF WithinGross, Opened, worth
<1> QED
  BY <1>7, <1>8, <1>9, <1>10

LEMMA OpenKeeps == ASSUME RInv, Open PROVE RInv'
<1>1. PICK b \in Tapes : /\ bars' = b
                         /\ marks' = [s \in Symbols |-> IF b[s] = NoBar THEN marks[s] ELSE b[s].close]
                         /\ IF pending = None THEN UNCHANGED << book, pending, applied, eq_open, trades >> ELSE Fill(b)
  BY DEF Open
<1>2. /\ strategy' \in Strategies /\ stage = "open" /\ stage' = "close" /\ last_w' \in Int /\ applied = None
  BY DEF Open, RInv, Replayed
<1>3. marks' \in [Symbols -> Int]
  <2>1. \A s \in Symbols : b[s].close \in Int
    BY AtOpenType DEF RInv
  <2> QED
    BY <1>1, <2>1 DEF RInv, Replayed
<1>4. CASE pending = None
  <2>1. applied' = None /\ pending' = None /\ qty' \in [Symbols -> Int] /\ cash' \in Int
    BY <1>1, <1>2, <1>4 DEF book, RInv, Replayed
  <2>2. BookFollows' /\ WithinGross'
    BY <2>1 DEF BookFollows, WithinGross, None
  <2> QED
    BY <1>2, <1>3, <2>1, <2>2 DEF RInv, Replayed, None
<1>5. CASE pending # None
  <2>1. Fill(b)
    BY <1>1, <1>5
  <2>2. qty' \in [Symbols -> Int] /\ cash' \in Int /\ BookFollows' /\ WithinGross'
    BY <1>1, <1>5, <2>1, FillFollows DEF RInv
  <2>3. pending' = None
    BY <2>1 DEF Fill
  <2> QED
    BY <1>2, <1>3, <2>2, <2>3 DEF RInv, Replayed, None
<1> QED
  BY <1>4, <1>5

LEMMA TargetsAre ==
  ASSUME Replayed, NEW w \in Windows[strategy.kind], NEW t \in targets(strategy, w, last_w)
  PROVE  IsSeries(t) /\ Remembered(t) \in Int
<1>1. PICK p : p = strategy
  OBVIOUS
<1>2. PICK last \in Int : last = last_w
  BY DEF Replayed
<1>3. AreParameters(p) /\ p.kind \in DOMAIN Reads
  <2>1. AreParameters(p)
    BY <1>1, ReplayAssumption DEF Replayed
  <2> QED
    BY <2>1 DEF AreParameters, Reads
<1>4. IsWindow(p.kind, w)
  BY <1>1, <1>3, ReplayAssumption
<1>5. IsSeries(t)
  BY <1>1, <1>2, <1>3, <1>4, TargetsGood DEF Good
<1>6. CASE p.kind = "vol_targeting" /\ t # Flat
  <2>1. /\ p.symbol \in Symbols /\ p.target_vol \in Nat /\ p.max_leverage \in Nat
        /\ IsSeries(w.vol) /\ \A s \in DOMAIN w.vol : w.vol[s] >= 0
        /\ t = VolTargeting(p, w, last)
    BY <1>1, <1>2, <1>3, <1>4, <1>6 DEF AreParameters, IsWindow, Reads, targets
  <2>2. OneName(p.symbol, t)
    BY <1>6, <2>1, VolTargetingIs
  <2>3. t[p.symbol] \in Int
    BY <2>2 DEF OneName
  <2> QED
    BY <1>1, <1>5, <1>6, <2>3 DEF Remembered
<1>7. CASE ~(p.kind = "vol_targeting" /\ t # Flat)
  BY <1>1, <1>5, <1>7 DEF Remembered, Replayed
<1> QED
  BY <1>6, <1>7

LEMMA CloseKeeps == ASSUME RInv, Close PROVE RInv'
<1>1. /\ strategy' \in Strategies /\ stage' = "open" /\ applied' = None
      /\ qty' \in [Symbols -> Int] /\ cash' \in Int /\ marks' \in [Symbols -> Int]
  BY DEF Close, book, RInv, Replayed
<1>2. BookFollows' /\ WithinGross'
  BY <1>1 DEF BookFollows, WithinGross, None
<1>3. last_w' \in Int /\ (pending' # None => IsSeries(pending') /\ Gross(pending') <= MaxGross)
  <2>1. CASE UNCHANGED << pending, last_w >>
    BY <2>1 DEF RInv, Replayed, Gross, None
  <2>2. CASE pending' = Flat /\ UNCHANGED last_w
    BY <2>2, FlatScaled DEF RInv, Replayed
  <2>3. ASSUME NEW w \in Windows[strategy.kind], NEW t \in targets(strategy, w, last_w),
               pending' = Scaled(t), last_w' = Remembered(t)
        PROVE  last_w' \in Int /\ IsSeries(pending') /\ Gross(pending') <= MaxGross
    <3>1. IsSeries(t) /\ Remembered(t) \in Int
      BY TargetsAre DEF RInv
    <3>2. PICK r : r = Scaled(t)
      OBVIOUS
    <3>3. IsSeries(r) /\ Gross(r) <= MaxGross
      BY <3>1, <3>2, ScaledIs
    <3> QED
      BY <2>3, <3>1, <3>2, <3>3
  <2> QED
    BY <2>1, <2>2, <2>3 DEF Close, Decide
<1> QED
  BY <1>1, <1>2, <1>3 DEF RInv, Replayed, None

LEMMA ReplayInit == Init => RInv
<1> SUFFICES ASSUME Init PROVE RInv
    OBVIOUS
<1>1. Replayed
  BY ReplayAssumption DEF Init, Replayed, Nobody, None
<1> QED
  BY <1>1 DEF Init, RInv, BookFollows, WithinGross, None

LEMMA ReplayStep == RInv /\ [Next]_vars => RInv'
<1> SUFFICES ASSUME RInv, [Next]_vars PROVE RInv'
    OBVIOUS
<1>1. CASE Open
  BY <1>1, OpenKeeps
<1>2. CASE Close
  BY <1>2, CloseKeeps
<1>3. CASE UNCHANGED vars
  BY <1>3 DEF vars, book, RInv, Replayed, BookFollows, WithinGross, Held, Opened, Gross, None
<1> QED
  BY <1>1, <1>2, <1>3 DEF Next

LEMMA ReplayHolds == Spec => []RInv
<1> QED
  BY ReplayInit, ReplayStep, PTL DEF Spec

(* run_daily: after a rebalance of an account above zero, a held name that *)
(* opened has a target and is not on its other side.                       *)
THEOREM FollowsTargets == Spec => []BookFollows
<1>1. RInv => BookFollows
  BY DEF RInv
<1> QED
  BY <1>1, ReplayHolds, PTL

(* run_daily: what is held after a rebalance is worth, at its open prices, *)
(* no more than max_gross times the equity it was taken of.                *)
THEOREM GrossKept == Spec => []WithinGross
<1>1. RInv => WithinGross
  BY DEF RInv
<1> QED
  BY <1>1, ReplayHolds, PTL

(* The thirteen rules of daily/strategies.py: of two names it promises an  *)
(* order of (Comparable), none buys one that it ranks below, by every      *)
(* count, one it shorts, whatever names have holes or equal scores.  Not   *)
(* compared are a filtered rotation of fewer than 2 * top_n names and      *)
(* names of a combination that miss one of its scores.                     *)
THEOREM RulesSided == Spec => []RightSide
<1>1. RInv => RightSide
  <2> SUFFICES ASSUME Replayed, NEW w \in Histories[strategy.kind], NEW t \in targets(strategy, w, last_w)
               PROVE  Sides(strategy, w, t)
      BY DEF RInv, RightSide, Sides
  <2>1. PICK p \in Strategies, last \in Int : p = strategy /\ last = last_w
    BY DEF Replayed
  <2>2. AreParameters(p)
    BY <2>1, ReplayAssumption DEF Replayed
  <2>3. p.kind \in DOMAIN Reads
    BY <2>2 DEF AreParameters, Reads
  <2>4. IsWindow(p.kind, w)
    BY <2>1, <2>3, ReplayAssumption
  <2> QED
    BY <2>1, <2>2, <2>4, TargetsGood DEF Good
<1> QED
  BY <1>1, ReplayHolds, PTL
=============================================================================
