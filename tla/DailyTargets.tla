---------------------------- MODULE DailyTargets ----------------------------
(***************************************************************************)
(* daily/strategies.py: the portfolio rules, from a window of history to   *)
(* target weights.                                                         *)
(*                                                                         *)
(* A weight is in parts of Unit, negative for short, and a result without  *)
(* a name is out of the market.  What pandas computes from the prices (a   *)
(* return, a volatility, a sum of residuals) is a number of the window, a  *)
(* function of the names that have one: a name with a hole in its history  *)
(* is not in its domain.  Names with equal scores come in any order, so a  *)
(* rule gives the set of its possible results.                             *)
(***************************************************************************)
EXTENDS Integers, Sequences, SequencesExt, FiniteSetsExt

CONSTANTS Symbols, Unit

ASSUME TargetsAssumption == IsFiniteSet(Symbols) /\ Unit \in Nat \ {0}

\* A number for some of the names: scores, weights.
IsSeries(f) ==
  /\ DOMAIN f \subseteq Symbols /\ f = [s \in DOMAIN f |-> f[s]]
  /\ \A s \in DOMAIN f : f[s] \in Int

Flat == << >>
Card(f) == Cardinality(DOMAIN f)
Total(f) == FoldFunction(LAMBDA x, y : x + y, 0, f)
Minus(f) == [s \in DOMAIN f |-> -f[s]]
OnlyOn(f, S) == [s \in DOMAIN f \cap S |-> f[s]]
Larger(x, y) == IF x > y THEN x ELSE y
Lesser(x, y) == IF x < y THEN x ELSE y
Size(x) == IF x < 0 THEN -x ELSE x

\* Both int() and the parts of a weight drop the fraction, whatever the sign.
Truncated(n, d) == IF n < 0 THEN -((-n) \div d) ELSE n \div d

Ranked(score) ==
  { q \in SetToSeqs(DOMAIN score) :
      \A i, j \in DOMAIN q : i < j => score[q[i]] >= score[q[j]] }

Best(q, n) == Range(SubSeq(q, 1, Lesser(n, Len(q))))
Worst(q, n) == Range(SubSeq(q, Larger(1, Len(q) - n + 1), Len(q)))

\* int(n * fraction), one at least; fraction is in tenths.
Share(n, p) == Larger(1, (n * p.fraction) \div 10)

EqualWeights(longs, shorts) ==
  LET weight == Unit \div (Cardinality(longs) + Cardinality(shorts))
  IN  [s \in longs \cup shorts |-> IF s \in longs THEN weight ELSE -weight]

_long_short(ranked, p) ==
  LET n == Share(Len(ranked), p)
  IN  IF Len(ranked) < 3 THEN Flat
      ELSE EqualWeights(Best(ranked, n), IF p.allow_short THEN Worst(ranked, n) ELSE {})

LongShort(score, p) == { _long_short(q, p) : q \in Ranked(score) }

_window_returns(w, lookback) == IF w.rows < lookback THEN Flat ELSE w.ret

\* From the mean, times the number of names.
Deviation(r) == [s \in DOMAIN r |-> Card(r) * r[s] - Total(r)]

----------------------------------------------------------------------------
(* Momentum                                                                *)

PriceMomentum(p, w) ==
  IF w.rows < p.formation_days + p.skip_days THEN {Flat} ELSE LongShort(w.ret, p)

ResidualMomentum(p, w) ==
  IF ~w.bench THEN {Flat}
  ELSE LongShort(IF w.rows < p.formation_days + 1 THEN Flat ELSE w.resid, p)

----------------------------------------------------------------------------
(* Mean reversion                                                          *)

Proportional(dev, allow_short) ==
  LET used  == OnlyOn(dev, { s \in DOMAIN dev : dev[s] < 0 \/ (allow_short /\ dev[s] > 0) })
      total == Total([s \in DOMAIN used |-> Size(used[s])])
  IN  [s \in DOMAIN used |-> Truncated(-used[s] * Unit, total)]

MeanReversion(p, w) ==
  LET r == _window_returns(w, p.lookback_days) IN
  IF Card(r) < 3 THEN {Flat}
  ELSE IF p.weighting = "proportional" THEN {Proportional(Deviation(r), p.allow_short)}
  ELSE LongShort(Minus(r), p)

_cluster(p, s) ==
  IF \E c \in DOMAIN p.clusters : s \in p.clusters[c]
  THEN CHOOSE c \in DOMAIN p.clusters : s \in p.clusters[c]
  ELSE "other"

\* The groups of two or more, each ranked by itself, where deviations are in the
\* order of returns.
Groups(p, r) ==
  LET ranks(c) == Ranked(Minus(OnlyOn(r, { s \in DOMAIN r : _cluster(p, s) = c })))
      clusters == { _cluster(p, s) : s \in DOMAIN r }
      ranked   == { f \in [clusters -> UNION { ranks(c) : c \in clusters }] :
                      \A c \in clusters : f[c] \in ranks(c) }
  IN  { { g \in Range(f) : Len(g) >= 2 } : f \in ranked }

OfClusters(p, traded) ==
  LET longs  == UNION { Best(g, Share(Len(g), p)) : g \in traded }
      shorts == IF p.allow_short THEN (UNION { Worst(g, Share(Len(g), p)) : g \in traded }) \ longs ELSE {}
  IN  IF longs \cup shorts = {} THEN Flat ELSE EqualWeights(longs, shorts)

MeanReversionMulti(p, w) ==
  LET r == _window_returns(w, p.lookback_days)
  IN  IF Card(r) < 3 THEN {Flat} ELSE { OfClusters(p, g) : g \in Groups(p, r) }

\* One over the volatility, times the product of all.
Reciprocal(vol) ==
  LET product == FoldFunction(LAMBDA x, y : x * y, 1, vol)
  IN  [s \in DOMAIN vol |-> product \div vol[s]]

WeightedDeviation(p, w) ==
  LET all == _window_returns(w, p.lookback_days)
      ok  == { s \in DOMAIN all \cap DOMAIN w.vol : w.vol[s] > 0 }
      dev == Deviation(OnlyOn(all, ok))
      inv == Reciprocal(OnlyOn(w.vol, ok))
  IN  [s \in ok |-> dev[s] * inv[s]]

InverseWeights(inv, longs, shorts) ==
  LET total == Total(OnlyOn(inv, longs \cup shorts))
  IN  [s \in longs \cup shorts |-> (IF s \in longs THEN 1 ELSE -1) * ((inv[s] * Unit) \div total)]

MeanReversionWeighted(p, w) ==
  LET wdev == WeightedDeviation(p, w)
      n    == Share(Card(wdev), p)
      inv  == Reciprocal(OnlyOn(w.vol, DOMAIN wdev))
  IN  IF Card(wdev) < 3 THEN {Flat}
      ELSE { InverseWeights(inv, Best(q, n), IF p.allow_short THEN Worst(q, n) \ Best(q, n) ELSE {}) :
               q \in Ranked(Minus(wdev)) }

----------------------------------------------------------------------------
(* Several scores                                                          *)

\* The scale of a z-score is left out: the standard deviation is positive.
_zscore(f) == Deviation(f)

AlphaCombo(p, w) ==
  LET zs == (IF w.rows >= p.momentum_days + p.momentum_skip THEN << _zscore(w.ret) >> ELSE << >>)
            \o (IF w.rows >= p.reversal_days + 1 THEN << _zscore(Minus(w.rev)) >> ELSE << >>)
            \o (IF w.rows >= p.vol_days THEN << _zscore(Minus(w.vol)) >> ELSE << >>)
      having(s) == { i \in DOMAIN zs : s \in DOMAIN zs[i] }
      \* the mean of those a name has, times six
      composite == [s \in UNION { DOMAIN zs[i] : i \in DOMAIN zs } |->
                      (6 * Total([i \in having(s) |-> zs[i][s]])) \div Cardinality(having(s))]
  IN  IF zs = << >> THEN {Flat} ELSE LongShort(composite, p)

\* Mutant: the ranking is not turned round.
LowVolatility_Highest(p, w) ==
  IF w.rows < p.vol_days THEN {Flat}
  ELSE LongShort(OnlyOn(w.vol, { s \in DOMAIN w.vol : w.vol[s] > 0 }), p)

LowVolatility(p, w) ==
  IF w.rows < p.vol_days THEN {Flat}
  ELSE LongShort(Minus(OnlyOn(w.vol, { s \in DOMAIN w.vol : w.vol[s] > 0 })), p)

\* pandas' rank, the mean of the places of equal values, doubled.
Ranks(f) ==
  [s \in DOMAIN f |-> Cardinality({ t \in DOMAIN f : f[t] < f[s] })
                      + Cardinality({ t \in DOMAIN f : f[t] <= f[s] }) + 1]

Multifactor(p, w) ==
  LET common == DOMAIN w.ret \cap DOMAIN w.vol
      mom    == Ranks(OnlyOn(w.ret, common))
      calm   == Ranks(Minus(OnlyOn(w.vol, common)))
  IN  IF w.rows < Larger(p.formation_days + p.skip_days, p.vol_days) \/ Cardinality(common) < 3 THEN {Flat}
      ELSE LongShort([s \in common |-> mom[s] + calm[s]], p)

----------------------------------------------------------------------------
(* Sectors, asset classes and single funds                                 *)

\* The shorts are the last of the ranking whatever the filter has left of the first.
Rotation(p, w, ranked) ==
  LET first  == Best(ranked, p.top_n)
      longs  == IF p.ma_filter THEN first \cap w.above ELSE first
      shorts == IF p.allow_short THEN Worst(ranked, p.top_n) \ longs ELSE {}
  IN  IF longs \cup shorts = {} THEN Flat ELSE EqualWeights(longs, shorts)

SectorRotation(p, w) ==
  LET mom == _window_returns(w, p.formation_days)
  IN  IF p.dual_momentum /\ ~w.bull THEN {[s \in {p.defensive} \cap Symbols |-> Unit]}
      ELSE IF Card(mom) < 2 THEN {Flat}
      ELSE { Rotation(p, w, q) : q \in Ranked(mom) }

\* The momentum over the volatility or over the variance; 4 makes it whole.
Raw(p, w, keep) ==
  LET usable == { s \in keep \cap DOMAIN w.vol : w.vol[s] > 0 } IN
  CASE p.weighting = "equal" -> [s \in keep |-> 1]
    [] p.weighting = "mom" -> OnlyOn(w.ret, keep)
    [] p.weighting = "mom_over_vol" -> [s \in usable |-> (4 * w.ret[s]) \div w.vol[s]]
    [] p.weighting = "mom_over_var" -> [s \in usable |-> (4 * w.ret[s]) \div (w.vol[s] * w.vol[s])]

MultiAssetTrend(p, w) ==
  LET mom  == _window_returns(w, p.formation_days)
      keep == { s \in DOMAIN mom : mom[s] > 0 /\ (p.ma_filter => s \in w.above) }
      raw  == Raw(p, w, keep)
  IN  IF Total(raw) <= 0 THEN {Flat}
      ELSE {[s \in DOMAIN raw |-> Lesser((raw[s] * Unit) \div Total(raw), p.max_weight)]}

IbsMeanReversion(p, w) == LongShort(Minus(w.ibs), p)

\* last is the weight given last, None (0) before the first.
VolTargeting(p, w, last) ==
  LET target == Lesser(p.max_leverage, (p.target_vol * Unit) \div w.vol[p.symbol])
      near   == last > 0 /\ Size(target - last) * 100 < p.rebalance_threshold * last
  IN  IF w.rows < p.vol_days + 1 \/ p.symbol \notin DOMAIN w.vol \/ w.vol[p.symbol] = 0 THEN Flat
      ELSE [s \in {p.symbol} |-> IF near THEN last ELSE target]

\* An average over more closes than there are is no number, and no comparison with it holds.
Over(average, m, n) == m \in DOMAIN average /\ n \in DOMAIN average /\ average[m] > average[n]

MovingAverageRule(p, w) ==
  LET long  == Over(w.average, p.fast, p.slow) /\ (p.third > 0 => Over(w.average, p.slow, p.third))
      short == Over(w.average, p.slow, p.fast) /\ (p.third > 0 => Over(w.average, p.third, p.slow))
  IN  IF w.rows < Larger(p.slow, p.third) THEN Flat
      ELSE IF long THEN [s \in {p.symbol} |-> Unit]
      ELSE IF short /\ p.allow_short THEN [s \in {p.symbol} |-> -Unit]
      ELSE Flat

\* What a rule looks up in its window by name.
Reads == [
  price_momentum |-> {"ret"}, residual_momentum |-> {"resid"}, mean_reversion |-> {"ret"},
  mean_reversion_multi |-> {"ret"}, mean_reversion_weighted |-> {"ret", "vol"},
  alpha_combo |-> {"ret", "rev", "vol"}, low_volatility |-> {"vol"}, multifactor |-> {"ret", "vol"},
  sector_rotation |-> {"ret"}, multi_asset_trend |-> {"ret", "vol"}, ibs_mean_reversion |-> {"ibs"},
  vol_targeting |-> {"vol"}, ma_rule |-> {}]

IsWindow(kind, w) ==
  /\ \A field \in Reads[kind] : IsSeries(w[field])
  /\ "vol" \in Reads[kind] => \A s \in DOMAIN w.vol : w.vol[s] >= 0

\* The bounds of the parameters, as far as a result depends on them.
AreParameters(p) ==
  CASE p.kind = "sector_rotation" -> p.top_n \in Nat \ {0}
    [] p.kind = "multi_asset_trend" ->
         p.max_weight \in Nat /\ p.weighting \in {"equal", "mom", "mom_over_vol", "mom_over_var"}
    [] p.kind = "vol_targeting" -> p.symbol \in Symbols /\ p.target_vol \in Nat /\ p.max_leverage \in Nat
    [] p.kind = "ma_rule" -> p.symbol \in Symbols
    [] OTHER -> p.kind \in DOMAIN Reads /\ p.fraction \in Nat

targets(p, w, last) ==
  CASE p.kind = "price_momentum" -> PriceMomentum(p, w)
    [] p.kind = "residual_momentum" -> ResidualMomentum(p, w)
    [] p.kind = "mean_reversion" -> MeanReversion(p, w)
    [] p.kind = "mean_reversion_multi" -> MeanReversionMulti(p, w)
    [] p.kind = "mean_reversion_weighted" -> MeanReversionWeighted(p, w)
    [] p.kind = "alpha_combo" -> AlphaCombo(p, w)
    [] p.kind = "low_volatility" -> LowVolatility(p, w)
    [] p.kind = "multifactor" -> Multifactor(p, w)
    [] p.kind = "sector_rotation" -> SectorRotation(p, w)
    [] p.kind = "multi_asset_trend" -> MultiAssetTrend(p, w)
    [] p.kind = "ibs_mean_reversion" -> IbsMeanReversion(p, w)
    [] p.kind = "vol_targeting" -> {VolTargeting(p, w, last)}
    [] p.kind = "ma_rule" -> {MovingAverageRule(p, w)}
=============================================================================
