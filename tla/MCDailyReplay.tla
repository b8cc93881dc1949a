--------------------------- MODULE MCDailyReplay ----------------------------
(***************************************************************************)
(* DailyReplay of every rule on three names over four days.  A day prints  *)
(* a name at one of two bars or not at all.  The rules by themselves see   *)
(* every hole and every tie of the scores they read, the replay a few.     *)
(***************************************************************************)
EXTENDS DailyReplay, TLC

CONSTANTS a, b, c
ABC == {a, b, c}

Partial(S, V) == UNION { [D -> V] : D \in SUBSET S }

Ranking(kind, shorts) == [kind |-> kind, rebalance_days |-> 1, fraction |-> 5, allow_short |-> shorts,
  formation_days |-> 2, skip_days |-> 1, lookback_days |-> 2, vol_days |-> 2,
  momentum_days |-> 2, momentum_skip |-> 1, reversal_days |-> 1,
  weighting |-> "equal", clusters |-> [x |-> {a, b}]]

Rotating(filter, dual, n, shorts) == [kind |-> "sector_rotation", rebalance_days |-> 2, top_n |-> n, ma_filter |-> filter,
  dual_momentum |-> dual, formation_days |-> 2, defensive |-> c, allow_short |-> shorts]

Trend(weighting, filter) == [kind |-> "multi_asset_trend", rebalance_days |-> 1, weighting |-> weighting, ma_filter |-> filter,
  formation_days |-> 2, max_weight |-> 8]

RankingKinds == {"price_momentum", "residual_momentum", "mean_reversion", "mean_reversion_multi",
  "mean_reversion_weighted", "alpha_combo", "low_volatility", "multifactor", "ibs_mean_reversion"}

AllStrategies ==
  { Ranking(k, TRUE) : k \in RankingKinds }
  \cup { [Ranking("mean_reversion", short) EXCEPT !.weighting = "proportional"] : short \in BOOLEAN }
  \cup { Rotating(TRUE, FALSE, 1, TRUE), Rotating(FALSE, TRUE, 2, FALSE) }
  \cup { Trend("mom_over_var", TRUE), Trend("mom_over_vol", FALSE), Trend("equal", FALSE), Trend("mom", TRUE) }
  \cup { [kind |-> "vol_targeting", rebalance_days |-> 1, symbol |-> a, target_vol |-> 4, vol_days |-> 2, max_leverage |-> 24,
          rebalance_threshold |-> 40] }
  \cup { [kind |-> "ma_rule", rebalance_days |-> 1, symbol |-> a, fast |-> 1, slow |-> 2, third |-> n, allow_short |-> TRUE] : n \in {0, 3} }

Returns == Partial(ABC, {-1, 1, 2})
Ret == [rows : {1, 3}, ret : Returns]
RetVol == [rows : {1, 3}, ret : Returns, vol : Partial(ABC, 0 .. 2)]

SomeHistories == [
  price_momentum |-> Ret, mean_reversion |-> Ret, mean_reversion_multi |-> Ret,
  residual_momentum |-> [rows : {2, 3}, bench : BOOLEAN, resid : Returns],
  mean_reversion_weighted |-> RetVol, multifactor |-> RetVol,
  alpha_combo |-> [rows : 1 .. 3, ret : Partial(ABC, {-1, 2}), rev : [ABC -> 1 .. 2] \cup {<< >>},
                   vol : Partial(ABC, 1 .. 2)],
  low_volatility |-> [rows : {1, 3}, vol : Partial(ABC, 0 .. 2)],
  ibs_mean_reversion |-> [rows : {3}, ibs : Partial(ABC, 0 .. 2)],
  sector_rotation |-> [rows : {1, 3}, ret : Returns, above : SUBSET ABC, bull : BOOLEAN],
  multi_asset_trend |-> [rows : {3}, ret : Returns, vol : Partial(ABC, 0 .. 2), above : {{a, b}}],
  vol_targeting |-> [rows : {2, 3}, vol : Partial({a}, 0 .. 6)],
  ma_rule |-> [rows : {1, 3}, average : [1 .. 2 -> 1 .. 2] \cup [1 .. 3 -> 1 .. 3]]]

\* Orders of the three names, and a hole.
Orders == [ABC -> {-1, 2}] \cup {[s \in {b, c} |-> 2]}
Calm == { [s \in ABC |-> 1], [s \in {a, b} |-> IF s = a THEN 2 ELSE 1] }

SomeWindows == [SomeHistories EXCEPT
  !.price_momentum = [rows : {3}, ret : Orders],
  !.mean_reversion = [rows : {3}, ret : Orders],
  !.mean_reversion_multi = [rows : {3}, ret : Orders],
  !.residual_momentum = [rows : {3}, bench : {TRUE}, resid : Orders],
  !.mean_reversion_weighted = [rows : {3}, ret : Orders, vol : Calm],
  !.multifactor = [rows : {3}, ret : Orders, vol : Calm],
  !.alpha_combo = [rows : {3}, ret : Orders, rev : {[s \in ABC |-> 1]}, vol : Calm],
  !.low_volatility = [rows : {3}, vol : Calm],
  !.ibs_mean_reversion = [rows : {3}, ibs : Calm],
  !.sector_rotation = [rows : {3}, ret : Orders, above : {{a, b}}, bull : BOOLEAN],
  !.multi_asset_trend = [rows : {3}, ret : Orders, vol : Calm, above : {{a, b}}]]

Bar(o, c_) == [open |-> o, close |-> c_]
Up == Bar(100, 300)
Down == Bar(300, 100)
Tape(x, y, z) == (a :> x @@ b :> y @@ c :> z)
SomeTapes == { Tape(Up, Up, Down), Tape(Down, Up, Up), Tape(Down, Down, Up),
               Tape(NoBar, Up, Down), Tape(Up, NoBar, NoBar), Tape(Down, Down, NoBar) }
=============================================================================
