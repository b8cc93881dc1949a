----------------------------- MODULE MCSession -----------------------------
(***************************************************************************)
(* Session on two symbols and two days of five minutes.  A minute prints   *)
(* one of six tapes: quiet, a rise of one symbol or the other, a gap above *)
(* the limit, a fall, nothing.  The wave rider looks at one symbol.        *)
(***************************************************************************)
EXTENDS Session

CONSTANTS a, b
AB == {a, b}
ABSeq == << a, b >>

Parameters == [
  range_minutes |-> 2, rvol_min |-> 2, atr_stop |-> 3, risk_pct |-> 8, entry_until |-> 3,
  exit_time |-> 3, flatten_time |-> 3,
  entry_time |-> 1, open_by |-> 0, top_n |-> 1, min_score |-> 40, max_gap |-> 400, min_universe |-> 2,
  xs_stop |-> 3, xs_target |-> 3,
  first_half_hour_end |-> 2, half_hour_bars |-> 2, decision_time |-> 2, threshold |-> 10,
  entry_start |-> 1, entry_end |-> 4, max_entries |-> 1, green_streak_minutes |-> 2, min_streak_gain |-> 10,
  min_streak_volume |-> 2, trail |-> 2, min_gain |-> 1, hard_stop |-> 3, max_hold_minutes |-> 1,
  limit_buffer |-> 1, entry_timeout |-> 0,
  window |-> [k \in Kinds |-> [s \in AB |-> CASE k \in {"wave", "wave_2m"} -> 3
                                              [] k = "spy" -> IF s = a THEN 3 ELSE 1
                                              [] OTHER -> 0]]]

MinuteBar(o, c, v) == [open |-> o, close |-> c, volume |-> v]
Quietly == [s \in AB |-> MinuteBar(20, 20, 1)]
RiseOfA == (a :> MinuteBar(20, 24, 2) @@ b :> MinuteBar(20, 20, 1))
RiseOfB == (b :> MinuteBar(20, 24, 2))
Gap     == (a :> MinuteBar(26, 27, 2) @@ b :> MinuteBar(24, 22, 1))
FallOfA == (a :> MinuteBar(24, 18, 1))
OnlyA(tape) == [s \in DOMAIN tape \cap {a} |-> tape[s]]

TapesOf == [
  orb  |-> {Quietly, RiseOfA, RiseOfB, Gap, FallOfA},
  xs   |-> {Quietly, RiseOfA, RiseOfB, Gap, FallOfA, << >>},
  spy  |-> {RiseOfA, RiseOfB, Gap, FallOfA, << >>},
  wave |-> { OnlyA(tape) : tape \in {Quietly, RiseOfA, Gap, FallOfA, << >>} },
  wave_2m |-> { OnlyA(tape) : tape \in {RiseOfA, Gap, FallOfA, << >>} }]

DailyBars == { [s \in AB |-> 22], [s \in {b} |-> 20], (a :> 22 @@ b :> 20) }
AllPlays == Kinds
BothModes == {"backtest", "shadow"}
=============================================================================
