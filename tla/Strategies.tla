----------------------------- MODULE Strategies -----------------------------
(***************************************************************************)
(* The intraday strategies of strategy/: orb.py, xs_daytrade.py,           *)
(* spy_intraday.py and wave_rider.py.  Each keeps a memory of its own and  *)
(* answers a bar or a tick with signals; an answer is                      *)
(*   [self, positions, signals],                                           *)
(* the positions because looking for an exit moves their last and peak     *)
(* price.                                                                  *)
(*                                                                         *)
(* What the orders are for is kept: ranges, ranks, streaks, windows, stops *)
(* and what is remembered from bar to bar.  A return is in thousandths,    *)
(* rounded down; the logarithm of a ratio is replaced by the ratio less 1; *)
(* stops, trails and targets are amounts, not shares of the price.         *)
(* The entry filters and the volatility scaling of the wave rider and the  *)
(* weights by volatility are off, as in the default settings.              *)
(***************************************************************************)
EXTENDS Feed, FiniteSetsExt, TLC

CONSTANTS
  SymbolSeq,   \* the symbols in the order their bars come
  P            \* the strategies' parameters and the entry and exit settings

ASSUME ParameterAssumption ==
  /\ Range(SymbolSeq) = Symbols /\ IsInjective(SymbolSeq)
  /\ P.range_minutes \in Nat \ {0} /\ P.atr_stop \in Nat \ {0}

Kinds == {"orb", "xs", "spy", "wave", "wave_2m"}
None == 0
NoPrices == [s \in Symbols |-> None]

bar_minutes(kind) == IF kind = "wave_2m" THEN 2 ELSE 1
flatten_at_close(kind) == kind # "spy"
uses_protective_stop(kind) == kind # "spy"
Return(from, to) == ((to - from) * 1000) \div from

Holds(ctx, s) == ctx.positions[s].qty > 0
Buy(s, price) == [type |-> "buy", symbol |-> s, price |-> price]
Sell(s, price) == [type |-> "sell", symbol |-> s, price |-> price]
Quiet(self, ctx) == [self |-> self, positions |-> ctx.positions, signals |-> <<>>]
Says(self, ctx, signals) == [self |-> self, positions |-> ctx.positions, signals |-> signals]

update_price(pos, price) == [pos EXCEPT !.last = price, !.peak = IF price > @ THEN price ELSE @]

\* Every strategy but the index one looks for an exit this way.
_check_exit(self, ctx, s, price, due) ==
  IF ctx.positions[s].exiting THEN Quiet(self, ctx)
  ELSE [self |-> self, positions |-> [ctx.positions EXCEPT ![s] = update_price(@, price)],
        signals |-> IF due THEN << Sell(s, price) >> ELSE <<>>]

StopHit(self, s, price) == self.stops[s] # None /\ price <= self.stops[s]
Late(ts) == MinuteOf(ts) >= P.exit_time

-----------------------------------------------------------------------------
(* orb.py *)

OrbNew == [kind |-> "orb", known |-> {}, range_high |-> NoPrices, range_vol |-> NoPrices,
           in_play |-> {}, done_today |-> {}, stops |-> NoPrices]

\* Symbols with daily bars get an average volume and an average true range.
OrbStart(daily) == [OrbNew EXCEPT !.known = DOMAIN daily]

OrbDue(self, s, price, ts) == StopHit(self, s, price) \/ Late(ts)

Ranged(self, bar) ==
  [self EXCEPT !.range_high[bar.symbol] = IF bar.high > @ THEN bar.high ELSE @,
               !.range_vol[bar.symbol] = @ + bar.volume]

InPlay(self, bar) ==
  /\ MinuteOf(bar.ts) = P.range_minutes - 1 /\ bar.symbol \in self.known
  /\ Ranged(self, bar).range_vol[bar.symbol] >= P.rvol_min

OrbRange(self, bar) ==
  IF InPlay(self, bar) THEN [Ranged(self, bar) EXCEPT !.in_play = @ \cup {bar.symbol}] ELSE Ranged(self, bar)

Breaks(self, bar, ctx) ==
  /\ bar.symbol \in self.in_play \ (self.done_today \cup ctx.pending)
  /\ MinuteOf(bar.ts) < P.entry_until /\ ctx.open_slots > 0
  /\ self.range_high[bar.symbol] # None /\ bar.symbol \in self.known
  /\ bar.close > self.range_high[bar.symbol]

OrbBuy(self, bar) ==
  [self EXCEPT !.done_today = @ \cup {bar.symbol}, !.stops[bar.symbol] = bar.close - P.atr_stop]

OrbBar(self, bar, ctx) ==
  LET s == bar.symbol IN
  CASE Holds(ctx, s) -> _check_exit(self, ctx, s, bar.close, OrbDue(self, s, bar.close, bar.ts))
    [] ~Holds(ctx, s) /\ MinuteOf(bar.ts) < P.range_minutes -> Quiet(OrbRange(self, bar), ctx)
    [] ~Holds(ctx, s) /\ MinuteOf(bar.ts) >= P.range_minutes /\ Breaks(self, bar, ctx) ->
         Says(OrbBuy(self, bar), ctx, << Buy(s, bar.close) >>)
    [] OTHER -> Quiet(self, ctx)

\* Sized to lose risk_pct of the allocation at the stop, within the slot.
OrbQty(self, s, price, allocation, slot) ==
  Min({(allocation * P.risk_pct) \div (100 * (price - self.stops[s])), slot \div price})

-----------------------------------------------------------------------------
(* xs_daytrade.py, signal overnight_reversal, with a stop and a target *)

XsNew == [kind |-> "xs", day |-> 0, prev_close |-> NoPrices, today_open |-> NoPrices, last |-> NoPrices,
          stops |-> NoPrices, targets |-> NoPrices, decided |-> FALSE]

_reset_day(self, day) == [XsNew EXCEPT !.day = day, !.prev_close = self.prev_close]

XsStart(daily, day) ==
  [XsNew EXCEPT !.day = day, !.prev_close = [s \in Symbols |-> IF s \in DOMAIN daily THEN daily[s] ELSE None]]

XsDue(self, s, price, ts) ==
  StopHit(self, s, price) \/ (self.targets[s] # None /\ price >= self.targets[s]) \/ Late(ts)

OvernightReturn(self, s) == Return(self.prev_close[s], self.today_open[s])
AbsGap(self, s) == LET r == OvernightReturn(self, s) IN IF r < 0 THEN -r ELSE r
Scored(self) ==
  SelectSeq(SymbolSeq, LAMBDA s : /\ self.today_open[s] # None /\ self.last[s] # None
                                  /\ self.prev_close[s] # None /\ AbsGap(self, s) <= P.max_gap)
\* The demeaned overnight return, reversed, times the number of names.
scores(self) ==
  LET names == Scored(self)
      total == FoldLeft(LAMBDA sum, s : sum + OvernightReturn(self, s), 0, names) IN
  IF Len(names) < P.min_universe THEN <<>>
  ELSE [i \in DOMAIN names |-> [symbol |-> names[i],
                                score |-> total - Len(names) * OvernightReturn(self, names[i])]]

Free(ctx, s) == ~Holds(ctx, s) /\ s \notin ctx.pending
Ranked(rows) == SortSeq(rows, LAMBDA x, y : x.score > y.score)
Picked(rows, ctx) ==
  LET good == SelectSeq(Ranked(rows), LAMBDA r : r.score >= Len(rows) * P.min_score /\ Free(ctx, r.symbol)) IN
  SubSeq(good, 1, Min({Len(good), P.top_n, ctx.open_slots}))

Chosen(self, picked) == { picked[i].symbol : i \in DOMAIN picked }
Bought(self, names) ==
  [self EXCEPT !.stops = [s \in Symbols |-> IF s \in names THEN self.last[s] - P.xs_stop ELSE @[s]],
               !.targets = [s \in Symbols |-> IF s \in names THEN self.last[s] + P.xs_target ELSE @[s]]]

_decide(self, ctx) ==
  LET decided == [self EXCEPT !.decided = TRUE]
      picked == Picked(scores(self), ctx) IN
  Says(Bought(decided, Chosen(self, picked)), ctx,
       [i \in DOMAIN picked |-> Buy(picked[i].symbol, self.last[picked[i].symbol])])

XsSeen(self, bar) ==
  [self EXCEPT !.today_open[bar.symbol] = IF @ = None /\ MinuteOf(bar.ts) <= P.open_by THEN bar.open ELSE @,
               !.last[bar.symbol] = bar.close]
XsToday(self, ts) == IF self.day # DayOf(ts) THEN _reset_day(self, DayOf(ts)) ELSE self

XsBar(self, bar, ctx) ==
  LET s == bar.symbol
      today == XsToday(self, bar.ts)
      seen == XsSeen(today, bar) IN
  CASE Holds(ctx, s) -> _check_exit(today, ctx, s, bar.close, XsDue(today, s, bar.close, bar.ts))
    [] ~Holds(ctx, s) /\ (seen.decided \/ MinuteOf(bar.ts) < P.entry_time) -> Quiet(seen, ctx)
    [] OTHER -> _decide(seen, ctx)

-----------------------------------------------------------------------------
(* spy_intraday.py: the first symbol is the index, the second its inverse *)

IndexSymbol == SymbolSeq[1]
InverseSymbol == SymbolSeq[Len(SymbolSeq)]

SpyNew == [kind |-> "spy", decided_day |-> 0]

first_half_hour_return(bars, day) ==
  LET sess == SelectSeq(bars, LAMBDA b : b.ts >= 100 * day)
      before == SelectSeq(sess, LAMBDA b : MinuteOf(b.ts) < P.first_half_hour_end) IN
  IF sess = <<>> \/ MinuteOf(sess[1].ts) > P.open_by \/ Len(before) < P.half_hour_bars THEN None
  ELSE Return(sess[1].open, before[Len(before)].close)

SpyExits(ctx, price) ==
  LET held == SelectSeq(SymbolSeq, LAMBDA s : Holds(ctx, s) /\ ~ctx.positions[s].exiting) IN
  [i \in DOMAIN held |-> Sell(held[i], price)]

SpyDecides(self, bar, ctx) ==
  /\ bar.symbol = IndexSymbol /\ MinuteOf(bar.ts) >= P.decision_time /\ self.decided_day # DayOf(bar.ts)
  /\ \A s \in Symbols : ~Holds(ctx, s)
  /\ ctx.open_slots > 0

InversePrice(bar, ctx) ==
  LET inv == ctx.bars[InverseSymbol] IN IF inv = <<>> THEN bar.close ELSE inv[Len(inv)].close

SpySignals(bar, ctx) ==
  LET r == first_half_hour_return(ctx.bars[IndexSymbol], DayOf(bar.ts)) IN
  CASE r > P.threshold -> << Buy(IndexSymbol, bar.close) >>
    [] r < -P.threshold -> << Buy(InverseSymbol, InversePrice(bar, ctx)) >>
    [] OTHER -> <<>>

SpyBar(self, bar, ctx) ==
  CASE Late(bar.ts) -> Says(self, ctx, SpyExits(ctx, bar.close))
    [] ~Late(bar.ts) /\ SpyDecides(self, bar, ctx) ->
         Says([self EXCEPT !.decided_day = DayOf(bar.ts)], ctx, SpySignals(bar, ctx))
    [] OTHER -> Quiet(self, ctx)

-----------------------------------------------------------------------------
(* wave_rider.py with indicators.py *)

WaveNew == [kind |-> "wave"]

Rises(bars, i) == bars[i].close > bars[i - 1].close
green_streak(bars) ==
  LET stops == { i \in 2 .. Len(bars) : ~Rises(bars, i) } IN
  IF bars = <<>> THEN 0 ELSE Len(bars) - Max(stops \cup {1})
streak_gain(bars, streak) ==
  IF streak <= 0 \/ Len(bars) <= streak THEN 0 ELSE Return(bars[Len(bars) - streak].close, bars[Len(bars)].close)
streak_volume(bars, streak) == FoldLeft(LAMBDA sum, b : sum + b.volume, 0, LastOf(bars, streak))

_in_entry_window(now) == P.entry_start <= MinuteOf(now) /\ MinuteOf(now) < P.entry_end

\* History that does not end with this bar gets it.
Through(bars, bar) == IF bars = <<>> \/ bars[Len(bars)].ts # bar.ts THEN Append(bars, Seen(bar)) ELSE bars

Wave(bars) ==
  LET streak == green_streak(bars) IN
  /\ streak >= P.green_streak_minutes
  /\ streak_gain(bars, streak) >= P.min_streak_gain
  /\ streak_volume(bars, streak) >= P.min_streak_volume

WaveEnters(bar, ctx) ==
  /\ ctx.open_slots > 0 /\ bar.symbol \notin ctx.pending
  /\ ctx.entries_today[bar.symbol] < P.max_entries
  /\ _in_entry_window(ctx.now)
  /\ Wave(Through(ctx.bars[bar.symbol], bar))

wave_trigger(pos) == pos.peak - P.trail
gain_floor(pos) == pos.entry + P.min_gain
WaveDue(pos, price, ts) ==
  \/ price <= wave_trigger(pos) /\ wave_trigger(pos) >= gain_floor(pos)
  \/ price <= pos.entry - P.hard_stop
  \/ ts - pos.since >= P.max_hold_minutes
  \/ MinuteOf(ts) >= P.flatten_time

WaveBar(self, bar, ctx) ==
  LET s == bar.symbol IN
  CASE Holds(ctx, s) -> _check_exit(self, ctx, s, bar.close, WaveDue(update_price(ctx.positions[s], bar.close), bar.close, bar.ts))
    [] ~Holds(ctx, s) /\ WaveEnters(bar, ctx) -> Says(self, ctx, << Buy(s, bar.close) >>)
    [] OTHER -> Quiet(self, ctx)

-----------------------------------------------------------------------------
(* The interface: base.py *)

New(kind) ==
  CASE kind = "orb" -> OrbNew [] kind = "xs" -> XsNew [] kind = "spy" -> SpyNew [] OTHER -> WaveNew

on_session_start(self, day, daily) ==
  CASE self.kind = "orb" -> OrbStart(daily) [] self.kind = "xs" -> XsStart(daily, day) [] OTHER -> self

OnBar(self, bar, ctx) ==
  CASE self.kind = "orb" -> OrbBar(self, bar, ctx)
    [] self.kind = "xs" -> XsBar(self, bar, ctx)
    [] self.kind = "spy" -> SpyBar(self, bar, ctx)
    [] OTHER -> WaveBar(self, bar, ctx)

TickDue(self, s, pos, price, ts) ==
  CASE self.kind = "orb" -> OrbDue(self, s, price, ts)
    [] self.kind = "xs" -> XsDue(self, s, price, ts)
    [] self.kind = "spy" -> Late(ts)
    [] OTHER -> WaveDue(pos, price, ts)

\* A price for a symbol that is held; every strategy then does the same.
on_tick(self, s, price, ts, ctx) ==
  _check_exit(self, ctx, s, price, TickDue(self, s, update_price(ctx.positions[s], price), price, ts))

\* The stop a buy carries besides the settings' own, and the size if the strategy has a say.
StopOf(self, s) == IF self.kind \in {"orb", "xs"} THEN self.stops[s] ELSE None
HasSay(self, s, price) == self.kind = "orb" /\ self.stops[s] # None /\ price > self.stops[s]
=============================================================================
