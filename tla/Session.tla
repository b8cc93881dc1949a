------------------------------ MODULE Session ------------------------------
(***************************************************************************)
(* Trading days of one strategy against the simulated broker: the replay   *)
(* of backtest/engine.py, and a shadow slot of runner.py, which feeds the  *)
(* same broker from live ticks and asks the strategy before it polls.      *)
(* Both drive engine.py, which hands completed bars to the strategy and    *)
(* its signals to the order manager.  Here the broker answers at once and  *)
(* never fails, so the order manager's operations are whole; its races     *)
(* with a real venue are in OrderManager.                                  *)
(***************************************************************************)
EXTENDS Strategies

CONSTANTS
  Slip,
  Tapes,        \* for each strategy, what a minute may print: a bar (open, close, volume) for some symbols
  Dailies,      \* what the daily bars may tell: a close for some symbols
  Modes, Plays, \* the modes and the strategies to run
  LastMinute, Days,
  Cash, Base, Reinvest, Floor, SlotPct, MaxPositions

ASSUME SessionAssumption ==
  /\ Slip \in Nat /\ LastMinute < 98 /\ Days \in Nat /\ Base \in Nat \ {0} /\ Floor <= Base
  /\ Plays \subseteq Kinds /\ Modes \subseteq {"backtest", "shadow"}

SB == INSTANCE SimBroker

VARIABLES
  mode,
  self,    \* the strategy's memory
  kind,    \* which strategy
  desk,    \* the broker, the book and the trades' results
  feed,
  funds,   \* allocation and the ledger's cumulative_realized
  day, minute,
  stage    \* start, open, done
vars == << mode, self, kind, desk, feed, funds, day, minute, stage >>

NoPosition == [qty |-> 0, entry |-> 0, peak |-> 0, last |-> 0, since |-> 0, stop |-> SB!NoId, exiting |-> FALSE]
NoOrder == [id |-> SB!NoId, at |-> 0]
Nothing == [s \in Symbols |-> NoOrder]
NoEntries == [s \in Symbols |-> 0]
EmptyDesk(cash) ==
  [sim |-> SB!Empty(cash), positions |-> [s \in Symbols |-> NoPosition], entries |-> Nothing,
   exits |-> Nothing, entries_today |-> NoEntries, booked |-> 0, today |-> 0, realized |-> 0]

Window(k, s) == P.window[k][s]
Held(d) == { s \in Symbols : d.positions[s].qty > 0 }
Pending(d) == { s \in Symbols : d.entries[s] # NoOrder }
Exiting(d) == { s \in Symbols : d.exits[s] # NoOrder }
open_slots(d) == LET n == MaxPositions - Cardinality(Held(d)) - Cardinality(Pending(d)) IN IF n > 0 THEN n ELSE 0

-----------------------------------------------------------------------------
(* order_manager.py and position_book.py, with a broker that answers *)

slot_dollars(allocation) == (allocation * SlotPct) \div 100
qty_for(me, s, price, allocation) ==
  IF HasSay(me, s, price) THEN OrbQty(me, s, price, allocation, slot_dollars(allocation))
  ELSE slot_dollars(allocation) \div price

Limit(sig) == sig.price + P.limit_buffer
StopPrice(me, s, limit) ==
  CASE ~uses_protective_stop(me.kind) -> 0
    [] uses_protective_stop(me.kind) /\ StopOf(me, s) # None -> Min({StopOf(me, s), limit - 1})
    [] OTHER -> limit - P.hard_stop

Refused(d, me, sig, allocation) ==
  \/ sig.symbol \in Held(d) \cup Pending(d) \/ open_slots(d) = 0
  \/ qty_for(me, sig.symbol, Limit(sig), allocation) <= 0

_buy(d, me, sig, now, allocation) ==
  LET s == sig.symbol
      limit == Limit(sig) IN
  IF Refused(d, me, sig, allocation) THEN d
  ELSE [d EXCEPT !.sim = SB!submit_limit_buy(@, s, qty_for(me, s, limit, allocation), limit, StopPrice(me, s, limit)),
                 !.entries[s] = [id |-> SB!FreeId(d.sim), at |-> now]]

Opened(o, now) ==
  LET legs == SB!LegsOf(o.sim, o.order.id) IN
  [qty |-> o.order.qty, entry |-> o.order.filled_price, peak |-> o.order.filled_price, last |-> o.order.filled_price,
   since |-> o.order.filled_at, stop |-> IF legs = <<>> THEN SB!NoId ELSE legs[1].id, exiting |-> FALSE]

open(d, s, pos) ==
  [d EXCEPT !.positions[s] = pos, !.entries[s] = NoOrder, !.entries_today[s] = @ + 1]

\* The trade's result goes to the poll that runs, or waits for the next one (booked).
close(d, s, price, where) ==
  LET pnl == (price - d.positions[s].entry) * d.positions[s].qty IN
  [d EXCEPT !.positions[s] = NoPosition, !.exits[s] = NoOrder, !.realized = @ + pnl,
            !.today = IF where = "today" THEN @ + pnl ELSE @,
            !.booked = IF where = "booked" THEN @ + pnl ELSE @]

SellShares(d, s, now) ==
  [d EXCEPT !.sim = SB!submit_market_sell(@, s, d.positions[s].qty),
            !.positions[s] = [@ EXCEPT !.exiting = TRUE, !.stop = SB!NoId],
            !.exits[s] = [id |-> SB!FreeId(d.sim), at |-> now]]

_sell(d, s, now) ==
  LET stop == d.positions[s].stop
      settled == [d EXCEPT !.sim = SB!cancel(@, stop)] IN
  CASE s \notin Held(d) \/ d.positions[s].exiting -> d
    [] s \in Held(d) /\ stop # SB!NoId /\ SB!get_order(d.sim, stop).status = "filled" ->
         close(d, s, SB!get_order(d.sim, stop).filled_price, "booked")
    [] OTHER -> SellShares(settled, s, now)

handle(d, me, signals, now, allocation) ==
  FoldLeft(LAMBDA x, sig : IF sig.type = "buy" THEN _buy(x, me, sig, now, allocation) ELSE _sell(x, sig.symbol, now),
           d, signals)

PollEntry(d, s, now) ==
  LET o == SB!get_order(d.sim, d.entries[s].id) IN
  CASE s \notin Pending(d) -> d
    [] s \in Pending(d) /\ o.status = "filled" -> open(d, s, Opened([sim |-> d.sim, order |-> o], now))
    [] s \in Pending(d) /\ o.status = "canceled" -> [d EXCEPT !.entries[s] = NoOrder]
    [] s \in Pending(d) /\ ~SB!is_terminal(o) /\ now - d.entries[s].at > P.entry_timeout ->
         [d EXCEPT !.entries[s] = NoOrder, !.sim = SB!cancel(@, o.id)]
    [] OTHER -> d

PollExit(d, s) ==
  LET o == SB!get_order(d.sim, d.exits[s].id) IN
  CASE s \notin Exiting(d) -> d
    [] s \in Exiting(d) /\ o.status = "filled" -> close(d, s, o.filled_price, "today")
    [] s \in Exiting(d) /\ o.status = "canceled" -> [d EXCEPT !.exits[s] = NoOrder, !.positions[s].exiting = FALSE]
    [] OTHER -> d

PollStop(d, s) ==
  LET stop == d.positions[s].stop IN
  CASE stop = SB!NoId \/ d.positions[s].exiting -> d
    [] stop # SB!NoId /\ SB!get_order(d.sim, stop).status = "filled" ->
         close(d, s, SB!get_order(d.sim, stop).filled_price, "today")
    [] OTHER -> d

poll(d, now) ==
  LET begun == [d EXCEPT !.today = @ + d.booked, !.booked = 0]
      entered == FoldLeft(LAMBDA x, s : PollEntry(x, s, now), begun, SymbolSeq)
      exited == FoldLeft(PollExit, entered, SymbolSeq) IN
  FoldLeft(PollStop, exited, SymbolSeq)

flatten_all(d, now) == FoldLeft(LAMBDA x, s : _sell(x, s, now), d, SymbolSeq)
\* Mutant: the book forgets the buys, the broker keeps them.
cancel_pending_entries_BookOnly(d) == [d EXCEPT !.entries = Nothing]

cancel_pending_entries(d) ==
  [d EXCEPT !.sim = FoldLeft(LAMBDA b, s : SB!cancel(b, d.entries[s].id), @, SymbolSeq), !.entries = Nothing]

-----------------------------------------------------------------------------
(* engine.py: a bar, a tick, the end of the session *)

State == [desk |-> desk, self |-> self, feed |-> feed]

context(w, now) ==
  [now |-> now, bars |-> w.feed.history, positions |-> w.desk.positions, pending |-> Pending(w.desk),
   entries_today |-> w.desk.entries_today, open_slots |-> open_slots(w.desk)]

_dispatch(w, answer, now) ==
  [w EXCEPT !.self = answer.self,
            !.desk = handle([@ EXCEPT !.positions = answer.positions], answer.self, answer.signals, now,
                            funds.allocation)]

\* A completed bar goes to the strategy, or into the bucket of its own bar size.
EngineBar(w, bar, now) ==
  LET minutes == bar_minutes(kind)
      fed == IF minutes = 1 THEN _accept(w.feed, bar, Window(kind, bar.symbol))
             ELSE on_bar(Accepted(w.feed, bar), bar, minutes, Window(kind, bar.symbol))
      big == IF minutes = 1 THEN bar ELSE [symbol |-> bar.symbol] @@ w.feed.open[bar.symbol]
      x == [w EXCEPT !.feed = fed] IN
  IF minutes > 1 /\ ~Closes(w.feed, bar, minutes) THEN x
  ELSE _dispatch(x, OnBar(x.self, big, context(x, now)), now)

on_completed_bar(w, bar, now) == IF IsNew(w.feed, bar) THEN EngineBar(w, bar, now) ELSE w

EngineTick(w, s, price, now) ==
  IF s \notin Held(w.desk) THEN w
  ELSE _dispatch(w, on_tick(w.self, s, price, now, context(w, now)), now)

end_of_session(w, now) ==
  LET left == SelectSeq(SymbolSeq, LAMBDA s : w.feed.open[s] # NoBar)
      flushed == [w EXCEPT !.feed = FoldLeft(LAMBDA f, s : flush(f, s, Window(kind, s)), @, left)] IN
  FoldLeft(LAMBDA x, s : _dispatch(x, OnBar(x.self, [symbol |-> s] @@ w.feed.open[s], context(x, now)), now),
           flushed, left)

-----------------------------------------------------------------------------
(* The ledger *)

next_allocation(cumulative) == Max({Base + (Reinvest * cumulative) \div 100, Floor})

build_ledger(d) ==
  LET cumulative == funds.cumulative + d.today IN
  [allocation |-> next_allocation(cumulative), cumulative |-> cumulative]

-----------------------------------------------------------------------------
(* The day *)

\* A shadow slot's broker starts with ten times its allocation, which is its share: no ledger is older.
_build_slots == EmptyDesk(10 * Base)

StartDesk == IF mode = "backtest" THEN EmptyDesk(Cash) ELSE _build_slots

Init ==
  /\ mode \in Modes /\ kind \in Plays
  /\ self = New(kind) /\ desk = StartDesk /\ feed = NoFeed
  /\ funds = [allocation |-> Base, cumulative |-> 0]
  /\ day = 1 /\ minute = 0 /\ stage = "start"

Now == 100 * day + minute + 1   \* the end of this minute
DayEnd == 100 * day + LastMinute + 1
Keep(w) == /\ desk' = w.desk /\ self' = w.self /\ feed' = w.feed

DayStarts ==
  /\ stage = "start" /\ stage' = "open" /\ minute' = 0
  /\ UNCHANGED << mode, kind, feed, funds, day >>

\* When the daily bars fail, the replay leaves the strategy as it was,
ReplayDayStarts ==
  /\ mode = "backtest" /\ DayStarts
  /\ desk' = [desk EXCEPT !.entries_today = NoEntries, !.today = 0]
  /\ (\E daily \in Dailies : self' = on_session_start(self, day, daily)) \/ UNCHANGED self

\* and the runner hands it none.
_session_start ==
  /\ mode = "shadow" /\ DayStarts
  /\ \E daily \in Dailies \cup {<< >>} : self' = on_session_start(self, day, daily)
  /\ UNCHANGED desk

Bar(s, shape) ==
  [symbol |-> s, ts |-> 100 * day + minute, open |-> shape.open, close |-> shape.close, volume |-> shape.volume,
   high |-> Max({shape.open, shape.close}), low |-> Min({shape.open, shape.close})]
\* A day on which nothing printed is no trading day.
Printed == \E s \in Symbols : DayOf(feed.last_emitted[s]) = day
Prints(S) == S # {} \/ minute < LastMinute \/ Printed

Kept == UNION { {desk.positions[s].stop, desk.entries[s].id, desk.exits[s].id} : s \in Symbols }
Cleared == [State EXCEPT !.desk.sim = SB!Forget(@, Kept)]

\* The high of the bar stands for the ticks a live bot would have seen in it.
HighSeen(d, bar) ==
  LET pos == d.positions[bar.symbol] IN
  IF pos.qty > 0 /\ ~pos.exiting THEN [d EXCEPT !.positions[bar.symbol] = update_price(pos, bar.high)] ELSE d

\* Orders of earlier bars may fill on this minute's, then the order manager polls, then the strategy looks.
ReplayBar(w, bar) == on_completed_bar([w EXCEPT !.desk = HighSeen(@, bar)], bar, Now)
\* Mutant: the strategy looks before the orders of earlier bars fill.
ReplayMinute_LooksFirst(w, bars) ==
  LET looked == FoldLeft(ReplayBar, w, bars) IN
  IF bars = <<>> THEN w
  ELSE [looked EXCEPT !.desk = poll([@ EXCEPT !.sim = FoldLeft(SB!process_bar, @, bars)], Now)]

ReplayMinute(w, bars) ==
  LET filled == [w.desk EXCEPT !.sim = FoldLeft(SB!process_bar, @, bars)] IN
  IF bars = <<>> THEN w ELSE FoldLeft(ReplayBar, [w EXCEPT !.desk = poll(filled, Now)], bars)

\* The runner goes symbol by symbol: a tick is a bar of one price for the shadow broker, then the strategy
\* sees the bar the tick completes and, for what it holds, the tick.  The poll comes last.
TickBar(bar) == [bar EXCEPT !.ts = Now, !.open = bar.close, !.high = bar.close, !.low = bar.close, !.volume = 0]
ShadowTick(w, bar) ==
  LET filled == [w EXCEPT !.desk.sim = SB!process_bar(@, TickBar(bar))] IN
  EngineTick(on_completed_bar(filled, bar, Now), bar.symbol, bar.close, Now)

\* Once the flatten time has passed everything is sold.
Flattened(d) ==
  LET sold == IF flatten_at_close(kind) THEN flatten_all(d, Now) ELSE d IN
  IF minute = P.flatten_time THEN cancel_pending_entries(sold) ELSE d

ShadowMinute(w, bars) ==
  LET seen == FoldLeft(ShadowTick, w, bars) IN [seen EXCEPT !.desk = Flattened(poll(@, Now))]

Minute ==
  /\ stage = "open" /\ minute <= LastMinute
  /\ \E tape \in Tapes[kind] :
       LET names == SelectSeq(SymbolSeq, LAMBDA s : s \in DOMAIN tape)
           bars == [i \in DOMAIN names |-> Bar(names[i], tape[names[i]])] IN
       /\ Prints(DOMAIN tape)
       /\ Keep(IF mode = "backtest" THEN ReplayMinute(Cleared, bars) ELSE ShadowMinute(Cleared, bars))
  /\ minute' = minute + 1
  /\ UNCHANGED << mode, kind, funds, day, stage >>

LastPrices(d, S) == [s \in S |-> d.sim.positions[s].last]
SimHeld(d) == { s \in Symbols : d.sim.positions[s].qty > 0 }

CloseOut(d, S, now) ==
  [flatten_all(d, now) EXCEPT !.sim = SB!force_close_all(@, LastPrices(d, S), now)]

ReplayEnds(w) ==
  IF flatten_at_close(kind) /\ Held(w.desk) # {}
  THEN cancel_pending_entries(poll(CloseOut(w.desk, SimHeld(w.desk), DayEnd), DayEnd))
  ELSE cancel_pending_entries(w.desk)

\* A shadow slot keeps nothing overnight.
ShadowEnds(w) ==
  LET d == cancel_pending_entries(w.desk) IN
  poll(IF Held(d) # {} THEN CloseOut(d, Held(d), Now) ELSE d, Now)

\* The last partial bar goes to the strategy, the desk is closed, the day goes to the ledger.
ReplayDayEnds ==
  LET w == end_of_session(State, DayEnd)
      closed == ReplayEnds(w) IN
  /\ mode = "backtest" /\ stage = "open" /\ minute > LastMinute
  /\ Keep([w EXCEPT !.desk = closed])
  /\ funds' = build_ledger(closed)
  /\ IF day < Days THEN day' = day + 1 /\ stage' = "start" ELSE day' = day /\ stage' = "done"
  /\ UNCHANGED << mode, kind, minute >>

\* The owner may stop the runner in any minute.
_shutdown ==
  LET w == end_of_session(State, Now)
      closed == ShadowEnds(w) IN
  /\ mode = "shadow" /\ stage = "open"
  /\ Keep([w EXCEPT !.desk = closed])
  /\ funds' = build_ledger(closed)
  /\ stage' = "done"
  /\ UNCHANGED << mode, kind, day, minute >>

Done == stage = "done" /\ UNCHANGED vars

Next == ReplayDayStarts \/ _session_start \/ Minute \/ ReplayDayEnds \/ _shutdown \/ Done

Spec == Init /\ [][Next]_vars

-----------------------------------------------------------------------------
(* Properties *)

Cost(d) == MapThenSumSet(LAMBDA s : d.positions[s].qty * d.positions[s].entry, Symbols)

\* What the book says is held is what the broker holds, and the broker's cash is the starting cash plus
\* every trade's result less what the held shares cost: a share sold twice, a fill that is missed or a
\* trade booked at another price than its order's shows here.  The ledger has every day's trades.
Accounts ==
  /\ \A s \in Symbols : desk.sim.positions[s].qty = desk.positions[s].qty
  /\ desk.sim.cash = StartDesk.sim.cash + desk.realized - Cost(desk)
  /\ desk.realized = funds.cumulative + IF stage = "open" THEN desk.today + desk.booked ELSE 0

SellsOf(d, s) == { d.sim.orders[i] : i \in { i \in DOMAIN d.sim.orders : LET o == d.sim.orders[i] IN
                     o.symbol = s /\ o.type # "limit" /\ o.status = "accepted" } }
Wanted(d, s) == IF d.positions[s].exiting THEN d.exits[s].id ELSE d.positions[s].stop

\* A held position has exactly one sell in the market, for all of its shares: the exit in flight or, while
\* it is not exiting and the strategy uses one, its stop.  Nothing sells what is not held.
SellsTracked ==
  \A s \in Symbols :
    LET sells == SellsOf(desk, s) IN
    /\ { o.id : o \in sells } = IF s \in Held(desk) THEN {Wanted(desk, s)} \ {SB!NoId} ELSE {}
    /\ \A o \in sells : o.qty = desk.positions[s].qty
    /\ s \in Held(desk) /\ uses_protective_stop(kind) => sells # {}

\* A strategy that flattens, and any shadow slot, ends its day with no shares and no order that may fill;
\* and once a strategy has seen a bar of its exit time, what it holds is on its way out.
SeenLate(s) ==
  LET seen == feed.last_emitted[s] IN
  DayOf(seen) = day /\ MinuteOf(seen) >= P.exit_time /\ desk.positions[s].since <= seen
EndsFlat ==
  /\ /\ stage = "done" \/ (stage = "start" /\ day > 1)
     /\ mode = "shadow" \/ flatten_at_close(kind)
     => /\ Held(desk) = {} /\ SimHeld(desk) = {}
        /\ \A i \in DOMAIN desk.sim.orders : desk.sim.orders[i].status # "accepted"
  /\ stage = "open" /\ kind \in {"orb", "xs", "spy"} =>
       \A s \in Held(desk) : SeenLate(s) => desk.positions[s].exiting

\* In a replay an order fills on a bar that begins when the bar it was decided on has ended, or later: what
\* is new in the book was pending before the minute, and what left it was on its way out or had its stop.
Filled(d, id, at) == \E i \in DOMAIN d.sim.orders : LET o == d.sim.orders[i] IN
                       o.id = id /\ o.status = "filled" /\ o.filled_at >= at
NoLookAhead ==
  [][mode = "backtest" /\ minute' = minute + 1 =>
       /\ \A s \in Held(desk)' \ Held(desk) : s \in Pending(desk) /\ desk'.positions[s].since >= desk.entries[s].at
       /\ \A s \in Held(desk) \ Held(desk)' :
            IF s \in Exiting(desk) THEN Filled(desk', desk.exits[s].id, desk.exits[s].at)
                                   ELSE Filled(desk', desk.positions[s].stop, desk.positions[s].since + 1)]_vars
=============================================================================
