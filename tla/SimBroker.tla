----------------------------- MODULE SimBroker -----------------------------
(***************************************************************************)
(* backtest/sim_broker.py: the pretend broker of the backtests and of the  *)
(* shadow slots, as operators on its record                                *)
(*   [orders, positions, cash, now].                                       *)
(* Orders are kept in the order they were sent; those that ended and that  *)
(* nobody asks for any more may be left out (Forget).  Prices are whole    *)
(* numbers and the slippage is an amount, not a share of the price.        *)
(***************************************************************************)
EXTENDS Integers, Sequences, SequencesExt, FiniteSetsExt

CONSTANTS Symbols, Slip

Lesser(x, y) == IF x < y THEN x ELSE y
NoId == 0
Ids(sim) == { sim.orders[i].id : i \in DOMAIN sim.orders }
get_order(sim, id) == SelectSeq(sim.orders, LAMBDA o : o.id = id)[1]
is_terminal(o) == o.status \in {"filled", "canceled"}

Empty(cash) == [orders |-> <<>>, positions |-> [s \in Symbols |-> [qty |-> 0, last |-> 0]],
                cash |-> cash, now |-> 0]

FreeId(sim) == CHOOSE i \in 1 .. Len(sim.orders) + 1 :
                 i \notin Ids(sim) /\ \A j \in 1 .. i - 1 : j \in Ids(sim)

_new(sim, symbol, type, qty, price, status, parent) ==
  [sim EXCEPT !.orders = Append(@, [id |-> FreeId(sim), symbol |-> symbol, type |-> type, qty |-> qty,
     price |-> price, status |-> status, parent |-> parent, filled_price |-> 0,
     submitted_at |-> sim.now, filled_at |-> 0])]

\* With a stop price the buy gets a leg, held until the buy fills.
submit_limit_buy(sim, symbol, qty, limit, stop) ==
  LET bought == _new(sim, symbol, "limit", qty, limit, "accepted", NoId) IN
  IF stop = 0 THEN bought ELSE _new(bought, symbol, "stop", qty, stop, "held", FreeId(sim))

submit_market_sell(sim, symbol, qty) == _new(sim, symbol, "market", qty, 0, "accepted", NoId)

SetStatus(sim, chosen, status) ==
  [sim EXCEPT !.orders = [i \in DOMAIN @ |-> IF @[i].id \in chosen THEN [@[i] EXCEPT !.status = status] ELSE @[i]]]

cancel(sim, id) ==
  SetStatus(sim, {id} \ { o.id : o \in { x \in Range(sim.orders) : is_terminal(x) } }, "canceled")

LegsOf(sim, id) == SelectSeq(sim.orders, LAMBDA o : o.parent = id)

equity(sim) == sim.cash + MapThenSumSet(LAMBDA s : sim.positions[s].qty * sim.positions[s].last, Symbols)

_fill(sim, id, px, ts) ==
  [sim EXCEPT !.orders = [i \in DOMAIN @ |->
     IF @[i].id = id THEN [@[i] EXCEPT !.status = "filled", !.filled_price = px, !.filled_at = ts] ELSE @[i]]]

_open(sim, symbol, qty, px) ==
  [sim EXCEPT !.cash = @ - qty * px,
              !.positions[symbol] = IF @.qty > 0 THEN [@ EXCEPT !.qty = @ + qty] ELSE [qty |-> qty, last |-> px]]

\* Any other sell that works or waits for the symbol is moot now.
Moot(sim, symbol) ==
  { o.id : o \in { x \in Range(sim.orders) :
      x.symbol = symbol /\ x.type # "limit" /\ x.status \in {"accepted", "held"} } }

_close(sim, symbol, qty, px) ==
  LET held == sim.positions[symbol].qty
      q == Lesser(qty, held) IN
  IF held = 0 THEN sim
  ELSE SetStatus([sim EXCEPT !.cash = @ + q * px,
                             !.positions[symbol] = IF held = q THEN [qty |-> 0, last |-> 0]
                                                               ELSE [@ EXCEPT !.qty = held - q]],
                 Moot(sim, symbol), "canceled")

BuyFills(o, bar) == o.type = "limit" /\ bar.low <= o.price
StopFills(sim, o, bar) == o.type = "stop" /\ bar.low <= o.price /\ sim.positions[o.symbol].qty > 0
\* Mutant: the leg stays held when its buy fills.
Activated_Held(sim, id) == sim

Activated(sim, id) == SetStatus(sim, { o.id : o \in Range(LegsOf(sim, id)) }, "accepted")

\* One order of the symbol against the bar.
FillAgainst(sim, i, bar) ==
  LET o == sim.orders[i]
      buy_px == Lesser(o.price, bar.open) + Slip
      stop_px == Lesser(o.price, bar.open) - Slip
      sell_px == bar.open - Slip IN
  CASE o.symbol # bar.symbol \/ o.status # "accepted" -> sim
    [] BuyFills(o, bar) ->
         Activated(_open(_fill(sim, o.id, buy_px, bar.ts), o.symbol, o.qty, buy_px), o.id)
    [] o.type = "market" -> _close(_fill(sim, o.id, sell_px, bar.ts), o.symbol, o.qty, sell_px)
    [] StopFills(sim, o, bar) -> _close(_fill(sim, o.id, stop_px, bar.ts), o.symbol, o.qty, stop_px)
    [] OTHER -> sim

process_bar(sim, bar) ==
  LET begun == [sim EXCEPT !.now = bar.ts]
      filled == FoldLeft(LAMBDA b, i : FillAgainst(b, i, bar), begun, [i \in DOMAIN sim.orders |-> i]) IN
  IF filled.positions[bar.symbol].qty = 0 THEN filled
  ELSE [filled EXCEPT !.positions[bar.symbol].last = bar.close]

\* A sell the order manager already has in the market is filled; otherwise one is made.
Working(sim, symbol) ==
  SelectSeq(sim.orders, LAMBDA o : o.symbol = symbol /\ o.type = "market" /\ o.status = "accepted")

\* Mutant: a sell of its own beside the one in the market.
ForceClose_NewOrder(sim, symbol, last, ts) ==
  LET qty == sim.positions[symbol].qty
      px == last - Slip IN
  IF qty = 0 THEN sim
  ELSE _close(_fill(submit_market_sell(sim, symbol, qty), FreeId(sim), px, ts), symbol, qty, px)

ForceClose(sim, symbol, last, ts) ==
  LET qty == sim.positions[symbol].qty
      sent == IF Working(sim, symbol) # <<>> THEN sim ELSE submit_market_sell(sim, symbol, qty)
      px == last - Slip IN
  IF qty = 0 THEN sim
  ELSE _close(_fill(sent, Working(sent, symbol)[1].id, px, ts), symbol, qty, px)

force_close_all(sim, prices, ts) ==
  FoldLeft(LAMBDA b, s : ForceClose(b, s, prices[s], ts), sim, SetToSeq(DOMAIN prices))

\* Ended orders outside Kept, and legs no buy will activate any more, are dropped: nothing reads them.
Live(sim, o) ==
  \/ o.status = "accepted"
  \/ o.status = "held" /\ \E i \in DOMAIN sim.orders :
       sim.orders[i].id = o.parent /\ sim.orders[i].status = "accepted"
Forget(sim, Kept) == [sim EXCEPT !.orders = SelectSeq(@, LAMBDA o : o.id \in Kept \/ Live(sim, o))]
=============================================================================
