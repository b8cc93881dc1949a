---------------------------- MODULE OrderManager ----------------------------
(***************************************************************************)
(* execution/order_manager.py: one live slot's OrderManager with its       *)
(* PositionBook, run by the bot's single thread against a venue that runs  *)
(* on its own.                                                             *)
(*                                                                         *)
(* An operation of the code is cut where it calls the broker: a step is    *)
(* the local work up to a call, together with that call, so the venue can  *)
(* act between any two calls and what was read may be stale when it is     *)
(* used.  pc says which call comes next; cur holds the locals of the       *)
(* operation, todo the rest of the list(...) snapshot a loop walks.        *)
(***************************************************************************)
EXTENDS PositionBook, FiniteSetsExt

CONSTANTS
  NoSymbol,             \* no symbol is being worked on
  max_positions,        \* entry.max_positions
  max_entries,          \* entry.max_entries_per_symbol_per_day
  STOP_SETTLE_CHECKS,   \* reads of a cancelled stop before giving up
  verify_holdings,      \* live slots check the holding before they sell
  Faults                \* what the surroundings may do, of AllFaults

\* reject: the venue ends an order nobody cancelled.  expire: it ends one that
\* has filled in part.  late_fill: a buy fills between the poll's last look at it and the venue's cancel.  slow_cancel: a
\* cancelled stop is still pending_cancel after the last settle check.
\* partial_fill: an order fills in parts.  read_error: reading an order or the
\* positions fails after its retries.  cancel_error: a cancel request is lost.
\* submit_error: a market sell is refused.  lost_reply: it is taken, but the
\* call raises.  outside_close: the owner closes a position by hand.
AllFaults == {"reject", "expire", "late_fill", "slow_cancel", "partial_fill", "read_error",
              "cancel_error", "submit_error", "lost_reply", "outside_close"}

ASSUME NoSymbolAssumption == NoSymbol \notin Symbols
ASSUME LimitsAssumption == /\ max_positions \in Nat
                           /\ max_entries \in Nat
                           /\ STOP_SETTLE_CHECKS \in Nat \ {0}
ASSUME FlagsAssumption == verify_holdings \in BOOLEAN /\ Faults \subseteq AllFaults

VARIABLES
  pc,         \* the next call to the broker
  cur,        \* locals: symbol, qty, settle checks made, called by flatten_all
  todo,       \* symbols the running loop has still to visit
  booked,     \* self._booked: trades closed outside poll()
  completed,  \* poll()'s local list of trades
  trades,     \* self.trades, and the trades table
  handed      \* every trade a poll() has returned to the runner

omVars == << pc, cur, todo, booked, completed, trades, handed >>
vars == << brokerVars, bookVars, omVars >>

Trade == [sym : Symbols, qty : Nat, exit_order_id : Nat, entry_order_id : Nat]

PC == {"idle", "settle", "hold", "submit", "flatten", "cancel_entries",
       "entries", "timeout_cancel", "exits", "stops"}

Locals == [sym : Symbols \cup {NoSymbol}, qty : Int, checks : Nat,
           flattening : BOOLEAN]

NoLocals == [sym |-> NoSymbol, qty |-> 0, checks |-> 0, flattening |-> FALSE]

TypeOK ==
  /\ BrokerTypeOK
  /\ BookTypeOK
  /\ pc \in PC
  /\ cur \in Locals
  /\ todo \subseteq Symbols
  /\ booked \subseteq Trade
  /\ completed \subseteq Trade
  /\ trades \subseteq Trade
  /\ handed \subseteq Trade

Init ==
  /\ BrokerInit
  /\ BookInit
  /\ pc = "idle"
  /\ cur = NoLocals
  /\ todo = {}
  /\ booked = {}
  /\ completed = {}
  /\ trades = {}
  /\ handed = {}

\* An operation is over: back to the loop that called it, or to the runner.
Return ==
  /\ cur' = NoLocals
  /\ pc' = IF cur.flattening THEN "flatten" ELSE "idle"
  /\ UNCHANGED todo

\* It raised: handle() logs and goes on, flatten_all() gives up its loop.
Raise ==
  /\ cur' = NoLocals
  /\ pc' = "idle"
  /\ todo' = {}

----------------------------------------------------------------------------
(* handle(): a BUY.  The strategy signals no symbol more than max_entries  *)
(* times a day.  A submit that raises leaves no trace here, except a taken *)
(* one whose reply is lost.                                                *)
_buy(s) ==
  /\ pc = "idle"
  /\ entries_today[s] < max_entries
  /\ ~has(s)
  /\ pending_entries[s] = 0
  /\ SlotOpen(max_positions)
  /\ \E q \in Quantities, withStop \in BOOLEAN :
       /\ Room(3)
       /\ submit_limit_buy(s, q, withStop)
  /\ \/ pending_entries' = [pending_entries EXCEPT ![s] = Len(orders) + 1]
     \/ "lost_reply" \in Faults /\ UNCHANGED pending_entries
  /\ UNCHANGED << holdings, positions, pending_exits, entries_today, omVars >>

(* handle(), flatten_all(): a SELL, up to its first call.                  *)
BeginSell(s, flattening) ==
  LET pos == positions[s] IN
  /\ has(s)
  /\ ~pos.exit_pending
  /\ Room(1)
  /\ positions' = [positions EXCEPT ![s].exit_pending = TRUE]
  /\ cur' = [sym |-> s, qty |-> pos.qty, checks |-> 0, flattening |-> flattening]
  /\ IF pos.stop_order_id # 0
       THEN /\ pc' = "settle"
            /\ \/ cancel(pos.stop_order_id)
               \/ "cancel_error" \in Faults /\ UNCHANGED orders
       ELSE /\ pc' = IF verify_holdings THEN "hold" ELSE "submit"
            /\ UNCHANGED orders
  /\ UNCHANGED << holdings, pending_entries, pending_exits, entries_today,
                  booked, completed, trades, handed >>

_sell(s) ==
  /\ pc = "idle"
  /\ BeginSell(s, FALSE)
  /\ UNCHANGED todo

\* Mutant: a part the stop sold is sold again.
AfterSettle_SellsAll(s, q) ==
  /\ positions' = [positions EXCEPT ![s].stop_order_id = 0]
  /\ cur' = cur
  /\ pc' = IF verify_holdings THEN "hold" ELSE "submit"
  /\ UNCHANGED << brokerVars, pending_entries, pending_exits, entries_today,
                  todo, booked, completed, trades, handed >>

\* The stop is out of the way: sell what it left.
AfterSettle(s, q) ==
  /\ positions' = [positions EXCEPT ![s].stop_order_id = 0]
  /\ cur' = [cur EXCEPT !.qty = q]
  /\ pc' = IF verify_holdings THEN "hold" ELSE "submit"
  /\ UNCHANGED << brokerVars, pending_entries, pending_exits, entries_today,
                  todo, booked, completed, trades, handed >>

\* _book_stop_fill: the stop sold the position.
BookStopFill(s, i) ==
  /\ close(s)
  /\ trades' = trades \cup {TradeOf(s, i)}

(* _settle_stop: one read of the cancelled stop.                           *)
_settle_stop ==
  LET s == cur.sym
      i == positions[s].stop_order_id
      stop == orders[i]
      last == cur.checks + 1 >= STOP_SETTLE_CHECKS
  IN
  /\ pc = "settle"
  /\ \/ /\ stop.status = "pending_cancel"
        /\ ~last
        /\ cur' = [cur EXCEPT !.checks = @ + 1]
        /\ UNCHANGED << brokerVars, bookVars, pc, todo, booked, completed,
                        trades, handed >>
     \/ /\ is_filled(stop)
        /\ BookStopFill(s, i)
        /\ booked' = booked \cup {TradeOf(s, i)}
        /\ Return
        /\ UNCHANGED << brokerVars, completed, handed >>
     \/ /\ ~is_filled(stop)
        /\ stop.status = "pending_cancel" => last /\ "slow_cancel" \in Faults
        /\ AfterSettle(s, IF cur.qty > stop.filled THEN cur.qty - stop.filled ELSE 0)
     \/ /\ "read_error" \in Faults
        /\ AfterSettle(s, cur.qty)

(* _held and what _sell makes of it.                                       *)
_held ==
  LET s == cur.sym
      held == holdings[s]
  IN
  /\ pc = "hold"
  /\ \/ /\ held < cur.qty
        /\ held <= 0
        /\ PopPosition(s)
        /\ Return
     \/ /\ held >= cur.qty \/ held > 0
        /\ cur' = [cur EXCEPT !.qty = IF held < @ THEN held ELSE @]
        /\ pc' = "submit"
        /\ UNCHANGED << bookVars, todo >>
     \/ /\ "read_error" \in Faults
        /\ pc' = "submit"
        /\ UNCHANGED << bookVars, cur, todo >>
  /\ UNCHANGED << brokerVars, booked, completed, trades, handed >>

(* The market sell.  When the call raises, exit_pending stays set.         *)
SubmitSell ==
  LET s == cur.sym IN
  /\ pc = "submit"
  /\ \/ /\ cur.qty <= 0
        /\ Return
        /\ UNCHANGED << orders, pending_exits >>
     \/ /\ cur.qty > 0
        /\ submit_market_sell(s, cur.qty, positions[s].entry_order_id)
        /\ \/ /\ pending_exits' = [pending_exits EXCEPT ![s] = Len(orders) + 1]
              /\ Return
           \/ /\ "lost_reply" \in Faults
              /\ UNCHANGED pending_exits
              /\ Raise
     \/ /\ cur.qty > 0
        /\ "submit_error" \in Faults
        /\ Raise
        /\ UNCHANGED << orders, pending_exits >>
  /\ UNCHANGED << holdings, positions, pending_entries, entries_today,
                  booked, completed, trades, handed >>

----------------------------------------------------------------------------
(* flatten_all and cancel_pending_entries                                  *)

Walk(next, S) ==
  /\ pc' = next
  /\ todo' = S

flatten_all ==
  /\ pc = "idle"
  /\ Held # {}
  /\ Room(Cardinality(Held))
  /\ Walk("flatten", Held)
  /\ UNCHANGED << brokerVars, bookVars, cur, booked, completed, trades, handed >>

FlattenOne ==
  /\ pc = "flatten"
  /\ \/ \E s \in todo :
          /\ todo' = todo \ {s}
          /\ \/ BeginSell(s, TRUE)
             \/ /\ positions[s].exit_pending
                /\ UNCHANGED << brokerVars, bookVars, pc, cur, booked, completed,
                                trades, handed >>
     \/ /\ todo = {}
        /\ Walk("idle", {})
        /\ UNCHANGED << brokerVars, bookVars, cur, booked, completed, trades,
                        handed >>

cancel_pending_entries ==
  /\ pc = "idle"
  /\ Entering # {}
  /\ Walk("cancel_entries", Entering)
  /\ UNCHANGED << brokerVars, bookVars, cur, booked, completed, trades, handed >>

CancelOneEntry ==
  /\ pc = "cancel_entries"
  /\ \/ \E s \in todo :
          /\ \/ cancel(pending_entries[s])
             \/ "cancel_error" \in Faults /\ UNCHANGED orders
          /\ PopEntry(s)
          /\ Walk("cancel_entries", todo \ {s})
     \/ /\ todo = {}
        /\ Walk("idle", {})
        /\ UNCHANGED << orders, bookVars >>
  /\ UNCHANGED << holdings, cur, booked, completed, trades, handed >>

----------------------------------------------------------------------------
(* poll                                                                    *)

\* A get_order that raises ends the poll; its list of trades goes with it.
PollRaises ==
  /\ "read_error" \in Faults
  /\ pc \in {"entries", "exits", "stops"}
  /\ todo # {}
  /\ completed' = {}
  /\ Raise
  /\ UNCHANGED << brokerVars, bookVars, booked, trades, handed >>

\* Mutant: trades booked between polls are cleared, not handed on.
PollStart_DropsBooked ==
  /\ pc = "idle"
  /\ completed' = {}
  /\ booked' = {}
  /\ Walk("entries", Entering)
  /\ UNCHANGED << brokerVars, bookVars, cur, trades, handed >>

PollStart ==
  /\ pc = "idle"
  /\ completed' = booked
  /\ booked' = {}
  /\ Walk("entries", Entering)
  /\ UNCHANGED << brokerVars, bookVars, cur, trades, handed >>

\* The position a buy opens; qty is what the read said had filled.
Opened(i, q, stop) == [qty |-> q, stop_order_id |-> stop, exit_pending |-> FALSE,
                       entry_order_id |-> i]

PollEntry(s) ==
  LET i == pending_entries[s]
      res == orders[i]
  IN
  /\ pc = "entries"
  /\ s \in todo
  /\ \/ /\ is_filled(res)
        /\ open(s, Opened(i, res.filled, res.leg))
        /\ Walk("entries", todo \ {s})
        /\ UNCHANGED cur
     \/ /\ is_terminal(res)
        /\ ~is_filled(res)
        /\ PopEntry(s)
        /\ Walk("entries", todo \ {s})
        /\ UNCHANGED cur
     \/ /\ ~is_terminal(res)
        /\ Walk("entries", todo \ {s})
        /\ UNCHANGED << bookVars, cur >>
  /\ UNCHANGED << brokerVars, booked, completed, trades, handed >>

\* entry_fill_timeout_seconds have passed since the buy went out.
EntryTimesOut(s) ==
  LET res == orders[pending_entries[s]] IN
  /\ pc = "entries"
  /\ s \in todo
  /\ ~is_terminal(res)
  /\ cur' = [NoLocals EXCEPT !.sym = s, !.qty = res.filled]
  /\ Walk("timeout_cancel", todo \ {s})
  /\ UNCHANGED << brokerVars, bookVars, booked, completed, trades, handed >>

\* Mutant: a buy that timed out is forgotten, filled in part or not.
CancelTimedOut_DropsPart ==
  /\ pc = "timeout_cancel"
  /\ cancel(pending_entries[cur.sym])
  /\ PopEntry(cur.sym)
  /\ cur' = NoLocals
  /\ pc' = "entries"
  /\ UNCHANGED << holdings, todo, booked, completed, trades, handed >>

\* The cancel, and a book entry from what was read before it.
CancelTimedOut ==
  LET s == cur.sym
      i == pending_entries[s]
  IN
  /\ pc = "timeout_cancel"
  /\ \/ cancel(i)
     \/ "cancel_error" \in Faults /\ UNCHANGED orders
  /\ IF cur.qty > 0 THEN open(s, Opened(i, cur.qty, 0)) ELSE PopEntry(s)
  /\ cur' = NoLocals
  /\ pc' = "entries"
  /\ UNCHANGED << holdings, todo, booked, completed, trades, handed >>

PollExits ==
  /\ pc = "entries"
  /\ todo = {}
  /\ Walk("exits", Exiting)
  /\ UNCHANGED << brokerVars, bookVars, cur, booked, completed, trades, handed >>

PollExit(s) ==
  LET i == pending_exits[s]
      res == orders[i]
  IN
  /\ pc = "exits"
  /\ s \in todo
  /\ Walk("exits", todo \ {s})
  /\ \/ /\ is_filled(res)
        /\ close(s)
        /\ completed' = completed \cup {TradeOf(s, i)}
        /\ trades' = trades \cup {TradeOf(s, i)}
     \/ /\ is_terminal(res)
        /\ ~is_filled(res)
        /\ pending_exits' = [pending_exits EXCEPT ![s] = 0]
        /\ positions' = IF has(s) THEN [positions EXCEPT ![s].exit_pending = FALSE]
                                  ELSE positions
        /\ UNCHANGED << pending_entries, entries_today, completed, trades >>
     \/ /\ ~is_terminal(res)
        /\ UNCHANGED << bookVars, completed, trades >>
  /\ UNCHANGED << brokerVars, cur, booked, handed >>

\* Positions whose stop the book knows and that no exit is under way for.
Guarded == {s \in Held : positions[s].stop_order_id # 0 /\ ~positions[s].exit_pending}

PollStops ==
  /\ pc = "exits"
  /\ todo = {}
  /\ Walk("stops", Guarded)
  /\ UNCHANGED << brokerVars, bookVars, cur, booked, completed, trades, handed >>

\* A server-side stop may have fired while nobody was looking.
PollStop(s) ==
  LET i == positions[s].stop_order_id IN
  /\ pc = "stops"
  /\ s \in todo
  /\ Walk("stops", todo \ {s})
  /\ \/ /\ is_filled(orders[i])
        /\ BookStopFill(s, i)
        /\ completed' = completed \cup {TradeOf(s, i)}
     \/ /\ ~is_filled(orders[i])
        /\ UNCHANGED << bookVars, completed, trades >>
  /\ UNCHANGED << brokerVars, cur, booked, handed >>

PollReturns ==
  /\ pc = "stops"
  /\ todo = {}
  /\ handed' = handed \cup completed
  /\ completed' = {}
  /\ Walk("idle", {})
  /\ UNCHANGED << brokerVars, bookVars, cur, booked, trades >>

----------------------------------------------------------------------------
(* The venue.                                                              *)

\* The buy a poll has read for the last time, or that a cancel is out for.
Closing(i) ==
  /\ orders[i].kind = "buy"
  /\ \/ orders[i].status = "pending_cancel"
     \/ pc = "timeout_cancel" /\ pending_entries[cur.sym] = i

VenueFills(i) ==
  /\ Closing(i) => "late_fill" \in Faults
  /\ \E k \in 1 .. orders[i].qty :
       /\ k = orders[i].qty - orders[i].filled \/ "partial_fill" \in Faults
       /\ Fill(i, k)
  /\ UNCHANGED << bookVars, omVars >>

\* Settles a cancel, or ends an order nobody cancelled.
VenueEnds(i) ==
  /\ \/ orders[i].status = "pending_cancel"
     \/ "reject" \in Faults /\ orders[i].status = "new" /\ orders[i].filled = 0
     \/ "expire" \in Faults /\ orders[i].status = "new" /\ orders[i].filled > 0
  /\ End(i)
  /\ UNCHANGED << bookVars, omVars >>

\* The owner closes the position of s by hand; the venue cancels its stops first.
OwnerCloses(s) ==
  /\ "outside_close" \in Faults
  /\ holdings[s] > 0
  /\ \A i \in OrderIds : orders[i].sym = s /\ Working(orders[i]) => orders[i].kind = "stop"
  /\ holdings' = [holdings EXCEPT ![s] = 0]
  /\ orders' = [i \in OrderIds |->
       IF orders[i].sym = s /\ Working(orders[i])
         THEN [orders[i] EXCEPT !.status = "canceled"] ELSE orders[i]]
  /\ UNCHANGED << bookVars, omVars >>

----------------------------------------------------------------------------
Bot ==
  \/ \E s \in Symbols :
       _buy(s) \/ _sell(s) \/ PollEntry(s) \/ EntryTimesOut(s)
       \/ PollExit(s) \/ PollStop(s)
  \/ _settle_stop \/ _held \/ SubmitSell
  \/ flatten_all \/ FlattenOne \/ cancel_pending_entries \/ CancelOneEntry
  \/ PollStart \/ CancelTimedOut \/ PollExits \/ PollStops \/ PollReturns
  \/ PollRaises

Venue ==
  \/ \E i \in OrderIds : VenueFills(i) \/ VenueEnds(i)
  \/ \E s \in Symbols : OwnerCloses(s)

Next == Bot \/ Venue

Spec == Init /\ [][Next]_vars

(* Fairness.  An operation that began goes on: the bot is one thread and   *)
(* no call blocks for ever.  The runner polls on every tick, whatever else *)
(* it does between polls, and time passes, so a buy that is read again and *)
(* again is at last read past its timeout.  The venue settles cancels and  *)
(* fills market sells.                                                     *)
GoesOn ==
  \/ \E s \in Symbols : PollEntry(s) \/ PollExit(s) \/ PollStop(s)
  \/ _settle_stop \/ _held \/ SubmitSell \/ FlattenOne \/ CancelOneEntry
  \/ CancelTimedOut \/ PollExits \/ PollStops \/ PollReturns

Fairness ==
  /\ WF_vars(GoesOn)
  /\ SF_vars(PollStart)
  /\ \A s \in Symbols : SF_vars(EntryTimesOut(s))
  /\ \A i \in 1 .. MaxOrders :
       /\ WF_vars(i \in OrderIds /\ orders[i].status = "pending_cancel" /\ VenueEnds(i))
       /\ WF_vars(i \in OrderIds /\ orders[i].kind = "sell" /\ VenueFills(i))

FairSpec == Spec /\ Fairness

----------------------------------------------------------------------------
(* Properties                                                              *)

\* The slot never commits to more than max_positions symbols, however buys
\* fill, time out or are cancelled between two signals.
SlotBound == Cardinality(Held) + Cardinality(Entering) <= max_positions

----------------------------------------------------------------------------
(* The inductive invariant: what ties the book, the trade record and the   *)
(* control state to the venue's orders.                                    *)

\* What has filled never exceeds the order; a stop leg closes its own buy.
OrdersOK ==
  /\ Len(orders) <= MaxOrders
  /\ \A i \in OrderIds :
       /\ orders[i].filled <= orders[i].qty
       /\ 0 < orders[i].qty
       /\ is_filled(orders[i]) => orders[i].filled = orders[i].qty
       /\ orders[i].leg # 0 => /\ orders[i].leg \in OrderIds
                               /\ orders[orders[i].leg].kind = "stop"
                               /\ orders[orders[i].leg].entry = i

BuyOf(s, i) == i \in OrderIds /\ orders[i].kind = "buy" /\ orders[i].sym = s

ClosesEntry(i, e) == i \in OrderIds /\ orders[i].kind # "buy" /\ orders[i].entry = e

\* What the book says of a symbol agrees with itself and with the orders.
SymbolOK(s) ==
  /\ has(s) => /\ pending_entries[s] = 0
               /\ BuyOf(s, positions[s].entry_order_id)
               /\ positions[s].stop_order_id # 0 =>
                    ClosesEntry(positions[s].stop_order_id, positions[s].entry_order_id)
  /\ ~has(s) => positions[s] = NoPosition
  /\ pending_entries[s] # 0 => BuyOf(s, pending_entries[s])
  /\ pending_exits[s] # 0 => /\ has(s)
                             /\ positions[s].exit_pending
                             /\ positions[s].stop_order_id = 0
                             /\ ClosesEntry(pending_exits[s], positions[s].entry_order_id)

BookOK == \A s \in Symbols : SymbolOK(s)

\* A trade closes one buy of its symbol, which no other position comes from.
TradesOK ==
  \A t \in trades :
    /\ t.qty > 0
    /\ BuyOf(t.sym, t.entry_order_id)
    /\ ClosesEntry(t.exit_order_id, t.entry_order_id)
    /\ t.entry_order_id # pending_entries[t.sym]
    /\ t.entry_order_id # positions[t.sym].entry_order_id

Selling == pc \in {"settle", "hold", "submit"}

ControlOK ==
  /\ cur.flattening => Selling
  /\ Selling => /\ cur.sym \in Symbols
                /\ has(cur.sym) /\ positions[cur.sym].exit_pending
                /\ pending_exits[cur.sym] = 0
                /\ Len(orders) < MaxOrders
                /\ pc = "settle" <=> positions[cur.sym].stop_order_id # 0
                /\ cur.flattening \/ todo = {}
                /\ todo \subseteq Held \ {cur.sym}
  /\ pc = "hold" => verify_holdings
  /\ pc = "idle" => todo = {}
  /\ pc = "flatten" => todo \subseteq Held
  /\ pc \in {"entries", "cancel_entries"} => todo \subseteq Entering
  /\ pc = "timeout_cancel" => cur.sym \in Entering /\ todo \subseteq Entering \ {cur.sym}
  /\ pc = "exits" => todo \subseteq Exiting
  /\ pc = "stops" => todo \subseteq Guarded

\* Holds in every state, under every fault, and is preserved by every step.
IInv == TypeOK /\ OrdersOK /\ BookOK /\ TradesOK /\ ControlOK

----------------------------------------------------------------------------
SellOrders(e) == {i \in OrderIds : orders[i].kind # "buy" /\ orders[i].entry = e}

\* The sum of what a function assigns.
Total(f) == MapThenSumSet(LAMBDA i : f[i], DOMAIN f)

Sold(e) == Total([i \in 1 .. MaxOrders |-> IF i \in SellOrders(e) THEN orders[i].filled ELSE 0])

\* What one buy brought in is sold at most once, by its stop and the bot's own
\* sells together: no sell opens a short (the NUWE race of 2026-10-29).
SoldWithinBought ==
  \A e \in OrderIds : orders[e].kind = "buy" => Sold(e) <= orders[e].filled

\* The trade record tells how many shares really went: the position's size is
\* what its stop and its market sells have sold.
TradeMatchesFills ==
  \A t \in trades : t.qty > 0 /\ Sold(t.entry_order_id) = t.qty

\* Every trade of the day has been returned by a poll or is still on its way to
\* one: the runner's realised P&L, which the risk halts read, misses none.
TradesHandedOut == trades = handed \cup completed \cup booked

\* When a buy is given up at its timeout, what it has filled by then is in the
\* book ("A partial fill is kept", docs/features/07-order-execution.md).
PartialFillKept ==
  [][\A s \in Symbols :
       pc = "timeout_cancel" /\ pending_entries[s] # 0 /\ pending_entries'[s] = 0
         => positions'[s].qty = orders[pending_entries[s]].filled]_vars

\* What the book and the trade record show of a symbol, as PositionLifecycle
\* tells it.
PhaseOf(s) ==
  IF has(s) THEN IF positions[s].exit_pending THEN "exiting" ELSE "held"
            ELSE IF pending_entries[s] # 0 THEN "entering" ELSE "flat"

TradesOf(s) == {t.exit_order_id : t \in {u \in trades : u.sym = s}}

Phase == [s \in Symbols |-> PhaseOf(s)]
Closed == [s \in Symbols |-> TradesOf(s)]

Lifecycle == INSTANCE PositionLifecycle WITH
  ExitOrders <- 1 .. MaxOrders,
  Limit <- max_positions,
  MayVanish <- verify_holdings,
  phase <- Phase,
  closed <- Closed

\* The order manager implements the lifecycle: no call, poll, fault or reply of
\* the venue takes a symbol along another path, and no exit order is booked twice.
ImplementsLifecycle == Lifecycle!LSpec

\* A buy in flight is settled in the end: filled, ended by the venue, or timed out.
EntryResolves ==
  \A s \in Symbols : pending_entries[s] # 0 ~> pending_entries[s] = 0

\* An exit that has begun ends: the position is gone, or it is free to be sold
\* again.  No position stays marked as exiting with nothing under way for it.
ExitResolves == \A s \in Symbols : positions[s].exit_pending ~> ~positions[s].exit_pending

\* A position closed in the book is reported to the runner in the end.
TradeReported ==
  \A i \in 1 .. MaxOrders :
    (\E t \in trades : t.exit_order_id = i) ~> (\E t \in handed : t.exit_order_id = i)
=============================================================================
