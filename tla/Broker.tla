------------------------------- MODULE Broker -------------------------------
(***************************************************************************)
(* The venue behind execution/broker.py: one account at Alpaca, seen       *)
(* through the calls the bot makes (submit_limit_buy, submit_market_sell,  *)
(* cancel, get_order, positions).  The venue is not part of the            *)
(* repository; it is modelled from how the code uses it and runs           *)
(* concurrently with the bot.                                              *)
(*                                                                         *)
(* A limit buy may carry a protective stop: one-triggers-other, so the     *)
(* stop leg is "held" until the buy has filled in full, and dies with a    *)
(* buy that ends before that.  Orders fill in parts.  A cancel is a        *)
(* request: the order is "pending_cancel" until the venue settles it, and  *)
(* it can still fill before that.                                          *)
(***************************************************************************)
EXTENDS Integers, Sequences, FiniteSets

CONSTANTS
  Symbols,      \* the symbols traded
  Quantities,   \* the order sizes the allocator hands out
  MaxOrders     \* bound: orders the venue sees in a behaviour

ASSUME SymbolsAssumption == IsFiniteSet(Symbols)
ASSUME QuantitiesAssumption == Quantities \subseteq Nat \ {0}
ASSUME MaxOrdersAssumption == MaxOrders \in Nat

VARIABLES
  orders,       \* every order of the account, by order id (its index)
  holdings      \* signed shares the account holds, per symbol

brokerVars == << orders, holdings >>

\* The reading of OrderResult.status the bot tells apart.  "new" is any status
\* of an order that works, in part filled or not; "canceled" is every terminal
\* status but "filled" (rejected, expired, done_for_day, ...).
Status == {"held", "new", "pending_cancel", "filled", "canceled"}

\* kind: the side and type; entry: the buy whose shares a sell order closes (a
\* history tag; 0 for a buy); leg: the stop leg of a buy, 0 for none.
Order == [sym : Symbols, kind : {"buy", "stop", "sell"}, status : Status,
          qty : Nat, filled : Nat, entry : Nat, leg : Nat]

OrderIds == 1 .. Len(orders)

BrokerTypeOK ==
  /\ orders \in Seq(Order)
  /\ holdings \in [Symbols -> Int]

BrokerInit ==
  /\ orders = << >>
  /\ holdings = [s \in Symbols |-> 0]

\* Mutants: an order with any fill counts as filled; only a fill is terminal.
is_filled_InPart(o) == o.filled > 0
is_terminal_FilledOnly(o) == o.status = "filled"

is_filled(o) == o.status = "filled"
is_terminal(o) == o.status \in {"filled", "canceled"}
Working(o) == o.status \in {"new", "pending_cancel"}

----------------------------------------------------------------------------
(* What the calls of the bot do at the venue.                              *)

\* Room for n more orders under the bound.
Room(n) == Len(orders) + n <= MaxOrders

\* submit_limit_buy: the buy and, when asked for, its stop leg behind it.
submit_limit_buy(s, q, withStop) ==
  LET buy == [sym |-> s, kind |-> "buy", status |-> "new", qty |-> q,
              filled |-> 0, entry |-> 0,
              leg |-> IF withStop THEN Len(orders) + 2 ELSE 0]
      stop == [sym |-> s, kind |-> "stop", status |-> "held", qty |-> q,
               filled |-> 0, entry |-> Len(orders) + 1, leg |-> 0]
  IN  orders' = IF withStop THEN Append(Append(orders, buy), stop)
                            ELSE Append(orders, buy)

\* submit_market_sell of q shares that were bought by order e.
submit_market_sell(s, q, e) ==
  orders' = Append(orders, [sym |-> s, kind |-> "sell", status |-> "new",
                            qty |-> q, filled |-> 0, entry |-> e, leg |-> 0])

\* cancel: a request; an order that works no more is left as it is, and the
\* client swallows the venue's error.
cancel(i) ==
  orders' = IF orders[i].status = "new"
              THEN [orders EXCEPT ![i].status = "pending_cancel"]
              ELSE orders

----------------------------------------------------------------------------
(* What the venue does on its own.                                         *)

\* Order i gets k more shares.  A buy that completes wakes its stop leg.
Fill(i, k) ==
  LET o == orders[i]
      done == o.filled + k = o.qty
  IN  /\ Working(o)
      /\ k \in 1 .. (o.qty - o.filled)
      /\ orders' = [j \in OrderIds |->
           IF j = i
             THEN [o EXCEPT !.filled = o.filled + k,
                            !.status = IF done THEN "filled" ELSE o.status]
             ELSE IF j = o.leg /\ done
                    THEN [orders[j] EXCEPT !.status = "new"]
                    ELSE orders[j]]
      /\ holdings' = [holdings EXCEPT ![o.sym] =
                        IF o.kind = "buy" THEN @ + k ELSE @ - k]

\* Order i ends without filling (any further): a cancel settles, or the order
\* is rejected or expires.  The stop leg of a buy ends with it.
End(i) ==
  LET o == orders[i] IN
  /\ Working(o)
  /\ orders' = [j \in OrderIds |->
       IF j = i \/ j = o.leg THEN [orders[j] EXCEPT !.status = "canceled"]
                             ELSE orders[j]]
  /\ UNCHANGED holdings
=============================================================================
