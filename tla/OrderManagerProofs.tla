------------------------- MODULE OrderManagerProofs -------------------------
(***************************************************************************)
(* Theorems about OrderManager, for every set of symbols, every bound and  *)
(* every choice of faults.  The argument: IInv is inductive (one lemma per *)
(* group of actions); type correctness, the book's safety, the slot's      *)
(* limit and the refinement of PositionLifecycle follow.                   *)
(*                                                                         *)
(* The second part, from "The trades reported" on, is of what is sold,     *)
(* booked and reported of the shares that fill, while the venue and the    *)
(* network do what the code is written for.                                *)
(***************************************************************************)
EXTENDS OrderManager, SumTheorems, SequenceTheorems

(* A function on 1..n is a sequence of length n.                           *)
LEMMA FunctionIsSeq ==
  ASSUME NEW S, NEW n \in Nat, NEW f \in [1 .. n -> S]
  PROVE  f \in Seq(S) /\ Len(f) = n
<1>1. f \in Seq(S)
  BY SeqDef
<1>2. DOMAIN f = 1 .. Len(f) /\ Len(f) \in Nat
  BY <1>1, LenProperties
<1>3. DOMAIN f = 1 .. n
  OBVIOUS
<1> QED
  BY <1>1, <1>2, <1>3

\* What no step changes about an order once it is placed.
Kept ==
  \A i \in OrderIds :
    /\ i \in OrderIds'
    /\ orders'[i].kind = orders[i].kind
    /\ orders'[i].sym = orders[i].sym
    /\ orders'[i].entry = orders[i].entry

BrokerOK == BrokerTypeOK /\ OrdersOK

(* An order of the account has the type of one.                            *)
LEMMA OrderType ==
  ASSUME BrokerTypeOK, NEW i \in OrderIds
  PROVE  orders[i] \in Order
  BY DEF BrokerTypeOK, OrderIds

(* A step that rewrites orders in place, keeping what identifies them, and *)
(* leaves each with a consistent fill, keeps the account consistent.       *)
LEMMA RewriteKeeps ==
  ASSUME BrokerOK,
         NEW f \in [OrderIds -> Order],
         orders' = f,
         \A i \in OrderIds :
           /\ f[i].kind = orders[i].kind
           /\ f[i].sym = orders[i].sym
           /\ f[i].entry = orders[i].entry
           /\ f[i].leg = orders[i].leg
           /\ f[i].qty = orders[i].qty
           /\ f[i].filled <= f[i].qty
           /\ is_filled(f[i]) => f[i].filled = f[i].qty
  PROVE  orders' \in Seq(Order) /\ Len(orders') = Len(orders) /\ OrdersOK' /\ Kept
<1>1. orders' \in Seq(Order) /\ Len(orders') = Len(orders)
  BY FunctionIsSeq, LenProperties DEF BrokerOK, BrokerTypeOK, OrderIds
<1>2. OrderIds' = OrderIds
  BY <1>1 DEF OrderIds
<1>3. Kept
  BY <1>2 DEF Kept
<1>4. OrdersOK'
  BY <1>1, <1>2 DEF OrdersOK, BrokerOK, is_filled
<1> QED
  BY <1>1, <1>3, <1>4

(* cancel keeps the account consistent.                                    *)
LEMMA CancelKeeps ==
  ASSUME BrokerOK, NEW i \in OrderIds, cancel(i), UNCHANGED holdings
  PROVE  BrokerOK' /\ Kept /\ Len(orders') = Len(orders)
<1> DEFINE f == [j \in OrderIds |->
       IF j = i /\ orders[i].status = "new"
         THEN [orders[j] EXCEPT !.status = "pending_cancel"] ELSE orders[j]]
<1>1. orders' = f
  BY LenProperties DEF cancel, BrokerOK, BrokerTypeOK, OrderIds
<1>2. f \in [OrderIds -> Order]
  BY OrderType DEF Order, Status, BrokerOK
<1>3. \A j \in OrderIds : /\ f[j].kind = orders[j].kind
                          /\ f[j].sym = orders[j].sym
                          /\ f[j].entry = orders[j].entry
                          /\ f[j].leg = orders[j].leg
                          /\ f[j].qty = orders[j].qty
                          /\ f[j].filled <= f[j].qty
                          /\ is_filled(f[j]) => f[j].filled = f[j].qty
  BY OrderType DEF Order, Status, BrokerOK, OrdersOK, is_filled
<1>4. orders' \in Seq(Order) /\ Len(orders') = Len(orders) /\ OrdersOK' /\ Kept
  BY <1>1, <1>2, <1>3, RewriteKeeps
<1> QED
  BY <1>4 DEF BrokerOK, BrokerTypeOK

(* A fill keeps the account consistent.                                    *)
LEMMA FillKeeps ==
  ASSUME BrokerOK, NEW i \in OrderIds, NEW k \in Nat, Fill(i, k)
  PROVE  BrokerOK' /\ Kept /\ Len(orders') = Len(orders)
<1> DEFINE o == orders[i]
           done == o.filled + k = o.qty
           f == [j \in OrderIds |->
             IF j = i
               THEN [o EXCEPT !.filled = o.filled + k,
                              !.status = IF done THEN "filled" ELSE o.status]
               ELSE IF j = o.leg /\ done
                      THEN [orders[j] EXCEPT !.status = "new"]
                      ELSE orders[j]]
<1>1. orders' = f /\ k \in 1 .. (o.qty - o.filled) /\ Working(o)
  BY DEF Fill
<1>2. o \in Order
  BY OrderType DEF BrokerOK
<1>3. f \in [OrderIds -> Order]
  <2> SUFFICES ASSUME NEW j \in OrderIds PROVE f[j] \in Order
    OBVIOUS
  <2>1. orders[j] \in Order
    BY OrderType DEF BrokerOK
  <2>2. o.filled + k \in Nat
    BY <1>2 DEF Order
  <2>3. CASE j = i
    BY <1>2, <2>2, <2>3 DEF Order, Status
  <2>4. CASE j # i
    BY <2>1, <2>4 DEF Order, Status
  <2> QED
    BY <2>3, <2>4
<1>4. \A j \in OrderIds : /\ f[j].kind = orders[j].kind
                          /\ f[j].sym = orders[j].sym
                          /\ f[j].entry = orders[j].entry
                          /\ f[j].leg = orders[j].leg
                          /\ f[j].qty = orders[j].qty
                          /\ f[j].filled <= f[j].qty
                          /\ is_filled(f[j]) => f[j].filled = f[j].qty
  BY <1>1, <1>2, OrderType DEF Order, Status, BrokerOK, OrdersOK, is_filled, Working
<1>5. orders' \in Seq(Order) /\ Len(orders') = Len(orders) /\ OrdersOK' /\ Kept
  BY <1>1, <1>3, <1>4, RewriteKeeps
<1>6. holdings' \in [Symbols -> Int]
  <2>1. o.sym \in Symbols /\ holdings \in [Symbols -> Int]
    BY <1>2 DEF Order, BrokerOK, BrokerTypeOK
  <2>2. holdings[o.sym] + k \in Int /\ holdings[o.sym] - k \in Int
    BY <2>1
  <2>3. holdings' = [holdings EXCEPT ![o.sym] = IF o.kind = "buy"
                       THEN holdings[o.sym] + k ELSE holdings[o.sym] - k]
    BY DEF Fill
  <2>4. CASE o.kind = "buy"
    BY <2>1, <2>2, <2>3, <2>4
  <2>5. CASE o.kind # "buy"
    BY <2>1, <2>2, <2>3, <2>5
  <2> QED
    BY <2>4, <2>5
<1> QED
  BY <1>5, <1>6 DEF BrokerOK, BrokerTypeOK

(* An order that ends keeps the account consistent.                        *)
LEMMA EndKeeps ==
  ASSUME BrokerOK, NEW i \in OrderIds, End(i)
  PROVE  BrokerOK' /\ Kept /\ Len(orders') = Len(orders)
<1> DEFINE f == [j \in OrderIds |->
       IF j = i \/ j = orders[i].leg THEN [orders[j] EXCEPT !.status = "canceled"]
                                     ELSE orders[j]]
<1>1. orders' = f /\ UNCHANGED holdings
  BY DEF End
<1>2. f \in [OrderIds -> Order]
  BY OrderType DEF Order, Status, BrokerOK
<1>3. \A j \in OrderIds : /\ f[j].kind = orders[j].kind
                          /\ f[j].sym = orders[j].sym
                          /\ f[j].entry = orders[j].entry
                          /\ f[j].leg = orders[j].leg
                          /\ f[j].qty = orders[j].qty
                          /\ f[j].filled <= f[j].qty
                          /\ is_filled(f[j]) => f[j].filled = f[j].qty
  BY OrderType DEF Order, Status, BrokerOK, OrdersOK, is_filled
<1>4. orders' \in Seq(Order) /\ Len(orders') = Len(orders) /\ OrdersOK' /\ Kept
  BY <1>1, <1>2, <1>3, RewriteKeeps
<1> QED
  BY <1>1, <1>4 DEF BrokerOK, BrokerTypeOK

(* Placing a buy keeps the account consistent.                             *)
LEMMA BuyKeeps ==
  ASSUME BrokerOK, NEW s \in Symbols, NEW q \in Quantities, NEW w \in BOOLEAN,
         Room(3), submit_limit_buy(s, q, w), UNCHANGED holdings,
         NEW i \in Nat, i = Len(orders) + 1
  PROVE  BrokerOK' /\ Kept /\ BuyOf(s, i)' /\ i \notin OrderIds
<1> DEFINE n == Len(orders)
           buy == [sym |-> s, kind |-> "buy", status |-> "new", qty |-> q,
                   filled |-> 0, entry |-> 0, leg |-> IF w THEN n + 2 ELSE 0]
           stop == [sym |-> s, kind |-> "stop", status |-> "held", qty |-> q,
                    filled |-> 0, entry |-> n + 1, leg |-> 0]
           one == Append(orders, buy)
           two == Append(one, stop)
<1>1. orders \in Seq(Order) /\ n \in Nat /\ q \in Nat /\ q > 0
  BY QuantitiesAssumption, LenProperties DEF BrokerOK, BrokerTypeOK
<1>2. buy \in Order /\ stop \in Order
  BY <1>1 DEF Order, Status
<1>3. /\ one \in Seq(Order) /\ Len(one) = n + 1
      /\ \A j \in 1 .. n : one[j] = orders[j]
      /\ one[n + 1] = buy
  BY <1>1, <1>2
<1>4. /\ two \in Seq(Order) /\ Len(two) = n + 2
      /\ \A j \in 1 .. n : two[j] = orders[j]
      /\ two[n + 1] = buy /\ two[n + 2] = stop
  BY <1>1, <1>2, <1>3
<1>5. orders' = IF w THEN two ELSE one
  BY DEF submit_limit_buy
<1>6. n + 3 <= MaxOrders
  BY DEF Room
<1>7. BrokerTypeOK'
  BY <1>3, <1>4, <1>5 DEF BrokerOK, BrokerTypeOK
<1> HIDE DEF one, two
<1>8. Kept /\ BuyOf(s, i)' /\ i \notin OrderIds
  BY <1>1, <1>3, <1>4, <1>5 DEF Kept, OrderIds, BuyOf
<1>9. OrdersOK'
  <2>1. Len(orders') \in Nat /\ Len(orders') <= MaxOrders
    BY <1>1, <1>3, <1>4, <1>5, <1>6, MaxOrdersAssumption
  <2>2. ASSUME NEW j \in OrderIds'
        PROVE  /\ orders'[j].filled <= orders'[j].qty
               /\ 0 < orders'[j].qty
               /\ is_filled(orders'[j]) => orders'[j].filled = orders'[j].qty
               /\ orders'[j].leg # 0 => /\ orders'[j].leg \in OrderIds'
                                        /\ orders'[orders'[j].leg].kind = "stop"
                                        /\ orders'[orders'[j].leg].entry = j
    <3>1. j \in 1 .. n \/ j = n + 1 \/ (w /\ j = n + 2)
      BY <1>1, <1>3, <1>4, <1>5 DEF OrderIds
    <3>2. CASE j \in 1 .. n
      <4>1. \A m \in 1 .. n : orders'[m] = orders[m] /\ m \in OrderIds'
        BY <1>8 , <1>1, <1>3, <1>4, <1>5 DEF Kept, OrderIds
      <4>2. j \in OrderIds /\ orders'[j] = orders[j]
        BY <3>2, <4>1 DEF OrderIds
      <4> QED
        BY <4>1, <4>2 DEF OrderIds, BrokerOK, OrdersOK, is_filled
    <3>3. CASE j = n + 1
      BY <3>3, <1>1, <1>3, <1>4, <1>5 DEF OrderIds, is_filled
    <3>4. CASE w /\ j = n + 2
      BY <3>4, <1>1, <1>3, <1>4, <1>5 DEF OrderIds, is_filled
    <3> QED
      BY <3>1, <3>2, <3>3, <3>4
  <2> QED
    BY <2>1, <2>2 DEF OrdersOK
<1> QED
  BY <1>7, <1>8, <1>9 DEF BrokerOK

(* Placing a market sell keeps the account consistent.                     *)
LEMMA SellKeeps ==
  ASSUME BrokerOK, NEW s \in Symbols, NEW q \in Nat \ {0}, NEW e \in Nat,
         Room(1), submit_market_sell(s, q, e), UNCHANGED holdings,
         NEW x \in Nat, x = Len(orders) + 1
  PROVE  BrokerOK' /\ Kept /\ ClosesEntry(x, e)'
<1> DEFINE n == Len(orders)
           sell == [sym |-> s, kind |-> "sell", status |-> "new", qty |-> q,
                    filled |-> 0, entry |-> e, leg |-> 0]
           one == Append(orders, sell)
<1>1. orders \in Seq(Order) /\ n \in Nat
  BY LenProperties DEF BrokerOK, BrokerTypeOK
<1>2. sell \in Order
  BY DEF Order, Status
<1>3. /\ one \in Seq(Order) /\ Len(one) = n + 1
      /\ \A i \in 1 .. n : one[i] = orders[i]
      /\ one[n + 1] = sell
  BY <1>1, <1>2
<1>4. orders' = one
  BY DEF submit_market_sell
<1>5. BrokerTypeOK'
  BY <1>3, <1>4 DEF BrokerOK, BrokerTypeOK
<1> HIDE DEF one
<1>6. Kept /\ ClosesEntry(x, e)'
  BY <1>1, <1>3, <1>4 DEF Kept, OrderIds, ClosesEntry
<1>7. OrdersOK'
  <2>1. Len(orders') \in Nat /\ Len(orders') <= MaxOrders
    BY <1>1, <1>3, <1>4, MaxOrdersAssumption DEF Room
  <2>2. ASSUME NEW i \in OrderIds'
        PROVE  /\ orders'[i].filled <= orders'[i].qty
               /\ 0 < orders'[i].qty
               /\ is_filled(orders'[i]) => orders'[i].filled = orders'[i].qty
               /\ orders'[i].leg # 0 => /\ orders'[i].leg \in OrderIds'
                                        /\ orders'[orders'[i].leg].kind = "stop"
                                        /\ orders'[orders'[i].leg].entry = i
    <3>1. CASE i \in 1 .. n
      BY <3>1, <1>1, <1>3, <1>4 DEF OrderIds, BrokerOK, OrdersOK, is_filled
    <3>2. CASE i = n + 1
      BY <3>2, <1>1, <1>3, <1>4 DEF OrderIds, is_filled
    <3> QED
      BY <3>1, <3>2, <1>1, <1>3, <1>4 DEF OrderIds
  <2> QED
    BY <2>1, <2>2 DEF OrdersOK
<1> QED
  BY <1>5, <1>6, <1>7 DEF BrokerOK

(* The owner's closing of a position keeps the account consistent.         *)
LEMMA OwnerKeeps ==
  ASSUME BrokerOK, NEW s \in Symbols, OwnerCloses(s)
  PROVE  BrokerOK' /\ Kept /\ Len(orders') = Len(orders)
<1> DEFINE f == [i \in OrderIds |->
       IF orders[i].sym = s /\ Working(orders[i])
         THEN [orders[i] EXCEPT !.status = "canceled"] ELSE orders[i]]
<1>1. orders' = f /\ holdings' = [holdings EXCEPT ![s] = 0]
  BY DEF OwnerCloses
<1>2. f \in [OrderIds -> Order]
  BY OrderType DEF Order, Status, BrokerOK
<1>3. \A j \in OrderIds : /\ f[j].kind = orders[j].kind
                          /\ f[j].sym = orders[j].sym
                          /\ f[j].entry = orders[j].entry
                          /\ f[j].leg = orders[j].leg
                          /\ f[j].qty = orders[j].qty
                          /\ f[j].filled <= f[j].qty
                          /\ is_filled(f[j]) => f[j].filled = f[j].qty
  BY OrderType DEF Order, Status, BrokerOK, OrdersOK, is_filled
<1>4. orders' \in Seq(Order) /\ Len(orders') = Len(orders) /\ OrdersOK' /\ Kept
  BY <1>1, <1>2, <1>3, RewriteKeeps
<1>5. holdings' \in [Symbols -> Int]
  BY <1>1 DEF BrokerOK, BrokerTypeOK
<1> QED
  BY <1>4, <1>5 DEF BrokerOK, BrokerTypeOK

----------------------------------------------------------------------------
(* What a step must check of the book and of the trade record.             *)

(* A symbol the step does not touch stays in order.                        *)
LEMMA Untouched ==
  ASSUME Kept, NEW s \in Symbols, SymbolOK(s),
         positions'[s] = positions[s],
         pending_entries'[s] = pending_entries[s],
         pending_exits'[s] = pending_exits[s]
  PROVE  SymbolOK(s)'
  BY DEF Kept, SymbolOK, has, BuyOf, ClosesEntry

(* No trade's buy comes back: a symbol's entry ids only move from pending  *)
(* to held, vanish, or are new to the account.                             *)
LEMMA TradesKept ==
  ASSUME IInv, Kept, trades' = trades,
         \A s \in Symbols :
           /\ \/ pending_entries'[s] \in {pending_entries[s], 0}
              \/ pending_entries'[s] \notin OrderIds
           /\ positions'[s].entry_order_id \in
                {positions[s].entry_order_id, pending_entries[s], 0}
  PROVE  TradesOK'
<1>1. 0 \notin OrderIds
  BY DEF OrderIds
<1>2. ASSUME NEW t \in trades
      PROVE  /\ t.qty > 0
             /\ BuyOf(t.sym, t.entry_order_id)'
             /\ ClosesEntry(t.exit_order_id, t.entry_order_id)'
             /\ t.entry_order_id # pending_entries'[t.sym]
             /\ t.entry_order_id # positions'[t.sym].entry_order_id
  <2>1. t.sym \in Symbols
    BY DEF IInv, TypeOK, Trade
  <2> QED
    BY <1>1, <2>1 DEF IInv, TradesOK, Kept, BuyOf, ClosesEntry
<1> QED
  BY <1>2 DEF TradesOK

(* Booking the trade of a position that closes under one of its own exits. *)
LEMMA TradeBooked ==
  ASSUME IInv, NEW s \in Symbols, NEW i \in Nat, has(s), close(s), UNCHANGED orders,
         ClosesEntry(i, positions[s].entry_order_id),
         trades' = trades \cup {TradeOf(s, i)}
  PROVE  /\ TradeOf(s, i) \in Trade /\ BookTypeOK' /\ BookOK' /\ TradesOK'
         /\ \A t \in Symbols \ {s} : /\ positions'[t] = positions[t]
                                     /\ pending_exits'[t] = pending_exits[t]
<1>1. Kept
  BY DEF Kept, OrderIds
<1>2. /\ positions \in [Symbols -> Position]
      /\ pending_exits \in [Symbols -> Nat]
      /\ pending_entries \in [Symbols -> Nat]
  BY DEF IInv, TypeOK, BookTypeOK
<1>3. NoPosition \in Position
  BY DEF NoPosition, Position
<1>4. TradeOf(s, i) \in Trade
  BY <1>2 DEF TradeOf, Trade, Position
<1>5. BookTypeOK'
  BY <1>3 DEF close, BookTypeOK, IInv, TypeOK
<1>6. /\ positions'[s] = NoPosition /\ pending_exits'[s] = 0
      /\ pending_entries'[s] = pending_entries[s]
      /\ \A t \in Symbols \ {s} : /\ positions'[t] = positions[t]
                                  /\ pending_exits'[t] = pending_exits[t]
                                  /\ pending_entries'[t] = pending_entries[t]
  BY <1>2 DEF close
<1>7. BookOK'
  <2>1. SymbolOK(s)'
    BY <1>1, <1>6 DEF SymbolOK, IInv, BookOK, has, NoPosition, Kept, BuyOf
  <2>2. ASSUME NEW t \in Symbols \ {s} PROVE SymbolOK(t)'
    BY <1>1, <1>6, Untouched DEF IInv, BookOK
  <2> QED
    BY <2>1, <2>2 DEF BookOK
<1>8. TradesOK'
  <2>1. ASSUME NEW t \in trades'
        PROVE  /\ t.qty > 0
               /\ BuyOf(t.sym, t.entry_order_id)'
               /\ ClosesEntry(t.exit_order_id, t.entry_order_id)'
               /\ t.entry_order_id # pending_entries'[t.sym]
               /\ t.entry_order_id # positions'[t.sym].entry_order_id
    <3>1. 0 \notin OrderIds
      BY DEF OrderIds
    <3>2. CASE t \in trades
      <4>1. t.sym \in Symbols
        BY <3>2 DEF IInv, TypeOK, Trade
      <4> QED
        BY <1>1, <1>6, <3>1, <3>2, <4>1
           DEF IInv, TradesOK, Kept, BuyOf, ClosesEntry, NoPosition
    <3>3. CASE t = TradeOf(s, i)
      <4>1. SymbolOK(s)
        BY DEF IInv, BookOK
      <4>2. /\ t.sym = s /\ t.exit_order_id = i /\ t.qty = positions[s].qty
            /\ t.entry_order_id = positions[s].entry_order_id
        BY <3>3 DEF TradeOf
      <4> QED
        BY <1>1, <1>2, <1>6, <3>1, <4>1, <4>2
           DEF SymbolOK, has, Kept, BuyOf, ClosesEntry, NoPosition
    <3> QED
      BY <3>2, <3>3
  <2> QED
    BY <2>1 DEF TradesOK
<1> QED
  BY <1>4, <1>5, <1>6, <1>7, <1>8

----------------------------------------------------------------------------
(* Steps that leave the book and the control state alone.                  *)

(* A step that only touches the account keeps the whole invariant.         *)
LEMMA AccountStep ==
  ASSUME IInv, BrokerOK', Kept, Len(orders') = Len(orders),
         UNCHANGED << bookVars, omVars >>
  PROVE  IInv'
<1> USE DEF bookVars, omVars
<1>1. TypeOK'
  BY DEF IInv, TypeOK, BrokerOK, BookTypeOK
<1>2. BookOK'
  BY Untouched DEF IInv, BookOK
<1>3. TradesOK'
  BY TradesKept
<1>4. ControlOK'
  BY DEF IInv, ControlOK, Selling, Held, Entering, Exiting, Guarded, has
<1> QED
  BY <1>1, <1>2, <1>3, <1>4 DEF IInv, BrokerOK

(* The venue's own steps keep the invariant.                               *)
LEMMA VenueStep ==
  ASSUME IInv, Venue
  PROVE  IInv'
<1>0. BrokerOK
  BY DEF IInv, TypeOK, BrokerOK
<1>1. ASSUME NEW i \in OrderIds, VenueFills(i)
      PROVE  IInv'
  <2>1. PICK k \in 1 .. orders[i].qty : Fill(i, k)
    BY <1>1 DEF VenueFills
  <2>2. k \in Nat
    BY <1>0, OrderType DEF BrokerOK, Order
  <2> QED
    BY <1>0, <1>1, <2>1, <2>2, FillKeeps, AccountStep DEF VenueFills
<1>2. ASSUME NEW i \in OrderIds, VenueEnds(i)
      PROVE  IInv'
  BY <1>0, <1>2, EndKeeps, AccountStep DEF VenueEnds
<1>3. ASSUME NEW s \in Symbols, OwnerCloses(s)
      PROVE  IInv'
  BY <1>0, <1>3, OwnerKeeps, AccountStep DEF OwnerCloses
<1> QED
  BY <1>1, <1>2, <1>3 DEF Venue

----------------------------------------------------------------------------
(* Entries: _buy, cancel_pending_entries, and poll's walk over them.       *)

LEMMA BuyStep ==
  ASSUME IInv, NEW s \in Symbols, _buy(s)
  PROVE  IInv'
<1>0. BrokerOK /\ Len(orders) + 1 \in Nat
  BY LenProperties DEF IInv, TypeOK, BrokerOK, BrokerTypeOK
<1>i. PICK i \in Nat : i = Len(orders) + 1
  BY <1>0
<1>1. PICK q \in Quantities, w \in BOOLEAN : Room(3) /\ submit_limit_buy(s, q, w)
  BY DEF _buy
<1>2. /\ pc = "idle" /\ ~has(s) /\ pending_entries[s] = 0
      /\ UNCHANGED << holdings, positions, pending_exits, entries_today, omVars >>
      /\ \/ pending_entries' = [pending_entries EXCEPT ![s] = i]
         \/ UNCHANGED pending_entries
  BY <1>i DEF _buy
<1>3. BrokerOK' /\ Kept /\ BuyOf(s, i)' /\ i \notin OrderIds
  BY <1>0, <1>i, <1>1, <1>2, BuyKeeps
<1>4. TypeOK'
  BY <1>0, <1>2, <1>3 DEF IInv, TypeOK, BrokerOK, BookTypeOK, omVars
<1>5. BookOK'
  <2>1. SymbolOK(s)'
    BY <1>2, <1>3 DEF IInv, TypeOK, BookTypeOK, BookOK, SymbolOK, has, Kept, BuyOf,
                      ClosesEntry
  <2>2. ASSUME NEW t \in Symbols \ {s} PROVE SymbolOK(t)'
    BY <1>2, <1>3, Untouched DEF IInv, TypeOK, BookTypeOK, BookOK
  <2> QED
    BY <2>1, <2>2 DEF BookOK
<1>6. TradesOK'
  <2>1. \A t \in Symbols : \/ pending_entries'[t] = pending_entries[t]
                           \/ pending_entries'[t] \notin OrderIds
    BY <1>2, <1>3 DEF IInv, TypeOK, BookTypeOK
  <2> QED
    BY <1>2, <1>3, <2>1, TradesKept DEF omVars
<1>7. ControlOK'
  BY <1>0, <1>2 DEF IInv, ControlOK, Selling, omVars
<1> QED
  BY <1>3, <1>4, <1>5, <1>6, <1>7 DEF IInv, BrokerOK

(* A step that leaves account, book and trade record alone keeps their     *)
(* share of the invariant.                                                 *)
LEMMA NothingBooked ==
  ASSUME IInv, UNCHANGED << brokerVars, bookVars, trades >>
  PROVE  /\ BrokerOK' /\ BookTypeOK' /\ BookOK' /\ TradesOK' /\ Kept
         /\ Len(orders') = Len(orders)
<1> USE DEF brokerVars, bookVars
<1>1. BrokerOK' /\ BookTypeOK' /\ Kept /\ Len(orders') = Len(orders)
  BY DEF IInv, TypeOK, BrokerOK, BrokerTypeOK, OrdersOK, OrderIds, BookTypeOK, Kept
<1>2. BookOK'
  BY <1>1, Untouched DEF IInv, BookOK
<1>3. TradesOK'
  BY <1>1, TradesKept
<1> QED
  BY <1>1, <1>2, <1>3

(* A cancel that may be lost.                                              *)
LEMMA CancelMayKeep ==
  ASSUME BrokerOK, NEW i \in OrderIds, cancel(i) \/ UNCHANGED orders, UNCHANGED holdings
  PROVE  BrokerOK' /\ Kept /\ Len(orders') = Len(orders)
<1>1. CASE cancel(i)
  BY <1>1, CancelKeeps
<1>2. CASE UNCHANGED orders
  BY <1>2 DEF BrokerOK, BrokerTypeOK, OrdersOK, OrderIds, Kept
<1> QED
  BY <1>1, <1>2

(* A buy leaves the book without a position.                               *)
LEMMA EntryPopped ==
  ASSUME IInv, Kept, NEW s \in Symbols, PopEntry(s), UNCHANGED trades
  PROVE  BookTypeOK' /\ BookOK' /\ TradesOK'
<1>1. /\ pending_entries \in [Symbols -> Nat]
      /\ BookTypeOK'
  BY DEF IInv, TypeOK, BookTypeOK, PopEntry
<1>2. SymbolOK(s)'
  BY <1>1 DEF IInv, BookOK, SymbolOK, PopEntry, has, Kept, BuyOf, ClosesEntry
<1>3. ASSUME NEW t \in Symbols \ {s} PROVE SymbolOK(t)'
  BY <1>1, <1>3, Untouched DEF IInv, BookOK, PopEntry
<1>4. TradesOK'
  BY <1>1, TradesKept DEF PopEntry
<1> QED
  BY <1>1, <1>2, <1>3, <1>4 DEF BookOK

(* A buy becomes a position of q shares, with a stop that closes it or none. *)
LEMMA EntryOpened ==
  ASSUME IInv, Kept, NEW s \in Symbols, pending_entries[s] # 0,
         NEW q \in Nat \ {0}, NEW stop \in Nat,
         stop # 0 => ClosesEntry(stop, pending_entries[s]),
         open(s, Opened(pending_entries[s], q, stop)), UNCHANGED trades
  PROVE  BookTypeOK' /\ BookOK' /\ TradesOK'
<1> DEFINE i == pending_entries[s]
           pos == [qty |-> q, stop_order_id |-> stop, exit_pending |-> FALSE,
                   entry_order_id |-> i]
<1>1. /\ positions \in [Symbols -> Position]
      /\ pending_entries \in [Symbols -> Nat]
      /\ pending_exits \in [Symbols -> Nat]
      /\ entries_today \in [Symbols -> Nat]
  BY DEF IInv, TypeOK, BookTypeOK
<1>2. pos \in Position
  BY <1>1 DEF Position
<1>3. /\ positions' = [positions EXCEPT ![s] = pos]
      /\ pending_entries' = [pending_entries EXCEPT ![s] = 0]
      /\ entries_today' = [entries_today EXCEPT ![s] = entries_today[s] + 1]
      /\ pending_exits' = pending_exits
  BY DEF open, Opened
<1>4. BookTypeOK'
  BY <1>1, <1>2, <1>3 DEF BookTypeOK
<1>5. positions'[s] = pos /\ pending_entries'[s] = 0
  BY <1>1, <1>3
<1>6. SymbolOK(s) /\ ~has(s) /\ pending_exits[s] = 0
  BY DEF IInv, BookOK, SymbolOK, has
<1>7. SymbolOK(s)'
  BY <1>3, <1>5, <1>6 DEF SymbolOK, has, Kept, BuyOf, ClosesEntry
<1>8. ASSUME NEW t \in Symbols \ {s} PROVE SymbolOK(t)'
  BY <1>1, <1>3, <1>8, Untouched DEF IInv, BookOK
<1>9. TradesOK'
  BY <1>1, <1>3, TradesKept
<1> QED
  BY <1>4, <1>7, <1>8, <1>9 DEF BookOK

LEMMA CancelEntriesStep ==
  ASSUME IInv, cancel_pending_entries \/ CancelOneEntry
  PROVE  IInv'
<1>0. BrokerOK
  BY DEF IInv, TypeOK, BrokerOK
<1>1. CASE cancel_pending_entries
  <2>1. /\ BrokerOK' /\ BookTypeOK' /\ BookOK' /\ TradesOK'
    BY <1>1, NothingBooked DEF cancel_pending_entries
  <2>2. TypeOK'
    BY <1>1, <2>1 DEF cancel_pending_entries, Walk, IInv, TypeOK, BrokerOK, PC, Entering
  <2>3. ControlOK'
    BY <1>1 DEF cancel_pending_entries, Walk, IInv, ControlOK, Selling, Entering, bookVars
  <2> QED
    BY <2>1, <2>2, <2>3 DEF IInv, BrokerOK
<1>2. CASE CancelOneEntry
  <2>1. ASSUME NEW s \in todo,
               cancel(pending_entries[s]) \/ UNCHANGED orders,
               PopEntry(s), Walk("cancel_entries", todo \ {s})
        PROVE  IInv'
    <3>1. s \in Symbols /\ s \in Entering /\ pending_entries[s] \in OrderIds
      BY <1>2, <2>1 DEF CancelOneEntry, IInv, TypeOK, ControlOK, Entering, BookOK, SymbolOK, BuyOf
    <3>2. BrokerOK' /\ Kept
      BY <1>0, <1>2, <2>1, <3>1, CancelMayKeep DEF CancelOneEntry
    <3>3. BookTypeOK' /\ BookOK' /\ TradesOK'
      BY <1>2, <2>1, <3>1, <3>2, EntryPopped DEF CancelOneEntry
    <3>4. TypeOK'
      BY <1>2, <2>1, <3>2, <3>3 DEF CancelOneEntry, Walk, IInv, TypeOK, BrokerOK, PC
    <3>5. ControlOK'
      BY <1>2, <2>1, <3>1 DEF CancelOneEntry, Walk, PopEntry, IInv, TypeOK, BookTypeOK,
                              ControlOK, Selling, Entering
    <3> QED
      BY <3>2, <3>3, <3>4, <3>5 DEF IInv, BrokerOK
  <2>2. ASSUME todo = {}, Walk("idle", {}), UNCHANGED << orders, bookVars >>
        PROVE  IInv'
    <3>1. /\ BrokerOK' /\ BookTypeOK' /\ BookOK' /\ TradesOK'
      BY <1>2, <2>2, NothingBooked DEF CancelOneEntry, brokerVars
    <3>2. TypeOK'
      BY <1>2, <2>2, <3>1 DEF CancelOneEntry, Walk, IInv, TypeOK, BrokerOK, PC
    <3>3. ControlOK'
      BY <1>2, <2>2 DEF CancelOneEntry, Walk, IInv, ControlOK, Selling
    <3> QED
      BY <3>1, <3>2, <3>3 DEF IInv, BrokerOK
  <2> QED
    BY <1>2, <2>1, <2>2 DEF CancelOneEntry
<1> QED
  BY <1>1, <1>2

LEMMA PollEntryStep ==
  ASSUME IInv, NEW s \in Symbols, PollEntry(s)
  PROVE  IInv'
<1> DEFINE i == pending_entries[s]
           res == orders[i]
<1>0. /\ pc = "entries" /\ s \in todo
      /\ UNCHANGED << brokerVars, booked, completed, trades, handed >>
  BY DEF PollEntry
<1>1. /\ i # 0 /\ BuyOf(s, i) /\ res \in Order /\ BrokerOK /\ ~has(s)
  BY <1>0, OrderType DEF IInv, TypeOK, ControlOK, Entering, BookOK, SymbolOK, BuyOf, BrokerOK
<1>2. BrokerOK' /\ Kept
  BY <1>0, <1>1 DEF BrokerOK, BrokerTypeOK, OrdersOK, OrderIds, Kept, brokerVars
<1>3. CASE /\ is_filled(res)
           /\ open(s, Opened(i, res.filled, res.leg))
           /\ Walk("entries", todo \ {s})
           /\ UNCHANGED cur
  <2>1. res.filled \in Nat \ {0} /\ res.leg \in Nat
    BY <1>1, <1>3 DEF Order, OrdersOK, BrokerOK, BuyOf
  <2>2. res.leg # 0 => ClosesEntry(res.leg, i)
    BY <1>1 DEF OrdersOK, BrokerOK, BuyOf, ClosesEntry
  <2>3. BookTypeOK' /\ BookOK' /\ TradesOK'
    BY <1>0, <1>1, <1>2, <1>3, <2>1, <2>2, EntryOpened
  <2>4. TypeOK'
    BY <1>0, <1>2, <1>3, <2>3 DEF Walk, IInv, TypeOK, BrokerOK, PC
  <2>5. ControlOK'
    BY <1>0, <1>3 DEF Walk, open, IInv, TypeOK, BookTypeOK, ControlOK, Selling, Entering
  <2> QED
    BY <1>2, <2>3, <2>4, <2>5 DEF IInv, BrokerOK
<1>4. CASE PopEntry(s) /\ Walk("entries", todo \ {s}) /\ UNCHANGED cur
  <2>1. BookTypeOK' /\ BookOK' /\ TradesOK'
    BY <1>0, <1>2, <1>4, EntryPopped
  <2>2. TypeOK'
    BY <1>0, <1>2, <1>4, <2>1 DEF Walk, IInv, TypeOK, BrokerOK, PC
  <2>3. ControlOK'
    BY <1>0, <1>4 DEF Walk, PopEntry, IInv, TypeOK, BookTypeOK, ControlOK, Selling, Entering
  <2> QED
    BY <1>2, <2>1, <2>2, <2>3 DEF IInv, BrokerOK
<1>5. CASE Walk("entries", todo \ {s}) /\ UNCHANGED << bookVars, cur >>
  <2>1. BookTypeOK' /\ BookOK' /\ TradesOK'
    BY <1>0, <1>5, NothingBooked
  <2>2. TypeOK'
    BY <1>0, <1>2, <1>5, <2>1 DEF Walk, IInv, TypeOK, BrokerOK, PC
  <2>3. ControlOK'
    BY <1>0, <1>5 DEF Walk, IInv, TypeOK, ControlOK, Selling, Entering, bookVars
  <2> QED
    BY <1>2, <2>1, <2>2, <2>3 DEF IInv, BrokerOK
<1> QED
  BY <1>3, <1>4, <1>5 DEF PollEntry

LEMMA TimeoutStep ==
  ASSUME IInv, (\E s \in Symbols : EntryTimesOut(s)) \/ CancelTimedOut
  PROVE  IInv'
<1>0. BrokerOK
  BY DEF IInv, TypeOK, BrokerOK
<1>1. ASSUME NEW s \in Symbols, EntryTimesOut(s)
      PROVE  IInv'
  <2>1. BrokerOK' /\ BookTypeOK' /\ BookOK' /\ TradesOK'
    BY <1>1, NothingBooked DEF EntryTimesOut
  <2>2. orders[pending_entries[s]] \in Order
    BY <1>0, <1>1, OrderType DEF EntryTimesOut, IInv, ControlOK, Entering, BookOK, SymbolOK,
                                 BuyOf, BrokerOK
  <2>3. cur' \in Locals /\ cur'.sym = s /\ ~cur'.flattening
    <3>1. cur' = [sym |-> s, qty |-> orders[pending_entries[s]].filled, checks |-> 0,
                  flattening |-> FALSE]
      BY <1>1 DEF EntryTimesOut, NoLocals
    <3>2. orders[pending_entries[s]].filled \in Int
      BY <2>2 DEF Order
    <3> QED
      BY <3>1, <3>2 DEF Locals
  <2>4. TypeOK'
    BY <1>1, <2>1, <2>3 DEF EntryTimesOut, Walk, IInv, TypeOK, BrokerOK, PC
  <2>5. ControlOK'
    BY <1>1, <2>3 DEF EntryTimesOut, Walk, IInv, ControlOK, Selling, Entering, bookVars
  <2> QED
    BY <2>1, <2>4, <2>5 DEF IInv, BrokerOK
<1>2. CASE CancelTimedOut
  <2> DEFINE s == cur.sym
             i == pending_entries[s]
  <2>1. pc = "timeout_cancel" /\ s \in Entering /\ todo \subseteq Entering \ {s}
    BY <1>2 DEF CancelTimedOut, IInv, ControlOK
  <2>2. s \in Symbols /\ i # 0 /\ i \in OrderIds /\ pending_entries \in [Symbols -> Nat]
    BY <2>1 DEF Entering, IInv, TypeOK, BookTypeOK, BookOK, SymbolOK, BuyOf
  <2>3. BrokerOK' /\ Kept
    BY <1>0, <1>2, <2>2, CancelMayKeep DEF CancelTimedOut
  <2>4. /\ BookTypeOK' /\ BookOK' /\ TradesOK'
        /\ pending_entries' = [pending_entries EXCEPT ![s] = 0]
    <3>1. CASE cur.qty > 0
      <4>1. cur.qty \in Nat \ {0}
        BY <3>1 DEF IInv, TypeOK, Locals
      <4>2. open(s, Opened(i, cur.qty, 0)) /\ UNCHANGED trades
        BY <1>2, <3>1 DEF CancelTimedOut
      <4> QED
        BY <2>2, <2>3, <4>1, <4>2, EntryOpened DEF open
    <3>2. CASE ~(cur.qty > 0)
      <4>1. PopEntry(s) /\ UNCHANGED trades
        BY <1>2, <3>2 DEF CancelTimedOut
      <4> QED
        BY <2>2, <2>3, <4>1, EntryPopped DEF PopEntry
    <3> QED
      BY <3>1, <3>2
  <2>5. TypeOK'
    BY <1>2, <2>3, <2>4 DEF CancelTimedOut, IInv, TypeOK, BrokerOK, PC, NoLocals, Locals
  <2>6. ControlOK'
    BY <1>2, <2>1, <2>2, <2>4 DEF CancelTimedOut, IInv, ControlOK, Selling, Entering, NoLocals
  <2> QED
    BY <2>3, <2>4, <2>5, <2>6 DEF IInv, BrokerOK
<1> QED
  BY <1>1, <1>2

(* poll's steps that book nothing: its start, its end, its turns from one  *)
(* walk to the next, and a read that raises.                               *)
LEMMA PollTurns ==
  ASSUME IInv, PollStart \/ PollExits \/ PollStops \/ PollReturns \/ PollRaises
  PROVE  IInv'
<1>1. BrokerOK' /\ BookTypeOK' /\ BookOK' /\ TradesOK'
  BY NothingBooked DEF PollStart, PollExits, PollStops, PollReturns, PollRaises
<1>2. TypeOK'
  <2>1. NoLocals \in Locals /\ {} \subseteq Trade
    BY DEF NoLocals, Locals
  <2>2. CASE PollStart \/ PollExits \/ PollStops
    BY <1>1, <2>1, <2>2 DEF PollStart, PollExits, PollStops, Walk, IInv, TypeOK, BrokerOK,
                            PC, Entering, Exiting, Guarded, Held
  <2>3. CASE PollReturns \/ PollRaises
    BY <1>1, <2>1, <2>3 DEF PollReturns, PollRaises, Walk, Raise, IInv, TypeOK, BrokerOK, PC
  <2> QED
    BY <2>2, <2>3
<1>3. ControlOK'
  BY DEF PollStart, PollExits, PollStops, PollReturns, PollRaises, Walk, Raise, IInv,
         ControlOK, Selling, NoLocals, Entering, Exiting, Guarded, Held, has, bookVars
<1> QED
  BY <1>1, <1>2, <1>3 DEF IInv, BrokerOK

LEMMA PollExitStep ==
  ASSUME IInv, NEW s \in Symbols, PollExit(s)
  PROVE  IInv'
<1> DEFINE i == pending_exits[s]
           res == orders[i]
<1>0. /\ pc = "exits" /\ s \in todo /\ Walk("exits", todo \ {s})
      /\ UNCHANGED << brokerVars, cur, booked, handed >>
  BY DEF PollExit
<1>1. /\ i # 0 /\ i \in Nat /\ has(s) /\ SymbolOK(s)
      /\ ClosesEntry(i, positions[s].entry_order_id) /\ todo \subseteq Exiting
  BY <1>0 DEF IInv, TypeOK, BookTypeOK, ControlOK, Exiting, BookOK, SymbolOK
<1>2. BrokerOK' /\ Kept
  BY <1>0 DEF IInv, TypeOK, BrokerOK, BrokerTypeOK, OrdersOK, OrderIds, Kept, brokerVars
<1>3. CASE /\ close(s)
           /\ completed' = completed \cup {TradeOf(s, i)}
           /\ trades' = trades \cup {TradeOf(s, i)}
  <2>1. /\ TradeOf(s, i) \in Trade /\ BookTypeOK' /\ BookOK' /\ TradesOK'
        /\ \A t \in Symbols \ {s} : pending_exits'[t] = pending_exits[t]
    BY <1>0, <1>1, <1>3, TradeBooked DEF brokerVars
  <2>2. TypeOK'
    BY <1>0, <1>2, <1>3, <2>1 DEF Walk, IInv, TypeOK, BrokerOK, PC
  <2>3. ControlOK'
    BY <1>0, <1>1, <2>1 DEF Walk, IInv, ControlOK, Selling, Exiting
  <2> QED
    BY <1>2, <2>1, <2>2, <2>3 DEF IInv, BrokerOK
<1>4. CASE /\ pending_exits' = [pending_exits EXCEPT ![s] = 0]
           /\ positions' = IF has(s) THEN [positions EXCEPT ![s].exit_pending = FALSE]
                                     ELSE positions
           /\ UNCHANGED << pending_entries, entries_today, completed, trades >>
  <2>1. /\ positions \in [Symbols -> Position]
        /\ pending_exits \in [Symbols -> Nat]
    BY DEF IInv, TypeOK, BookTypeOK
  <2>2. positions' = [positions EXCEPT ![s].exit_pending = FALSE]
    BY <1>1, <1>4
  <2>3. BookTypeOK'
    <3>1. positions' \in [Symbols -> Position]
      BY <2>1, <2>2 DEF Position
    <3>2. pending_exits' \in [Symbols -> Nat]
      BY <1>4, <2>1
    <3> QED
      BY <1>4, <3>1, <3>2, Zenon DEF IInv, TypeOK, BookTypeOK
  <2>4. SymbolOK(s)'
    BY <1>1, <1>2, <1>4, <2>1, <2>2 DEF SymbolOK, has, Kept, BuyOf, ClosesEntry, Position
  <2>5. ASSUME NEW t \in Symbols \ {s} PROVE SymbolOK(t)'
    BY <1>2, <1>4, <2>1, <2>2, Untouched DEF IInv, BookOK
  <2>6. TradesOK'
    <3>1. \A t \in Symbols : positions'[t].entry_order_id = positions[t].entry_order_id
      BY <2>1, <2>2 DEF Position
    <3> QED
      BY <1>2, <1>4, <3>1, TradesKept
  <2>7. TypeOK'
    BY <1>0, <1>2, <1>4, <2>3 DEF Walk, IInv, TypeOK, BrokerOK, PC
  <2>8. ControlOK'
    BY <1>0, <1>1, <1>4, <2>1 DEF Walk, IInv, ControlOK, Selling, Exiting
  <2> QED
    BY <1>2, <2>4, <2>5, <2>6, <2>7, <2>8 DEF IInv, BrokerOK, BookOK
<1>5. CASE UNCHANGED << bookVars, completed, trades >>
  <2>1. BookTypeOK' /\ BookOK' /\ TradesOK'
    BY <1>0, <1>5, NothingBooked
  <2>2. TypeOK'
    BY <1>0, <1>2, <1>5, <2>1 DEF Walk, IInv, TypeOK, BrokerOK, PC
  <2>3. ControlOK'
    BY <1>0, <1>1, <1>5 DEF Walk, IInv, ControlOK, Selling, Exiting, bookVars
  <2> QED
    BY <1>2, <2>1, <2>2, <2>3 DEF IInv, BrokerOK
<1> QED
  BY <1>3, <1>4, <1>5 DEF PollExit

LEMMA PollStopStep ==
  ASSUME IInv, NEW s \in Symbols, PollStop(s)
  PROVE  IInv'
<1> DEFINE i == positions[s].stop_order_id
<1>0. /\ pc = "stops" /\ s \in todo /\ Walk("stops", todo \ {s})
      /\ UNCHANGED << brokerVars, cur, booked, handed >>
  BY DEF PollStop
<1>1. /\ i # 0 /\ i \in Nat /\ has(s) /\ todo \subseteq Guarded
      /\ ClosesEntry(i, positions[s].entry_order_id)
  BY <1>0 DEF IInv, TypeOK, BookTypeOK, Position, ControlOK, Guarded, Held, BookOK, SymbolOK
<1>2. BrokerOK' /\ Kept
  BY <1>0 DEF IInv, TypeOK, BrokerOK, BrokerTypeOK, OrdersOK, OrderIds, Kept, brokerVars
<1>3. CASE BookStopFill(s, i) /\ completed' = completed \cup {TradeOf(s, i)}
  <2>1. /\ TradeOf(s, i) \in Trade /\ BookTypeOK' /\ BookOK' /\ TradesOK'
        /\ \A t \in Symbols \ {s} : positions'[t] = positions[t]
    BY <1>0, <1>1, <1>3, TradeBooked DEF brokerVars, BookStopFill
  <2>2. TypeOK'
    BY <1>0, <1>2, <1>3, <2>1 DEF BookStopFill, Walk, IInv, TypeOK, BrokerOK, PC
  <2>3. ControlOK'
    BY <1>0, <1>1, <2>1 DEF Walk, IInv, ControlOK, Selling, Guarded, Held, has
  <2> QED
    BY <1>2, <2>1, <2>2, <2>3 DEF IInv, BrokerOK
<1>4. CASE UNCHANGED << bookVars, completed, trades >>
  <2>1. BookTypeOK' /\ BookOK' /\ TradesOK'
    BY <1>0, <1>4, NothingBooked
  <2>2. TypeOK'
    BY <1>0, <1>2, <1>4, <2>1 DEF Walk, IInv, TypeOK, BrokerOK, PC
  <2>3. ControlOK'
    BY <1>0, <1>1, <1>4 DEF Walk, IInv, ControlOK, Selling, Guarded, Held, has, bookVars
  <2> QED
    BY <1>2, <2>1, <2>2, <2>3 DEF IInv, BrokerOK
<1> QED
  BY <1>3, <1>4 DEF PollStop

----------------------------------------------------------------------------
(* Exits: _sell from its first call to the market sell, and flatten_all.   *)

(* A sell begins on a position that nothing is selling yet.                *)
LEMMA SellBegins ==
  ASSUME IInv, NEW s \in Symbols, NEW fl \in BOOLEAN, BeginSell(s, fl),
         todo' \subseteq Held \ {s}, fl \/ todo' = {}
  PROVE  IInv'
<1> DEFINE pos == positions[s]
<1>0. BrokerOK
  BY DEF IInv, TypeOK, BrokerOK
<1>1. /\ positions \in [Symbols -> Position]
      /\ has(s) /\ ~pos.exit_pending /\ Room(1) /\ SymbolOK(s) /\ pending_exits[s] = 0
  BY DEF BeginSell, IInv, TypeOK, BookTypeOK, BookOK, SymbolOK
<1>2. /\ positions' = [positions EXCEPT ![s].exit_pending = TRUE]
      /\ cur' = [sym |-> s, qty |-> pos.qty, checks |-> 0, flattening |-> fl]
      /\ UNCHANGED << holdings, pending_entries, pending_exits, entries_today,
                      booked, completed, trades, handed >>
  BY DEF BeginSell
<1>3. /\ BrokerOK' /\ Kept /\ Len(orders') = Len(orders)
      /\ pc' \in {"settle", "hold", "submit"}
      /\ pc' = "settle" <=> pos.stop_order_id # 0
  <2>1. CASE pos.stop_order_id # 0
    <3>1. pos.stop_order_id \in OrderIds
      BY <1>1, <2>1 DEF SymbolOK, ClosesEntry
    <3>2. cancel(pos.stop_order_id) \/ UNCHANGED orders
      BY <2>1 DEF BeginSell
    <3>3. pc' = "settle"
      BY <2>1 DEF BeginSell
    <3> QED
      BY <1>0, <1>2, <2>1, <3>1, <3>2, <3>3, CancelMayKeep
  <2>2. CASE pos.stop_order_id = 0
    <3>1. UNCHANGED orders /\ pc' \in {"hold", "submit"}
      BY <2>2 DEF BeginSell
    <3> QED
      BY <1>0, <1>2, <2>2, <3>1 DEF BrokerOK, BrokerTypeOK, OrdersOK, OrderIds, Kept
  <2> QED
    BY <2>1, <2>2
<1>4. /\ positions'[s].exit_pending
      /\ positions'[s].qty = pos.qty
      /\ positions'[s].stop_order_id = pos.stop_order_id
      /\ positions'[s].entry_order_id = pos.entry_order_id
      /\ positions' \in [Symbols -> Position]
      /\ \A t \in Symbols \ {s} : positions'[t] = positions[t]
  BY <1>1, <1>2 DEF Position
<1>5. BookOK'
  <2>1. SymbolOK(s)'
    BY <1>1, <1>2, <1>3, <1>4 DEF SymbolOK, has, Kept, BuyOf, ClosesEntry
  <2>2. ASSUME NEW t \in Symbols \ {s} PROVE SymbolOK(t)'
    BY <1>2, <1>3, <1>4, Untouched DEF IInv, BookOK
  <2> QED
    BY <2>1, <2>2 DEF BookOK
<1>6. TradesOK'
  <2>1. \A t \in Symbols : positions'[t].entry_order_id = positions[t].entry_order_id
    BY <1>4
  <2> QED
    BY <1>2, <1>3, <2>1, TradesKept
<1>7. TypeOK'
  <2>1. cur' \in Locals
    BY <1>1, <1>2 DEF Locals, Position
  <2>2. BookTypeOK'
    BY <1>2, <1>4 DEF IInv, TypeOK, BookTypeOK
  <2>3. pc' \in PC /\ todo' \subseteq Symbols
    BY <1>3 DEF PC, Held
  <2> QED
    BY <1>2, <1>3, <2>1, <2>2, <2>3 DEF IInv, TypeOK, BrokerOK
<1>8. ControlOK'
  <2>1. Len(orders') < MaxOrders
    BY <1>0, <1>1, <1>3, LenProperties, MaxOrdersAssumption DEF Room, BrokerOK, BrokerTypeOK
  <2>2. has(s)' /\ \A t \in Symbols \ {s} : has(t)' <=> has(t)
    BY <1>1, <1>4 DEF has
  <2>3. todo' \subseteq Held' \ {s}
    BY <2>2 DEF Held
  <2>4. cur'.sym = s /\ cur'.flattening = fl
    BY <1>2
  <2>5. pc' = "hold" => verify_holdings
    BY DEF BeginSell
  <2> QED
    BY <1>1, <1>2, <1>3, <1>4, <2>1, <2>2, <2>3, <2>4, <2>5 DEF ControlOK, Selling, has
<1> QED
  BY <1>3, <1>5, <1>6, <1>7, <1>8 DEF IInv, BrokerOK

LEMMA SellStep ==
  ASSUME IInv, NEW s \in Symbols, _sell(s)
  PROVE  IInv'
<1>1. BeginSell(s, FALSE) /\ todo' = {}
  BY DEF _sell, IInv, ControlOK
<1> QED
  BY <1>1, SellBegins

LEMMA FlattenStep ==
  ASSUME IInv, flatten_all \/ FlattenOne
  PROVE  IInv'
<1>1. ASSUME UNCHANGED << brokerVars, bookVars, cur, booked, completed, trades, handed >>,
             pc \in {"idle", "flatten"}, pc' \in {"idle", "flatten"},
             todo' \subseteq Held, pc' = "idle" => todo' = {}
      PROVE  IInv'
  <2>1. BrokerOK' /\ BookTypeOK' /\ BookOK' /\ TradesOK'
    BY <1>1, NothingBooked
  <2>2. TypeOK'
    BY <1>1, <2>1 DEF IInv, TypeOK, BrokerOK, PC, Held
  <2>3. ControlOK'
    BY <1>1 DEF IInv, ControlOK, Selling, Held, has, bookVars
  <2> QED
    BY <2>1, <2>2, <2>3 DEF IInv, BrokerOK
<1>2. CASE flatten_all
  BY <1>1, <1>2 DEF flatten_all, Walk
<1>3. ASSUME FlattenOne, NEW s \in todo, todo' = todo \ {s}, BeginSell(s, TRUE)
      PROVE  IInv'
  <2>1. s \in Symbols /\ todo' \subseteq Held \ {s}
    BY <1>3 DEF FlattenOne, IInv, TypeOK, ControlOK
  <2> QED
    BY <1>3, <2>1, SellBegins
<1>4. ASSUME FlattenOne, NEW s \in todo, todo' = todo \ {s},
             UNCHANGED << brokerVars, bookVars, pc, cur, booked, completed, trades, handed >>
      PROVE  IInv'
  BY <1>1, <1>4 DEF FlattenOne, IInv, ControlOK
<1>5. ASSUME FlattenOne, Walk("idle", {}),
             UNCHANGED << brokerVars, bookVars, cur, booked, completed, trades, handed >>
      PROVE  IInv'
  BY <1>1, <1>5 DEF FlattenOne, Walk
<1> QED
  BY <1>2, <1>3, <1>4, <1>5 DEF FlattenOne

(* The bot is back from a sell, or was thrown out of one.                  *)
LEMMA BackToCaller ==
  ASSUME IInv, Selling, Return \/ Raise,
         \A s \in Symbols \ {cur.sym} : positions'[s] = positions[s]
  PROVE  /\ pc' \in PC /\ cur' \in Locals /\ todo' \subseteq Symbols
         /\ ControlOK'
<1>1. cur' = NoLocals /\ pc' \in {"idle", "flatten"}
  BY DEF Return, Raise
<1>2. todo' \subseteq todo /\ (pc' = "idle" => todo' = {})
  BY DEF Return, Raise, IInv, ControlOK
<1>3. todo' \subseteq Held'
  BY <1>2 DEF IInv, ControlOK, Held, has
<1> QED
  BY <1>1, <1>2, <1>3 DEF IInv, TypeOK, PC, NoLocals, Locals, ControlOK, Selling

(* The stop is cancelled: the book forgets it and the sell goes on.        *)
LEMMA AfterSettleStep ==
  ASSUME IInv, pc = "settle", NEW q \in Int, AfterSettle(cur.sym, q)
  PROVE  IInv'
<1> PICK s \in Symbols : s = cur.sym
  BY DEF IInv, ControlOK, Selling
<1>0. /\ positions \in [Symbols -> Position] /\ SymbolOK(s)
      /\ has(s) /\ positions[s].exit_pending /\ pending_exits[s] = 0
      /\ Len(orders) < MaxOrders /\ cur \in Locals
      /\ todo \subseteq Held \ {s} /\ (cur.flattening \/ todo = {})
  BY DEF IInv, TypeOK, BookTypeOK, BookOK, ControlOK, Selling
<1>1. /\ positions' = [positions EXCEPT ![s].stop_order_id = 0]
      /\ cur' = [cur EXCEPT !.qty = q]
      /\ pc' \in {"hold", "submit"}
      /\ UNCHANGED << brokerVars, pending_entries, pending_exits, entries_today,
                      todo, booked, completed, trades, handed >>
  BY DEF AfterSettle
<1>2. BrokerOK' /\ Kept
  BY <1>1 DEF IInv, TypeOK, BrokerOK, BrokerTypeOK, OrdersOK, OrderIds, Kept, brokerVars
<1>3. /\ positions'[s].stop_order_id = 0
      /\ positions'[s].exit_pending
      /\ positions'[s].qty = positions[s].qty
      /\ positions'[s].entry_order_id = positions[s].entry_order_id
      /\ positions' \in [Symbols -> Position]
      /\ \A t \in Symbols \ {s} : positions'[t] = positions[t]
  BY <1>0, <1>1 DEF Position
<1>4. BookOK'
  <2>1. SymbolOK(s)'
    BY <1>0, <1>1, <1>2, <1>3 DEF SymbolOK, has, Kept, BuyOf, ClosesEntry
  <2>2. ASSUME NEW t \in Symbols \ {s} PROVE SymbolOK(t)'
    BY <1>1, <1>2, <1>3, Untouched DEF IInv, BookOK
  <2> QED
    BY <2>1, <2>2 DEF BookOK
<1>5. TradesOK'
  <2>1. \A t \in Symbols : positions'[t].entry_order_id = positions[t].entry_order_id
    BY <1>3
  <2> QED
    BY <1>1, <1>2, <2>1, TradesKept
<1>6. cur' \in Locals /\ cur'.sym = s /\ cur'.flattening = cur.flattening
  BY <1>0, <1>1 DEF Locals
<1>7. TypeOK'
  BY <1>1, <1>2, <1>3, <1>6 DEF IInv, TypeOK, BookTypeOK, BrokerOK, PC
<1>8. ControlOK'
  <2>1. has(s)' /\ \A t \in Symbols \ {s} : has(t)' <=> has(t)
    BY <1>0, <1>3 DEF has
  <2>2. todo' \subseteq Held' \ {s}
    BY <1>0, <1>1, <2>1 DEF Held
  <2>3. Len(orders') < MaxOrders
    BY <1>0, <1>1 DEF brokerVars
  <2>4. pc' = "hold" => verify_holdings
    BY DEF AfterSettle
  <2> QED
    BY <1>0, <1>1, <1>3, <1>6, <2>1, <2>2, <2>3, <2>4 DEF ControlOK, Selling, has
<1> QED
  BY <1>2, <1>4, <1>5, <1>7, <1>8 DEF IInv, BrokerOK

(* While it sells, the bot works on a symbol it holds.                     *)
LEMMA SellingFacts ==
  ASSUME IInv, Selling
  PROVE  /\ cur.sym \in Symbols /\ cur \in Locals
         /\ has(cur.sym) /\ SymbolOK(cur.sym)
         /\ positions[cur.sym].exit_pending /\ pending_exits[cur.sym] = 0
         /\ Len(orders) < MaxOrders
         /\ pc = "settle" <=> positions[cur.sym].stop_order_id # 0
         /\ positions \in [Symbols -> Position]
         /\ pending_exits \in [Symbols -> Nat]
<1>1. todo \subseteq Held \ {cur.sym}
  BY DEF IInv, ControlOK
<1> QED
  BY DEF IInv, TypeOK, BookTypeOK, BookOK, ControlOK, Locals

LEMMA SettleStep ==
  ASSUME IInv, _settle_stop
  PROVE  IInv'
<1> DEFINE s == cur.sym
           i == positions[s].stop_order_id
           stop == orders[i]
<1>0. pc = "settle"
  BY DEF _settle_stop
<1>1. /\ s \in Symbols /\ cur \in Locals /\ has(s) /\ i \in Nat /\ i # 0
      /\ ClosesEntry(i, positions[s].entry_order_id) /\ stop \in Order
  BY <1>0, SellingFacts, OrderType DEF Selling, SymbolOK, ClosesEntry, Position, IInv, TypeOK
<1>2. CASE /\ cur' = [cur EXCEPT !.checks = cur.checks + 1]
           /\ UNCHANGED << brokerVars, bookVars, pc, todo, booked, completed,
                           trades, handed >>
  <2>1. BrokerOK' /\ BookTypeOK' /\ BookOK' /\ TradesOK'
    BY <1>2, NothingBooked
  <2>2. cur' \in Locals /\ cur'.sym = s /\ cur'.flattening = cur.flattening
    BY <1>1, <1>2 DEF Locals
  <2>3. TypeOK'
    BY <1>2, <2>1, <2>2 DEF IInv, TypeOK, BrokerOK
  <2>4. ControlOK'
    BY <1>0, <1>2, <2>2 DEF IInv, ControlOK, Selling, Held, has, brokerVars, bookVars
  <2> QED
    BY <2>1, <2>3, <2>4 DEF IInv, BrokerOK
<1>3. CASE /\ BookStopFill(s, i)
           /\ booked' = booked \cup {TradeOf(s, i)}
           /\ Return
           /\ UNCHANGED << brokerVars, completed, handed >>
  <2>1. /\ TradeOf(s, i) \in Trade /\ BookTypeOK' /\ BookOK' /\ TradesOK'
        /\ \A t \in Symbols \ {s} : positions'[t] = positions[t]
    BY <1>1, <1>3, TradeBooked DEF brokerVars, BookStopFill
  <2>2. BrokerOK'
    BY <1>3 DEF IInv, TypeOK, BrokerOK, BrokerTypeOK, OrdersOK, OrderIds, brokerVars
  <2>3. pc' \in PC /\ cur' \in Locals /\ todo' \subseteq Symbols /\ ControlOK'
    BY <1>0, <1>3, <2>1, BackToCaller DEF Selling
  <2>4. TypeOK'
    BY <1>3, <2>1, <2>2, <2>3 DEF BookStopFill, IInv, TypeOK, BrokerOK
  <2> QED
    BY <2>1, <2>2, <2>3, <2>4 DEF IInv, BrokerOK
<1>4. CASE AfterSettle(s, IF cur.qty > stop.filled THEN cur.qty - stop.filled ELSE 0)
  BY <1>0, <1>1, <1>4, AfterSettleStep DEF Locals, Order
<1>5. CASE AfterSettle(s, cur.qty)
  BY <1>0, <1>1, <1>5, AfterSettleStep DEF Locals
<1> QED
  BY <1>2, <1>3, <1>4, <1>5 DEF _settle_stop

LEMMA HeldStep ==
  ASSUME IInv, _held
  PROVE  IInv'
<1> PICK s \in Symbols : s = cur.sym
  BY DEF _held, IInv, ControlOK, Selling
<1>0. pc = "hold" /\ UNCHANGED << brokerVars, booked, completed, trades, handed >>
  BY DEF _held
<1>1. /\ s \in Symbols /\ cur \in Locals /\ has(s) /\ SymbolOK(s) /\ pending_exits[s] = 0
      /\ positions \in [Symbols -> Position]
  BY <1>0, SellingFacts DEF Selling
<1>2. BrokerOK' /\ Kept
  BY <1>0 DEF IInv, TypeOK, BrokerOK, BrokerTypeOK, OrdersOK, OrderIds, Kept, brokerVars
<1>3. CASE PopPosition(s) /\ Return
  <2>1. /\ positions' = [positions EXCEPT ![s] = NoPosition]
        /\ UNCHANGED << pending_entries, pending_exits, entries_today >>
    BY <1>3 DEF PopPosition
  <2>2. /\ positions'[s] = NoPosition /\ positions' \in [Symbols -> Position]
        /\ \A t \in Symbols \ {s} : positions'[t] = positions[t]
    BY <1>1, <2>1 DEF NoPosition, Position
  <2>3. BookOK'
    <3>1. SymbolOK(s)'
      BY <1>1, <2>1, <2>2 DEF SymbolOK, has, NoPosition
    <3>2. ASSUME NEW t \in Symbols \ {s} PROVE SymbolOK(t)'
      BY <1>2, <2>1, <2>2, Untouched DEF IInv, BookOK
    <3> QED
      BY <3>1, <3>2 DEF BookOK
  <2>4. TradesOK'
    <3>1. \A t \in Symbols : positions'[t].entry_order_id \in {positions[t].entry_order_id, 0}
      BY <2>2 DEF NoPosition
    <3> QED
      BY <1>0, <1>2, <2>1, <3>1, TradesKept
  <2>5. pc' \in PC /\ cur' \in Locals /\ todo' \subseteq Symbols /\ ControlOK'
    BY <1>0, <1>3, <2>2, BackToCaller DEF Selling
  <2>6. TypeOK'
    BY <1>0, <1>2, <2>1, <2>2, <2>5 DEF IInv, TypeOK, BookTypeOK, BrokerOK
  <2> QED
    BY <1>2, <2>3, <2>4, <2>5, <2>6 DEF IInv, BrokerOK
<1>4. ASSUME pc' = "submit", UNCHANGED << bookVars, todo >>, cur' \in Locals,
             cur'.sym = s, cur'.flattening = cur.flattening
      PROVE  IInv'
  <2>1. BookTypeOK' /\ BookOK' /\ TradesOK'
    BY <1>0, <1>4, NothingBooked
  <2>2. TypeOK'
    BY <1>0, <1>2, <1>4, <2>1 DEF IInv, TypeOK, BrokerOK, PC
  <2>3. ControlOK'
    BY <1>0, <1>4 DEF IInv, ControlOK, Selling, Held, has, brokerVars, bookVars
  <2> QED
    BY <1>2, <2>1, <2>2, <2>3 DEF IInv, BrokerOK
<1>5. ASSUME cur' = [cur EXCEPT !.qty = IF holdings[s] < cur.qty THEN holdings[s] ELSE cur.qty]
      PROVE  cur' \in Locals /\ cur'.sym = s /\ cur'.flattening = cur.flattening
  <2>1. holdings[s] \in Int /\ cur.qty \in Int
    BY <1>1 DEF IInv, TypeOK, BrokerTypeOK, Locals
  <2>2. (IF holdings[s] < cur.qty THEN holdings[s] ELSE cur.qty) \in Int
    BY <2>1
  <2> QED
    BY <1>1, <1>5, <2>2 DEF Locals
<1> QED
  BY <1>1, <1>3, <1>4, <1>5 DEF _held

LEMMA SubmitStep ==
  ASSUME IInv, SubmitSell
  PROVE  IInv'
<1> PICK s \in Symbols : s = cur.sym
  BY DEF SubmitSell, IInv, ControlOK, Selling
<1> PICK e : e = positions[s].entry_order_id
  OBVIOUS
<1>0. /\ pc = "submit"
      /\ UNCHANGED << holdings, positions, pending_entries, entries_today,
                      booked, completed, trades, handed >>
  BY DEF SubmitSell
<1>1. /\ s \in Symbols /\ cur \in Locals /\ has(s) /\ SymbolOK(s) /\ pending_exits[s] = 0
      /\ positions[s].exit_pending /\ positions[s].stop_order_id = 0
      /\ positions \in [Symbols -> Position] /\ pending_exits \in [Symbols -> Nat]
      /\ Len(orders) < MaxOrders /\ BrokerOK /\ Len(orders) + 1 \in Nat /\ e \in Nat
  BY <1>0, SellingFacts, LenProperties
     DEF Selling, IInv, TypeOK, BrokerOK, BrokerTypeOK, Position
<1>2. ASSUME Return \/ Raise
      PROVE  pc' \in PC /\ cur' \in Locals /\ todo' \subseteq Symbols /\ ControlOK'
  BY <1>0, <1>2, BackToCaller DEF Selling
<1>3. CASE (Return \/ Raise) /\ UNCHANGED << orders, pending_exits >>
  <2>1. BrokerOK' /\ BookTypeOK' /\ BookOK' /\ TradesOK'
    BY <1>0, <1>3, NothingBooked DEF brokerVars, bookVars
  <2>2. TypeOK'
    BY <1>0, <1>2, <1>3, <2>1 DEF IInv, TypeOK, BrokerOK
  <2> QED
    BY <1>2, <1>3, <2>1, <2>2 DEF IInv, BrokerOK
<1>4. CASE /\ cur.qty > 0
           /\ submit_market_sell(s, cur.qty, e)
           /\ \/ /\ pending_exits' = [pending_exits EXCEPT ![s] = Len(orders) + 1]
                 /\ Return
              \/ UNCHANGED pending_exits /\ Raise
  <2>1. PICK x \in Nat : x = Len(orders) + 1
    BY <1>1
  <2>2. Room(1) /\ cur.qty \in Nat \ {0}
    BY <1>1, <1>4, LenProperties, MaxOrdersAssumption
       DEF Room, Locals, BrokerOK, BrokerTypeOK
  <2>3. BrokerOK' /\ Kept /\ ClosesEntry(x, e)'
    BY <1>0, <1>1, <1>4, <2>1, <2>2, SellKeeps
  <2>4. BookTypeOK' /\ pending_exits'[s] \in {0, x}
        /\ \A t \in Symbols \ {s} : pending_exits'[t] = pending_exits[t]
    BY <1>0, <1>1, <1>4, <2>1 DEF IInv, TypeOK, BookTypeOK
  <2>5. BookOK'
    <3>1. SymbolOK(s)'
      BY <1>0, <1>1, <2>3, <2>4 DEF SymbolOK, has, Kept, BuyOf, ClosesEntry
    <3>2. ASSUME NEW t \in Symbols \ {s} PROVE SymbolOK(t)'
      BY <1>0, <2>3, <2>4, Untouched DEF IInv, BookOK
    <3> QED
      BY <3>1, <3>2 DEF BookOK
  <2>6. TradesOK'
    BY <1>0, <2>3, TradesKept
  <2>7. TypeOK'
    BY <1>0, <1>2, <1>4, <2>3, <2>4 DEF IInv, TypeOK, BrokerOK
  <2> QED
    BY <1>2, <1>4, <2>3, <2>5, <2>6, <2>7 DEF IInv, BrokerOK
<1> QED
  BY <1>3, <1>4 DEF SubmitSell

----------------------------------------------------------------------------
LEMMA InitOK == Init => IInv
<1> SUFFICES ASSUME Init PROVE IInv
  OBVIOUS
<1>1. TypeOK
  BY DEF Init, BrokerInit, BookInit, TypeOK, BrokerTypeOK, BookTypeOK, PC, NoLocals, Locals,
         NoPosition, Position
<1>2. OrdersOK
  BY MaxOrdersAssumption DEF Init, BrokerInit, OrdersOK, OrderIds
<1>3. BookOK
  BY DEF Init, BookInit, BookOK, SymbolOK, has, NoPosition
<1>4. TradesOK /\ ControlOK
  BY DEF Init, TradesOK, ControlOK, Selling, NoLocals
<1> QED
  BY <1>1, <1>2, <1>3, <1>4 DEF IInv

LEMMA StepOK == IInv /\ [Next]_vars => IInv'
<1> SUFFICES ASSUME IInv, [Next]_vars PROVE IInv'
  OBVIOUS
<1>1. CASE Bot
  BY <1>1, BuyStep, SellStep, PollEntryStep, TimeoutStep, PollExitStep, PollStopStep,
     SettleStep, HeldStep, SubmitStep, FlattenStep, CancelEntriesStep, PollTurns DEF Bot
<1>2. CASE Venue
  BY <1>2, VenueStep
<1>3. CASE UNCHANGED vars
  <2>1. UNCHANGED << brokerVars, bookVars, omVars >>
    BY <1>3 DEF vars
  <2>2. BrokerOK' /\ Kept /\ Len(orders') = Len(orders)
    BY <2>1, NothingBooked DEF omVars
  <2> QED
    BY <2>1, <2>2, AccountStep
<1> QED
  BY <1>1, <1>2, <1>3 DEF Next

\* IInv holds in every state the order manager can reach, whatever the venue
\* and the faults do.
THEOREM Inductive == Spec => []IInv
<1> QED
  BY InitOK, StepOK, PTL DEF Spec

\* Every variable keeps its type: no id, quantity or trade of another kind gets
\* into the book.
THEOREM TypeCorrect == Spec => []TypeOK
<1>1. IInv => TypeOK
  BY DEF IInv
<1> QED
  BY <1>1, Inductive, PTL

----------------------------------------------------------------------------
(* The limit and the lifecycle                                             *)
(*                                                                         *)
(* The slot never commits to more symbols than it may.  Only _buy makes a  *)
(* symbol busy, and it looks at the limit first; a symbol that is bought   *)
(* is not held (IInv), so what every other step leaves busy was counted    *)
(* before.                                                                 *)
(*                                                                         *)
(* It implements PositionLifecycle: each step moves one symbol as the      *)
(* lifecycle allows or none.  The hard case is a closing: that no earlier  *)
(* trade was booked under its exit order follows from TradesOK.            *)

BusySet == Held \cup Entering

\* Every step but a buy.
Rest ==
  \/ \E s \in Symbols : _sell(s) \/ PollEntry(s) \/ EntryTimesOut(s)
                        \/ PollExit(s) \/ PollStop(s)
  \/ _settle_stop \/ _held \/ SubmitSell
  \/ flatten_all \/ FlattenOne \/ cancel_pending_entries \/ CancelOneEntry
  \/ PollStart \/ CancelTimedOut \/ PollExits \/ PollStops \/ PollReturns
  \/ PollRaises
  \/ Venue
  \/ UNCHANGED vars

LEMMA NextSplit == [Next]_vars => Rest \/ \E s \in Symbols : _buy(s)
  BY DEF Next, Bot, Rest

(* Two disjoint sets of symbols count apart.                               *)
LEMMA CountApart ==
  ASSUME NEW H \in SUBSET Symbols, NEW E \in SUBSET Symbols, H \cap E = {}
  PROVE  /\ IsFiniteSet(H) /\ IsFiniteSet(E) /\ IsFiniteSet(H \cup E)
         /\ Cardinality(H) \in Nat /\ Cardinality(E) \in Nat
         /\ Cardinality(H \cup E) = Cardinality(H) + Cardinality(E)
<1>1. IsFiniteSet(H) /\ IsFiniteSet(E)
  BY SymbolsAssumption, FS_Subset
<1>2. Cardinality(H) \in Nat /\ Cardinality(E) \in Nat
  BY <1>1, FS_CardinalityType
<1>3. /\ IsFiniteSet(H \cup E)
      /\ Cardinality(H \cup E) = Cardinality(H) + Cardinality(E) - Cardinality(H \cap E)
  BY <1>1, FS_Union
<1>4. Cardinality(H \cap E) = 0
  BY FS_EmptySet
<1> QED
  BY <1>1, <1>2, <1>3, <1>4

(* A symbol that is bought is not held.                                    *)
LEMMA Disjoint ==
  ASSUME BookOK
  PROVE  Held \in SUBSET Symbols /\ Entering \in SUBSET Symbols /\ Held \cap Entering = {}
  BY DEF BookOK, SymbolOK, Held, Entering

(* A position that changes in any field but its size stays one.            *)
LEMMA BusyKept ==
  ASSUME NEW s \in Symbols, positions \in [Symbols -> Position],
         \A t \in Symbols \ {s} : positions'[t] = positions[t],
         \A t \in Symbols \ {s} : pending_entries'[t] = pending_entries[t],
         \/ s \in BusySet
         \/ positions'[s] = positions[s] /\ pending_entries'[s] = pending_entries[s]
  PROVE  BusySet' \subseteq BusySet
  BY DEF BusySet, Held, Entering, has

LEMMA OnlyBuysAdd ==
  ASSUME IInv, Rest
  PROVE  BusySet' \subseteq BusySet
<1>0. /\ positions \in [Symbols -> Position]
      /\ pending_entries \in [Symbols -> Nat]
      /\ pending_exits \in [Symbols -> Nat]
  BY DEF IInv, TypeOK, BookTypeOK
<1>1. CASE UNCHANGED << positions, pending_entries >>
  BY <1>1 DEF BusySet, Held, Entering, has
<1>2. ASSUME NEW s \in Symbols, NEW b, BeginSell(s, b)
      PROVE  BusySet' \subseteq BusySet
  <2>1. s \in BusySet /\ UNCHANGED pending_entries
        /\ \A t \in Symbols \ {s} : positions'[t] = positions[t]
    BY <1>0, <1>2 DEF BeginSell, BusySet, Held
  <2> QED
    BY <1>0, <2>1, BusyKept
<1>3. ASSUME NEW s \in Symbols, PopEntry(s)
      PROVE  BusySet' \subseteq BusySet
  BY <1>0, <1>3 DEF PopEntry, BusySet, Held, Entering, has
<1>4. ASSUME NEW s \in Entering, NEW pos, open(s, pos)
      PROVE  BusySet' \subseteq BusySet
  BY <1>0, <1>4, BusyKept DEF open, BusySet, Entering
<1>5. ASSUME NEW s \in Symbols, close(s) \/ PopPosition(s)
      PROVE  BusySet' \subseteq BusySet
  BY <1>0, <1>5 DEF close, PopPosition, NoPosition, BusySet, Held, Entering, has
<1>6. ASSUME NEW s \in Symbols, PollEntry(s)
      PROVE  BusySet' \subseteq BusySet
  <2>1. s \in Entering
    BY <1>6 DEF PollEntry, IInv, ControlOK
  <2> QED
    BY <1>1, <1>3, <1>4, <1>6, <2>1 DEF PollEntry, bookVars
<1>7. ASSUME CancelTimedOut
      PROVE  BusySet' \subseteq BusySet
  <2>1. PICK s \in Entering : s = cur.sym
    BY <1>7 DEF CancelTimedOut, IInv, ControlOK
  <2>2. s \in Symbols
    BY DEF Entering
  <2>3. open(s, Opened(pending_entries[s], cur.qty, 0)) \/ PopEntry(s)
    BY <1>7, <2>1 DEF CancelTimedOut
  <2> QED
    BY <1>3, <1>4, <2>2, <2>3
<1>8. ASSUME NEW s \in Symbols, PollExit(s)
      PROVE  BusySet' \subseteq BusySet
  <2>1. \/ close(s)
        \/ /\ UNCHANGED pending_entries
           /\ positions' = [positions EXCEPT ![s].exit_pending = FALSE]
           /\ has(s)
        \/ UNCHANGED << positions, pending_entries >>
    BY <1>8 DEF PollExit, bookVars
  <2>2. CASE /\ UNCHANGED pending_entries
             /\ positions' = [positions EXCEPT ![s].exit_pending = FALSE]
             /\ has(s)
    BY <1>0, <2>2, BusyKept DEF BusySet, Held
  <2> QED
    BY <1>1, <1>5, <2>1, <2>2
<1>9. ASSUME NEW s \in Symbols, PollStop(s)
      PROVE  BusySet' \subseteq BusySet
  BY <1>1, <1>5, <1>9 DEF PollStop, BookStopFill, bookVars
<1>10. ASSUME _settle_stop \/ _held \/ SubmitSell
       PROVE  BusySet' \subseteq BusySet
  <2>1. PICK s \in Symbols : s = cur.sym
    BY <1>10 DEF _settle_stop, _held, SubmitSell, IInv, ControlOK, Selling
  <2>2. ASSUME NEW q, AfterSettle(s, q)
        PROVE  BusySet' \subseteq BusySet
    <3>1. has(s)
      BY <1>10, <2>1, <2>2 DEF _settle_stop, _held, SubmitSell, IInv, ControlOK, Selling
    <3> QED
      BY <1>0, <2>2, <3>1, BusyKept DEF AfterSettle, BusySet, Held
  <2>3. CASE _settle_stop
    BY <1>1, <1>5, <2>1, <2>2, <2>3 DEF _settle_stop, BookStopFill, bookVars
  <2>4. CASE _held
    BY <1>1, <1>5, <2>1, <2>4 DEF _held, bookVars
  <2>5. CASE SubmitSell
    BY <1>1, <2>5 DEF SubmitSell
  <2> QED
    BY <1>10, <2>3, <2>4, <2>5
<1>11. ASSUME FlattenOne \/ CancelOneEntry
       PROVE  BusySet' \subseteq BusySet
  <2>1. todo \subseteq Symbols
    BY DEF IInv, TypeOK
  <2>2. CASE FlattenOne
    BY <1>1, <1>2, <2>1, <2>2 DEF FlattenOne, bookVars
  <2>3. CASE CancelOneEntry
    BY <1>1, <1>3, <2>1, <2>3 DEF CancelOneEntry, bookVars
  <2> QED
    BY <1>11, <2>2, <2>3
<1>12. CASE Venue \/ UNCHANGED vars
  BY <1>1, <1>12 DEF Venue, VenueFills, VenueEnds, OwnerCloses, vars, bookVars
<1>13. CASE flatten_all \/ cancel_pending_entries \/ PollStart \/ PollExits \/ PollStops
            \/ PollReturns \/ PollRaises \/ \E s \in Symbols : EntryTimesOut(s)
  BY <1>1, <1>13 DEF flatten_all, cancel_pending_entries, PollStart, PollExits, PollStops,
                     PollReturns, PollRaises, EntryTimesOut, bookVars
<1> QED
  BY <1>2, <1>6, <1>7, <1>8, <1>9, <1>10, <1>11, <1>12, <1>13 DEF Rest, _sell

(* A buy adds one symbol, under the limit.                                 *)
LEMMA BuyBounded ==
  ASSUME IInv, NEW s \in Symbols, _buy(s), SlotBound
  PROVE  SlotBound'
<1>0. pending_entries \in [Symbols -> Nat] /\ TypeOK /\ BookOK
  BY DEF IInv, TypeOK, BookTypeOK
<1>1. Held' = Held
  BY DEF _buy, Held, has
<1>2. Entering' \subseteq Entering \cup {s}
  BY <1>0 DEF _buy, Entering
<1>3. /\ IsFiniteSet(Entering) /\ Cardinality(Held) \in Nat /\ Cardinality(Entering) \in Nat
  BY <1>0, Disjoint, CountApart
<1>4. /\ IsFiniteSet(Entering \cup {s})
      /\ Cardinality(Entering \cup {s}) <= Cardinality(Entering) + 1
      /\ Cardinality(Entering \cup {s}) \in Nat
  <2>1. /\ IsFiniteSet(Entering \cup {s})
        /\ Cardinality(Entering \cup {s}) =
             IF s \in Entering THEN Cardinality(Entering) ELSE Cardinality(Entering) + 1
    BY <1>3, FS_AddElement
  <2> QED
    BY <1>3, <2>1
<1>5. Cardinality(Entering') <= Cardinality(Entering \cup {s}) /\ Cardinality(Entering') \in Nat
  BY <1>2, <1>4, FS_Subset, FS_CardinalityType
<1>6. Cardinality(Held) + Cardinality(Entering) < max_positions
  BY DEF _buy, SlotOpen
<1>7. Cardinality(Held') + Cardinality(Entering') <= max_positions
  BY <1>1, <1>3, <1>4, <1>5, <1>6, LimitsAssumption
<1> QED
  BY <1>7 DEF SlotBound

\* The slot never has more positions and buys in flight than max_positions,
\* whatever fills, times out, is cancelled or fails between two signals.
THEOREM SlotsBounded == Spec => []SlotBound
<1>1. Init => SlotBound
  <2> SUFFICES ASSUME Init PROVE SlotBound
    OBVIOUS
  <2>1. Held = {} /\ Entering = {}
    BY DEF Init, BookInit, Held, Entering, has, NoPosition
  <2> QED
    BY <2>1, FS_EmptySet, LimitsAssumption DEF SlotBound
<1>2. IInv /\ IInv' /\ SlotBound /\ [Next]_vars => SlotBound'
  <2> SUFFICES ASSUME IInv, IInv', SlotBound, [Next]_vars PROVE SlotBound'
    OBVIOUS
  <2>1. CASE Rest
    <3>1. BusySet' \subseteq BusySet
      BY <2>1, OnlyBuysAdd
    <3>2. /\ IsFiniteSet(BusySet) /\ Cardinality(Held) \in Nat
          /\ Cardinality(Entering) \in Nat
          /\ Cardinality(BusySet) = Cardinality(Held) + Cardinality(Entering)
      BY Disjoint, CountApart DEF IInv, BusySet
    <3>3. /\ Cardinality(Held') \in Nat /\ Cardinality(Entering') \in Nat
          /\ Cardinality(BusySet') = Cardinality(Held') + Cardinality(Entering')
      <4>1. /\ Held' \in SUBSET Symbols /\ Entering' \in SUBSET Symbols
            /\ Held' \cap Entering' = {}
        BY DEF IInv, BookOK, SymbolOK, Held, Entering
      <4> QED
        BY <4>1, CountApart DEF BusySet
    <3>4. Cardinality(BusySet') <= Cardinality(BusySet)
      BY <3>1, <3>2, FS_Subset
    <3> QED
      BY <3>2, <3>3, <3>4, LimitsAssumption DEF SlotBound
  <2>2. CASE \E s \in Symbols : _buy(s)
    BY <2>2, BuyBounded
  <2> QED
    BY <2>1, <2>2, NextSplit
<1> QED
  BY <1>1, <1>2, Inductive, PTL DEF Spec

----------------------------------------------------------------------------
(* The lifecycle                                                           *)

\* The parts of an abstract step, over the mapped variables.
Stays == Phase' = Phase /\ Closed' = Closed
Moves(s, from, to) ==
  /\ Phase[s] = from
  /\ Phase' = [Phase EXCEPT ![s] = to]
  /\ Closed' = Closed

LEMMA MoveIs ==
  ASSUME NEW s, NEW from, NEW to
  PROVE  Lifecycle!Move(s, from, to) <=> Moves(s, from, to)
  BY DEF Lifecycle!Move, Moves, Phase, Closed

LEMMA StayIs == Stays => UNCHANGED Lifecycle!lifecycleVars
  BY DEF Stays, Lifecycle!lifecycleVars, Phase, Closed

(* Symbols whose book entries a step leaves alone stay in their phase.     *)
LEMMA SamePhase ==
  ASSUME NEW s \in Symbols, positions'[s] = positions[s],
         pending_entries'[s] = pending_entries[s]
  PROVE  PhaseOf(s)' = PhaseOf(s)
  BY DEF PhaseOf, has

LEMMA SameTrades ==
  ASSUME trades' = trades
  PROVE  Closed' = Closed
  BY DEF Closed, TradesOf

(* A step on the book of one symbol moves that symbol only.                *)
LEMMA OneMoves ==
  ASSUME NEW s \in Symbols, trades' = trades,
         \A t \in Symbols \ {s} : /\ positions'[t] = positions[t]
                                  /\ pending_entries'[t] = pending_entries[t]
  PROVE  Moves(s, PhaseOf(s), PhaseOf(s)')
<1>1. \A t \in Symbols \ {s} : PhaseOf(t)' = PhaseOf(t)
  BY SamePhase
<1>2. Phase' = [Phase EXCEPT ![s] = PhaseOf(s)']
  BY <1>1 DEF Phase
<1>3. Phase[s] = PhaseOf(s)
  BY DEF Phase
<1> QED
  BY <1>2, <1>3, SameTrades DEF Moves

LEMMA NoneMoves ==
  ASSUME UNCHANGED << positions, pending_entries, trades >>
  PROVE  Stays
<1>1. \A t \in Symbols : PhaseOf(t)' = PhaseOf(t)
  BY SamePhase
<1> QED
  BY <1>1, SameTrades DEF Stays, Phase

AbstractStep == Stays \/ Lifecycle!LNext

(* The moves of the abstract specification, one by one.                    *)
LEMMA MovesAllowed ==
  ASSUME NEW s \in Symbols,
         \/ Moves(s, "entering", "held")
         \/ Moves(s, "entering", "flat")
         \/ Moves(s, "held", "exiting")
         \/ Moves(s, "exiting", "held")
         \/ verify_holdings /\ Moves(s, "exiting", "flat")
  PROVE  AbstractStep
  BY MoveIs DEF AbstractStep, Lifecycle!LNext, Lifecycle!EntryFills, Lifecycle!EntryEnds,
     Lifecycle!ExitStarts, Lifecycle!ExitFails, Lifecycle!Vanishes

(* Closing a position: its exit order has closed nothing before.           *)
LEMMA CloseRefines ==
  ASSUME IInv, NEW s \in Symbols, NEW i \in Nat, has(s), close(s),
         ClosesEntry(i, positions[s].entry_order_id),
         trades' = trades \cup {TradeOf(s, i)}
  PROVE  AbstractStep
<1>0. /\ positions \in [Symbols -> Position]
      /\ pending_entries \in [Symbols -> Nat]
      /\ trades \subseteq Trade
      /\ SymbolOK(s)
      /\ Len(orders) \in Nat /\ Len(orders) <= MaxOrders
  BY LenProperties DEF IInv, TypeOK, BookTypeOK, BrokerTypeOK, BookOK, OrdersOK
<1>1. i \in 1 .. MaxOrders
  BY <1>0, MaxOrdersAssumption DEF ClosesEntry, OrderIds
<1>2. Phase[s] \in {"held", "exiting"}
  <2>1. Phase[s] = PhaseOf(s)
    BY DEF Phase
  <2> QED
    BY <2>1 DEF PhaseOf
<1>3. \A t \in Symbols : i \notin Closed[t]
  <2>0. \A t \in Symbols : Closed[t] = TradesOf(t)
    BY DEF Closed
  <2> SUFFICES ASSUME NEW u \in trades, u.exit_order_id = i PROVE FALSE
    BY <2>0 DEF TradesOf
  <2>1. u.sym \in Symbols
    BY <1>0 DEF Trade
  <2>2. BuyOf(u.sym, u.entry_order_id) /\ ClosesEntry(i, u.entry_order_id)
        /\ u.entry_order_id # positions[u.sym].entry_order_id
    BY DEF IInv, TradesOK
  <2>3. u.entry_order_id = positions[s].entry_order_id
    BY <2>2 DEF ClosesEntry
  <2>4. u.sym = s
    BY <1>0, <2>2, <2>3 DEF BuyOf, SymbolOK
  <2> QED
    BY <2>2, <2>3, <2>4
<1>4. Phase' = [Phase EXCEPT ![s] = "flat"]
  <2>1. PhaseOf(s)' = "flat"
    BY <1>0 DEF PhaseOf, close, has, NoPosition, SymbolOK
  <2>2. \A t \in Symbols \ {s} : PhaseOf(t)' = PhaseOf(t)
    BY <1>0, SamePhase DEF close
  <2> QED
    BY <2>1, <2>2 DEF Phase
<1>5. Closed' = [Closed EXCEPT ![s] = Closed[s] \cup {i}]
  <2>1. TradeOf(s, i).sym = s /\ TradeOf(s, i).exit_order_id = i
    BY DEF TradeOf
  <2>2. TradesOf(s)' = TradesOf(s) \cup {i}
    BY <2>1 DEF TradesOf
  <2>3. \A t \in Symbols \ {s} : TradesOf(t)' = TradesOf(t)
    BY <2>1 DEF TradesOf
  <2> QED
    BY <2>2, <2>3 DEF Closed
<1>6. Lifecycle!Closes(s, i)
  BY <1>2, <1>3, <1>4, <1>5 DEF Lifecycle!Closes, Phase, Closed
<1> QED
  BY <1>1, <1>6 DEF AbstractStep, Lifecycle!LNext

(* The instance counts as FiniteSets does.                                 *)
LEMMA SameCount ==
  ASSUME NEW S
  PROVE  Lifecycle!Cardinality(S) = Cardinality(S)
  BY Zenon DEF Lifecycle!Cardinality, Cardinality

(* A buy takes a slot that is open.                                        *)
LEMMA BuyRefines ==
  ASSUME IInv, NEW s \in Symbols, _buy(s)
  PROVE  AbstractStep
<1>0. /\ pending_entries \in [Symbols -> Nat]
      /\ Len(orders) \in Nat
      /\ positions' = positions /\ trades' = trades
  BY LenProperties DEF IInv, TypeOK, BookTypeOK, BrokerTypeOK, _buy, omVars
<1>1. CASE UNCHANGED pending_entries
  BY <1>0, <1>1, NoneMoves DEF AbstractStep
<1>2. CASE pending_entries' = [pending_entries EXCEPT ![s] = Len(orders) + 1]
  <2>1. Moves(s, PhaseOf(s), PhaseOf(s)')
    BY <1>0, <1>2, OneMoves
  <2>2. PhaseOf(s) = "flat" /\ PhaseOf(s)' = "entering"
    BY <1>0, <1>2 DEF PhaseOf, _buy, has
  <2>3. Lifecycle!Busy = BusySet
    <3>1. \A t \in Symbols : Phase[t] = PhaseOf(t)
      BY DEF Phase
    <3>2. \A t \in Symbols : PhaseOf(t) # "flat" <=> t \in BusySet
      BY DEF PhaseOf, BusySet, Held, Entering
    <3>3. BusySet \subseteq Symbols
      BY DEF BusySet, Held, Entering
    <3> QED
      BY <3>1, <3>2, <3>3 DEF Lifecycle!Busy
  <2>4. Cardinality(BusySet) < max_positions
    <3>1. Cardinality(BusySet) = Cardinality(Held) + Cardinality(Entering)
      BY Disjoint, CountApart DEF IInv, BusySet
    <3> QED
      BY <3>1 DEF _buy, SlotOpen
  <2>5. Lifecycle!Enter(s)
    <3>1. Lifecycle!Move(s, "flat", "entering")
      BY <2>1, <2>2, MoveIs
    <3> QED
      BY <2>3, <2>4, <3>1, SameCount DEF Lifecycle!Enter
  <2> QED
    BY <2>5 DEF AbstractStep, Lifecycle!LNext
<1> QED
  BY <1>1, <1>2 DEF _buy

(* An entry that ends, or becomes a position.                              *)
LEMMA EntryRefines ==
  ASSUME IInv, NEW s \in Entering, trades' = trades,
         \/ PopEntry(s)
         \/ \E q \in Nat \ {0}, stop \in Nat :
              open(s, Opened(pending_entries[s], q, stop))
  PROVE  AbstractStep
<1>0. /\ s \in Symbols /\ pending_entries[s] # 0
      /\ positions \in [Symbols -> Position]
      /\ pending_entries \in [Symbols -> Nat]
      /\ SymbolOK(s)
  BY DEF Entering, IInv, TypeOK, BookTypeOK, BookOK
<1>1. PhaseOf(s) = "entering"
  BY <1>0 DEF PhaseOf, SymbolOK
<1>2. CASE PopEntry(s)
  <2>1. Moves(s, PhaseOf(s), PhaseOf(s)')
    BY <1>0, <1>2, OneMoves DEF PopEntry
  <2>2. PhaseOf(s)' = "flat"
    BY <1>0, <1>2 DEF PopEntry, PhaseOf, has, SymbolOK
  <2> QED
    BY <1>0, <1>1, <2>1, <2>2, MovesAllowed
<1>3. ASSUME NEW q \in Nat \ {0}, NEW stop \in Nat,
             open(s, Opened(pending_entries[s], q, stop))
      PROVE  AbstractStep
  <2>1. Moves(s, PhaseOf(s), PhaseOf(s)')
    BY <1>0, <1>3, OneMoves DEF open
  <2>2. PhaseOf(s)' = "held"
    BY <1>0, <1>3 DEF open, Opened, PhaseOf, has
  <2> QED
    BY <1>0, <1>1, <2>1, <2>2, MovesAllowed
<1> QED
  BY <1>2, <1>3

LEMMA BeginRefines ==
  ASSUME IInv, NEW s \in Symbols, NEW b, BeginSell(s, b)
  PROVE  AbstractStep
<1>0. positions \in [Symbols -> Position] /\ has(s) /\ trades' = trades
      /\ ~positions[s].exit_pending
      /\ positions' = [positions EXCEPT ![s].exit_pending = TRUE]
      /\ pending_entries' = pending_entries
  BY DEF IInv, TypeOK, BookTypeOK, BeginSell
<1>1. Moves(s, PhaseOf(s), PhaseOf(s)')
  BY <1>0, OneMoves
<1>2. PhaseOf(s) = "held"
  BY <1>0 DEF PhaseOf
<1>3. PhaseOf(s)' = "exiting"
  BY <1>0 DEF PhaseOf, has, Position
<1> QED
  BY <1>1, <1>2, <1>3, MovesAllowed

(* A sell on its way: settling, looking at the account, submitting.        *)
LEMMA SellingRefines ==
  ASSUME IInv, _settle_stop \/ _held \/ SubmitSell
  PROVE  AbstractStep
<1> PICK s \in Symbols : s = cur.sym
  BY DEF _settle_stop, _held, SubmitSell, IInv, ControlOK, Selling
<1>0. /\ Selling
      /\ positions \in [Symbols -> Position] /\ has(s) /\ SymbolOK(s)
      /\ positions[s].exit_pending
      /\ pending_entries[s] = 0
  BY SellingFacts DEF _settle_stop, _held, SubmitSell, Selling, SymbolOK
<1>1. ASSUME NEW q, AfterSettle(s, q)
      PROVE  AbstractStep
  <2>1. Moves(s, PhaseOf(s), PhaseOf(s)')
    BY <1>0, <1>1, OneMoves DEF AfterSettle
  <2>2. PhaseOf(s)' = PhaseOf(s)
    BY <1>0, <1>1 DEF AfterSettle, PhaseOf, has, Position
  <2>3. Stays
    BY <2>1, <2>2 DEF Moves, Stays, Phase
  <2> QED
    BY <2>3 DEF AbstractStep
<1>2. CASE _settle_stop
  <2>1. PICK i \in Nat : i = positions[s].stop_order_id
    BY <1>0 DEF Position
  <2>2. ClosesEntry(i, positions[s].entry_order_id)
    BY <1>0, <1>2, <2>1 DEF _settle_stop, IInv, ControlOK, Selling, SymbolOK
  <2>3. CASE BookStopFill(s, i)
    BY <1>0, <2>2, <2>3, CloseRefines DEF BookStopFill
  <2>4. CASE UNCHANGED << bookVars, trades >>
    BY <2>4, NoneMoves DEF bookVars, AbstractStep
  <2> QED
    BY <1>1, <1>2, <2>1, <2>3, <2>4 DEF _settle_stop
<1>3. CASE _held
  <2>1. verify_holdings /\ trades' = trades
    BY <1>3 DEF _held, IInv, ControlOK
  <2>2. CASE PopPosition(s)
    <3>1. Moves(s, PhaseOf(s), PhaseOf(s)')
      BY <1>0, <2>1, <2>2, OneMoves DEF PopPosition
    <3>2. PhaseOf(s) = "exiting"
      BY <1>0 DEF PhaseOf
    <3>3. PhaseOf(s)' = "flat"
      BY <1>0, <2>2 DEF PopPosition, PhaseOf, has, NoPosition
    <3> QED
      BY <2>1, <3>1, <3>2, <3>3, MovesAllowed
  <2>3. CASE UNCHANGED bookVars
    BY <2>1, <2>3, NoneMoves DEF bookVars, AbstractStep
  <2> QED
    BY <1>3, <2>2, <2>3 DEF _held
<1>4. CASE SubmitSell
  BY <1>4, NoneMoves DEF SubmitSell, AbstractStep
<1> QED
  BY <1>2, <1>3, <1>4

(* poll                                                                    *)
LEMMA PollEntryRefines ==
  ASSUME IInv, NEW s \in Symbols, PollEntry(s)
  PROVE  AbstractStep
<1>1. s \in Entering /\ trades' = trades
  BY DEF PollEntry, IInv, ControlOK
<1>2. PICK i : i = pending_entries[s]
  OBVIOUS
<1>3. i \in OrderIds /\ orders[i] \in Order
  BY <1>1, <1>2, OrderType DEF Entering, IInv, TypeOK, BookOK, SymbolOK, BuyOf
<1>4. CASE is_filled(orders[i]) /\ open(s, Opened(i, orders[i].filled, orders[i].leg))
  <2>1. orders[i].filled \in Nat \ {0} /\ orders[i].leg \in Nat
    BY <1>3, <1>4 DEF IInv, OrdersOK, Order
  <2> QED
    BY <1>1, <1>2, <1>4, <2>1, EntryRefines
<1>5. CASE PopEntry(s)
  BY <1>1, <1>5, EntryRefines
<1>6. CASE UNCHANGED bookVars
  BY <1>1, <1>6, NoneMoves DEF bookVars, AbstractStep
<1> QED
  BY <1>2, <1>4, <1>5, <1>6 DEF PollEntry

LEMMA TimeoutRefines ==
  ASSUME IInv, CancelTimedOut
  PROVE  AbstractStep
<1>1. PICK s \in Entering : s = cur.sym
  BY DEF CancelTimedOut, IInv, ControlOK
<1>2. trades' = trades /\ cur.qty \in Int
  BY DEF CancelTimedOut, IInv, TypeOK, Locals
<1>3. CASE cur.qty > 0
  <2>1. open(s, Opened(pending_entries[s], cur.qty, 0)) /\ cur.qty \in Nat \ {0}
    BY <1>1, <1>2, <1>3 DEF CancelTimedOut
  <2> QED
    BY <1>1, <1>2, <2>1, EntryRefines
<1>4. CASE ~(cur.qty > 0)
  BY <1>1, <1>2, <1>4, EntryRefines DEF CancelTimedOut
<1> QED
  BY <1>3, <1>4

LEMMA PollExitRefines ==
  ASSUME IInv, NEW s \in Symbols, PollExit(s)
  PROVE  AbstractStep
<1>1. /\ s \in Exiting /\ has(s) /\ SymbolOK(s) /\ positions[s].exit_pending
      /\ positions \in [Symbols -> Position] /\ pending_exits[s] \in Nat
  BY DEF PollExit, IInv, TypeOK, BookTypeOK, ControlOK, BookOK, SymbolOK, Exiting
<1>2. PICK i \in Nat : i = pending_exits[s]
  BY <1>1
<1>3. ClosesEntry(i, positions[s].entry_order_id)
  BY <1>1, <1>2 DEF SymbolOK, Exiting
<1>4. CASE close(s) /\ trades' = trades \cup {TradeOf(s, i)}
  BY <1>1, <1>3, <1>4, CloseRefines
<1>5. CASE /\ positions' = [positions EXCEPT ![s].exit_pending = FALSE]
           /\ UNCHANGED << pending_entries, trades >>
  <2>1. Moves(s, PhaseOf(s), PhaseOf(s)')
    BY <1>1, <1>5, OneMoves
  <2>2. PhaseOf(s) = "exiting" /\ PhaseOf(s)' = "held"
    BY <1>1, <1>5 DEF PhaseOf, has, Position
  <2> QED
    BY <2>1, <2>2, MovesAllowed
<1>6. CASE UNCHANGED << bookVars, trades >>
  BY <1>6, NoneMoves DEF bookVars, AbstractStep
<1> QED
  BY <1>1, <1>2, <1>4, <1>5, <1>6 DEF PollExit

LEMMA PollStopRefines ==
  ASSUME IInv, NEW s \in Symbols, PollStop(s)
  PROVE  AbstractStep
<1>1. s \in Guarded /\ has(s) /\ SymbolOK(s) /\ positions[s] \in Position
  BY DEF PollStop, IInv, TypeOK, BookTypeOK, ControlOK, BookOK, Guarded, Held
<1>2. PICK i \in Nat : i = positions[s].stop_order_id
  BY <1>1 DEF Position
<1>3. ClosesEntry(i, positions[s].entry_order_id)
  BY <1>1, <1>2 DEF SymbolOK, Guarded
<1>4. CASE BookStopFill(s, i)
  BY <1>1, <1>3, <1>4, CloseRefines DEF BookStopFill
<1>5. CASE UNCHANGED << bookVars, trades >>
  BY <1>5, NoneMoves DEF bookVars, AbstractStep
<1> QED
  BY <1>2, <1>4, <1>5 DEF PollStop

LEMMA LoopRefines ==
  ASSUME IInv, FlattenOne \/ CancelOneEntry
  PROVE  AbstractStep
<1>0. trades' = trades
  BY DEF FlattenOne, CancelOneEntry, BeginSell
<1>1. CASE FlattenOne
  <2>1. todo \subseteq Symbols
    BY DEF IInv, TypeOK
  <2>2. CASE UNCHANGED bookVars
    BY <1>0, <2>2, NoneMoves DEF bookVars, AbstractStep
  <2> QED
    BY <1>1, <2>1, <2>2, BeginRefines DEF FlattenOne
<1>2. CASE CancelOneEntry
  <2>1. todo \subseteq Entering
    BY <1>2 DEF CancelOneEntry, IInv, ControlOK
  <2>2. CASE UNCHANGED bookVars
    BY <1>0, <2>2, NoneMoves DEF bookVars, AbstractStep
  <2> QED
    BY <1>0, <1>2, <2>1, <2>2, EntryRefines DEF CancelOneEntry
<1> QED
  BY <1>1, <1>2

LEMMA StepRefines ==
  ASSUME IInv, [Next]_vars
  PROVE  AbstractStep
<1>1. CASE \E s \in Symbols : _buy(s)
  BY <1>1, BuyRefines
<1>2. CASE \E s \in Symbols : _sell(s)
  BY <1>2, BeginRefines DEF _sell
<1>3. CASE Venue \/ UNCHANGED vars
  BY <1>3, NoneMoves DEF Venue, VenueFills, VenueEnds, OwnerCloses, vars, bookVars, omVars,
     AbstractStep
<1>4. CASE flatten_all \/ cancel_pending_entries \/ PollStart \/ PollExits \/ PollStops
            \/ PollReturns \/ PollRaises \/ \E s \in Symbols : EntryTimesOut(s)
  BY <1>4, NoneMoves DEF flatten_all, cancel_pending_entries, PollStart, PollExits, PollStops,
     PollReturns, PollRaises, EntryTimesOut, bookVars, AbstractStep
<1>5. CASE Rest
  BY <1>2, <1>3, <1>4, <1>5, PollEntryRefines, PollExitRefines, PollStopRefines,
     SellingRefines, LoopRefines, TimeoutRefines DEF Rest
<1> QED
  BY <1>1, <1>5, NextSplit

\* The order manager implements the lifecycle: whatever the venue, the faults
\* and the polls do, a symbol goes flat, entering, held, exiting, flat, within
\* the limit, and every closing is booked once, under an exit order of its own.
THEOREM Implements == Spec => ImplementsLifecycle
<1>1. Init => Lifecycle!LInit
  <2> SUFFICES ASSUME Init PROVE Lifecycle!LInit
    OBVIOUS
  <2>1. \A s \in Symbols : PhaseOf(s) = "flat" /\ TradesOf(s) = {}
    BY DEF Init, BookInit, PhaseOf, TradesOf, has, NoPosition
  <2> QED
    BY <2>1 DEF Lifecycle!LInit, Phase, Closed
<1>2. IInv /\ [Next]_vars => [Lifecycle!LNext]_(Lifecycle!lifecycleVars)
  BY StepRefines, StayIs DEF AbstractStep
<1> QED
  BY <1>1, <1>2, Inductive, PTL DEF Spec, ImplementsLifecycle, Lifecycle!LSpec

----------------------------------------------------------------------------
(* The trades reported                                                     *)

Polling == pc \in {"entries", "timeout_cancel", "exits", "stops"}

\* Only a poll that is under way holds a list of trades.
Reported == TradesHandedOut /\ (~Polling => completed = {})

LEMMA ReportedKeeps ==
  ASSUME "read_error" \notin Faults, Reported, [Next]_vars
  PROVE  Reported'
<1> USE DEF Reported, TradesHandedOut, Polling
<1>1. CASE \E s \in Symbols : _buy(s) \/ _sell(s)
  BY <1>1 DEF _buy, _sell, BeginSell, omVars
<1>2. CASE \E s \in Symbols : PollEntry(s) \/ EntryTimesOut(s)
  BY <1>2 DEF PollEntry, EntryTimesOut, Walk
<1>3. CASE \E s \in Symbols : PollExit(s)
  BY <1>3 DEF PollExit, Walk
<1>4. CASE \E s \in Symbols : PollStop(s)
  BY <1>4 DEF PollStop, BookStopFill, Walk
<1>5. CASE _settle_stop
  BY <1>5 DEF _settle_stop, BookStopFill, AfterSettle, Return
<1>6. CASE _held \/ SubmitSell
  BY <1>6 DEF _held, SubmitSell, Return, Raise
<1>7. CASE flatten_all \/ FlattenOne \/ cancel_pending_entries \/ CancelOneEntry
  BY <1>7 DEF flatten_all, FlattenOne, BeginSell, cancel_pending_entries, CancelOneEntry, Walk
<1>8. CASE PollStart \/ CancelTimedOut \/ PollExits \/ PollStops \/ PollReturns
  BY <1>8 DEF PollStart, CancelTimedOut, PollExits, PollStops, PollReturns, Walk
<1>9. CASE Venue \/ UNCHANGED vars
  BY <1>9 DEF Venue, VenueFills, VenueEnds, OwnerCloses, vars, omVars
<1> QED
  BY <1>1, <1>2, <1>3, <1>4, <1>5, <1>6, <1>7, <1>8, <1>9 DEF Next, Bot, PollRaises

\* poll: unless the reading of an order fails in one, every trade that was booked
\* has been returned by a poll or is on its way to one.
THEOREM TradesReachRunner ==
  ASSUME "read_error" \notin Faults
  PROVE  Spec => []TradesHandedOut
<1>1. Init => Reported
  BY DEF Init, Reported, TradesHandedOut
<1>2. Reported /\ [Next]_vars => Reported'
  BY ReportedKeeps
<1>3. Reported => TradesHandedOut
  BY DEF Reported
<1> QED
  BY <1>1, <1>2, <1>3, PTL DEF Spec

----------------------------------------------------------------------------
(* What each operation of the venue changes of an order                    *)

Same(j) ==
  /\ orders'[j].kind = orders[j].kind /\ orders'[j].sym = orders[j].sym
  /\ orders'[j].entry = orders[j].entry /\ orders'[j].leg = orders[j].leg
  /\ orders'[j].qty = orders[j].qty

LEMMA FillFields ==
  ASSUME BrokerOK, NEW i \in OrderIds, NEW k, Fill(i, k)
  PROVE  /\ OrderIds' = OrderIds /\ \A j \in OrderIds : Same(j)
         /\ Working(orders[i]) /\ k \in Nat /\ k > 0 /\ orders[i].filled + k <= orders[i].qty
         /\ orders'[i].filled = orders[i].filled + k
         /\ orders'[i].status =
              IF orders[i].filled + k = orders[i].qty THEN "filled" ELSE orders[i].status
         /\ \A j \in OrderIds \ {i} :
              /\ orders'[j].filled = orders[j].filled
              /\ orders'[j].status =
                   IF j = orders[i].leg /\ orders[i].filled + k = orders[i].qty
                   THEN "new" ELSE orders[j].status
<1> DEFINE o == orders[i]
           done == o.filled + k = o.qty
           f == [j \in OrderIds |->
             IF j = i
               THEN [o EXCEPT !.filled = o.filled + k,
                              !.status = IF done THEN "filled" ELSE o.status]
               ELSE IF j = o.leg /\ done
                      THEN [orders[j] EXCEPT !.status = "new"]
                      ELSE orders[j]]
<1>1. orders' = f /\ k \in 1 .. (o.qty - o.filled) /\ Working(o)
  BY DEF Fill
<1>2. o \in Order /\ \A j \in OrderIds : orders[j] \in Order
  BY OrderType DEF BrokerOK
<1>3. k \in Nat /\ k > 0 /\ o.filled + k <= o.qty
  BY <1>1, <1>2 DEF Order
<1>4. OrderIds' = OrderIds
  BY <1>3, FillKeeps DEF OrderIds
<1>5. \A j \in OrderIds \ {i} :
        f[j] = IF j = o.leg /\ done THEN [orders[j] EXCEPT !.status = "new"] ELSE orders[j]
  OBVIOUS
<1>6. f[i] = [o EXCEPT !.filled = o.filled + k, !.status = IF done THEN "filled" ELSE o.status]
  OBVIOUS
<1> HIDE DEF f
<1>7. \A j \in OrderIds : Same(j)
  <2> TAKE j \in OrderIds
  <2>1. CASE j = i
    BY <1>1, <1>2, <1>6, <2>1 DEF Same, Order
  <2>2. CASE j # i
    BY <1>1, <1>2, <1>5, <2>2 DEF Same, Order
  <2> QED
    BY <2>1, <2>2
<1>8. f[i].filled = o.filled + k /\ f[i].status = IF done THEN "filled" ELSE o.status
  BY <1>2, <1>6 DEF Order
<1>9. \A j \in OrderIds \ {i} :
        /\ f[j].filled = orders[j].filled
        /\ f[j].status = IF j = o.leg /\ done THEN "new" ELSE orders[j].status
  BY <1>2, <1>5 DEF Order
<1> QED
  BY <1>1, <1>3, <1>4, <1>7, <1>8, <1>9

\* What a step leaves of every order but its status.
LEMMA EndFields ==
  ASSUME BrokerOK, NEW i \in OrderIds, End(i)
  PROVE  /\ OrderIds' = OrderIds /\ Working(orders[i])
         /\ \A j \in OrderIds :
              /\ Same(j) /\ orders'[j].filled = orders[j].filled
              /\ orders'[j].status =
                   IF j = i \/ j = orders[i].leg THEN "canceled" ELSE orders[j].status
<1>1. orders' = [j \in OrderIds |->
        IF j = i \/ j = orders[i].leg THEN [orders[j] EXCEPT !.status = "canceled"] ELSE orders[j]]
  BY DEF End
<1>2. \A j \in OrderIds : orders[j] \in Order
  BY OrderType DEF BrokerOK
<1>3. OrderIds' = OrderIds
  BY EndKeeps DEF OrderIds
<1> QED
  BY <1>1, <1>2, <1>3 DEF Same, Order, End

LEMMA CancelFields ==
  ASSUME BrokerOK, NEW i \in OrderIds, cancel(i), UNCHANGED holdings
  PROVE  /\ OrderIds' = OrderIds
         /\ \A j \in OrderIds :
              /\ Same(j) /\ orders'[j].filled = orders[j].filled
              /\ orders'[j].status =
                   IF j = i /\ orders[i].status = "new" THEN "pending_cancel" ELSE orders[j].status
<1>1. orders' = IF orders[i].status = "new"
                  THEN [orders EXCEPT ![i].status = "pending_cancel"] ELSE orders
  BY DEF cancel
<1>2. DOMAIN orders = OrderIds /\ \A j \in OrderIds : orders[j] \in Order
  BY OrderType, LenProperties DEF BrokerOK, BrokerTypeOK, OrderIds
<1>3. OrderIds' = OrderIds
  BY CancelKeeps DEF OrderIds
<1> QED
  BY <1>1, <1>2, <1>3 DEF Same, Order

LEMMA OwnerFields ==
  ASSUME BrokerOK, NEW s \in Symbols, OwnerCloses(s)
  PROVE  /\ OrderIds' = OrderIds
         /\ \A j \in OrderIds :
              /\ Same(j) /\ orders'[j].filled = orders[j].filled
              /\ \/ orders'[j].status = orders[j].status
                 \/ /\ orders[j].kind = "stop" /\ Working(orders[j])
                    /\ orders'[j].status = "canceled"
<1>1. orders' = [i \in OrderIds |-> IF orders[i].sym = s /\ Working(orders[i])
                   THEN [orders[i] EXCEPT !.status = "canceled"] ELSE orders[i]]
      /\ \A i \in OrderIds : orders[i].sym = s /\ Working(orders[i]) => orders[i].kind = "stop"
  BY DEF OwnerCloses
<1>2. \A j \in OrderIds : orders[j] \in Order
  BY OrderType DEF BrokerOK
<1>3. OrderIds' = OrderIds
  BY OwnerKeeps DEF OrderIds
<1> QED
  BY <1>1, <1>2, <1>3 DEF Same, Order

----------------------------------------------------------------------------
(* The part kept at a timeout                                              *)

\* What was read of a buy that is being given up is still what it has filled.
PartRead == pc = "timeout_cancel" => cur.qty = orders[pending_entries[cur.sym]].filled

LEMMA PartReadKeeps ==
  ASSUME "late_fill" \notin Faults, IInv, PartRead, [Next]_vars
  PROVE  PartRead'
<1> SUFFICES ASSUME pc' = "timeout_cancel" PROVE PartRead'
    BY DEF PartRead
<1> DEFINE s == cur.sym
           i == pending_entries[cur.sym]
<1>1. BrokerOK
  BY DEF IInv, TypeOK, BrokerOK
<1>2. CASE \E t \in Symbols : EntryTimesOut(t)
  <2>1. PICK t \in Symbols : EntryTimesOut(t)
    BY <1>2
  <2>2. cur'.qty = orders[pending_entries[t]].filled /\ cur'.sym = t
    BY <2>1 DEF EntryTimesOut, NoLocals
  <2> QED
    BY <2>1, <2>2 DEF EntryTimesOut, brokerVars, bookVars, PartRead
<1>3. CASE Venue
  <2>1. pc = "timeout_cancel" /\ UNCHANGED << cur, pending_entries >>
    BY <1>3 DEF Venue, VenueFills, VenueEnds, OwnerCloses, omVars, bookVars
  <2>2. i \in OrderIds /\ orders[i].kind = "buy"
    BY <2>1 DEF IInv, ControlOK, BookOK, SymbolOK, BuyOf, Entering
  <2>3. orders'[i].filled = orders[i].filled
    <3>1. CASE \E j \in OrderIds : VenueFills(j)
      <4>1. PICK j \in OrderIds : VenueFills(j)
        BY <3>1
      <4>2. j # i
        BY <2>1, <2>2, <4>1 DEF VenueFills, Closing
      <4>3. PICK k : Fill(j, k)
        BY <4>1 DEF VenueFills
      <4> QED
        BY <1>1, <2>2, <4>2, <4>3, FillFields
    <3>2. CASE \E j \in OrderIds : VenueEnds(j)
      BY <1>1, <2>2, <3>2, EndFields DEF VenueEnds
    <3>3. CASE \E t \in Symbols : OwnerCloses(t)
      BY <1>1, <2>2, <3>3, OwnerFields
    <3> QED
      BY <1>3, <3>1, <3>2, <3>3 DEF Venue
  <2> QED
    BY <2>1, <2>3 DEF PartRead
<1>4. CASE UNCHANGED vars
  BY <1>4 DEF vars, omVars, bookVars, brokerVars, PartRead
<1>5. CASE Bot
  <2>1. \A t : ~(_buy(t) \/ _sell(t) \/ PollEntry(t) \/ PollExit(t) \/ PollStop(t))
    BY DEF _buy, _sell, BeginSell, PollEntry, PollExit, PollStop, Walk, omVars
  <2>2. ~(_settle_stop \/ _held \/ SubmitSell)
    BY DEF _settle_stop, _held, SubmitSell, AfterSettle, Return, Raise
  <2>3. ~(flatten_all \/ FlattenOne \/ cancel_pending_entries \/ CancelOneEntry)
    BY DEF flatten_all, FlattenOne, BeginSell, cancel_pending_entries, CancelOneEntry, Walk
  <2>4. ~(PollStart \/ CancelTimedOut \/ PollExits \/ PollStops \/ PollReturns \/ PollRaises)
    BY DEF PollStart, CancelTimedOut, PollExits, PollStops, PollReturns, PollRaises, Walk, Raise
  <2> QED
    BY <1>2, <1>5, <2>1, <2>2, <2>3, <2>4 DEF Bot
<1> QED
  BY <1>3, <1>4, <1>5 DEF Next

\* _poll_entries: unless a buy fills between the poll's last look at it and the
\* venue's cancel, what it has filled when it is given up is in the book.
THEOREM PartsKept ==
  ASSUME "late_fill" \notin Faults
  PROVE  Spec => PartialFillKept
<1>1. Init => PartRead
  BY DEF Init, PartRead
<1>2. IInv /\ PartRead /\ [Next]_vars => PartRead'
  BY PartReadKeeps
<1>3. ASSUME IInv, PartRead, [Next]_vars, NEW s \in Symbols,
             pc = "timeout_cancel", pending_entries[s] # 0, pending_entries'[s] = 0
      PROVE  positions'[s].qty = orders[pending_entries[s]].filled
  <2>1. CancelTimedOut
    <3>1. CASE Venue \/ UNCHANGED vars
      BY <1>3, <3>1 DEF Venue, VenueFills, VenueEnds, OwnerCloses, vars, bookVars
    <3> QED
      BY <1>3, <3>1 DEF Next, Bot, _buy, _sell, BeginSell, PollEntry, EntryTimesOut, PollExit,
         PollStop, _settle_stop, _held, SubmitSell, flatten_all, FlattenOne,
         cancel_pending_entries, CancelOneEntry, PollStart, PollExits, PollStops, PollReturns,
         PollRaises
  <2>2. s = cur.sym
    <3>1. pending_entries' = [pending_entries EXCEPT ![cur.sym] = 0]
      BY <2>1 DEF CancelTimedOut, open, PopEntry
    <3> QED
      BY <1>3, <3>1 DEF IInv, TypeOK, BookTypeOK
  <2>3. ~has(s) /\ positions[s].qty = 0 /\ positions \in [Symbols -> Position]
    BY <1>3 DEF IInv, BookOK, SymbolOK, NoPosition, TypeOK, BookTypeOK
  <2>4. cur.qty = orders[pending_entries[s]].filled
    BY <1>3, <2>2 DEF PartRead
  <2>5. CASE cur.qty > 0
    BY <2>1, <2>2, <2>3, <2>4, <2>5 DEF CancelTimedOut, open, Opened
  <2>6. CASE ~(cur.qty > 0)
    <3>1. pending_entries[s] \in OrderIds /\ orders[pending_entries[s]].filled \in Nat
      BY <1>3, OrderType DEF IInv, BookOK, SymbolOK, BuyOf, TypeOK, Order
    <3>2. positions' = positions
      BY <2>1, <2>2, <2>6 DEF CancelTimedOut, PopEntry
    <3> QED
      BY <2>3, <2>4, <2>6, <3>1, <3>2
  <2> QED
    BY <2>5, <2>6
<1>4. IInv /\ PartRead /\ [Next]_vars =>
        [\A s \in Symbols :
           pc = "timeout_cancel" /\ pending_entries[s] # 0 /\ pending_entries'[s] = 0
             => positions'[s].qty = orders[pending_entries[s]].filled]_vars
  BY <1>3
<1> QED
  BY <1>1, <1>2, <1>4, Inductive, PTL DEF Spec, PartialFillKept

----------------------------------------------------------------------------
(* The shares sold                                                         *)

(***************************************************************************)
(* What the venue and the network do here: orders fill in parts or are     *)
(* refused, but not both; a sell's submit fails, a submit's answer is      *)
(* lost, and the owner closes positions by hand.  What is left out, no     *)
(* order expires with a part filled, a cancel is not lost, and is settled  *)
(* while the code waits for it, no buy fills after the poll's last look,   *)
(* and reads are answered, each leads past the properties below.           *)
(***************************************************************************)
Tame ==
  /\ Faults \cap {"expire", "late_fill", "slow_cancel", "read_error", "cancel_error"} = {}
  /\ ~({"partial_fill", "reject"} \subseteq Faults)

Buys == {e \in OrderIds : orders[e].kind = "buy"}

\* What an order has sold or may yet sell: a held stop waits for its buy.
Claim(o) == CASE o.status = "held" -> 0
              [] o.status = "canceled" -> o.filled
              [] OTHER -> o.qty

Claims(e) == [i \in 1 .. MaxOrders |-> IF i \in SellOrders(e) THEN Claim(orders[i]) ELSE 0]
Claimed(e) == Total(Claims(e))

\* No sell of e has still to fill, is a sell of the bot's, or claims a share.
Over(e) == \A i \in SellOrders(e) : ~Working(orders[i])
StopOnly(e) == \A i \in SellOrders(e) : orders[i].kind = "stop"
Unclaimed(e) == \A i \in SellOrders(e) : Claim(orders[i]) = 0

\* How the status of an order goes with its fill and with the buy it closes.
OrderFacts(i) ==
  LET o == orders[i]
      b == orders[o.entry]
  IN
  /\ o.status = "held" => o.kind = "stop" /\ o.filled = 0
  /\ ~is_filled(o) => o.filled < o.qty
  /\ "partial_fill" \notin Faults /\ ~is_filled(o) => o.filled = 0
  /\ o.kind # "buy" => o.entry \in Buys /\ b.sym = o.sym
  /\ o.kind = "stop" =>
       /\ b.leg = i /\ o.qty = b.qty
       /\ ~is_filled(b) => o.status \in {"held", "canceled"} /\ o.filled = 0
       /\ is_filled(b) => o.status # "held"
  /\ o.kind = "sell" =>
       /\ b.status # "new" /\ o.status # "pending_cancel"
       /\ o.status = "canceled" => "reject" \in Faults

Account == BrokerOK /\ \A i \in OrderIds : OrderFacts(i)

Within == \A e \in Buys : Claimed(e) <= orders[e].filled

----------------------------------------------------------------------------
(* Sums of claims                                                          *)

LEMMA TotalIsSum == ASSUME NEW f PROVE Total(f) = SumOf(f)
  BY DEF Total, SumOf

LEMMA Bounded == IsFiniteSet(1 .. MaxOrders)
  BY MaxOrdersAssumption, FS_Interval

LEMMA OneChanges ==
  ASSUME NEW f \in [1 .. MaxOrders -> Int], NEW g \in [1 .. MaxOrders -> Int],
         NEW x \in 1 .. MaxOrders, \A j \in (1 .. MaxOrders) \ {x} : g[j] = f[j]
  PROVE  SumOf(g) = SumOf(f) + g[x] - f[x] /\ f[x] \in Int
  BY SumChanges, Bounded

LEMMA IdsBounded == ASSUME BrokerOK PROVE OrderIds \subseteq 1 .. MaxOrders /\ Len(orders) \in Nat
  BY LenProperties, MaxOrdersAssumption DEF BrokerOK, BrokerTypeOK, OrdersOK, OrderIds

LEMMA ClaimType ==
  ASSUME BrokerOK, NEW i \in OrderIds
  PROVE  Claim(orders[i]) \in Nat /\ orders[i].filled \in Nat /\ orders[i].qty \in Nat
<1>1. orders[i] \in Order
  BY OrderType DEF BrokerOK
<1> QED
  BY <1>1 DEF Claim, Order

LEMMA ClaimsType ==
  BrokerOK => \A e : /\ Claims(e) \in [1 .. MaxOrders -> Int]
                     /\ \A i \in 1 .. MaxOrders : Claims(e)[i] >= 0
                     /\ Claimed(e) = SumOf(Claims(e)) /\ Claimed(e) \in Int
<1> SUFFICES ASSUME BrokerOK, NEW e
             PROVE  /\ Claims(e) \in [1 .. MaxOrders -> Int]
                    /\ \A i \in 1 .. MaxOrders : Claims(e)[i] >= 0
                    /\ Claimed(e) = SumOf(Claims(e)) /\ Claimed(e) \in Int
    OBVIOUS
<1>1. \A i \in SellOrders(e) : Claim(orders[i]) \in Nat
  BY ClaimType DEF SellOrders
<1>2. Claims(e) \in [1 .. MaxOrders -> Int] /\ \A i \in 1 .. MaxOrders : Claims(e)[i] >= 0
  BY <1>1 DEF Claims
<1>3. Claimed(e) = SumOf(Claims(e))
  BY TotalIsSum DEF Claimed
<1> QED
  BY <1>2, <1>3, SumType, Bounded

LEMMA UnclaimedIsZero ==
  BrokerOK => \A e : Unclaimed(e) => Claimed(e) = 0
<1> SUFFICES ASSUME BrokerOK, NEW e, Unclaimed(e) PROVE Claimed(e) = 0
    OBVIOUS
<1>1. Claims(e) = [i \in 1 .. MaxOrders |-> 0]
  BY DEF Claims, Unclaimed
<1>2. DOMAIN Claims(e) = 1 .. MaxOrders
  BY DEF Claims
<1> QED
  BY <1>1, <1>2, SumOfZeros, Bounded, ClaimsType

\* With no sell but the stop, the claim is the stop's.
LEMMA StopClaims ==
  Account => \A e \in Buys : StopOnly(e) =>
    /\ Claimed(e) <= orders[e].filled
    /\ ~is_filled(orders[e]) => Unclaimed(e)
    /\ SellOrders(e) \subseteq {orders[e].leg}
    /\ orders[e].leg # 0 => Claimed(e) = Claim(orders[orders[e].leg])
<1> SUFFICES ASSUME Account, NEW e \in Buys, StopOnly(e)
             PROVE  /\ Claimed(e) <= orders[e].filled
                    /\ ~is_filled(orders[e]) => Unclaimed(e)
                    /\ SellOrders(e) \subseteq {orders[e].leg}
                    /\ orders[e].leg # 0 => Claimed(e) = Claim(orders[orders[e].leg])
    OBVIOUS
<1> DEFINE l == orders[e].leg
<1>1. BrokerOK /\ e \in OrderIds /\ orders[e].filled \in Nat
  BY ClaimType DEF Account, Buys
<1>2. \A i \in SellOrders(e) : i \in OrderIds /\ OrderFacts(i) /\ orders[i].kind = "stop"
                               /\ orders[i].entry = e
  BY DEF Account, StopOnly, SellOrders
<1>3. SellOrders(e) \subseteq {l}
  BY <1>2 DEF OrderFacts
<1>4. ASSUME ~is_filled(orders[e]) PROVE Unclaimed(e)
  BY <1>2, <1>4 DEF OrderFacts, Unclaimed, Claim
<1>5. CASE l \notin SellOrders(e)
  <2>1. Unclaimed(e) /\ l = 0
    BY <1>1, <1>3, <1>5 DEF Unclaimed, BrokerOK, OrdersOK, SellOrders
  <2> QED
    BY <1>1, <1>3, <1>4, <2>1, UnclaimedIsZero
<1>6. CASE l \in SellOrders(e)
  <2>1. l \in 1 .. MaxOrders
    BY <1>1, <1>2, <1>6, IdsBounded
  <2>2. \A j \in (1 .. MaxOrders) \ {l} : Claims(e)[j] = 0
    BY <1>3 DEF Claims
  <2>3. Claims(e)[l] = Claim(orders[l])
    BY <1>6, <2>1 DEF Claims
  <2>4. Claimed(e) = Claim(orders[l])
    <3> HIDE DEF l
    <3>1. Claims(e) \in [1 .. MaxOrders -> Int] /\ Claimed(e) = SumOf(Claims(e))
      BY <1>1, ClaimsType
    <3>2. SumOf(Claims(e)) = Claims(e)[l]
      BY <2>1, <2>2, <3>1, SumOfOne, Bounded
    <3> QED
      BY <2>3, <3>1, <3>2
  <2>5. CASE is_filled(orders[e])
    <3>1. orders[e].filled = orders[e].qty /\ orders[l].qty = orders[e].qty
      BY <1>1, <1>2, <1>6, <2>5 DEF BrokerOK, OrdersOK, OrderFacts
    <3>2. Claim(orders[l]) <= orders[l].qty
      <4>1. orders[l].filled <= orders[l].qty /\ 0 < orders[l].qty
        BY <1>1, <1>2, <1>6 DEF BrokerOK, OrdersOK
      <4> QED
        BY <1>1, <1>2, <1>6, <4>1, ClaimType DEF Claim
    <3> QED
      BY <1>3, <1>4, <2>4, <3>1, <3>2
  <2>6. CASE ~is_filled(orders[e])
    BY <1>1, <1>3, <1>4, <2>4, <2>6, UnclaimedIsZero
  <2> QED
    BY <2>5, <2>6
<1> QED
  BY <1>5, <1>6

LEMMA ClaimsNext ==
  BrokerOK' =>
    (\A e : /\ Claims(e) \in [1 .. MaxOrders -> Int]
            /\ \A i \in 1 .. MaxOrders : Claims(e)[i] >= 0
            /\ Claimed(e) = SumOf(Claims(e)) /\ Claimed(e) \in Int)'
  BY ClaimsType, PTL

LEMMA UnclaimedNext == BrokerOK' => (\A e : Unclaimed(e) => Claimed(e) = 0)'
  BY UnclaimedIsZero, PTL

LEMMA StopClaimsNext ==
  Account' =>
    (\A e \in Buys : StopOnly(e) =>
       /\ Claimed(e) <= orders[e].filled
       /\ ~is_filled(orders[e]) => Unclaimed(e)
       /\ SellOrders(e) \subseteq {orders[e].leg}
       /\ orders[e].leg # 0 => Claimed(e) = Claim(orders[orders[e].leg]))'
  BY StopClaims, PTL

----------------------------------------------------------------------------
(* What no step does to the sells of a buy that fills no more              *)

SellMoves(i) ==
  /\ Same(i)
  /\ Working(orders'[i]) => Working(orders[i])
  /\ Claim(orders'[i]) <= Claim(orders[i])
  /\ ~Working(orders[i]) \/ orders'[i].status # "canceled" => Claim(orders'[i]) = Claim(orders[i])
  /\ ~Working(orders[i]) => orders'[i].filled = orders[i].filled
  /\ orders[i].status # "new" => orders'[i].status # "new"
  /\ orders[i].kind = "sell" /\ orders[i].status = "canceled" => orders'[i].status = "canceled"

Steady(e) ==
  /\ Same(e) /\ e \in Buys' /\ orders'[e].filled = orders[e].filled
  /\ orders'[e].status # "new"
  /\ is_filled(orders[e]) => is_filled(orders'[e])
  /\ SellOrders(e)' = SellOrders(e)
  /\ \A i \in SellOrders(e) : SellMoves(i)

Done == {e \in Buys : orders[e].status # "new"}

LEMMA SteadyClaims ==
  ASSUME BrokerOK, BrokerOK', NEW e \in Done, Steady(e)
  PROVE  Claimed(e)' <= Claimed(e)
<1> DEFINE f == Claims(e)
           g == Claims(e)'
<1>1. f \in [1 .. MaxOrders -> Int] /\ Claimed(e) = SumOf(f)
  BY ClaimsType
<1>2. g \in [1 .. MaxOrders -> Int] /\ Claimed(e)' = SumOf(g)
  BY ClaimsNext
<1>3. \A i \in 1 .. MaxOrders : g[i] <= f[i]
  BY DEF Claims, Steady, SellMoves
<1> HIDE DEF f, g
<1>4. SumOf(g) <= SumOf(f)
  BY <1>1, <1>2, <1>3, SumMonotone, Bounded
<1> QED
  BY <1>1, <1>2, <1>4

\* A sell that is over, or under way and not canceled, claims what it did.
LEMMA SteadySame ==
  ASSUME NEW e \in Done, Steady(e),
         \A i \in SellOrders(e) : ~Working(orders[i]) \/ orders'[i].status # "canceled"
  PROVE  Claimed(e)' = Claimed(e)
<1>1. Claims(e)' = Claims(e)
  BY DEF Claims, Steady, SellMoves
<1> QED
  BY <1>1, TotalIsSum DEF Claimed

LEMMA WithinKeeps ==
  ASSUME Account, Account', Within, Buys' = Buys, \A e \in Done : Steady(e),
         \A e \in Buys \ Done : SellOrders(e)' = SellOrders(e) /\ \A i \in SellOrders(e) : Same(i)
  PROVE  Within'
<1> SUFFICES ASSUME NEW e \in Buys PROVE Claimed(e)' <= orders'[e].filled
    BY DEF Within
<1>1. CASE e \in Done
  <2>1. Claimed(e)' <= Claimed(e) /\ Claimed(e) <= orders[e].filled
    BY <1>1, SteadyClaims DEF Account, Within
  <2>2. orders'[e].filled = orders[e].filled /\ orders[e].filled \in Int
    BY <1>1, ClaimType DEF Steady, Account, Buys
  <2>3. Claimed(e) \in Int /\ Claimed(e)' \in Int
    BY ClaimsType, ClaimsNext DEF Account
  <2> QED
    BY <2>1, <2>2, <2>3
<1>2. CASE e \notin Done
  <2>1. StopOnly(e)
    <3> SUFFICES ASSUME NEW i \in SellOrders(e) PROVE orders[i].kind = "stop"
        BY DEF StopOnly
    <3>1. i \in OrderIds /\ OrderFacts(i) /\ orders[i].kind # "buy" /\ orders[i].entry = e
      BY DEF SellOrders, Account
    <3>2. orders[i].kind \in {"buy", "stop", "sell"}
      BY <3>1, OrderType DEF Account, BrokerOK, Order
    <3>3. orders[e].status = "new"
      BY <1>2 DEF Done
    <3> QED
      BY <3>1, <3>2, <3>3 DEF OrderFacts
  <2>2. StopOnly(e)'
    BY <1>2, <2>1 DEF StopOnly, Same
  <2> QED
    BY <2>2, StopClaimsNext
<1> QED
  BY <1>1, <1>2

----------------------------------------------------------------------------
(* The operations of the venue                                             *)

\* What a step of the venue, a cancel or a buy leaves of the account.
Undisturbed ==
  /\ Account' /\ Within' /\ OrderIds \subseteq OrderIds' /\ Buys \subseteq Buys'
  /\ \A e \in Done : Steady(e)
  /\ \A e \in Buys : SellOrders(e)' = SellOrders(e)
  /\ \A i \in OrderIds : Same(i)

LEMMA SameSells ==
  ASSUME OrderIds' = OrderIds, \A i \in OrderIds : Same(i)
  PROVE  Buys' = Buys /\ \A e : SellOrders(e)' = SellOrders(e)
  BY DEF Buys, SellOrders, Same

LEMMA UndisturbedIs ==
  ASSUME Account, Within, BrokerOK', OrderIds' = OrderIds, \A i \in OrderIds : Same(i),
         \A i \in OrderIds : OrderFacts(i)',
         \A e \in Done : /\ orders'[e].filled = orders[e].filled /\ orders'[e].status # "new"
                         /\ is_filled(orders[e]) => is_filled(orders'[e])
                         /\ \A i \in SellOrders(e) : SellMoves(i)
  PROVE  Undisturbed
<1>1. Buys' = Buys /\ \A e : SellOrders(e)' = SellOrders(e)
  BY SameSells
<1>2. Account'
  BY DEF Account
<1>3. \A e \in Done : Steady(e)
  BY <1>1 DEF Done, Steady, Buys
<1>4. \A e \in Buys \ Done : SellOrders(e)' = SellOrders(e) /\ \A i \in SellOrders(e) : Same(i)
  BY <1>1 DEF SellOrders
<1>5. Within'
  BY <1>1, <1>2, <1>3, <1>4, WithinKeeps
<1> QED
  BY <1>1, <1>2, <1>3, <1>5 DEF Undisturbed

\* An order that is not a buy has no leg; a leg is the stop of its buy.
LEMMA LegFacts ==
  ASSUME Account, NEW i \in OrderIds, orders[i].leg # 0
  PROVE  /\ orders[i].leg \in OrderIds /\ orders[orders[i].leg].kind = "stop"
         /\ orders[orders[i].leg].entry = i /\ orders[i].kind = "buy" /\ i \in Buys
<1>1. /\ orders[i].leg \in OrderIds /\ orders[orders[i].leg].kind = "stop"
      /\ orders[orders[i].leg].entry = i
  BY DEF Account, BrokerOK, OrdersOK
<1>2. OrderFacts(orders[i].leg)
  BY <1>1 DEF Account
<1>3. i \in Buys
  BY <1>1, <1>2 DEF OrderFacts
<1> QED
  BY <1>1, <1>3 DEF Buys

LEMMA FillUndisturbed ==
  ASSUME Account, Within, NEW i \in OrderIds, NEW k, Fill(i, k),
         orders[i].kind = "buy" => orders[i].status = "new",
         k = orders[i].qty - orders[i].filled \/ "partial_fill" \in Faults
  PROVE  Undisturbed
<1> DEFINE l == orders[i].leg
           done == orders[i].filled + k = orders[i].qty
<1>1. BrokerOK /\ BrokerOK'
  BY FillFields, FillKeeps DEF Account
<1>2. /\ OrderIds' = OrderIds /\ \A j \in OrderIds : Same(j)
      /\ Working(orders[i]) /\ k \in Nat /\ k > 0 /\ orders[i].filled + k <= orders[i].qty
      /\ orders'[i].filled = orders[i].filled + k
      /\ orders'[i].status = IF done THEN "filled" ELSE orders[i].status
      /\ \A j \in OrderIds \ {i} :
           /\ orders'[j].filled = orders[j].filled
           /\ orders'[j].status = IF j = l /\ done THEN "new" ELSE orders[j].status
  BY <1>1, FillFields
<1>3. \A j \in OrderIds : orders[j].filled \in Nat /\ orders[j].qty \in Nat
                          /\ orders[j].filled <= orders[j].qty /\ 0 < orders[j].qty
  BY <1>1, ClaimType DEF BrokerOK, OrdersOK
<1>4. \A j \in OrderIds : j = l => orders[j].kind = "stop" /\ orders[j].entry = i
                                   /\ orders[i].kind = "buy"
  BY LegFacts DEF OrderIds
<1>5. done \/ "partial_fill" \in Faults
  BY <1>1, <1>3
<1> HIDE DEF done, l
<1>6. ASSUME NEW j \in OrderIds PROVE OrderFacts(j)'
  <2> DEFINE b == orders[j].entry
  <2>1. OrderFacts(j) /\ Same(j)
    BY <1>2 DEF Account
  <2>2. orders[j].kind # "buy" => /\ b \in OrderIds /\ orders[b].kind = "buy" /\ Same(b)
                                  /\ orders[b].sym = orders[j].sym /\ b \in Buys'
    BY <1>2, <2>1, SameSells DEF OrderFacts, Buys
  <2>3. CASE j = i
    <3>1. /\ orders'[j].status # "held" /\ (~is_filled(orders'[j]) => ~done)
          /\ (done <=> orders'[j].filled = orders[j].qty)
          /\ orders'[j].filled <= orders[j].qty /\ orders'[j].filled \in Nat
      BY <1>2, <1>3, <2>3 DEF Working, is_filled, done
    <3>2. orders[j].kind # "buy" => /\ b # i /\ b # l /\ orders'[b].status = orders[b].status
      BY <1>2, <1>4, <2>2, <2>3
    <3>3. orders[j].kind = "stop" => is_filled(orders[b])
      BY <1>2, <2>1, <2>3 DEF OrderFacts, Working
    <3>4. orders'[j].status \in {orders[j].status, "filled"} /\ orders[j].status \in {"new", "pending_cancel"}
      BY <1>2, <2>3 DEF Working
    <3> QED
      BY <1>2, <1>3, <1>5, <2>1, <2>2, <2>3, <3>1, <3>2, <3>3, <3>4
         DEF OrderFacts, Same, is_filled
  <2>4. CASE j # i /\ j = l /\ done
    <3>1. b = i /\ orders[j].kind = "stop" /\ is_filled(orders'[b]) /\ orders'[j].status = "new"
          /\ orders'[j].filled = orders[j].filled
      BY <1>2, <1>4, <2>4 DEF is_filled
    <3>2. ~is_filled(orders[b]) /\ orders[j].filled = 0
      BY <1>2, <2>1, <3>1 DEF OrderFacts, Working, is_filled
    <3> QED
      BY <1>3, <2>1, <2>2, <3>1, <3>2 DEF OrderFacts, Same, is_filled
  <2>5. CASE j # i /\ ~(j = l /\ done)
    <3>1. orders'[j].status = orders[j].status /\ orders'[j].filled = orders[j].filled
      BY <1>2, <2>5
    <3>2. CASE orders[j].kind = "buy"
      BY <2>1, <3>1, <3>2 DEF OrderFacts, Same, is_filled
    <3>3. CASE orders[j].kind # "buy" /\ b # i
      <4>1. orders'[b].status = orders[b].status
        BY <1>2, <1>4, <2>2, <3>3
      <4> QED
        BY <2>1, <2>2, <3>1, <3>3, <4>1 DEF OrderFacts, Same, is_filled
    <3>4. CASE orders[j].kind # "buy" /\ b = i
      <4>1. orders[b].status = "new" /\ orders'[b].status \in {"new", "filled"}
            /\ (orders'[b].status = "filled" <=> done)
        BY <1>2, <2>2, <3>4
      <4>2. orders[j].kind = "stop" => l = j
        BY <2>1, <3>4 DEF OrderFacts, l
      <4>3. orders[j].kind \in {"stop", "sell"}
        BY <1>1, <3>4, OrderType DEF BrokerOK, Order
      <4>4. orders[j].kind = "stop"
        BY <2>1, <4>1, <4>3 DEF OrderFacts
      <4> QED
        BY <2>1, <2>2, <2>5, <3>1, <3>4, <4>1, <4>2, <4>4 DEF OrderFacts, Same, is_filled
    <3> QED
      BY <3>2, <3>3, <3>4
  <2> QED
    BY <2>3, <2>4, <2>5
<1>7. ASSUME NEW e \in Done
      PROVE  /\ orders'[e].filled = orders[e].filled /\ orders'[e].status # "new"
             /\ is_filled(orders[e]) => is_filled(orders'[e])
             /\ \A j \in SellOrders(e) : SellMoves(j)
  <2>1. e \in OrderIds /\ orders[e].kind = "buy" /\ orders[e].status # "new" /\ e # i /\ e # l
    BY <1>4 DEF Done, Buys
  <2>2. ASSUME NEW j \in SellOrders(e) PROVE SellMoves(j)
    <3>1. j \in OrderIds /\ orders[j].entry = e /\ j # l /\ orders[j].kind # "buy"
      BY <1>4, <2>1 DEF SellOrders
    <3>2. CASE j = i
      <4>1. orders[j].status \in {"new", "pending_cancel"}
            /\ orders'[j].status \in {orders[j].status, "filled"}
        BY <1>2, <3>2 DEF Working
      <4>2. Claim(orders'[j]) = Claim(orders[j]) /\ Claim(orders[j]) \in Nat
        BY <1>2, <1>3, <3>1, <4>1 DEF Claim, Same
      <4> QED
        BY <1>2, <3>1, <3>2, <4>1, <4>2 DEF SellMoves, Working
    <3>3. CASE j # i
      <4>1. orders'[j].status = orders[j].status /\ orders'[j].filled = orders[j].filled
        BY <1>2, <3>1, <3>3
      <4>2. Claim(orders'[j]) = Claim(orders[j]) /\ Claim(orders[j]) \in Nat
        BY <1>1, <1>2, <3>1, <4>1, ClaimType DEF Claim, Same
      <4> QED
        BY <1>2, <3>1, <4>1, <4>2 DEF SellMoves, Working
    <3> QED
      BY <3>2, <3>3
  <2> QED
    BY <1>2, <2>1, <2>2 DEF is_filled
<1> QED
  BY <1>1, <1>2, <1>6, <1>7, UndisturbedIs

\* Orders that are canceled, or are to be, while nothing fills.
LEMMA StatusUndisturbed ==
  ASSUME Account, Within, BrokerOK', OrderIds' = OrderIds,
         \A j \in OrderIds :
           /\ Same(j) /\ orders'[j].filled = orders[j].filled
           /\ \/ orders'[j].status = orders[j].status
              \/ /\ orders[j].status \in {"new", "pending_cancel", "held"}
                 /\ orders'[j].status = "canceled"
                 /\ orders[j].kind = "sell" => "reject" \in Faults
              \/ /\ orders[j].status = "new" /\ orders'[j].status = "pending_cancel"
                 /\ orders[j].kind # "sell"
  PROVE  Undisturbed
<1>1. \A j \in OrderIds : (is_filled(orders'[j]) <=> is_filled(orders[j]))
                          /\ (orders[j].status # "new" => orders'[j].status # "new")
  BY DEF is_filled
<1>2. ASSUME NEW j \in OrderIds PROVE OrderFacts(j)'
  <2> DEFINE b == orders[j].entry
  <2>1. OrderFacts(j) /\ Same(j)
    BY DEF Account
  <2>2. orders[j].kind # "buy" => /\ b \in OrderIds /\ Same(b) /\ b \in Buys'
                                  /\ orders[b].sym = orders[j].sym
    BY <2>1, SameSells DEF OrderFacts, Buys
  <2>3. orders'[j].filled = orders[j].filled
    OBVIOUS
  <2>4. orders'[j].status = "held" => orders[j].status = "held"
    OBVIOUS
  <2>5. ASSUME orders[j].kind = "stop"
        PROVE  /\ orders'[b].leg = j /\ orders'[j].qty = orders'[b].qty
               /\ ~is_filled(orders'[b]) => orders'[j].status \in {"held", "canceled"}
                                            /\ orders'[j].filled = 0
               /\ is_filled(orders'[b]) => orders'[j].status # "held"
    BY <1>1, <2>1, <2>2, <2>4, <2>5 DEF OrderFacts, Same
  <2>6. ASSUME orders[j].kind = "sell"
        PROVE  /\ orders'[b].status # "new" /\ orders'[j].status # "pending_cancel"
               /\ orders'[j].status = "canceled" => "reject" \in Faults
    BY <1>1, <2>1, <2>2, <2>6 DEF OrderFacts
  <2> QED
    BY <1>1, <2>1, <2>2, <2>3, <2>4, <2>5, <2>6 DEF OrderFacts, Same
<1>3. ASSUME NEW j \in OrderIds, orders[j].kind # "buy" PROVE SellMoves(j)
  <2>1. /\ orders[j].filled \in Nat /\ orders[j].qty \in Nat /\ orders[j].filled <= orders[j].qty
        /\ OrderFacts(j) /\ Same(j)
    BY ClaimType DEF Account, BrokerOK, OrdersOK
  <2>2. Claim(orders[j]) \in Nat
    BY ClaimType DEF Account
  <2>3. CASE orders'[j].status = orders[j].status
    <3>1. Claim(orders'[j]) = Claim(orders[j])
      BY <2>1, <2>3 DEF Claim, Same
    <3> QED
      BY <2>1, <2>2, <2>3, <3>1 DEF SellMoves, Working
  <2>4. CASE /\ orders[j].status \in {"new", "pending_cancel", "held"}
             /\ orders'[j].status = "canceled"
    <3>1. Claim(orders'[j]) = orders[j].filled
      BY <2>1, <2>4 DEF Claim
    <3>2. CASE orders[j].status = "held"
      BY <2>1, <2>4, <3>1, <3>2 DEF SellMoves, Working, Claim, OrderFacts
    <3>3. CASE orders[j].status # "held"
      BY <2>1, <2>4, <3>1, <3>3 DEF SellMoves, Working, Claim
    <3> QED
      BY <3>2, <3>3
  <2>5. CASE orders[j].status = "new" /\ orders'[j].status = "pending_cancel"
    <3>1. Claim(orders'[j]) = orders[j].qty /\ Claim(orders[j]) = orders[j].qty
      BY <2>1, <2>5 DEF Claim, Same
    <3> QED
      BY <2>1, <2>5, <3>1 DEF SellMoves, Working
  <2> QED
    BY <2>3, <2>4, <2>5
<1>4. ASSUME NEW e \in Done
      PROVE  /\ orders'[e].filled = orders[e].filled /\ orders'[e].status # "new"
             /\ is_filled(orders[e]) => is_filled(orders'[e])
             /\ \A j \in SellOrders(e) : SellMoves(j)
  BY <1>1, <1>3 DEF Done, Buys, SellOrders
<1> QED
  BY <1>2, <1>4, UndisturbedIs

LEMMA EndUndisturbed ==
  ASSUME Account, Within, NEW i \in OrderIds, End(i),
         orders[i].kind = "sell" => "reject" \in Faults
  PROVE  Undisturbed
<1>1. BrokerOK /\ BrokerOK'
  BY EndKeeps DEF Account
<1>2. /\ OrderIds' = OrderIds /\ Working(orders[i])
      /\ \A j \in OrderIds :
           /\ Same(j) /\ orders'[j].filled = orders[j].filled
           /\ orders'[j].status = IF j = i \/ j = orders[i].leg THEN "canceled" ELSE orders[j].status
  BY <1>1, EndFields
<1>3. \A j \in OrderIds : j = orders[i].leg =>
        orders[j].kind = "stop" /\ orders[j].status \in {"held", "canceled"}
  <2> SUFFICES ASSUME NEW j \in OrderIds, j = orders[i].leg
               PROVE  orders[j].kind = "stop" /\ orders[j].status \in {"held", "canceled"}
      OBVIOUS
  <2>1. j # 0 /\ OrderFacts(j) /\ ~is_filled(orders[i])
    BY <1>2 DEF OrderIds, Account, Working, is_filled
  <2> QED
    BY <2>1, LegFacts DEF OrderFacts
<1> QED
  BY <1>1, <1>2, <1>3, StatusUndisturbed DEF Working

LEMMA CancelUndisturbed ==
  ASSUME Account, Within, NEW i \in OrderIds, cancel(i), UNCHANGED holdings,
         orders[i].kind # "sell"
  PROVE  Undisturbed
<1>1. BrokerOK /\ BrokerOK'
  BY CancelKeeps DEF Account
<1> QED
  BY <1>1, CancelFields, StatusUndisturbed

LEMMA OwnerUndisturbed ==
  ASSUME Account, Within, NEW s \in Symbols, OwnerCloses(s)
  PROVE  Undisturbed
<1>1. BrokerOK /\ BrokerOK'
  BY OwnerKeeps DEF Account
<1> QED
  BY <1>1, OwnerFields, StatusUndisturbed DEF Working

LEMMA KeptUndisturbed ==
  ASSUME Account, Within, UNCHANGED brokerVars
  PROVE  Undisturbed
<1>1. BrokerOK' /\ OrderIds' = OrderIds
  BY DEF Account, BrokerOK, BrokerTypeOK, OrdersOK, OrderIds, brokerVars
<1> QED
  BY <1>1, StatusUndisturbed DEF brokerVars, Same

\* A cancel and a fill of a buy that has a cancel before it.
Asked(e) == orders[e].status = "pending_cancel"
Ending == pc = "timeout_cancel"

\* While the surroundings are tame, every step of the venue.
LEMMA VenueUndisturbed ==
  ASSUME Tame, Account, Within, Venue
  PROVE  /\ Undisturbed
         /\ \A e \in Buys : orders'[e].status = "pending_cancel" => Asked(e)
         /\ Ending => \A e \in Buys : e = pending_entries[cur.sym] =>
              orders'[e].status \in {orders[e].status, "canceled"}
<1> USE DEF Asked, Ending
<1>1. ASSUME NEW i \in OrderIds, VenueFills(i)
      PROVE  /\ Undisturbed
             /\ \A e \in Buys : orders'[e].status = "pending_cancel" => Asked(e)
             /\ Ending => \A e \in Buys : e = pending_entries[cur.sym] =>
                  orders'[e].status \in {orders[e].status, "canceled"}
  <2>1. PICK k : Fill(i, k) /\ (k = orders[i].qty - orders[i].filled \/ "partial_fill" \in Faults)
    BY <1>1 DEF VenueFills
  <2>2. orders[i].kind = "buy" => orders[i].status = "new"
    <3>1. orders[i].status \in {"new", "pending_cancel"}
      BY <2>1 DEF Fill, Working
    <3> QED
      BY <1>1, <3>1 DEF VenueFills, Closing, Tame
  <2>3. \A e \in Buys : e # i => orders'[e].status = orders[e].status
    <3>1. \A e \in Buys : e # orders[i].leg
      BY LegFacts DEF Buys, OrderIds
    <3> QED
      BY <2>1, <3>1, FillFields DEF Account, Buys
  <2>4. orders'[i].status \in {"filled", orders[i].status}
    BY <2>1, FillFields DEF Account
  <2>5. Ending /\ orders[i].kind = "buy" => i # pending_entries[cur.sym]
    BY <1>1 DEF VenueFills, Closing, Tame
  <2> QED
    BY <2>1, <2>2, <2>3, <2>4, <2>5, FillUndisturbed DEF Buys
<1>2. ASSUME NEW i \in OrderIds, VenueEnds(i)
      PROVE  /\ Undisturbed
             /\ \A e \in Buys : orders'[e].status \in {orders[e].status, "canceled"}
  <2>1. OrderFacts(i)
    BY DEF Account
  <2>2. orders[i].kind = "sell" => "reject" \in Faults
    BY <1>2, <2>1 DEF VenueEnds, OrderFacts, Tame
  <2>3. \A e \in Buys : orders'[e].status \in {orders[e].status, "canceled"}
    BY <1>2, EndFields DEF VenueEnds, Account, Buys
  <2> QED
    BY <1>2, <2>2, <2>3, EndUndisturbed DEF VenueEnds
<1>3. ASSUME NEW s \in Symbols, OwnerCloses(s)
      PROVE  Undisturbed /\ \A e \in Buys : orders'[e].status = orders[e].status
  <2>1. \A e \in Buys : orders'[e].status = orders[e].status
    BY <1>3, OwnerFields DEF Account, Buys
  <2> QED
    BY <1>3, <2>1, OwnerUndisturbed
<1> QED
  BY <1>1, <1>2, <1>3 DEF Venue

----------------------------------------------------------------------------
(* The submits of the bot                                                  *)

\* An order that stays as it is, and the sells of a buy that do.
LEMMA KeptSell ==
  ASSUME Account, NEW j \in OrderIds, orders'[j] = orders[j]
  PROVE  SellMoves(j)
<1>1. Claim(orders[j]) \in Nat
  BY ClaimType DEF Account
<1> QED
  BY <1>1 DEF SellMoves, Same

LEMMA KeptFacts ==
  ASSUME Account, NEW j \in OrderIds, orders'[j] = orders[j], Buys \subseteq Buys',
         \A i \in OrderIds : orders'[i] = orders[i]
  PROVE  OrderFacts(j)'
<1>1. OrderFacts(j)
  BY DEF Account
<1>2. orders[j].kind # "buy" => orders[j].entry \in OrderIds
  BY <1>1 DEF OrderFacts, Buys
<1>3. CASE orders[j].kind = "buy"
  BY <1>1, <1>3 DEF OrderFacts, is_filled
<1>4. CASE orders[j].kind # "buy"
  <2>1. orders'[orders'[j].entry] = orders[orders[j].entry]
    BY <1>2, <1>4
  <2> QED
    BY <1>1, <1>4, <2>1 DEF OrderFacts, is_filled
<1> QED
  BY <1>3, <1>4

LEMMA KeptSteady ==
  ASSUME Account, NEW e \in Done, SellOrders(e)' = SellOrders(e), Buys \subseteq Buys',
         \A i \in OrderIds : orders'[i] = orders[i]
  PROVE  Steady(e)
<1>1. e \in OrderIds /\ e \in Buys /\ orders[e].status # "new"
  BY DEF Done, Buys
<1>2. \A i \in SellOrders(e) : SellMoves(i)
  BY KeptSell DEF SellOrders
<1> QED
  BY <1>1, <1>2 DEF Steady, Same

LEMMA BuyUndisturbed ==
  ASSUME Account, Within, NEW s \in Symbols, NEW q \in Quantities, NEW w \in BOOLEAN,
         Room(3), submit_limit_buy(s, q, w), UNCHANGED holdings,
         NEW x \in Nat, x = Len(orders) + 1
  PROVE  /\ Undisturbed /\ orders'[x].status = "new" /\ StopOnly(x)' /\ x \notin OrderIds
         /\ \A j \in OrderIds : orders'[j] = orders[j]
         /\ \A j \in OrderIds' \ OrderIds : orders'[j].filled = 0
<1> DEFINE n == Len(orders)
           buy == [sym |-> s, kind |-> "buy", status |-> "new", qty |-> q,
                   filled |-> 0, entry |-> 0, leg |-> IF w THEN n + 2 ELSE 0]
           stop == [sym |-> s, kind |-> "stop", status |-> "held", qty |-> q,
                    filled |-> 0, entry |-> n + 1, leg |-> 0]
           one == Append(orders, buy)
           two == Append(one, stop)
<1>1. orders \in Seq(Order) /\ n \in Nat /\ q \in Nat /\ q > 0 /\ BrokerOK
  BY QuantitiesAssumption, LenProperties DEF Account, BrokerOK, BrokerTypeOK
<1>2. buy \in Order /\ stop \in Order
  BY <1>1 DEF Order, Status
<1>3. /\ one \in Seq(Order) /\ Len(one) = n + 1
      /\ \A j \in 1 .. n : one[j] = orders[j]
      /\ one[n + 1] = buy
  BY <1>1, <1>2
<1>4. /\ two \in Seq(Order) /\ Len(two) = n + 2
      /\ \A j \in 1 .. n : two[j] = orders[j]
      /\ two[n + 1] = buy /\ two[n + 2] = stop
  BY <1>1, <1>2, <1>3
<1>5. orders' = IF w THEN two ELSE one
  BY DEF submit_limit_buy
<1>6. /\ buy.kind = "buy" /\ buy.status = "new" /\ buy.filled = 0 /\ buy.qty = q
      /\ buy.leg = (IF w THEN n + 2 ELSE 0) /\ buy.sym = s
      /\ stop.kind = "stop" /\ stop.status = "held" /\ stop.filled = 0 /\ stop.qty = q
      /\ stop.entry = n + 1 /\ stop.sym = s
  OBVIOUS
<1> HIDE DEF buy, stop, one, two
<1>7. OrderIds' = 1 .. (n + IF w THEN 2 ELSE 1)
  BY <1>3, <1>4, <1>5 DEF OrderIds
<1>8. \A j \in OrderIds : orders'[j] = orders[j] /\ j \in OrderIds' /\ j <= n
  BY <1>1, <1>3, <1>4, <1>5, <1>7 DEF OrderIds
<1>9. orders'[n + 1] = buy /\ (w => orders'[n + 2] = stop) /\ n + 1 \in OrderIds'
      /\ (w => n + 2 \in OrderIds')
  BY <1>1, <1>3, <1>4, <1>5, <1>7
<1>10. \A j \in OrderIds' : j \in OrderIds \/ j = n + 1 \/ (w /\ j = n + 2)
  BY <1>1, <1>7 DEF OrderIds
<1>11. BrokerOK'
  BY <1>1, BuyKeeps
<1>12. Buys \subseteq Buys' /\ n + 1 \in Buys' /\ \A e \in Buys' : e \in Buys \/ e = n + 1
  <2>1. Buys \subseteq Buys' /\ n + 1 \in Buys'
    BY <1>6, <1>8, <1>9 DEF Buys
  <2>2. ASSUME NEW e \in Buys' PROVE e \in Buys \/ e = n + 1
    BY <1>6, <1>8, <1>9, <1>10 DEF Buys
  <2> QED
    BY <2>1, <2>2
<1>13. ASSUME NEW j \in OrderIds' PROVE OrderFacts(j)'
  <2>1. CASE j \in OrderIds
    BY <1>8, <1>12, <2>1, KeptFacts
  <2>2. CASE j = n + 1
    BY <1>1, <1>6, <1>9, <2>2 DEF OrderFacts, is_filled
  <2>3. CASE w /\ j = n + 2
    BY <1>1, <1>6, <1>9, <1>12, <2>3 DEF OrderFacts, is_filled
  <2> QED
    BY <1>10, <2>1, <2>2, <2>3
<1>14. Account'
  BY <1>11, <1>13 DEF Account
<1>15. ASSUME NEW e \in Buys PROVE SellOrders(e)' = SellOrders(e)
  <2>1. e <= n /\ e \in Nat
    BY <1>8 DEF Buys, OrderIds
  <2> QED
    BY <1>1, <1>6, <1>8, <1>9, <1>10, <2>1 DEF SellOrders
<1>16. StopOnly(x)'
  <2>1. ASSUME NEW j \in OrderIds, orders[j].kind # "buy", orders[j].entry = x PROVE FALSE
    <3>1. OrderFacts(j)
      BY DEF Account
    <3>2. x \in OrderIds
      BY <2>1, <3>1 DEF OrderFacts, Buys
    <3> QED
      BY <1>1, <1>8, <3>2
  <2> QED
    BY <1>1, <1>6, <1>8, <1>9, <1>10, <2>1 DEF StopOnly, SellOrders
<1>17. Within'
  <2> SUFFICES ASSUME NEW e \in Buys' PROVE Claimed(e)' <= orders'[e].filled
      BY DEF Within
  <2>1. CASE e = x
    BY <1>14, <1>16, <2>1, StopClaimsNext
  <2>2. CASE e \in Buys
    <3>1. Claims(e)' = Claims(e)
      BY <1>8, <1>15, <2>2 DEF Claims, SellOrders
    <3>2. Claimed(e)' = Claimed(e)
      BY <3>1, TotalIsSum DEF Claimed
    <3> QED
      BY <1>8, <2>2, <3>2 DEF Within, Buys
  <2> QED
    BY <1>1, <1>12, <2>1, <2>2
<1>18. \A e \in Done : Steady(e)
  BY <1>8, <1>12, <1>15, KeptSteady DEF Done
<1>19. \A i \in OrderIds : Same(i)
  BY <1>8 DEF Same
<1>20. Undisturbed
  BY <1>8, <1>12, <1>14, <1>15, <1>17, <1>18, <1>19 DEF Undisturbed
<1>21. \A j \in OrderIds' \ OrderIds : orders'[j].filled = 0
  BY <1>6, <1>9, <1>10
<1> QED
  BY <1>1, <1>6, <1>8, <1>9, <1>16, <1>20, <1>21

LEMMA SellSubmitted ==
  ASSUME Account, Within, NEW s \in Symbols, NEW q \in Nat \ {0}, NEW e \in Done,
         orders[e].sym = s, Claimed(e) + q <= orders[e].filled,
         Room(1), submit_market_sell(s, q, e), UNCHANGED holdings,
         NEW x \in Nat, x = Len(orders) + 1
  PROVE  /\ Account' /\ Within' /\ OrderIds \subseteq OrderIds' /\ Buys \subseteq Buys'
         /\ \A d \in Done \ {e} : Steady(d)
         /\ \A j \in OrderIds : orders'[j] = orders[j]
         /\ SellOrders(e)' = SellOrders(e) \cup {x} /\ x \notin OrderIds
         /\ \A d : d # e => SellOrders(d)' = SellOrders(d)
         /\ orders'[x].kind = "sell" /\ orders'[x].status = "new" /\ orders'[x].qty = q
         /\ Claimed(e)' = Claimed(e) + q
<1> DEFINE n == Len(orders)
           sell == [sym |-> s, kind |-> "sell", status |-> "new", qty |-> q,
                    filled |-> 0, entry |-> e, leg |-> 0]
           one == Append(orders, sell)
<1>1. orders \in Seq(Order) /\ n \in Nat /\ BrokerOK /\ e \in Buys /\ e \in OrderIds
  BY LenProperties DEF Account, BrokerOK, BrokerTypeOK, Done, Buys
<1>2. sell \in Order
  BY <1>1 DEF Order, Status, OrderIds
<1>3. /\ one \in Seq(Order) /\ Len(one) = n + 1
      /\ \A j \in 1 .. n : one[j] = orders[j]
      /\ one[n + 1] = sell
  BY <1>1, <1>2
<1>4. orders' = one
  BY DEF submit_market_sell
<1>5. /\ sell.kind = "sell" /\ sell.status = "new" /\ sell.filled = 0 /\ sell.qty = q
      /\ sell.entry = e /\ sell.sym = s
  OBVIOUS
<1> HIDE DEF sell, one
<1>6. /\ OrderIds' = OrderIds \cup {x} /\ x \notin OrderIds /\ orders'[x] = sell
      /\ \A j \in OrderIds : orders'[j] = orders[j]
  BY <1>1, <1>3, <1>4 DEF OrderIds
<1>7. BrokerOK'
  BY <1>1, SellKeeps DEF OrderIds
<1>8. Buys' = Buys
  BY <1>5, <1>6 DEF Buys
<1>9. ASSUME NEW j \in OrderIds' PROVE OrderFacts(j)'
  <2>1. CASE j \in OrderIds
    BY <1>6, <1>8, <2>1, KeptFacts
  <2>2. CASE j = x
    <3>1. orders'[e] = orders[e] /\ orders[e].status # "new"
      BY <1>1, <1>6 DEF Done
    <3> QED
      BY <1>1, <1>5, <1>6, <1>8, <2>2, <3>1 DEF OrderFacts, is_filled
  <2> QED
    BY <1>6, <2>1, <2>2
<1>10. Account'
  BY <1>7, <1>9 DEF Account
<1>11. SellOrders(e)' = SellOrders(e) \cup {x} /\ \A d : d # e => SellOrders(d)' = SellOrders(d)
  BY <1>5, <1>6 DEF SellOrders
<1>12. Claimed(e)' = Claimed(e) + q
  <2> DEFINE f == Claims(e)
             g == Claims(e)'
  <2>1. f \in [1 .. MaxOrders -> Int] /\ Claimed(e) = SumOf(f)
    BY <1>1, ClaimsType
  <2>2. g \in [1 .. MaxOrders -> Int] /\ Claimed(e)' = SumOf(g)
    BY <1>7, ClaimsNext
  <2>3. x \in 1 .. MaxOrders
    BY <1>1, MaxOrdersAssumption DEF Room
  <2>4. x \notin SellOrders(e)
    BY <1>6 DEF SellOrders
  <2>5. f[x] = 0
    BY <2>3, <2>4 DEF Claims
  <2>6. g[x] = q
    BY <1>5, <1>6, <1>11, <2>3 DEF Claims, Claim
  <2>7. \A j \in (1 .. MaxOrders) \ {x} : g[j] = f[j]
    BY <1>6, <1>11 DEF Claims, SellOrders
  <2> HIDE DEF f, g
  <2>8. SumOf(g) = SumOf(f) + g[x] - f[x]
    BY <2>1, <2>2, <2>3, <2>7, OneChanges, Zenon
  <2> QED
    BY <2>1, <2>2, <2>5, <2>6, <2>8, SumType, Bounded
<1>13. Within'
  <2> SUFFICES ASSUME NEW d \in Buys PROVE Claimed(d)' <= orders'[d].filled
      BY <1>8 DEF Within
  <2>1. CASE d = e
    BY <1>1, <1>6, <1>12, <2>1
  <2>2. CASE d # e
    <3>1. Claims(d)' = Claims(d)
      BY <1>6, <1>11, <2>2 DEF Claims, SellOrders
    <3>2. Claimed(d)' = Claimed(d)
      BY <3>1, TotalIsSum DEF Claimed
    <3> QED
      BY <1>6, <3>2 DEF Within, Buys
  <2> QED
    BY <2>1, <2>2
<1>14. \A d \in Done \ {e} : Steady(d)
  BY <1>6, <1>8, <1>11, KeptSteady
<1> QED
  BY <1>5, <1>6, <1>8, <1>10, <1>11, <1>12, <1>13, <1>14

----------------------------------------------------------------------------
(* The book and the sells                                                  *)

\* What the holding check may not take from a sell: nobody closes by hand.
Exact == ~(verify_holdings /\ "outside_close" \in Faults)

\* The position's size is what its buy has filled, and the sells of that buy claim
\* no more of it than the exit under way leaves.
HeldFacts(s) ==
  LET e == positions[s].entry_order_id
      stop == positions[s].stop_order_id
      exit == pending_exits[s]
      mine == cur.sym = s
  IN
  has(s) =>
    /\ e \in Done /\ positions[s].qty = orders[e].filled
    /\ stop # 0 => stop = orders[e].leg /\ StopOnly(e) /\ is_filled(orders[e])
    /\ stop = 0 /\ ~positions[s].exit_pending => Unclaimed(e) /\ Over(e)
    /\ exit # 0 =>
         /\ orders[exit].kind = "sell"
         /\ \A i \in SellOrders(e) : Working(orders[i]) => i = exit
         /\ "partial_fill" \notin Faults => \A i \in SellOrders(e) \ {exit} : Claim(orders[i]) = 0
         /\ Exact /\ orders[exit].status # "canceled" => Claimed(e) = orders[e].filled
    /\ pc = "settle" /\ mine => cur.qty = positions[s].qty /\ orders[stop].status # "new"
    /\ pc \in {"hold", "submit"} /\ mine =>
         /\ Over(e)
         /\ cur.qty + Claimed(e) <= orders[e].filled
         /\ Exact => cur.qty + Claimed(e) = orders[e].filled
         /\ "partial_fill" \notin Faults => Unclaimed(e)

EntryFacts(s) ==
  LET e == pending_entries[s] IN
  e # 0 =>
    /\ StopOnly(e) /\ ~Asked(e)
    /\ Ending /\ cur.sym = s => orders[e].status \in {"new", "canceled"}

TradeFacts(t) ==
  LET e == t.entry_order_id IN
  /\ e \in Done /\ Over(e)
  /\ Exact => Sold(e) = t.qty

BookFacts == \A s \in Symbols : HeldFacts(s) /\ EntryFacts(s)
Recorded == \A t \in trades : TradeFacts(t)

Facts == Account /\ Within /\ BookFacts /\ Recorded

LEMMA SteadySold ==
  ASSUME NEW e \in Done, Steady(e), Over(e)
  PROVE  Over(e)' /\ Sold(e)' = Sold(e)
<1>1. \A i \in SellOrders(e) : orders'[i].filled = orders[i].filled
  BY DEF Steady, SellMoves, Over
<1> DEFINE f == [i \in 1 .. MaxOrders |-> IF i \in SellOrders(e) THEN orders[i].filled ELSE 0]
<1>2. f' = f
  BY <1>1 DEF Steady
<1>3. Sold(e)' = Sold(e)
  BY <1>2, TotalIsSum DEF Sold
<1> QED
  BY <1>3 DEF Steady, SellMoves, Over

LEMMA TradeKept ==
  ASSUME NEW t, TradeFacts(t), Steady(t.entry_order_id)
  PROVE  TradeFacts(t)'
<1> DEFINE e == t.entry_order_id
<1>1. Over(e)' /\ Sold(e)' = Sold(e)
  BY SteadySold DEF TradeFacts
<1>2. e \in Done'
  BY DEF Steady, Done
<1> QED
  BY <1>1, <1>2 DEF TradeFacts, Exact

LEMMA HeldKept ==
  ASSUME IInv, NEW s \in Symbols, HeldFacts(s),
         positions'[s] = positions[s], pending_exits'[s] = pending_exits[s],
         has(s) => Steady(positions[s].entry_order_id),
         Selling' /\ cur'.sym = s => pc' = pc /\ cur'.sym = cur.sym /\ cur'.qty = cur.qty
  PROVE  HeldFacts(s)'
<1> SUFFICES ASSUME has(s) PROVE HeldFacts(s)'
    BY DEF HeldFacts, has
<1> DEFINE e == positions[s].entry_order_id
           stop == positions[s].stop_order_id
           exit == pending_exits[s]
<1>1. e \in Done /\ Steady(e) /\ e \in Done' /\ orders'[e].filled = orders[e].filled
      /\ positions[s].qty = orders[e].filled
  BY DEF HeldFacts, Steady, Done
<1>2. /\ \A i \in SellOrders(e) : SellMoves(i) /\ Same(i)
      /\ SellOrders(e)' = SellOrders(e) /\ orders'[e].leg = orders[e].leg
      /\ is_filled(orders[e]) => is_filled(orders'[e])
  BY <1>1 DEF Steady, SellMoves, Same
<1>3. /\ exit # 0 => exit \in SellOrders(e)
      /\ stop # 0 => stop \in SellOrders(e)
  BY DEF IInv, BookOK, SymbolOK, ClosesEntry, SellOrders
<1>4. StopOnly(e) => StopOnly(e)'
  BY <1>2 DEF StopOnly, Same
<1>5. Over(e) => Over(e)' /\ (Unclaimed(e) => Unclaimed(e)') /\ Claimed(e)' = Claimed(e)
  <2>1. Over(e) => Over(e)' /\ (Unclaimed(e) => Unclaimed(e)')
    BY <1>2 DEF Over, Unclaimed, SellMoves
  <2>2. Over(e) => Claimed(e)' = Claimed(e)
    BY <1>1, SteadySame DEF Over
  <2> QED
    BY <2>1, <2>2
<1>6. ASSUME exit # 0
      PROVE  /\ orders'[exit].kind = "sell"
             /\ \A i \in SellOrders(e) : Working(orders'[i]) => i = exit
             /\ "partial_fill" \notin Faults =>
                  \A i \in SellOrders(e) \ {exit} : Claim(orders'[i]) = 0
             /\ Exact /\ orders'[exit].status # "canceled" => Claimed(e)' = orders'[e].filled
  <2>1. /\ orders[exit].kind = "sell"
        /\ \A i \in SellOrders(e) : Working(orders[i]) => i = exit
        /\ "partial_fill" \notin Faults => \A i \in SellOrders(e) \ {exit} : Claim(orders[i]) = 0
        /\ Exact /\ orders[exit].status # "canceled" => Claimed(e) = orders[e].filled
    BY <1>6 DEF HeldFacts
  <2>2. \A i \in SellOrders(e) \ {exit} : Claim(orders'[i]) = Claim(orders[i])
    BY <1>2, <2>1 DEF SellMoves
  <2>3. ASSUME Exact, orders'[exit].status # "canceled" PROVE Claimed(e)' = orders'[e].filled
    <3>1. orders[exit].status # "canceled"
      BY <1>2, <1>3, <1>6, <2>1, <2>3 DEF SellMoves
    <3>2. Claimed(e)' = Claimed(e)
      BY <1>1, <2>1, <2>3, SteadySame
    <3> QED
      BY <1>1, <2>1, <2>3, <3>1, <3>2
  <2> QED
    BY <1>2, <1>3, <1>6, <2>1, <2>2, <2>3 DEF SellMoves, Same
<1>7. ASSUME pc' = "settle", cur'.sym = s
      PROVE  cur'.qty = positions[s].qty /\ orders'[stop].status # "new"
  <2>1. pc = "settle" /\ cur.sym = s /\ cur'.qty = cur.qty /\ stop # 0
    BY <1>7 DEF Selling, IInv, ControlOK
  <2> QED
    BY <1>2, <1>3, <2>1 DEF HeldFacts, SellMoves
<1>8. ASSUME pc' \in {"hold", "submit"}, cur'.sym = s
      PROVE  /\ Over(e)'
             /\ cur'.qty + Claimed(e)' <= orders'[e].filled
             /\ Exact => cur'.qty + Claimed(e)' = orders'[e].filled
             /\ "partial_fill" \notin Faults => Unclaimed(e)'
  <2>1. pc = pc' /\ cur.sym = s /\ cur'.qty = cur.qty
    BY <1>8 DEF Selling
  <2> QED
    BY <1>1, <1>5, <1>8, <2>1 DEF HeldFacts
<1>9. stop = 0 /\ ~positions[s].exit_pending => Unclaimed(e)' /\ Over(e)'
  BY <1>5 DEF HeldFacts
<1>10. stop # 0 => stop = orders'[e].leg /\ StopOnly(e)' /\ is_filled(orders'[e])
  BY <1>2, <1>4 DEF HeldFacts
<1> QED
  BY <1>1, <1>2, <1>6, <1>7, <1>8, <1>9, <1>10 DEF HeldFacts, Exact

LEMMA EntryKept ==
  ASSUME NEW s \in Symbols, EntryFacts(s), pending_entries'[s] \in {0, pending_entries[s]},
         NEW e, e = pending_entries[s],
         pending_entries'[s] # 0 =>
           /\ SellOrders(e)' = SellOrders(e) /\ \A i \in SellOrders(e) : Same(i)
           /\ orders'[e].status # "pending_cancel"
           /\ Ending' /\ cur'.sym = s => orders'[e].status \in {"new", "canceled"}
  PROVE  EntryFacts(s)'
  BY DEF EntryFacts, StopOnly, Asked, Same

\* Symbols a step does not touch, and trades booked before it.
LEMMA OthersKept ==
  ASSUME IInv, Facts, Undisturbed, NEW s \in Symbols,
         positions'[s] = positions[s], pending_exits'[s] = pending_exits[s],
         Selling' /\ cur'.sym = s => pc' = pc /\ cur'.sym = cur.sym /\ cur'.qty = cur.qty
  PROVE  HeldFacts(s)'
<1>1. HeldFacts(s)
  BY DEF Facts, BookFacts
<1>2. has(s) => Steady(positions[s].entry_order_id)
  BY <1>1 DEF HeldFacts, Undisturbed
<1> QED
  BY <1>1, <1>2, HeldKept

LEMMA RecordedKept ==
  ASSUME Facts, Undisturbed, trades' = trades
  PROVE  Recorded'
  BY TradeKept DEF Facts, Recorded, Undisturbed, TradeFacts

LEMMA EntriesKept ==
  ASSUME IInv, Facts, Undisturbed, NEW s \in Symbols,
         pending_entries'[s] \in {0, pending_entries[s]},
         pending_entries'[s] # 0 =>
           LET e == pending_entries[s] IN
           /\ orders'[e].status = "pending_cancel" => Asked(e)
           /\ Ending' /\ cur'.sym = s => orders'[e].status \in {"new", "canceled"}
  PROVE  EntryFacts(s)'
<1>1. EntryFacts(s)
  BY DEF Facts, BookFacts
<1> PICK e : e = pending_entries[s]
  OBVIOUS
<1>2. ASSUME e # 0
      PROVE  SellOrders(e)' = SellOrders(e) /\ (\A i \in SellOrders(e) : Same(i)) /\ ~Asked(e)
  <2>1. e \in Buys
    BY <1>2 DEF IInv, BookOK, SymbolOK, BuyOf, Buys
  <2>2. ~Asked(e)
    BY <1>1, <1>2 DEF EntryFacts
  <2>3. SellOrders(e)' = SellOrders(e)
    BY <2>1 DEF Undisturbed
  <2>4. \A i \in SellOrders(e) : Same(i)
    BY DEF Undisturbed, SellOrders
  <2> QED
    BY <2>2, <2>3, <2>4
<1> QED
  BY <1>1, <1>2, EntryKept DEF Asked

\* A step that asks the venue for nothing and books nothing.
LEMMA QuietStep ==
  ASSUME IInv, Facts, UNCHANGED brokerVars, UNCHANGED << positions, pending_exits, trades >>,
         \A s \in Symbols : pending_entries'[s] \in {0, pending_entries[s]},
         Selling' => pc' = pc /\ cur'.sym = cur.sym /\ cur'.qty = cur.qty,
         Ending' => Ending /\ cur'.sym = cur.sym
  PROVE  Facts'
<1>1. Undisturbed
  BY KeptUndisturbed DEF Facts
<1>2. Recorded'
  BY <1>1, RecordedKept
<1>3. ASSUME NEW s \in Symbols PROVE HeldFacts(s)'
  BY <1>1, OthersKept
<1>4. ASSUME NEW s \in Symbols PROVE EntryFacts(s)'
  <2>1. orders' = orders /\ EntryFacts(s)
    BY DEF brokerVars, Facts, BookFacts
  <2> QED
    BY <1>1, <2>1, EntriesKept DEF EntryFacts, Asked
<1> QED
  BY <1>1, <1>2, <1>3, <1>4 DEF Facts, BookFacts, Undisturbed

LEMMA LoopFacts ==
  ASSUME IInv, Facts,
         \/ flatten_all \/ cancel_pending_entries \/ PollStart \/ PollExits \/ PollStops
         \/ PollReturns \/ UNCHANGED vars
  PROVE  Facts'
<1>1. UNCHANGED << brokerVars, bookVars, cur, trades >>
  BY DEF flatten_all, cancel_pending_entries, PollStart, PollExits, PollStops, PollReturns,
     vars, omVars
<1>2. (Selling' => pc' = pc) /\ (Ending' => Ending)
  BY DEF flatten_all, cancel_pending_entries, PollStart, PollExits, PollStops, PollReturns,
     vars, omVars, Walk, Selling, Ending
<1> QED
  BY <1>1, <1>2, QuietStep DEF bookVars

LEMMA VenueFacts ==
  ASSUME Tame, IInv, Facts, Venue
  PROVE  Facts'
<1>1. UNCHANGED << bookVars, omVars >>
  BY DEF Venue, VenueFills, VenueEnds, OwnerCloses
<1>2. /\ Undisturbed
      /\ \A e \in Buys : orders'[e].status = "pending_cancel" => Asked(e)
      /\ Ending => \A e \in Buys : e = pending_entries[cur.sym] =>
           orders'[e].status \in {orders[e].status, "canceled"}
  BY VenueUndisturbed DEF Facts
<1>3. Recorded'
  BY <1>1, <1>2, RecordedKept DEF omVars
<1>4. ASSUME NEW s \in Symbols PROVE HeldFacts(s)'
  BY <1>1, <1>2, OthersKept DEF bookVars, omVars
<1>5. ASSUME NEW s \in Symbols PROVE EntryFacts(s)'
  <2>1. pending_entries[s] # 0 => pending_entries[s] \in Buys
    BY DEF IInv, BookOK, SymbolOK, BuyOf, Buys
  <2>2. EntryFacts(s)
    BY DEF Facts, BookFacts
  <2>3. pending_entries' = pending_entries /\ cur' = cur /\ (Ending' <=> Ending)
    BY <1>1 DEF bookVars, omVars, Ending
  <2>4. ASSUME pending_entries[s] # 0, Ending, cur.sym = s
        PROVE  orders'[pending_entries[s]].status \in {"new", "canceled"}
    BY <1>2, <2>1, <2>2, <2>4 DEF EntryFacts
  <2> QED
    BY <1>2, <2>1, <2>3, <2>4, EntriesKept
<1> QED
  BY <1>2, <1>3, <1>4, <1>5 DEF Facts, BookFacts, Undisturbed

----------------------------------------------------------------------------
(* Entries                                                                 *)

LEMMA BuyFacts ==
  ASSUME IInv, Facts, NEW s \in Symbols, _buy(s)
  PROVE  Facts'
<1>1. PICK q \in Quantities, w \in BOOLEAN : Room(3) /\ submit_limit_buy(s, q, w)
  BY DEF _buy
<1>2. PICK x \in Nat : x = Len(orders) + 1
  BY IdsBounded DEF Facts, Account
<1>3. /\ pc' = pc /\ cur' = cur /\ pc = "idle" /\ trades' = trades
      /\ UNCHANGED << holdings, positions, pending_exits >>
      /\ ~has(s) /\ pending_entries[s] = 0
      /\ \/ pending_entries' = [pending_entries EXCEPT ![s] = x]
         \/ UNCHANGED pending_entries
  BY <1>2 DEF _buy, omVars
<1>4. /\ Undisturbed /\ orders'[x].status = "new" /\ StopOnly(x)' /\ x \notin OrderIds
      /\ \A j \in OrderIds : orders'[j] = orders[j]
  BY <1>1, <1>2, <1>3, BuyUndisturbed DEF Facts
<1>5. Recorded'
  BY <1>3, <1>4, RecordedKept
<1>6. ASSUME NEW t \in Symbols PROVE HeldFacts(t)'
  BY <1>3, <1>4, OthersKept
<1>7. ASSUME NEW t \in Symbols PROVE EntryFacts(t)'
  <2>1. CASE pending_entries'[t] = pending_entries[t]
    <3>1. pending_entries[t] # 0 => pending_entries[t] \in OrderIds
      BY DEF IInv, BookOK, SymbolOK, BuyOf
    <3>2. ~Ending'
      BY <1>3 DEF Ending
    <3> QED
      BY <1>4, <2>1, <3>1, <3>2, EntriesKept DEF Asked
  <2>2. CASE pending_entries'[t] = x
    BY <1>3, <1>4, <2>2 DEF EntryFacts, Asked, Ending
  <2> QED
    BY <1>3, <2>1, <2>2 DEF IInv, TypeOK, BookTypeOK
<1> QED
  BY <1>4, <1>5, <1>6, <1>7 DEF Facts, BookFacts, Undisturbed

LEMMA TimesOutFacts ==
  ASSUME IInv, Facts, NEW s \in Symbols, EntryTimesOut(s)
  PROVE  Facts'
<1>1. /\ UNCHANGED << brokerVars, bookVars, trades >> /\ pc' = "timeout_cancel"
      /\ ~is_terminal(orders[pending_entries[s]]) /\ cur'.sym = s /\ s \in todo /\ pc = "entries"
  BY DEF EntryTimesOut, Walk, NoLocals
<1>2. Undisturbed
  BY <1>1, KeptUndisturbed DEF Facts
<1>3. Recorded'
  BY <1>1, <1>2, RecordedKept
<1>4. ASSUME NEW t \in Symbols PROVE HeldFacts(t)'
  BY <1>1, <1>2, OthersKept DEF bookVars, Selling
<1>5. ASSUME NEW t \in Symbols PROVE EntryFacts(t)'
  <2>1. orders' = orders /\ pending_entries' = pending_entries
    BY <1>1 DEF brokerVars, bookVars
  <2>2. CASE t # s
    BY <1>1, <1>2, <2>1, <2>2, EntriesKept DEF Asked
  <2>3. CASE t = s
    <3>1. pending_entries[s] \in OrderIds /\ orders[pending_entries[s]].kind = "buy"
      BY <1>1 DEF IInv, ControlOK, Entering, BookOK, SymbolOK, BuyOf
    <3>2. OrderFacts(pending_entries[s]) /\ EntryFacts(s) /\ orders[pending_entries[s]] \in Order
      BY <3>1, OrderType DEF Facts, Account, BookFacts, BrokerOK
    <3>3. orders[pending_entries[s]].status = "new"
      BY <1>1, <3>1, <3>2 DEF OrderFacts, EntryFacts, Asked, is_terminal, Order, Status, IInv,
         ControlOK, Entering
    <3> QED
      BY <1>2, <2>1, <2>3, <3>3, EntriesKept
  <2> QED
    BY <2>2, <2>3
<1> QED
  BY <1>2, <1>3, <1>4, <1>5 DEF Facts, BookFacts, Undisturbed

\* cancel of a buy in flight: of the orders of other symbols nothing changes.
LEMMA EntryCanceled ==
  ASSUME IInv, Facts, NEW s \in Symbols, pending_entries[s] # 0, cancel(pending_entries[s]),
         UNCHANGED holdings
  PROVE  /\ Undisturbed
         /\ \A t \in Symbols \ {s} : pending_entries[t] # 0 =>
              orders'[pending_entries[t]].status = orders[pending_entries[t]].status
<1> DEFINE e == pending_entries[s]
<1>1. e \in OrderIds /\ orders[e].kind = "buy" /\ orders[e].sym = s
  BY DEF IInv, BookOK, SymbolOK, BuyOf
<1>2. \A t \in Symbols \ {s} : pending_entries[t] # 0 =>
        pending_entries[t] \in OrderIds /\ pending_entries[t] # e
  BY <1>1 DEF IInv, BookOK, SymbolOK, BuyOf
<1> HIDE DEF e
<1>3. cancel(e)
  BY DEF e
<1> QED
  BY <1>1, <1>2, <1>3, CancelUndisturbed, CancelFields DEF Facts, Account

LEMMA CancelEntriesFacts ==
  ASSUME Tame, IInv, Facts, CancelOneEntry
  PROVE  Facts'
<1>1. CASE todo = {} /\ Walk("idle", {}) /\ UNCHANGED << orders, bookVars >>
  BY <1>1, QuietStep DEF CancelOneEntry, Walk, brokerVars, bookVars, Selling, Ending
<1>2. CASE \E s \in todo : /\ cancel(pending_entries[s])
                           /\ PopEntry(s) /\ Walk("cancel_entries", todo \ {s})
  <2>1. PICK s \in todo : cancel(pending_entries[s]) /\ PopEntry(s)
                          /\ Walk("cancel_entries", todo \ {s})
    BY <1>2
  <2>2. /\ s \in Symbols /\ pending_entries[s] # 0 /\ trades' = trades
        /\ UNCHANGED << holdings, positions, pending_exits >> /\ pc' = "cancel_entries"
        /\ pending_entries' = [pending_entries EXCEPT ![s] = 0]
    BY <2>1 DEF CancelOneEntry, PopEntry, Walk, IInv, ControlOK, Entering
  <2>3. /\ Undisturbed
        /\ \A t \in Symbols \ {s} : pending_entries[t] # 0 =>
             orders'[pending_entries[t]].status = orders[pending_entries[t]].status
    BY <2>1, <2>2, EntryCanceled
  <2>4. Recorded'
    BY <2>2, <2>3, RecordedKept
  <2>5. ASSUME NEW t \in Symbols PROVE HeldFacts(t)'
    BY <2>2, <2>3, OthersKept DEF Selling
  <2>6. ASSUME NEW t \in Symbols PROVE EntryFacts(t)'
    <3>1. pending_entries'[t] = IF t = s THEN 0 ELSE pending_entries[t]
      BY <2>2 DEF IInv, TypeOK, BookTypeOK
    <3>2. ~Ending'
      BY <2>2 DEF Ending
    <3> QED
      BY <2>3, <3>1, <3>2, EntriesKept DEF Asked
  <2> QED
    BY <2>3, <2>4, <2>5, <2>6 DEF Facts, BookFacts, Undisturbed
<1> QED
  BY <1>1, <1>2 DEF CancelOneEntry, Tame

\* With no sell but the stop and a buy that has not filled, no sell works.
LEMMA StopWaits ==
  (Account => \A e \in Buys : StopOnly(e) /\ (orders[e].leg = 0 \/ ~is_filled(orders[e])) =>
     Unclaimed(e) /\ Over(e))
<1> SUFFICES ASSUME Account, NEW e \in Buys, StopOnly(e),
                    orders[e].leg = 0 \/ ~is_filled(orders[e])
             PROVE  Unclaimed(e) /\ Over(e)
    OBVIOUS
<1>1. SellOrders(e) \subseteq {orders[e].leg}
  BY StopClaims
<1>2. CASE orders[e].leg = 0
  <2>1. SellOrders(e) = {}
    BY <1>1, <1>2 DEF SellOrders, OrderIds
  <2> QED
    BY <2>1 DEF Unclaimed, Over
<1>3. CASE ~is_filled(orders[e])
  <2>1. \A i \in SellOrders(e) : OrderFacts(i) /\ orders[i].kind = "stop" /\ orders[i].entry = e
    BY DEF Account, StopOnly, SellOrders
  <2>2. \A i \in SellOrders(e) : orders[i].status \in {"held", "canceled"}
    BY <1>3, <2>1 DEF OrderFacts
  <2>3. Unclaimed(e)
    BY <1>3, StopClaims
  <2> QED
    BY <2>2, <2>3 DEF Over, Working
<1> QED
  BY <1>2, <1>3

LEMMA StopWaitsNext ==
  (Account' =>
     (\A e \in Buys : StopOnly(e) /\ (orders[e].leg = 0 \/ ~is_filled(orders[e])) =>
        Unclaimed(e) /\ Over(e))')
  BY StopWaits, PTL

\* A buy turns into a position of what it has filled.
LEMMA Opens ==
  ASSUME IInv, Facts, Undisturbed, NEW s \in Symbols, NEW i \in OrderIds, pending_entries[s] = i,
         NEW q \in Nat, q > 0, NEW stop \in Nat, open(s, Opened(i, q, stop)),
         trades' = trades, ~Selling', ~Ending',
         i \in Done', q = orders'[i].filled, StopOnly(i)',
         stop # 0 => stop = orders'[i].leg /\ is_filled(orders'[i]),
         stop = 0 => Unclaimed(i)' /\ Over(i)',
         \A t \in Symbols \ {s} : pending_entries[t] # 0 =>
           (orders'[pending_entries[t]].status = "pending_cancel" => Asked(pending_entries[t]))
  PROVE  Facts'
<1> DEFINE pos == [qty |-> q, stop_order_id |-> stop, exit_pending |-> FALSE,
                   entry_order_id |-> i]
<1>1. /\ positions' = [positions EXCEPT ![s] = pos]
      /\ pending_entries' = [pending_entries EXCEPT ![s] = 0] /\ pending_exits' = pending_exits
  BY DEF open, Opened
<1>2. /\ pos.qty = q /\ pos.stop_order_id = stop /\ pos.exit_pending = FALSE
      /\ pos.entry_order_id = i
  OBVIOUS
<1> HIDE DEF pos
<1>3. /\ positions'[s] = pos /\ pending_entries'[s] = 0
      /\ \A t \in Symbols \ {s} : positions'[t] = positions[t]
                                  /\ pending_entries'[t] = pending_entries[t]
  BY <1>1 DEF IInv, TypeOK, BookTypeOK
<1>4. Recorded'
  BY RecordedKept
<1>5. pending_exits'[s] = 0
  <2>1. i # 0
    BY DEF OrderIds
  <2> QED
    BY <1>1, <2>1 DEF IInv, BookOK, SymbolOK
<1>6. HeldFacts(s)'
  BY <1>2, <1>3, <1>5 DEF HeldFacts, Selling
<1>7. ASSUME NEW t \in Symbols \ {s} PROVE HeldFacts(t)'
  BY <1>1, <1>3, OthersKept
<1>8. ASSUME NEW t \in Symbols \ {s} PROVE EntryFacts(t)'
  BY <1>3, EntriesKept
<1>9. EntryFacts(s)'
  BY <1>3 DEF EntryFacts
<1> QED
  BY <1>4, <1>6, <1>7, <1>8, <1>9 DEF Facts, BookFacts, Undisturbed

LEMMA PollEntryFacts ==
  ASSUME IInv, Facts, NEW s \in Symbols, PollEntry(s)
  PROVE  Facts'
<1> PICK i : i = pending_entries[s]
  OBVIOUS
<1>1. /\ pc = "entries" /\ pc' = "entries" /\ UNCHANGED brokerVars /\ trades' = trades
      /\ i \in OrderIds /\ i \in Buys /\ i # 0
  BY DEF PollEntry, Walk, IInv, ControlOK, Entering, BookOK, SymbolOK, BuyOf, Buys
<1>2. /\ orders' = orders /\ orders[i] \in Order /\ StopOnly(i) /\ Undisturbed
      /\ BrokerOK /\ Account
  BY <1>1, KeptUndisturbed, OrderType
     DEF brokerVars, Facts, BookFacts, EntryFacts, Account, BrokerOK
<1>3. CASE is_filled(orders[i]) /\ open(s, Opened(i, orders[i].filled, orders[i].leg))
  <2> PICK q, stop : q = orders[i].filled /\ stop = orders[i].leg
    OBVIOUS
  <2>1. q \in Nat /\ stop \in Nat /\ q > 0
    BY <1>1, <1>2, <1>3 DEF Order, BrokerOK, OrdersOK
  <2>2. OrderIds' = OrderIds /\ i \in Done'
    BY <1>1, <1>2, <1>3 DEF Done, Buys, OrderIds, is_filled
  <2>3. StopOnly(i)' /\ (stop = 0 => Unclaimed(i)' /\ Over(i)')
    <3>1. SellOrders(i)' = SellOrders(i)
      BY <1>2 DEF SellOrders, OrderIds
    <3>2. stop = 0 => Unclaimed(i) /\ Over(i)
      BY <1>1, <1>2, StopWaits
    <3> QED
      BY <1>2, <3>1, <3>2 DEF StopOnly, Unclaimed, Over
  <2>4. ~Selling' /\ ~Ending'
    BY <1>1 DEF Selling, Ending
  <2> QED
    BY <1>1, <1>2, <1>3, <2>1, <2>2, <2>3, <2>4, Opens DEF Asked
<1>4. CASE PopEntry(s) \/ UNCHANGED bookVars
  <2>1. /\ UNCHANGED << positions, pending_exits >>
        /\ \A t \in Symbols : pending_entries'[t] \in {0, pending_entries[t]}
    BY <1>4 DEF PopEntry, bookVars, IInv, TypeOK, BookTypeOK
  <2> QED
    BY <1>1, <2>1, QuietStep DEF Selling, Ending
<1> QED
  BY <1>3, <1>4 DEF PollEntry

LEMMA CancelTimedOutFacts ==
  ASSUME Tame, IInv, PartRead, Facts, CancelTimedOut
  PROVE  Facts'
<1> PICK s, i : s = cur.sym /\ i = pending_entries[s]
  OBVIOUS
<1> PICK q : q = cur.qty
  OBVIOUS
<1>1. /\ pc = "timeout_cancel" /\ pc' = "entries" /\ UNCHANGED holdings /\ trades' = trades
      /\ cancel(i) /\ s \in Symbols /\ i # 0 /\ i \in OrderIds /\ i \in Buys
      /\ q = orders[i].filled
      /\ IF q > 0 THEN open(s, Opened(i, q, 0)) ELSE PopEntry(s)
  BY DEF CancelTimedOut, IInv, ControlOK, Entering, BookOK, SymbolOK, BuyOf, Buys, PartRead, Tame
<1>2. /\ Undisturbed
      /\ \A t \in Symbols \ {s} : pending_entries[t] # 0 =>
           orders'[pending_entries[t]].status = orders[pending_entries[t]].status
  BY <1>1, EntryCanceled
<1>3. /\ orders[i].status \in {"new", "canceled"} /\ StopOnly(i) /\ orders[i].filled \in Nat
      /\ BrokerOK /\ ~Selling' /\ ~Ending'
  BY <1>1, ClaimType DEF Facts, BookFacts, EntryFacts, Ending, Account, Selling
<1>4. /\ orders'[i].filled = orders[i].filled
      /\ orders'[i].status \in {"pending_cancel", "canceled"}
  BY <1>1, <1>3, CancelFields
<1>5. CASE q > 0
  <2>1. i \in Done' /\ ~is_filled(orders'[i]) /\ i \in Buys'
    BY <1>1, <1>2, <1>4 DEF Done, Undisturbed, is_filled
  <2>2. StopOnly(i)'
    BY <1>1, <1>2, <1>3 DEF Undisturbed, StopOnly, SellOrders, Same
  <2>3. Unclaimed(i)' /\ Over(i)'
    BY <1>2, <2>1, <2>2, StopWaitsNext DEF Undisturbed
  <2> QED
    BY <1>1, <1>2, <1>3, <1>4, <1>5, <2>1, <2>2, <2>3, Opens DEF Asked
<1>6. CASE ~(q > 0)
  <2>1. /\ UNCHANGED << positions, pending_exits >>
        /\ pending_entries'[s] = 0
        /\ \A t \in Symbols \ {s} : pending_entries'[t] = pending_entries[t]
    BY <1>1, <1>6 DEF PopEntry, IInv, TypeOK, BookTypeOK
  <2>2. ASSUME NEW t \in Symbols PROVE HeldFacts(t)'
    BY <1>2, <1>3, <2>1, OthersKept
  <2>3. ASSUME NEW t \in Symbols PROVE EntryFacts(t)'
    BY <1>2, <1>3, <2>1, EntriesKept DEF Asked
  <2>4. Recorded'
    BY <1>1, <1>2, RecordedKept
  <2> QED
    BY <1>2, <2>2, <2>3, <2>4 DEF Facts, BookFacts, Undisturbed
<1> QED
  BY <1>5, <1>6

----------------------------------------------------------------------------
(* Trades                                                                  *)

\* Sells that are over have sold what they claim.
LEMMA SoldIsClaimed ==
  ASSUME Account, NEW e, Over(e)
  PROVE  Sold(e) = Claimed(e)
<1>1. ASSUME NEW i \in SellOrders(e) PROVE orders[i].filled = Claim(orders[i])
  <2>1. i \in OrderIds /\ OrderFacts(i) /\ ~Working(orders[i]) /\ orders[i] \in Order
    BY OrderType DEF Account, Over, SellOrders, BrokerOK
  <2>2. orders[i].status \in {"held", "filled", "canceled"}
    BY <2>1 DEF Order, Status, Working
  <2>3. is_filled(orders[i]) => orders[i].filled = orders[i].qty
    BY <2>1 DEF Account, BrokerOK, OrdersOK
  <2> QED
    BY <2>1, <2>2, <2>3 DEF OrderFacts, Claim, is_filled
<1> DEFINE f == [i \in 1 .. MaxOrders |-> IF i \in SellOrders(e) THEN orders[i].filled ELSE 0]
<1>2. f = Claims(e)
  BY <1>1 DEF Claims
<1> QED
  BY <1>2 DEF Sold, Claimed

\* The stop that sold its buy: nothing of it is left, and nothing more sells it.
LEMMA StopSold ==
  ASSUME Account, NEW e \in Buys, StopOnly(e), is_filled(orders[e]),
         NEW i \in OrderIds, i = orders[e].leg, is_filled(orders[i])
  PROVE  Over(e) /\ Sold(e) = orders[e].filled
<1>1. SellOrders(e) \subseteq {i} /\ i # 0 /\ Claimed(e) = Claim(orders[i])
  BY StopClaims DEF OrderIds
<1>2. Over(e)
  BY <1>1 DEF Over, Working, is_filled
<1>3. OrderFacts(i) /\ orders[i].kind = "stop" /\ orders[i].entry = e
  BY <1>1, LegFacts DEF Account, Buys
<1>4. Claim(orders[i]) = orders[i].qty /\ orders[i].qty = orders[e].qty
  BY <1>3 DEF Claim, is_filled, OrderFacts
<1>5. orders[e].filled = orders[e].qty
  BY DEF Account, BrokerOK, OrdersOK, Buys
<1> QED
  BY <1>1, <1>2, <1>4, <1>5, SoldIsClaimed

\* A position is closed and its trade is booked.
LEMMA Closes ==
  ASSUME IInv, Facts, UNCHANGED brokerVars, NEW s \in Symbols, has(s), close(s),
         NEW e, e = positions[s].entry_order_id, NEW i, trades' = trades \cup {TradeOf(s, i)},
         ~Selling', ~Ending', Over(e), Exact => Sold(e) = positions[s].qty
  PROVE  Facts'
<1>1. Undisturbed /\ e \in Done
  BY KeptUndisturbed DEF Facts, BookFacts, HeldFacts
<1>2. /\ positions' = [positions EXCEPT ![s] = NoPosition]
      /\ pending_exits' = [pending_exits EXCEPT ![s] = 0]
      /\ pending_entries' = pending_entries /\ orders' = orders
  BY DEF close, brokerVars
<1>3. /\ positions'[s] = NoPosition
      /\ \A t \in Symbols \ {s} : positions'[t] = positions[t]
                                  /\ pending_exits'[t] = pending_exits[t]
  BY <1>2 DEF IInv, TypeOK, BookTypeOK
<1>4. HeldFacts(s)'
  BY <1>3 DEF HeldFacts, has, NoPosition
<1>5. ASSUME NEW t \in Symbols \ {s} PROVE HeldFacts(t)'
  BY <1>1, <1>3, OthersKept
<1>6. ASSUME NEW t \in Symbols PROVE EntryFacts(t)'
  BY <1>1, <1>2, EntriesKept DEF Asked
<1>7. ASSUME NEW t \in trades' PROVE TradeFacts(t)'
  <2>1. CASE t \in trades
    BY <1>1, <2>1, TradeKept DEF Facts, Recorded, Undisturbed, TradeFacts
  <2>2. CASE t = TradeOf(s, i)
    <3>1. t.entry_order_id = e /\ t.qty = positions[s].qty
      BY <2>2 DEF TradeOf
    <3>2. TradeFacts(t)
      BY <1>1, <3>1 DEF TradeFacts
    <3>3. Steady(t.entry_order_id)
      BY <1>1, <3>1 DEF Undisturbed
    <3> QED
      BY <3>2, <3>3, TradeKept
  <2> QED
    BY <2>1, <2>2
<1> QED
  BY <1>1, <1>4, <1>5, <1>6, <1>7 DEF Facts, BookFacts, Recorded, Undisturbed

LEMMA PollStopFacts ==
  ASSUME IInv, Facts, NEW s \in Symbols, PollStop(s)
  PROVE  Facts'
<1> PICK e, i : e = positions[s].entry_order_id /\ i = positions[s].stop_order_id
  OBVIOUS
<1>1. /\ pc = "stops" /\ pc' = "stops" /\ UNCHANGED brokerVars /\ cur' = cur
      /\ has(s) /\ i # 0 /\ i \in OrderIds
      /\ \/ is_filled(orders[i]) /\ close(s) /\ trades' = trades \cup {TradeOf(s, i)}
         \/ UNCHANGED << bookVars, trades >>
  BY DEF PollStop, Walk, BookStopFill, IInv, ControlOK, Guarded, Held, BookOK, SymbolOK, ClosesEntry
<1>2. ~Selling' /\ ~Ending'
  BY <1>1 DEF Selling, Ending
<1>3. CASE is_filled(orders[i]) /\ close(s) /\ trades' = trades \cup {TradeOf(s, i)}
  <2>1. /\ e \in Done /\ e \in Buys /\ positions[s].qty = orders[e].filled
        /\ i = orders[e].leg /\ StopOnly(e) /\ is_filled(orders[e])
    BY <1>1 DEF Facts, BookFacts, HeldFacts, Done
  <2>2. Over(e) /\ Sold(e) = orders[e].filled
    BY <1>1, <1>3, <2>1, StopSold DEF Facts
  <2> QED
    BY <1>1, <1>2, <1>3, <2>1, <2>2, Closes
<1>4. CASE UNCHANGED << bookVars, trades >>
  BY <1>1, <1>2, <1>4, QuietStep DEF bookVars
<1> QED
  BY <1>1, <1>3, <1>4

LEMMA PollExitFacts ==
  ASSUME Tame, IInv, Facts, NEW s \in Symbols, PollExit(s)
  PROVE  Facts'
<1> PICK e, x : e = positions[s].entry_order_id /\ x = pending_exits[s]
  OBVIOUS
<1>1. /\ pc = "exits" /\ pc' = "exits" /\ UNCHANGED brokerVars /\ cur' = cur
      /\ has(s) /\ x # 0 /\ x \in OrderIds /\ x \in SellOrders(e)
      /\ positions[s].stop_order_id = 0
  BY DEF PollExit, Walk, IInv, ControlOK, Exiting, BookOK, SymbolOK, ClosesEntry, SellOrders
<1>2. ~Selling' /\ ~Ending'
  BY <1>1 DEF Selling, Ending
<1>3. /\ e \in Done /\ e \in Buys /\ positions[s].qty = orders[e].filled
      /\ orders[x].kind = "sell"
      /\ \A i \in SellOrders(e) : Working(orders[i]) => i = x
      /\ "partial_fill" \notin Faults => \A i \in SellOrders(e) \ {x} : Claim(orders[i]) = 0
      /\ Exact /\ orders[x].status # "canceled" => Claimed(e) = orders[e].filled
  BY <1>1 DEF Facts, BookFacts, HeldFacts, Done
<1>4. CASE is_filled(orders[x]) /\ close(s) /\ trades' = trades \cup {TradeOf(s, x)}
  <2>1. Over(e)
    BY <1>3, <1>4 DEF Over, Working, is_filled
  <2>2. Exact => Sold(e) = positions[s].qty
    BY <1>3, <1>4, <2>1, SoldIsClaimed DEF Facts, is_filled
  <2> QED
    BY <1>1, <1>2, <1>4, <2>1, <2>2, Closes
<1>5. CASE /\ is_terminal(orders[x]) /\ ~is_filled(orders[x])
           /\ pending_exits' = [pending_exits EXCEPT ![s] = 0]
           /\ positions' = [positions EXCEPT ![s].exit_pending = FALSE]
           /\ UNCHANGED << pending_entries, trades >>
  <2>1. orders[x].status = "canceled" /\ OrderFacts(x)
    BY <1>1, <1>5 DEF is_terminal, is_filled, Facts, Account
  <2>2. "partial_fill" \notin Faults
    BY <1>3, <2>1 DEF OrderFacts, Tame
  <2>3. Unclaimed(e) /\ Over(e)
    BY <1>3, <2>1, <2>2 DEF OrderFacts, Claim, Working, is_filled, Unclaimed, Over
  <2>4. Undisturbed /\ orders' = orders /\ Steady(e)
    BY <1>1, <1>3, KeptUndisturbed DEF Facts, brokerVars, Undisturbed
  <2>5. Unclaimed(e)' /\ Over(e)' /\ e \in Done'
    <3>1. SellOrders(e)' = SellOrders(e)
      BY <2>4 DEF SellOrders, OrderIds
    <3>2. e \in Done'
      BY <1>3, <2>4 DEF Done, Buys, OrderIds
    <3> QED
      BY <2>3, <2>4, <3>1, <3>2 DEF Unclaimed, Over
  <2>6. /\ pending_exits'[s] = 0 /\ positions'[s] = [positions[s] EXCEPT !.exit_pending = FALSE]
        /\ positions[s] \in Position
        /\ \A t \in Symbols \ {s} : positions'[t] = positions[t]
                                    /\ pending_exits'[t] = pending_exits[t]
    BY <1>5 DEF IInv, TypeOK, BookTypeOK
  <2>7. /\ positions'[s].qty = positions[s].qty /\ positions'[s].stop_order_id = 0
        /\ positions'[s].entry_order_id = e
    BY <1>1, <2>6 DEF Position
  <2>8. HeldFacts(s)'
    BY <1>2, <1>3, <2>4, <2>5, <2>6, <2>7 DEF HeldFacts, Selling
  <2>9. ASSUME NEW t \in Symbols \ {s} PROVE HeldFacts(t)'
    BY <1>2, <2>4, <2>6, OthersKept
  <2>10. ASSUME NEW t \in Symbols PROVE EntryFacts(t)'
    BY <1>2, <1>5, <2>4, EntriesKept DEF Asked
  <2>11. Recorded'
    BY <1>5, <2>4, RecordedKept
  <2> QED
    BY <2>4, <2>8, <2>9, <2>10, <2>11 DEF Facts, BookFacts, Undisturbed
<1>6. CASE UNCHANGED << bookVars, trades >>
  BY <1>1, <1>2, <1>6, QuietStep DEF bookVars
<1> QED
  BY <1>1, <1>4, <1>5, <1>6 DEF PollExit

----------------------------------------------------------------------------
(* Exits                                                                   *)

LEMMA BeginSellFacts ==
  ASSUME Tame, IInv, Facts, NEW s \in Symbols, NEW fl \in BOOLEAN, BeginSell(s, fl)
  PROVE  Facts'
<1> PICK e, stop, q : /\ e = positions[s].entry_order_id /\ stop = positions[s].stop_order_id
                      /\ q = positions[s].qty
  OBVIOUS
<1>1. /\ has(s) /\ ~positions[s].exit_pending /\ UNCHANGED holdings
      /\ positions' = [positions EXCEPT ![s].exit_pending = TRUE]
      /\ cur' = [sym |-> s, qty |-> q, checks |-> 0, flattening |-> fl]
      /\ IF stop # 0 THEN pc' = "settle" /\ cancel(stop)
                     ELSE pc' \in {"hold", "submit"} /\ UNCHANGED orders
      /\ UNCHANGED << pending_entries, pending_exits, trades >>
  BY DEF BeginSell, Tame
<1>2. /\ e \in Done /\ e \in Buys /\ q = orders[e].filled /\ orders[e].filled \in Nat
      /\ stop # 0 => stop = orders[e].leg /\ StopOnly(e) /\ is_filled(orders[e])
      /\ stop = 0 => Unclaimed(e) /\ Over(e)
  BY <1>1, ClaimType DEF Facts, BookFacts, HeldFacts, Done, Account, Buys
<1>3. /\ pending_exits[s] = 0 /\ positions[s] \in Position
      /\ stop # 0 => stop \in OrderIds /\ orders[stop].kind = "stop"
  <2>1. pending_exits[s] = 0 /\ positions[s] \in Position
    BY <1>1 DEF IInv, BookOK, SymbolOK, TypeOK, BookTypeOK
  <2>2. stop # 0 => stop \in OrderIds /\ orders[stop].kind # "buy"
    BY <1>1 DEF IInv, BookOK, SymbolOK, ClosesEntry
  <2>3. stop # 0 => orders[stop].kind = "stop"
    BY <1>2, <2>2, LegFacts DEF Facts, Buys
  <2> QED
    BY <2>1, <2>2, <2>3
<1>4. /\ Undisturbed
      /\ \A t \in Symbols : pending_entries[t] # 0 =>
           orders'[pending_entries[t]].status = orders[pending_entries[t]].status
      /\ stop # 0 => orders'[stop].status # "new"
      /\ stop = 0 => orders' = orders
  <2>1. \A t \in Symbols : pending_entries[t] # 0 =>
          pending_entries[t] \in OrderIds /\ orders[pending_entries[t]].kind = "buy"
    BY DEF IInv, BookOK, SymbolOK, BuyOf
  <2>2. CASE stop # 0
    BY <1>1, <1>3, <2>1, <2>2, CancelFields, CancelUndisturbed DEF Facts, Account
  <2>3. CASE stop = 0
    BY <1>1, <2>3, KeptUndisturbed DEF Facts, brokerVars
  <2> QED
    BY <2>2, <2>3
<1>5. /\ cur'.sym = s /\ cur'.qty = q /\ ~Ending'
      /\ \A t \in Symbols \ {s} : positions'[t] = positions[t]
  BY <1>1 DEF Ending, IInv, TypeOK, BookTypeOK
<1>6. /\ positions'[s].qty = q /\ positions'[s].stop_order_id = stop
      /\ positions'[s].entry_order_id = e /\ positions'[s].exit_pending = TRUE
  <2>1. positions'[s] = [positions[s] EXCEPT !.exit_pending = TRUE]
    BY <1>1 DEF IInv, TypeOK, BookTypeOK
  <2> QED
    BY <1>3, <2>1 DEF Position
<1>7. Steady(e) /\ e \in Done' /\ orders'[e].filled = orders[e].filled
  BY <1>2, <1>4 DEF Undisturbed, Steady, Done
<1>8. stop # 0 => stop = orders'[e].leg /\ StopOnly(e)' /\ is_filled(orders'[e])
  BY <1>2, <1>7 DEF Steady, SellMoves, Same, StopOnly
<1>9. stop = 0 => Unclaimed(e)' /\ Over(e)' /\ Claimed(e)' = 0
  <2>1. stop = 0 => Unclaimed(e)' /\ Over(e)'
    BY <1>2, <1>4, <1>7 DEF Steady, Unclaimed, Over
  <2> QED
    BY <1>4, <2>1, UnclaimedNext DEF Undisturbed, Account
<1>10. HeldFacts(s)'
  BY <1>1, <1>2, <1>3, <1>4, <1>5, <1>6, <1>7, <1>8, <1>9 DEF HeldFacts
<1>11. ASSUME NEW t \in Symbols \ {s} PROVE HeldFacts(t)'
  BY <1>1, <1>4, <1>5, OthersKept
<1>12. ASSUME NEW t \in Symbols PROVE EntryFacts(t)'
  BY <1>1, <1>4, <1>5, EntriesKept DEF Asked
<1>13. Recorded'
  BY <1>1, <1>4, RecordedKept
<1> QED
  BY <1>4, <1>10, <1>11, <1>12, <1>13 DEF Facts, BookFacts, Undisturbed

LEMMA FlattenFacts ==
  ASSUME Tame, IInv, Facts, FlattenOne
  PROVE  Facts'
<1>1. CASE \E s \in Symbols : BeginSell(s, TRUE)
  BY <1>1, BeginSellFacts
<1>2. CASE UNCHANGED << brokerVars, bookVars, cur, trades >> /\ pc' \in {"flatten", "idle"}
  <2>1. ~Selling' /\ ~Ending'
    BY <1>2 DEF Selling, Ending
  <2> QED
    BY <1>2, <2>1, QuietStep DEF bookVars
<1> QED
  BY <1>1, <1>2 DEF FlattenOne, Walk, IInv, TypeOK

LEMMA RestIs ==
  \A all, part \in Nat : \A rest :
    part <= all /\ rest = (IF all > part THEN all - part ELSE 0) => rest + part = all
  OBVIOUS

\* The stop is out of the way, and has sold what it claims.
LEMMA AfterSettleFacts ==
  ASSUME Tame, IInv, Facts, pc = "settle", NEW s \in Symbols, s = cur.sym, NEW i \in OrderIds,
         i = positions[s].stop_order_id, orders[i].status \in {"canceled", "held"}, NEW q \in Int,
         q = IF cur.qty > orders[i].filled THEN cur.qty - orders[i].filled ELSE 0,
         AfterSettle(s, q)
  PROVE  Facts'
<1> PICK e : e = positions[s].entry_order_id
  OBVIOUS
<1>1. /\ has(s) /\ pending_exits[s] = 0 /\ positions[s] \in Position /\ cur \in Locals
      /\ positions[s].exit_pending /\ i # 0
  BY SellingFacts DEF Selling, IInv, TypeOK, BookTypeOK, OrderIds
<1>2. /\ e \in Done /\ e \in Buys /\ positions[s].qty = orders[e].filled
      /\ i = orders[e].leg /\ StopOnly(e) /\ is_filled(orders[e])
      /\ cur.qty = positions[s].qty
  BY <1>1 DEF Facts, BookFacts, HeldFacts, Done
<1>3. SellOrders(e) \subseteq {i} /\ Claimed(e) = Claim(orders[i]) /\ Claimed(e) <= orders[e].filled
      /\ Claim(orders[i]) \in Nat
  BY <1>1, <1>2, StopClaims, ClaimType DEF Facts, Account
<1>4. Over(e) /\ Claim(orders[i]) = orders[i].filled
  <2>1. OrderFacts(i)
    BY DEF Facts, Account
  <2> QED
    BY <1>3, <2>1 DEF Over, Working, Claim, OrderFacts
<1>5. q + Claimed(e) = orders[e].filled
  <2>1. orders[e].filled \in Nat /\ orders[i].filled \in Nat
    BY <1>2, ClaimType DEF Facts, Account, Buys
  <2>2. cur.qty = orders[e].filled /\ Claimed(e) = orders[i].filled
        /\ orders[i].filled <= orders[e].filled
    BY <1>2, <1>3, <1>4
  <2>3. q = IF orders[e].filled > orders[i].filled THEN orders[e].filled - orders[i].filled ELSE 0
    BY <2>2, Zenon
  <2>4. q + orders[i].filled = orders[e].filled
    BY <2>1, <2>2, <2>3, RestIs, Zenon
  <2> QED
    BY <2>2, <2>4, Zenon
<1>6. "partial_fill" \notin Faults => Unclaimed(e)
  <2>1. OrderFacts(i) /\ ~is_filled(orders[i])
    BY DEF Facts, Account, is_filled
  <2> QED
    BY <1>3, <1>4, <2>1 DEF OrderFacts, Unclaimed
<1>7. /\ UNCHANGED << brokerVars, pending_entries, pending_exits, trades >>
      /\ positions' = [positions EXCEPT ![s].stop_order_id = 0]
      /\ cur' = [cur EXCEPT !.qty = q] /\ pc' \in {"hold", "submit"}
  BY DEF AfterSettle
<1>8. /\ Undisturbed /\ Steady(e) /\ orders' = orders
  BY <1>2, <1>7, KeptUndisturbed DEF Facts, Undisturbed, brokerVars
<1>9. /\ cur'.sym = s /\ cur'.qty = q /\ ~Ending'
      /\ \A t \in Symbols \ {s} : positions'[t] = positions[t]
  BY <1>1, <1>7 DEF Ending, Locals, IInv, TypeOK, BookTypeOK
<1>10. /\ positions'[s].qty = positions[s].qty /\ positions'[s].stop_order_id = 0
       /\ positions'[s].entry_order_id = e /\ positions'[s].exit_pending = TRUE
  <2>1. positions'[s] = [positions[s] EXCEPT !.stop_order_id = 0]
    BY <1>7 DEF IInv, TypeOK, BookTypeOK
  <2> QED
    BY <1>1, <2>1 DEF Position
<1>11. /\ e \in Done' /\ Over(e)' /\ Claimed(e)' = Claimed(e)
       /\ "partial_fill" \notin Faults => Unclaimed(e)'
  <2>1. SellOrders(e)' = SellOrders(e)
    BY <1>8 DEF SellOrders, OrderIds
  <2>2. e \in Done'
    BY <1>2, <1>8 DEF Done, Buys, OrderIds
  <2>3. Claimed(e)' = Claimed(e)
    BY <1>2, <1>4, <1>8, SteadySame DEF Over
  <2> QED
    BY <1>4, <1>6, <1>8, <2>1, <2>2, <2>3 DEF Over, Unclaimed
<1>12. HeldFacts(s)'
  <2>1. pending_exits'[s] = 0 /\ orders'[e].filled = orders[e].filled /\ pc' # "settle"
    BY <1>1, <1>7, <1>8
  <2>2. q + Claimed(e)' = orders'[e].filled /\ orders[e].filled \in Nat
    BY <1>5, <1>8, <1>11, <1>2, ClaimType DEF Facts, Account, Buys
  <2>3. q + Claimed(e)' <= orders'[e].filled
    <3>1. \A x \in Nat : x <= x
      OBVIOUS
    <3> QED
      BY <2>1, <2>2, <3>1, Zenon
  <2>4. positions'[s].qty = orders'[e].filled
    BY <1>2, <1>10, <2>1
  <2> QED
    BY <1>9, <1>10, <1>11, <2>1, <2>2, <2>3, <2>4 DEF HeldFacts
<1>13. ASSUME NEW t \in Symbols \ {s} PROVE HeldFacts(t)'
  BY <1>7, <1>8, <1>9, OthersKept
<1>14. ASSUME NEW t \in Symbols PROVE EntryFacts(t)'
  BY <1>7, <1>8, <1>9, EntriesKept DEF Asked
<1>15. Recorded'
  BY <1>7, <1>8, RecordedKept
<1> QED
  BY <1>8, <1>12, <1>13, <1>14, <1>15 DEF Facts, BookFacts, Undisturbed

LEMMA SettleFacts ==
  ASSUME Tame, IInv, Facts, _settle_stop
  PROVE  Facts'
<1> PICK s, e, i : s = cur.sym /\ e = positions[s].entry_order_id /\ i = positions[s].stop_order_id
  OBVIOUS
<1>1. /\ pc = "settle" /\ Selling /\ s \in Symbols /\ has(s) /\ i # 0 /\ i \in OrderIds
      /\ orders[i] \in Order /\ cur \in Locals
  <2>1. pc = "settle"
    BY DEF _settle_stop
  <2>2. s \in Symbols /\ has(s) /\ i # 0 /\ SymbolOK(s) /\ cur \in Locals
    BY <2>1, SellingFacts DEF Selling
  <2> QED
    BY <2>1, <2>2, OrderType DEF SymbolOK, ClosesEntry, Selling, IInv, TypeOK
<1>2. /\ e \in Done /\ e \in Buys /\ positions[s].qty = orders[e].filled
      /\ i = orders[e].leg /\ StopOnly(e) /\ is_filled(orders[e])
      /\ orders[i].status # "new"
  BY <1>1 DEF Facts, BookFacts, HeldFacts, Done
<1>3. CASE UNCHANGED << brokerVars, bookVars, pc, trades >> /\ cur' = [cur EXCEPT !.checks = @ + 1]
  <2>1. cur'.sym = cur.sym /\ cur'.qty = cur.qty
    BY <1>1, <1>3 DEF Locals
  <2> QED
    BY <1>3, <2>1, QuietStep DEF bookVars, Ending
<1>4. CASE /\ is_filled(orders[i]) /\ close(s) /\ trades' = trades \cup {TradeOf(s, i)}
           /\ Return /\ UNCHANGED brokerVars
  <2>1. Over(e) /\ Sold(e) = orders[e].filled
    BY <1>1, <1>2, <1>4, StopSold DEF Facts
  <2>2. ~Selling' /\ ~Ending'
    BY <1>4 DEF Return, Selling, Ending
  <2> QED
    BY <1>1, <1>2, <1>4, <2>1, <2>2, Closes
<1>5. CASE /\ orders[i].status \notin {"filled", "pending_cancel"}
           /\ AfterSettle(s, IF cur.qty > orders[i].filled THEN cur.qty - orders[i].filled ELSE 0)
  <2> PICK q : q = IF cur.qty > orders[i].filled THEN cur.qty - orders[i].filled ELSE 0
    OBVIOUS
  <2>1. cur.qty \in Int /\ orders[i].filled \in Int /\ orders[i].status \in Status
    BY <1>1 DEF Order, Locals
  <2>2. q \in Int
    BY <2>1
  <2>3. orders[i].status \in {"canceled", "held"}
    BY <1>2, <1>5, <2>1 DEF Status
  <2> QED
    BY <1>1, <1>5, <2>2, <2>3, AfterSettleFacts
<1> QED
  BY <1>3, <1>4, <1>5 DEF _settle_stop, BookStopFill, Tame, is_filled

LEMMA SubmitFacts ==
  ASSUME IInv, Facts, SubmitSell
  PROVE  Facts'
<1> PICK s, e, q : s = cur.sym /\ e = positions[s].entry_order_id /\ q = cur.qty
  OBVIOUS
<1> PICK x \in Nat : x = Len(orders) + 1
  BY IdsBounded DEF Facts, Account
<1>1. /\ pc = "submit" /\ Selling /\ s \in Symbols /\ has(s) /\ SymbolOK(s) /\ q \in Int
      /\ positions[s].stop_order_id = 0 /\ positions[s].exit_pending
      /\ pending_exits[s] = 0 /\ pending_entries[s] = 0
      /\ Len(orders) < MaxOrders /\ Room(1) /\ BuyOf(s, e) /\ e \in Nat
  <2>1. pc = "submit" /\ Selling
    BY DEF SubmitSell, Selling
  <2>2. s \in Symbols /\ has(s) /\ SymbolOK(s) /\ cur \in Locals /\ Len(orders) < MaxOrders
        /\ positions[s].stop_order_id = 0 /\ positions[s].exit_pending /\ pending_exits[s] = 0
    BY <2>1, SellingFacts
  <2>3. Room(1)
    BY <2>2, IdsBounded, MaxOrdersAssumption DEF Room, Facts, Account
  <2> QED
    BY <2>1, <2>2, <2>3 DEF SymbolOK, Locals, BuyOf, OrderIds
<1>2. /\ e \in Done /\ positions[s].qty = orders[e].filled /\ Over(e)
      /\ q + Claimed(e) <= orders[e].filled
      /\ Exact => q + Claimed(e) = orders[e].filled
      /\ "partial_fill" \notin Faults => Unclaimed(e)
  BY <1>1 DEF Facts, BookFacts, HeldFacts
<1>3. /\ UNCHANGED << holdings, positions, pending_entries, trades >> /\ ~Selling' /\ ~Ending'
  BY DEF SubmitSell, Return, Raise, Selling, Ending
<1>4. CASE UNCHANGED << orders, pending_exits >>
  BY <1>3, <1>4, QuietStep DEF brokerVars
<1>5. CASE /\ q > 0 /\ submit_market_sell(s, q, e)
           /\ \/ pending_exits' = [pending_exits EXCEPT ![s] = x]
              \/ UNCHANGED pending_exits
  <2>1. q \in Nat \ {0} /\ orders[e].sym = s /\ Claimed(e) + q <= orders[e].filled
        /\ Claimed(e) \in Int /\ orders[e].filled \in Int
    BY <1>1, <1>2, <1>5, ClaimsType, ClaimType DEF BuyOf, Facts, Account
  <2>2. /\ Account' /\ Within' /\ OrderIds \subseteq OrderIds' /\ Buys \subseteq Buys'
        /\ \A d \in Done \ {e} : Steady(d)
        /\ \A j \in OrderIds : orders'[j] = orders[j]
        /\ SellOrders(e)' = SellOrders(e) \cup {x} /\ x \notin OrderIds
        /\ \A d : d # e => SellOrders(d)' = SellOrders(d)
        /\ orders'[x].kind = "sell" /\ orders'[x].status = "new" /\ orders'[x].qty = q
        /\ Claimed(e)' = Claimed(e) + q
    <3>1. /\ Account /\ Within /\ Room(1) /\ submit_market_sell(s, q, e) /\ UNCHANGED holdings
          /\ s \in Symbols /\ e \in Done
      BY <1>1, <1>2, <1>3, <1>5 DEF Facts
    <3> QED
      BY <2>1, <3>1, SellSubmitted
  <2>3. /\ pending_exits'[s] \in {0, x}
        /\ \A t \in Symbols \ {s} : pending_exits'[t] = pending_exits[t]
    BY <1>1, <1>5 DEF IInv, TypeOK, BookTypeOK
  <2>4. /\ e \in Done' /\ orders'[e].filled = orders[e].filled
        /\ Exact => Claimed(e)' = orders'[e].filled
        /\ \A i \in SellOrders(e)' : Working(orders'[i]) => i = x
        /\ "partial_fill" \notin Faults => \A i \in SellOrders(e)' \ {x} : Claim(orders'[i]) = 0
    <3>1. e \in Done' /\ orders'[e] = orders[e]
      BY <1>1, <1>2, <2>2 DEF Done, BuyOf
    <3>2. \A i \in SellOrders(e) : orders'[i] = orders[i]
      BY <2>2 DEF SellOrders
    <3>3. Exact => Claimed(e)' = orders'[e].filled
      BY <1>2, <2>1, <2>2, <3>1
    <3> QED
      BY <1>2, <2>2, <3>1, <3>2, <3>3 DEF Over, Unclaimed
  <2>5. HeldFacts(s)'
    BY <1>1, <1>2, <1>3, <2>2, <2>3, <2>4 DEF HeldFacts, Exact, Selling
  <2>6. ASSUME NEW t \in Symbols \ {s} PROVE HeldFacts(t)'
    <3> PICK d : d = positions[t].entry_order_id
      OBVIOUS
    <3>1. has(t) => BuyOf(t, d)
      BY DEF IInv, BookOK, SymbolOK
    <3>2. HeldFacts(t)
      BY DEF Facts, BookFacts
    <3>3. has(t) => d \in Done /\ d # e
      BY <1>1, <3>1, <3>2 DEF HeldFacts, BuyOf
    <3>4. has(t) => Steady(d)
      BY <2>2, <3>3
    <3> QED
      BY <1>3, <2>3, <3>2, <3>4, HeldKept
  <2>7. ASSUME NEW t \in Symbols PROVE EntryFacts(t)'
    <3> PICK d : d = pending_entries[t]
      OBVIOUS
    <3>1. d # 0 => BuyOf(t, d) /\ t # s
      BY <1>1 DEF IInv, BookOK, SymbolOK
    <3>2. d # 0 => d # e /\ d \in OrderIds
      BY <1>1, <3>1 DEF BuyOf
    <3>3. EntryFacts(t)
      BY DEF Facts, BookFacts
    <3>4. \A i \in SellOrders(d) : Same(i)
      BY <2>2 DEF SellOrders, Same
    <3>5. d # 0 => SellOrders(d)' = SellOrders(d) /\ orders'[d].status # "pending_cancel"
      BY <2>2, <3>2, <3>3 DEF EntryFacts, Asked
    <3> QED
      BY <1>3, <3>3, <3>4, <3>5, EntryKept
  <2>8. ASSUME NEW t \in trades PROVE TradeFacts(t)'
    <3> PICK d : d = t.entry_order_id
      OBVIOUS
    <3>1. d # e
      BY <1>1 DEF IInv, TradesOK, BuyOf
    <3>2. TradeFacts(t)
      BY DEF Facts, Recorded
    <3>3. Steady(d)
      BY <2>2, <3>1, <3>2 DEF TradeFacts
    <3> QED
      BY <3>2, <3>3, TradeKept
  <2> QED
    BY <1>3, <2>2, <2>5, <2>6, <2>7, <2>8 DEF Facts, BookFacts, Recorded
<1> QED
  BY <1>4, <1>5 DEF SubmitSell

----------------------------------------------------------------------------
(* The shares held                                                         *)

\* What a buy of s leaves in the account.
Left(s) == [e \in 1 .. MaxOrders |-> IF BuyOf(s, e) THEN orders[e].filled - Sold(e) ELSE 0]

\* While nobody else trades in it, the account holds what the buys left.
HoldOK == "outside_close" \notin Faults => \A s \in Symbols : holdings[s] = Total(Left(s))

SoldBy(e) == [i \in 1 .. MaxOrders |-> IF i \in SellOrders(e) THEN orders[i].filled ELSE 0]

LEMMA SoldType ==
  BrokerOK => \A e : /\ SoldBy(e) \in [1 .. MaxOrders -> Int]
                     /\ \A i \in 1 .. MaxOrders : SoldBy(e)[i] >= 0
                     /\ Sold(e) = SumOf(SoldBy(e)) /\ Sold(e) \in Int
<1> SUFFICES ASSUME BrokerOK, NEW e
             PROVE  /\ SoldBy(e) \in [1 .. MaxOrders -> Int]
                    /\ \A i \in 1 .. MaxOrders : SoldBy(e)[i] >= 0
                    /\ Sold(e) = SumOf(SoldBy(e)) /\ Sold(e) \in Int
    OBVIOUS
<1>1. \A i \in SellOrders(e) : orders[i].filled \in Nat
  BY ClaimType DEF SellOrders
<1>2. SoldBy(e) \in [1 .. MaxOrders -> Int] /\ \A i \in 1 .. MaxOrders : SoldBy(e)[i] >= 0
  BY <1>1 DEF SoldBy
<1>3. Sold(e) = SumOf(SoldBy(e))
  BY TotalIsSum DEF Sold, SoldBy
<1> QED
  BY <1>2, <1>3, SumType, Bounded

LEMMA SoldNext ==
  BrokerOK' =>
    (\A e : /\ SoldBy(e) \in [1 .. MaxOrders -> Int]
            /\ \A i \in 1 .. MaxOrders : SoldBy(e)[i] >= 0
            /\ Sold(e) = SumOf(SoldBy(e)) /\ Sold(e) \in Int)'
  BY SoldType, PTL

\* Nothing has been sold beyond what is claimed.
LEMMA SoldAtMost ==
  ASSUME BrokerOK, \A i \in OrderIds : OrderFacts(i), NEW e
  PROVE  Sold(e) <= Claimed(e)
<1>1. ASSUME NEW i \in SellOrders(e) PROVE orders[i].filled <= Claim(orders[i])
  <2>1. i \in OrderIds /\ orders[i].filled <= orders[i].qty /\ OrderFacts(i)
        /\ orders[i].filled \in Nat /\ orders[i].qty \in Nat
    BY ClaimType DEF BrokerOK, OrdersOK, SellOrders
  <2> QED
    BY <2>1 DEF Claim, OrderFacts
<1> DEFINE f == SoldBy(e)
           g == Claims(e)
<1>2. f \in [1 .. MaxOrders -> Int] /\ Sold(e) = SumOf(f)
  BY SoldType
<1>3. g \in [1 .. MaxOrders -> Int] /\ Claimed(e) = SumOf(g)
  BY ClaimsType
<1>4. \A i \in 1 .. MaxOrders : f[i] <= g[i]
  BY <1>1 DEF SoldBy, Claims
<1> HIDE DEF f, g
<1>5. SumOf(f) <= SumOf(g)
  BY <1>2, <1>3, <1>4, SumMonotone, Bounded
<1> QED
  BY <1>2, <1>3, <1>5

LEMMA LeftType ==
  Account /\ Within =>
    \A s : /\ Left(s) \in [1 .. MaxOrders -> Int]
           /\ \A e \in 1 .. MaxOrders : Left(s)[e] >= 0
<1> SUFFICES ASSUME Account, Within, NEW s, NEW e \in 1 .. MaxOrders
             PROVE  Left(s)[e] \in Int /\ Left(s)[e] >= 0
    BY DEF Left
<1>1. CASE ~BuyOf(s, e)
  BY <1>1 DEF Left
<1>2. CASE BuyOf(s, e)
  <2>1. e \in Buys /\ orders[e].filled \in Int /\ Sold(e) \in Int /\ Claimed(e) \in Int
    BY <1>2, ClaimType, SoldType, ClaimsType DEF BuyOf, Buys, Account
  <2>2. Sold(e) <= Claimed(e) /\ Claimed(e) <= orders[e].filled
    BY <2>1, SoldAtMost DEF Account, Within
  <2>3. Left(s)[e] = orders[e].filled - Sold(e)
    BY <1>2 DEF Left
  <2> QED
    BY <2>1, <2>2, <2>3
<1> QED
  BY <1>1, <1>2

LEMMA LeftNext ==
  Account' /\ Within' =>
    (\A s : /\ Left(s) \in [1 .. MaxOrders -> Int]
            /\ \A e \in 1 .. MaxOrders : Left(s)[e] >= 0)'
  BY LeftType, PTL

\* The account holds at least what one buy has left.
LEMMA HoldsLeft ==
  ASSUME Account, Within, HoldOK, "outside_close" \notin Faults,
         NEW s \in Symbols, NEW e, BuyOf(s, e)
  PROVE  holdings[s] >= orders[e].filled - Sold(e)
<1>1. e \in 1 .. MaxOrders
  BY IdsBounded DEF Account, BuyOf
<1> DEFINE f == Left(s)
<1>2. f \in [1 .. MaxOrders -> Int] /\ \A i \in 1 .. MaxOrders : f[i] >= 0
  BY LeftType
<1>3. f[e] = orders[e].filled - Sold(e)
  BY <1>1 DEF Left
<1>4. holdings[s] = SumOf(f)
  BY TotalIsSum DEF HoldOK
<1> HIDE DEF f
<1>5. SumOf(f) >= f[e]
  BY <1>1, <1>2, SumAtLeast, Bounded
<1> QED
  BY <1>3, <1>4, <1>5

LEMMA HeldCheckFacts ==
  ASSUME Tame, IInv, Facts, HoldOK, _held
  PROVE  Facts'
<1> PICK s, e, held : s = cur.sym /\ e = positions[s].entry_order_id /\ held = holdings[s]
  OBVIOUS
<1>1. /\ pc = "hold" /\ Selling /\ s \in Symbols /\ has(s) /\ SymbolOK(s) /\ cur \in Locals
      /\ BuyOf(s, e) /\ verify_holdings /\ held \in Int /\ cur.qty \in Int
      /\ positions[s].stop_order_id = 0 /\ positions[s].exit_pending /\ pending_exits[s] = 0
  <2>1. pc = "hold" /\ Selling
    BY DEF _held, Selling
  <2>2. s \in Symbols /\ has(s) /\ SymbolOK(s) /\ cur \in Locals
        /\ positions[s].stop_order_id = 0 /\ positions[s].exit_pending /\ pending_exits[s] = 0
    BY <2>1, SellingFacts
  <2>3. verify_holdings /\ held \in Int
    BY <2>1, <2>2 DEF IInv, ControlOK, TypeOK, BrokerTypeOK
  <2> QED
    BY <2>1, <2>2, <2>3 DEF SymbolOK, Locals
<1>2. /\ e \in Done /\ positions[s].qty = orders[e].filled /\ Over(e)
      /\ cur.qty + Claimed(e) <= orders[e].filled
      /\ Exact => cur.qty + Claimed(e) = orders[e].filled
      /\ "partial_fill" \notin Faults => Unclaimed(e)
  BY <1>1 DEF Facts, BookFacts, HeldFacts
<1>3. UNCHANGED << brokerVars, trades >>
  BY DEF _held
<1>4. Undisturbed /\ orders' = orders
  BY <1>3, KeptUndisturbed DEF Facts, brokerVars
<1>5. Claimed(e) \in Int /\ orders[e].filled \in Int
  BY <1>1, ClaimsType, ClaimType DEF Facts, Account, BuyOf
<1>6. Exact => held >= cur.qty
  <2>1. ASSUME Exact PROVE held >= orders[e].filled - Sold(e)
    BY <1>1, <2>1, HoldsLeft DEF Exact, Facts
  <2>2. Sold(e) = Claimed(e)
    BY <1>2, SoldIsClaimed DEF Facts
  <2> QED
    BY <1>1, <1>2, <1>5, <2>1, <2>2
<1>7. Recorded'
  BY <1>3, <1>4, RecordedKept
<1>8. CASE PopPosition(s) /\ Return
  <2>0. /\ positions' = [positions EXCEPT ![s] = NoPosition]
        /\ pending_entries' = pending_entries /\ pending_exits' = pending_exits
    BY <1>8 DEF PopPosition
  <2>1. /\ positions'[s] = NoPosition
        /\ \A t \in Symbols \ {s} : positions'[t] = positions[t]
                                    /\ pending_exits'[t] = pending_exits[t]
    BY <1>1, <2>0 DEF IInv, TypeOK, BookTypeOK
  <2>2. ~Selling' /\ ~Ending'
    BY <1>8 DEF Return, Selling, Ending
  <2>3. HeldFacts(s)'
    BY <2>1 DEF HeldFacts, has, NoPosition
  <2>4. ASSUME NEW t \in Symbols \ {s} PROVE HeldFacts(t)'
    BY <1>4, <2>1, <2>2, OthersKept
  <2>5. ASSUME NEW t \in Symbols PROVE EntryFacts(t)'
    BY <1>4, <2>0, <2>2, EntriesKept DEF Asked
  <2> QED
    BY <1>4, <1>7, <2>3, <2>4, <2>5 DEF Facts, BookFacts, Undisturbed
<1>9. CASE /\ cur' = [cur EXCEPT !.qty = IF held < @ THEN held ELSE @]
           /\ pc' = "submit" /\ UNCHANGED bookVars
  <2> PICK q : q = IF held < cur.qty THEN held ELSE cur.qty
    OBVIOUS
  <2>1. cur'.sym = s /\ cur'.qty = q /\ ~Ending'
    BY <1>1, <1>9 DEF Locals, Ending
  <2>2. q + Claimed(e) <= orders[e].filled /\ (Exact => q + Claimed(e) = orders[e].filled)
    <3>1. q <= cur.qty /\ q \in Int /\ (Exact => q = cur.qty)
      BY <1>1, <1>6
    <3> QED
      BY <1>1, <1>2, <1>5, <3>1
  <2>3. Steady(e) /\ Claimed(e)' = Claimed(e) /\ Over(e)' /\ e \in Done'
        /\ ("partial_fill" \notin Faults => Unclaimed(e)')
    <3>1. Steady(e)
      BY <1>2, <1>4 DEF Undisturbed
    <3>2. SellOrders(e)' = SellOrders(e) /\ e \in Done'
      BY <1>2, <1>4 DEF SellOrders, OrderIds, Done, Buys
    <3>3. Claimed(e)' = Claimed(e)
      BY <1>2, <3>1, SteadySame DEF Over
    <3> QED
      BY <1>2, <1>4, <3>1, <3>2, <3>3 DEF Over, Unclaimed
  <2>4. /\ positions' = positions /\ pending_exits' = pending_exits
        /\ pending_entries' = pending_entries
    BY <1>9 DEF bookVars
  <2>5. HeldFacts(s)'
    BY <1>1, <1>2, <1>4, <1>9, <2>1, <2>2, <2>3, <2>4 DEF HeldFacts, Exact
  <2>6. ASSUME NEW t \in Symbols \ {s} PROVE HeldFacts(t)'
    BY <1>4, <2>1, <2>4, OthersKept
  <2>7. ASSUME NEW t \in Symbols PROVE EntryFacts(t)'
    BY <1>4, <2>1, <2>4, EntriesKept DEF Asked
  <2> QED
    BY <1>4, <1>7, <2>5, <2>6, <2>7 DEF Facts, BookFacts, Undisturbed
<1> QED
  BY <1>8, <1>9 DEF _held, Tame

\* No order fills, and no new one has filled.
NothingFills ==
  /\ holdings' = holdings /\ OrderIds \subseteq OrderIds'
  /\ \A i \in OrderIds : Same(i) /\ orders'[i].filled = orders[i].filled
  /\ \A i \in OrderIds' \ OrderIds : orders'[i].filled = 0

\* Only buys that were sent have sells.
LEMMA NoSells ==
  ASSUME Account, NEW e, e \notin OrderIds
  PROVE  SellOrders(e) = {}
<1>1. ASSUME NEW i \in SellOrders(e) PROVE FALSE
  <2>1. OrderFacts(i) /\ orders[i].kind # "buy" /\ orders[i].entry = e
    BY DEF Account, SellOrders
  <2> QED
    BY <2>1 DEF OrderFacts, Buys
<1> QED
  BY <1>1

LEMMA HoldKeeps ==
  ASSUME Account, Account', NothingFills, HoldOK
  PROVE  HoldOK'
<1> SUFFICES ASSUME "outside_close" \notin Faults, NEW s \in Symbols
             PROVE  holdings'[s] = Total(Left(s))'
    BY DEF HoldOK
<1>1. ASSUME NEW e PROVE SoldBy(e)' = SoldBy(e)
  <2>1. ASSUME NEW i \in OrderIds PROVE i \in SellOrders(e)' <=> i \in SellOrders(e)
    BY DEF SellOrders, NothingFills, Same
  <2>2. ASSUME NEW i \in 1 .. MaxOrders
        PROVE  (IF i \in SellOrders(e)' THEN orders'[i].filled ELSE 0)
                 = IF i \in SellOrders(e) THEN orders[i].filled ELSE 0
    <3>1. CASE i \in OrderIds
      BY <2>1, <3>1 DEF NothingFills
    <3>2. CASE i \notin OrderIds
      <4>1. i \notin SellOrders(e)
        BY <3>2 DEF SellOrders
      <4>2. i \in SellOrders(e)' => orders'[i].filled = 0
        BY <3>2 DEF SellOrders, NothingFills
      <4> QED
        BY <4>1, <4>2
    <3> QED
      BY <3>1, <3>2
  <2> QED
    BY <2>2 DEF SoldBy
<1>2. ASSUME NEW e PROVE Sold(e)' = Sold(e) /\ Sold(e) = SumOf(SoldBy(e))
  BY <1>1, SoldType, SoldNext DEF Account
<1>3. ASSUME NEW e \in 1 .. MaxOrders
      PROVE  (IF BuyOf(s, e)' THEN orders'[e].filled - Sold(e)' ELSE 0)
               = IF BuyOf(s, e) THEN orders[e].filled - Sold(e) ELSE 0
  <2>1. CASE e \in OrderIds
    BY <1>2, <2>1 DEF NothingFills, BuyOf, Same
  <2>2. CASE e \notin OrderIds
    <3>1. SoldBy(e) = [i \in 1 .. MaxOrders |-> 0] /\ DOMAIN SoldBy(e) = 1 .. MaxOrders
      BY <2>2, NoSells DEF SoldBy
    <3>2. Sold(e)' = 0
      BY <1>2, <3>1, SumOfZeros, Bounded
    <3>3. BuyOf(s, e)' => orders'[e].filled = 0
      BY <2>2 DEF NothingFills, BuyOf
    <3> QED
      BY <2>2, <3>2, <3>3 DEF BuyOf
  <2> QED
    BY <2>1, <2>2
<1>4. Left(s)' = Left(s)
  BY <1>3 DEF Left
<1>5. Total(Left(s))' = Total(Left(s))
  BY <1>4, TotalIsSum
<1> QED
  BY <1>5 DEF HoldOK, NothingFills

LEMMA FillHolds ==
  ASSUME Account, Within, Account', Within', HoldOK, "outside_close" \notin Faults,
         NEW i \in OrderIds, NEW k, Fill(i, k), NEW s \in Symbols
  PROVE  holdings'[s] = Total(Left(s))'
<1> PICK o : o = orders[i]
  OBVIOUS
<1> PICK b : b = IF o.kind = "buy" THEN i ELSE o.entry
  OBVIOUS
<1> DEFINE sells(e) == o.kind # "buy" /\ e = b
           mine == s = o.sym
<1>1. /\ OrderIds' = OrderIds /\ \A j \in OrderIds : Same(j)
      /\ k \in Nat /\ orders'[i].filled = o.filled + k
      /\ \A j \in OrderIds \ {i} : orders'[j].filled = orders[j].filled
  BY FillFields DEF Account
<1>2. /\ holdings' = [holdings EXCEPT ![o.sym] = IF o.kind = "buy" THEN @ + k ELSE @ - k]
      /\ holdings \in [Symbols -> Int] /\ o \in Order
  BY OrderType DEF Fill, Account, BrokerOK, BrokerTypeOK
<1>3. BuyOf(o.sym, b) /\ b \in 1 .. MaxOrders /\ i \in 1 .. MaxOrders
  <2>1. OrderFacts(i)
    BY DEF Account
  <2>2. BuyOf(o.sym, b)
    BY <2>1 DEF OrderFacts, Buys, BuyOf
  <2> QED
    BY <2>2, IdsBounded DEF Account, BuyOf
<1>4. \A e : SellOrders(e)' = SellOrders(e)
  BY <1>1, SameSells
<1>5. \A e : i \in SellOrders(e) <=> sells(e)
  BY DEF SellOrders
<1>6. ASSUME NEW e PROVE Sold(e)' = IF sells(e) THEN Sold(e) + k ELSE Sold(e)
  <2> DEFINE f == SoldBy(e)
             g == SoldBy(e)'
  <2>1. f \in [1 .. MaxOrders -> Int] /\ Sold(e) = SumOf(f) /\ Sold(e) \in Int
    BY SoldType DEF Account
  <2>2. g \in [1 .. MaxOrders -> Int] /\ Sold(e)' = SumOf(g)
    BY SoldNext DEF Account
  <2>3. \A j \in (1 .. MaxOrders) \ {i} : g[j] = f[j]
    BY <1>1, <1>4 DEF SoldBy, SellOrders
  <2>4. g[i] = IF sells(e) THEN f[i] + k ELSE f[i]
    <3>1. f[i] = IF sells(e) THEN o.filled ELSE 0
      BY <1>3, <1>5 DEF SoldBy
    <3>2. g[i] = IF sells(e) THEN o.filled + k ELSE 0
      BY <1>1, <1>3, <1>4, <1>5 DEF SoldBy
    <3> QED
      BY <3>1, <3>2
  <2> HIDE DEF f, g, sells
  <2>5. SumOf(g) = SumOf(f) + g[i] - f[i] /\ f[i] \in Int
    BY <1>3, <2>1, <2>2, <2>3, OneChanges, Zenon
  <2>6. CASE sells(e)
    BY <1>1, <2>1, <2>2, <2>4, <2>5, <2>6
  <2>7. CASE ~sells(e)
    BY <1>1, <2>1, <2>2, <2>4, <2>5, <2>7
  <2> QED
    BY <2>6, <2>7
<1>7. holdings'[s] = IF mine THEN IF o.kind = "buy" THEN holdings[s] + k ELSE holdings[s] - k
                             ELSE holdings[s]
  BY <1>2
<1> DEFINE f == Left(s)
           g == Left(s)'
<1>8. f \in [1 .. MaxOrders -> Int] /\ holdings[s] = SumOf(f)
  BY LeftType, TotalIsSum DEF HoldOK
<1>9. g \in [1 .. MaxOrders -> Int] /\ Total(Left(s))' = SumOf(g)
  BY LeftNext, TotalIsSum
<1>10. \A e \in 1 .. MaxOrders : BuyOf(s, e)' <=> BuyOf(s, e)
  BY <1>1 DEF BuyOf, Same
<1>11. ASSUME NEW e \in (1 .. MaxOrders) \ {b} PROVE g[e] = f[e]
  <2>1. BuyOf(s, e) => e # i /\ e \in OrderIds
    BY <1>11 DEF BuyOf
  <2>2. BuyOf(s, e) => orders'[e].filled = orders[e].filled
    BY <1>1, <2>1
  <2>3. Sold(e)' = Sold(e)
    BY <1>6, <1>11
  <2> QED
    BY <1>10, <2>2, <2>3 DEF Left
<1>12. g[b] = IF mine THEN IF o.kind = "buy" THEN f[b] + k ELSE f[b] - k ELSE f[b]
  <2>1. BuyOf(s, b) <=> mine
    BY <1>3 DEF BuyOf
  <2>2. orders[b].filled \in Int /\ Sold(b) \in Int
    BY <1>3, ClaimType, SoldType DEF Account, BuyOf
  <2>3. f[b] = IF mine THEN orders[b].filled - Sold(b) ELSE 0
    BY <1>3, <2>1 DEF Left
  <2>4. g[b] = IF mine THEN orders'[b].filled - Sold(b)' ELSE 0
    BY <1>3, <1>10, <2>1 DEF Left
  <2>5. CASE o.kind = "buy"
    <3>1. orders'[b].filled = orders[b].filled + k /\ Sold(b)' = Sold(b)
      BY <1>1, <1>6, <2>5
    <3> QED
      BY <1>1, <2>2, <2>3, <2>4, <2>5, <3>1
  <2>6. CASE o.kind # "buy"
    <3>1. orders'[b].filled = orders[b].filled /\ Sold(b)' = Sold(b) + k
      BY <1>1, <1>3, <1>6, <2>6 DEF BuyOf
    <3> QED
      BY <1>1, <2>2, <2>3, <2>4, <2>6, <3>1
  <2> QED
    BY <2>5, <2>6
<1> HIDE DEF f, g, mine
<1>13. SumOf(g) = SumOf(f) + g[b] - f[b] /\ SumOf(f) \in Int /\ f[b] \in Int
  <2>1. f \in [1 .. MaxOrders -> Int] /\ g \in [1 .. MaxOrders -> Int] /\ b \in 1 .. MaxOrders
    BY <1>3, <1>8, <1>9
  <2>2. \A e \in (1 .. MaxOrders) \ {b} : g[e] = f[e]
    BY <1>11
  <2>3. SumOf(g) = SumOf(f) + g[b] - f[b]
    BY <2>1, <2>2, OneChanges, Zenon
  <2>4. SumOf(f) \in Int
    BY <2>1, SumType, Bounded
  <2> QED
    BY <2>1, <2>3, <2>4
<1>14. CASE ~mine
  BY <1>7, <1>8, <1>9, <1>12, <1>13, <1>14
<1>15. CASE mine /\ o.kind = "buy"
  BY <1>1, <1>7, <1>8, <1>9, <1>12, <1>13, <1>15
<1>16. CASE mine /\ o.kind # "buy"
  BY <1>1, <1>7, <1>8, <1>9, <1>12, <1>13, <1>16
<1> QED
  BY <1>14, <1>15, <1>16

LEMMA SellFillsNothing ==
  ASSUME BrokerOK, NEW s \in Symbols, NEW q \in Nat, NEW e \in Nat,
         submit_market_sell(s, q, e), UNCHANGED holdings
  PROVE  NothingFills
<1> DEFINE n == Len(orders)
           sell == [sym |-> s, kind |-> "sell", status |-> "new", qty |-> q,
                    filled |-> 0, entry |-> e, leg |-> 0]
           one == Append(orders, sell)
<1>1. orders \in Seq(Order) /\ n \in Nat
  BY LenProperties DEF BrokerOK, BrokerTypeOK
<1>2. sell \in Order
  BY DEF Order, Status
<1>3. /\ one \in Seq(Order) /\ Len(one) = n + 1
      /\ \A j \in 1 .. n : one[j] = orders[j]
      /\ one[n + 1] = sell
  BY <1>1, <1>2
<1>4. orders' = one
  BY DEF submit_market_sell
<1>5. sell.filled = 0
  OBVIOUS
<1> HIDE DEF sell, one
<1> QED
  BY <1>1, <1>3, <1>4, <1>5 DEF NothingFills, OrderIds, Same

LEMMA BotFillsNothing ==
  ASSUME IInv, Facts, Bot
  PROVE  NothingFills
<1>1. BrokerOK
  BY DEF Facts, Account
<1>2. ASSUME UNCHANGED brokerVars PROVE NothingFills
  BY <1>2 DEF brokerVars, NothingFills, Same, OrderIds
<1>3. ASSUME NEW i \in OrderIds, cancel(i), UNCHANGED holdings PROVE NothingFills
  BY <1>1, <1>3, CancelFields DEF NothingFills
<1>4. ASSUME NEW s \in Symbols, _buy(s) PROVE NothingFills
  <2>1. PICK q \in Quantities, w \in BOOLEAN : Room(3) /\ submit_limit_buy(s, q, w)
    BY <1>4 DEF _buy
  <2>2. PICK x \in Nat : x = Len(orders) + 1
    BY <1>1, IdsBounded
  <2>3. UNCHANGED holdings
    BY <1>4 DEF _buy
  <2>4. /\ Undisturbed /\ \A j \in OrderIds : orders'[j] = orders[j]
        /\ \A j \in OrderIds' \ OrderIds : orders'[j].filled = 0
    BY <2>1, <2>2, <2>3, BuyUndisturbed DEF Facts
  <2> QED
    BY <2>3, <2>4 DEF NothingFills, Undisturbed, Same
<1>5. ASSUME NEW s \in Symbols, NEW fl, BeginSell(s, fl) PROVE NothingFills
  <2> PICK i : i = positions[s].stop_order_id
    OBVIOUS
  <2>1. i # 0 => i \in OrderIds
    BY <1>5 DEF BeginSell, IInv, BookOK, SymbolOK, ClosesEntry
  <2>2. UNCHANGED holdings /\ (orders' = orders \/ (i # 0 /\ cancel(i)))
    BY <1>5 DEF BeginSell
  <2> QED
    BY <1>2, <1>3, <2>1, <2>2 DEF brokerVars
<1>6. ASSUME NEW s \in Symbols, pending_entries[s] # 0,
             cancel(pending_entries[s]) \/ UNCHANGED orders, UNCHANGED holdings
      PROVE  NothingFills
  <2> PICK i : i = pending_entries[s]
    OBVIOUS
  <2>1. i \in OrderIds
    BY <1>6 DEF IInv, BookOK, SymbolOK, BuyOf
  <2> QED
    BY <1>2, <1>3, <1>6, <2>1 DEF brokerVars
<1>7. CASE CancelOneEntry \/ CancelTimedOut
  BY <1>2, <1>6, <1>7
     DEF CancelOneEntry, CancelTimedOut, IInv, ControlOK, Entering, brokerVars
<1>8. CASE SubmitSell
  <2> PICK s, e, q : s = cur.sym /\ e = positions[s].entry_order_id /\ q = cur.qty
    OBVIOUS
  <2>1. Selling
    BY <1>8 DEF SubmitSell, Selling
  <2>2. s \in Symbols /\ e \in Nat /\ q \in Int
    BY <2>1, SellingFacts DEF Position, Locals
  <2>3. UNCHANGED holdings /\ (orders' = orders \/ (q > 0 /\ submit_market_sell(s, q, e)))
    BY <1>8 DEF SubmitSell
  <2> QED
    BY <1>1, <1>2, <2>2, <2>3, SellFillsNothing DEF brokerVars
<1>9. CASE \E s \in Symbols : PollEntry(s) \/ EntryTimesOut(s) \/ PollExit(s) \/ PollStop(s)
  BY <1>2, <1>9 DEF PollEntry, EntryTimesOut, PollExit, PollStop
<1>10. CASE _settle_stop \/ _held
  BY <1>2, <1>10 DEF _settle_stop, AfterSettle, _held
<1>11. CASE \/ flatten_all \/ cancel_pending_entries \/ PollStart \/ PollExits \/ PollStops
            \/ PollReturns \/ PollRaises
  BY <1>2, <1>11 DEF flatten_all, cancel_pending_entries, PollStart, PollExits, PollStops,
     PollReturns, PollRaises
<1>12. CASE FlattenOne
  BY <1>2, <1>5, <1>12 DEF FlattenOne, IInv, TypeOK
<1>13. CASE \E s \in Symbols : _sell(s)
  BY <1>5, <1>13 DEF _sell
<1> QED
  BY <1>4, <1>7, <1>8, <1>9, <1>10, <1>11, <1>12, <1>13 DEF Bot

LEMMA HoldStep ==
  ASSUME Tame, IInv, Facts, Facts', HoldOK, [Next]_vars
  PROVE  HoldOK'
<1>1. CASE NothingFills
  BY <1>1, HoldKeeps DEF Facts
<1>2. CASE Bot
  BY <1>1, <1>2, BotFillsNothing
<1>3. CASE \E i \in OrderIds : VenueFills(i)
  <2>1. PICK i \in OrderIds : VenueFills(i)
    BY <1>3
  <2>2. PICK k : Fill(i, k)
    BY <2>1 DEF VenueFills
  <2> QED
    BY <2>2, FillHolds DEF HoldOK, Facts
<1>4. CASE \E i \in OrderIds : VenueEnds(i)
  <2>1. PICK i \in OrderIds : End(i)
    BY <1>4 DEF VenueEnds
  <2>2. UNCHANGED holdings
    BY <2>1 DEF End
  <2>3. NothingFills
    BY <2>1, <2>2, EndFields DEF NothingFills, Facts, Account
  <2> QED
    BY <1>1, <2>3
<1>5. CASE \E s \in Symbols : OwnerCloses(s)
  BY <1>5 DEF OwnerCloses, HoldOK
<1>6. CASE UNCHANGED vars
  <2>1. NothingFills
    BY <1>6 DEF vars, brokerVars, NothingFills, Same, OrderIds
  <2> QED
    BY <1>1, <2>1
<1> QED
  BY <1>2, <1>3, <1>4, <1>5, <1>6 DEF Next, Venue

----------------------------------------------------------------------------
(* The invariant and the theorems                                          *)

FInv == IInv /\ PartRead /\ Facts /\ HoldOK

LEMMA FactsStart == Init => PartRead /\ Facts /\ HoldOK
<1> SUFFICES ASSUME Init PROVE PartRead /\ Facts /\ HoldOK
    OBVIOUS
<1>1. OrderIds = {} /\ BrokerOK /\ trades = {} /\ pc = "idle"
  BY InitOK DEF Init, BrokerInit, OrderIds, BrokerOK, IInv, TypeOK
<1>2. Account /\ Within
  BY <1>1 DEF Account, Within, Buys
<1>3. BookFacts /\ Recorded /\ PartRead
  BY <1>1 DEF Init, BookInit, BookFacts, HeldFacts, EntryFacts, has, NoPosition, Recorded, PartRead
<1>4. ASSUME NEW s \in Symbols PROVE holdings[s] = Total(Left(s))
  <2>1. Left(s) = [e \in 1 .. MaxOrders |-> 0] /\ DOMAIN Left(s) = 1 .. MaxOrders
    BY <1>1 DEF Left, BuyOf
  <2>2. Total(Left(s)) = 0
    BY <2>1, TotalIsSum, SumOfZeros, Bounded
  <2> QED
    BY <2>2 DEF Init, BrokerInit
<1> QED
  BY <1>2, <1>3, <1>4 DEF Facts, HoldOK

LEMMA FactsKeep ==
  ASSUME Tame, FInv, [Next]_vars
  PROVE  Facts'
<1> USE DEF FInv
<1>1. CASE \E s \in Symbols : _buy(s) \/ PollEntry(s) \/ EntryTimesOut(s)
  BY <1>1, BuyFacts, PollEntryFacts, TimesOutFacts
<1>2. CASE \E s \in Symbols : PollExit(s) \/ PollStop(s)
  BY <1>2, PollExitFacts, PollStopFacts
<1>3. CASE \E s \in Symbols : _sell(s)
  BY <1>3, BeginSellFacts DEF _sell
<1>4. CASE _settle_stop \/ _held \/ SubmitSell
  BY <1>4, SettleFacts, HeldCheckFacts, SubmitFacts
<1>5. CASE FlattenOne \/ CancelOneEntry \/ CancelTimedOut
  BY <1>5, FlattenFacts, CancelEntriesFacts, CancelTimedOutFacts
<1>6. CASE \/ flatten_all \/ cancel_pending_entries \/ PollStart \/ PollExits \/ PollStops
           \/ PollReturns \/ UNCHANGED vars
  BY <1>6, LoopFacts
<1>7. ~PollRaises
  BY DEF PollRaises, Tame
<1>8. CASE Venue
  BY <1>8, VenueFacts
<1> QED
  BY <1>1, <1>2, <1>3, <1>4, <1>5, <1>6, <1>7, <1>8 DEF Next, Bot

LEMMA FactsHold ==
  ASSUME Tame
  PROVE  Spec => []FInv
<1>1. Init => FInv
  BY InitOK, FactsStart DEF FInv
<1>2. FInv /\ [Next]_vars => FInv'
  <2> SUFFICES ASSUME FInv, [Next]_vars PROVE FInv'
      OBVIOUS
  <2>1. IInv' /\ PartRead'
    BY StepOK, PartReadKeeps DEF FInv, Tame
  <2>2. Facts'
    BY FactsKeep
  <2>3. HoldOK'
    BY <2>2, HoldStep DEF FInv
  <2> QED
    BY <2>1, <2>2, <2>3 DEF FInv
<1> QED
  BY <1>1, <1>2, PTL DEF Spec

\* _sell, _settle_stop, poll: while the surroundings are tame, the stop and the sells
\* of the bot together never sell more than the buy they close has filled.
THEOREM NothingSoldTwice ==
  ASSUME Tame
  PROVE  Spec => []SoldWithinBought
<1>1. FInv => SoldWithinBought
  <2> SUFFICES ASSUME FInv, NEW e \in OrderIds, orders[e].kind = "buy"
               PROVE  Sold(e) <= orders[e].filled
      BY DEF SoldWithinBought
  <2>1. Account /\ Within /\ e \in Buys
    BY DEF FInv, Facts, Buys
  <2>2. Sold(e) <= Claimed(e) /\ Claimed(e) <= orders[e].filled
    BY <2>1, SoldAtMost DEF Account, Within
  <2>3. Sold(e) \in Int /\ Claimed(e) \in Int /\ orders[e].filled \in Int
    BY <2>1, SoldType, ClaimsType, ClaimType DEF Account
  <2> QED
    BY <2>2, <2>3
<1> QED
  BY <1>1, FactsHold, PTL

\* book.close: while the surroundings are tame and no holding check finds a position
\* that its owner closed, the size of each trade is what its buy's sells have sold.
THEOREM TradesAreTrue ==
  ASSUME Tame, Exact
  PROVE  Spec => []TradeMatchesFills
<1>1. FInv => TradeMatchesFills
  BY DEF FInv, Facts, Recorded, TradeFacts, IInv, TradesOK, TradeMatchesFills
<1> QED
  BY <1>1, FactsHold, PTL
=============================================================================
