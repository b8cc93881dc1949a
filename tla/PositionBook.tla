---------------------------- MODULE PositionBook ----------------------------
(***************************************************************************)
(* execution/position_book.py: one slot's memory of what it holds and what *)
(* is in flight.  A dictionary of the code is a total function here; an    *)
(* absent key is NoPosition (a held position has at least one share) or    *)
(* order id 0.                                                             *)
(***************************************************************************)
EXTENDS Broker

VARIABLES
  positions,        \* symbol -> Position
  pending_entries,  \* symbol -> id of the buy in flight
  pending_exits,    \* symbol -> id of the market sell in flight
  entries_today     \* symbol -> positions opened today

bookVars == << positions, pending_entries, pending_exits, entries_today >>

\* qty and stop_order_id, exit_pending and entry_order_id of models.Position;
\* its prices do not steer the book.
Position == [qty : Nat, stop_order_id : Nat, exit_pending : BOOLEAN,
             entry_order_id : Nat]

NoPosition == [qty |-> 0, stop_order_id |-> 0, exit_pending |-> FALSE,
               entry_order_id |-> 0]

has(s) == positions[s].qty > 0
Held == {s \in Symbols : has(s)}
Entering == {s \in Symbols : pending_entries[s] # 0}
Exiting == {s \in Symbols : pending_exits[s] # 0}

\* Mutant: buys in flight take no slot.
SlotOpen_HeldOnly(max_positions) == Cardinality(Held) < max_positions

\* open_slots(max_positions) > 0
SlotOpen(max_positions) ==
  Cardinality(Held) + Cardinality(Entering) < max_positions

BookTypeOK ==
  /\ positions \in [Symbols -> Position]
  /\ pending_entries \in [Symbols -> Nat]
  /\ pending_exits \in [Symbols -> Nat]
  /\ entries_today \in [Symbols -> Nat]

BookInit ==
  /\ positions = [s \in Symbols |-> NoPosition]
  /\ pending_entries = [s \in Symbols |-> 0]
  /\ pending_exits = [s \in Symbols |-> 0]
  /\ entries_today = [s \in Symbols |-> 0]

\* Mutant: the buy stays pending.
open_KeepsEntry(s, pos) ==
  /\ positions' = [positions EXCEPT ![s] = pos]
  /\ entries_today' = [entries_today EXCEPT ![s] = @ + 1]
  /\ UNCHANGED << pending_entries, pending_exits >>

\* open(pos)
open(s, pos) ==
  /\ positions' = [positions EXCEPT ![s] = pos]
  /\ pending_entries' = [pending_entries EXCEPT ![s] = 0]
  /\ entries_today' = [entries_today EXCEPT ![s] = @ + 1]
  /\ UNCHANGED pending_exits

\* Mutant: the exit stays pending.
close_KeepsExit(s) ==
  /\ positions' = [positions EXCEPT ![s] = NoPosition]
  /\ UNCHANGED << pending_entries, pending_exits, entries_today >>

\* close(symbol, ...); the Trade it returns is TradeOf(s, i), i the exit order.
\* positions.pop raises on an absent key: here that shows as a trade of no shares.
close(s) ==
  /\ positions' = [positions EXCEPT ![s] = NoPosition]
  /\ pending_exits' = [pending_exits EXCEPT ![s] = 0]
  /\ UNCHANGED << pending_entries, entries_today >>

TradeOf(s, i) == [sym |-> s, qty |-> positions[s].qty, exit_order_id |-> i,
                  entry_order_id |-> positions[s].entry_order_id]

\* Mutant: the pop is missing.
PopEntry_Missing(s) == s \in Symbols /\ UNCHANGED bookVars

\* pending_entries.pop(symbol)
PopEntry(s) ==
  /\ pending_entries' = [pending_entries EXCEPT ![s] = 0]
  /\ UNCHANGED << positions, pending_exits, entries_today >>

\* positions.pop(symbol) with no trade.
PopPosition(s) ==
  /\ positions' = [positions EXCEPT ![s] = NoPosition]
  /\ UNCHANGED << pending_entries, pending_exits, entries_today >>
=============================================================================
