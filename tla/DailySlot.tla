------------------------------ MODULE DailySlot ------------------------------
(***************************************************************************)
(* portfolio/daily_slot.py and its hooks in runner.py: a portfolio that is *)
(* rebalanced once a day and held overnight, across the processes of the   *)
(* days and their restarts.                                                *)
(*                                                                         *)
(* A share costs 1 at any time, so that cash and shares can be compared:   *)
(* what is out of balance here is out of balance at any price.  Each       *)
(* statement on the database is committed on its own.                      *)
(***************************************************************************)
EXTENDS Integers

CONSTANTS
  Symbols,
  Quantities, \* target quantities, in shares: negative for a short
  DeadBand,   \* dead_band_pct of the capital, in shares
  MaxDays,    \* bound: days of a behaviour
  MaxStarts   \* bound: processes of a behaviour, with its decisions that trade on a
              \* panel without a bar of the day

ASSUME QuantitiesAssumption == Quantities \subseteq Int /\ 0 \in Quantities
ASSUME BoundsAssumption == DeadBand \in Nat /\ MaxDays \in Nat \ {0} /\ MaxStarts \in Nat

VARIABLES
  day,
  stage,        \* where the process is
  positions,    \* symbol -> shares held, 0 for none
  paid,         \* symbol -> shares paid for: cash is the capital less their sum
  decided_on,   \* day of the last decision, 0 for none
  trades_today, \* symbol -> trades booked by this process
  today,        \* the day the decision in progress is for
  want, todo,   \* its targets, and the symbols it has still to come to
  rows,         \* positions table: symbol -> shares, 0 for no row
  state,        \* state table: the cash and the day of the last decision
  trades,       \* trades table: symbol -> day -> trades booked
  ledger,       \* ledger table: day -> its row, if any: symbol -> trades
  starts,
  dirty,        \* history: part of a decision is in the database, not all
  torn,         \* history: a process ended so
  undated       \* history: decisions with prices, dated before their day

memory == << positions, paid, decided_on, trades_today >>
decision == << today, want, todo >>
history == << dirty, torn, undated >>
vars == << day, stage, positions, paid, decided_on, trades_today, today, want, todo,
           rows, state, trades, ledger, starts, dirty, torn, undated >>

Days == 1 .. MaxDays
Nothing == [s \in Symbols |-> 0]

NoDecision == today' = 0 /\ want' = Nothing /\ todo' = {}

Init ==
  /\ day = 1 /\ stage = "down"
  /\ positions = Nothing /\ paid = Nothing /\ decided_on = 0 /\ trades_today = Nothing
  /\ today = 0 /\ want = Nothing /\ todo = {}
  /\ rows = Nothing /\ state = [paid |-> Nothing, decided_on |-> 0]
  /\ trades = [s \in Symbols |-> [d \in Days |-> 0]]
  /\ ledger = [d \in Days |-> {}]
  /\ starts = 0 /\ dirty = FALSE /\ torn = FALSE /\ undated = 0

----------------------------------------------------------------------------
(* Start                                                                   *)

\* Mutant: only the cash is resumed.
Resumed_CashOnly == /\ paid' = state.paid
                    /\ decided_on' = 0

Resumed == /\ paid' = state.paid
           /\ decided_on' = state.decided_on

load ==
  /\ stage = "down" /\ starts + undated < MaxStarts
  /\ starts' = starts + 1
  /\ positions' = rows /\ Resumed /\ trades_today' = Nothing
  /\ stage' = "up"
  /\ UNCHANGED << day, decision, rows, state, trades, ledger, history >>

----------------------------------------------------------------------------
(* The decision of the day                                                 *)

\* Mutant: every tick past the time of decision decides.
Due_Always == stage = "up"

Due == stage = "up" /\ decided_on # day

\* The day is given up, in memory alone: no prices, no history, no universe.
skip ==
  /\ Due
  /\ decided_on' = day
  /\ UNCHANGED << day, stage, positions, paid, trades_today, decision, rows, state, trades,
                  ledger, starts, history >>

\* A symbol without a price is left alone.  If no snapshot has a bar of today,
\* the last row of the panel is of an earlier day, and so is the decision.
decide ==
  /\ Due
  /\ \E targets \in [Symbols -> Quantities], priced \in SUBSET Symbols :
       /\ want' = targets /\ todo' = priced
       /\ \/ today' = day /\ undated' = undated
          \/ today' = day - 1 /\ priced = {} /\ undated' = undated
          \/ /\ today' = day - 1 /\ priced # {}
             /\ starts + undated < MaxStarts /\ undated' = undated + 1
  /\ stage' = "rebalance"
  /\ UNCHANGED << day, memory, rows, state, trades, ledger, starts, dirty, torn >>

SameSide(a, b) == (a > 0 /\ b > 0) \/ (a < 0 /\ b < 0)
Distance(a, b) == IF a > b THEN a - b ELSE b - a

\* What rebalance leaves as it is: nothing to do, or too little.
LeftAlone(cur, target) ==
  \/ cur = target
  \/ SameSide(cur, target) /\ Distance(cur, target) < DeadBand

Ends(cur, target) == cur # 0 /\ ~SameSide(cur, target)

\* Mutant: a flip opens the order's quantity on the other side.
Executed_FlipByDelta(cur, target) == IF cur * target < 0 THEN target - cur ELSE target

\* The position after _execute: the trade of a position that ends is booked,
\* and a flip opens what is left of the order on the other side.
Executed(cur, target) == target

_execute(s) ==
  /\ stage = "rebalance" /\ s \in todo
  /\ LET cur == positions[s]
     IN  /\ ~LeftAlone(cur, want[s])
         /\ paid' = [paid EXCEPT ![s] = @ + (want[s] - cur)]
         /\ positions' = [positions EXCEPT ![s] = Executed(cur, want[s])]
         /\ IF Ends(cur, want[s])
            THEN /\ trades_today' = [trades_today EXCEPT ![s] = @ + 1]
                 /\ trades' = [trades EXCEPT ![s][day] = @ + 1]
                 /\ dirty' = TRUE
            ELSE UNCHANGED << trades_today, trades, dirty >>
  /\ todo' = todo \ {s}
  /\ UNCHANGED << day, stage, decided_on, today, want, rows, state, ledger, starts, torn, undated >>

LeaveAlone(s) ==
  /\ stage = "rebalance" /\ s \in todo
  /\ LeftAlone(positions[s], want[s])
  /\ todo' = todo \ {s}
  /\ UNCHANGED << day, stage, memory, today, want, rows, state, trades, ledger, starts, history >>

Failed ==
  /\ stage' = "up" /\ decided_on' = day
  /\ NoDecision
  /\ UNCHANGED << day, positions, rows, state, trades, ledger, starts, history >>

\* The trade cannot be inserted: the cash has moved, the position has not.
TradeFails(s) ==
  /\ stage = "rebalance" /\ s \in todo
  /\ Ends(positions[s], want[s])
  /\ paid' = [paid EXCEPT ![s] = @ + (want[s] - positions[s])]
  /\ trades_today' = [trades_today EXCEPT ![s] = @ + 1]
  /\ Failed

Rebalanced ==
  /\ stage = "rebalance" /\ todo = {}
  /\ decided_on' = today /\ NoDecision
  /\ stage' = "clear"
  /\ UNCHANGED << day, positions, paid, trades_today, rows, state, trades, ledger,
                  starts, history >>

----------------------------------------------------------------------------
(* _save                                                                   *)

ClearRows ==
  /\ stage = "clear"
  /\ rows' = Nothing /\ dirty' = TRUE
  /\ stage' = "rows"
  /\ UNCHANGED << day, memory, decision, state, trades, ledger, starts, torn, undated >>

WriteRow(s) ==
  /\ stage = "rows" /\ rows[s] # positions[s]
  /\ rows' = [rows EXCEPT ![s] = positions[s]]
  /\ UNCHANGED << day, stage, memory, decision, state, trades, ledger, starts, history >>

RowsWritten ==
  /\ stage = "rows" /\ rows = positions
  /\ stage' = "state"
  /\ UNCHANGED << day, memory, decision, rows, state, trades, ledger, starts, history >>

Saved == [paid |-> paid, decided_on |-> decided_on]

SaveState ==
  /\ stage = "state"
  /\ state' = Saved /\ dirty' = FALSE
  /\ stage' = "up"
  /\ UNCHANGED << day, memory, decision, rows, trades, ledger, starts, torn, undated >>

\* A statement of _save fails: the day is given up with what has been written.
SaveFails ==
  /\ stage \in {"clear", "rows", "state"}
  /\ UNCHANGED << paid, trades_today >>
  /\ Failed

----------------------------------------------------------------------------
(* The end of a process, and of a day                                      *)

End ==
  /\ stage' = "down"
  /\ positions' = Nothing /\ paid' = Nothing /\ decided_on' = 0 /\ trades_today' = Nothing
  /\ NoDecision
  /\ torn' = (torn \/ dirty) /\ dirty' = FALSE
  /\ UNCHANGED << day, rows, state, trades, starts, undated >>

Crash ==
  /\ stage # "down"
  /\ End /\ UNCHANGED ledger

\* The trades of the ledger's row are those this process has booked.
LedgerRow == {trades_today}

_shutdown ==
  /\ stage = "up"
  /\ ledger' = [ledger EXCEPT ![day] = LedgerRow]
  /\ End

NextDay ==
  /\ stage = "down" /\ day < MaxDays
  /\ day' = day + 1
  /\ UNCHANGED << stage, memory, decision, rows, state, trades, ledger, starts, history >>

Next ==
  \/ load \/ skip \/ decide \/ Rebalanced
  \/ \E s \in Symbols : _execute(s) \/ LeaveAlone(s) \/ TradeFails(s) \/ WriteRow(s)
  \/ ClearRows \/ RowsWritten \/ SaveState \/ SaveFails
  \/ Crash \/ _shutdown \/ NextDay

Spec == Init /\ [][Next]_vars

----------------------------------------------------------------------------
(* Properties                                                              *)

\* What is saved is what was paid for: over any number of days, restarts,
\* skipped and failed decisions, shares and cash come back together, unless a
\* process has ended between the first and the last write of a decision.
Balanced == ~dirty /\ ~torn => rows = state.paid

\* A position that ends is booked once a day, though restarts repeat decisions
\* that were not saved, unless a process has ended as above or a decision was
\* dated before its day: the next tick then decides again.
BookedOnce == ~torn /\ undated = 0 => \A s \in Symbols, d \in Days : trades[s][d] <= 1

\* A day whose decision is saved is not decided again, by any process.
DecidedOnce == [][stage = "up" /\ stage' = "rebalance" => state.decided_on # day]_vars

\* docs/features/21-daily-portfolio-slot.md: round trips are booked as trades
\* "and a ledger row is written per slot at shutdown, exactly as for the
\* intraday slots": no trade in the table is missing from the last row of its
\* day (unless a process has ended as above).
LedgerComplete ==
  [][day' # day /\ ~torn =>
      \A row \in ledger[day], s \in Symbols : row[s] >= trades[s][day]]_vars
=============================================================================
