--------------------------- MODULE DailySlotProofs ---------------------------
(***************************************************************************)
(* Proofs about DailySlot: what is saved is balanced, a round trip is      *)
(* booked once and a day decided once, for any symbols, sizes and days.    *)
(***************************************************************************)
EXTENDS DailySlot, TLAPS

Typed ==
  /\ day \in Days
  /\ positions \in [Symbols -> Int] /\ paid \in [Symbols -> Int]
  /\ want \in [Symbols -> Quantities] /\ todo \subseteq Symbols
  /\ rows \in [Symbols -> Int]
  /\ decided_on \in 0 .. day /\ today \in 0 .. day
  /\ state \in [paid : [Symbols -> Int], decided_on : 0 .. day]
  /\ trades \in [Symbols -> [Days -> Nat]]
  /\ dirty \in BOOLEAN /\ torn \in BOOLEAN /\ undated \in Nat

Saving == stage \in {"clear", "rows", "state"}
Deciding == stage = "rebalance" \/ Saving

\* Nothing of a decision is in the database when one begins, something is
\* once its rows are written.
Clean ==
  /\ stage = "down" \/ Due => ~dirty
  /\ stage \in {"rows", "state"} => dirty

\* Memory that may yet be saved is balanced; what is saved is.
Whole ==
  /\ ~torn /\ (Deciding \/ Due) => positions = paid
  /\ stage = "state" => rows = positions
  /\ Balanced

\* The day of a decision is not saved before the decision is.
Undecided == Deciding \/ Due => state.decided_on # day

NoTrades == \A s \in Symbols : trades[s][day] = 0

\* Trades of a day come from its one decision, and from a symbol it is past.
Once ==
  /\ BookedOnce
  /\ \A s \in Symbols, d \in Days : d > day => trades[s][d] = 0
  /\ ~torn /\ undated = 0 =>
       /\ ~dirty /\ state.decided_on # day => NoTrades
       /\ stage = "rebalance" =>
            /\ \A s \in todo : trades[s][day] = 0
            /\ today # day => todo = {} /\ NoTrades
       /\ Saving /\ decided_on # day => NoTrades

IInv == Typed /\ Clean /\ Whole /\ Undecided /\ Once

----------------------------------------------------------------------------
(* The steps, one lemma each                                               *)

LEMMA InitHolds == Init => IInv
<1> SUFFICES ASSUME Init PROVE IInv
  OBVIOUS
<1>1. 1 \in Days
  BY BoundsAssumption DEF Days
<1>2. Nothing \in [Symbols -> Int] /\ Nothing \in [Symbols -> Quantities]
  BY QuantitiesAssumption DEF Nothing
<1>3. Typed
  <2>1. trades \in [Symbols -> [Days -> Nat]]
    BY DEF Init
  <2>2. /\ state \in [paid : [Symbols -> Int], decided_on : 0 .. day]
        /\ decided_on \in 0 .. day /\ today \in 0 .. day
    BY <1>2 DEF Init
  <2> QED BY <1>1, <1>2, <2>1, <2>2 DEF Init, Typed
<1>4. Clean /\ Whole /\ Undecided
  BY DEF Init, Clean, Whole, Undecided, Balanced, Deciding, Saving, Due
<1>5. Once
  BY <1>1 DEF Init, Once, BookedOnce, NoTrades, Saving
<1> QED BY <1>3, <1>4, <1>5 DEF IInv

LEMMA NothingTyped == Nothing \in [Symbols -> Int] /\ Nothing \in [Symbols -> Quantities]
  BY QuantitiesAssumption DEF Nothing

LEMMA LoadKept ==
  ASSUME IInv, load
  PROVE  IInv'
<1>1. /\ stage = "down" /\ stage' = "up" /\ positions' = rows
      /\ paid' = state.paid /\ decided_on' = state.decided_on
      /\ UNCHANGED << day, today, want, todo, rows, state, trades, dirty, torn, undated >>
  BY DEF load, Resumed, decision, history
<1>2. Typed'
  BY <1>1 DEF IInv, Typed
<1>3. Clean' /\ Whole' /\ Undecided'
  BY <1>1 DEF IInv, Clean, Whole, Undecided, Balanced, Deciding, Saving, Due
<1>4. Once'
  BY <1>1 DEF IInv, Once, BookedOnce, NoTrades, Saving
<1> QED BY <1>2, <1>3, <1>4 DEF IInv

LEMMA SkipKept ==
  ASSUME IInv, skip
  PROVE  IInv'
<1>1. /\ Due /\ decided_on' = day /\ stage = "up"
      /\ UNCHANGED << day, stage, positions, paid, today, want, todo, rows, state, trades,
                      dirty, torn, undated >>
  BY DEF skip, Due, decision, history
<1>2. Typed'
  BY <1>1 DEF IInv, Typed, Days
<1>3. Clean' /\ Whole' /\ Undecided'
  BY <1>1 DEF IInv, Clean, Whole, Undecided, Balanced, Deciding, Saving, Due
<1>4. Once'
  BY <1>1 DEF IInv, Once, BookedOnce, NoTrades, Saving
<1> QED BY <1>2, <1>3, <1>4 DEF IInv

LEMMA DecideKept ==
  ASSUME IInv, decide
  PROVE  IInv'
<1>1. PICK priced \in SUBSET Symbols :
        /\ want' \in [Symbols -> Quantities] /\ todo' = priced
        /\ \/ today' = day /\ undated' = undated
           \/ today' = day - 1 /\ priced = {} /\ undated' = undated
           \/ /\ today' = day - 1 /\ priced # {}
              /\ starts + undated < MaxStarts /\ undated' = undated + 1
  BY DEF decide
<1>2. /\ Due /\ stage = "up" /\ stage' = "rebalance"
      /\ UNCHANGED << day, positions, paid, decided_on, rows, state, trades, dirty, torn >>
  BY DEF decide, Due, memory
<1>3. today' \in 0 .. day /\ undated' \in Nat
  BY <1>1 DEF IInv, Typed, Days
<1>4. Typed'
  BY <1>1, <1>2, <1>3 DEF IInv, Typed
<1>5. Clean' /\ Whole' /\ Undecided'
  BY <1>2 DEF IInv, Clean, Whole, Undecided, Balanced, Deciding, Saving, Due
<1>6. ~torn /\ undated = 0 => NoTrades
  BY <1>2 DEF IInv, Clean, Undecided, Once
<1>7. Once'
  <2>1. undated' = 0 => undated = 0 /\ (today' # day => priced = {})
    BY <1>1 DEF IInv, Typed
  <2> QED BY <1>1, <1>2, <1>6, <2>1 DEF IInv, Once, BookedOnce, NoTrades, Saving
<1> QED BY <1>4, <1>5, <1>7 DEF IInv

\* The one step that books a trade: its symbol is still to be come to, so the
\* day has none of it, and the decision is the day's own.
LEMMA ExecuteKept ==
  ASSUME IInv, NEW s \in Symbols, _execute(s)
  PROVE  IInv'
<1>1. /\ stage = "rebalance" /\ stage' = stage /\ s \in todo /\ todo' = todo \ {s}
      /\ paid' = [paid EXCEPT ![s] = @ + (want[s] - positions[s])]
      /\ positions' = [positions EXCEPT ![s] = want[s]]
      /\ UNCHANGED << day, decided_on, today, want, rows, state, torn, undated >>
  BY DEF _execute, Executed
<1>2. \/ trades' = trades /\ dirty' = dirty
      \/ trades' = [trades EXCEPT ![s][day] = @ + 1] /\ dirty' = TRUE
  BY DEF _execute
<1>3. Typed
  BY DEF IInv
<1>4. want[s] \in Int /\ positions[s] \in Int /\ paid[s] \in Int /\ day \in Days
  BY <1>3, QuantitiesAssumption DEF Typed
<1>5. trades' \in [Symbols -> [Days -> Nat]]
  <2>1. trades \in [Symbols -> [Days -> Nat]] /\ trades[s] \in [Days -> Nat]
    BY <1>3 DEF Typed
  <2> QED BY <1>2, <1>4, <2>1
<1>6. Typed'
  <2>1. positions' \in [Symbols -> Int] /\ paid' \in [Symbols -> Int]
    BY <1>1, <1>3, <1>4 DEF Typed
  <2>2. dirty' \in BOOLEAN /\ todo' \subseteq Symbols
    BY <1>1, <1>2, <1>3 DEF Typed
  <2> QED BY <1>1, <1>3, <1>5, <2>1, <2>2 DEF Typed
<1>7. Clean' /\ Undecided'
  BY <1>1 DEF IInv, Clean, Undecided, Deciding, Saving, Due
<1>8. Whole'
  <2>1. ~torn => positions' = paid'
    <3>1. SUFFICES ASSUME ~torn PROVE positions' = paid'
      OBVIOUS
    <3>2. positions = paid
      BY <1>1, <3>1 DEF IInv, Whole, Deciding
    <3>3. paid[s] + (want[s] - positions[s]) = want[s]
      BY <1>4, <3>2
    <3> QED BY <1>1, <3>2, <3>3
  <2>2. Balanced'
    BY <1>1, <1>2 DEF IInv, Whole, Balanced
  <2> QED BY <1>1, <2>1, <2>2 DEF Whole, Saving
<1>9. Once'
  <2>1. CASE trades' = trades /\ dirty' = dirty
    BY <1>1, <2>1 DEF IInv, Once, BookedOnce, NoTrades, Saving
  <2>2. CASE trades' = [trades EXCEPT ![s][day] = @ + 1] /\ dirty' = TRUE
    <3>1. \A x \in Symbols, d \in Days :
            trades'[x][d] = IF x = s /\ d = day THEN trades[s][day] + 1 ELSE trades[x][d]
      BY <1>3, <1>4, <2>2 DEF Typed
    <3>2. ~torn /\ undated = 0 => trades[s][day] = 0 /\ today = day
      BY <1>1 DEF IInv, Once
    <3>3. BookedOnce'
      BY <1>1, <3>1, <3>2 DEF IInv, Once, BookedOnce
    <3>4. \A x \in Symbols, d \in Days : d > day => trades'[x][d] = 0
      BY <1>4, <3>1 DEF IInv, Once, Days
    <3>5. ~torn /\ undated = 0 => \A x \in todo' : trades'[x][day] = 0
      BY <1>1, <1>3, <1>4, <3>1 DEF IInv, Once, Typed
    <3> QED BY <1>1, <2>2, <3>2, <3>3, <3>4, <3>5 DEF Once, Saving
  <2> QED BY <1>2, <2>1, <2>2
<1> QED BY <1>6, <1>7, <1>8, <1>9 DEF IInv

LEMMA LeaveKept ==
  ASSUME IInv, NEW s \in Symbols, LeaveAlone(s)
  PROVE  IInv'
<1>1. /\ stage = "rebalance" /\ stage' = stage /\ todo' = todo \ {s}
      /\ UNCHANGED << day, positions, paid, decided_on, today, want, rows, state, trades,
                      dirty, torn, undated >>
  BY DEF LeaveAlone, memory, history
<1>2. Typed'
  BY <1>1 DEF IInv, Typed
<1>3. Clean' /\ Whole' /\ Undecided'
  BY <1>1 DEF IInv, Clean, Whole, Undecided, Balanced, Deciding, Saving, Due
<1>4. Once'
  BY <1>1 DEF IInv, Once, BookedOnce, NoTrades, Saving
<1> QED BY <1>2, <1>3, <1>4 DEF IInv

\* A failed decision leaves memory that is not saved any more.
LEMMA FailedKept ==
  ASSUME IInv, Deciding, Failed, paid' \in [Symbols -> Int]
  PROVE  IInv'
<1>1. /\ stage' = "up" /\ decided_on' = day /\ today' = 0 /\ want' = Nothing /\ todo' = {}
      /\ UNCHANGED << day, positions, rows, state, trades, dirty, torn, undated >>
  BY DEF Failed, NoDecision, history
<1>2. Typed'
  BY <1>1, NothingTyped DEF IInv, Typed, Days
<1>3. Clean' /\ Whole' /\ Undecided'
  BY <1>1 DEF IInv, Clean, Whole, Undecided, Balanced, Deciding, Saving, Due
<1>4. Once'
  BY <1>1 DEF IInv, Once, BookedOnce, NoTrades, Saving
<1> QED BY <1>2, <1>3, <1>4 DEF IInv

LEMMA TradeFailsKept ==
  ASSUME IInv, NEW s \in Symbols, TradeFails(s)
  PROVE  IInv'
<1>1. want[s] \in Int /\ positions[s] \in Int /\ paid \in [Symbols -> Int]
  BY QuantitiesAssumption DEF IInv, Typed
<1>2. paid' \in [Symbols -> Int]
  BY <1>1 DEF TradeFails
<1> QED BY <1>2, FailedKept DEF TradeFails, Deciding

LEMMA SaveFailsKept ==
  ASSUME IInv, SaveFails
  PROVE  IInv'
<1>1. paid' \in [Symbols -> Int]
  BY DEF SaveFails, IInv, Typed
<1> QED BY <1>1, FailedKept DEF SaveFails, Deciding, Saving

LEMMA RebalancedKept ==
  ASSUME IInv, Rebalanced
  PROVE  IInv'
<1>1. /\ stage = "rebalance" /\ stage' = "clear" /\ decided_on' = today
      /\ today' = 0 /\ want' = Nothing /\ todo' = {}
      /\ UNCHANGED << day, positions, paid, rows, state, trades, dirty, torn, undated >>
  BY DEF Rebalanced, NoDecision, history
<1>2. Typed'
  BY <1>1, NothingTyped DEF IInv, Typed, Days
<1>3. Clean' /\ Whole' /\ Undecided'
  BY <1>1 DEF IInv, Clean, Whole, Undecided, Balanced, Deciding, Saving, Due
<1>4. Once'
  BY <1>1 DEF IInv, Once, BookedOnce, NoTrades, Saving
<1> QED BY <1>2, <1>3, <1>4 DEF IInv

\* The writes of the rows: the database is dirty until the state is written.
LEMMA RowsKept ==
  ASSUME IInv, ClearRows \/ (\E s \in Symbols : WriteRow(s)) \/ RowsWritten
  PROVE  IInv'
<1>1. /\ Saving /\ stage' \in {"rows", "state"} /\ dirty' = TRUE
      /\ rows' \in [Symbols -> Int]
      /\ stage' = "state" => rows' = positions
      /\ UNCHANGED << day, positions, paid, decided_on, today, want, todo, state, trades, torn, undated >>
  <2>1. CASE ClearRows
    BY <2>1, NothingTyped DEF ClearRows, Saving, memory, decision
  <2>2. CASE \E s \in Symbols : WriteRow(s)
    BY <2>2 DEF WriteRow, Saving, memory, decision, history, IInv, Typed, Clean
  <2>3. CASE RowsWritten
    BY <2>3 DEF RowsWritten, Saving, memory, decision, history, IInv, Typed, Clean
  <2> QED BY <2>1, <2>2, <2>3
<1>2. Typed'
  BY <1>1 DEF IInv, Typed
<1>3. Clean' /\ Whole' /\ Undecided'
  BY <1>1 DEF IInv, Clean, Whole, Undecided, Balanced, Deciding, Saving, Due
<1>4. Once'
  BY <1>1 DEF IInv, Once, BookedOnce, NoTrades, Saving
<1> QED BY <1>2, <1>3, <1>4 DEF IInv

\* The last write makes the decision whole.
LEMMA SaveStateKept ==
  ASSUME IInv, SaveState
  PROVE  IInv'
<1>1. /\ stage = "state" /\ stage' = "up" /\ dirty' = FALSE
      /\ state' = [paid |-> paid, decided_on |-> decided_on]
      /\ UNCHANGED << day, positions, paid, decided_on, today, want, todo, rows, trades, torn, undated >>
  BY DEF SaveState, Saved, memory, decision
<1>2. Typed'
  BY <1>1 DEF IInv, Typed
<1>3. Clean' /\ Whole' /\ Undecided'
  BY <1>1 DEF IInv, Clean, Whole, Undecided, Balanced, Deciding, Saving, Due
<1>4. Once'
  BY <1>1 DEF IInv, Once, BookedOnce, NoTrades, Saving
<1> QED BY <1>2, <1>3, <1>4 DEF IInv

LEMMA EndKept ==
  ASSUME IInv, Crash \/ _shutdown
  PROVE  IInv'
<1>1. /\ stage' = "down" /\ positions' = Nothing /\ paid' = Nothing /\ decided_on' = 0
      /\ today' = 0 /\ want' = Nothing /\ todo' = {}
      /\ torn' = (torn \/ dirty) /\ dirty' = FALSE
      /\ UNCHANGED << day, rows, state, trades, undated >>
  BY DEF Crash, _shutdown, End, NoDecision
<1>2. torn' \in BOOLEAN /\ dirty' \in BOOLEAN
  BY <1>1
<1>3. Typed'
  <2>1. 0 \in 0 .. day
    BY DEF IInv, Typed, Days
  <2>2. decided_on' \in 0 .. day' /\ today' \in 0 .. day'
    BY <1>1, <2>1
  <2>3. state' \in [paid : [Symbols -> Int], decided_on : 0 .. day']
    BY <1>1 DEF IInv, Typed
  <2>4. /\ positions' \in [Symbols -> Int] /\ paid' \in [Symbols -> Int]
        /\ want' \in [Symbols -> Quantities] /\ todo' \subseteq Symbols
    BY <1>1, NothingTyped
  <2>5. day' \in Days /\ rows' \in [Symbols -> Int] /\ trades' \in [Symbols -> [Days -> Nat]]
    BY <1>1 DEF IInv, Typed
  <2>6. undated' \in Nat
    BY <1>1 DEF IInv, Typed
  <2> QED BY <1>2, <2>2, <2>3, <2>4, <2>5, <2>6 DEF Typed
<1>4. Clean' /\ Whole' /\ Undecided'
  BY <1>1 DEF IInv, Clean, Whole, Undecided, Balanced, Deciding, Saving, Due
<1>5. Once'
  BY <1>1 DEF IInv, Once, BookedOnce, NoTrades, Saving
<1> QED BY <1>3, <1>4, <1>5 DEF IInv

LEMMA NextDayKept ==
  ASSUME IInv, NextDay
  PROVE  IInv'
<1>1. /\ stage = "down" /\ stage' = stage /\ day' = day + 1 /\ day < MaxDays
      /\ UNCHANGED << positions, paid, decided_on, today, want, todo, rows, state, trades,
                      dirty, torn, undated >>
  BY DEF NextDay, memory, decision, history
<1>2. day \in Int /\ day' \in Days /\ 0 .. day \subseteq 0 .. day'
  BY <1>1, BoundsAssumption DEF IInv, Typed, Days
<1>3. Typed'
  BY <1>1, <1>2 DEF IInv, Typed
<1>4. Clean' /\ Whole' /\ Undecided'
  BY <1>1 DEF IInv, Clean, Whole, Undecided, Balanced, Deciding, Saving, Due
<1>5. Once'
  <2>1. \A s \in Symbols, d \in Days : d > day' => d > day
    BY <1>1, <1>2 DEF Days
  <2>2. \A s \in Symbols : trades[s][day'] = 0
    BY <1>1, <1>2 DEF IInv, Once
  <2> QED BY <1>1, <2>1, <2>2 DEF IInv, Once, BookedOnce, NoTrades, Saving
<1> QED BY <1>3, <1>4, <1>5 DEF IInv

LEMMA NextKeeps == IInv /\ [Next]_vars => IInv'
<1> SUFFICES ASSUME IInv, [Next]_vars PROVE IInv'
  OBVIOUS
<1>1. CASE load \/ skip \/ decide \/ Rebalanced
  BY <1>1, LoadKept, SkipKept, DecideKept, RebalancedKept
<1>2. CASE \E s \in Symbols : _execute(s) \/ LeaveAlone(s) \/ TradeFails(s)
  BY <1>2, ExecuteKept, LeaveKept, TradeFailsKept
<1>3. CASE ClearRows \/ (\E s \in Symbols : WriteRow(s)) \/ RowsWritten
  BY <1>3, RowsKept
<1>4. CASE SaveState \/ SaveFails
  BY <1>4, SaveStateKept, SaveFailsKept
<1>5. CASE Crash \/ _shutdown \/ NextDay
  BY <1>5, EndKept, NextDayKept
<1>6. CASE UNCHANGED vars
  <2>1. Typed' /\ Clean' /\ Whole' /\ Undecided'
    BY <1>6 DEF vars, IInv, Typed, Clean, Whole, Undecided, Balanced, Deciding, Saving, Due
  <2>2. Once'
    BY <1>6 DEF vars, IInv, Once, BookedOnce, NoTrades, Saving
  <2> QED BY <2>1, <2>2 DEF IInv
<1> QED BY <1>1, <1>2, <1>3, <1>4, <1>5, <1>6 DEF Next

LEMMA Invariance == Spec => []IInv
  BY InitHolds, NextKeeps, PTL DEF Spec

\* Cash and shares come back together after any number of days and restarts,
\* unless a process has ended within the writes of a decision (decide, _save).
THEOREM BooksBalanced == Spec => []Balanced
<1>1. IInv => Balanced
  BY DEF IInv, Whole
<1> QED BY <1>1, Invariance, PTL

\* A round trip of a symbol is booked at most once a day, with the same proviso
\* and unless a decision was dated before its day (_execute and the day that
\* load resumes).
THEOREM TripsBookedOnce == Spec => []BookedOnce
<1>1. IInv => BookedOnce
  BY DEF IInv, Once
<1> QED BY <1>1, Invariance, PTL

\* A decision that has been saved is the last of its day (_portfolio_decisions
\* and the day that load resumes).
THEOREM DaysDecidedOnce == Spec => DecidedOnce
<1>1. IInv /\ [Next]_vars
        => [stage = "up" /\ stage' = "rebalance" => state.decided_on # day]_vars
  <2> SUFFICES ASSUME IInv, Next, stage = "up", stage' = "rebalance"
               PROVE  state.decided_on # day
    OBVIOUS
  <2>1. Due
    BY DEF Next, load, skip, decide, Rebalanced, _execute, LeaveAlone, TradeFails, Failed, WriteRow,
           ClearRows, RowsWritten, SaveState, SaveFails, Crash, _shutdown, End, NextDay
  <2> QED BY <2>1 DEF IInv, Undecided
<1> QED BY <1>1, Invariance, PTL DEF Spec, DecidedOnce
=============================================================================
