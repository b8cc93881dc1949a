-------------------------- MODULE OptionsSlotProofs --------------------------
(***************************************************************************)
(* What the options slot promises for any packages, capital, days and      *)
(* restarts: one structure at a time, booked once in every place; nothing  *)
(* kept past close_dte; a close priced from the mark; and a cash account   *)
(* that is the sum of what the structures cost and brought.                *)
(***************************************************************************)
EXTENDS OptionsSlot, SumTheorems

Typed ==
  /\ mode \in {"shadow", "live"} /\ day \in Nat
  /\ open \subseteq Ids /\ made \in 0 .. MaxIds
  /\ DOMAIN rows = Ids /\ DOMAIN trades = Ids /\ DOMAIN venue = Ids /\ DOMAIN ledger = Days
  /\ dirty \in BOOLEAN /\ torn \in BOOLEAN

(***************************************************************************)
(* The slot's memory and the table have the same structures open, but for  *)
(* the one whose row is to be written next.  A decision that failed may    *)
(* leave them apart, and no other is made before the next restart.         *)
(***************************************************************************)
Matched ==
  /\ pc = "down" => open = {}
  /\ pc = "up" => decided_on = day \/ open = open_for
  /\ pc \in {"exits", "trade", "entry", "mark", "save"} => open = open_for
  /\ pc = "row" => /\ closing.id \in Ids /\ closing.id \notin open
                   /\ open_for = open \cup {closing.id}
  /\ pc = "trade" => closing.id \in Ids /\ rows[closing.id].status = "closed"
  /\ pc = "insert" => /\ closing.id = made /\ made \in Ids /\ rows[made].status = "none"
                      /\ open = {made} /\ open_for = {}

OneEach ==
  /\ \A i, j \in open : i = j
  /\ \A i, j \in open_for : i = j
  /\ todo \subseteq open
  /\ pc \in {"row", "trade", "entry"} => open = {}

\* A structure not made yet is nowhere.
Fresh ==
  \A i \in Ids : i > made =>
    /\ rows[i].status = "none" /\ trades[i] = 0 /\ venue[i] = 0
    /\ i \notin open /\ i \notin trades_today

\* Settled at every step, and not only when the decision is saved.
Booked ==
  ~torn =>
    /\ pc \in {"down", "up", "save"} => ~dirty
    /\ pc = "up" => open = open_for
    /\ pc \in {"row", "trade", "insert"} => dirty
    /\ \A i \in Ids :
         /\ trades[i] = IF rows[i].status = "closed" /\ ~(pc = "trade" /\ i = closing.id)
                        THEN 1 ELSE 0
         /\ venue[i] = IF \/ mode = "live" /\ rows[i].status = "open"
                             /\ ~(pc = "row" /\ i = closing.id)
                          \/ mode = "live" /\ pc = "insert" /\ i = closing.id
                       THEN 2 ELSE 0
         /\ i \in trades_today => rows[i].status = "closed" \/ (pc = "row" /\ i = closing.id)
         /\ \A d \in Days : i \in ledger[d] => rows[i].status = "closed"

\* What the loop over the exits has passed is not due, nor is what it leaves.
Passed ==
  CloseAfter > 0 =>
    /\ pc \in {"exits", "row", "trade"} => \A i \in open \ todo : ~Due(i)
    /\ pc \in {"entry", "mark", "save"} => \A i \in open : ~Due(i)

\* What was saved of the marks is still known to the process.
Remembered ==
  /\ pc # "down" => open \cap DOMAIN state.marks \subseteq DOMAIN marks
  /\ pc \in {"exits", "row", "trade"} => quotes.spot
  /\ pc = "row" => /\ closing.source # "entry"
                   /\ closing.source = "intrinsic" => closing.id \notin DOMAIN state.marks

IInv ==
  /\ Typed /\ Matched /\ OneEach /\ Fresh /\ Booked /\ Passed /\ Remembered

----------------------------------------------------------------------------
(* The steps                                                               *)

LEMMA InitHolds == Init => IInv
<1> SUFFICES ASSUME Init PROVE IInv
    OBVIOUS
<1> USE DEF Init
<1>1. open_for = {}
  BY DEF open_for, NoRow
<1>2. Typed
  <2>1. made \in 0 .. MaxIds
    BY BoundsAssumption
  <2> QED
    BY <2>1 DEF Typed
<1>3. Matched /\ OneEach
  BY <1>1 DEF Matched, OneEach
<1>4. Fresh /\ Booked
  BY DEF Fresh, Booked, NoRow
<1>5. Passed /\ Remembered
  BY DEF Passed, Remembered
<1> QED
  BY <1>2, <1>3, <1>4, <1>5 DEF IInv

LEMMA LoadKeeps == IInv /\ load => IInv'
<1> SUFFICES ASSUME IInv, load PROVE IInv'
    OBVIOUS
<1> USE DEF load, world, memory, decision, tables, history, Restored, Restrict
<1>1. Typed'
  BY DEF IInv, Typed, open_for
<1>2. Matched'
  BY DEF IInv, Matched, open_for
<1>3. OneEach'
  BY DEF IInv, Matched, OneEach, open_for
<1>4. Fresh'
  BY DEF IInv, Typed, Fresh, open_for
<1>5. Booked'
  BY DEF IInv, Typed, Matched, Booked, open_for
<1>6. Passed'
  BY DEF IInv, Matched, Passed, Due
<1>7. Remembered'
  BY DEF IInv, Matched, Remembered
<1> QED
  BY <1>1, <1>2, <1>3, <1>4, <1>5, <1>6, <1>7 DEF IInv

LEMMA CrashKeeps == IInv /\ Crash => IInv'
<1> SUFFICES ASSUME IInv, Crash PROVE IInv'
    OBVIOUS
<1> USE DEF Crash, world, memory, decision, tables, history, Down, NoDecision
<1>1. Typed'
  BY DEF IInv, Typed
<1>2. Matched'
  BY DEF IInv, Matched, open_for
<1>3. OneEach'
  BY DEF IInv, Matched, OneEach, open_for
<1>4. Fresh'
  BY DEF IInv, Typed, Fresh
<1>5. Booked'
  BY DEF IInv, Typed, Matched, Booked, open_for
<1>6. Passed'
  BY DEF IInv, Matched, Passed, Due
<1>7. Remembered'
  BY DEF IInv, Matched, Remembered
<1> QED
  BY <1>1, <1>2, <1>3, <1>4, <1>5, <1>6, <1>7 DEF IInv

LEMMA NextDayKeeps == IInv /\ NextDay => IInv'
<1> SUFFICES ASSUME IInv, NextDay PROVE IInv'
    OBVIOUS
<1> USE DEF NextDay, world, memory, decision, tables, history
<1>1. Typed'
  BY DEF IInv, Typed
<1>2. Matched'
  BY DEF IInv, Matched, open_for
<1>3. OneEach'
  BY DEF IInv, Matched, OneEach, open_for
<1>4. Fresh'
  BY DEF IInv, Typed, Fresh
<1>5. Booked'
  BY DEF IInv, Typed, Matched, Booked, open_for
<1>6. Passed'
  BY DEF IInv, Matched, Passed, Due
<1>7. Remembered'
  BY DEF IInv, Matched, Remembered
<1> QED
  BY <1>1, <1>2, <1>3, <1>4, <1>5, <1>6, <1>7 DEF IInv

LEMMA DecideKeeps == IInv /\ _decide_options => IInv'
<1> SUFFICES ASSUME IInv, _decide_options PROVE IInv'
    OBVIOUS
<1> USE DEF _decide_options, world, memory, decision, tables, history, skip, SpotKnown
<1>1. Typed'
  BY DEF IInv, Typed
<1>2. Matched'
  BY DEF IInv, Matched, open_for
<1>3. OneEach'
  BY DEF IInv, Matched, OneEach, open_for
<1>4. Fresh'
  BY DEF IInv, Typed, Fresh
<1>5. Booked'
  BY DEF IInv, Typed, Matched, Booked, open_for
<1>6. Passed'
  BY DEF IInv, Matched, Passed, Due
<1>7. Remembered'
  BY DEF IInv, Matched, Remembered
<1> QED
  BY <1>1, <1>2, <1>3, <1>4, <1>5, <1>6, <1>7 DEF IInv

LEMMA QuotesFailKeeps == IInv /\ QuotesFail => IInv'
<1> SUFFICES ASSUME IInv, QuotesFail PROVE IInv'
    OBVIOUS
<1> USE DEF QuotesFail, world, memory, decision, tables, history, Failed, skip, NoDecision
<1>1. Typed'
  BY DEF IInv, Typed
<1>2. Matched'
  BY DEF IInv, Matched, open_for
<1>3. OneEach'
  BY DEF IInv, Matched, OneEach, open_for
<1>4. Fresh'
  BY DEF IInv, Typed, Fresh
<1>5. Booked'
  BY DEF IInv, Typed, Matched, Booked, open_for
<1>6. Passed'
  BY DEF IInv, Matched, Passed, Due
<1>7. Remembered'
  BY DEF IInv, Matched, Remembered
<1> QED
  BY <1>1, <1>2, <1>3, <1>4, <1>5, <1>6, <1>7 DEF IInv

LEMMA KeepKeeps == IInv /\ Keep => IInv'
<1> SUFFICES ASSUME IInv, Keep PROVE IInv'
    OBVIOUS
<1> USE DEF Keep, world, memory, decision, tables, history, exit_reasons
<1>1. Typed'
  BY DEF IInv, Typed
<1>2. Matched'
  BY DEF IInv, Matched, open_for
<1>3. OneEach'
  BY DEF IInv, Matched, OneEach, open_for
<1>4. Fresh'
  BY DEF IInv, Typed, Fresh
<1>5. Booked'
  BY DEF IInv, Typed, Matched, Booked, open_for
<1>6. Passed'
  BY DEF IInv, Matched, Passed, Due
<1>7. Remembered'
  BY DEF IInv, Matched, Remembered
<1> QED
  BY <1>1, <1>2, <1>3, <1>4, <1>5, <1>6, <1>7 DEF IInv

\* The exit value is never the entry value, for the decision has a price of the
\* underlying; and the exercise value only of a structure without a mark.
LEMMA ExitValueKnown ==
  ASSUME quotes.spot, NEW i, NEW x \in ExitValues(i)
  PROVE  x.source # "entry" /\ (x.source = "intrinsic" => i \notin DOMAIN marks)
<1>1. CASE FillKnown
  BY <1>1 DEF ExitValues
<1>2. CASE ~FillKnown
  BY <1>2 DEF ExitValues, _fallback_exit_value
<1> QED
  BY <1>1, <1>2

LEMMA SentOnce ==
  ASSUME IInv, NEW i \in Ids, NEW legs \in Int, Sent(i, legs)
  PROVE  /\ DOMAIN venue' = Ids /\ torn' \in BOOLEAN
         /\ \A k \in Ids \ {i} : venue'[k] = venue[k]
         /\ ~torn' => ~torn /\ venue'[i] = IF mode = "live" THEN venue[i] + legs ELSE venue[i]
<1>1. CASE mode = "shadow"
  BY <1>1 DEF Sent, IInv, Typed
<1>2. CASE mode = "live"
  BY <1>2 DEF Sent, IInv, Typed
<1> QED
  BY <1>1, <1>2 DEF IInv, Typed

LEMMA CloseKeeps == IInv /\ _close => IInv'
<1> SUFFICES ASSUME IInv, _close PROVE IInv'
    OBVIOUS
<1>1. PICK i \in todo :
        /\ Sent(i, leg_orders(TRUE))
        /\ \E x \in ExitValues(i) : closing' = [id |-> i, v_exit |-> x.value, source |-> x.source]
        /\ open' = open \ {i} /\ marks' = Restrict(marks, DOMAIN marks \ {i})
        /\ todo' = todo \ {i} /\ trades_today' = trades_today \cup {i}
  BY DEF _close
<1>2. PICK x \in ExitValues(i) : closing' = [id |-> i, v_exit |-> x.value, source |-> x.source]
  BY <1>1
<1>3. closing'.id = i /\ closing'.source = x.source
  BY <1>2
<1>4. /\ pc = "exits" /\ pc' = "row" /\ dirty' = TRUE
      /\ UNCHANGED << mode, day, made, rows, trades, state, ledger, quotes >>
  BY DEF _close, tables
<1>5. /\ i \in Ids /\ open = {i} /\ open_for = {i} /\ open' = {} /\ todo' = {}
      /\ rows[i].status = "open" /\ ~(i > made) /\ quotes.spot
  BY <1>1, <1>4 DEF IInv, Typed, Matched, OneEach, Fresh, Remembered, open_for
<1>6. open_for' = {i}
  BY <1>4, <1>5 DEF open_for
<1>7. /\ DOMAIN venue' = Ids /\ torn' \in BOOLEAN
      /\ \A k \in Ids \ {i} : venue'[k] = venue[k]
      /\ ~torn' => ~torn /\ venue'[i] = IF mode = "live" THEN venue[i] - 2 ELSE venue[i]
  <2>1. Sent(i, -2)
    BY <1>1 DEF leg_orders
  <2>2. -2 \in Int /\ \A n \in Int : n + (-2) = n - 2
    OBVIOUS
  <2>3. ~torn => venue[i] \in Int
    BY <1>5 DEF IInv, Booked
  <2> QED
    BY <1>5, <2>1, <2>2, <2>3, SentOnce
<1>8. Typed'
  BY <1>4, <1>5, <1>7 DEF IInv, Typed
<1>9. Matched' /\ OneEach'
  BY <1>3, <1>4, <1>5, <1>6 DEF Matched, OneEach
<1>10. Fresh'
  BY <1>1, <1>4, <1>5, <1>7 DEF IInv, Typed, Fresh
<1>11. Booked'
  BY <1>1, <1>3, <1>4, <1>5, <1>7 DEF IInv, Typed, Booked
<1>12. Passed'
  BY <1>4, <1>5 DEF Passed
<1>13. Remembered'
  <2>1. x.source # "entry" /\ (x.source = "intrinsic" => i \notin DOMAIN marks)
    BY <1>5, ExitValueKnown
  <2>2. i \in DOMAIN state.marks => i \in DOMAIN marks
    BY <1>4, <1>5 DEF IInv, Remembered
  <2> QED
    BY <1>3, <1>4, <1>5, <2>1, <2>2 DEF Remembered
<1> QED
  BY <1>8, <1>9, <1>10, <1>11, <1>12, <1>13 DEF IInv

LEMMA WriteCloseKeeps == IInv /\ WriteClose => IInv'
<1> SUFFICES ASSUME IInv, WriteClose PROVE IInv'
    OBVIOUS
<1> USE DEF WriteClose, world, memory, decision, tables, history, CloseRow
<1>1. Typed'
  BY DEF IInv, Typed
<1>2. Matched'
  BY DEF IInv, Typed, Matched, OneEach, open_for
<1>3. OneEach'
  BY DEF IInv, Matched, OneEach, open_for
<1>4. Fresh'
  BY DEF IInv, Typed, Matched, Fresh, open_for
<1>5. Booked'
  BY DEF IInv, Typed, Matched, Booked, open_for
<1>6. Passed'
  BY DEF IInv, Matched, Passed, Due
<1>7. Remembered'
  BY DEF IInv, Matched, Remembered
<1> QED
  BY <1>1, <1>2, <1>3, <1>4, <1>5, <1>6, <1>7 DEF IInv

LEMMA WriteTradeKeeps == IInv /\ WriteTrade => IInv'
<1> SUFFICES ASSUME IInv, WriteTrade PROVE IInv'
    OBVIOUS
<1> USE DEF WriteTrade, world, memory, decision, tables, history, NoClose
<1>1. Typed'
  BY DEF IInv, Typed
<1>2. Matched'
  BY DEF IInv, Matched, open_for
<1>3. OneEach'
  BY DEF IInv, Matched, OneEach, open_for
<1>4. Fresh'
  BY DEF IInv, Typed, Matched, Fresh
<1>5. Booked'
  BY DEF IInv, Typed, Matched, Booked, open_for
<1>6. Passed'
  BY DEF IInv, Matched, Passed, Due
<1>7. Remembered'
  BY DEF IInv, Matched, Remembered
<1> QED
  BY <1>1, <1>2, <1>3, <1>4, <1>5, <1>6, <1>7 DEF IInv

LEMMA ExitsDoneKeeps == IInv /\ ExitsDone => IInv'
<1> SUFFICES ASSUME IInv, ExitsDone PROVE IInv'
    OBVIOUS
<1> USE DEF ExitsDone, world, memory, decision, tables, history, EntryDue
<1>1. Typed'
  BY DEF IInv, Typed
<1>2. Matched'
  BY DEF IInv, Matched, open_for
<1>3. OneEach'
  BY DEF IInv, Matched, OneEach, open_for
<1>4. Fresh'
  BY DEF IInv, Typed, Fresh
<1>5. Booked'
  BY DEF IInv, Typed, Matched, Booked, open_for
<1>6. Passed'
  BY DEF IInv, Matched, Passed, Due
<1>7. Remembered'
  BY DEF IInv, Matched, Remembered
<1> QED
  BY <1>1, <1>2, <1>3, <1>4, <1>5, <1>6, <1>7 DEF IInv

LEMMA NoEntryKeeps == IInv /\ NoEntry => IInv'
<1> SUFFICES ASSUME IInv, NoEntry PROVE IInv'
    OBVIOUS
<1> USE DEF NoEntry, world, memory, decision, tables, history
<1>1. Typed'
  BY DEF IInv, Typed
<1>2. Matched'
  BY DEF IInv, Matched, open_for
<1>3. OneEach'
  BY DEF IInv, Matched, OneEach, open_for
<1>4. Fresh'
  BY DEF IInv, Typed, Fresh
<1>5. Booked'
  BY DEF IInv, Typed, Matched, Booked, open_for
<1>6. Passed'
  BY DEF IInv, Matched, Passed, Due
<1>7. Remembered'
  BY DEF IInv, Matched, Remembered
<1> QED
  BY <1>1, <1>2, <1>3, <1>4, <1>5, <1>6, <1>7 DEF IInv

LEMMA OpenKeeps == IInv /\ _open => IInv'
<1> SUFFICES ASSUME IInv, _open PROVE IInv'
    OBVIOUS
<1>1. /\ pc = "entry" /\ pc' = "insert" /\ dirty' = TRUE /\ made < MaxIds /\ made' = made + 1
      /\ Sent(made', leg_orders(FALSE)) /\ open' = open \cup {made'}
      /\ UNCHANGED << mode, day, trades_today, quotes, todo, rows, trades, state, ledger >>
  BY DEF _open, tables
<1>2. closing'.id = made'
  <2>1. PICK v \in Values : closing' = [id |-> made', v_entry |-> v]
    BY DEF _open
  <2> QED
    BY <2>1
<1>3. made' \in Ids /\ made' > made /\ made \in Nat /\ MaxIds \in Nat
  BY <1>1, BoundsAssumption DEF IInv, Typed, Ids
<1>4. /\ rows[made'].status = "none" /\ venue[made'] = 0 /\ trades[made'] = 0
      /\ made' \notin trades_today /\ open = {} /\ open_for = {} /\ open' = {made'} /\ todo = {}
  BY <1>1, <1>3 DEF IInv, Matched, OneEach, Fresh
<1>5. open_for' = {}
  BY <1>1, <1>4 DEF open_for
<1>6. /\ DOMAIN venue' = Ids /\ torn' \in BOOLEAN
      /\ \A k \in Ids \ {made'} : venue'[k] = venue[k]
      /\ ~torn' => ~torn /\ venue'[made'] = IF mode = "live" THEN 2 ELSE 0
  <2>1. Sent(made', 2)
    BY <1>1 DEF leg_orders
  <2> QED
    BY <1>3, <1>4, <2>1, SentOnce
<1>7. Typed'
  BY <1>1, <1>3, <1>4, <1>6 DEF IInv, Typed
<1>8. Matched' /\ OneEach'
  BY <1>1, <1>2, <1>3, <1>4, <1>5 DEF Matched, OneEach
<1>9. Fresh'
  BY <1>1, <1>3, <1>4, <1>6 DEF IInv, Typed, Fresh, Ids
<1>10. Booked'
  BY <1>1, <1>2, <1>3, <1>4, <1>6 DEF IInv, Typed, Booked
<1>11. Passed'
  BY <1>1 DEF Passed
<1>12. Remembered'
  <2>1. \E m : marks' = Noted([i \in {made'} |-> m])
    BY DEF _open
  <2>2. made' \in DOMAIN marks'
    BY <2>1 DEF Noted
  <2> QED
    BY <1>1, <1>4, <2>2 DEF Remembered
<1> QED
  BY <1>7, <1>8, <1>9, <1>10, <1>11, <1>12 DEF IInv

LEMMA InsertRowKeeps == IInv /\ InsertRow => IInv'
<1> SUFFICES ASSUME IInv, InsertRow PROVE IInv'
    OBVIOUS
<1> USE DEF InsertRow, world, memory, decision, tables, history, to_row
<1>1. Typed'
  BY DEF IInv, Typed
<1>2. Matched'
  BY DEF IInv, Typed, Matched, OneEach, open_for
<1>3. OneEach'
  BY DEF IInv, Matched, OneEach, open_for
<1>4. Fresh'
  BY DEF IInv, Typed, Matched, Fresh
<1>5. Booked'
  BY DEF IInv, Typed, Matched, Booked, open_for
<1>6. Passed'
  BY BoundsAssumption DEF IInv, Typed, Matched, Passed, Due
<1>7. Remembered'
  BY DEF IInv, Matched, Remembered
<1> QED
  BY <1>1, <1>2, <1>3, <1>4, <1>5, <1>6, <1>7 DEF IInv

LEMMA MarkAllKeeps == IInv /\ MarkAll => IInv'
<1> SUFFICES ASSUME IInv, MarkAll PROVE IInv'
    OBVIOUS
<1> USE DEF MarkAll, world, memory, decision, tables, history, mark, Marked, Noted, Saved
<1>1. Typed'
  BY DEF IInv, Typed
<1>2. Matched'
  BY DEF IInv, Matched, open_for
<1>3. OneEach'
  BY DEF IInv, Matched, OneEach, open_for
<1>4. Fresh'
  BY DEF IInv, Typed, Fresh
<1>5. Booked'
  BY DEF IInv, Typed, Matched, Booked, open_for
<1>6. Passed'
  BY DEF IInv, Matched, Passed, Due
<1>7. Remembered'
  BY DEF IInv, Matched, Remembered
<1> QED
  BY <1>1, <1>2, <1>3, <1>4, <1>5, <1>6, <1>7 DEF IInv

LEMMA SaveDecisionKeeps == IInv /\ SaveDecision => IInv'
<1> SUFFICES ASSUME IInv, SaveDecision PROVE IInv'
    OBVIOUS
<1> USE DEF SaveDecision, world, memory, decision, tables, history, Saved, NoDecision
<1>1. Typed'
  BY DEF IInv, Typed
<1>2. Matched'
  BY DEF IInv, Matched, open_for
<1>3. OneEach'
  BY DEF IInv, Matched, OneEach, open_for
<1>4. Fresh'
  BY DEF IInv, Typed, Fresh
<1>5. Booked'
  BY DEF IInv, Typed, Matched, Booked, open_for
<1>6. Passed'
  BY DEF IInv, Matched, Passed, Due
<1>7. Remembered'
  BY DEF IInv, Matched, Remembered
<1> QED
  BY <1>1, <1>2, <1>3, <1>4, <1>5, <1>6, <1>7 DEF IInv

LEMMA StepFailsKeeps == IInv /\ StepFails => IInv'
<1> SUFFICES ASSUME IInv, StepFails PROVE IInv'
    OBVIOUS
<1> USE DEF StepFails, world, memory, decision, tables, history, Failed, skip, NoDecision
<1>1. Typed'
  BY DEF IInv, Typed
<1>2. Matched'
  BY DEF IInv, Matched, open_for
<1>3. OneEach'
  BY DEF IInv, Matched, OneEach, open_for
<1>4. Fresh'
  BY DEF IInv, Typed, Fresh
<1>5. Booked'
  BY DEF IInv, Typed, Matched, Booked, open_for
<1>6. Passed'
  BY DEF IInv, Matched, Passed, Due
<1>7. Remembered'
  BY DEF IInv, Matched, Remembered
<1> QED
  BY <1>1, <1>2, <1>3, <1>4, <1>5, <1>6, <1>7 DEF IInv

LEMMA PartTakenKeeps == IInv /\ PartTaken => IInv'
<1> SUFFICES ASSUME IInv, PartTaken PROVE IInv'
    OBVIOUS
<1> USE DEF skip, NoDecision
<1>1. /\ pc' = "up" /\ decided_on' = day /\ torn' = TRUE /\ dirty' = FALSE /\ todo' = {}
      /\ UNCHANGED << mode, day, open, marks, trades_today, rows, trades, state, ledger >>
  BY DEF PartTaken, tables
<1>2. /\ made' \in 0 .. MaxIds /\ made' >= made /\ DOMAIN venue' = Ids
      /\ \A k \in Ids : k > made' => venue'[k] = venue[k]
  <2>1. CASE \E i \in todo : venue' = [venue EXCEPT ![i] = @ - 1] /\ UNCHANGED made
    <3>1. PICK i \in todo : venue' = [venue EXCEPT ![i] = @ - 1] /\ UNCHANGED made
      BY <2>1
    <3>2. i \in open /\ \A k \in Ids : k > made => k # i
      BY DEF IInv, OneEach, Fresh
    <3> QED
      BY <3>1, <3>2, BoundsAssumption DEF IInv, Typed
  <2>2. CASE made < MaxIds /\ made' = made + 1 /\ venue' = [venue EXCEPT ![made'] = @ + 1]
    BY <2>2, BoundsAssumption DEF IInv, Typed, Ids
  <2> QED
    BY <2>1, <2>2 DEF PartTaken
<1>3. Typed'
  BY <1>1, <1>2 DEF IInv, Typed
<1>4. Matched' /\ OneEach'
  BY <1>1 DEF IInv, Matched, OneEach, open_for
<1>5. Fresh'
  BY <1>1, <1>2, BoundsAssumption DEF IInv, Typed, Fresh, Ids
<1>6. Booked' /\ Passed'
  BY <1>1 DEF Booked, Passed
<1>7. Remembered'
  BY <1>1 DEF IInv, Typed, Remembered, PartTaken
<1> QED
  BY <1>3, <1>4, <1>5, <1>6, <1>7 DEF IInv

LEMMA ShutdownKeeps == IInv /\ _shutdown => IInv'
<1> SUFFICES ASSUME IInv, _shutdown PROVE IInv'
    OBVIOUS
<1> USE DEF _shutdown, world, memory, decision, tables, history, Down, NoDecision, LedgerRow, Marked, Noted
<1>1. Typed'
  BY DEF IInv, Typed
<1>2. Matched'
  BY DEF IInv, Matched, open_for
<1>3. OneEach'
  BY DEF IInv, Matched, OneEach, open_for
<1>4. Fresh'
  BY DEF IInv, Typed, Fresh
<1>5. Booked'
  BY DEF IInv, Typed, Matched, Booked, open_for
<1>6. Passed'
  BY DEF IInv, Matched, Passed, Due
<1>7. Remembered'
  BY DEF IInv, Matched, Remembered
<1> QED
  BY <1>1, <1>2, <1>3, <1>4, <1>5, <1>6, <1>7 DEF IInv

LEMMA StutterKeeps == IInv /\ UNCHANGED vars => IInv'
  BY DEF vars, IInv, Typed, Matched, OneEach, Fresh, Booked, Passed, Due, Remembered, open_for

LEMMA StepKeeps == IInv /\ [Next]_vars => IInv'
  BY LoadKeeps, CrashKeeps, NextDayKeeps, ShutdownKeeps, DecideKeeps, QuotesFailKeeps, KeepKeeps,
     CloseKeeps, WriteCloseKeeps, WriteTradeKeeps, ExitsDoneKeeps, NoEntryKeeps, OpenKeeps,
     InsertRowKeeps, MarkAllKeeps, SaveDecisionKeeps, StepFailsKeeps, PartTakenKeeps, StutterKeeps
     DEF Next

----------------------------------------------------------------------------
(* The theorems                                                            *)

\* Every state the decisions, failures, ends and restarts of the slot can reach
\* satisfies IInv.
THEOREM Inductive == Spec => []IInv
  BY InitHolds, StepKeeps, PTL DEF Spec

LEMMA AtMostOne ==
  ASSUME NEW S, \A i, j \in S : i = j
  PROVE  Cardinality(S) <= 1
<1>1. CASE S = {}
  BY <1>1, FS_EmptySet
<1>2. CASE S # {}
  <2>1. PICK i \in S : S = {i}
    BY <1>2
  <2>2. Cardinality({i}) = 1
    BY FS_Singleton
  <2> QED
    BY <2>1, <2>2
<1> QED
  BY <1>1, <1>2

\* _decide_options: the slot holds one structure at a time, and unless a decision
\* ended half saved its row, its trade, its legs and the ledger agree.
THEOREM StructuresSettled == Spec => []Settled
<1>1. IInv => Settled
  <2> SUFFICES ASSUME IInv PROVE Settled
      OBVIOUS
  <2>1. Cardinality(open) <= 1 /\ Cardinality(open_for) <= 1
    BY AtMostOne DEF IInv, OneEach
  <2>2. ASSUME ~torn, ~dirty, NEW i \in Ids
        PROVE  /\ trades[i] = IF rows[i].status = "closed" THEN 1 ELSE 0
               /\ venue[i] = IF rows[i].status = "open" /\ mode = "live" THEN 2 ELSE 0
               /\ \A d \in Days : i \in ledger[d] => rows[i].status = "closed"
    BY <2>2 DEF IInv, Booked
  <2> QED
    BY <2>1, <2>2 DEF Settled, open_for
<1> QED
  BY Inductive, <1>1, PTL

\* lifecycle.exit_reason: where a package is not due the day it is opened, a
\* completed decision leaves none open that is.
THEOREM DueAreClosed == ASSUME CloseAfter > 0 PROVE Spec => []DueClosed
<1>1. IInv => DueClosed
  BY DEF IInv, Passed, DueClosed
<1> QED
  BY Inductive, <1>1, PTL

\* _fallback_exit_value: a close is priced from the legs, the mark or the exercise
\* value, never at the entry, and at the exercise value only without a saved mark.
THEOREM MarksOutlive == Spec => PricedFromMark
<1>1. ASSUME IInv, [Next]_vars, NEW i \in Ids,
             rows[i].status = "open", rows'[i].status = "closed"
      PROVE  /\ rows'[i].source # "entry"
             /\ rows'[i].source = "intrinsic" => i \notin DOMAIN state.marks
  <2>1. CASE WriteClose
    <3> DEFINE row == [status |-> "closed", v_entry |-> rows[closing.id].v_entry,
                       opened |-> rows[closing.id].opened,
                       v_exit |-> closing.v_exit, source |-> closing.source]
    <3>1. pc = "row" /\ closing.id \in Ids /\ rows' = [rows EXCEPT ![closing.id] = row]
      BY <1>1, <2>1 DEF WriteClose, CloseRow, IInv, Matched
    <3>2. row.source = closing.source
      OBVIOUS
    <3> HIDE DEF row
    <3>3. i = closing.id /\ rows'[i] = row
      BY <1>1, <3>1 DEF IInv, Typed
    <3> QED
      BY <1>1, <3>1, <3>2, <3>3 DEF IInv, Remembered
  <2>2. CASE InsertRow
    <3>1. i # closing.id
      BY <1>1, <2>2 DEF InsertRow, IInv, Typed, Matched, to_row
    <3> QED
      BY <1>1, <2>2, <3>1 DEF InsertRow, IInv, Typed
  <2>3. CASE UNCHANGED rows
    BY <1>1, <2>3
  <2>4. WriteClose \/ InsertRow \/ UNCHANGED rows
    BY <1>1 DEF Next, vars, load, Crash, NextDay, _shutdown, _decide_options, QuotesFail, Keep,
       _close, WriteTrade, ExitsDone, NoEntry, _open, MarkAll, SaveDecision, StepFails, PartTaken,
       tables
  <2> QED
    BY <2>1, <2>2, <2>3, <2>4
<1>2. IInv /\ [Next]_vars =>
        [\A i \in Ids :
           rows[i].status = "open" /\ rows'[i].status = "closed" =>
             /\ rows'[i].source # "entry"
             /\ rows'[i].source = "intrinsic" => i \notin DOMAIN state.marks]_vars
  BY <1>1
<1> QED
  BY Inductive, <1>2, PTL DEF Spec, PricedFromMark

----------------------------------------------------------------------------
(* The cash                                                                *)

Priced ==
  /\ cash \in Int /\ state.cash \in Int
  /\ \A i \in DOMAIN marks : marks[i] \in Int
  /\ \A i \in DOMAIN state.marks : state.marks[i] \in Int
  /\ \A i \in Ids :
       /\ rows[i].status \in {"none", "open", "closed"}
       /\ rows[i].status # "none" => rows[i].v_entry \in Int
       /\ rows[i].status = "closed" => rows[i].v_exit \in Int
  /\ pc = "row" => closing.v_exit \in Int
  /\ pc = "insert" => closing.v_entry \in Int

\* What the cash holds already and the table does not.
InHand ==
  CASE pc = "row" -> closing.v_exit
    [] pc = "insert" -> -closing.v_entry
    [] OTHER -> 0

Contributions == [i \in Ids |-> Contribution(i)]

(***************************************************************************)
(* Balanced at every step: the cash of the process is ahead of the table   *)
(* by the structure in hand, and the saved cash is the table's unless the  *)
(* decision has something unsaved.                                         *)
(***************************************************************************)
Accounted ==
  ~torn =>
    /\ pc # "down" => cash = Total(Contributions) + InHand
    /\ ~dirty => state.cash = Total(Contributions)

LEMMA PricedInit == Init => Priced
  BY DEF Init, Priced, NoRow, Unmarked

\* What the actions that neither price nor write anything leave alone.
LEMMA PricedFrame ==
  ASSUME Priced, cash' \in {0, cash, state.cash}, rows' = rows, pc' \notin {"row", "insert"},
         \A i \in DOMAIN marks' : marks'[i] \in Int,
         state'.cash \in {cash, state.cash}, \A i \in DOMAIN state'.marks : state'.marks[i] \in Int
  PROVE  Priced'
  BY DEF Priced

LEMMA PricedClose == IInv /\ Priced /\ _close => Priced'
<1> SUFFICES ASSUME IInv, Priced, _close PROVE Priced'
    OBVIOUS
<1>1. PICK i \in todo : \E x \in ExitValues(i) :
        /\ cash' = cash + Proceeds(i, x.value)
        /\ closing' = [id |-> i, v_exit |-> x.value, source |-> x.source]
  BY DEF _close
<1>2. PICK x \in ExitValues(i) :
        /\ cash' = cash + Proceeds(i, x.value)
        /\ closing' = [id |-> i, v_exit |-> x.value, source |-> x.source]
  BY <1>1
<1>3. i \in Ids /\ rows[i].status = "open"
  BY DEF _close, IInv, Typed, OneEach, Matched, open_for
<1>4. x.value \in Int
  <2>1. CASE \E src : x \in [value : Values, source : {src}]
    BY <2>1, ValuesAssumption
  <2>2. CASE i \in DOMAIN marks /\ x = [value |-> marks[i], source |-> "mark"]
    BY <2>2 DEF Priced
  <2>3. CASE x = [value |-> rows[i].v_entry, source |-> "entry"]
    BY <1>3, <2>3 DEF Priced
  <2> QED
    BY <2>1, <2>2, <2>3 DEF ExitValues, _fallback_exit_value
<1>5. closing'.v_exit = x.value /\ cash' \in Int
  BY <1>2, <1>4 DEF Priced, Proceeds
<1>6. \A k \in DOMAIN marks' : marks'[k] \in Int
  BY DEF _close, Restrict, Priced
<1>7. pc' = "row" /\ rows' = rows /\ state' = state
  BY DEF _close, tables
<1> QED
  BY <1>4, <1>5, <1>6, <1>7 DEF Priced

LEMMA PricedOpen == Priced /\ _open => Priced'
<1> SUFFICES ASSUME Priced, _open PROVE Priced'
    OBVIOUS
<1>1. PICK v \in Values, m \in Values :
        /\ cash' = cash - v
        /\ marks' = Noted([i \in {made'} |-> m])
        /\ closing' = [id |-> made', v_entry |-> v]
  BY DEF _open
<1>2. v \in Int /\ m \in Int
  BY ValuesAssumption
<1>3. closing'.v_entry = v /\ cash' \in Int
  BY <1>1, <1>2 DEF Priced
<1>4. \A k \in DOMAIN marks' : marks'[k] \in Int
  BY <1>1, <1>2 DEF Noted, Priced
<1>5. pc' = "insert" /\ rows' = rows /\ state' = state
  BY DEF _open, tables
<1> QED
  BY <1>2, <1>3, <1>4, <1>5 DEF Priced

LEMMA PricedWriteClose == IInv /\ Priced /\ WriteClose => Priced'
<1> SUFFICES ASSUME IInv, Priced, WriteClose PROVE Priced'
    OBVIOUS
<1> DEFINE row == [status |-> "closed", v_entry |-> rows[closing.id].v_entry,
                   opened |-> rows[closing.id].opened,
                   v_exit |-> closing.v_exit, source |-> closing.source]
<1>1. pc' = "trade" /\ UNCHANGED << cash, marks, state >> /\ rows' = [rows EXCEPT ![closing.id] = row]
  BY DEF WriteClose, CloseRow, memory
<1>2. closing.id \in Ids /\ rows[closing.id].status = "open" /\ closing.v_exit \in Int
  BY DEF WriteClose, IInv, Matched, open_for, Priced
<1>3. row.status = "closed" /\ row.v_entry \in Int /\ row.v_exit \in Int
  BY <1>2 DEF Priced
<1> HIDE DEF row
<1>4. \A i \in Ids : rows'[i] = IF i = closing.id THEN row ELSE rows[i]
  BY <1>1 DEF IInv, Typed
<1> QED
  BY <1>1, <1>3, <1>4 DEF Priced

LEMMA PricedInsertRow == IInv /\ Priced /\ InsertRow => Priced'
<1> SUFFICES ASSUME IInv, Priced, InsertRow PROVE Priced'
    OBVIOUS
<1>1. pc' = "mark" /\ UNCHANGED << cash, marks, state >>
      /\ rows' = [rows EXCEPT ![closing.id] = to_row(closing)]
  BY DEF InsertRow, memory
<1>2. to_row(closing).status = "open" /\ to_row(closing).v_entry \in Int
  BY DEF to_row, InsertRow, Priced
<1>3. \A i \in Ids : rows'[i] = IF i = closing.id THEN to_row(closing) ELSE rows[i]
  BY <1>1 DEF IInv, Typed
<1> QED
  BY <1>1, <1>2, <1>3 DEF Priced

LEMMA MarkedInt ==
  ASSUME Priced, NEW asked, NEW ms \in Marked(asked)
  PROVE  \A i \in DOMAIN ms : ms[i] \in Int
  BY ValuesAssumption DEF Marked, Noted, Priced

LEMMA PricedKeeps == IInv /\ Priced /\ [Next]_vars => Priced'
<1> SUFFICES ASSUME IInv, Priced, [Next]_vars PROVE Priced'
    OBVIOUS
<1>1. CASE load
  BY <1>1, PricedFrame DEF load, tables, Restored, Restrict, Priced
<1>2. CASE Crash
  BY <1>2, PricedFrame DEF Crash, Down, tables, Unmarked, Priced
<1>3. CASE _shutdown
  <2>1. state'.cash \in {cash, state.cash} /\ \A i \in DOMAIN state'.marks : state'.marks[i] \in Int
    BY <1>3, MarkedInt DEF _shutdown, Priced
  <2> QED
    BY <1>3, <2>1, PricedFrame DEF _shutdown, Down, Unmarked
<1>4. CASE MarkAll
  <2>1. \A i \in DOMAIN marks' : marks'[i] \in Int
    BY <1>4, MarkedInt DEF MarkAll, mark
  <2> QED
    BY <1>4, <2>1, PricedFrame DEF MarkAll, mark, Saved
<1>5. CASE SaveDecision
  BY <1>5, PricedFrame DEF SaveDecision, Saved, Priced
<1>6. CASE NextDay \/ _decide_options \/ QuotesFail \/ Keep \/ WriteTrade \/ ExitsDone \/ NoEntry
           \/ StepFails \/ PartTaken \/ UNCHANGED vars
  <2>1. UNCHANGED << cash, marks, rows, state >> /\ ((pc' = pc /\ closing' = closing)
                                                     \/ pc' \notin {"row", "insert"})
    BY <1>6 DEF NextDay, _decide_options, QuotesFail, Keep, WriteTrade, ExitsDone, NoEntry,
       StepFails, PartTaken, vars, tables, memory, decision, Failed
  <2> QED
    BY <2>1 DEF Priced
<1> QED
  BY <1>1, <1>2, <1>3, <1>4, <1>5, <1>6, PricedClose, PricedOpen, PricedWriteClose,
     PricedInsertRow DEF Next

----------------------------------------------------------------------------
(* The balance                                                             *)

LEMMA TotalIsSum == ASSUME NEW f PROVE Total(f) = SumOf(f)
  BY DEF Total, SumOf

LEMMA ContributionsAre ==
  ASSUME Priced
  PROVE  Contributions \in [Ids -> Int] /\ IsFiniteSet(Ids) /\ Total(Contributions) \in Int
<1>1. Contributions \in [Ids -> Int]
  BY DEF Contributions, Contribution, Priced
<1>2. IsFiniteSet(Ids)
  BY BoundsAssumption, FS_Interval DEF Ids
<1> QED
  BY <1>1, <1>2, SumType, TotalIsSum

LEMMA AccountedInit == Init => Accounted
<1> SUFFICES ASSUME Init PROVE Accounted
    OBVIOUS
<1>1. Contributions = [i \in Ids |-> 0]
  BY DEF Init, Contributions, Contribution, NoRow
<1>2. IsFiniteSet(Ids)
  BY BoundsAssumption, FS_Interval DEF Ids
<1>3. DOMAIN Contributions = Ids
  BY <1>1
<1>4. Total(Contributions) = 0
  BY <1>1, <1>2, <1>3, SumOfZeros, TotalIsSum
<1> QED
  BY <1>4 DEF Init, Accounted

\* One row changes: the total changes with what that structure contributes.
LEMMA RowChanges ==
  ASSUME Priced, Priced', NEW k \in Ids, \A i \in Ids \ {k} : rows'[i] = rows[i]
  PROVE  Total(Contributions)' = Total(Contributions) + Contribution(k)' - Contribution(k)
<1>1. Contributions \in [Ids -> Int] /\ Contributions' \in [Ids -> Int] /\ IsFiniteSet(Ids)
  <2>1. Contributions' \in [Ids -> Int]
    BY DEF Contributions, Contribution, Priced
  <2> QED
    BY <2>1, ContributionsAre
<1>2. \A j \in Ids \ {k} : Contributions'[j] = Contributions[j]
  <2> SUFFICES ASSUME NEW j \in Ids \ {k} PROVE Contribution(j)' = Contribution(j)
      BY DEF Contributions
  <2>1. rows'[j] = rows[j] /\ rows[j].status \in {"none", "open", "closed"}
    BY DEF Priced
  <2> QED
    BY <2>1 DEF Contribution
<1>3. SumOf(Contributions') = SumOf(Contributions) + Contributions'[k] - Contributions[k]
  <2> DEFINE f == Contributions
             h == Contributions'
  <2>1. f \in [Ids -> Int] /\ h \in [Ids -> Int] /\ \A j \in Ids \ {k} : h[j] = f[j]
    BY <1>1, <1>2
  <2> HIDE DEF f, h
  <2>2. SumOf(h) = SumOf(f) + h[k] - f[k]
    BY <1>1, <2>1, SumChanges
  <2> QED
    BY <2>2 DEF f, h
<1>4. Contributions'[k] = Contribution(k)' /\ Contributions[k] = Contribution(k)
  BY DEF Contributions, Contribution
<1> QED
  BY <1>3, <1>4, TotalIsSum

LEMMA RowsKept ==
  ASSUME Priced, rows' = rows
  PROVE  Total(Contributions)' = Total(Contributions)
<1>1. Contributions' = Contributions
  BY DEF Contributions, Contribution
<1> QED
  BY <1>1, TotalIsSum

LEMMA AccountedClose == IInv /\ Priced /\ Accounted /\ _close => Accounted'
<1> SUFFICES ASSUME IInv, Priced, Accounted, _close, ~torn' PROVE Accounted'
    BY DEF Accounted
<1>1. PICK i \in todo : Sent(i, leg_orders(TRUE)) /\ \E x \in ExitValues(i) :
        /\ cash' = cash + Proceeds(i, x.value)
        /\ closing' = [id |-> i, v_exit |-> x.value, source |-> x.source]
  BY DEF _close
<1>2. PICK x \in ExitValues(i) :
        /\ cash' = cash + Proceeds(i, x.value)
        /\ closing' = [id |-> i, v_exit |-> x.value, source |-> x.source]
  BY <1>1
<1>3. closing'.v_exit = x.value /\ ~torn /\ pc = "exits" /\ pc' = "row" /\ dirty' = TRUE
  BY <1>1, <1>2 DEF _close, Sent
<1>4. Total(Contributions)' = Total(Contributions)
  BY RowsKept DEF _close, tables
<1>5. cash = Total(Contributions) + 0 /\ cash' = cash + closing'.v_exit
  BY <1>2, <1>3 DEF Accounted, InHand, Proceeds
<1>6. cash' = Total(Contributions)' + closing'.v_exit
  BY <1>4, <1>5, ContributionsAre
<1> QED
  BY <1>3, <1>6 DEF Accounted, InHand

LEMMA AccountedOpen == IInv /\ Priced /\ Accounted /\ _open => Accounted'
<1> SUFFICES ASSUME IInv, Priced, Accounted, _open, ~torn' PROVE Accounted'
    BY DEF Accounted
<1>1. PICK v \in Values : cash' = cash - v /\ closing' = [id |-> made', v_entry |-> v]
  BY DEF _open
<1>2. closing'.v_entry = v /\ ~torn /\ pc = "entry" /\ pc' = "insert" /\ dirty' = TRUE
  BY <1>1 DEF _open, Sent
<1>3. Total(Contributions)' = Total(Contributions)
  BY RowsKept DEF _open, tables
<1>4. cash = Total(Contributions) + 0 /\ v \in Int
  BY <1>2, ValuesAssumption DEF Accounted, InHand
<1>5. cash' = Total(Contributions)' + (-closing'.v_entry)
  BY <1>1, <1>2, <1>3, <1>4, ContributionsAre
<1> QED
  BY <1>2, <1>5 DEF Accounted, InHand

LEMMA AccountedWriteClose == IInv /\ Priced /\ Accounted /\ WriteClose => Accounted'
<1> SUFFICES ASSUME IInv, Priced, Accounted, WriteClose, ~torn' PROVE Accounted'
    BY DEF Accounted
<1>1. PICK k \in Ids : k = closing.id
  BY DEF IInv, Matched, WriteClose
<1> DEFINE row == [status |-> "closed", v_entry |-> rows[k].v_entry, opened |-> rows[k].opened,
                   v_exit |-> closing.v_exit, source |-> closing.source]
<1>2. /\ pc = "row" /\ pc' = "trade" /\ ~torn /\ dirty' = dirty /\ dirty /\ cash' = cash
      /\ rows' = [rows EXCEPT ![k] = row]
  BY <1>1 DEF WriteClose, CloseRow, memory, history, IInv, Booked
<1>3. rows[k].status = "open" /\ closing.v_exit \in Int /\ rows[k].v_entry \in Int
  BY <1>1, <1>2 DEF IInv, Matched, open_for, Priced
<1>4. row.status = "closed" /\ row.v_entry = rows[k].v_entry /\ row.v_exit = closing.v_exit
  OBVIOUS
<1> HIDE DEF row
<1>5. rows'[k] = row /\ \A i \in Ids \ {k} : rows'[i] = rows[i]
  BY <1>2 DEF IInv, Typed
<1>6. Contribution(k) = -rows[k].v_entry /\ Contribution(k)' = closing.v_exit - rows[k].v_entry
  BY <1>3, <1>4, <1>5 DEF Contribution
<1>7. Total(Contributions)' = Total(Contributions) + Contribution(k)' - Contribution(k)
  BY <1>5, PricedWriteClose, RowChanges
<1>8. cash = Total(Contributions) + closing.v_exit
  BY <1>2 DEF Accounted, InHand
<1>9. cash' = Total(Contributions)' + 0
  BY <1>2, <1>3, <1>6, <1>7, <1>8, ContributionsAre
<1> QED
  BY <1>2, <1>9 DEF Accounted, InHand

LEMMA AccountedInsertRow == IInv /\ Priced /\ Accounted /\ InsertRow => Accounted'
<1> SUFFICES ASSUME IInv, Priced, Accounted, InsertRow, ~torn' PROVE Accounted'
    BY DEF Accounted
<1>1. PICK k \in Ids : k = closing.id
  BY DEF IInv, Matched, InsertRow
<1>2. /\ pc = "insert" /\ pc' = "mark" /\ ~torn /\ dirty' = dirty /\ dirty /\ cash' = cash
      /\ rows' = [rows EXCEPT ![k] = to_row(closing)]
  BY <1>1 DEF InsertRow, memory, history, IInv, Booked
<1>3. rows[k].status = "none" /\ closing.v_entry \in Int
  BY <1>1, <1>2 DEF IInv, Matched, Priced
<1>4. to_row(closing).status = "open" /\ to_row(closing).v_entry = closing.v_entry
  BY DEF to_row
<1>5. rows'[k] = to_row(closing) /\ \A i \in Ids \ {k} : rows'[i] = rows[i]
  BY <1>2 DEF IInv, Typed
<1>6. Contribution(k) = 0 /\ Contribution(k)' = -closing.v_entry
  BY <1>3, <1>4, <1>5 DEF Contribution
<1>7. Total(Contributions)' = Total(Contributions) + Contribution(k)' - Contribution(k)
  BY <1>5, PricedInsertRow, RowChanges
<1>8. cash = Total(Contributions) + (-closing.v_entry)
  BY <1>2 DEF Accounted, InHand
<1>9. cash' = Total(Contributions)' + 0
  BY <1>2, <1>3, <1>6, <1>7, <1>8, ContributionsAre
<1> QED
  BY <1>2, <1>9 DEF Accounted, InHand

\* A process reads the saved cash, or saves its own, when the two are the same.
LEMMA AccountedSaved ==
  ASSUME IInv, Priced, Accounted,
         load \/ _shutdown \/ Crash \/ MarkAll \/ SaveDecision
  PROVE  Accounted'
<1> SUFFICES ASSUME ~torn' PROVE Accounted'
    BY DEF Accounted
<1>1. Total(Contributions)' = Total(Contributions) /\ Total(Contributions) \in Int
  <2>1. rows' = rows
    BY DEF load, _shutdown, Crash, MarkAll, SaveDecision, tables
  <2> QED
    BY <2>1, RowsKept, ContributionsAre
<1>2. ~torn /\ (pc \in {"up", "down", "save"} => ~dirty)
  <2>1. ~torn
    BY DEF load, _shutdown, Crash, MarkAll, SaveDecision, history
  <2> QED
    BY <2>1 DEF IInv, Booked
<1>3. CASE load
  BY <1>1, <1>2, <1>3 DEF load, Accounted, InHand, tables, history
<1>4. CASE _shutdown
  <2>1. pc = "up" /\ pc' = "down" /\ state'.cash \in {cash, state.cash}
    BY <1>4 DEF _shutdown, Down
  <2>2. cash = Total(Contributions) + 0 /\ state.cash = Total(Contributions)
    BY <1>2, <2>1 DEF Accounted, InHand
  <2> QED
    BY <1>1, <2>1, <2>2 DEF Accounted
<1>5. CASE Crash
  <2>1. pc' = "down" /\ ~dirty /\ state' = state
    BY <1>5 DEF Crash, Down, tables
  <2> QED
    BY <1>1, <1>2, <2>1 DEF Accounted
<1>6. CASE MarkAll
  <2>1. pc = "mark" /\ pc' = "save" /\ cash' = cash /\ state'.cash = cash
    BY <1>6 DEF MarkAll, mark, Saved
  <2> QED
    BY <1>1, <1>2, <2>1 DEF Accounted, InHand
<1>7. CASE SaveDecision
  <2>1. pc = "save" /\ pc' = "up" /\ cash' = cash /\ state'.cash = cash
    BY <1>7 DEF SaveDecision, Saved
  <2> QED
    BY <1>1, <1>2, <2>1 DEF Accounted, InHand
<1> QED
  BY <1>3, <1>4, <1>5, <1>6, <1>7

\* The others leave the cash, what was saved and the table.
LEMMA AccountedKept ==
  ASSUME IInv, Priced, Accounted,
         \/ NextDay \/ _decide_options \/ QuotesFail \/ Keep \/ WriteTrade \/ ExitsDone \/ NoEntry
         \/ StepFails \/ PartTaken \/ UNCHANGED vars
  PROVE  Accounted'
<1> SUFFICES ASSUME ~torn' PROVE Accounted'
    BY DEF Accounted
<1>1. cash' = cash /\ rows' = rows /\ state' = state
  BY DEF NextDay, _decide_options, QuotesFail, Keep, WriteTrade, ExitsDone, NoEntry,
     StepFails, PartTaken, vars, tables, memory
<1>2. Total(Contributions)' = Total(Contributions)
  BY <1>1, RowsKept
<1>3. CASE pc' = pc /\ closing' = closing /\ dirty' = dirty /\ torn' = torn
  BY <1>1, <1>2, <1>3 DEF Accounted, InHand
<1>4. CASE /\ pc \notin {"down", "row", "insert"} /\ pc' \notin {"down", "row", "insert"}
           /\ dirty' = dirty /\ torn' = torn
  BY <1>1, <1>2, <1>4 DEF Accounted, InHand
<1>5. CASE /\ pc' = "up" /\ ~torn /\ ~dirty
           /\ pc # "down"
  BY <1>1, <1>2, <1>5 DEF IInv, Booked, Accounted, InHand
<1> QED
  BY <1>3, <1>4, <1>5 DEF NextDay, _decide_options, QuotesFail, Keep, WriteTrade, ExitsDone,
     NoEntry, StepFails, PartTaken, vars, history, memory, decision, Failed

LEMMA AccountedKeeps == IInv /\ Priced /\ Accounted /\ [Next]_vars => Accounted'
  BY AccountedClose, AccountedOpen, AccountedWriteClose, AccountedInsertRow, AccountedSaved,
     AccountedKept DEF Next

\* OptionsState: the saved cash is the sum of what every structure of the table cost
\* and brought, over skipped days, failed decisions and restarts.
THEOREM CashBalances == Spec => []Balanced
<1>1. Init => IInv /\ Priced /\ Accounted
  BY InitHolds, PricedInit, AccountedInit
<1>2. IInv /\ Priced /\ Accounted /\ [Next]_vars => (IInv /\ Priced /\ Accounted)'
  BY StepKeeps, PricedKeeps, AccountedKeeps
<1>3. Accounted => Balanced
  BY DEF Accounted, Balanced, Contributions
<1> QED
  BY <1>1, <1>2, <1>3, PTL DEF Spec
=============================================================================
