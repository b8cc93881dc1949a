----------------------------- MODULE OptionsSlot -----------------------------
(***************************************************************************)
(* options/slot.py with its rules in options/lifecycle.py, its hooks in    *)
(* runner.py and its repository in storage/repos.py: one structure at a    *)
(* time, decided once a day, across the processes of the days and their    *)
(* restarts.                                                               *)
(*                                                                         *)
(* A structure is one unit of a package whose value is a member of Values; *)
(* cash is counted from the slot's capital.  Each statement on the         *)
(* database is committed on its own.                                       *)
(***************************************************************************)
EXTENDS Integers, FiniteSetsExt, Functions

CONSTANTS
  Values,     \* of a package: negative for a credit
  Capital,
  CloseAfter, \* days from the opening to close_dte
  MaxIds,     \* bound: structures of a behaviour
  MaxDays,    \* bound: days of a behaviour
  MaxStarts   \* bound: processes of a behaviour

ASSUME ValuesAssumption == Values \subseteq Int /\ Values # {} /\ Capital \in Nat
ASSUME BoundsAssumption ==
  /\ CloseAfter \in Nat /\ MaxIds \in Nat
  /\ MaxDays \in Nat \ {0} /\ MaxStarts \in Nat

VARIABLES
  mode,       \* shadow, or live: legs go to the paper account
  day,
  pc,         \* where the process is
  cash, open, marks, last_value, decided_on, trades_today,  \* the slot's memory
  quotes,     \* in this decision: of the legs, two-sided, ask or bid alone or none,
              \* and whether the underlying has a price
  todo,       \* structures it has still to come to
  closing,    \* the close it is recording
  made,       \* structures made so far
  rows,       \* structures table
  trades,     \* trades table: structure -> trades booked
  state,      \* bot_state "options:<id>"
  ledger,     \* ledger table: day -> structures whose trades its row counts
  venue,      \* structure -> legs held at the venue, 2 for all of them
  starts,
  dirty,      \* history: the decision has changed something not yet saved
  torn        \* history: a process ended or a decision failed so, or the
              \* venue took part of a structure or took it twice

memory == << cash, open, marks, last_value, decided_on, trades_today >>
decision == << quotes, todo, closing >>
tables == << rows, trades, state, ledger >>
world == << mode, day, venue, starts, made >>
history == << dirty, torn >>
vars == << mode, day, pc, cash, open, marks, last_value, decided_on, trades_today, quotes,
           todo, closing, made, rows, trades, state, ledger, venue, starts, dirty, torn >>

Ids == 1 .. MaxIds
Days == 1 .. MaxDays
Quotes == [legs : {"two", "ask", "bid", "none"}, spot : BOOLEAN]
NoQuotes == [legs |-> "none", spot |-> FALSE]
NoRow == [status |-> "none"]
NoClose == [id |-> 0]
Unmarked == << >>

NoDecision == quotes' = NoQuotes /\ todo' = {} /\ closing' = NoClose

Init ==
  /\ mode \in {"shadow", "live"} /\ day = 1 /\ pc = "down"
  /\ cash = 0 /\ open = {} /\ marks = Unmarked /\ last_value = 0 /\ decided_on = 0
  /\ trades_today = {} /\ quotes = NoQuotes /\ todo = {} /\ closing = NoClose /\ made = 0
  /\ rows = [i \in Ids |-> NoRow] /\ trades = [i \in Ids |-> 0]
  /\ state = [cash |-> 0, marks |-> Unmarked, decided_on |-> 0]
  /\ ledger = [d \in Days |-> {}] /\ venue = [i \in Ids |-> 0] /\ starts = 0
  /\ dirty = FALSE /\ torn = FALSE

\* The sum of what a function assigns.
Total(f) == MapThenSumSet(LAMBDA i : f[i], DOMAIN f)

\* The marks with these values in place of older ones.
Noted(fresh) ==
  [i \in DOMAIN fresh \cup DOMAIN marks |-> IF i \in DOMAIN fresh THEN fresh[i] ELSE marks[i]]

----------------------------------------------------------------------------
(* Start, end                                                              *)

\* Mutant: the marks are not restored, as before 2026-10-29.
Restored_None(held) == Unmarked

Restored(held) == Restrict(state.marks, held \cap DOMAIN state.marks)

open_for == {i \in Ids : rows[i].status = "open"}

load ==
  /\ pc = "down" /\ starts < MaxStarts
  /\ starts' = starts + 1 /\ pc' = "up"
  /\ open' = open_for
  /\ cash' = state.cash /\ decided_on' = state.decided_on
  /\ marks' = Restored(open') /\ last_value' = Total(marks')
  /\ trades_today' = {}
  /\ UNCHANGED << mode, day, venue, made, decision, tables, history >>

Down ==
  /\ pc' = "down"
  /\ cash' = 0 /\ open' = {} /\ marks' = Unmarked /\ last_value' = 0 /\ decided_on' = 0
  /\ trades_today' = {} /\ NoDecision

Crash ==
  /\ pc # "down" /\ Down
  /\ torn' = (torn \/ dirty) /\ dirty' = FALSE
  /\ UNCHANGED << world, tables >>

NextDay ==
  /\ pc = "down" /\ day < MaxDays
  /\ day' = day + 1
  /\ UNCHANGED << mode, venue, starts, made, pc, memory, decision, tables, history >>

----------------------------------------------------------------------------
(* The decision                                                            *)

skip == decided_on' = day

\* Mutant: a decision without a price of the underlying is made.
SpotKnown_Always(q) == TRUE

SpotKnown(q) == q.spot

_decide_options ==
  /\ pc = "up" /\ decided_on # day
  /\ \E q \in Quotes :
       IF SpotKnown(q)
       THEN /\ pc' = "exits" /\ quotes' = q /\ todo' = open
            /\ UNCHANGED << decided_on, closing >>
       ELSE skip /\ UNCHANGED << pc, decision >>
  /\ UNCHANGED << world, cash, open, marks, last_value, trades_today, tables, history >>

\* The exception is caught around the whole decision: the day is given up.
Failed ==
  /\ skip /\ pc' = "up" /\ NoDecision
  /\ torn' = (torn \/ dirty) /\ dirty' = FALSE

QuotesFail ==
  /\ pc = "up" /\ decided_on # day
  /\ Failed
  /\ UNCHANGED << world, cash, open, marks, last_value, trades_today, tables >>

Due(i) == day >= rows[i].opened + CloseAfter

\* Mutant: without a value there is no exit.
exit_reasons_ValueFirst(i) ==
  IF quotes.legs = "none" THEN {"none"}
  ELSE IF Due(i) THEN {"dte"} ELSE {"none", "profit", "stop"}

\* The days to expiry first; the profit target and the stop need a value.
exit_reasons(i) ==
  IF Due(i) THEN {"dte"}
  ELSE IF quotes.legs = "none" THEN {"none"} ELSE {"none", "profit", "stop"}

MayClose(i) == exit_reasons(i) # {"none"}

FillKnown == quotes.legs \in (IF mode = "live" THEN {"two", "ask", "bid"} ELSE {"two", "ask"})

_fallback_exit_value(i) ==
  IF quotes.legs # "none" THEN [value : Values, source : {"mid"}]
  ELSE IF i \in DOMAIN marks THEN {[value |-> marks[i], source |-> "mark"]}
  ELSE IF quotes.spot THEN [value : Values, source : {"intrinsic"}]
  ELSE {[value |-> rows[i].v_entry, source |-> "entry"]}

ExitValues(i) ==
  IF FillKnown THEN [value : Values, source : {"fill"}] ELSE _fallback_exit_value(i)

\* A close takes every leg on the other side.
leg_orders(is_close) == IF is_close THEN -2 ELSE 2

\* Live, stock legs first, then the others.  A submit whose answer is lost is
\* sent again; nothing tells the venue that it has it already.
Sent(i, legs) ==
  IF mode = "shadow" THEN UNCHANGED << venue, torn >>
  ELSE \/ venue' = [venue EXCEPT ![i] = @ + legs] /\ UNCHANGED torn
       \/ venue' = [venue EXCEPT ![i] = @ + 2 * legs] /\ torn' = TRUE

Keep ==
  /\ pc = "exits"
  /\ \E i \in todo : "none" \in exit_reasons(i) /\ todo' = todo \ {i}
  /\ UNCHANGED << world, pc, memory, quotes, closing, tables, history >>

\* Mutant: the profit is booked, not the proceeds.
Proceeds_Profit(i, v) == v - rows[i].v_entry

Proceeds(i, v) == v

_close ==
  /\ pc = "exits"
  /\ \E i \in todo :
       /\ MayClose(i)
       /\ Sent(i, leg_orders(TRUE))
       /\ \E x \in ExitValues(i) :
            /\ cash' = cash + Proceeds(i, x.value)
            /\ closing' = [id |-> i, v_exit |-> x.value, source |-> x.source]
       /\ open' = open \ {i} /\ marks' = Restrict(marks, DOMAIN marks \ {i})
       /\ todo' = todo \ {i} /\ trades_today' = trades_today \cup {i}
  /\ pc' = "row" /\ dirty' = TRUE
  /\ UNCHANGED << mode, day, starts, made, last_value, decided_on, quotes, tables >>

\* Mutant: the row is closed when the slot is next saved.
CloseRow_Later == UNCHANGED rows

CloseRow ==
  LET i == closing.id IN
  rows' = [rows EXCEPT ![i] =
    [status |-> "closed", v_entry |-> rows[i].v_entry, opened |-> rows[i].opened,
     v_exit |-> closing.v_exit, source |-> closing.source]]

WriteClose ==
  /\ pc = "row" /\ pc' = "trade"
  /\ CloseRow
  /\ UNCHANGED << world, memory, decision, trades, state, ledger, history >>

WriteTrade ==
  /\ pc = "trade" /\ pc' = "exits"
  /\ trades' = [trades EXCEPT ![closing.id] = @ + 1]
  /\ closing' = NoClose
  /\ UNCHANGED << world, memory, quotes, todo, rows, state, ledger, history >>

EntryDue == open = {}

ExitsDone ==
  /\ pc = "exits" /\ todo = {}
  /\ pc' = IF EntryDue THEN "entry" ELSE "mark"
  /\ UNCHANGED << world, memory, decision, tables, history >>

equity == Capital + cash + last_value

\* The gate, an empty chain, no strikes, one unit too dear, no two-sided quotes.
NoEntry ==
  /\ pc = "entry" /\ pc' = "mark"
  /\ UNCHANGED << world, memory, decision, tables, history >>

_open ==
  /\ pc = "entry" /\ made < MaxIds
  /\ equity > 0
  /\ made' = made + 1
  /\ Sent(made', leg_orders(FALSE))
  /\ \E v \in Values, m \in Values :
       /\ cash' = cash - v
       /\ marks' = Noted([i \in {made'} |-> m])
       /\ closing' = [id |-> made', v_entry |-> v]
  /\ open' = open \cup {made'}
  /\ pc' = "insert" /\ dirty' = TRUE
  /\ UNCHANGED << mode, day, starts, last_value, decided_on, trades_today, quotes, todo, tables >>

\* The mark is a note of the slot, not of the row.
to_row(st) == [status |-> "open", v_entry |-> st.v_entry, opened |-> day]

InsertRow ==
  /\ pc = "insert" /\ pc' = "mark"
  /\ rows' = [rows EXCEPT ![closing.id] = to_row(closing)]
  /\ UNCHANGED << world, memory, decision, trades, state, ledger, history >>

Saved(d) == state' = [cash |-> cash, decided_on |-> d, marks |-> marks']

\* What has no value now keeps its mark.
Marked(asked) == {Noted(fresh) : fresh \in [open \cap asked -> Values]}

\* The quotes are those of the structures held when the decision began.
mark(asked) ==
  /\ marks' \in Marked(asked)
  /\ last_value' = Total(marks')
  /\ Saved(decided_on)

MarkAll ==
  /\ pc = "mark" /\ pc' = "save"
  /\ mark(IF quotes.legs = "none" THEN {} ELSE open_for \ {closing.id})
  /\ dirty' = FALSE
  /\ UNCHANGED << world, cash, open, decided_on, trades_today, decision, rows, trades, ledger,
                  torn >>

SaveDecision ==
  /\ pc = "save" /\ pc' = "up"
  /\ decided_on' = day
  /\ UNCHANGED marks /\ Saved(day) /\ NoDecision
  /\ UNCHANGED << world, cash, open, last_value, trades_today, rows, trades, ledger, history >>

\* The venue refuses the legs, or a write fails.
StepFails ==
  /\ \/ pc \in {"row", "trade", "insert", "mark", "save"}
     \/ mode = "live" /\ pc = "exits" /\ \E i \in todo : MayClose(i)
     \/ mode = "live" /\ pc = "entry" /\ equity > 0
  /\ Failed
  /\ UNCHANGED << world, cash, open, marks, last_value, trades_today, tables >>

\* The stock leg is taken and the order for the options is refused.
PartTaken ==
  /\ mode = "live"
  /\ \/ /\ pc = "exits"
        /\ \E i \in todo : MayClose(i) /\ venue' = [venue EXCEPT ![i] = @ - 1]
        /\ UNCHANGED made
     \/ /\ pc = "entry" /\ equity > 0 /\ made < MaxIds
        /\ made' = made + 1 /\ venue' = [venue EXCEPT ![made'] = @ + 1]
  /\ skip /\ pc' = "up" /\ NoDecision
  /\ torn' = TRUE /\ dirty' = FALSE
  /\ UNCHANGED << mode, day, starts, cash, open, marks, last_value, trades_today, tables >>

\* A row counts the trades of the process that writes it.
LedgerRow == trades_today

\* With nothing open there is nothing to mark, and nothing is saved.
_shutdown ==
  /\ pc = "up" /\ Down
  /\ \/ open = {} /\ UNCHANGED state /\ ledger' = [ledger EXCEPT ![day] = LedgerRow]
     \/ /\ open # {} /\ ledger' = [ledger EXCEPT ![day] = LedgerRow]
        /\ \E valued \in SUBSET open : \E ms \in Marked(valued) :
             state' = [cash |-> cash, decided_on |-> decided_on, marks |-> ms]
     \/ open # {} /\ UNCHANGED << state, ledger >>  \* no quotes: the failure is logged
  /\ UNCHANGED << world, rows, trades, history >>

Next ==
  \/ load \/ Crash \/ NextDay \/ _shutdown
  \/ _decide_options \/ QuotesFail \/ Keep \/ _close \/ WriteClose \/ WriteTrade \/ ExitsDone
  \/ NoEntry \/ _open \/ InsertRow \/ MarkAll \/ SaveDecision \/ StepFails \/ PartTaken

Spec == Init /\ [][Next]_vars

----------------------------------------------------------------------------
(* Properties                                                              *)

Contribution(i) ==
  CASE rows[i].status = "none" -> 0
    [] rows[i].status = "open" -> -rows[i].v_entry
    [] rows[i].status = "closed" -> rows[i].v_exit - rows[i].v_entry

\* The saved cash is what the structures in the table cost and brought, over
\* skipped days, failed decisions and restarts, unless one ended half saved.
Balanced == ~torn /\ ~dirty => state.cash = Total([i \in Ids |-> Contribution(i)])

\* The slot has one structure at a time, in memory and in the table, and unless one
\* ended half saved a closed one has one trade and is gone from the venue, an open one
\* has none and is held there, and a ledger row counts only closed ones.
Settled ==
  /\ Cardinality(open) <= 1
  /\ ~torn /\ ~dirty =>
     /\ Cardinality({i \in Ids : rows[i].status = "open"}) <= 1
     /\ \A i \in Ids :
          /\ trades[i] = IF rows[i].status = "closed" THEN 1 ELSE 0
          /\ venue[i] = IF rows[i].status = "open" /\ mode = "live" THEN 2 ELSE 0
          /\ \A d \in Days : i \in ledger[d] => rows[i].status = "closed"

\* A structure is never closed at its entry value, and at the exercise value only
\* if no mark of it was ever saved: a mark outlives the process that made it.
PricedFromMark ==
  [][\A i \in Ids :
       rows[i].status = "open" /\ rows'[i].status = "closed" =>
         /\ rows'[i].source # "entry"
         /\ rows'[i].source = "intrinsic" => i \notin DOMAIN state.marks]_vars

\* A completed decision leaves nothing open that was within close_dte of its
\* expiry, quotes or none.
DueClosed == pc = "save" => \A i \in open : ~Due(i)

\* options/slot.py:191 "size from what is left, never from the starting capital":
\* with nothing open, what is left is the cash.
SizedFromCash == [][_open => equity = Capital + cash]_vars
=============================================================================
