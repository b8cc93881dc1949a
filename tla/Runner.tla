------------------------------- MODULE Runner -------------------------------
(***************************************************************************)
(* runner.py with engine.py and operator/risk.py: the live slots of one    *)
(* session, which share one account, one positions table, one risk monitor *)
(* and the queue of control requests the web API fills.                    *)
(*                                                                         *)
(* The bot is one thread; a tick is controls, signals, then per slot poll  *)
(* and write of its rows, then the risk check.  Beside it run the venue,   *)
(* the API, and crashes: memory is lost, the database, the account and     *)
(* the orders at the venue stay.                                           *)
(*                                                                         *)
(* A slot is abstracted to what PositionLifecycle promises of it: per      *)
(* symbol a phase, with the order at the venue that phase waits for.       *)
(***************************************************************************)
EXTENDS Integers, Sequences, FiniteSets

CONSTANTS
  NumSlots,     \* live slots, 1 .. NumSlots in the order of the settings
  Symbols,
  Commands,     \* the commands the API is given here
  WinrateFloor, \* risk.winrate_floor_enabled
  Allocated,    \* the live slots have an allocation: without one losses are not judged
  MaxRequests,  \* bound: control requests of a behaviour
  MaxBuys,      \* bound: buys sent in a behaviour
  MaxCrashes    \* bound: crashes of the process

ASSUME NumSlotsAssumption == NumSlots \in Nat \ {0}
ASSUME CommandsAssumption == Commands \subseteq {"pause", "resume", "flatten", "halt"}
ASSUME WinrateFloorAssumption == WinrateFloor \in BOOLEAN
ASSUME AllocatedAssumption == Allocated \in BOOLEAN
ASSUME BoundsAssumption == MaxRequests \in Nat /\ MaxBuys \in Nat /\ MaxCrashes \in Nat
ASSUME SymbolsAssumption == IsFiniteSet(Symbols)

Slots == 1 .. NumSlots

VARIABLES
  book,       \* slot -> symbol -> cell
  halted,     \* slot -> engine.halted
  booked,     \* slots with a trade booked outside poll (_booked)
  reason,     \* RiskMonitor.halted_reason is set
  realized,   \* some slot's realized_today is of trades, not the initial 0
  stage,      \* where the thread is
  turn,       \* the slot of the loop over slots
  todo,       \* requests of this tick still to be applied, by id
  left,       \* slots the first of them has still to be applied to
  rows,       \* positions table: slot -> symbols recorded for it
  risk_state, \* the database's "risk" key holds a halt
  requests,   \* control_requests, by id
  account,    \* positions at the venue: symbol -> lots
  stray,      \* orders at the venue that are in no book, per symbol
  bought,     \* buys sent
  crashes

memory == << book, halted, booked, reason, realized >>
loop == << stage, turn, todo, left >>
database == << rows, risk_state, requests >>
venue == << account, stray >>
vars == << book, halted, booked, reason, realized, stage, turn, todo, left,
           rows, risk_state, requests, account, stray, bought, crashes >>

(***************************************************************************)
(* A cell's order: an entering cell has its buy, a held cell its           *)
(* protective stop, an exiting cell its market sell.  "none": no stop, or  *)
(* one the book does not know, or a sell that never reached the venue.     *)
(***************************************************************************)
Cell == [phase : {"flat", "entering", "held", "exiting"},
         order : {"none", "working", "filled"}]
Is(p, o) == [phase |-> p, order |-> o]
Flat == Is("flat", "none")

Owns(c) == c.phase \in {"held", "exiting"}
Positions(sl) == {s \in Symbols : Owns(book[sl][s])}
Entering(sl) == {s \in Symbols : book[sl][s].phase = "entering"}

Targets == {{sl} : sl \in Slots} \cup {Slots, {}}   \* {}: an unknown strategy
NoSymbols == [s \in Symbols |-> 0]
EmptyBook == [s \in Symbols |-> Flat]

Init ==
  /\ book = [sl \in Slots |-> EmptyBook]
  /\ halted = [sl \in Slots |-> FALSE]
  /\ booked = {} /\ reason = FALSE /\ realized = FALSE
  /\ stage = "down" /\ turn = 1 /\ todo = {} /\ left = {}
  /\ rows = [sl \in Slots |-> {}] /\ risk_state = FALSE /\ requests = << >>
  /\ account = NoSymbols
  /\ stray = [buys |-> NoSymbols, sells |-> NoSymbols]
  /\ bought = 0 /\ crashes = 0

----------------------------------------------------------------------------
(* What the slots' operations do to a book                                 *)

\* Mutant: entries are left in the book.
cancel_pending_entries_Nothing(b) == b

\* A pending entry is forgotten at once, whatever becomes of its cancel.
cancel_pending_entries(b) ==
  [s \in Symbols |-> IF b[s].phase = "entering" THEN Flat ELSE b[s]]

\* _sell that ends: the stop had sold it, the account holds none, or a sell is out.
Sold(s, c) == IF c.order = "filled" \/ account[s] = 0 THEN Flat ELSE Is("exiting", "working")

\* _sell whose submit raises: marked as exiting, the stop cancelled, no sell.
CanRaise(s, c) == c.phase = "held" /\ c.order # "filled" /\ account[s] > 0
Stuck == Is("exiting", "none")

\* flatten_all: the symbols in done are sold, the call raises at those in bad.
Flattened(b, done, bad) ==
  [s \in Symbols |-> IF s \in bad THEN Stuck
                     ELSE IF s \in done /\ b[s].phase = "held" THEN Sold(s, b[s])
                     ELSE b[s]]
flatten_all(b) == Flattened(b, Symbols, {})
FlattenRaises(b, new) ==
  \E x \in Symbols : CanRaise(x, b[x])
                     /\ \E done \in SUBSET (Symbols \ {x}) : new = Flattened(b, done, {x})

\* Orders at the venue that leave the books without an answer.
Lost(new, s, kinds) ==
  Cardinality({sl \in Slots : /\ book[sl][s].phase \in kinds
                              /\ book[sl][s].order = "working"
                              /\ new[sl][s] = Flat})
Orphaned(new) ==
  [buys  |-> [s \in Symbols |-> stray.buys[s] + Lost(new, s, {"entering"})],
   sells |-> [s \in Symbols |-> stray.sells[s] + Lost(new, s, {"held", "exiting"})]]

\* A position's row is deleted with it.
Unrecorded(new) ==
  [sl \in Slots |-> rows[sl] \ {s \in Symbols : Owns(book[sl][s]) /\ ~Owns(new[sl][s])}]

\* Slots that found their stop filled while selling: the trade waits for the poll.
BookedBy(new) ==
  {sl \in Slots : \E s \in Symbols : book[sl][s] = Is("held", "filled") /\ new[sl][s] = Flat}

Rebook(new) ==
  /\ book' = new
  /\ stray' = Orphaned(new)
  /\ rows' = Unrecorded(new)

Halt(on) == halted' = [sl \in Slots |-> halted[sl] \/ on]

\* The database is told of a halt only by the first slot to be halted.
RecordHalt(on) ==
  risk_state' = (risk_state \/ (on /\ \A sl \in Slots : ~halted[sl]))

----------------------------------------------------------------------------
(* Controls                                                                *)

IsPending(i) == requests[i].status = "pending"

Pending == {i \in 1 .. Len(requests) : IsPending(i)}

FirstOf(ids) == CHOOSE i \in ids : \A k \in ids : i <= k

\* Mutant: the queue is read from its end.
Oldest_Newest(queue) == CHOOSE i \in queue : \A k \in queue : k <= i

\* Requests are applied in the order of their ids.
Oldest(queue) == FirstOf(queue)

TargetOf(queue) == IF queue = {} THEN {} ELSE requests[Oldest(queue)].target

\* The tick begins; reading the queue may fail, and the tick goes on without it.
ReadControls ==
  /\ stage \in {"started", "sleep", "failed"}
  /\ stage' = "controls" /\ todo' = Pending /\ left' = TargetOf(Pending)
  /\ UNCHANGED << memory, turn, database, venue, bought, crashes >>

ControlsUnreadable ==
  /\ stage \in {"started", "sleep", "failed"}
  /\ stage' = "signals"
  /\ UNCHANGED << memory, turn, todo, left, database, venue, bought, crashes >>

RestOf(slots) == slots \ {FirstOf(slots)}

\* Mutant: the outcome is written only when all went well.
Finished_DoneOnly(i, status) ==
  IF status = "done" THEN [requests EXCEPT ![i].status = status, ![i].life = crashes]
                     ELSE requests

Finished(i, status) ==
  [requests EXCEPT ![i].status = status, ![i].life = crashes]

\* One slot of the request at the head of the queue.
Control(sl, cmd) ==
  LET b   == IF cmd = "resume" THEN book[sl] ELSE cancel_pending_entries(book[sl])
      new == IF cmd \in {"flatten", "halt"} THEN flatten_all(b) ELSE b
      all == [book EXCEPT ![sl] = new]
  IN  /\ halted' = [halted EXCEPT ![sl] = IF cmd = "flatten" THEN @ ELSE cmd # "resume"]
      /\ Rebook(all) /\ booked' = booked \cup BookedBy(all)

ControlSlot ==
  /\ stage = "controls" /\ left # {}
  /\ Control(FirstOf(left), requests[Oldest(todo)].cmd)
  /\ left' = RestOf(left)
  /\ UNCHANGED << reason, realized, stage, turn, todo, risk_state, requests, account,
                  bought, crashes >>

NextRequest(status) ==
  /\ requests' = Finished(Oldest(todo), status)
  /\ todo' = todo \ {Oldest(todo)} /\ left' = TargetOf(todo \ {Oldest(todo)})

\* flatten_all raises: later slots are not reached.
SlotRaises ==
  /\ stage = "controls" /\ left # {}
  /\ requests[Oldest(todo)].cmd \in {"flatten", "halt"}
  /\ LET sl == FirstOf(left)
         b  == cancel_pending_entries(book[sl])
     IN  /\ halted' = [halted EXCEPT ![sl] = @ \/ requests[Oldest(todo)].cmd = "halt"]
         /\ \E new \in [Symbols -> Cell] :
              /\ FlattenRaises(b, new)
              /\ LET all == [book EXCEPT ![sl] = new]
                 IN  Rebook(all) /\ booked' = booked \cup BookedBy(all)
  /\ UNCHANGED << reason, realized, turn, risk_state, account, bought, crashes >>

\* The request is rejected, unless that cannot be written either.
ControlRaises == SlotRaises /\ NextRequest("rejected") /\ UNCHANGED stage

RejectFails ==
  /\ SlotRaises
  /\ stage' = "failed" /\ todo' = {} /\ left' = {}
  /\ UNCHANGED requests

FinishRequest ==
  /\ stage = "controls" /\ todo # {} /\ left = {}
  /\ NextRequest(IF TargetOf(todo) = {} THEN "rejected" ELSE "done")
  /\ UNCHANGED << memory, stage, turn, rows, risk_state, venue, bought, crashes >>

\* "done" cannot be written, "rejected" then can: the request was applied.
DoneUnwritten ==
  /\ stage = "controls" /\ todo # {} /\ left = {}
  /\ TargetOf(todo) # {} /\ NextRequest("rejected")
  /\ UNCHANGED << memory, stage, turn, rows, risk_state, venue, bought, crashes >>

\* No outcome can be written: the request stays pending, though applied.
FinishFails ==
  /\ stage = "controls" /\ todo # {} /\ left = {}
  /\ stage' = "failed" /\ todo' = {}
  /\ UNCHANGED << memory, turn, left, database, venue, bought, crashes >>

ControlsDone ==
  /\ stage = "controls" /\ todo = {}
  /\ stage' = "signals"
  /\ UNCHANGED << memory, turn, todo, left, database, venue, bought, crashes >>

----------------------------------------------------------------------------
(* Signals: any strategy may signal anything                               *)

\* Mutant: symbols whose buy is still out are not looked at.
_exclusive_HeldOnly(sl, s) == \A k \in Slots \ {sl} : ~Owns(book[k][s])

_exclusive(sl, s) == \A k \in Slots \ {sl} : book[k][s].phase = "flat"

\* A halted slot offers its strategy no open slots.
MayEnter(sl, s) == ~halted[sl] /\ book[sl][s] = Flat /\ _exclusive(sl, s)

Buy(sl, s) ==
  /\ stage = "signals" /\ bought < MaxBuys
  /\ MayEnter(sl, s)
  /\ bought' = bought + 1
  /\ \/ /\ book' = [book EXCEPT ![sl][s] = Is("entering", "working")]
        /\ UNCHANGED stray
     \/ /\ stray' = [stray EXCEPT !.buys[s] = @ + 1]   \* taken, but the reply was lost
        /\ UNCHANGED book
  /\ UNCHANGED << halted, booked, reason, realized, loop, database, account, crashes >>

Sell(sl, s) ==
  /\ stage = "signals" /\ book[sl][s].phase = "held"
  /\ \E c \in {Sold(s, book[sl][s])} \cup {x \in {Stuck} : CanRaise(s, book[sl][s])} :
       LET all == [book EXCEPT ![sl][s] = c]
       IN  Rebook(all) /\ booked' = booked \cup BookedBy(all)
  /\ UNCHANGED << halted, reason, realized, loop, risk_state, requests, account, bought,
                  crashes >>

SignalsDone ==
  /\ stage = "signals"
  /\ stage' = "polls" /\ turn' = 1
  /\ UNCHANGED << memory, todo, left, database, venue, bought, crashes >>

----------------------------------------------------------------------------
(* Poll, rows, risk                                                        *)

\* What a poll may make of a cell.  A working buy may end or time out, a
\* working sell may end unfilled; an adopted position has no stop to poll.
Polled(c) ==
  CASE c = Is("entering", "filled")  -> {Is("held", "working"), Is("held", "none")}
    [] c = Is("entering", "working") -> {c, Flat}
    [] c = Is("exiting", "working")  -> {c, Is("held", "none")}
    [] Owns(c) /\ c.order = "filled" -> {Flat}
    [] OTHER                         -> {c}

ClosedIn(sl, new) == {s \in Symbols : Owns(book[sl][s]) /\ new[s] = Flat}

\* A slot's poll.  If it hands out trades the win rate is judged: that halts
\* every slot when it is bad, or when a halt has been declared before.
PollSlot ==
  /\ stage = "polls"
  /\ \E new \in [Symbols -> Cell], bad \in BOOLEAN :
       LET trades == turn \in booked \/ ClosedIn(turn, new) # {}
           halt   == trades /\ (reason \/ bad)
           one    == [book EXCEPT ![turn] = new]
       IN  /\ \A s \in Symbols : new[s] \in Polled(book[turn][s])
           /\ bad => trades /\ WinrateFloor
           /\ reason' = (reason \/ bad) /\ realized' = (realized \/ trades)
           /\ Halt(halt) /\ RecordHalt(halt)
           /\ Rebook(IF halt THEN [sl \in Slots |-> cancel_pending_entries(one[sl])] ELSE one)
  /\ booked' = booked \ {turn}
  /\ stage' = "clear"
  /\ UNCHANGED << turn, todo, left, requests, account, bought, crashes >>

\* A read inside the poll raises: part of it is done, its trades are lost to
\* the runner, the rest of the tick does not happen.
PollRaises ==
  /\ stage = "polls"
  /\ \E new \in [Symbols -> Cell] :
       /\ \A s \in Symbols : new[s] \in Polled(book[turn][s]) \cup {book[turn][s]}
       /\ Rebook([book EXCEPT ![turn] = new])
  /\ booked' = booked \ {turn}
  /\ stage' = "failed"
  /\ UNCHANGED << halted, reason, realized, turn, todo, left, risk_state, requests,
                  account, bought, crashes >>

\* Mutant: rows are only ever added.
RowsCleared_Kept(sl) == rows

RowsCleared(sl) == [rows EXCEPT ![sl] = {}]

\* persist_positions: each statement is committed on its own.
ClearRows ==
  /\ stage = "clear"
  /\ rows' = RowsCleared(turn)
  /\ stage' = "rows"
  /\ UNCHANGED << memory, turn, todo, left, risk_state, requests, venue, bought, crashes >>

WriteRow(s) ==
  /\ stage = "rows" /\ s \in Positions(turn) \ rows[turn]
  /\ rows' = [rows EXCEPT ![turn] = @ \cup {s}]
  /\ UNCHANGED << memory, loop, risk_state, requests, venue, bought, crashes >>

LastSlot(sl) == sl = NumSlots

RowsDone ==
  /\ stage = "rows" /\ Positions(turn) \subseteq rows[turn]
  /\ IF LastSlot(turn) THEN turn' = turn /\ stage' = "risk"
                       ELSE turn' = turn + 1 /\ stage' = "polls"
  /\ UNCHANGED << memory, todo, left, database, venue, bought, crashes >>

\* A data call, a strategy or a database write raises: the tick ends there.
TickFails ==
  /\ stage \in {"signals", "clear", "rows"}
  /\ stage' = "failed"
  /\ UNCHANGED << memory, turn, todo, left, database, venue, bought, crashes >>

\* Mutant: only a fresh breach halts.
StillHalted_BreachOnly(breach) == breach

StillHalted(breach) == breach \/ (reason /\ Allocated)

\* A loss is realised by trades or open in a position.
MayBreach == Allocated /\ (realized \/ \E sl \in Slots : Positions(sl) # {})

\* check_pnl and _apply_risk.  A loss beyond a limit halts and flattens every
\* slot; a halt declared before halts them again, whoever resumed one.
RiskCheck ==
  /\ stage = "risk"
  /\ \E breach \in {b \in BOOLEAN : b => MayBreach} :
       LET halt == StillHalted(breach)
           idle(sl) == IF halt THEN cancel_pending_entries(book[sl]) ELSE book[sl]
           all == [sl \in Slots |-> IF breach THEN flatten_all(idle(sl)) ELSE idle(sl)]
       IN  /\ reason' = (reason \/ breach)
           /\ Halt(halt) /\ RecordHalt(halt)
           /\ Rebook(all) /\ booked' = booked \cup BookedBy(all)
  /\ stage' = "sleep"
  /\ UNCHANGED << realized, turn, todo, left, requests, account, bought, crashes >>

\* flatten_all raises on slot k: the slots after it are neither halted nor
\* flattened in this tick.
RiskCheckRaises ==
  /\ stage = "risk" /\ Allocated
  /\ \E k \in Slots, new \in [Symbols -> Cell] :
       LET all == [sl \in Slots |-> IF sl < k THEN flatten_all(cancel_pending_entries(book[sl]))
                                    ELSE IF sl = k THEN new ELSE book[sl]]
       IN  /\ FlattenRaises(cancel_pending_entries(book[k]), new)
           /\ halted' = [sl \in Slots |-> halted[sl] \/ sl <= k]
           /\ Rebook(all) /\ booked' = booked \cup BookedBy(all)
  /\ RecordHalt(TRUE)
  /\ reason' = TRUE
  /\ stage' = "failed"
  /\ UNCHANGED << realized, turn, todo, left, requests, account, bought, crashes >>

\* The halt cannot be recorded: the reason is kept, and the next check halts.
RiskUnrecorded ==
  /\ stage = "risk" /\ Allocated /\ (reason \/ MayBreach)
  /\ \A sl \in Slots : ~halted[sl]
  /\ reason' = TRUE
  /\ stage' = "failed"
  /\ UNCHANGED << book, halted, booked, realized, turn, todo, left, database, venue,
                  bought, crashes >>

----------------------------------------------------------------------------
(* Crash and start-up                                                      *)

Crash ==
  /\ stage # "down" /\ crashes < MaxCrashes
  /\ crashes' = crashes + 1
  /\ LET none == [sl \in Slots |-> EmptyBook]
     IN  book' = none /\ stray' = Orphaned(none)
  /\ halted' = [sl \in Slots |-> FALSE] /\ booked' = {} /\ reason' = FALSE /\ realized' = FALSE
  /\ stage' = "down" /\ todo' = {} /\ left' = {}
  /\ UNCHANGED << turn, database, account, bought >>

At == {s \in Symbols : account[s] > 0}
Adopted(syms) == [s \in Symbols |-> IF s \in syms THEN Is("held", "none") ELSE Flat]

\* The positions slot sl gets back: each is taken by the first slot that recorded it.
Owned(sl) == {s \in rows[sl] \cap At : \A k \in 1 .. (sl - 1) : s \notin rows[k]}
Untracked == {s \in At : \A sl \in Slots : s \notin rows[sl]}

\* Leftovers are reconciled into the first slot alone, which makes its book
\* agree with the leftovers and drops what it had been given before.
_reconcile ==
  book' = [sl \in Slots |-> Adopted(IF sl = 1 /\ Untracked # {} THEN Untracked ELSE Owned(sl))]

\* Start-up ends with the win rate of the trades on record.
StartUp ==
  /\ stage = "down"
  /\ _reconcile
  /\ \E bad \in BOOLEAN :
       /\ bad => WinrateFloor
       /\ reason' = bad
       /\ Halt(bad) /\ RecordHalt(bad)
  /\ stage' = "started" /\ turn' = 1
  /\ UNCHANGED << booked, realized, todo, left, rows, requests, venue, bought, crashes >>

----------------------------------------------------------------------------
(* The API and the venue                                                   *)

Submit ==
  /\ Len(requests) < MaxRequests
  /\ \E cmd \in Commands, target \in Targets :
       requests' = Append(requests, [cmd |-> cmd, target |-> target,
                                     status |-> "pending", life |-> 0])
  /\ UNCHANGED << memory, loop, rows, risk_state, venue, bought, crashes >>

\* The order a cell waits for fills.  The venue sells no share it does not hold.
OrderFills(sl, s) ==
  /\ book[sl][s].order = "working"
  /\ book' = [book EXCEPT ![sl][s].order = "filled"]
  /\ \/ book[sl][s].phase = "entering" /\ account' = [account EXCEPT ![s] = @ + 1]
     \/ Owns(book[sl][s]) /\ account[s] > 0 /\ account' = [account EXCEPT ![s] = @ - 1]
  /\ UNCHANGED << halted, booked, reason, realized, loop, database, stray, bought, crashes >>

StrayBuyEnds(s) ==
  /\ stray.buys[s] > 0
  /\ stray' = [stray EXCEPT !.buys[s] = @ - 1]
  /\ \/ account' = [account EXCEPT ![s] = @ + 1]
     \/ UNCHANGED account
  /\ UNCHANGED << memory, loop, database, bought, crashes >>

StraySellEnds(s) ==
  /\ stray.sells[s] > 0
  /\ stray' = [stray EXCEPT !.sells[s] = @ - 1]
  /\ \/ account[s] > 0 /\ account' = [account EXCEPT ![s] = @ - 1]
     \/ UNCHANGED account
  /\ UNCHANGED << memory, loop, database, bought, crashes >>

----------------------------------------------------------------------------
\* The steps of the thread that bring a tick on.
TickStep ==
  \/ ReadControls \/ ControlsUnreadable
  \/ ControlSlot \/ ControlRaises \/ RejectFails
  \/ FinishRequest \/ DoneUnwritten \/ FinishFails
  \/ ControlsDone
  \/ SignalsDone
  \/ PollSlot \/ PollRaises
  \/ ClearRows \/ (\E s \in Symbols : WriteRow(s)) \/ RowsDone
  \/ TickFails
  \/ RiskCheck \/ RiskCheckRaises \/ RiskUnrecorded

Next ==
  \/ TickStep
  \/ Crash \/ StartUp \/ Submit
  \/ \E s \in Symbols : StrayBuyEnds(s) \/ StraySellEnds(s)
  \/ \E sl \in Slots, s \in Symbols : Buy(sl, s) \/ Sell(sl, s) \/ OrderFills(sl, s)

Spec == Init /\ [][Next]_vars

\* launchd starts the process again; every call of a tick returns or raises;
\* the queue cannot be unreadable, nor refuse an outcome, on every tick.
FairSpec ==
  /\ Spec
  /\ WF_vars(StartUp) /\ WF_vars(TickStep) /\ SF_vars(ReadControls)
  /\ SF_vars(FinishRequest)

----------------------------------------------------------------------------
(* Properties                                                              *)

\* A symbol is in the book of at most one live slot, whoever signals when,
\* and whatever a restart hands back (_exclusive, _reconcile).
Exclusive ==
  \A k, l \in Slots :
    k # l => \A s \in Symbols : "flat" \in {book[k][s].phase, book[l][s].phase}

\* A halted slot has no buy out, however the halt came about: by request, by
\* the loss limits, by the win rate in the middle of another slot's poll.
HaltedIdle == \A sl \in Slots : halted[sl] => Entering(sl) = {}

\* Once a halt has been declared, every tick that completes ends with every
\* slot halted: no resume outlives the risk check, no slot is passed over,
\* unless the slots have no allocation.
RiskStands == Allocated /\ stage = "sleep" /\ reason => \A sl \in Slots : halted[sl]

\* After a tick that completed, the rows are exactly the positions of each
\* slot: a crash between ticks loses no slot's claim to what it holds.
Recorded == stage \in {"risk", "sleep"} => \A sl \in Slots : rows[sl] = Positions(sl)

\* Requests take effect in the order they were given: a slot the owner paused
\* or halted in this life of the bot is halted, unless a resume was asked later.
PauseStands ==
  stage # "down" =>
    \A sl \in Slots, i \in 1 .. Len(requests) :
      /\ requests[i].status = "done" /\ requests[i].life = crashes
      /\ requests[i].cmd \in {"pause", "halt"} /\ sl \in requests[i].target
      /\ \A j \in (i + 1) .. Len(requests) :
           ~(requests[j].cmd = "resume" /\ sl \in requests[j].target)
      => halted[sl]

\* Every request is answered, crashes and raising slots notwithstanding.
RequestAnswered ==
  \A i \in 1 .. MaxRequests :
    (i <= Len(requests) /\ requests[i].status = "pending")
      ~> (i <= Len(requests) /\ requests[i].status # "pending")

(* Statements of the docs                                                  *)

\* docs/features/15-multi-strategy.md: "On restart, each broker position is
\* handed back to the slot that recorded it".
HandedBack ==
  [][stage = "down" /\ stage' = "started" =>
       \A s \in At, sl \in Slots :
         (s \in rows[sl] /\ \A k \in Slots \ {sl} : s \notin rows[k])
           => s \in Positions(sl)']_vars

\* docs/features/14-operator.md, daily loss limit: "no new entries for the
\* rest of the day" (the model is one day).
NoEntriesAfterHalt == [][risk_state => bought' = bought]_vars
=============================================================================
