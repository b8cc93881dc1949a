---------------------------- MODULE RunnerProofs ----------------------------
(***************************************************************************)
(* Proofs about Runner: live slots stay exclusive, halted slots idle, risk *)
(* halts stand, and rows name the positions after every completed tick,    *)
(* for every number of slots, symbols, requests and crashes.               *)
(***************************************************************************)
EXTENDS Runner, WellFoundedInduction, TLAPS

Book == [Symbols -> Cell]

Typed ==
  /\ book \in [Slots -> Book]
  /\ halted \in [Slots -> BOOLEAN]
  /\ rows \in [Slots -> SUBSET Symbols]
  /\ turn \in Slots

\* The rows of the slots the loop of this tick has passed are written; of the
\* slot it is at, some.
RowsInv ==
  /\ \A k \in Slots :
       \/ stage \in {"polls", "clear", "rows"} /\ k < turn
       \/ stage \in {"risk", "sleep"}
       => rows[k] = Positions(k)
  /\ stage = "rows" => rows[turn] \subseteq Positions(turn)

IInv == Typed /\ Exclusive /\ HaltedIdle /\ RiskStands /\ RowsInv

\* How a slot's book may go from b to n: nothing enters, nothing appears ...
Calm(b, n) ==
  /\ n \in Book
  /\ \A s \in Symbols : /\ n[s].phase = "entering" => b[s].phase = "entering"
                        /\ n[s].phase # "flat" => b[s].phase # "flat"
\* ... and no position is new.
Quiet(b, n) == Calm(b, n) /\ \A s \in Symbols : Owns(n[s]) => Owns(b[s])

----------------------------------------------------------------------------
(* The operations on a slot's book                                         *)

LEMMA CellFacts ==
  /\ Flat \in Cell /\ Stuck \in Cell
  /\ \A p \in {"held", "exiting"}, o \in {"none", "working", "filled"} :
       Is(p, o) \in Cell /\ Owns(Is(p, o)) /\ Is(p, o).phase \notin {"flat", "entering"}
  /\ ~Owns(Flat) /\ Flat.phase = "flat"
  /\ Stuck.phase = "exiting"
  BY DEF Flat, Stuck, Cell, Is, Owns

LEMMA CancelQuiet ==
  ASSUME NEW b \in Book
  PROVE  /\ Quiet(b, cancel_pending_entries(b))
         /\ \A s \in Symbols :
              /\ cancel_pending_entries(b)[s].phase # "entering"
              /\ Owns(cancel_pending_entries(b)[s]) <=> Owns(b[s])
  BY CellFacts DEF Quiet, Calm, cancel_pending_entries, Book, Owns

LEMMA SoldFacts ==
  ASSUME NEW s, NEW c
  PROVE  Sold(s, c) \in Cell /\ Sold(s, c).phase # "entering"
  BY CellFacts DEF Sold

LEMMA FlattenQuiet ==
  ASSUME NEW b \in Book, NEW done, NEW bad,
         \A s \in bad : CanRaise(s, b[s])
  PROVE  Quiet(b, Flattened(b, done, bad))
<1>1. ASSUME NEW s \in Symbols
      PROVE  LET c == Flattened(b, done, bad)[s]
             IN  /\ c \in Cell
                 /\ c.phase = "entering" => b[s].phase = "entering"
                 /\ c.phase # "flat" => b[s].phase # "flat"
                 /\ Owns(c) => Owns(b[s])
  <2>0. Flattened(b, done, bad)[s] = IF s \in bad THEN Stuck
                     ELSE IF s \in done /\ b[s].phase = "held" THEN Sold(s, b[s])
                     ELSE b[s]
    BY DEF Flattened
  <2>1. b[s] \in Cell /\ (b[s].phase = "held" => Owns(b[s]))
    BY DEF Book, Owns
  <2>2. CASE s \in bad
    BY <2>0, <2>1, <2>2, CellFacts DEF CanRaise
  <2>3. CASE s \notin bad /\ s \in done /\ b[s].phase = "held"
    BY <2>0, <2>1, <2>3, SoldFacts
  <2>4. CASE s \notin bad /\ ~(s \in done /\ b[s].phase = "held")
    BY <2>0, <2>1, <2>4
  <2> QED BY <2>2, <2>3, <2>4
<1>2. Flattened(b, done, bad) \in Book
  BY <1>1 DEF Flattened, Book
<1> QED BY <1>1, <1>2 DEF Quiet, Calm

LEMMA QuietTrans ==
  ASSUME NEW a, NEW b, NEW c, Quiet(a, b), Quiet(b, c)
  PROVE  Quiet(a, c)
  BY DEF Quiet, Calm

\* A slot's book cancelled, then flattened as far as it goes.
LEMMA FlattenAllQuiet ==
  ASSUME NEW b \in Book
  PROVE  Quiet(b, flatten_all(b))
  BY FlattenQuiet DEF flatten_all

LEMMA RaiseQuiet ==
  ASSUME NEW b \in Book, NEW n, FlattenRaises(b, n)
  PROVE  Quiet(b, n)
<1>1. \E x \in Symbols : \E done : CanRaise(x, b[x]) /\ n = Flattened(b, done, {x})
  BY DEF FlattenRaises
<1> QED BY <1>1, FlattenQuiet

LEMMA PolledCalm ==
  ASSUME NEW c \in Cell, NEW d \in Polled(c)
  PROVE  /\ d \in Cell
         /\ d.phase = "entering" => c.phase = "entering"
         /\ d.phase # "flat" => c.phase # "flat"
<1>1. CASE c = Is("entering", "filled")
  BY <1>1 DEF Polled, Cell, Is, Flat, Owns
<1>2. CASE c = Is("entering", "working")
  BY <1>2 DEF Polled, Cell, Is, Flat, Owns
<1>3. CASE c = Is("exiting", "working")
  BY <1>3 DEF Polled, Cell, Is, Flat, Owns
<1>4. CASE Owns(c) /\ c.order = "filled"
  BY <1>4 DEF Polled, Cell, Is, Flat, Owns
<1>5. CASE ~(\/ c = Is("entering", "filled") \/ c = Is("entering", "working")
             \/ c = Is("exiting", "working") \/ (Owns(c) /\ c.order = "filled"))
  BY <1>5 DEF Polled
<1> QED BY <1>1, <1>2, <1>3, <1>4, <1>5

----------------------------------------------------------------------------
(* What the conjuncts need of a step                                       *)

AllCalm == \A sl \in Slots : Calm(book[sl], book'[sl])
AllQuiet == \A sl \in Slots : Quiet(book[sl], book'[sl])

LEMMA CalmExclusive ==
  ASSUME Exclusive, AllCalm
  PROVE  Exclusive'
  BY DEF Exclusive, AllCalm, Calm

LEMMA CalmIdle ==
  ASSUME HaltedIdle, AllCalm,
         \A sl \in Slots : halted'[sl] =>
           halted[sl] \/ \A s \in Symbols : book'[sl][s].phase # "entering"
  PROVE  HaltedIdle'
  BY DEF HaltedIdle, Entering, AllCalm, Calm

\* Where positions only go and their rows with them, written rows stay right.
LEMMA QuietRows ==
  ASSUME Typed, AllQuiet, rows' = Unrecorded(book'),
         NEW k \in Slots, rows[k] = Positions(k)
  PROVE  rows'[k] = Positions(k)'
  BY DEF Typed, AllQuiet, Quiet, Unrecorded, Positions

LEMMA RowsTyped ==
  ASSUME Typed, NEW n
  PROVE  Unrecorded(n) \in [Slots -> SUBSET Symbols]
  BY DEF Typed, Unrecorded

LEMMA HaltTyped ==
  ASSUME Typed, NEW on \in BOOLEAN, Halt(on)
  PROVE  halted' \in [Slots -> BOOLEAN]
  BY DEF Typed, Halt

\* The stages in which nothing is claimed.
Idle(st) == st \in {"down", "started", "controls", "signals", "failed"}

LEMMA IdleStage ==
  ASSUME Idle(stage')
  PROVE  RiskStands' /\ RowsInv'
  BY DEF Idle, RiskStands, RowsInv

----------------------------------------------------------------------------
(* The steps                                                               *)

SameClaims == UNCHANGED << book, halted, reason, rows, stage, turn >>

\* A step that touches nothing the invariant is about.
LEMMA SameKept ==
  ASSUME IInv, SameClaims
  PROVE  IInv'
  BY DEF IInv, SameClaims, Typed, Exclusive, HaltedIdle, Entering, RiskStands, RowsInv,
         Positions

\* A step that only moves the thread to a stage in which nothing is claimed.
LEMMA MoveKept ==
  ASSUME IInv, UNCHANGED << book, halted, rows >>, turn' \in Slots, Idle(stage')
  PROVE  IInv'
<1>1. Typed' /\ Exclusive' /\ HaltedIdle'
  BY DEF IInv, Typed, Exclusive, HaltedIdle, Entering
<1> QED BY <1>1, IdleStage DEF IInv

\* One slot's book is changed by a control request.
LEMMA ControlKept ==
  ASSUME IInv, ControlSlot
  PROVE  IInv'
<1> DEFINE sl == FirstOf(left)
           cmd == requests[Oldest(todo)].cmd
           b == IF cmd = "resume" THEN book[sl] ELSE cancel_pending_entries(book[sl])
           new == IF cmd \in {"flatten", "halt"} THEN flatten_all(b) ELSE b
<1>1. /\ book' = [book EXCEPT ![sl] = new]
      /\ halted' = [halted EXCEPT ![sl] = IF cmd = "flatten" THEN @ ELSE cmd # "resume"]
      /\ rows' = Unrecorded(book')
      /\ stage = "controls" /\ stage' = stage /\ turn' = turn
  BY DEF ControlSlot, Control, Rebook
<1>2. sl \in Slots => /\ Quiet(book[sl], new)
                      /\ cmd # "resume" => \A s \in Symbols : new[s].phase # "entering"
  <2> SUFFICES ASSUME sl \in Slots
               PROVE  /\ Quiet(book[sl], new)
                      /\ cmd # "resume" => \A s \in Symbols : new[s].phase # "entering"
    OBVIOUS
  <2>1. book[sl] \in Book
    BY DEF IInv, Typed
  <2>2. Quiet(book[sl], book[sl])
    BY <2>1 DEF Quiet, Calm
  <2>3. Quiet(book[sl], b) /\ (cmd # "resume" => \A s \in Symbols : b[s].phase # "entering")
    BY <2>1, <2>2, CancelQuiet
  <2>4. Quiet(b, flatten_all(b))
    BY <2>3, FlattenAllQuiet DEF Quiet, Calm
  <2>5. Quiet(book[sl], flatten_all(b))
    BY <2>3, <2>4, QuietTrans
  <2> QED BY <2>3, <2>4, <2>5 DEF Quiet, Calm
<1> HIDE DEF sl, cmd, new
<1>3. AllQuiet /\ book' \in [Slots -> Book]
  BY <1>1, <1>2 DEF AllQuiet, Quiet, Calm, IInv, Typed
<1>4. AllCalm
  BY <1>3 DEF AllQuiet, AllCalm, Quiet
<1>5. Typed'
  BY <1>1, <1>3, RowsTyped DEF IInv, Typed
<1>6. Exclusive'
  BY <1>4, CalmExclusive DEF IInv
<1>7. HaltedIdle'
  <2>1. \A k \in Slots : halted'[k] =>
          halted[k] \/ \A s \in Symbols : book'[k][s].phase # "entering"
    BY <1>1, <1>2 DEF IInv, Typed
  <2> QED BY <2>1, <1>4, CalmIdle DEF IInv
<1>8. Idle(stage')
  BY <1>1 DEF Idle
<1> QED BY <1>5, <1>6, <1>7, <1>8, IdleStage DEF IInv

LEMMA ControlRaisesKept ==
  ASSUME IInv, ControlRaises \/ RejectFails
  PROVE  IInv'
<1> DEFINE sl == FirstOf(left)
           b == cancel_pending_entries(book[sl])
<1>1. PICK new \in Book : FlattenRaises(b, new) /\ Rebook([book EXCEPT ![sl] = new])
  BY DEF ControlRaises, RejectFails, SlotRaises, Book
<1>2. /\ book' = [book EXCEPT ![sl] = new]
      /\ rows' = Unrecorded(book')
      /\ \E on \in BOOLEAN : halted' = [halted EXCEPT ![sl] = @ \/ on]
      /\ stage = "controls" /\ stage' \in {"controls", "failed"} /\ turn' = turn
  BY <1>1 DEF ControlRaises, RejectFails, SlotRaises, Rebook
<1>3. sl \in Slots => /\ Quiet(book[sl], new)
                      /\ \A s \in Symbols : new[s].phase # "entering"
  <2> SUFFICES ASSUME sl \in Slots
               PROVE  /\ Quiet(book[sl], new)
                      /\ \A s \in Symbols : new[s].phase # "entering"
    OBVIOUS
  <2>1. book[sl] \in Book
    BY DEF IInv, Typed
  <2>2. Quiet(book[sl], b) /\ \A s \in Symbols : b[s].phase # "entering"
    BY <2>1, CancelQuiet
  <2>3. Quiet(b, new)
    BY <1>1, <2>2, RaiseQuiet DEF Quiet, Calm
  <2> QED BY <2>2, <2>3, QuietTrans DEF Quiet, Calm
<1> HIDE DEF sl
<1>4. AllQuiet /\ book' \in [Slots -> Book]
  BY <1>2, <1>3 DEF AllQuiet, Quiet, Calm, IInv, Typed
<1>5. AllCalm
  BY <1>4 DEF AllQuiet, AllCalm, Quiet
<1>6. Typed'
  BY <1>2, <1>4, RowsTyped DEF IInv, Typed
<1>7. HaltedIdle'
  <2>1. \A k \in Slots : halted'[k] =>
          halted[k] \/ \A s \in Symbols : book'[k][s].phase # "entering"
    BY <1>2, <1>3 DEF IInv, Typed
  <2> QED BY <2>1, <1>5, CalmIdle DEF IInv
<1>8. Exclusive' /\ Idle(stage')
  BY <1>2, <1>5, CalmExclusive DEF IInv, Idle
<1> QED BY <1>6, <1>7, <1>8, IdleStage DEF IInv

LEMMA BuyKept ==
  ASSUME IInv, NEW sl \in Slots, NEW s \in Symbols, Buy(sl, s)
  PROVE  IInv'
<1>1. Typed /\ Exclusive /\ HaltedIdle
  BY DEF IInv
<1>2. /\ ~halted[sl] /\ book[sl][s] = Flat /\ _exclusive(sl, s)
      /\ UNCHANGED << halted, rows, turn, stage >> /\ stage = "signals"
      /\ \/ book' = book
         \/ book' = [book EXCEPT ![sl][s] = Is("entering", "working")]
  BY DEF Buy, MayEnter, loop, database
<1>3. Is("entering", "working") \in Cell
  BY DEF Cell, Is
<1>4. Typed'
  <2>1. book \in [Slots -> Book]
    BY <1>1 DEF Typed
  <2>2. [book EXCEPT ![sl][s] = Is("entering", "working")] \in [Slots -> Book]
    BY <2>1, <1>3 DEF Book
  <2> QED BY <1>1, <1>2, <2>1, <2>2 DEF Typed
<1>5. Exclusive'
  <2>1. \A k \in Slots \ {sl} : book[k][s].phase = "flat"
    BY <1>2 DEF _exclusive
  <2> QED BY <1>1, <1>2, <2>1 DEF Exclusive, Typed, Book
<1>6. HaltedIdle'
  BY <1>1, <1>2 DEF HaltedIdle, Entering, Typed, Book
<1>7. Idle(stage')
  BY <1>2 DEF Idle
<1> QED BY <1>4, <1>5, <1>6, <1>7, IdleStage DEF IInv

LEMMA SellKept ==
  ASSUME IInv, NEW sl \in Slots, NEW s \in Symbols, Sell(sl, s)
  PROVE  IInv'
<1>1. PICK c \in {Sold(s, book[sl][s])} \cup {Stuck} :
        Rebook([book EXCEPT ![sl][s] = c])
  BY DEF Sell
<1>2. /\ book' = [book EXCEPT ![sl][s] = c] /\ rows' = Unrecorded(book')
      /\ halted' = halted /\ turn' = turn /\ stage' = stage /\ stage = "signals"
      /\ book[sl][s].phase = "held"
  BY <1>1 DEF Sell, Rebook, loop
<1>3. c \in Cell /\ c.phase # "entering"
  BY <1>1, SoldFacts, CellFacts
<1>4. book \in [Slots -> Book] /\ book[sl][s].phase # "flat"
  BY <1>2 DEF IInv, Typed
<1>5. book' \in [Slots -> Book] /\ AllCalm
  BY <1>2, <1>3, <1>4 DEF AllCalm, Calm, Book
<1>6. Typed'
  BY <1>2, <1>5, RowsTyped DEF IInv, Typed
<1>7. Exclusive' /\ HaltedIdle' /\ Idle(stage')
  BY <1>2, <1>5, CalmExclusive, CalmIdle DEF IInv, Idle
<1> QED BY <1>6, <1>7, IdleStage DEF IInv

\* A poll may open positions of its own slot, whose rows are yet to be written;
\* a halt it causes takes the pending entries of every slot.
LEMMA PollKept ==
  ASSUME IInv, PollSlot
  PROVE  IInv'
<1>1. PICK new \in Book, halt \in BOOLEAN :
        /\ \A s \in Symbols : new[s] \in Polled(book[turn][s])
        /\ Halt(halt)
        /\ LET one == [book EXCEPT ![turn] = new]
           IN  Rebook(IF halt THEN [sl \in Slots |-> cancel_pending_entries(one[sl])] ELSE one)
  BY DEF PollSlot, Book
<1> DEFINE one == [book EXCEPT ![turn] = new]
<1>2. /\ book' = IF halt THEN [sl \in Slots |-> cancel_pending_entries(one[sl])] ELSE one
      /\ rows' = Unrecorded(book')
      /\ stage = "polls" /\ stage' = "clear" /\ turn' = turn
  BY <1>1 DEF PollSlot, Rebook
<1>3. turn \in Slots /\ book \in [Slots -> Book]
  BY DEF IInv, Typed
<1>4. Calm(book[turn], new)
  BY <1>1, <1>3, PolledCalm DEF Calm, Book
<1>5. one \in [Slots -> Book] /\ \A sl \in Slots : Calm(book[sl], one[sl])
  BY <1>3, <1>4 DEF Calm
<1> HIDE DEF one
<1>6. \A sl \in Slots : /\ Quiet(one[sl], cancel_pending_entries(one[sl]))
                        /\ \A s \in Symbols :
                             cancel_pending_entries(one[sl])[s].phase # "entering"
  BY <1>5, CancelQuiet
<1>7. book' \in [Slots -> Book] /\ AllCalm
  BY <1>2, <1>5, <1>6 DEF AllCalm, Calm, Quiet
<1>8. Typed'
  BY <1>1, <1>2, <1>7, RowsTyped, HaltTyped DEF IInv, Typed
<1>9. Exclusive'
  BY <1>7, CalmExclusive DEF IInv
<1>10. HaltedIdle'
  <2>1. \A sl \in Slots : halted'[sl] =>
          halted[sl] \/ \A s \in Symbols : book'[sl][s].phase # "entering"
    BY <1>1, <1>2, <1>6 DEF Halt
  <2> QED BY <2>1, <1>7, CalmIdle DEF IInv
<1>11. RowsInv'
  <2>1. ASSUME NEW k \in Slots, k < turn
        PROVE  rows'[k] = Positions(k)'
    <3>1. rows[k] = Positions(k)
      BY <1>2, <2>1 DEF IInv, RowsInv
    <3>2. k # turn
      BY <2>1, <1>3 DEF Slots
    <3>3. one[k] = book[k]
      BY <3>2 DEF one
    <3>4. \A s \in Symbols : Owns(book'[k][s]) <=> Owns(book[k][s])
      BY <1>2, <1>5, <3>3, CancelQuiet
    <3> QED BY <3>1, <3>4, <1>2 DEF Unrecorded, Positions, IInv, Typed
  <2> QED BY <2>1, <1>2 DEF RowsInv
<1> QED BY <1>2, <1>8, <1>9, <1>10, <1>11 DEF IInv, RiskStands

LEMMA PollRaisesKept ==
  ASSUME IInv, PollRaises
  PROVE  IInv'
<1>1. PICK new \in Book :
        /\ \A s \in Symbols : new[s] \in Polled(book[turn][s]) \cup {book[turn][s]}
        /\ Rebook([book EXCEPT ![turn] = new])
  BY DEF PollRaises, Book
<1>2. /\ book' = [book EXCEPT ![turn] = new] /\ rows' = Unrecorded(book')
      /\ halted' = halted /\ turn' = turn /\ stage' = "failed"
  BY <1>1 DEF PollRaises, Rebook
<1>3. turn \in Slots /\ book \in [Slots -> Book]
  BY DEF IInv, Typed
<1>4. Calm(book[turn], new)
  BY <1>1, <1>3, PolledCalm DEF Calm, Book
<1>5. book' \in [Slots -> Book] /\ AllCalm
  BY <1>2, <1>3, <1>4 DEF AllCalm, Calm
<1>6. Typed'
  BY <1>2, <1>5, RowsTyped DEF IInv, Typed
<1>7. Exclusive' /\ HaltedIdle' /\ Idle(stage')
  BY <1>2, <1>5, CalmExclusive, CalmIdle DEF IInv, Idle
<1> QED BY <1>6, <1>7, IdleStage DEF IInv

LEMMA ClearKept ==
  ASSUME IInv, ClearRows
  PROVE  IInv'
<1>1. /\ rows' = [rows EXCEPT ![turn] = {}] /\ stage = "clear" /\ stage' = "rows"
      /\ UNCHANGED << book, halted, turn >>
  BY DEF ClearRows, RowsCleared, memory
<1>2. Typed' /\ Exclusive' /\ HaltedIdle' /\ RiskStands'
  BY <1>1 DEF IInv, Typed, Exclusive, HaltedIdle, Entering, RiskStands
<1>3. RowsInv'
  BY <1>1 DEF IInv, Typed, RowsInv, Positions, Slots
<1> QED BY <1>2, <1>3 DEF IInv

LEMMA WriteKept ==
  ASSUME IInv, NEW s \in Symbols, WriteRow(s)
  PROVE  IInv'
<1>1. /\ rows' = [rows EXCEPT ![turn] = @ \cup {s}] /\ stage = "rows" /\ stage' = stage
      /\ s \in Positions(turn)
      /\ UNCHANGED << book, halted, turn >>
  BY DEF WriteRow, memory, loop
<1>2. Typed' /\ Exclusive' /\ HaltedIdle' /\ RiskStands'
  BY <1>1 DEF IInv, Typed, Exclusive, HaltedIdle, Entering, RiskStands
<1>3. RowsInv'
  BY <1>1 DEF IInv, Typed, RowsInv, Positions, Slots
<1> QED BY <1>2, <1>3 DEF IInv

LEMMA RowsDoneKept ==
  ASSUME IInv, RowsDone
  PROVE  IInv'
<1>1. /\ stage = "rows" /\ UNCHANGED << book, halted, rows >>
      /\ Positions(turn) \subseteq rows[turn]
      /\ \/ turn = NumSlots /\ turn' = turn /\ stage' = "risk"
         \/ turn # NumSlots /\ turn' = turn + 1 /\ stage' = "polls"
  BY DEF RowsDone, LastSlot, memory, database
<1>2. \A k \in Slots : k <= turn => rows[k] = Positions(k)
  <2>1. turn \in Slots /\ RowsInv
    BY DEF IInv, Typed
  <2>2. rows[turn] = Positions(turn)
    BY <1>1, <2>1 DEF RowsInv
  <2>3. \A k \in Slots : k < turn => rows[k] = Positions(k)
    BY <1>1, <2>1 DEF RowsInv
  <2>4. \A k \in Slots : k <= turn => k < turn \/ k = turn
    BY <2>1 DEF Slots
  <2> QED BY <2>2, <2>3, <2>4
<1>3. Typed' /\ Exclusive' /\ HaltedIdle' /\ RiskStands'
  BY <1>1, NumSlotsAssumption
     DEF IInv, Typed, Exclusive, HaltedIdle, Entering, RiskStands, Slots
<1>4. \A k \in Slots : Positions(k)' = Positions(k)
  BY <1>1 DEF Positions
<1>5. RowsInv'
  BY <1>1, <1>2, <1>4, NumSlotsAssumption DEF IInv, Typed, RowsInv, Slots
<1> QED BY <1>3, <1>5 DEF IInv

LEMMA RiskKept ==
  ASSUME IInv, RiskCheck
  PROVE  IInv'
<1>1. PICK breach \in BOOLEAN :
        LET halt == StillHalted(breach)
            idle(sl) == IF halt THEN cancel_pending_entries(book[sl]) ELSE book[sl]
            all == [sl \in Slots |-> IF breach THEN flatten_all(idle(sl)) ELSE idle(sl)]
        IN  /\ reason' = (reason \/ breach)
            /\ Halt(halt)
            /\ Rebook(all)
  BY DEF RiskCheck
<1> DEFINE halt == breach \/ (reason /\ Allocated)
           idle(sl) == IF halt THEN cancel_pending_entries(book[sl]) ELSE book[sl]
           new(sl) == IF breach THEN flatten_all(idle(sl)) ELSE idle(sl)
<1>2. /\ book' = [sl \in Slots |-> new(sl)] /\ rows' = Unrecorded(book')
      /\ Halt(halt) /\ (Allocated /\ reason' => halt)
      /\ stage = "risk" /\ stage' = "sleep" /\ turn' = turn
  BY <1>1 DEF RiskCheck, Rebook, StillHalted
<1>3. ASSUME NEW sl \in Slots
      PROVE  /\ Quiet(book[sl], new(sl))
             /\ halt => \A s \in Symbols : new(sl)[s].phase # "entering"
  <2>1. book[sl] \in Book
    BY DEF IInv, Typed
  <2>2. Quiet(book[sl], book[sl])
    BY <2>1 DEF Quiet, Calm
  <2>3. Quiet(book[sl], idle(sl)) /\ (halt => \A s \in Symbols : idle(sl)[s].phase # "entering")
    BY <2>1, <2>2, CancelQuiet
  <2>4. Quiet(idle(sl), flatten_all(idle(sl)))
    BY <2>3, FlattenAllQuiet DEF Quiet, Calm
  <2>5. Quiet(book[sl], flatten_all(idle(sl)))
    BY <2>3, <2>4, QuietTrans
  <2> QED BY <2>3, <2>4, <2>5 DEF Quiet, Calm
<1> HIDE DEF halt, new
<1>4. AllQuiet /\ book' \in [Slots -> Book]
  BY <1>2, <1>3 DEF AllQuiet, Quiet, Calm
<1>5. AllCalm
  BY <1>4 DEF AllQuiet, AllCalm, Quiet
<1>6. halt \in BOOLEAN => Typed'
  BY <1>2, <1>4, RowsTyped, HaltTyped DEF IInv, Typed
<1>7. \A sl \in Slots : halted'[sl] = (halted[sl] \/ halt)
  BY <1>2 DEF Halt
<1>8. HaltedIdle'
  BY <1>2, <1>3, <1>5, <1>7, CalmIdle DEF IInv
<1>9. RiskStands'
  BY <1>2, <1>7 DEF RiskStands
<1>10. RowsInv'
  BY <1>2, <1>4, QuietRows DEF IInv, RowsInv
<1>11. halt \in BOOLEAN
  BY DEF halt
<1> QED BY <1>5, <1>6, <1>8, <1>9, <1>10, <1>11, CalmExclusive DEF IInv

LEMMA RiskRaisesKept ==
  ASSUME IInv, RiskCheckRaises
  PROVE  IInv'
<1>1. PICK k \in Slots, new \in Book :
        /\ FlattenRaises(cancel_pending_entries(book[k]), new)
        /\ halted' = [sl \in Slots |-> halted[sl] \/ sl <= k]
        /\ Rebook([sl \in Slots |-> IF sl < k THEN flatten_all(cancel_pending_entries(book[sl]))
                                    ELSE IF sl = k THEN new ELSE book[sl]])
  BY DEF RiskCheckRaises, Book
<1> DEFINE all(sl) == IF sl < k THEN flatten_all(cancel_pending_entries(book[sl]))
                      ELSE IF sl = k THEN new ELSE book[sl]
<1>2. /\ book' = [sl \in Slots |-> all(sl)] /\ rows' = Unrecorded(book')
      /\ stage' = "failed" /\ turn' = turn
  BY <1>1 DEF RiskCheckRaises, Rebook
<1>3. ASSUME NEW sl \in Slots
      PROVE  /\ Calm(book[sl], all(sl))
             /\ sl <= k => \A s \in Symbols : all(sl)[s].phase # "entering"
  <2> DEFINE b == cancel_pending_entries(book[sl])
  <2>1. book[sl] \in Book
    BY DEF IInv, Typed
  <2>2. Quiet(book[sl], b) /\ b \in Book /\ \A s \in Symbols : b[s].phase # "entering"
    BY <2>1, CancelQuiet DEF Quiet, Calm
  <2>3. Quiet(b, flatten_all(b)) /\ (sl = k => Quiet(b, new))
    BY <1>1, <2>2, FlattenAllQuiet, RaiseQuiet
  <2>4. Quiet(book[sl], flatten_all(b)) /\ (sl = k => Quiet(book[sl], new))
    BY <2>2, <2>3, QuietTrans
  <2>5. Calm(book[sl], book[sl])
    BY <2>1 DEF Calm
  <2>6. sl <= k => sl < k \/ sl = k
    BY DEF Slots
  <2> HIDE DEF b
  <2>7. CASE sl < k
    BY <2>2, <2>3, <2>4, <2>7 DEF Quiet, Calm, b
  <2>8. CASE ~(sl < k) /\ sl = k
    BY <2>2, <2>3, <2>4, <2>8 DEF Quiet, Calm
  <2>9. CASE ~(sl < k) /\ sl # k
    BY <2>5, <2>6, <2>9
  <2> QED BY <2>7, <2>8, <2>9
<1> HIDE DEF all
<1>4. AllCalm /\ book' \in [Slots -> Book]
  BY <1>2, <1>3 DEF AllCalm, Calm
<1>5. Typed'
  BY <1>1, <1>2, <1>4, RowsTyped DEF IInv, Typed
<1>6. HaltedIdle'
  <2>1. \A sl \in Slots : halted'[sl] =>
          halted[sl] \/ \A s \in Symbols : book'[sl][s].phase # "entering"
    BY <1>1, <1>2, <1>3
  <2> QED BY <2>1, <1>4, CalmIdle DEF IInv
<1>7. Exclusive' /\ Idle(stage')
  BY <1>2, <1>4, CalmExclusive DEF IInv, Idle
<1> QED BY <1>5, <1>6, <1>7, IdleStage DEF IInv

LEMMA CrashKept ==
  ASSUME IInv, Crash
  PROVE  IInv'
<1>1. /\ book' = [sl \in Slots |-> EmptyBook] /\ halted' = [sl \in Slots |-> FALSE]
      /\ rows' = rows /\ turn' = turn /\ stage' = "down"
  BY DEF Crash, database
<1>2. EmptyBook \in Book /\ \A s \in Symbols : EmptyBook[s] = Flat
  BY CellFacts DEF EmptyBook, Book
<1>3. Typed' /\ Exclusive' /\ HaltedIdle'
  BY <1>1, <1>2, CellFacts DEF IInv, Typed, Exclusive, HaltedIdle, Entering
<1>4. Idle(stage')
  BY <1>1 DEF Idle
<1> QED BY <1>3, <1>4, IdleStage DEF IInv

\* A start-up hands each symbol to one slot: the first that recorded it, or
\* the first of all when none did.
LEMMA StartUpKept ==
  ASSUME IInv, StartUp
  PROVE  IInv'
<1> DEFINE mine(sl) == IF sl = 1 /\ Untracked # {} THEN Untracked ELSE Owned(sl)
<1>1. /\ book' = [sl \in Slots |-> Adopted(mine(sl))]
      /\ \E bad \in BOOLEAN : Halt(bad)
      /\ rows' = rows /\ turn' = 1 /\ stage' = "started"
  BY DEF StartUp, _reconcile
<1>2. ASSUME NEW k \in Slots, NEW l \in Slots, k # l, NEW s \in mine(k) PROVE s \notin mine(l)
  <2>1. \A sl \in Slots : s \in Owned(sl) => s \in rows[sl] /\ \A j \in 1 .. (sl - 1) : s \notin rows[j]
    BY DEF Owned
  <2>2. s \in Untracked => \A sl \in Slots : s \notin rows[sl]
    BY DEF Untracked
  <2>3. k \in 1 .. (l - 1) \/ l \in 1 .. (k - 1)
    BY <1>2 DEF Slots
  <2> QED BY <1>2, <2>1, <2>2, <2>3
<1> HIDE DEF mine
<1>3. \A sl \in Slots : /\ Adopted(mine(sl)) \in Book
                        /\ \A s \in Symbols : /\ Adopted(mine(sl))[s].phase # "entering"
                                              /\ s \notin mine(sl) => Adopted(mine(sl))[s].phase = "flat"
  BY CellFacts DEF Adopted, Book
<1>4. 1 \in Slots
  BY NumSlotsAssumption DEF Slots
<1>5. Typed'
  BY <1>1, <1>3, <1>4, HaltTyped DEF IInv, Typed
<1>6. Exclusive'
  <2> SUFFICES ASSUME NEW k \in Slots, NEW l \in Slots, k # l, NEW s \in Symbols
               PROVE  "flat" \in {book'[k][s].phase, book'[l][s].phase}
    BY DEF Exclusive
  <2>1. s \notin mine(k) \/ s \notin mine(l)
    BY <1>2
  <2>2. /\ s \notin mine(k) => book'[k][s].phase = "flat"
        /\ s \notin mine(l) => book'[l][s].phase = "flat"
    BY <1>1, <1>3
  <2> QED BY <2>1, <2>2
<1>7. HaltedIdle'
  BY <1>1, <1>3 DEF HaltedIdle, Entering
<1>8. Idle(stage')
  BY <1>1 DEF Idle
<1> QED BY <1>5, <1>6, <1>7, <1>8, IdleStage DEF IInv

\* A fill moves no cell to another phase.
LEMMA FillKept ==
  ASSUME IInv, NEW sl \in Slots, NEW s \in Symbols, OrderFills(sl, s)
  PROVE  IInv'
<1>1. /\ book' = [book EXCEPT ![sl][s].order = "filled"]
      /\ book[sl][s].order = "working"
      /\ UNCHANGED << halted, reason, rows, stage, turn >>
  BY DEF OrderFills, loop, database
<1>2. book \in [Slots -> Book]
  BY DEF IInv, Typed
<1>3. /\ book' \in [Slots -> Book]
      /\ \A k \in Slots, t \in Symbols :
           /\ book'[k][t].phase = book[k][t].phase
           /\ book'[k][t].phase # "flat" => book[k][t].phase # "flat"
  BY <1>1, <1>2 DEF Book, Cell, Flat, Is
<1>4. AllCalm /\ \A k \in Slots : Positions(k)' = Positions(k)
  BY <1>3 DEF AllCalm, Calm, Positions, Owns
<1>5. Typed' /\ Exclusive' /\ HaltedIdle' /\ RiskStands'
  BY <1>1, <1>3, <1>4, CalmExclusive, CalmIdle DEF IInv, Typed, RiskStands
<1>6. RowsInv'
  BY <1>1, <1>4 DEF IInv, Typed, RowsInv
<1> QED BY <1>5, <1>6 DEF IInv

----------------------------------------------------------------------------
LEMMA InitHolds == Init => IInv
<1> SUFFICES ASSUME Init PROVE IInv
  OBVIOUS
<1>1. EmptyBook \in Book /\ \A s \in Symbols : EmptyBook[s] = Flat
  BY CellFacts DEF EmptyBook, Book
<1>2. 1 \in Slots
  BY NumSlotsAssumption DEF Slots
<1>3. Typed /\ Exclusive /\ HaltedIdle
  BY <1>1, <1>2, CellFacts DEF Init, Typed, Exclusive, HaltedIdle, Entering
<1>4. RiskStands /\ RowsInv
  BY DEF Init, RiskStands, RowsInv
<1> QED BY <1>3, <1>4 DEF IInv

\* The steps of the thread outside polls, rows and risk that change no book.
Moves == \/ ReadControls \/ ControlsUnreadable \/ FinishRequest \/ DoneUnwritten \/ FinishFails
         \/ ControlsDone \/ TickFails \/ RiskUnrecorded

LEMMA MovesKept ==
  ASSUME IInv, Moves
  PROVE  IInv'
<1>1. UNCHANGED << book, halted, rows, turn >>
  BY DEF Moves, ReadControls, ControlsUnreadable, FinishRequest, DoneUnwritten, FinishFails,
         ControlsDone, TickFails, RiskUnrecorded, memory, database
<1>2. Idle(stage')
  BY DEF Moves, ReadControls, ControlsUnreadable, FinishRequest, DoneUnwritten, FinishFails,
         ControlsDone, TickFails, RiskUnrecorded, Idle
<1> QED BY <1>1, <1>2, MoveKept DEF IInv, Typed

LEMMA SignalsDoneKept ==
  ASSUME IInv, SignalsDone
  PROVE  IInv'
<1>1. UNCHANGED << book, halted, rows >> /\ turn' = 1 /\ stage' = "polls"
  BY DEF SignalsDone, memory, database
<1>2. Typed' /\ Exclusive' /\ HaltedIdle' /\ RiskStands'
  BY <1>1, NumSlotsAssumption
     DEF IInv, Typed, Exclusive, HaltedIdle, Entering, RiskStands, Slots
<1>3. RowsInv'
  BY <1>1 DEF RowsInv, Slots
<1> QED BY <1>2, <1>3 DEF IInv

LEMMA NextKeeps == IInv /\ [Next]_vars => IInv'
<1> SUFFICES ASSUME IInv, [Next]_vars PROVE IInv'
  OBVIOUS
<1>1. CASE TickStep
  <2>1. CASE Moves
    BY <2>1, MovesKept
  <2>2. CASE ControlSlot \/ ControlRaises \/ RejectFails
    BY <2>2, ControlKept, ControlRaisesKept
  <2>3. CASE SignalsDone
    BY <2>3, SignalsDoneKept
  <2>4. CASE PollSlot \/ PollRaises
    BY <2>4, PollKept, PollRaisesKept
  <2>5. CASE ClearRows \/ (\E s \in Symbols : WriteRow(s)) \/ RowsDone
    BY <2>5, ClearKept, WriteKept, RowsDoneKept
  <2>6. CASE RiskCheck \/ RiskCheckRaises
    BY <2>6, RiskKept, RiskRaisesKept
  <2> QED BY <1>1, <2>1, <2>2, <2>3, <2>4, <2>5, <2>6 DEF TickStep, Moves
<1>2. CASE Crash \/ StartUp
  BY <1>2, CrashKept, StartUpKept
<1>3. CASE Submit \/ \E s \in Symbols : StrayBuyEnds(s) \/ StraySellEnds(s)
  <2>1. SameClaims
    BY <1>3 DEF Submit, StrayBuyEnds, StraySellEnds, SameClaims, memory, loop, database
  <2> QED BY <2>1, SameKept
<1>4. CASE \E sl \in Slots, s \in Symbols : Buy(sl, s) \/ Sell(sl, s) \/ OrderFills(sl, s)
  BY <1>4, BuyKept, SellKept, FillKept
<1>5. CASE UNCHANGED vars
  BY <1>5, SameKept DEF vars, SameClaims
<1> QED BY <1>1, <1>2, <1>3, <1>4, <1>5 DEF Next

LEMMA Invariance == Spec => []IInv
  BY InitHolds, NextKeeps, PTL DEF Spec

\* A symbol is in the book of at most one live slot: _exclusive looks at the
\* other books before a buy, and a start-up gives each symbol to one slot.
THEOREM SlotsExclusive == Spec => []Exclusive
<1>1. IInv => Exclusive
  BY DEF IInv
<1> QED BY <1>1, Invariance, PTL

\* A halted slot has no buy out: whatever halts a slot cancels its entries in
\* the same breath (_apply_controls, _apply_risk), and a halted one sends none.
THEOREM HaltedSlotsIdle == Spec => []HaltedIdle
<1>1. IInv => HaltedIdle
  BY DEF IInv
<1> QED BY <1>1, Invariance, PTL

\* After a declared halt every tick that completes ends with all slots halted
\* (check_pnl repeats a halt once declared).
THEOREM HaltsStand == Spec => []RiskStands
<1>1. IInv => RiskStands
  BY DEF IInv
<1> QED BY <1>1, Invariance, PTL

\* After a tick that completed the positions table is what each slot holds
\* (persist_positions, and the deletions that go with closed positions).
THEOREM RowsRecorded == Spec => []Recorded
<1>1. IInv => Recorded
  BY DEF IInv, RowsInv, Recorded
<1> QED BY <1>1, Invariance, PTL

----------------------------------------------------------------------------
(* The queue of control requests                                           *)

Request == [cmd : Commands, target : SUBSET Slots,
            status : {"pending", "done", "rejected"}, life : Nat]
Ids == 1 .. Len(requests)

Stops(i) == requests[i].cmd \in {"pause", "halt"}
ResumedAfter(i, sl) ==
  \E j \in (i + 1) .. Len(requests) : requests[j].cmd = "resume" /\ sl \in requests[j].target

QueueTyped ==
  /\ requests \in Seq(Request) /\ crashes \in Nat
  /\ \A i \in Ids : requests[i].life <= crashes
  /\ halted \in [Slots -> BOOLEAN]

\* Requests are answered in the order of their ids, and the tick has in hand the
\* oldest of those that are not.
InOrder ==
  /\ \A i, j \in Ids : j < i /\ IsPending(j) => IsPending(i)
  /\ todo \subseteq Pending
  /\ \A i \in todo, j \in Pending \ todo : i < j
  /\ stage # "controls" => todo = {}

\* A stop that is being applied has halted the slots it has reached.
Applied ==
  /\ left \subseteq TargetOf(todo)
  /\ todo # {} /\ Stops(Oldest(todo)) => \A sl \in TargetOf(todo) \ left : halted[sl]

\* A stop that was carried out in this life holds until a later request resumes.
Stands ==
  \A i \in Ids :
    requests[i].status = "done" /\ requests[i].life = crashes /\ Stops(i)
      => \A sl \in requests[i].target : halted[sl] \/ ResumedAfter(i, sl)

QInv == QueueTyped /\ InOrder /\ Applied /\ Stands

LEMMA Least ==
  ASSUME NEW S \in SUBSET Nat, S # {}
  PROVE  /\ Oldest(S) \in S /\ \A k \in S : Oldest(S) <= k
         /\ FirstOf(S) \in S
<1> DEFINE R == OpToRel(<, Nat)
<1>1. IsWellFoundedOn(R, Nat)
  BY NatLessThanWellFounded
<1>2. \A m, n \in Nat : m < n => << m, n >> \in R
  BY DEF OpToRel
<1> HIDE DEF R
<1>3. PICK n \in S : \A m \in S : << m, n >> \notin R
  BY <1>1, WFMin
<1>4. \A m \in S : n <= m
  <2>1. \A m \in S : m \in Nat /\ n \in Nat /\ ~(m < n)
    BY <1>2, <1>3
  <2> QED
    BY <2>1
<1>5. FirstOf(S) \in S /\ \A k \in S : FirstOf(S) <= k
  BY <1>3, <1>4 DEF FirstOf
<1> QED
  BY <1>5 DEF Oldest

LEMMA RequestFacts ==
  ASSUME QInv
  PROVE  /\ Ids \subseteq Nat /\ crashes \in Nat
         /\ \A i \in Ids : /\ requests[i] \in Request /\ requests[i].target \subseteq Slots
                           /\ requests[i].life \in Nat /\ requests[i].life <= crashes
<1>1. requests \in Seq(Request) /\ crashes \in Nat /\ \A i \in Ids : requests[i].life <= crashes
  BY DEF QInv, QueueTyped
<1>2. \A i \in Ids : i \in Nat /\ requests[i] \in Request
  BY <1>1 DEF Ids
<1>3. \A r \in Request : r.target \subseteq Slots /\ r.life \in Nat
  BY DEF Request
<1> QED
  BY <1>1, <1>2, <1>3

\* The request in hand is pending, and so are only later ones.
LEMMA OldestFacts ==
  ASSUME QInv, todo # {}
  PROVE  /\ Oldest(todo) \in todo /\ Oldest(todo) \in Ids
         /\ requests[Oldest(todo)].status = "pending"
         /\ \A j \in Pending : Oldest(todo) <= j
         /\ \A i \in Ids : ~IsPending(i) => i < Oldest(todo)
         /\ TargetOf(todo) = requests[Oldest(todo)].target
         /\ stage = "controls"
<1>1. todo \subseteq Pending /\ Pending \subseteq Ids /\ Ids \subseteq Nat
  BY RequestFacts DEF QInv, InOrder, Pending, Ids
<1> DEFINE h == Oldest(todo)
<1>2. h \in todo /\ \A k \in todo : h <= k
  BY <1>1, Least
<1>3. h \in Ids /\ IsPending(h) /\ stage = "controls"
  BY <1>1, <1>2 DEF Pending, QInv, InOrder
<1>4. ASSUME NEW j \in Pending PROVE h <= j
  <2>1. CASE j \in todo
    BY <1>2, <2>1
  <2>2. CASE j \notin todo
    <3>1. h < j
      BY <1>2, <1>4, <2>2 DEF QInv, InOrder
    <3>2. h \in Nat /\ j \in Nat
      BY <1>1, <1>3, <1>4
    <3> HIDE DEF h
    <3> QED
      BY <3>1, <3>2
  <2> QED
    BY <2>1, <2>2
<1>5. ASSUME NEW i \in Ids, ~IsPending(i) PROVE i < h
  <2>1. i # h /\ ~(h < i)
    BY <1>3, <1>5 DEF QInv, InOrder
  <2>2. i \in Nat /\ h \in Nat
    BY <1>1, <1>3, <1>5
  <2> HIDE DEF h
  <2> QED
    BY <2>1, <2>2
<1> QED
  BY <1>2, <1>3, <1>4, <1>5 DEF IsPending, TargetOf

\* Steps that leave the queue alone and halt, if anything.
LEMMA QueueSame ==
  ASSUME QInv, UNCHANGED << requests, todo, left, crashes >>,
         halted' \in [Slots -> BOOLEAN], \A sl \in Slots : halted[sl] => halted'[sl],
         stage' = stage \/ stage # "controls" \/ todo = {}
  PROVE  QInv'
<1>1. QueueTyped'
  BY DEF QInv, QueueTyped, Ids
<1>2. InOrder'
  BY DEF QInv, InOrder, Ids, IsPending, Pending
<1>3. TargetOf(todo)' = TargetOf(todo) /\ Oldest(todo)' = Oldest(todo)
  BY DEF TargetOf, Oldest, FirstOf
<1>4. \A i : Stops(i)' = Stops(i) /\ \A sl : ResumedAfter(i, sl)' = ResumedAfter(i, sl)
  BY DEF Stops, ResumedAfter
<1>5. \A i \in Ids : requests[i].target \subseteq Slots
  BY RequestFacts
<1>6. Stands'
  BY <1>4, <1>5 DEF QInv, Stands, Ids
<1>7. Applied'
  <2>1. todo # {} => TargetOf(todo) \subseteq Slots
    BY <1>5, OldestFacts
  <2> QED
    BY <1>3, <1>4, <2>1 DEF QInv, Applied, Stops
<1> QED
  BY <1>1, <1>2, <1>6, <1>7 DEF QInv

LEMMA QueueRead ==
  ASSUME QInv, ReadControls
  PROVE  QInv'
<1>1. /\ todo' = Pending /\ left' = TargetOf(Pending) /\ stage' = "controls"
      /\ UNCHANGED << requests, crashes, halted >>
  BY DEF ReadControls, memory, database
<1>2. QueueTyped' /\ Stands'
  BY <1>1 DEF QInv, QueueTyped, Ids, Stands, Stops, ResumedAfter
<1>3. InOrder'
  BY <1>1 DEF QInv, InOrder, Ids, IsPending, Pending
<1>4. TargetOf(todo)' = left'
  BY <1>1 DEF TargetOf, Oldest, FirstOf
<1> QED
  BY <1>2, <1>3, <1>4 DEF QInv, Applied

\* A slot of the request in hand: what it resumes, no earlier stop still forbids.
LEMMA QueueApplied ==
  ASSUME QInv, ControlSlot
  PROVE  QInv'
<1> DEFINE h == Oldest(todo)
           sl == FirstOf(left)
           cmd == requests[h].cmd
<1>1. /\ left # {} /\ left' = left \ {sl} /\ stage = "controls" /\ stage' = stage
      /\ halted' = [halted EXCEPT ![sl] = IF cmd = "flatten" THEN @ ELSE cmd # "resume"]
      /\ UNCHANGED << requests, todo, crashes >>
  BY DEF ControlSlot, Control, RestOf
<1>2. left \subseteq TargetOf(todo) /\ todo # {}
  BY <1>1 DEF QInv, Applied, TargetOf
<1>3. /\ h \in Ids /\ TargetOf(todo) = requests[h].target
      /\ \A i \in Ids : ~IsPending(i) => i < h
  BY <1>2, OldestFacts
<1>4. TargetOf(todo) \subseteq Slots /\ halted \in [Slots -> BOOLEAN]
  BY <1>3, RequestFacts DEF QInv, QueueTyped
<1>5. Slots \subseteq Nat
  BY DEF Slots
<1>6. sl \in left
  BY <1>1, <1>2, <1>4, <1>5, Least
<1>7. /\ TargetOf(todo)' = TargetOf(todo) /\ Oldest(todo)' = h
      /\ \A i : Stops(i)' = Stops(i) /\ \A k : ResumedAfter(i, k)' = ResumedAfter(i, k)
  BY <1>1 DEF TargetOf, Oldest, FirstOf, Stops, ResumedAfter
<1> HIDE DEF sl
<1>8. halted' \in [Slots -> BOOLEAN]
  BY <1>1, <1>4
<1>9. QueueTyped' /\ InOrder'
  BY <1>1, <1>8 DEF QInv, QueueTyped, InOrder, Ids, IsPending, Pending
<1>10. Applied'
  <2>1. left' \subseteq TargetOf(todo)'
    BY <1>1, <1>2, <1>7
  <2>2. ASSUME Stops(h), NEW k \in TargetOf(todo) \ left' PROVE halted'[k]
    <3>1. CASE k = sl
      BY <1>1, <1>2, <1>4, <1>6, <2>2, <3>1 DEF Stops
    <3>2. CASE k # sl
      BY <1>1, <1>2, <1>4, <2>2, <3>2 DEF QInv, Applied
    <3> QED
      BY <3>1, <3>2
  <2> QED
    BY <2>1, <2>2, <1>7 DEF Applied
<1>11. Stands'
  <2> SUFFICES ASSUME NEW i \in Ids, requests[i].status = "done", requests[i].life = crashes,
                      Stops(i), NEW k \in requests[i].target, ~ResumedAfter(i, k)
               PROVE  halted'[k]
      BY <1>1, <1>7 DEF Stands, Ids
  <2>1. halted[k] /\ k \in Slots
    BY RequestFacts DEF QInv, Stands
  <2>2. i < h
    BY <1>3 DEF IsPending
  <2>3. h \in (i + 1) .. Len(requests)
    BY <1>3, <2>2 DEF Ids
  <2>4. k = sl => cmd # "resume"
    BY <1>2, <1>3, <1>6, <2>3 DEF ResumedAfter
  <2> QED
    BY <1>1, <1>4, <2>1, <2>4
<1> QED
  BY <1>9, <1>10, <1>11 DEF QInv

\* The request in hand is answered: done, when every slot of it has been reached.
LEMMA QueueAnswered ==
  ASSUME QInv, todo # {}, NEW st \in {"done", "rejected"}, NextRequest(st),
         st = "done" => left = {},
         UNCHANGED << crashes, stage >>, halted' \in [Slots -> BOOLEAN],
         \A sl \in Slots : halted[sl] => halted'[sl]
  PROVE  QInv'
<1> DEFINE h == Oldest(todo)
           rest == todo \ {h}
<1>1. /\ requests' = [requests EXCEPT ![h].status = st, ![h].life = crashes]
      /\ todo' = rest /\ left' = TargetOf(rest)
  BY DEF NextRequest, Finished
<1>2. /\ h \in todo /\ h \in Ids /\ TargetOf(todo) = requests[h].target /\ stage = "controls"
      /\ \A j \in Pending : h <= j
  BY OldestFacts
<1>3. /\ requests \in Seq(Request) /\ crashes \in Nat
      /\ \A i \in Ids : requests[i].life <= crashes /\ requests[i] \in Request
  BY DEF QInv, QueueTyped, Ids
<1> HIDE DEF h
<1>4. /\ requests' \in Seq(Request) /\ Len(requests') = Len(requests)
      /\ \A i \in Ids : /\ requests'[i].cmd = requests[i].cmd
                        /\ requests'[i].target = requests[i].target
                        /\ i # h => requests'[i] = requests[i]
      /\ requests'[h].status = st /\ requests'[h].life = crashes
  <2>1. DOMAIN requests = Ids
    BY <1>3 DEF Ids
  <2>2. [requests[h] EXCEPT !.status = st, !.life = crashes] \in Request
    BY <1>2, <1>3 DEF Request
  <2>3. requests' = [requests EXCEPT ![h] = [requests[h] EXCEPT !.status = st, !.life = crashes]]
    BY <1>1, <1>2, <2>1
  <2>4. requests[h] \in Request
    BY <1>2, <1>3
  <2> QED
    BY <1>2, <1>3, <2>1, <2>2, <2>3, <2>4 DEF Ids, Request
<1>5. Ids' = Ids /\ \A i \in Ids : /\ IsPending(i)' <=> IsPending(i) /\ i # h
                                   /\ Stops(i)' <=> Stops(i)
                                   /\ \A sl : ResumedAfter(i, sl)' <=> ResumedAfter(i, sl)
  BY <1>4 DEF Ids, IsPending, Stops, ResumedAfter
<1>6. Pending' = Pending \ {h}
  BY <1>5 DEF Pending, Ids
<1>7. QueueTyped'
  BY <1>3, <1>4, <1>5 DEF QueueTyped
<1>8. InOrder'
  <2>1. \A i, j \in Ids : j < i /\ IsPending(j)' => IsPending(i)'
    <3> SUFFICES ASSUME NEW i \in Ids, NEW j \in Ids, j < i, IsPending(j), j # h
                 PROVE  IsPending(i) /\ i # h
        BY <1>5
    <3>1. h <= j
      BY <1>2 DEF Pending, Ids
    <3> QED
      BY <3>1, <1>2 DEF QInv, InOrder, Ids
  <2>2. todo' \subseteq Pending' /\ \A i \in todo', j \in Pending' \ todo' : i < j
    BY <1>1, <1>6 DEF QInv, InOrder
  <2> QED
    BY <1>2, <1>5, <2>1, <2>2 DEF InOrder
<1>9. Applied'
  <2>1. rest # {} => Oldest(rest) \in Ids
    <3>1. rest \subseteq Ids /\ Ids \subseteq Nat
      BY RequestFacts DEF QInv, InOrder, Pending, Ids
    <3> QED
      BY <3>1, Least
  <2>2. TargetOf(todo)' = TargetOf(rest)
    BY <1>1, <1>4, <2>1 DEF TargetOf, Oldest, FirstOf
  <2> QED
    BY <1>1, <2>2 DEF Applied
<1>10. Stands'
  <2> SUFFICES ASSUME NEW i \in Ids, requests'[i].status = "done", requests'[i].life = crashes,
                      Stops(i), NEW sl \in requests[i].target, ~ResumedAfter(i, sl)
               PROVE  halted'[sl]
      BY <1>4, <1>5 DEF Stands
  <2>1. sl \in Slots
    BY <1>3 DEF Request
  <2>2. halted[sl]
    <3>1. CASE i = h
      BY <1>2, <1>4, <3>1 DEF QInv, Applied, h
    <3>2. CASE i # h
      BY <1>4, <3>2 DEF QInv, Stands
    <3> QED
      BY <3>1, <3>2
  <2> QED
    BY <2>1, <2>2
<1> QED
  BY <1>7, <1>8, <1>9, <1>10 DEF QInv

LEMMA QueueSubmitted ==
  ASSUME QInv, Submit
  PROVE  QInv'
<1>1. PICK r \in Request : requests' = Append(requests, r) /\ r.status = "pending" /\ r.life = 0
  <2>1. PICK cmd \in Commands, target \in Targets :
          requests' = Append(requests, [cmd |-> cmd, target |-> target,
                                        status |-> "pending", life |-> 0])
    BY DEF Submit
  <2>2. target \in SUBSET Slots
    BY DEF Targets
  <2> DEFINE r == [cmd |-> cmd, target |-> target, status |-> "pending", life |-> 0]
  <2>3. r \in Request /\ r.status = "pending" /\ r.life = 0
    BY <2>2 DEF Request
  <2> QED
    BY <2>1, <2>3
<1>2. UNCHANGED << todo, left, stage, halted, crashes >>
  BY DEF Submit, memory, loop
<1>3. requests \in Seq(Request) /\ crashes \in Nat
  BY DEF QInv, QueueTyped
<1>n. PICK n \in Nat : n = Len(requests) + 1
  BY <1>3
<1>4. /\ requests' \in Seq(Request) /\ Len(requests') = n /\ n \in Nat
      /\ \A i \in Ids : requests'[i] = requests[i]
      /\ requests'[n] = r
  BY <1>1, <1>3, <1>n DEF Ids
<1>a. Len(requests) \in Nat
  BY <1>3
<1>b. /\ Ids' = Ids \cup {n} /\ \A i \in Ids : i \in Nat /\ i < n
      /\ \A i \in Ids : (i + 1) .. Len(requests) \subseteq Ids
      /\ \A i \in Ids : (i + 1) .. Len(requests) \subseteq (i + 1) .. Len(requests)'
  BY <1>4, <1>a, <1>n DEF Ids
<1>5. /\ \A i \in Ids : /\ IsPending(i)' <=> IsPending(i)
                        /\ Stops(i)' <=> Stops(i)
                        /\ \A sl : ResumedAfter(i, sl) => ResumedAfter(i, sl)'
      /\ IsPending(n)'
  <2>1. \A i \in Ids : \A sl : ResumedAfter(i, sl) => ResumedAfter(i, sl)'
    BY <1>4, <1>b DEF ResumedAfter
  <2>2. requests'[n].status = "pending"
    BY <1>1, <1>4
  <2>3. IsPending(n)'
    BY <2>2 DEF IsPending
  <2>4. \A i \in Ids : (IsPending(i)' <=> IsPending(i)) /\ (Stops(i)' <=> Stops(i))
    BY <1>4 DEF IsPending, Stops
  <2> QED
    BY <2>1, <2>3, <2>4
<1>6. Pending' = Pending \cup {n} /\ Pending \subseteq Ids
  <2>1. Pending' = {i \in Ids' : IsPending(i)'} /\ Pending = {i \in Ids : IsPending(i)}
    BY DEF Pending, Ids
  <2> QED
    BY <1>5, <1>b, <2>1
<1>7. QueueTyped'
  <2>1. \A i \in Ids' : requests'[i].life <= crashes
    <3>1. \A i \in Ids : requests[i].life <= crashes
      BY RequestFacts
    <3>2. requests'[n].life = 0 /\ 0 <= crashes
      BY <1>1, <1>3, <1>4
    <3> QED
      BY <1>4, <1>b, <3>1, <3>2
  <2> QED
    BY <1>2, <1>3, <1>4, <2>1 DEF QInv, QueueTyped
<1>8. InOrder'
  <2>1. \A i, j \in Ids' : j < i /\ IsPending(j)' => IsPending(i)'
    <3>1. \A i \in Ids : ~(n < i)
      BY <1>4, <1>b
    <3> QED
      BY <1>5, <1>b, <3>1 DEF QInv, InOrder
  <2>2. todo' \subseteq Pending' /\ \A i \in todo', j \in Pending' \ todo' : i < j
    BY <1>2, <1>b, <1>6 DEF QInv, InOrder
  <2> QED
    BY <1>2, <2>1, <2>2 DEF QInv, InOrder
<1>9. todo # {} => Oldest(todo) \in Ids
  BY OldestFacts
<1>10. Applied'
  <2>1. TargetOf(todo)' = TargetOf(todo) /\ Oldest(todo)' = Oldest(todo)
    BY <1>2, <1>4, <1>9 DEF TargetOf, Oldest, FirstOf
  <2> QED
    BY <1>2, <1>5, <1>9, <2>1 DEF QInv, Applied
<1>11. Stands'
  <2> SUFFICES ASSUME NEW i \in Ids', requests'[i].status = "done",
                      requests'[i].life = crashes, Stops(i)',
                      NEW sl \in requests'[i].target, ~ResumedAfter(i, sl)'
               PROVE  halted[sl]
      BY <1>2 DEF Stands
  <2>1. i \in Ids
    BY <1>1, <1>4, <1>b
  <2> QED
    BY <1>4, <1>5, <2>1 DEF QInv, Stands
<1> QED
  BY <1>7, <1>8, <1>10, <1>11 DEF QInv

\* A new life has carried out no request yet.
LEMMA QueueForgotten ==
  ASSUME QInv, Crash
  PROVE  QInv'
<1>1. /\ todo' = {} /\ left' = {} /\ requests' = requests /\ crashes' = crashes + 1
      /\ halted' = [sl \in Slots |-> FALSE]
  BY DEF Crash, database
<1>2. crashes \in Nat /\ \A i \in Ids : requests[i].life <= crashes /\ requests[i].life \in Nat
  BY RequestFacts
<1>3. QueueTyped' /\ Stands'
  BY <1>1, <1>2 DEF QInv, QueueTyped, Stands, Ids
<1>4. InOrder' /\ Applied'
  BY <1>1 DEF QInv, InOrder, Applied, Ids, IsPending, Pending
<1> QED
  BY <1>3, <1>4 DEF QInv

\* The steps that leave the queue alone.
Aside ==
  \/ ControlsUnreadable \/ ControlsDone \/ SignalsDone \/ PollSlot \/ PollRaises
  \/ ClearRows \/ (\E s \in Symbols : WriteRow(s)) \/ RowsDone \/ TickFails
  \/ RiskCheck \/ RiskCheckRaises \/ RiskUnrecorded \/ StartUp
  \/ (\E s \in Symbols : StrayBuyEnds(s) \/ StraySellEnds(s))
  \/ (\E sl \in Slots, s \in Symbols : Buy(sl, s) \/ Sell(sl, s) \/ OrderFills(sl, s))
  \/ UNCHANGED vars

LEMMA QueueAside ==
  ASSUME QInv, Aside
  PROVE  QInv'
<1>0. halted \in [Slots -> BOOLEAN]
  BY DEF QInv, QueueTyped
<1>1. /\ UNCHANGED << requests, todo, left, crashes >>
      /\ stage' = stage \/ stage # "controls" \/ todo = {}
  BY DEF Aside, ControlsUnreadable, ControlsDone, SignalsDone, PollSlot, PollRaises, ClearRows,
         WriteRow, RowsDone, TickFails, RiskCheck, RiskCheckRaises, RiskUnrecorded, StartUp,
         StrayBuyEnds, StraySellEnds, Buy, Sell, OrderFills, vars, loop, database
<1>2. \/ UNCHANGED halted
      \/ \E on \in BOOLEAN : Halt(on)
      \/ \E k \in Slots : halted' = [sl \in Slots |-> halted[sl] \/ sl <= k]
  <2>1. CASE PollSlot
    BY <2>1 DEF PollSlot
  <2>2. CASE RiskCheck
    <3>1. PICK breach \in BOOLEAN : Halt(StillHalted(breach))
      BY <2>2 DEF RiskCheck
    <3>2. Halt(IF StillHalted(breach) THEN TRUE ELSE FALSE)
      BY <3>1 DEF Halt
    <3> QED
      BY <3>2
  <2>3. CASE RiskCheckRaises
    BY <2>3 DEF RiskCheckRaises
  <2>4. CASE StartUp
    BY <2>4 DEF StartUp
  <2>5. CASE ~(PollSlot \/ RiskCheck \/ RiskCheckRaises \/ StartUp)
    BY <2>5 DEF Aside, ControlsUnreadable, ControlsDone, SignalsDone, PollRaises, ClearRows,
         WriteRow, RowsDone, TickFails, RiskUnrecorded,
         StrayBuyEnds, StraySellEnds, Buy, Sell, OrderFills, vars, memory
  <2> QED
    BY <2>1, <2>2, <2>3, <2>4, <2>5
<1>3. halted' \in [Slots -> BOOLEAN] /\ \A sl \in Slots : halted[sl] => halted'[sl]
  BY <1>0, <1>2 DEF Halt
<1> QED
  BY <1>1, <1>3, QueueSame

LEMMA QueueKept == QInv /\ [Next]_vars => QInv'
<1> SUFFICES ASSUME QInv, [Next]_vars PROVE QInv'
  OBVIOUS
<1>0. halted \in [Slots -> BOOLEAN]
  BY DEF QInv, QueueTyped
<1>1. CASE ReadControls \/ ControlSlot \/ Submit \/ Crash
  BY <1>1, QueueRead, QueueApplied, QueueSubmitted, QueueForgotten
<1>2. CASE ControlRaises \/ RejectFails
  <2>1. PICK at : halted' = [halted EXCEPT ![at] = @ \/ requests[Oldest(todo)].cmd = "halt"]
    BY <1>2 DEF ControlRaises, RejectFails, SlotRaises
  <2>2. halted' \in [Slots -> BOOLEAN] /\ \A k \in Slots : halted[k] => halted'[k]
    BY <1>0, <2>1
  <2>3. UNCHANGED crashes /\ left # {}
    BY <1>2 DEF ControlRaises, RejectFails, SlotRaises
  <2>4. CASE ControlRaises
    <3>1. NextRequest("rejected") /\ UNCHANGED stage
      BY <2>4 DEF ControlRaises
    <3>2. todo # {}
      BY <2>3 DEF QInv, Applied, TargetOf
    <3> QED
      BY <2>2, <2>3, <3>1, <3>2, QueueAnswered
  <2>5. CASE RejectFails
    <3>1. UNCHANGED requests /\ todo' = {} /\ left' = {}
      BY <2>5 DEF RejectFails
    <3>2. QueueTyped' /\ Stands'
      <4>1. QueueTyped'
        BY <2>2, <2>3, <3>1 DEF QInv, QueueTyped, Ids
      <4>2. \A i : Stops(i)' = Stops(i) /\ \A sl : ResumedAfter(i, sl)' = ResumedAfter(i, sl)
        BY <3>1 DEF Stops, ResumedAfter
      <4>3. \A i \in Ids : requests[i].target \subseteq Slots
        BY RequestFacts
      <4>4. Stands'
        BY <2>2, <2>3, <3>1, <4>2, <4>3 DEF QInv, Stands, Ids
      <4> QED
        BY <4>1, <4>4
    <3>3. InOrder' /\ Applied'
      BY <3>1 DEF QInv, InOrder, Applied, Ids, IsPending, Pending
    <3> QED
      BY <3>2, <3>3 DEF QInv
  <2> QED
    BY <1>2, <2>4, <2>5
<1>3. CASE FinishRequest \/ DoneUnwritten
  <2>1. PICK st \in {"done", "rejected"} : NextRequest(st)
    BY <1>3 DEF FinishRequest, DoneUnwritten
  <2>2. UNCHANGED << crashes, stage, halted >> /\ left = {} /\ todo # {}
    BY <1>3 DEF FinishRequest, DoneUnwritten, memory
  <2> QED
    BY <1>0, <2>1, <2>2, QueueAnswered
<1>4. CASE FinishFails
  <2>1. UNCHANGED << requests, crashes, halted, left >> /\ todo' = {} /\ left = {}
    BY <1>4 DEF FinishFails, memory, database
  <2>2. QueueTyped' /\ Stands'
    BY <2>1 DEF QInv, QueueTyped, Stands, Ids, Stops, ResumedAfter
  <2>3. InOrder' /\ Applied'
    BY <2>1 DEF QInv, InOrder, Applied, Ids, IsPending, Pending
  <2> QED
    BY <2>2, <2>3 DEF QInv
<1>5. CASE Aside
  BY <1>5, QueueAside
<1> QED
  BY <1>1, <1>2, <1>3, <1>4, <1>5 DEF Next, TickStep, Aside

LEMMA QueueHolds == Spec => []QInv
<1>1. Init => QInv
  <2> SUFFICES ASSUME Init PROVE QInv
      OBVIOUS
  <2>1. requests = << >> /\ crashes = 0 /\ todo = {} /\ left = {}
        /\ halted = [sl \in Slots |-> FALSE]
    BY DEF Init
  <2> QED
    BY <2>1 DEF QInv, QueueTyped, InOrder, Applied, Stands, Ids, Pending
<1> QED
  BY <1>1, QueueKept, PTL DEF Spec

\* _apply_controls: requests take effect in the order they were given, failed writes
\* of their outcome, raising slots and halts by the risk check notwithstanding.
THEOREM StopsStand == Spec => []PauseStands
<1>1. QInv => PauseStands
  <2> SUFFICES ASSUME QInv, NEW sl \in Slots, NEW i \in Ids,
                      requests[i].status = "done", requests[i].life = crashes,
                      requests[i].cmd \in {"pause", "halt"}, sl \in requests[i].target,
                      \A j \in (i + 1) .. Len(requests) :
                        ~(requests[j].cmd = "resume" /\ sl \in requests[j].target)
               PROVE  halted[sl]
      BY DEF PauseStands, Ids
  <2> QED
    BY DEF QInv, Stands, Stops, ResumedAfter
<1> QED
  BY <1>1, QueueHolds, PTL
=============================================================================
