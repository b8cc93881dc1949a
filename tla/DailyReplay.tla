---------------------------- MODULE DailyReplay -----------------------------
(***************************************************************************)
(* daily/engine.py, run_daily: targets on the close, fills at the next     *)
(* open, one day after the other.                                          *)
(*                                                                         *)
(* Prices are whole numbers.  The statistics of a finished run, the        *)
(* benchmark curves and the average cost of a position (read by them       *)
(* alone) are left out.                                                    *)
(***************************************************************************)
EXTENDS DailyTargets

CONSTANTS
  Strategies,     \* the strategies to replay, their parameters and rebalance_days
  Windows,        \* for each kind, what a window of the replay may show
  Histories,      \* the same, to look at a rule by itself
  Tapes,          \* what a day may print: the open and close of every name, or NoBar
  Capital, MaxGross, SlippageBps, LastDay

\* A name that has no row of the day: neither price.
NoBar == [open |-> -1, close |-> -1]

ASSUME ReplayAssumption ==
  /\ Capital \in Nat /\ MaxGross \in Nat /\ SlippageBps \in 0 .. 9999
  /\ LastDay >= 3 \* fewer than three sessions in range
  /\ \A b \in Tapes : b \in [Symbols -> [open : Nat, close : Nat] \cup {NoBar}]
  /\ \A p \in Strategies : AreParameters(p)
  /\ \A k \in DOMAIN Reads : \A w \in Windows[k] \cup Histories[k] : IsWindow(k, w)

VARIABLES
  strategy, day, stage,      \* open, close
  cash, qty, entry_day,      \* the book; 0 for a name it does not hold
  bars, marks,               \* of today; the last close of each name, 0 before the first
  pending,
  since_rebalance,
  last_w,                    \* what a VolTargeting remembers
  \* of the day, for the properties:
  applied,                   \* the targets filled at today's open
  eq_open,                   \* the equity they were taken of
  trades                     \* round trips ended at today's open
book == << cash, qty, entry_day >>
vars == << strategy, day, stage, book, bars, marks, pending, since_rebalance, last_w,
           applied, eq_open, trades >>

None == [none |-> 0]
Nobody == [s \in Symbols |-> 0]
NoBars == [s \in Symbols |-> NoBar]

Init ==
  /\ strategy \in Strategies /\ day = 1 /\ stage = "open"
  /\ cash = Capital /\ qty = Nobody /\ entry_day = Nobody
  /\ bars = NoBars /\ marks = Nobody
  /\ pending = None /\ since_rebalance = strategy.rebalance_days /\ last_w = 0
  /\ applied = None /\ eq_open = 0 /\ trades = {}

Held == { s \in Symbols : qty[s] # 0 }
Opened(b) == { s \in Symbols : b[s].open > 0 }
Value(prices) == cash + Total([s \in Held |-> qty[s] * prices[s]])
Gross(weights) == Total([s \in DOMAIN weights |-> Size(weights[s])])

----------------------------------------------------------------------------
(* The open                                                                *)

\* A name without a bar is taken at its last close.
AtOpen(b) == [s \in Symbols |-> IF b[s] = NoBar THEN marks[s] ELSE b[s].open]

\* Mutant: only the names of the new targets are looked at.
Traded_TargetsOnly(b) == DOMAIN pending \cap Opened(b)

Traded(b) == (DOMAIN pending \cup Held) \cap Opened(b)

\* Mutant: rounded down, a short away from zero.
target_qty_Floor(s, equity, px) ==
  (equity * (IF s \in DOMAIN pending THEN pending[s] ELSE 0)) \div (px * Unit)

target_qty(s, equity, px) ==
  Truncated(equity * (IF s \in DOMAIN pending THEN pending[s] ELSE 0), px * Unit)

Paid(px, delta) == px + ((IF delta > 0 THEN 1 ELSE -1) * px * SlippageBps) \div 10000

Opposite(x, y) == (x > 0) # (y > 0)
Ended(old, new) == old # 0 /\ old # new /\ (new = 0 \/ Opposite(old, new))

\* execute, of every name that is due.
Fill(b) ==
  LET base  == Value(AtOpen(b))
      new   == [s \in Symbols |-> IF s \in Traded(b) THEN target_qty(s, base, b[s].open) ELSE qty[s]]
      spent == Total([s \in { x \in Symbols : new[x] # qty[x] } |->
                        (new[s] - qty[s]) * Paid(b[s].open, new[s] - qty[s])])
  IN  /\ qty' = new
      /\ cash' = cash - spent
      /\ entry_day' = [s \in Symbols |-> IF new[s] = 0 THEN 0
                                         ELSE IF qty[s] = 0 \/ Opposite(qty[s], new[s]) THEN day
                                         ELSE entry_day[s]]
      /\ trades' = { [symbol |-> s, qty |-> qty[s], entry_day |-> entry_day[s], exit_day |-> day] :
                       s \in { x \in Symbols : Ended(qty[x], new[x]) } }
      /\ applied' = pending /\ eq_open' = base /\ pending' = None

Open ==
  /\ stage = "open" /\ stage' = "close"
  /\ \E b \in Tapes :
       /\ bars' = b
       /\ marks' = [s \in Symbols |-> IF b[s] = NoBar THEN marks[s] ELSE b[s].close]
       /\ IF pending = None THEN UNCHANGED << book, pending, applied, eq_open, trades >> ELSE Fill(b)
  /\ UNCHANGED << strategy, day, since_rebalance, last_w >>

----------------------------------------------------------------------------
(* The close                                                               *)

Scaled(weights) ==
  IF Gross(weights) > MaxGross
  THEN [s \in DOMAIN weights |-> Truncated(weights[s] * MaxGross, Gross(weights))]
  ELSE weights

Remembered(weights) ==
  IF strategy.kind = "vol_targeting" /\ weights # Flat THEN weights[strategy.symbol] ELSE last_w

\* A strategy that raises has no targets: the next open sells everything.
Decide ==
  /\ since_rebalance' = 0
  /\ \/ \E w \in Windows[strategy.kind] : \E t \in targets(strategy, w, last_w) :
          /\ pending' = Scaled(t) /\ last_w' = Remembered(t)
     \/ /\ pending' = Flat /\ UNCHANGED last_w

Close ==
  /\ stage = "close" /\ stage' = "open" /\ day < LastDay /\ day' = day + 1
  /\ IF since_rebalance + 1 >= strategy.rebalance_days THEN Decide
     ELSE since_rebalance' = since_rebalance + 1 /\ UNCHANGED << pending, last_w >>
  /\ bars' = NoBars /\ applied' = None /\ eq_open' = 0 /\ trades' = {}
  /\ UNCHANGED << strategy, book, marks >>

Next == Open \/ Close

Spec == Init /\ [][Next]_vars

----------------------------------------------------------------------------
(* Properties                                                              *)

\* After a rebalance of an account above zero a name that opened is held only
\* if it has a target, and never on the other side of it: what has left the
\* targets (or the universe, or all of them when the strategy raised) is sold.
\* How much is held is WithinGross's part.  An account below zero takes the
\* other side of every target.
BookFollows ==
  applied # None /\ eq_open > 0 =>
    \A s \in Held \cap Opened(bars) : s \in DOMAIN applied /\ ~Opposite(qty[s], applied[s])

\* What a rebalance has bought and shorted is within the gross allowed of
\* the equity it was taken of, whole shares, leverage and losses included.
WithinGross ==
  applied # None =>
    Unit * Total([s \in Opened(bars) |-> Size(qty[s]) * bars[s].open]) <= MaxGross * Size(eq_open)

\* What a rule ranks the names by, from the data, the more the better.
Merits(p, w) ==
  CASE p.kind = "residual_momentum" -> {w.resid}
    [] p.kind \in {"mean_reversion", "mean_reversion_multi"} -> {Minus(w.ret)}
    [] p.kind = "mean_reversion_weighted" -> {Minus(WeightedDeviation(p, w))}
    [] p.kind = "alpha_combo" -> {w.ret, Minus(w.rev), Minus(w.vol)}
    [] p.kind = "low_volatility" -> {Minus(w.vol)}
    [] p.kind = "multifactor" -> {w.ret, Minus(w.vol)}
    [] p.kind = "ibs_mean_reversion" -> {Minus(w.ibs)}
    [] OTHER -> {w.ret}

\* Where a rule does promise an order: within a cluster; between names that
\* have every score of the combination, which else is the mean of fewer; in a
\* rotation unless its last names reach into its first, when it may short
\* a leader that failed the filter of the buys.
Comparable(p, w, x, y) ==
  CASE p.kind = "mean_reversion_multi" -> _cluster(p, x) = _cluster(p, y)
    [] p.kind = "alpha_combo" -> \A f \in Merits(p, w) : {x, y} \subseteq DOMAIN f
    [] p.kind = "sector_rotation" -> ~p.ma_filter \/ Card(w.ret) >= 2 * p.top_n
    [] OTHER -> TRUE

\* No rule shorts a name that beats, on every count it looks at, one it
\* buys, nor trades on both sides names it has no count of, for any holes
\* in the data and any ties.
RightSide ==
  day = 1 /\ stage = "open" =>
    \A w \in Histories[strategy.kind] : \A t \in targets(strategy, w, last_w) :
      \A x, y \in DOMAIN t :
        t[x] > 0 /\ t[y] < 0 /\ Comparable(strategy, w, x, y) =>
          \E f \in Merits(strategy, w) : {x, y} \subseteq DOMAIN f /\ f[x] >= f[y]
=============================================================================
