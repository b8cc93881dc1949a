-------------------------- MODULE PositionLifecycle --------------------------
(***************************************************************************)
(* What a slot's order manager promises the runner, strategy and ledger,   *)
(* with brokers, polls and settle loops left out: a symbol goes            *)
(*                                                                         *)
(*    flat -> entering -> held -> exiting -> flat                          *)
(*                                                                         *)
(* under a limit on the symbols that are not flat; a position ends in one  *)
(* trade, under an exit order no trade had before, unless the bot finds    *)
(* that nothing is left of it.                                             *)
(***************************************************************************)
EXTENDS Integers, FiniteSets

CONSTANTS
  Symbols,
  ExitOrders,   \* the ids an exit order may have
  Limit,        \* symbols that may be busy at once
  MayVanish     \* the slot looks at the account before it sells

VARIABLES
  phase,        \* symbol -> flat, entering, held, exiting
  closed        \* symbol -> exit orders its trades were booked under

lifecycleVars == << phase, closed >>

Phases == {"flat", "entering", "held", "exiting"}
Busy == {s \in Symbols : phase[s] # "flat"}

LInit ==
  /\ phase = [s \in Symbols |-> "flat"]
  /\ closed = [s \in Symbols |-> {}]

Move(s, from, to) ==
  /\ phase[s] = from
  /\ phase' = [phase EXCEPT ![s] = to]
  /\ UNCHANGED closed

Enter(s) == Cardinality(Busy) < Limit /\ Move(s, "flat", "entering")
EntryFills(s) == Move(s, "entering", "held")
EntryEnds(s) == Move(s, "entering", "flat")
ExitStarts(s) == Move(s, "held", "exiting")
ExitFails(s) == Move(s, "exiting", "held")
Vanishes(s) == MayVanish /\ Move(s, "exiting", "flat")

\* The stop sells a held position, a market sell or the stop an exiting one.
Closes(s, i) ==
  /\ phase[s] \in {"held", "exiting"}
  /\ \A t \in Symbols : i \notin closed[t]
  /\ phase' = [phase EXCEPT ![s] = "flat"]
  /\ closed' = [closed EXCEPT ![s] = @ \cup {i}]

LNext ==
  \E s \in Symbols :
    \/ Enter(s) \/ EntryFills(s) \/ EntryEnds(s)
    \/ ExitStarts(s) \/ ExitFails(s) \/ Vanishes(s)
    \/ \E i \in ExitOrders : Closes(s, i)

LSpec == LInit /\ [][LNext]_lifecycleVars
=============================================================================
