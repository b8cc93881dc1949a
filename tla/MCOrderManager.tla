--------------------------- MODULE MCOrderManager ---------------------------
(***************************************************************************)
(* OrderManager on small instances: one or two symbols, orders of two      *)
(* shares, so that an order can fill in part, and one slot to compete for. *)
(***************************************************************************)
EXTENDS OrderManager

CONSTANTS s1, s2

OneSymbol == {s1}
TwoSymbols == {s1, s2}
TwoShares == {2}

\* The races and failures the code is written for, and nothing worse: orders fill in
\* parts, and the submit of a sell fails or loses its answer.
Races == {"partial_fill", "submit_error", "lost_reply"}

\* For liveness: cancels that cross a fill or stay pending, refused orders.
SlowVenue == {"late_fill", "slow_cancel", "reject"}

\* The fault each disagreement needs.
UnreadableOrder == {"read_error"}
FillBeforeCancel == {"partial_fill", "late_fill"}
RefusedSell == {"submit_error"}
=============================================================================
