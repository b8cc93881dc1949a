----------------------------- MODULE MCDailySlot -----------------------------
(***************************************************************************)
(* DailySlot with two symbols, long, short and flat targets.               *)
(***************************************************************************)
EXTENDS DailySlot, TLC

CONSTANTS s1, s2

TwoSymbols == {s1, s2}
Sizes == {-1, 0, 1, 2, 4}
Interchangeable == Permutations(TwoSymbols)
=============================================================================
