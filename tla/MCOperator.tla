----------------------------- MODULE MCOperator -----------------------------
(***************************************************************************)
(* Operator with the nightly job, which is due at 20:30.                   *)
(***************************************************************************)
EXTENDS Operator

Nightly == {"nightly"}
AtNight == [t \in Nightly |-> DayLength - 1]
=============================================================================
