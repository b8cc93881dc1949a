---------------------------- MODULE MCOptionsSlot ----------------------------
(***************************************************************************)
(* OptionsSlot with packages worth a credit or a debit.                    *)
(***************************************************************************)
EXTENDS OptionsSlot

CreditAndDebit == {-1, 1}
=============================================================================
