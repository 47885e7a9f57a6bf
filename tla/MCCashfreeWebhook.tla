------------------------- MODULE MCCashfreeWebhook --------------------------
(***************************************************************************)
(* Instances of CashfreeWebhook for TLC.                                   *)
(***************************************************************************)
EXTENDS CashfreeWebhook, TLC

\* Orders are interchangeable; used by the runs without temporal properties.
OrderSymmetry == Permutations(Orders)
=============================================================================
