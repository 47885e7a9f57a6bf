-------------------------- MODULE MCPaymentOrders ---------------------------
(***************************************************************************)
(* Instances of PaymentOrders for TLC.                                     *)
(***************************************************************************)
EXTENDS PaymentOrders

\* One listed product at ten paise, to be edited to eleven.
MCBasePrice == [p \in Listed |-> 10]
=============================================================================
