-------------------------- MODULE MCCashfreeRefund --------------------------
(***************************************************************************)
(* Instances of CashfreeRefund for TLC.                                    *)
(***************************************************************************)
EXTENDS CashfreeRefund

\* Two partial refunds of one unit fit into an order, two full ones do not.
MCOrderAmount == [o \in Orders |-> 2]
=============================================================================
