------------------------- MODULE ConfirmationLedger -------------------------
(***************************************************************************)
(* What both webhook pipelines of the payment service promise about the    *)
(* confirmation mail, independently of gateways, HTTP and SMTP: accepting  *)
(* a payment-success notice creates one obligation for the order; an       *)
(* obligation is discharged at most once, by a mail, and only while the    *)
(* order is paid; any set of obligations may be forgotten (the pipelines   *)
(* keep them in memory only and never retry).                              *)
(***************************************************************************)
EXTENDS Integers

CONSTANT Orders    \* the orders known to the payment gateway

VARIABLES paid,    \* orders the gateway reports as paid
          owed,    \* per order, accepted notices not yet settled
          sent     \* per order, confirmation mails handed to the mail server

ledgerVars == <<paid, owed, sent>>

LedgerInit ==
  /\ paid = {}
  /\ owed = [o \in Orders |-> 0]
  /\ sent = [o \in Orders |-> 0]

\* The gateway turns an order into a paid one; nothing ever reverts it.
Pay(o) ==
  /\ paid' = paid \cup {o}
  /\ UNCHANGED <<owed, sent>>

\* A payment-success notice for o is accepted.
Accept(o) ==
  /\ owed' = [owed EXCEPT ![o] = @ + 1]
  /\ UNCHANGED <<paid, sent>>

\* One obligation becomes one mail.
Confirm(o) ==
  /\ o \in paid
  /\ owed[o] > 0
  /\ owed' = [owed EXCEPT ![o] = @ - 1]
  /\ sent' = [sent EXCEPT ![o] = @ + 1]
  /\ UNCHANGED paid

\* Obligations disappear without a mail: one handler failed, or a crash
\* took every handler in flight.
Forget ==
  /\ owed' \in [Orders -> Nat]
  /\ \A o \in Orders : owed'[o] <= owed[o]
  /\ UNCHANGED <<paid, sent>>

LedgerNext ==
  \/ \E o \in Orders : Pay(o) \/ Accept(o) \/ Confirm(o)
  \/ Forget

LedgerSpec == LedgerInit /\ [][LedgerNext]_ledgerVars

-----------------------------------------------------------------------------
LedgerTypeOK ==
  /\ paid \in SUBSET Orders
  /\ owed \in [Orders -> Nat]
  /\ sent \in [Orders -> Nat]

\* No customer is told that a payment succeeded when the gateway does not
\* report the order as paid.
OnlyPaidConfirmed == \A o \in Orders : sent[o] > 0 => o \in paid
=============================================================================
