--------------------------- MODULE CashfreeRefund ---------------------------
(***************************************************************************)
(* CashFreeService.initiateRefund (cashfree.service.ts): it reads the      *)
(* order's status, and after that await posts a refund under an id it has  *)
(* just drawn.  Nothing is remembered between the check and the post, nor  *)
(* between two calls, and every failure reaches the caller as the same     *)
(* kind of error, whether or not the gateway made the refund.              *)
(*                                                                         *)
(* A caller has one refund in mind and may call again after an error.  The *)
(* gateway and the callers are the environment.  The amounts sent to the   *)
(* gateway are in the order's own unit; 0 stands for an amount that is 0   *)
(* or not given, which the code does not tell apart.                       *)
(***************************************************************************)
EXTENDS Integers, FiniteSetsExt

CONSTANTS Orders,       \* order ids
          Callers,      \* callers, each with one refund in mind
          Amounts,      \* refund amounts they ask for
          OrderAmount,  \* what each order was charged
          MaxCalls,     \* bound: calls per caller
          MaxFaults     \* bound: single failures of the network

ASSUME RefundAssumption ==
  /\ Amounts \subseteq Nat
  /\ OrderAmount \in [Orders -> Nat \ {0}]
  /\ IsFiniteSet(Callers)
  /\ MaxCalls \in Nat
  /\ MaxFaults \in Nat

VARIABLES
  paid,      \* orders the gateway reports as PAID
  wish,      \* caller -> the order and amount of its refund, once chosen
  pc,        \* caller -> where its current call is suspended, or how it ended
  amount,    \* caller -> refund_amount of the request its current call posted
  executed,  \* callers whose posted request the gateway has carried out
  calls,     \* caller -> calls made
  made,      \* caller -> refunds the gateway made for it
  total,     \* order -> sum of the refunds made
  stray,     \* caller -> posted requests it gave up that the gateway may still carry out
  broken,    \* caller -> posted requests whose connection broke
  faults

book == <<made, total, stray, broken>>
vars == <<paid, wish, pc, amount, executed, calls, made, total, stray, broken, faults>>

NoWish == [order |-> "none", asked |-> 0]
Wishes == [order : Orders, asked : Amounts]

\* Variant: what is left to refund, by the sum refunded so far.
RefundAmountLeft(w) ==
  IF w.asked = 0 THEN OrderAmount[w.order] - total[w.order] ELSE w.asked

\* refundAmount || orderStatus.order_amount
RefundAmount(w) == IF w.asked = 0 THEN OrderAmount[w.order] ELSE w.asked

Init ==
  /\ paid = {}
  /\ wish = [c \in Callers |-> NoWish]
  /\ pc = [c \in Callers |-> "idle"]
  /\ amount = [c \in Callers |-> 0]
  /\ executed = {}
  /\ calls = [c \in Callers |-> 0]
  /\ made = [c \in Callers |-> 0]
  /\ total = [o \in Orders |-> 0]
  /\ stray = [c \in Callers |-> 0]
  /\ broken = [c \in Callers |-> 0]
  /\ faults = 0

Fault ==
  /\ faults < MaxFaults
  /\ faults' = faults + 1

-----------------------------------------------------------------------------
Pay(o) ==
  /\ o \notin paid
  /\ paid' = paid \cup {o}
  /\ UNCHANGED <<wish, pc, amount, executed, calls, book, faults>>

\* The first call of a caller, or a repetition of it after an error.  The call
\* runs up to getOrderStatus.
InitiateRefund(c, w) ==
  /\ calls[c] < MaxCalls
  /\ \/ pc[c] = "idle"
     \/ pc[c] = "failed" /\ w = wish[c]
  /\ wish' = [wish EXCEPT ![c] = w]
  /\ pc' = [pc EXCEPT ![c] = "checking"]
  /\ calls' = [calls EXCEPT ![c] = @ + 1]
  /\ UNCHANGED <<paid, amount, executed, book, faults>>

\* Variant: the amount is posted as it was given.
StatusPaidAsGiven(c) ==
  /\ pc[c] = "checking"
  /\ wish[c].order \in paid
  /\ pc' = [pc EXCEPT ![c] = "posted"]
  /\ amount' = [amount EXCEPT ![c] = wish[c].asked]
  /\ UNCHANGED <<paid, wish, executed, calls, book, faults>>

\* The status is PAID: the refund is posted under a fresh refund_id.
StatusPaid(c) ==
  /\ pc[c] = "checking"
  /\ wish[c].order \in paid
  /\ pc' = [pc EXCEPT ![c] = "posted"]
  /\ amount' = [amount EXCEPT ![c] = RefundAmount(wish[c])]
  /\ UNCHANGED <<paid, wish, executed, calls, book, faults>>

\* "Order must be in PAID status to initiate refund"
StatusUnpaid(c) ==
  /\ pc[c] = "checking"
  /\ wish[c].order \notin paid
  /\ pc' = [pc EXCEPT ![c] = "failed"]
  /\ UNCHANGED <<paid, wish, amount, executed, calls, book, faults>>

\* getOrderStatus rejects.
StatusFails(c) ==
  /\ pc[c] = "checking"
  /\ Fault
  /\ pc' = [pc EXCEPT ![c] = "failed"]
  /\ UNCHANGED <<paid, wish, amount, executed, calls, book>>

\* One more refund made for c.  How much may be refunded is the gateway's
\* business: the code keeps no balance.
Refund(c) ==
  /\ made' = [made EXCEPT ![c] = @ + 1]
  /\ total' = [total EXCEPT ![wish[c].order] = @ + amount[c]]

\* The gateway makes the refund; the answer is on its way.
GatewayRefunds(c) ==
  /\ pc[c] = "posted"
  /\ c \notin executed
  /\ executed' = executed \cup {c}
  /\ Refund(c)
  /\ UNCHANGED <<paid, wish, pc, amount, calls, stray, broken, faults>>

\* Variant: the answer is read wrongly, and a made refund reported as an error.
AnsweredAsError(c) ==
  /\ pc[c] = "posted"
  /\ c \in executed
  /\ pc' = [pc EXCEPT ![c] = "failed"]
  /\ executed' = executed \ {c}
  /\ UNCHANGED <<paid, wish, amount, calls, book, faults>>

Answered(c) ==
  /\ pc[c] = "posted"
  /\ c \in executed
  /\ pc' = [pc EXCEPT ![c] = "refunded"]
  /\ executed' = executed \ {c}
  /\ UNCHANGED <<paid, wish, amount, calls, book, faults>>

\* The gateway declines the refund.
Declined(c) ==
  /\ pc[c] = "posted"
  /\ c \notin executed
  /\ pc' = [pc EXCEPT ![c] = "failed"]
  /\ UNCHANGED <<paid, wish, amount, executed, calls, book, faults>>

\* The connection breaks, before or after the refund is made; the caller reads
\* the same error, and a request not yet carried out may still be.
ConnectionBreaks(c) ==
  /\ pc[c] = "posted"
  /\ Fault
  /\ pc' = [pc EXCEPT ![c] = "failed"]
  /\ executed' = executed \ {c}
  /\ broken' = [broken EXCEPT ![c] = @ + 1]
  /\ stray' = IF c \in executed THEN stray ELSE [stray EXCEPT ![c] = @ + 1]
  /\ UNCHANGED <<paid, wish, amount, calls, made, total>>

StrayRefund(c) ==
  /\ stray[c] > 0
  /\ stray' = [stray EXCEPT ![c] = @ - 1]
  /\ Refund(c)
  /\ UNCHANGED <<paid, wish, pc, amount, executed, calls, broken, faults>>

StrayDropped(c) ==
  /\ stray[c] > 0
  /\ stray' = [stray EXCEPT ![c] = @ - 1]
  /\ UNCHANGED <<paid, wish, pc, amount, executed, calls, made, total, broken, faults>>

Checked(c)  == StatusPaid(c) \/ StatusUnpaid(c) \/ StatusFails(c)
Ended(c)    == Answered(c) \/ Declined(c) \/ ConnectionBreaks(c)
Executed(c) == GatewayRefunds(c) \/ StrayRefund(c) \/ StrayDropped(c)

Next ==
  \/ \E o \in Orders : Pay(o)
  \/ \E c \in Callers :
        \/ \E w \in Wishes : InitiateRefund(c, w)
        \/ Checked(c) \/ Executed(c) \/ Ended(c)

Spec == Init /\ [][Next]_vars

-----------------------------------------------------------------------------
TypeOK ==
  /\ paid \in SUBSET Orders
  /\ wish \in [Callers -> Wishes \cup {NoWish}]
  /\ pc \in [Callers -> {"idle", "checking", "posted", "refunded", "failed"}]
  /\ amount \in [Callers -> Nat]
  /\ executed \in SUBSET Callers
  /\ calls \in [Callers -> Nat]
  /\ made \in [Callers -> Nat]
  /\ total \in [Orders -> Nat]
  /\ stray \in [Callers -> Nat]
  /\ broken \in [Callers -> Nat]
  /\ faults \in Nat

\* No refund is made, and none is still under way at the gateway, for an order
\* that is not paid, although the status is read before an await and the
\* request posted after it (cashfree.service.ts initiateRefund).
RefundOnlyPaid ==
  \A c \in Callers :
    made[c] + stray[c] > 0 \/ pc[c] \in {"posted", "refunded"} => wish[c].order \in paid

\* A caller who repeats its call after an error gets its refund once, and once
\* more for each connection that broke after the post: the fresh refund_id of
\* every call leaves the gateway nothing to recognise a repetition by, but no
\* other path leads to a second refund.
RefundsPerCaller ==
  \A c \in Callers : made[c] + stray[c] <= broken[c] + 1

\* An error means that the caller was not refunded, unless a connection broke;
\* an answer means that it was.
AnswersTellTheTruth ==
  \A c \in Callers :
    /\ pc[c] = "failed" /\ broken[c] = 0 => made[c] = 0
    /\ pc[c] = "refunded" => made[c] > 0

\* One if c was told of its refund, or is about to be.
Told(c) == IF pc[c] = "refunded" \/ c \in executed THEN 1 ELSE 0

\* What n refunds of c take from the order o.
Share(c, n, o) == IF wish[c].order = o THEN n * RefundAmount(wish[c]) ELSE 0

Known(o)   == MapThenSumSet(LAMBDA c : Share(c, Told(c), o), Callers)
AtWorst(o) == MapThenSumSet(LAMBDA c : Share(c, Told(c) + broken[c], o), Callers)

\* What an order was refunded is what its callers were told of, and at most one
\* refund more for each connection that broke, whoever called at the same time:
\* each refund is of what its caller asked for, or of the whole order if it named
\* nothing or 0.  The sum may well exceed what the order was charged: two callers
\* who ask for all of it at once both pass the check.
RefundsExplained ==
  \A o \in Orders : Known(o) <= total[o] /\ total[o] <= AtWorst(o)
=============================================================================
