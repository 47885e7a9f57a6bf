------------------------ MODULE CashfreeRefundProofs ------------------------
(***************************************************************************)
(* Proofs about initiateRefund, for any orders, callers, amounts and       *)
(* bounds.                                                                 *)
(***************************************************************************)
EXTENDS CashfreeRefund, FiniteSetTheorems, TLAPS

(* A caller has chosen its refund once it has called.                      *)
ChosenOnceCalled ==
  \A c \in Callers :
    /\ pc[c] # "idle" => wish[c] \in Wishes
    /\ pc[c] = "idle" => made[c] = 0 /\ stray[c] = 0
    /\ c \in executed => pc[c] = "posted"

(* What is refunded is a number, also when it defaults to the order's      *)
(* amount.                                                                 *)
LEMMA RefundAmountTyped ==
  ASSUME NEW w \in Wishes
  PROVE  RefundAmount(w) \in Nat
BY RefundAssumption DEF RefundAmount, Wishes

LEMMA RefundTyped ==
  ASSUME TypeOK, ChosenOnceCalled, NEW c \in Callers, pc[c] # "idle", Refund(c)
  PROVE  /\ made' \in [Callers -> Nat]
         /\ total' \in [Orders -> Nat]
         /\ \A d \in Callers : made'[d] = IF d = c THEN made[c] + 1 ELSE made[d]
<1>1. wish[c].order \in Orders /\ amount[c] \in Nat /\ made[c] \in Nat
  BY DEF TypeOK, ChosenOnceCalled, Wishes
<1>2. total[wish[c].order] \in Nat
  BY <1>1 DEF TypeOK
<1> QED
  BY <1>1, <1>2 DEF Refund, TypeOK

(* The type of the state, and the two facts it rests on.                   *)
LEMMA TypeStep ==
  ASSUME TypeOK, ChosenOnceCalled, [Next]_vars
  PROVE  TypeOK' /\ ChosenOnceCalled'
<1> USE DEF book
<1>1. ASSUME NEW o \in Orders, Pay(o) PROVE TypeOK' /\ ChosenOnceCalled'
  BY <1>1 DEF Pay, TypeOK, ChosenOnceCalled
<1>2. ASSUME NEW c \in Callers, NEW w \in Wishes, InitiateRefund(c, w)
      PROVE  TypeOK' /\ ChosenOnceCalled'
  <2>1. calls[c] \in Nat
    BY DEF TypeOK
  <2>2. TypeOK'
    BY <1>2, <2>1 DEF InitiateRefund, TypeOK
  <2>3. ChosenOnceCalled'
    BY <1>2 DEF InitiateRefund, TypeOK, ChosenOnceCalled
  <2> QED
    BY <2>2, <2>3
<1>3. ASSUME NEW c \in Callers, Checked(c) PROVE TypeOK' /\ ChosenOnceCalled'
  <2>1. pc[c] = "checking" /\ wish[c] \in Wishes
    BY <1>3 DEF Checked, StatusPaid, StatusUnpaid, StatusFails, ChosenOnceCalled
  <2>2. RefundAmount(wish[c]) \in Nat
    BY <2>1, RefundAmountTyped
  <2>3. CASE StatusPaid(c)
    BY <2>1, <2>2, <2>3 DEF StatusPaid, TypeOK, ChosenOnceCalled
  <2>4. CASE StatusUnpaid(c)
    BY <2>1, <2>4 DEF StatusUnpaid, TypeOK, ChosenOnceCalled
  <2>5. CASE StatusFails(c)
    BY <2>1, <2>5, RefundAssumption DEF StatusFails, Fault, TypeOK, ChosenOnceCalled
  <2> QED
    BY <1>3, <2>3, <2>4, <2>5 DEF Checked
<1>4. ASSUME NEW c \in Callers, GatewayRefunds(c) PROVE TypeOK' /\ ChosenOnceCalled'
  <2>1. Refund(c) /\ pc[c] = "posted"
    BY <1>4 DEF GatewayRefunds
  <2>2. /\ made' \in [Callers -> Nat] /\ total' \in [Orders -> Nat]
        /\ \A d \in Callers : made'[d] = IF d = c THEN made[c] + 1 ELSE made[d]
    BY <2>1, RefundTyped
  <2> QED
    BY <1>4, <2>1, <2>2 DEF GatewayRefunds, TypeOK, ChosenOnceCalled
<1>5. ASSUME NEW c \in Callers, StrayRefund(c) PROVE TypeOK' /\ ChosenOnceCalled'
  <2>1. Refund(c) /\ pc[c] # "idle" /\ stray[c] - 1 \in Nat
    BY <1>5 DEF StrayRefund, TypeOK, ChosenOnceCalled
  <2>2. /\ made' \in [Callers -> Nat] /\ total' \in [Orders -> Nat]
        /\ \A d \in Callers : made'[d] = IF d = c THEN made[c] + 1 ELSE made[d]
    BY <2>1, RefundTyped
  <2> QED
    BY <1>5, <2>1, <2>2 DEF StrayRefund, TypeOK, ChosenOnceCalled
<1>6. ASSUME NEW c \in Callers, StrayDropped(c) PROVE TypeOK' /\ ChosenOnceCalled'
  <2>1. pc[c] # "idle" /\ stray[c] - 1 \in Nat
    BY <1>6 DEF StrayDropped, TypeOK, ChosenOnceCalled
  <2> QED
    BY <1>6, <2>1 DEF StrayDropped, TypeOK, ChosenOnceCalled
<1>7. ASSUME NEW c \in Callers, Answered(c) \/ Declined(c)
      PROVE  TypeOK' /\ ChosenOnceCalled'
  BY <1>7 DEF Answered, Declined, TypeOK, ChosenOnceCalled
<1>8. ASSUME NEW c \in Callers, ConnectionBreaks(c) PROVE TypeOK' /\ ChosenOnceCalled'
  <2>1. broken[c] + 1 \in Nat /\ stray[c] + 1 \in Nat /\ faults' \in Nat
    BY <1>8 DEF ConnectionBreaks, Fault, TypeOK
  <2> QED
    BY <1>8, <2>1 DEF ConnectionBreaks, TypeOK, ChosenOnceCalled
<1>9. CASE UNCHANGED vars
  BY <1>9 DEF vars, TypeOK, ChosenOnceCalled
<1> QED
  BY <1>1, <1>2, <1>3, <1>4, <1>5, <1>6, <1>7, <1>8, <1>9 DEF Next, Executed, Ended

LEMMA Typed == Spec => [](TypeOK /\ ChosenOnceCalled)
<1>1. Init => TypeOK /\ ChosenOnceCalled
  <2> SUFFICES ASSUME Init PROVE TypeOK /\ ChosenOnceCalled
    OBVIOUS
  <2>1. 0 \in Nat
    OBVIOUS
  <2> QED
    BY <2>1 DEF Init, TypeOK, ChosenOnceCalled
<1>2. (TypeOK /\ ChosenOnceCalled) /\ [Next]_vars => (TypeOK /\ ChosenOnceCalled)'
  BY TypeStep
<1> QED
  BY <1>1, <1>2, PTL DEF Spec

(* Every variable keeps its type: a refund, late ones included, always has *)
(* an order to be charged to and an amount.                                *)
THEOREM TypeCorrect == Spec => []TypeOK
BY Typed, PTL

-----------------------------------------------------------------------------
(* A caller goes on past the check only if the order is paid, and its      *)
(* refunds, made or under way, are of that order.                          *)
LEMMA PaidStep ==
  ASSUME TypeOK, ChosenOnceCalled, RefundOnlyPaid, [Next]_vars
  PROVE  RefundOnlyPaid'
<1> USE DEF book, RefundOnlyPaid
<1>1. ASSUME NEW o \in Orders, Pay(o) PROVE RefundOnlyPaid'
  BY <1>1 DEF Pay
<1>2. ASSUME NEW c \in Callers, NEW w \in Wishes, InitiateRefund(c, w)
      PROVE  RefundOnlyPaid'
  <2>1. pc[c] = "idle" => ~(made[c] + stray[c] > 0)
    BY DEF ChosenOnceCalled
  <2>2. pc[c] # "idle" => wish' [c] = wish[c]
    BY <1>2 DEF InitiateRefund, TypeOK
  <2>3. pc'[c] = "checking"
    BY <1>2 DEF InitiateRefund, TypeOK
  <2>4. \A d \in Callers \ {c} : wish'[d] = wish[d] /\ pc'[d] = pc[d]
    BY <1>2 DEF InitiateRefund, TypeOK
  <2>5. UNCHANGED <<paid, made, stray>>
    BY <1>2 DEF InitiateRefund
  <2> QED
    BY <2>1, <2>2, <2>3, <2>4, <2>5
<1>3. ASSUME NEW c \in Callers, Checked(c) PROVE RefundOnlyPaid'
  <2>1. \A d \in Callers \ {c} : pc'[d] = pc[d]
    BY <1>3 DEF Checked, StatusPaid, StatusUnpaid, StatusFails, TypeOK
  <2>2. pc'[c] = "failed" \/ wish[c].order \in paid
    BY <1>3 DEF Checked, StatusPaid, StatusUnpaid, StatusFails, TypeOK
  <2>3. UNCHANGED <<paid, wish, made, stray>>
    BY <1>3 DEF Checked, StatusPaid, StatusUnpaid, StatusFails
  <2> QED
    BY <2>1, <2>2, <2>3
<1>4. ASSUME NEW c \in Callers, Executed(c) PROVE RefundOnlyPaid'
  <2>1. wish[c].order \in paid
    <3>1. made[c] \in Nat /\ stray[c] \in Nat
      BY DEF TypeOK
    <3> QED
      BY <1>4, <3>1 DEF Executed, GatewayRefunds, StrayRefund, StrayDropped
  <2>2. \A d \in Callers \ {c} : made'[d] = made[d] /\ stray'[d] = stray[d]
    BY <1>4 DEF Executed, GatewayRefunds, StrayRefund, StrayDropped, Refund, TypeOK
  <2>3. UNCHANGED <<paid, wish, pc>>
    BY <1>4 DEF Executed, GatewayRefunds, StrayRefund, StrayDropped
  <2> QED
    BY <2>1, <2>2, <2>3
<1>5. ASSUME NEW c \in Callers, Ended(c) PROVE RefundOnlyPaid'
  <2>1. wish[c].order \in paid
    BY <1>5 DEF Ended, Answered, Declined, ConnectionBreaks
  <2>2. \A d \in Callers \ {c} : pc'[d] = pc[d] /\ made'[d] = made[d] /\ stray'[d] = stray[d]
    BY <1>5 DEF Ended, Answered, Declined, ConnectionBreaks, TypeOK
  <2>3. UNCHANGED <<paid, wish>>
    BY <1>5 DEF Ended, Answered, Declined, ConnectionBreaks
  <2> QED
    BY <2>1, <2>2, <2>3
<1>6. CASE UNCHANGED vars
  BY <1>6 DEF vars
<1> QED
  BY <1>1, <1>2, <1>3, <1>4, <1>5, <1>6 DEF Next

(* Only paid orders are refunded, for any number of callers, repetitions   *)
(* and broken connections: that an order stays paid makes the check still  *)
(* true when the request is posted.                                        *)
THEOREM OnlyPaidRefunded == Spec => []RefundOnlyPaid
<1>1. Init => RefundOnlyPaid
  BY DEF Init, RefundOnlyPaid
<1>2. TypeOK /\ ChosenOnceCalled /\ RefundOnlyPaid /\ [Next]_vars => RefundOnlyPaid'
  BY PaidStep
<1> QED
  BY <1>1, <1>2, Typed, PTL DEF Spec

-----------------------------------------------------------------------------
(* The refunds of a caller, made or under way, are at most its broken      *)
(* connections and the one its current or last call stands for.            *)
RefundsCounted ==
  \A c \in Callers :
    /\ made[c] + stray[c] <= broken[c] + Told(c)
    /\ Told(c) = 1 => made[c] > 0

LEMMA CountStep ==
  ASSUME TypeOK, ChosenOnceCalled, RefundsCounted, [Next]_vars
  PROVE  RefundsCounted'
<1> SUFFICES ASSUME NEW c \in Callers
             PROVE  /\ made'[c] + stray'[c] <= broken'[c] + Told(c)'
                    /\ Told(c)' = 1 => made'[c] > 0
  BY DEF RefundsCounted
<1> USE DEF book
<1>0. /\ made[c] \in Nat /\ stray[c] \in Nat /\ broken[c] \in Nat
      /\ Told(c) \in {0, 1}
      /\ made[c] + stray[c] <= broken[c] + Told(c)
      /\ Told(c) = 1 => made[c] > 0
  BY DEF TypeOK, RefundsCounted, Told
<1>1. CASE /\ UNCHANGED <<made[c], stray[c], broken[c]>>
           /\ Told(c)' = Told(c)
  BY <1>0, <1>1
<1>2. ASSUME NEW o \in Orders, Pay(o) PROVE <1>1!1
  BY <1>2 DEF Pay, Told
<1>3. ASSUME NEW d \in Callers,
             (\E w \in Wishes : InitiateRefund(d, w)) \/ Checked(d)
      PROVE <1>1!1
  <2>1. UNCHANGED <<made, stray, broken, executed>>
    BY <1>3 DEF InitiateRefund, Checked, StatusPaid, StatusUnpaid, StatusFails
  <2>2. pc'[c] = pc[c] \/ (pc[c] # "refunded" /\ pc'[c] # "refunded")
    BY <1>3 DEF InitiateRefund, Checked, StatusPaid, StatusUnpaid, StatusFails, TypeOK
  <2> QED
    BY <2>1, <2>2 DEF Told
<1>4. ASSUME NEW d \in Callers, Executed(d) \/ Ended(d), d # c PROVE <1>1!1
  <2>1. made'[c] = made[c] /\ stray'[c] = stray[c] /\ broken'[c] = broken[c] /\ pc'[c] = pc[c]
    BY <1>4 DEF Executed, GatewayRefunds, StrayRefund, StrayDropped, Refund,
                Ended, Answered, Declined, ConnectionBreaks, TypeOK
  <2>2. c \in executed' <=> c \in executed
    BY <1>4 DEF Executed, GatewayRefunds, StrayRefund, StrayDropped,
                Ended, Answered, Declined, ConnectionBreaks
  <2> QED
    BY <2>1, <2>2 DEF Told
<1>5. CASE GatewayRefunds(c)
  <2>1. made'[c] = made[c] + 1 /\ stray' = stray /\ broken' = broken
    BY <1>5 DEF GatewayRefunds, Refund, TypeOK
  <2>2. Told(c) = 0 /\ Told(c)' = 1
    BY <1>5 DEF GatewayRefunds, Told
  <2> QED
    BY <1>0, <2>1, <2>2
<1>6. CASE StrayRefund(c)
  <2>1. made'[c] = made[c] + 1 /\ stray'[c] = stray[c] - 1 /\ broken' = broken
    BY <1>6 DEF StrayRefund, Refund, TypeOK
  <2>2. Told(c)' = Told(c)
    BY <1>6 DEF StrayRefund, Told
  <2> QED
    BY <1>0, <2>1, <2>2
<1>7. CASE StrayDropped(c)
  <2>1. made' = made /\ stray'[c] = stray[c] - 1 /\ broken' = broken
    BY <1>7 DEF StrayDropped, TypeOK
  <2>2. Told(c)' = Told(c)
    BY <1>7 DEF StrayDropped, Told
  <2> QED
    BY <1>0, <2>1, <2>2
<1>8. CASE Answered(c) \/ Declined(c)
  <2>1. UNCHANGED <<made, stray, broken>>
    BY <1>8 DEF Answered, Declined
  <2>2. Told(c)' = Told(c)
    BY <1>8 DEF Answered, Declined, Told, TypeOK
  <2> QED
    BY <1>0, <2>1, <2>2
<1>9. CASE ConnectionBreaks(c)
  <2>1. made' = made /\ broken'[c] = broken[c] + 1
    BY <1>9 DEF ConnectionBreaks, TypeOK
  <2>2. IF c \in executed THEN stray'[c] = stray[c] ELSE stray'[c] = stray[c] + 1
    BY <1>9 DEF ConnectionBreaks, TypeOK
  <2>3. /\ Told(c) = IF c \in executed THEN 1 ELSE 0
        /\ Told(c)' = 0
    BY <1>9 DEF ConnectionBreaks, Told, TypeOK
  <2> QED
    BY <1>0, <2>1, <2>2, <2>3
<1>10. CASE UNCHANGED vars
  BY <1>1, <1>10 DEF vars, Told
<1> QED
  BY <1>1, <1>2, <1>3, <1>4, <1>5, <1>6, <1>7, <1>8, <1>9, <1>10 DEF Next, Executed, Ended

LEMMA RefundsAreCounted == Spec => []RefundsCounted
<1>1. Init => RefundsCounted
  BY DEF Init, RefundsCounted, Told
<1>2. TypeOK /\ ChosenOnceCalled /\ RefundsCounted /\ [Next]_vars => RefundsCounted'
  BY CountStep
<1> QED
  BY <1>1, <1>2, Typed, PTL DEF Spec

(* A caller gets at most one refund more than connections broke, whatever  *)
(* the other callers do and however often it calls.                        *)
THEOREM RefundBound == Spec => []RefundsPerCaller
<1>1. TypeOK /\ RefundsCounted => RefundsPerCaller
  BY DEF TypeOK, RefundsCounted, Told, RefundsPerCaller
<1> QED
  BY <1>1, Typed, RefundsAreCounted, PTL

(* Errors and answers tell the caller the truth unless a connection broke. *)
THEOREM AnswersTrue == Spec => []AnswersTellTheTruth
<1>1. TypeOK /\ ChosenOnceCalled /\ RefundsCounted => AnswersTellTheTruth
  <2> SUFFICES ASSUME TypeOK, ChosenOnceCalled, RefundsCounted, NEW c \in Callers
               PROVE  /\ pc[c] = "failed" /\ broken[c] = 0 => made[c] = 0
                      /\ pc[c] = "refunded" => made[c] > 0
    BY DEF AnswersTellTheTruth
  <2>1. made[c] \in Nat /\ stray[c] \in Nat
    BY DEF TypeOK
  <2>2. pc[c] = "failed" => Told(c) = 0
    BY DEF ChosenOnceCalled, Told
  <2>3. pc[c] = "refunded" => Told(c) = 1
    BY DEF Told
  <2> QED
    BY <2>1, <2>2, <2>3 DEF RefundsCounted
<1> QED
  BY <1>1, Typed, RefundsAreCounted, PTL

-----------------------------------------------------------------------------
(* Sums over finite sets.  Induction is by a least counterexample.         *)

\* Among sets of members of a finite set there is one that is least.
LEMMA LeastSet ==
  ASSUME NEW S, IsFiniteSet(S), NEW Bad, Bad \subseteq SUBSET S, Bad # {}
  PROVE  \E T \in Bad : \A x \in T : T \ {x} \notin Bad
<1>1. Bad \subseteq FiniteSubsetsOf(S)
  BY FS_FiniteSubsetsOfFinite
<1>2. IsWellFoundedOn(StrictSubsetOrdering(S), FiniteSubsetsOf(S))
  BY FS_StrictSubsetOrderingWellFounded
<1>3. PICK T \in Bad : \A U \in Bad : ~ (<<U, T>> \in StrictSubsetOrdering(S))
  BY <1>1, <1>2, WFMin
<1>4. ASSUME NEW x \in T, T \ {x} \in Bad PROVE FALSE
  <2>1. <<T \ {x}, T>> \in StrictSubsetOrdering(S)
    BY <1>3, <1>4 DEF StrictSubsetOrdering
  <2> QED
    BY <1>3, <1>4, <2>1
<1> QED
  BY <1>3, <1>4

Choice(T) == CHOOSE x \in T : TRUE

\* g sums f over every set of members of S.
Sums(g, f, S) ==
  g = [T \in SUBSET S |-> IF T = {} THEN 0 ELSE f[Choice(T)] + g[T \ {Choice(T)}]]

Sum(f, S) == (CHOOSE g : Sums(g, f, S))[S]

LEMMA Chosen == ASSUME NEW T, T # {} PROVE Choice(T) \in T
BY DEF Choice

LEMMA SumsOf ==
  ASSUME NEW S, NEW f, NEW g, Sums(g, f, S), NEW T \in SUBSET S
  PROVE  g[T] = IF T = {} THEN 0 ELSE f[Choice(T)] + g[T \ {Choice(T)}]
BY DEF Sums

\* A sum depends on what is summed only.
LEMMA SumsAgree ==
  ASSUME NEW S, IsFiniteSet(S), NEW D, NEW E, S \subseteq D, S \subseteq E,
         NEW f, NEW h, \A x \in S : f[x] = h[x],
         NEW g, Sums(g, f, D), NEW k, Sums(k, h, E)
  PROVE  g[S] = k[S]
<1> DEFINE Bad == {T \in SUBSET S : g[T] # k[T]}
<1>1. SUFFICES ASSUME Bad # {} PROVE FALSE
  OBVIOUS
<1>2. PICK T \in Bad : \A x \in T : T \ {x} \notin Bad
  <2> HIDE DEF Bad
  <2>1. Bad \subseteq SUBSET S
    BY DEF Bad
  <2> QED
    BY <1>1, <2>1, LeastSet
<1>3. T \in SUBSET S /\ T \in SUBSET D /\ T \in SUBSET E /\ g[T] # k[T]
  BY <1>2
<1>4. CASE T = {}
  BY <1>3, <1>4, SumsOf
<1>5. CASE T # {}
  <2>1. Choice(T) \in T
    BY <1>5, Chosen
  <2>2. T \ {Choice(T)} \in SUBSET S /\ T \ {Choice(T)} \notin Bad
    BY <1>2, <1>3, <2>1
  <2>3. g[T \ {Choice(T)}] = k[T \ {Choice(T)}]
    BY <2>2
  <2>4. f[Choice(T)] = h[Choice(T)]
    BY <1>3, <2>1
  <2> HIDE DEF Bad
  <2>a. T \in SUBSET D
    BY <1>3
  <2>b. T \in SUBSET E
    BY <1>3
  <2>5. g[T] = f[Choice(T)] + g[T \ {Choice(T)}]
    BY ONLY Sums(g, f, D), <2>a, <1>5, SumsOf
  <2>7. k[T] = h[Choice(T)] + k[T \ {Choice(T)}]
    BY ONLY Sums(k, h, E), <2>b, <1>5, SumsOf
  <2>6. f[Choice(T)] + g[T \ {Choice(T)}] = h[Choice(T)] + k[T \ {Choice(T)}]
    BY <2>3, <2>4
  <2> QED
    BY <1>3, <2>5, <2>6, <2>7
<1> QED
  BY <1>4, <1>5

\* What sums over S sums over its subsets.
LEMMA SumsWithin ==
  ASSUME NEW S, NEW f, NEW g, Sums(g, f, S), NEW T \in SUBSET S
  PROVE  Sums([U \in SUBSET T |-> g[U]], f, T)
<1> DEFINE k == [U \in SUBSET T |-> g[U]]
<1>1. ASSUME NEW U \in SUBSET T
      PROVE  k[U] = IF U = {} THEN 0 ELSE f[Choice(U)] + k[U \ {Choice(U)}]
  <2>1. U \in SUBSET S /\ U \ {Choice(U)} \in SUBSET T
    OBVIOUS
  <2>2. k[U] = g[U] /\ k[U \ {Choice(U)}] = g[U \ {Choice(U)}]
    BY <2>1
  <2>3. g[U] = IF U = {} THEN 0 ELSE f[Choice(U)] + g[U \ {Choice(U)}]
    BY <2>1, SumsOf
  <2> HIDE DEF k
  <2> QED
    BY <2>2, <2>3
<1>2. k = [U \in SUBSET T |-> k[U]]
  OBVIOUS
<1> HIDE DEF k
<1>3. Sums(k, f, T)
  BY <1>1, <1>2 DEF Sums
<1> QED
  BY <1>3 DEF k

LEMMA SumIs ==
  ASSUME NEW S, IsFiniteSet(S), NEW f, NEW g, Sums(g, f, S), NEW T \in SUBSET S
  PROVE  g[T] = Sum(f, T)
<1>1. Sums(CHOOSE k : Sums(k, f, T), f, T)
  BY SumsWithin
<1>2. IsFiniteSet(T)
  BY FS_Subset
<1> QED
  BY <1>1, <1>2, SumsAgree DEF Sum

\* There is a function that sums: it is put together from the ones of smaller sets.
LEMMA SumsExist ==
  ASSUME NEW S, IsFiniteSet(S), NEW f
  PROVE  \E g : Sums(g, f, S)
<1> DEFINE Bad == {T \in SUBSET S : ~ \E g : Sums(g, f, T)}
<1>1. SUFFICES ASSUME Bad # {} PROVE FALSE
  OBVIOUS
<1>2. PICK T \in Bad : \A x \in T : T \ {x} \notin Bad
  <2> HIDE DEF Bad
  <2>1. Bad \subseteq SUBSET S
    BY DEF Bad
  <2> QED
    BY <1>1, <2>1, LeastSet
<1>3. T \in SUBSET S /\ ~ \E g : Sums(g, f, T)
  BY <1>2
<1>4. ASSUME NEW U \in SUBSET T, U # T
      PROVE  Sum(f, U) = IF U = {} THEN 0 ELSE f[Choice(U)] + Sum(f, U \ {Choice(U)})
  <2>1. PICK x \in T : x \notin U
    BY <1>4
  <2>2. T \ {x} \in SUBSET S /\ U \in SUBSET (T \ {x}) /\ U \ {Choice(U)} \in SUBSET (T \ {x})
    BY <1>3, <2>1
  <2>3. PICK g : Sums(g, f, T \ {x})
    BY <1>2, <2>1, <2>2
  <2>4. IsFiniteSet(T \ {x})
    BY <2>2, FS_Subset
  <2>5. g[U] = Sum(f, U) /\ g[U \ {Choice(U)}] = Sum(f, U \ {Choice(U)})
    BY <2>2, <2>3, <2>4, SumIs
  <2>6. g[U] = IF U = {} THEN 0 ELSE f[Choice(U)] + g[U \ {Choice(U)}]
    BY <2>2, <2>3, SumsOf
  <2> QED
    BY <2>5, <2>6
<1> DEFINE g == [U \in SUBSET T |-> IF U = {} THEN 0 ELSE f[Choice(U)] + Sum(f, U \ {Choice(U)})]
<1>5. ASSUME NEW U \in SUBSET T
      PROVE  g[U] = IF U = {} THEN 0 ELSE f[Choice(U)] + g[U \ {Choice(U)}]
  <2>1. CASE U = {}
    BY <2>1
  <2>2. CASE U # {}
    <3>1. Choice(U) \in U
      BY <2>2, Chosen
    <3>2. U \ {Choice(U)} \in SUBSET T /\ U \ {Choice(U)} # T
      BY <3>1
    <3>3. g[U \ {Choice(U)}] = Sum(f, U \ {Choice(U)})
      BY <1>4, <3>2
    <3>4. g[U] = f[Choice(U)] + Sum(f, U \ {Choice(U)})
      BY <2>2
    <3> HIDE DEF g
    <3> QED
      BY <2>2, <3>3, <3>4
  <2> QED
    BY <2>1, <2>2
<1>6. g = [U \in SUBSET T |-> g[U]]
  OBVIOUS
<1> HIDE DEF g
<1>7. Sums(g, f, T)
  BY <1>5, <1>6 DEF Sums
<1> QED
  BY <1>3, <1>7

LEMMA SumStep ==
  ASSUME NEW S, IsFiniteSet(S), NEW f
  PROVE  Sum(f, S) = IF S = {} THEN 0 ELSE f[Choice(S)] + Sum(f, S \ {Choice(S)})
<1>1. PICK g : Sums(g, f, S)
  BY SumsExist
<1>2. S \in SUBSET S /\ S \ {Choice(S)} \in SUBSET S
  OBVIOUS
<1>3. g[S] = Sum(f, S) /\ g[S \ {Choice(S)}] = Sum(f, S \ {Choice(S)})
  BY <1>1, <1>2, SumIs
<1> QED
  BY <1>1, <1>2, <1>3, SumsOf

LEMMA SumSame ==
  ASSUME NEW S, IsFiniteSet(S), NEW f, NEW h, \A x \in S : f[x] = h[x]
  PROVE  Sum(f, S) = Sum(h, S)
<1>1. Sums(CHOOSE g : Sums(g, f, S), f, S) /\ Sums(CHOOSE g : Sums(g, h, S), h, S)
  BY SumsExist
<1> QED
  BY <1>1, SumsAgree DEF Sum

LEMMA SumType ==
  ASSUME NEW S, IsFiniteSet(S), NEW f, \A x \in S : f[x] \in Nat
  PROVE  Sum(f, S) \in Nat
<1> DEFINE Bad == {T \in SUBSET S : Sum(f, T) \notin Nat}
<1>1. SUFFICES ASSUME Bad # {} PROVE FALSE
  OBVIOUS
<1>2. PICK T \in Bad : \A x \in T : T \ {x} \notin Bad
  <2> HIDE DEF Bad
  <2>1. Bad \subseteq SUBSET S
    BY DEF Bad
  <2> QED
    BY <1>1, <2>1, LeastSet
<1>3. T \in SUBSET S /\ Sum(f, T) \notin Nat /\ IsFiniteSet(T)
  BY <1>2, FS_Subset
<1>4. T # {}
  BY <1>3, SumStep
<1>5. Choice(T) \in T /\ T \ {Choice(T)} \in SUBSET S
  BY <1>3, <1>4, Chosen
<1>6. Sum(f, T \ {Choice(T)}) \in Nat /\ f[Choice(T)] \in Nat
  BY <1>2, <1>3, <1>5
<1>7. Sum(f, T) = f[Choice(T)] + Sum(f, T \ {Choice(T)})
  BY <1>3, <1>4, SumStep
<1> QED
  BY <1>3, <1>6, <1>7

\* Any member can be counted last.
LEMMA SumWithout ==
  ASSUME NEW S, IsFiniteSet(S), NEW f, \A y \in S : f[y] \in Nat, NEW x \in S
  PROVE  Sum(f, S) = f[x] + Sum(f, S \ {x})
<1> DEFINE Bad == {T \in SUBSET S : \E y \in T : Sum(f, T) # f[y] + Sum(f, T \ {y})}
<1>1. SUFFICES ASSUME Bad # {} PROVE FALSE
  OBVIOUS
<1>2. PICK T \in Bad : \A y \in T : T \ {y} \notin Bad
  <2> HIDE DEF Bad
  <2>1. Bad \subseteq SUBSET S
    BY DEF Bad
  <2> QED
    BY <1>1, <2>1, LeastSet
<1>3. PICK y \in T : Sum(f, T) # f[y] + Sum(f, T \ {y})
  BY <1>2
<1> DEFINE z == Choice(T)
           R == (T \ {z}) \ {y}
<1>4. z \in T /\ T \in SUBSET S
  BY <1>2, <1>3, Chosen
<1>5. IsFiniteSet(T) /\ IsFiniteSet(R)
  BY <1>4, FS_Subset
<1>6. Sum(f, T) = f[z] + Sum(f, T \ {z})
  BY <1>3, <1>5, SumStep
<1>7. z # y
  BY <1>3, <1>6
<1>8. T \ {z} \in SUBSET S /\ T \ {y} \in SUBSET S /\ T \ {z} \notin Bad /\ T \ {y} \notin Bad
  BY <1>2, <1>3, <1>4
<1>9. Sum(f, T \ {z}) = f[y] + Sum(f, R)
  <2>1. y \in T \ {z}
    BY <1>3, <1>7
  <2> QED
    BY <1>8, <2>1
<1>10. Sum(f, T \ {y}) = f[z] + Sum(f, R)
  <2>1. z \in T \ {y} /\ (T \ {y}) \ {z} = R
    BY <1>4, <1>7
  <2> QED
    BY <1>8, <2>1
<1> HIDE DEF Bad
<1>11. f[y] \in Nat /\ f[z] \in Nat /\ Sum(f, R) \in Nat
  BY <1>3, <1>4, <1>5, SumType
<1> HIDE DEF z, R
<1> QED
  BY <1>3, <1>6, <1>9, <1>10, <1>11

\* Sums of what is never more are never more.
LEMMA SumLeq ==
  ASSUME NEW S, IsFiniteSet(S), NEW f, NEW h,
         \A x \in S : f[x] \in Nat /\ h[x] \in Nat /\ f[x] <= h[x]
  PROVE  Sum(f, S) <= Sum(h, S)
<1> DEFINE Bad == {T \in SUBSET S : ~ (Sum(f, T) <= Sum(h, T))}
<1>1. SUFFICES ASSUME Bad # {} PROVE FALSE
  OBVIOUS
<1>2. PICK T \in Bad : \A x \in T : T \ {x} \notin Bad
  BY <1>1, LeastSet
<1>3. T \in SUBSET S /\ IsFiniteSet(T) /\ ~ (Sum(f, T) <= Sum(h, T))
  BY FS_Subset
<1>4. CASE T = {}
  <2>1. Sum(f, T) = 0 /\ Sum(h, T) = 0
    BY <1>4, FS_EmptySet, SumStep
  <2> HIDE DEF Bad
  <2> QED
    BY <1>3, <2>1
<1>5. CASE T # {}
  <2>1. PICK x \in T : TRUE
    BY <1>5
  <2>2. Sum(f, T \ {x}) <= Sum(h, T \ {x}) /\ IsFiniteSet(T \ {x})
    BY <1>2, <1>3, <2>1, FS_Subset
  <2>3. Sum(f, T) = f[x] + Sum(f, T \ {x}) /\ Sum(h, T) = h[x] + Sum(h, T \ {x})
    BY <1>3, <2>1, SumWithout
  <2>4. Sum(f, T \ {x}) \in Nat /\ Sum(h, T \ {x}) \in Nat /\ f[x] \in Nat /\ h[x] \in Nat /\ f[x] <= h[x]
    BY <1>3, <2>1, <2>2, SumType
  <2> HIDE DEF Bad
  <2> QED
    BY <1>3, <2>2, <2>3, <2>4
<1> QED
  BY <1>4, <1>5

\* A sum grows by what one of its terms grows by.
LEMMA SumGrows ==
  ASSUME NEW S, IsFiniteSet(S), NEW f, NEW h, NEW x \in S, NEW d \in Nat,
         \A y \in S : f[y] \in Nat /\ h[y] \in Nat,
         \A y \in S \ {x} : h[y] = f[y], h[x] = f[x] + d
  PROVE  Sum(h, S) = Sum(f, S) + d
<1>1. IsFiniteSet(S \ {x})
  BY FS_Subset
<1>2. Sum(h, S \ {x}) = Sum(f, S \ {x})
  BY <1>1, SumSame
<1>3. Sum(f, S \ {x}) \in Nat /\ Sum(f, S) = f[x] + Sum(f, S \ {x}) /\ Sum(h, S) = h[x] + Sum(h, S \ {x})
  BY <1>1, SumType, SumWithout
<1> QED
  BY <1>2, <1>3

LEMMA SumOfNothing ==
  ASSUME NEW S, IsFiniteSet(S), NEW f, \A x \in S : f[x] = 0
  PROVE  Sum(f, S) = 0
<1> DEFINE Bad == {T \in SUBSET S : Sum(f, T) # 0}
<1>1. SUFFICES ASSUME Bad # {} PROVE FALSE
  OBVIOUS
<1>2. PICK T \in Bad : \A x \in T : T \ {x} \notin Bad
  BY <1>1, LeastSet
<1>3. T \in SUBSET S /\ IsFiniteSet(T) /\ Sum(f, T) # 0
  BY FS_Subset
<1>4. T # {}
  BY <1>3, FS_EmptySet, SumStep
<1>5. f[Choice(T)] = 0 /\ Choice(T) \in T /\ T \ {Choice(T)} \in SUBSET S
  BY <1>3, <1>4, Chosen
<1>6. Sum(f, T \ {Choice(T)}) = 0
  BY <1>2, <1>5
<1>7. Sum(f, T) = f[Choice(T)] + Sum(f, T \ {Choice(T)})
  BY <1>3, <1>4, SumStep
<1> HIDE DEF Bad
<1> QED
  BY <1>3, <1>5, <1>6, <1>7

\* The sums of the model are sums of functions.
LEMMA SumsOfShares ==
  ASSUME NEW o
  PROVE  /\ Known(o) = Sum([c \in Callers |-> Share(c, Told(c), o)], Callers)
         /\ AtWorst(o) = Sum([c \in Callers |-> Share(c, Told(c) + broken[c], o)], Callers)
<1>1. Known(o) = Sum([c \in Callers |-> Share(c, Told(c), o)], Callers)
  <2> DEFINE h == [c \in Callers |-> Share(c, Told(c), o)]
  <2>1. ASSUME NEW T \in SUBSET Callers, T # {} PROVE h[Choice(T)] = Share(Choice(T), Told(Choice(T)), o)
    BY <2>1, Chosen
  <2>2. \A g : Sums(g, h, Callers) <=>
          g = [T \in SUBSET Callers |->
                 IF T = {} THEN 0 ELSE Share(Choice(T), Told(Choice(T)), o) + g[T \ {Choice(T)}]]
    <3> HIDE DEF h
    <3> QED
      BY <2>1 DEF Sums
  <2> HIDE DEF h
  <2>3. Known(o) = Sum(h, Callers)
    BY <2>2, ZenonT(60) DEF Known, MapThenSumSet, MapThenFoldSet, Choice, Sum
  <2> QED
    BY <2>3 DEF h
<1>2. AtWorst(o) = Sum([c \in Callers |-> Share(c, Told(c) + broken[c], o)], Callers)
  <2> DEFINE h == [c \in Callers |-> Share(c, Told(c) + broken[c], o)]
  <2>1. ASSUME NEW T \in SUBSET Callers, T # {}
        PROVE  h[Choice(T)] = Share(Choice(T), Told(Choice(T)) + broken[Choice(T)], o)
    BY <2>1, Chosen
  <2>2. \A g : Sums(g, h, Callers) <=>
          g = [T \in SUBSET Callers |->
                 IF T = {} THEN 0
                 ELSE Share(Choice(T), Told(Choice(T)) + broken[Choice(T)], o) + g[T \ {Choice(T)}]]
    <3> HIDE DEF h
    <3> QED
      BY <2>1 DEF Sums
  <2> HIDE DEF h
  <2>3. AtWorst(o) = Sum(h, Callers)
    BY <2>2, ZenonT(60) DEF AtWorst, MapThenSumSet, MapThenFoldSet, Choice, Sum
  <2> QED
    BY <2>3 DEF h
<1> QED
  BY <1>1, <1>2

-----------------------------------------------------------------------------
(* What an order was refunded is the sum of the refunds made for its       *)
(* callers, each of the amount its caller has in mind.                     *)

\* What was refunded to each caller from the order o.
Given(o) == [c \in Callers |-> Share(c, made[c], o)]

TotalsKept ==
  /\ \A c \in Callers :
       /\ pc[c] = "posted" \/ stray[c] > 0 => amount[c] = RefundAmount(wish[c])
  /\ \A o \in Orders : total[o] = Sum(Given(o), Callers)

\* Products in the sums.
LEMMA Products ==
  /\ \A a \in Nat : 0 * a = 0 /\ 1 * a = a
  /\ \A n, a \in Nat : n * a \in Nat /\ (n + 1) * a = n * a + a
  /\ \A m, n, a \in Nat : m <= n => m * a <= n * a
<1>1. \A m, n, a \in Nat : m <= n => m * a <= n * a
  <2> SUFFICES ASSUME NEW m \in Nat, NEW n \in Nat, NEW a \in Nat, m <= n PROVE m * a <= n * a
    OBVIOUS
  <2>1. n - m \in Nat /\ n = m + (n - m)
    OBVIOUS
  <2>2. n * a = m * a + (n - m) * a
    BY <2>1
  <2>3. (n - m) * a \in Nat /\ m * a \in Nat
    BY <2>1
  <2> QED
    BY <2>2, <2>3
<1> QED
  BY <1>1

LEMMA SharesTyped ==
  ASSUME TypeOK, NEW c \in Callers, NEW o \in Orders
  PROVE  /\ wish[c].order = o => RefundAmount(wish[c]) \in Nat
         /\ \A n \in Nat : Share(c, n, o) \in Nat
         /\ \A m, n \in Nat : m <= n => Share(c, m, o) <= Share(c, n, o)
         /\ Share(c, 0, o) = 0
<1>1. ASSUME wish[c].order = o PROVE RefundAmount(wish[c]) \in Nat
  <2>1. wish[c] \in Wishes \/ wish[c] = NoWish
    BY DEF TypeOK
  <2>2. wish[c].asked \in Amounts \/ wish[c].asked = 0
    <3>1. CASE wish[c] \in Wishes
      BY <3>1 DEF Wishes
    <3>2. CASE wish[c] = NoWish
      BY <3>2 DEF NoWish
    <3> QED
      BY <2>1, <3>1, <3>2
  <2>3. wish[c].asked \in Nat
    <3>1. Amounts \subseteq Nat /\ 0 \in Nat
      BY RefundAssumption
    <3> QED
      BY <2>2, <3>1, Zenon
  <2> QED
    BY <1>1, <2>3, RefundAssumption DEF RefundAmount
<1>2. CASE wish[c].order = o
  <2> DEFINE a == RefundAmount(wish[c])
  <2>1. a \in Nat /\ \A n : Share(c, n, o) = n * a
    BY <1>1, <1>2 DEF Share
  <2> HIDE DEF a
  <2> QED
    BY <1>1, <2>1, Products
<1>3. CASE wish[c].order # o
  BY <1>3 DEF Share
<1> QED
  BY <1>2, <1>3

\* The step makes no refund.
LEMMA TotalsStay ==
  ASSUME TotalsKept, UNCHANGED <<wish, made, total>>,
         \A c \in Callers : pc'[c] = "posted" \/ stray'[c] > 0 => amount'[c] = RefundAmount(wish[c])
  PROVE  TotalsKept'
<1>1. \A o : Given(o)' = Given(o)
  BY DEF Given, Share, RefundAmount
<1> QED
  BY <1>1 DEF TotalsKept, RefundAmount

\* The step makes a refund.
LEMMA TotalsGrow ==
  ASSUME TypeOK, TotalsKept, NEW c \in Callers, wish[c] \in Wishes, amount[c] = RefundAmount(wish[c]),
         Refund(c), UNCHANGED <<wish, amount, pc>>, \A d \in Callers : stray'[d] > 0 => stray[d] > 0
  PROVE  TotalsKept'
<1>0. wish[c].order \in Orders /\ made[c] \in Nat
  BY DEF TypeOK, Wishes
<1>1. made'[c] = made[c] + 1 /\ \A d \in Callers \ {c} : made'[d] = made[d]
  BY DEF Refund, TypeOK
<1>2. ASSUME NEW o \in Orders PROVE total'[o] = Sum(Given(o)', Callers)
  <2>1. CASE wish[c].order # o
    <3>1. total'[o] = total[o]
      BY <2>1 DEF Refund, TypeOK
    <3>2. Given(o)' = Given(o)
      BY <1>1, <2>1 DEF Given, Share, RefundAmount
    <3> QED
      BY <3>1, <3>2 DEF TotalsKept
  <2>2. CASE wish[c].order = o
    <3> DEFINE a == RefundAmount(wish[c])
               f == Given(o)
               h == Given(o)'
    <3>1. total'[o] = total[o] + a /\ a \in Nat /\ total[o] \in Nat
      BY <2>2, SharesTyped DEF Refund, TypeOK
    <3>2. h[c] = f[c] + a
      <4>1. f[c] = made[c] * a /\ h[c] = made'[c] * a
        BY <2>2 DEF Given, Share, RefundAmount
      <4>2. (made[c] + 1) * a = made[c] * a + a
        BY <1>0, <3>1, Products
      <4> HIDE DEF a, f, h
      <4> QED
        BY <1>1, <4>1, <4>2
    <3>3. \A d \in Callers \ {c} : h[d] = f[d]
      BY <1>1 DEF Given, Share, RefundAmount
    <3>4. \A d \in Callers : f[d] \in Nat
      BY SharesTyped DEF Given, TypeOK
    <3> HIDE DEF a, f, h
    <3>5. \A d \in Callers : h[d] \in Nat
      BY <3>1, <3>2, <3>3, <3>4
    <3>6. Sum(h, Callers) = Sum(f, Callers) + a
      <4>1. \A d \in Callers : f[d] \in Nat /\ h[d] \in Nat
        BY <3>4, <3>5
      <4>2. IsFiniteSet(Callers) /\ a \in Nat
        BY <3>1, RefundAssumption
      <4> QED
        BY ONLY <3>2, <3>3, <4>1, <4>2, c \in Callers, SumGrows, Zenon
    <3> QED
      BY <3>1, <3>6 DEF f, h, TotalsKept
  <2> QED
    BY <2>1, <2>2
<1>3. \A d \in Callers : pc'[d] = "posted" \/ stray'[d] > 0 => amount'[d] = RefundAmount(wish'[d])
  BY DEF TotalsKept
<1> QED
  BY <1>2, <1>3 DEF TotalsKept, RefundAmount

LEMMA TotalStep ==
  ASSUME TypeOK, ChosenOnceCalled, TotalsKept, [Next]_vars
  PROVE  TotalsKept'
<1> USE DEF book
<1>0. \A c \in Callers : stray[c] \in Nat /\ made[c] \in Nat
  BY DEF TypeOK
<1>1. ASSUME NEW o \in Orders, Pay(o) PROVE TotalsKept'
  BY <1>1, TotalsStay DEF Pay, TotalsKept
<1>2. ASSUME NEW c \in Callers, NEW w \in Wishes, InitiateRefund(c, w) PROVE TotalsKept'
  <2>1. /\ UNCHANGED <<made, total, amount, stray>> /\ pc'[c] = "checking" /\ wish'[c] = w
        /\ \A d \in Callers \ {c} : wish'[d] = wish[d] /\ pc'[d] = pc[d]
    BY <1>2 DEF InitiateRefund, TypeOK
  <2>2. CASE pc[c] = "idle"
    <3>1. made[c] = 0 /\ stray[c] = 0
      BY <2>2 DEF ChosenOnceCalled
    <3>2. ASSUME NEW o \in Orders PROVE Given(o)' = Given(o)
      <4>1. Share(c, 0, o) = 0
        BY SharesTyped
      <4>2. Share(c, 0, o)' = 0
        <5>1. RefundAmount(w) \in Nat
          BY RefundAmountTyped
        <5> QED
          BY <2>1, <5>1, Products DEF Share, RefundAmount
      <4>3. made'[c] = 0
        BY <2>1, <3>1
      <4>4. \A d \in Callers \ {c} : Share(d, made[d], o)' = Share(d, made[d], o)
        BY <2>1 DEF Share, RefundAmount
      <4>5. Share(c, made[c], o)' = Share(c, made[c], o)
        BY <3>1, <4>1, <4>2, <4>3
      <4> QED
        BY <4>4, <4>5 DEF Given
    <3>3. \A d \in Callers : pc'[d] = "posted" \/ stray'[d] > 0 => amount'[d] = RefundAmount(wish'[d])
      BY <2>1, <3>1 DEF TotalsKept
    <3> QED
      BY <2>1, <3>2, <3>3 DEF TotalsKept, RefundAmount
  <2>3. CASE pc[c] = "failed" /\ w = wish[c]
    <3>1. wish' = wish
      BY <1>2, <2>3 DEF InitiateRefund, TypeOK
    <3> QED
      BY <2>1, <3>1, TotalsStay DEF TotalsKept
  <2> QED
    BY <1>2, <2>2, <2>3 DEF InitiateRefund
<1>3. ASSUME NEW c \in Callers, Checked(c) PROVE TotalsKept'
  <2>1. UNCHANGED <<wish, made, total, stray>>
    BY <1>3 DEF Checked, StatusPaid, StatusUnpaid, StatusFails
  <2>2. \A d \in Callers \ {c} : amount'[d] = amount[d] /\ pc'[d] = pc[d]
    BY <1>3 DEF Checked, StatusPaid, StatusUnpaid, StatusFails, TypeOK
  <2>3. \/ pc'[c] = "failed" /\ amount'[c] = amount[c]
        \/ pc'[c] = "posted" /\ amount'[c] = RefundAmount(wish[c])
    BY <1>3 DEF Checked, StatusPaid, StatusUnpaid, StatusFails, TypeOK
  <2>4. \A d \in Callers : pc'[d] = "posted" \/ stray'[d] > 0 => amount'[d] = RefundAmount(wish[d])
    BY <2>1, <2>2, <2>3 DEF TotalsKept
  <2> QED
    BY <2>1, <2>4, TotalsStay
<1>4. ASSUME NEW c \in Callers, Answered(c) \/ Declined(c) PROVE TotalsKept'
  <2>1. UNCHANGED <<wish, made, total, amount, stray>>
    BY <1>4 DEF Answered, Declined
  <2>2. \A d \in Callers : pc'[d] = pc[d] \/ pc'[d] \in {"refunded", "failed"}
    BY <1>4 DEF Answered, Declined, TypeOK
  <2> QED
    BY <2>1, <2>2, TotalsStay DEF TotalsKept
<1>5. ASSUME NEW c \in Callers, StrayDropped(c) PROVE TotalsKept'
  <2>1. UNCHANGED <<wish, made, total, amount, pc>> /\ stray[c] > 0
        /\ \A d \in Callers \ {c} : stray'[d] = stray[d]
    BY <1>5 DEF StrayDropped, TypeOK
  <2> QED
    BY <2>1, TotalsStay DEF TotalsKept
<1>6. ASSUME NEW c \in Callers, GatewayRefunds(c) PROVE TotalsKept'
  <2>1. /\ pc[c] = "posted" /\ Refund(c) /\ UNCHANGED <<wish, pc, amount, stray>>
    BY <1>6 DEF GatewayRefunds
  <2>2. wish[c] \in Wishes /\ amount[c] = RefundAmount(wish[c])
    BY <2>1 DEF ChosenOnceCalled, TotalsKept
  <2> QED
    BY <2>1, <2>2, TotalsGrow
<1>7. ASSUME NEW c \in Callers, StrayRefund(c) PROVE TotalsKept'
  <2>1. /\ stray[c] > 0 /\ Refund(c) /\ UNCHANGED <<wish, pc, amount>>
        /\ \A d \in Callers \ {c} : stray'[d] = stray[d]
    BY <1>7 DEF StrayRefund, TypeOK
  <2>2. wish[c] \in Wishes /\ amount[c] = RefundAmount(wish[c])
    BY <1>0, <2>1 DEF ChosenOnceCalled, TotalsKept
  <2> QED
    BY <2>1, <2>2, TotalsGrow
<1>8. ASSUME NEW c \in Callers, ConnectionBreaks(c) PROVE TotalsKept'
  <2>1. /\ pc[c] = "posted" /\ pc'[c] = "failed" /\ UNCHANGED <<wish, made, total, amount>>
        /\ \A d \in Callers \ {c} : pc'[d] = pc[d] /\ stray'[d] = stray[d]
    BY <1>8 DEF ConnectionBreaks, TypeOK
  <2> QED
    BY <2>1, TotalsStay DEF TotalsKept
<1>9. CASE UNCHANGED vars
  BY <1>9, TotalsStay DEF vars, TotalsKept
<1> QED
  BY <1>1, <1>2, <1>3, <1>4, <1>5, <1>6, <1>7, <1>8, <1>9 DEF Next, Executed, Ended

LEMMA TotalsAreKept == Spec => []TotalsKept
<1>1. Init => TotalsKept
  <2> SUFFICES ASSUME Init PROVE TotalsKept
    OBVIOUS
  <2>1. ASSUME NEW o \in Orders PROVE total[o] = Sum(Given(o), Callers)
    <3>1. total[o] = 0 /\ \A c \in Callers : Given(o)[c] = 0
      <4>1. \A c \in Callers : made[c] = 0 /\ wish[c] = NoWish
        BY DEF Init
      <4>2. ASSUME NEW c \in Callers PROVE Share(c, 0, o) = 0
        <5>1. RefundAmount(NoWish) = OrderAmount[NoWish.order]
          BY DEF RefundAmount, NoWish
        <5>2. wish[c].order = o => RefundAmount(wish[c]) \in Nat
          BY <4>1, <5>1, RefundAssumption
        <5> QED
          BY <5>2, Products DEF Share
      <4> QED
        BY <4>1, <4>2 DEF Init, Given
    <3>2. Sum(Given(o), Callers) = 0
      BY <3>1, RefundAssumption, SumOfNothing
    <3> QED
      BY <3>1, <3>2
  <2>2. \A c \in Callers : ~(pc[c] = "posted" \/ stray[c] > 0)
    BY DEF Init
  <2> QED
    BY <2>1, <2>2 DEF TotalsKept
<1>2. TypeOK /\ ChosenOnceCalled /\ TotalsKept /\ [Next]_vars => TotalsKept'
  BY TotalStep
<1> QED
  BY <1>1, <1>2, Typed, PTL DEF Spec

(* What an order was refunded is what its callers were told of and at most *)
(* one refund more for each broken connection, for any finite set of       *)
(* callers and any amounts, however many callers check its status at the   *)
(* same time: no call takes more than its caller has in mind, though all   *)
(* of them together may take more than was charged.                        *)
THEOREM RefundsAddUp == Spec => []RefundsExplained
<1>1. TypeOK /\ RefundsCounted /\ TotalsKept => RefundsExplained
  <2> SUFFICES ASSUME TypeOK, RefundsCounted, TotalsKept, NEW o \in Orders
               PROVE  Known(o) <= total[o] /\ total[o] <= AtWorst(o)
    BY DEF RefundsExplained
  <2> DEFINE told  == [c \in Callers |-> Share(c, Told(c), o)]
             given == Given(o)
             worst == [c \in Callers |-> Share(c, Told(c) + broken[c], o)]
  <2>1. Known(o) = Sum(told, Callers) /\ AtWorst(o) = Sum(worst, Callers) /\ total[o] = Sum(given, Callers)
    BY SumsOfShares DEF TotalsKept
  <2>2. ASSUME NEW c \in Callers
        PROVE  /\ told[c] \in Nat /\ given[c] \in Nat /\ worst[c] \in Nat
               /\ told[c] <= given[c] /\ given[c] <= worst[c]
    <3>1. Told(c) \in Nat /\ made[c] \in Nat /\ stray[c] \in Nat /\ broken[c] \in Nat /\ Told(c) + broken[c] \in Nat
      BY DEF TypeOK, Told
    <3>2. Told(c) <= made[c] /\ made[c] <= Told(c) + broken[c]
      <4>1. Told(c) \in {0, 1} /\ (Told(c) = 1 => made[c] > 0) /\ made[c] + stray[c] <= broken[c] + Told(c)
        BY DEF RefundsCounted, Told
      <4> QED
        BY <3>1, <4>1
    <3>3. told[c] = Share(c, Told(c), o) /\ given[c] = Share(c, made[c], o)
          /\ worst[c] = Share(c, Told(c) + broken[c], o)
      BY DEF Given
    <3> QED
      BY <3>1, <3>2, <3>3, SharesTyped
  <2> HIDE DEF told, given, worst
  <2>3. Sum(told, Callers) <= Sum(given, Callers) /\ Sum(given, Callers) <= Sum(worst, Callers)
    BY <2>2, RefundAssumption, SumLeq
  <2> QED
    BY <2>1, <2>3
<1> QED
  BY <1>1, Typed, RefundsAreCounted, TotalsAreKept, PTL
=============================================================================
