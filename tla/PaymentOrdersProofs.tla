------------------------ MODULE PaymentOrdersProofs -------------------------
(***************************************************************************)
(* Proofs about the creation of orders, for any products, prices, amounts  *)
(* and number of concurrent requests.                                      *)
(***************************************************************************)
EXTENDS PaymentOrders, TLAPS

PostedType ==
  [pc : {"posted", "failed", "replied"}, via : Vias, named : BOOLEAN,
   product : Products, obj : Nat, charge : Nat, shown : Nat]

(* Posting, answering and failing keep the type of a request's state.      *)
LEMMA PostTyped ==
  ASSUME NEW c \in Calls, call \in [Calls -> CallType],
         NEW via \in Vias, NEW m \in BOOLEAN, NEW p \in Products, NEW n \in Nat,
         NEW amount \in Nat, Post(c, via, m, p, n, amount)
  PROVE  call' \in [Calls -> CallType]
<1> DEFINE r == [pc |-> "posted", via |-> via, named |-> m, product |-> p,
                 obj |-> n, charge |-> amount, shown |-> 0]
<1>1. r \in CallType
  BY DEF CallType
<1>2. call' = [call EXCEPT ![c] = r]
  BY DEF Post
<1> QED
  BY <1>1, <1>2

LEMMA EndTyped ==
  ASSUME NEW c \in Calls, call \in [Calls -> CallType], Suspended(c),
         Fail(c) \/ (Reply(c) /\ ShownPrice(c) \in Nat)
  PROVE  call' \in [Calls -> CallType]
<1>1. call[c] \in PostedType
  BY DEF CallType, PostedType, Suspended, Idle, Rejected
<1>2. CASE Fail(c)
  <2>1. [call[c] EXCEPT !.pc = "failed"] \in PostedType
    BY <1>1 DEF PostedType
  <2> QED
    BY <1>2, <2>1 DEF Fail, PostedType, CallType
<1>3. CASE Reply(c) /\ ShownPrice(c) \in Nat
  <2>1. [call[c] EXCEPT !.pc = "replied", !.shown = ShownPrice(c)] \in PostedType
    BY <1>1, <1>3 DEF PostedType
  <2> QED
    BY <1>3, <2>1 DEF Reply, PostedType, CallType
<1> QED
  BY <1>2, <1>3

(* What a request without any effect beyond its own state leaves alone.    *)
Quiet == UNCHANGED <<current, made, price, orders, touched, edited>>

(* A new request is rejected, or posted with what the catalogues say.      *)
LEMMA RequestCases ==
  ASSUME TypeOK, NEW c \in Calls, NEW p \in Products,
         \/ CashfreeRequest(c, p)
         \/ \E given \in SUBSET Fields, a \in Amounts : RazorpayRequest(c, p, given, a)
         \/ \E via \in Vias : ManagerRequest(c, p, via)
  PROVE  /\ Quiet
         /\ call[c] = Idle
         /\ \/ Reject(c)
            \/ /\ p \in Listed
               /\ \E m \in BOOLEAN, amount \in Nat : Post(c, "razorpay", m, p, 0, amount)
            \/ /\ current[p] > 0
               /\ \E m \in BOOLEAN :
                     Post(c, "cashfree", m, p, current[p], price[p][current[p]])
<1> USE DEF catalogue, history, Quiet
<1>1. ASSUME CashfreeCreateOrder(c, p)
      PROVE  Reject(c) \/ /\ current[p] > 0
                          /\ \E m \in BOOLEAN :
                                Post(c, "cashfree", m, p, current[p], price[p][current[p]])
  <2>1. Reject(c) \/ (current[p] # 0 /\ Post(c, "cashfree", FALSE, p, current[p], price[p][current[p]]))
    BY <1>1 DEF CashfreeCreateOrder
  <2>2. current[p] # 0 => current[p] > 0
    BY OrdersAssumption DEF TypeOK
  <2> QED
    BY <2>1, <2>2, Zenon
<1>2. ASSUME NEW m \in BOOLEAN, NEW given, NEW a \in Nat, RazorpayCreateOrder(c, p, given, a, m)
      PROVE  Reject(c) \/ /\ p \in Listed
                          /\ \E amount \in Nat : Post(c, "razorpay", m, p, 0, amount)
  <2>1. p \in Listed => RazorpayAmount(p, given, a) \in Nat
    BY OrdersAssumption DEF RazorpayAmount
  <2> QED
    BY <1>2, <2>1 DEF RazorpayCreateOrder
<1>3. CASE CashfreeRequest(c, p)
  BY <1>1, <1>3 DEF CashfreeRequest
<1>4. ASSUME NEW given \in SUBSET Fields, NEW a \in Amounts, RazorpayRequest(c, p, given, a)
      PROVE  /\ Quiet
             /\ call[c] = Idle
             /\ Reject(c) \/ /\ p \in Listed
                             /\ \E m \in BOOLEAN, amount \in Nat :
                                   Post(c, "razorpay", m, p, 0, amount)
  BY <1>2, <1>4, OrdersAssumption DEF RazorpayRequest
<1>6. CASE \E via \in Vias : ManagerRequest(c, p, via)
  <2>1. p \in Listed => BasePrice[p] \in Nat
    BY OrdersAssumption
  <2> QED
    BY <1>1, <1>2, <1>6, <2>1 DEF ManagerRequest
<1> QED
  BY <1>3, <1>4, <1>6

(* The prices of a product's objects are numbers, whatever is edited.      *)
THEOREM TypeCorrect == Spec => []TypeOK
<1>1. Init => TypeOK
  <2> SUFFICES ASSUME Init PROVE TypeOK
    OBVIOUS
  <2>1. current \in [Products -> 0..MaxMade] /\ made \in [Products -> 0..MaxMade]
    <3>1. 1 \in 0..MaxMade /\ 0 \in 0..MaxMade
      BY OrdersAssumption
    <3> QED
      BY <3>1 DEF Init
  <2>2. \A p \in Products : current[p] <= made[p]
    <3>1. \A p \in Products : made[p] = current[p]
      BY DEF Init
    <3>2. \A p \in Products : current[p] \in Nat
      BY <2>1, OrdersAssumption
    <3>3. \A n \in Nat : n <= n
      OBVIOUS
    <3> QED
      BY <3>1, <3>2, <3>3
  <2>3. price \in [Products -> [1..MaxMade -> Nat]]
    BY OrdersAssumption DEF Init
  <2>4. call \in [Calls -> CallType] /\ \A c \in Calls : ~Suspended(c)
    BY DEF Init, CallType, Suspended, Idle
  <2> QED
    BY <2>1, <2>2, <2>3, <2>4 DEF Init, TypeOK
<1>2. TypeOK /\ [Next]_vars => TypeOK'
  <2> SUFFICES ASSUME TypeOK, [Next]_vars PROVE TypeOK'
    OBVIOUS
  <2>0. \A p \in Products : current[p] > 0 => current[p] \in 1..MaxMade
    BY OrdersAssumption DEF TypeOK
  <2> DEFINE Objects == \A c \in Calls :
               Suspended(c) => IF call[c].via = "cashfree" THEN call[c].obj \in 1..MaxMade
                                                           ELSE call[c].product \in Listed
  <2>1. ASSUME NEW c \in Calls, NEW p \in Products,
               \/ CashfreeRequest(c, p)
               \/ \E given \in SUBSET Fields, a \in Amounts : RazorpayRequest(c, p, given, a)
               \/ \E via \in Vias : ManagerRequest(c, p, via)
        PROVE  TypeOK'
    <3>1. Quiet
      BY <2>1, RequestCases
    <3>2. call' \in [Calls -> CallType] /\ Objects'
      <4>1. CASE Reject(c)
        BY <4>1 DEF Reject, TypeOK, CallType, Suspended, Rejected
      <4>2. ASSUME NEW m \in BOOLEAN, NEW amount \in Nat, p \in Listed,
                   Post(c, "razorpay", m, p, 0, amount)
            PROVE  call' \in [Calls -> CallType] /\ Objects'
        <5>1. call' \in [Calls -> CallType]
          BY <4>2, PostTyped DEF TypeOK, Vias
        <5> QED
          BY <4>2, <5>1 DEF Post, TypeOK, Suspended
      <4>3. ASSUME NEW m \in BOOLEAN, current[p] > 0,
                   Post(c, "cashfree", m, p, current[p], price[p][current[p]])
            PROVE  call' \in [Calls -> CallType] /\ Objects'
        <5>1. current[p] \in 1..MaxMade /\ current[p] \in Nat
          BY <2>0, <4>3
        <5>2. price[p][current[p]] \in Nat
          BY <5>1 DEF TypeOK
        <5>3. call' \in [Calls -> CallType]
          BY <4>3, <5>1, <5>2, PostTyped DEF TypeOK, Vias
        <5> QED
          BY <4>3, <5>1, <5>3 DEF Post, TypeOK, Suspended
      <4> QED
        BY <2>1, <4>1, <4>2, <4>3, RequestCases
    <3> QED
      BY <3>1, <3>2 DEF Quiet, TypeOK
  <2>2. ASSUME NEW c \in Calls, GatewayCreates(c) PROVE TypeOK'
    BY <2>2 DEF GatewayCreates, TypeOK, catalogue, history, Suspended
  <2>3. ASSUME NEW c \in Calls, Reply(c) \/ Fail(c) PROVE TypeOK'
    <3>1. Suspended(c)
      BY <2>3 DEF Reply, Fail
    <3>2. ShownPrice(c) \in Nat \/ ~Reply(c)
      <4>1. call[c] \in PostedType
        BY <3>1 DEF TypeOK, CallType, PostedType, Suspended, Idle, Rejected
      <4>2. CASE call[c].via = "cashfree"
        BY <3>1, <4>1, <4>2 DEF ShownPrice, TypeOK, PostedType
      <4>3. CASE call[c].via # "cashfree"
        BY <3>1, <4>3, OrdersAssumption DEF ShownPrice, TypeOK
      <4> QED
        BY <4>2, <4>3
    <3>3. call' \in [Calls -> CallType]
      BY <2>3, <3>1, <3>2, EndTyped DEF TypeOK
    <3>4. \A d \in Calls : Suspended(d)' => Suspended(d) /\ call'[d] = call[d]
      <4>1. ~Suspended(c)'
        BY <2>3, <3>1, <3>3 DEF Reply, Fail, TypeOK, Suspended, CallType, Idle, Rejected
      <4>2. \A d \in Calls \ {c} : call'[d] = call[d]
        BY <2>3 DEF Reply, Fail, TypeOK
      <4> QED
        BY <4>1, <4>2 DEF Suspended
    <3>5. Objects'
      BY <3>4 DEF TypeOK
    <3>6. UNCHANGED <<current, made, price, orders, touched, edited>>
      BY <2>3 DEF Reply, Fail, catalogue, history
    <3> QED
      BY <3>3, <3>5, <3>6 DEF TypeOK
  <2>4. ASSUME NEW p \in Products, NEW v \in Prices, AddProduct(p, v) PROVE TypeOK'
    <3>1. v \in Nat /\ made[p] \in 0..MaxMade /\ made[p] + 1 \in 1..MaxMade
      BY <2>4, OrdersAssumption DEF AddProduct, TypeOK
    <3>2. price' \in [Products -> [1..MaxMade -> Nat]]
      BY <2>4, <3>1 DEF AddProduct, TypeOK
    <3>3. made' \in [Products -> 0..MaxMade] /\ current' \in [Products -> 0..MaxMade]
      BY <2>4, <3>1 DEF AddProduct, TypeOK
    <3>4. \A q \in Products : current'[q] <= made'[q]
      BY <2>4, <3>1 DEF AddProduct, TypeOK
    <3> QED
      BY <2>4, <3>2, <3>3, <3>4 DEF AddProduct, TypeOK, Suspended
  <2>5. ASSUME NEW p \in Products, RemoveProduct(p) PROVE TypeOK'
    <3>1. current' \in [Products -> 0..MaxMade]
      BY <2>5, OrdersAssumption DEF RemoveProduct, TypeOK
    <3>2. \A q \in Products : current'[q] <= made[q]
      BY <2>5 DEF RemoveProduct, TypeOK
    <3> QED
      BY <2>5, <3>1, <3>2 DEF RemoveProduct, TypeOK, Suspended
  <2>6. ASSUME NEW p \in Products, NEW v \in Prices, UpdateProduct(p, v) PROVE TypeOK'
    <3>1. price' \in [Products -> [1..MaxMade -> Nat]]
      BY <2>6, OrdersAssumption DEF UpdateProduct, TypeOK
    <3>2. touched' \in SUBSET Calls /\ edited' \in SUBSET Products
      BY <2>6 DEF UpdateProduct, TypeOK
    <3> QED
      BY <2>6, <3>1, <3>2 DEF UpdateProduct, TypeOK, Suspended
  <2>7. CASE UNCHANGED vars
    BY <2>7 DEF vars, TypeOK, Suspended
  <2> QED
    BY <2>1, <2>2, <2>3, <2>4, <2>5, <2>6, <2>7 DEF Next
<1> QED
  BY <1>1, <1>2, PTL DEF Spec

-----------------------------------------------------------------------------
(* While a Cashfree call is suspended, the object it refers to still holds *)
(* the price it posted, unless updateProduct wrote into that object.       *)
PriceKept ==
  \A c \in Calls :
    Suspended(c) /\ call[c].via = "cashfree" /\ c \notin touched =>
      /\ call[c].obj <= made[call[c].product]
      /\ price[call[c].product][call[c].obj] = call[c].charge

(* PriceKept is the reason for ShownIsCharged: addProduct writes into an   *)
(* object nobody refers to yet, removeProduct into none.                   *)
THEOREM AnswerShowsCharge == Spec => []ShownIsCharged
<1>1. Init => PriceKept /\ ShownIsCharged
  BY DEF Init, PriceKept, ShownIsCharged, Suspended, Replied, Idle
<1>2. TypeOK /\ PriceKept /\ ShownIsCharged /\ [Next]_vars => PriceKept' /\ ShownIsCharged'
  <2> SUFFICES ASSUME TypeOK, PriceKept, ShownIsCharged, [Next]_vars, NEW d \in Calls
               PROVE  /\ (Suspended(d) /\ call[d].via = "cashfree" /\ d \notin touched =>
                             /\ call[d].obj <= made[call[d].product]
                             /\ price[call[d].product][call[d].obj] = call[d].charge)'
                      /\ (Replied(d) /\ call[d].via = "cashfree"
                            /\ call[d].shown # call[d].charge => d \in touched)'
    BY DEF PriceKept, ShownIsCharged
  <2> DEFINE Kept == (Suspended(d) /\ call[d].via = "cashfree" /\ d \notin touched =>
                        /\ call[d].obj <= made[call[d].product]
                        /\ price[call[d].product][call[d].obj] = call[d].charge)'
             Shown == (Replied(d) /\ call[d].via = "cashfree"
                         /\ call[d].shown # call[d].charge => d \in touched)'
  <2>0. /\ Suspended(d) => call[d] \in PostedType
        /\ Suspended(d) /\ call[d].via = "cashfree" => call[d].obj \in 1..MaxMade
    BY DEF TypeOK, CallType, PostedType, Suspended, Idle, Rejected
  <2>1. ASSUME NEW c \in Calls, NEW p \in Products,
               \/ CashfreeRequest(c, p)
               \/ \E given \in SUBSET Fields, a \in Amounts : RazorpayRequest(c, p, given, a)
               \/ \E via \in Vias : ManagerRequest(c, p, via)
        PROVE  Kept /\ Shown
    <3>1. Quiet
      BY <2>1, RequestCases
    <3>2. CASE call'[d] = call[d]
      BY <3>1, <3>2 DEF Quiet, PriceKept, ShownIsCharged, Suspended, Replied
    <3>3. CASE c = d /\ Reject(c)
      BY <3>3 DEF Reject, TypeOK, Suspended, Replied, Rejected
    <3>4. CASE c = d /\ \E m \in BOOLEAN, amount \in Nat : Post(c, "razorpay", m, p, 0, amount)
      BY <3>4 DEF Post, TypeOK, Suspended, Replied
    <3>5. CASE c = d /\ current[p] > 0 /\ \E m \in BOOLEAN :
                 Post(c, "cashfree", m, p, current[p], price[p][current[p]])
      <4>1. PICK m \in BOOLEAN : call'[d] =
              [pc |-> "posted", via |-> "cashfree", named |-> m, product |-> p,
               obj |-> current[p], charge |-> price[p][current[p]], shown |-> 0]
        BY <3>5 DEF Post, TypeOK
      <4>2. current[p] <= made[p]
        BY DEF TypeOK
      <4> QED
        BY <3>1, <4>1, <4>2 DEF Quiet, Suspended, Replied
    <3>6. c # d => call'[d] = call[d]
      BY <2>1, RequestCases DEF Post, Reject, TypeOK
    <3> QED
      BY <2>1, <3>2, <3>3, <3>4, <3>5, <3>6, RequestCases
  <2>2. ASSUME NEW c \in Calls, GatewayCreates(c) PROVE Kept /\ Shown
    BY <2>2 DEF GatewayCreates, catalogue, history, PriceKept, ShownIsCharged, Suspended, Replied
  <2>3. ASSUME NEW c \in Calls, Reply(c) PROVE Kept /\ Shown
    <3>1. UNCHANGED <<current, made, price, touched>> /\ Suspended(c)
      BY <2>3 DEF Reply, catalogue, history
    <3>2. CASE c # d
      <4>1. call'[d] = call[d]
        BY <2>3, <3>2 DEF Reply, TypeOK
      <4> QED
        BY <3>1, <4>1 DEF PriceKept, ShownIsCharged, Suspended, Replied
    <3>3. CASE c = d
      <4>1. call'[d] = [call[d] EXCEPT !.pc = "replied", !.shown = ShownPrice(d)]
        BY <2>3, <3>3 DEF Reply, TypeOK
      <4>2. call[d] \in PostedType
        BY <2>0, <3>1, <3>3
      <4>3. /\ call'[d].pc = "replied" /\ call'[d].shown = ShownPrice(d)
            /\ call'[d].via = call[d].via /\ call'[d].charge = call[d].charge
        BY <4>1, <4>2 DEF PostedType
      <4> QED
        BY <3>1, <3>3, <4>3 DEF PriceKept, ShownPrice, Suspended, Replied
    <3> QED
      BY <3>2, <3>3
  <2>4. ASSUME NEW c \in Calls, Fail(c) PROVE Kept /\ Shown
    <3>1. UNCHANGED <<current, made, price, touched>> /\ Suspended(c)
      BY <2>4 DEF Fail, catalogue, history
    <3>2. CASE c # d
      <4>1. call'[d] = call[d]
        BY <2>4, <3>2 DEF Fail, TypeOK
      <4> QED
        BY <3>1, <4>1 DEF PriceKept, ShownIsCharged, Suspended, Replied
    <3>3. CASE c = d
      <4>1. call'[d] = [call[d] EXCEPT !.pc = "failed"] /\ call[d] \in PostedType
        BY <2>0, <2>4, <3>1, <3>3 DEF Fail, TypeOK
      <4>2. call'[d].pc = "failed"
        BY <4>1 DEF PostedType
      <4> QED
        BY <4>2 DEF Suspended, Replied
    <3> QED
      BY <3>2, <3>3
  <2>5. ASSUME NEW p \in Products, NEW v \in Prices, AddProduct(p, v) PROVE Kept /\ Shown
    <3>1. UNCHANGED <<call, touched>> /\ made[p] \in Nat
      BY <2>5 DEF AddProduct, TypeOK
    <3>2. \A q \in Products, n \in 1..MaxMade :
             n <= made[q] => n <= made'[q] /\ price'[q][n] = price[q][n]
      BY <2>5, <3>1 DEF AddProduct, TypeOK
    <3>3. Kept
      <4> SUFFICES ASSUME Suspended(d), call[d].via = "cashfree", d \notin touched
                   PROVE  /\ call[d].obj <= made'[call[d].product]
                          /\ price'[call[d].product][call[d].obj] = call[d].charge
        BY <3>1 DEF Suspended
      <4>1. call[d].product \in Products /\ call[d].obj \in 1..MaxMade
        BY <2>0 DEF PostedType
      <4> QED
        BY <3>2, <4>1 DEF PriceKept
    <3> QED
      BY <3>1, <3>3 DEF ShownIsCharged, Replied
  <2>6. ASSUME NEW p \in Products, RemoveProduct(p) PROVE Kept /\ Shown
    BY <2>6 DEF RemoveProduct, PriceKept, ShownIsCharged, Suspended, Replied
  <2>7. ASSUME NEW p \in Products, NEW v \in Prices, UpdateProduct(p, v) PROVE Kept /\ Shown
    <3>1. UNCHANGED <<call, made>> /\ touched \subseteq touched'
      BY <2>7 DEF UpdateProduct
    <3>2. Kept
      <4> SUFFICES ASSUME Suspended(d), call[d].via = "cashfree", d \notin touched'
                   PROVE  /\ call[d].obj <= made[call[d].product]
                          /\ price'[call[d].product][call[d].obj] = call[d].charge
        BY <3>1 DEF Suspended
      <4>1. call[d].product \in Products /\ call[d].obj \in 1..MaxMade
        BY <2>0 DEF PostedType
      <4>2. ~(call[d].product = p /\ call[d].obj = current[p])
        BY <2>7 DEF UpdateProduct
      <4>3. price'[call[d].product][call[d].obj] = price[call[d].product][call[d].obj]
        BY <2>7, <4>1, <4>2 DEF UpdateProduct, TypeOK
      <4> QED
        BY <3>1, <4>3 DEF PriceKept
    <3> QED
      BY <3>1, <3>2 DEF ShownIsCharged, Replied
  <2>8. CASE UNCHANGED vars
    BY <2>8 DEF vars, PriceKept, ShownIsCharged, Suspended, Replied
  <2> QED
    BY <2>1, <2>2, <2>3, <2>4, <2>5, <2>6, <2>7, <2>8 DEF Next
<1> QED
  BY <1>1, <1>2, TypeCorrect, PTL DEF Spec

-----------------------------------------------------------------------------
(* What a step does to the state of one call: the only ways to leave a     *)
(* pc are to be requested, answered or failed.                             *)
LEMMA CallStep ==
  ASSUME TypeOK, [Next]_vars, NEW d \in Calls
  PROVE  \/ call'[d] = call[d]
         \/ /\ call[d] = Idle
            /\ orders' = orders
            /\ call'[d] = Rejected \/ (call'[d].pc = "posted" /\ call'[d] \in PostedType)
         \/ /\ Suspended(d)
            /\ orders' = orders
            /\ (call'[d].pc = "replied" /\ d \in orders) \/ call'[d].pc = "failed"
            /\ call'[d].named = call[d].named
            /\ call'[d].product = call[d].product
            /\ call'[d].charge = call[d].charge
<1> DEFINE Goal == \/ call'[d] = call[d]
                   \/ /\ call[d] = Idle
                      /\ orders' = orders
                      /\ \/ call'[d] = Rejected
                         \/ (call'[d].pc = "posted" /\ call'[d] \in PostedType)
                   \/ /\ Suspended(d)
                      /\ orders' = orders
                      /\ (call'[d].pc = "replied" /\ d \in orders) \/ call'[d].pc = "failed"
                      /\ call'[d].named = call[d].named
                      /\ call'[d].product = call[d].product
                      /\ call'[d].charge = call[d].charge
<1>1. ASSUME NEW c \in Calls, NEW p \in Products,
             \/ CashfreeRequest(c, p)
             \/ \E given \in SUBSET Fields, a \in Amounts : RazorpayRequest(c, p, given, a)
             \/ \E via \in Vias : ManagerRequest(c, p, via)
      PROVE  Goal
  <2>1. Quiet /\ call[c] = Idle
    BY <1>1, RequestCases
  <2>2. CASE c # d
    BY <1>1, <2>2, RequestCases DEF Post, Reject, TypeOK
  <2>3. CASE c = d
    <3>1. \/ Reject(c)
          \/ \E m \in BOOLEAN, amount \in Nat : Post(c, "razorpay", m, p, 0, amount)
          \/ /\ current[p] > 0
             /\ \E m \in BOOLEAN :
                   Post(c, "cashfree", m, p, current[p], price[p][current[p]])
      BY <1>1, RequestCases
    <3>2. CASE Reject(c)
      BY <2>1, <2>3, <3>2 DEF Reject, TypeOK, Quiet
    <3>3. CASE \E m \in BOOLEAN, amount \in Nat : Post(c, "razorpay", m, p, 0, amount)
      <4>1. PICK m \in BOOLEAN, amount \in Nat : call'[d] =
              [pc |-> "posted", via |-> "razorpay", named |-> m, product |-> p,
               obj |-> 0, charge |-> amount, shown |-> 0]
        BY <2>3, <3>3 DEF Post, TypeOK
      <4>2. call'[d] \in PostedType
        BY <4>1 DEF PostedType, Vias
      <4> QED
        BY <2>1, <2>3, <4>1, <4>2 DEF Quiet
    <3>4. CASE /\ current[p] > 0
               /\ \E m \in BOOLEAN :
                     Post(c, "cashfree", m, p, current[p], price[p][current[p]])
      <4>1. current[p] \in Nat /\ price[p][current[p]] \in Nat
        <5>1. current[p] \in 1..MaxMade
          BY <3>4, OrdersAssumption DEF TypeOK
        <5>2. price[p] \in [1..MaxMade -> Nat]
          BY DEF TypeOK
        <5>3. price[p][current[p]] \in Nat
          BY <5>1, <5>2, Zenon
        <5> QED
          BY <5>1, <5>3, OrdersAssumption
      <4>2. PICK m \in BOOLEAN : call'[d] =
              [pc |-> "posted", via |-> "cashfree", named |-> m, product |-> p,
               obj |-> current[p], charge |-> price[p][current[p]], shown |-> 0]
        BY <2>3, <3>4 DEF Post, TypeOK
      <4>3. call'[d] \in PostedType
        BY <4>1, <4>2 DEF PostedType, Vias
      <4> QED
        BY <2>1, <2>3, <4>2, <4>3 DEF Quiet
    <3> QED
      BY <3>1, <3>2, <3>3, <3>4
  <2> QED
    BY <2>2, <2>3
<1>2. ASSUME NEW c \in Calls, Reply(c) \/ Fail(c) PROVE Goal
  <2>1. CASE c # d
    BY <1>2, <2>1 DEF Reply, Fail, TypeOK
  <2>2. CASE c = d
    <3>1. Suspended(d) /\ call[d] \in PostedType /\ orders' = orders
      BY <1>2, <2>2 DEF Reply, Fail, TypeOK, CallType, PostedType, Suspended, Idle, Rejected
    <3>2. \/ d \in orders /\ call'[d] = [call[d] EXCEPT !.pc = "replied", !.shown = ShownPrice(d)]
          \/ call'[d] = [call[d] EXCEPT !.pc = "failed"]
      BY <1>2, <2>2 DEF Reply, Fail, TypeOK
    <3> QED
      BY <3>1, <3>2 DEF PostedType
  <2> QED
    BY <2>1, <2>2
<1>3. ASSUME \/ \E c \in Calls : GatewayCreates(c)
             \/ \E p \in Products :
                   RemoveProduct(p) \/ \E v \in Prices : AddProduct(p, v) \/ UpdateProduct(p, v)
             \/ UNCHANGED vars
      PROVE  Goal
  BY <1>3 DEF GatewayCreates, RemoveProduct, AddProduct, UpdateProduct, catalogue, vars
<1> QED
  BY <1>1, <1>2, <1>3 DEF Next

(* Answers match the gateways: an answer waits for its order, and a        *)
(* rejected request never reaches a gateway.                               *)
THEOREM AnswersMatch == Spec => []OrdersMatchAnswers
<1>1. Init => OrdersMatchAnswers
  BY DEF Init, OrdersMatchAnswers, Replied, Posted, Idle
<1>2. TypeOK /\ OrdersMatchAnswers /\ [Next]_vars => OrdersMatchAnswers'
  <2> SUFFICES ASSUME TypeOK, OrdersMatchAnswers, [Next]_vars, NEW d \in Calls
               PROVE  (Replied(d) => d \in orders)' /\ (d \in orders => Posted(d))'
    BY DEF OrdersMatchAnswers
  <2>1. orders \subseteq orders' /\ (d \in orders' => d \in orders \/ GatewayCreates(d))
    BY DEF Next, CashfreeRequest, RazorpayRequest, ManagerRequest,
           GatewayCreates, Reply, Fail, RemoveProduct, AddProduct, UpdateProduct, vars
  <2>2. CASE call'[d] = call[d]
    BY <2>1, <2>2 DEF OrdersMatchAnswers, Replied, Posted, GatewayCreates, Suspended
  <2>3. CASE call[d] = Idle /\ orders' = orders
             /\ (call'[d] = Rejected \/ call'[d].pc = "posted")
    BY <2>3 DEF OrdersMatchAnswers, Replied, Posted, Idle, Rejected
  <2>4. CASE orders' = orders
             /\ ((call'[d].pc = "replied" /\ d \in orders) \/ call'[d].pc = "failed")
    BY <2>4 DEF Replied, Posted
  <2> QED
    BY <2>2, <2>3, <2>4, CallStep
<1> QED
  BY <1>1, <1>2, TypeCorrect, PTL DEF Spec

-----------------------------------------------------------------------------
(* Why the gateways agree: until it is edited a built-in product is the    *)
(* first object made for it, at its base price, and an unlisted one has    *)
(* none; every route charges that price unless the client names another.   *)
CatalogueKept ==
  \A p \in Products \ edited :
    IF p \in Listed THEN current[p] = 1 /\ price[p][1] = BasePrice[p]
                    ELSE current[p] = 0

ChargedBasePrice(c) ==
  Posted(c) /\ ~call[c].named =>
    call[c].product \in edited \/ call[c].charge = BasePrice[call[c].product]

UnnamedAtBasePrice == \A c \in Calls : ChargedBasePrice(c)

(* An unedited product keeps its object and its price.                     *)
LEMMA CatalogueStep ==
  ASSUME TypeOK, CatalogueKept, [Next]_vars
  PROVE  CatalogueKept' /\ edited \subseteq edited'
<1> DEFINE Goal == CatalogueKept' /\ edited \subseteq edited'
<1>0. Listed \subseteq Products /\ 1 \in 1..MaxMade
  BY OrdersAssumption
<1>1. ASSUME UNCHANGED <<current, price, edited>> PROVE Goal
  BY <1>1 DEF CatalogueKept
<1>2. ASSUME NEW c \in Calls, NEW p \in Products,
             \/ CashfreeRequest(c, p)
             \/ \E given \in SUBSET Fields, a \in Amounts : RazorpayRequest(c, p, given, a)
             \/ \E via \in Vias : ManagerRequest(c, p, via)
      PROVE  Goal
  BY <1>1, <1>2, RequestCases DEF Quiet
<1>3. ASSUME NEW c \in Calls, GatewayCreates(c) \/ Reply(c) \/ Fail(c) PROVE Goal
  BY <1>1, <1>3 DEF GatewayCreates, Reply, Fail, catalogue, history
<1>4. ASSUME NEW p \in Products, NEW v \in Prices, AddProduct(p, v) \/ UpdateProduct(p, v)
      PROVE  Goal
  <2>1. edited' = edited \cup {p}
    BY <1>4 DEF AddProduct, UpdateProduct
  <2>2. \A q \in Products \ {p} : current'[q] = current[q] /\ price'[q] = price[q]
    BY <1>4 DEF AddProduct, UpdateProduct, TypeOK
  <2> QED
    BY <1>0, <2>1, <2>2 DEF CatalogueKept
<1>5. ASSUME NEW p \in Products, RemoveProduct(p) PROVE Goal
  <2>1. edited' = edited \cup {p} /\ price' = price
    BY <1>5 DEF RemoveProduct
  <2>2. \A q \in Products \ {p} : current'[q] = current[q]
    BY <1>5 DEF RemoveProduct, TypeOK
  <2> QED
    BY <1>0, <2>1, <2>2 DEF CatalogueKept
<1>6. CASE UNCHANGED vars
  BY <1>1, <1>6 DEF vars
<1> QED
  BY <1>2, <1>3, <1>4, <1>5, <1>6 DEF Next

(* Without an amount of the client's, a request is posted at the base      *)
(* price, or after an edit.                                                *)
LEMMA UnnamedPost ==
  ASSUME TypeOK, CatalogueKept, NEW c \in Calls, NEW p \in Products,
         \/ CashfreeRequest(c, p)
         \/ \E given \in SUBSET Fields, a \in Amounts : RazorpayRequest(c, p, given, a)
         \/ \E via \in Vias : ManagerRequest(c, p, via)
  PROVE  \/ call'[c] = Rejected
         \/ call'[c].named = TRUE
         \/ call'[c].product = p /\ (p \in edited \/ call'[c].charge = BasePrice[p])
<1> DEFINE Goal == \/ call'[c] = Rejected
                   \/ call'[c].named = TRUE
                   \/ call'[c].product = p /\ (p \in edited \/ call'[c].charge = BasePrice[p])
<1>1. ASSUME Reject(c) PROVE Goal
  BY <1>1 DEF Reject, TypeOK
<1>2. ASSUME CashfreeCreateOrder(c, p) PROVE Goal
  <2>1. CASE current[p] = 0
    BY <1>1, <1>2, <2>1 DEF CashfreeCreateOrder
  <2>2. CASE current[p] # 0
    <3>1. /\ call'[c].product = p
          /\ call'[c].charge = price[p][current[p]]
      BY <1>2, <2>2 DEF CashfreeCreateOrder, Post, TypeOK
    <3> QED
      BY <2>2, <3>1 DEF CatalogueKept
  <2> QED
    BY <2>1, <2>2
<1>3. ASSUME NEW given \in SUBSET Fields, NEW a \in Nat, NEW named \in BOOLEAN,
             RazorpayCreateOrder(c, p, given, a, named),
             named \/ a = 0 \/ (p \in Listed => a = BasePrice[p])
      PROVE  Goal
  <2>1. CASE p \notin Listed
    BY <1>1, <1>3, <2>1 DEF RazorpayCreateOrder
  <2>2. CASE p \in Listed
    <3>1. /\ call'[c].product = p
          /\ call'[c].named = named
          /\ call'[c].charge = RazorpayAmount(p, given, a)
      BY <1>3, <2>2 DEF RazorpayCreateOrder, Post, TypeOK
    <3>2. named \/ RazorpayAmount(p, given, a) = BasePrice[p]
      BY <1>3, <2>2 DEF RazorpayAmount
    <3> QED
      BY <3>1, <3>2
  <2> QED
    BY <2>1, <2>2
<1>4. ASSUME NEW given \in SUBSET Fields, NEW a \in Amounts, RazorpayRequest(c, p, given, a)
      PROVE  Goal
  <2>1. CASE Validated(given)
    BY <1>3, <1>4, <2>1, OrdersAssumption DEF RazorpayRequest
  <2>2. CASE ~Validated(given)
    BY <1>1, <1>4, <2>2 DEF RazorpayRequest
  <2> QED
    BY <2>1, <2>2
<1>5. ASSUME NEW via \in Vias, ManagerRequest(c, p, via) PROVE Goal
  <2>1. CASE p \notin Listed
    BY <1>1, <1>5, <2>1 DEF ManagerRequest
  <2>2. CASE p \in Listed
    <3>1. BasePrice[p] \in Nat
      BY <2>2, OrdersAssumption
    <3> QED
      BY <1>2, <1>3, <1>5, <2>2, <3>1 DEF ManagerRequest
  <2> QED
    BY <2>1, <2>2
<1>6. ASSUME CashfreeRequest(c, p) PROVE Goal
  BY <1>2, <1>6 DEF CashfreeRequest
<1> QED
  BY <1>4, <1>5, <1>6

(* By whichever route it is ordered, an unedited product costs the same    *)
(* for everybody who names no amount.                                      *)
THEOREM GatewaysAgree == Spec => []GatewaysAgreeUntilEdited
<1>1. Init => CatalogueKept /\ UnnamedAtBasePrice
  <2> SUFFICES ASSUME Init PROVE CatalogueKept /\ UnnamedAtBasePrice
    OBVIOUS
  <2>1. CatalogueKept
    <3> SUFFICES ASSUME NEW p \in Products
                 PROVE  IF p \in Listed THEN current[p] = 1 /\ price[p][1] = BasePrice[p]
                                        ELSE current[p] = 0
      BY DEF CatalogueKept
    <3>1. p \in Products /\ 1 \in 1..MaxMade
      BY OrdersAssumption
    <3>2. price[p] = [n \in 1..MaxMade |-> IF p \in Listed /\ n = 1 THEN BasePrice[p] ELSE 0]
      BY <3>1 DEF Init
    <3> QED
      BY <3>1, <3>2 DEF Init
  <2>2. UnnamedAtBasePrice
    BY DEF Init, UnnamedAtBasePrice, ChargedBasePrice, Posted, Idle
  <2> QED
    BY <2>1, <2>2
<1>2. TypeOK /\ CatalogueKept /\ UnnamedAtBasePrice /\ [Next]_vars => UnnamedAtBasePrice'
  <2> SUFFICES ASSUME TypeOK, CatalogueKept, UnnamedAtBasePrice, [Next]_vars, NEW d \in Calls
               PROVE  ChargedBasePrice(d)'
    BY DEF UnnamedAtBasePrice
  <2>1. CatalogueKept' /\ edited \subseteq edited'
    BY CatalogueStep
  <2>2. CASE call'[d] = call[d]
    BY <2>1, <2>2 DEF UnnamedAtBasePrice, ChargedBasePrice, Posted
  <2>3. CASE /\ Suspended(d)
             /\ call'[d].named = call[d].named
             /\ call'[d].product = call[d].product
             /\ call'[d].charge = call[d].charge
    BY <2>1, <2>3 DEF UnnamedAtBasePrice, ChargedBasePrice, Posted, Suspended
  <2>4. CASE call'[d] = Rejected
    BY <2>1, <2>4 DEF ChargedBasePrice, Posted, Rejected
  <2>5. CASE call[d] = Idle /\ call'[d].pc = "posted"
    <3>1. ASSUME NEW c \in Calls, NEW p \in Products,
                 \/ CashfreeRequest(c, p)
                 \/ \E given \in SUBSET Fields, a \in Amounts : RazorpayRequest(c, p, given, a)
                 \/ \E via \in Vias : ManagerRequest(c, p, via)
          PROVE  ChargedBasePrice(d)'
      <4>1. c = d
        <5>1. c # d => call'[d] = call[d]
          BY <3>1, RequestCases DEF Post, Reject, TypeOK
        <5> QED
          BY <2>5, <5>1 DEF Idle
      <4> QED
        BY <2>1, <2>4, <2>5, <3>1, <4>1, UnnamedPost DEF ChargedBasePrice
    <3>2. ASSUME NEW c \in Calls, Reply(c) \/ Fail(c) PROVE FALSE
      <4>1. c # d
        BY <2>5, <3>2 DEF Reply, Fail, Suspended, Idle
      <4> QED
        BY <2>5, <3>2, <4>1 DEF Reply, Fail, TypeOK, Idle
    <3>3. ASSUME \/ \E c \in Calls : GatewayCreates(c)
                 \/ \E p \in Products :
                       RemoveProduct(p) \/ \E v \in Prices : AddProduct(p, v) \/ UpdateProduct(p, v)
                 \/ UNCHANGED vars
          PROVE  FALSE
      BY <2>5, <3>3 DEF GatewayCreates, RemoveProduct, AddProduct, UpdateProduct, catalogue, vars, Idle
    <3> QED
      BY <2>1, <3>1, <3>2, <3>3 DEF Next
  <2> QED
    BY <2>2, <2>3, <2>4, <2>5, CallStep
<1>3. UnnamedAtBasePrice => GatewaysAgreeUntilEdited
  BY DEF UnnamedAtBasePrice, ChargedBasePrice, GatewaysAgreeUntilEdited
<1> QED
  BY <1>1, <1>2, <1>3, CatalogueStep, TypeCorrect, PTL DEF Spec
=============================================================================
