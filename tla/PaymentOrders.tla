--------------------------- MODULE PaymentOrders ----------------------------
(***************************************************************************)
(* Creating orders: CashFreeService.createOrder and its editable catalogue *)
(* (cashfree.service.ts), RazorpayService.createOrder with its fixed one   *)
(* (razorpay.service.ts), and PaymentManager, which has a third copy of    *)
(* the prices and calls both (payment-manager.ts).                         *)
(*                                                                         *)
(* A Cashfree product is a JavaScript object: createOrder keeps a          *)
(* reference to it across the await of the gateway's answer, while         *)
(* addProduct replaces the catalogue's reference, removeProduct drops it   *)
(* and updateProduct writes into the object.  The n-th object made for     *)
(* product p is <<p, n>>.  Amounts are in paise; the division by 100 sent  *)
(* to Cashfree and back is exact on the amounts the gateway accepts.       *)
(***************************************************************************)
EXTENDS Integers

CONSTANTS Products,   \* product ids a request can name
          Listed,     \* the ids in the three built-in catalogues
          BasePrice,  \* their price
          Prices,     \* prices given to addProduct and updateProduct
          Amounts,    \* amounts a request for a Razorpay order can name
          Calls,      \* requests to create an order
          MaxMade     \* bound: objects made per product

ASSUME OrdersAssumption ==
  /\ Listed \subseteq Products
  /\ BasePrice \in [Listed -> Nat \ {0}]
  /\ Prices \subseteq Nat
  /\ Amounts \subseteq Nat
  /\ MaxMade \in Nat \ {0}

VARIABLES
  current,   \* product -> n of the object the Cashfree catalogue refers to, 0 if none
  made,      \* product -> objects made so far
  price,     \* product -> n -> price held by object <<p, n>>
  call,      \* the state of each request
  orders,    \* calls whose order exists at a gateway
  touched,   \* calls whose product object was written while they were suspended
  edited     \* products whose Cashfree entry was edited

catalogue == <<current, made, price>>
history   == <<touched, edited>>
vars      == <<current, made, price, call, orders, touched, edited>>

Vias   == {"cashfree", "razorpay"}

\* The fields of CreateRazorpayOrderDto: each is @IsNotEmpty and of its type.
Fields == {"amount", "currency", "productId"}

Idle == [pc |-> "idle"]
Rejected == [pc |-> "rejected"]

CallType ==
  {Idle, Rejected} \cup
  [pc : {"posted", "failed", "replied"}, via : Vias, named : BOOLEAN,
   product : Products, obj : Nat, charge : Nat, shown : Nat]

Init ==
  /\ current = [p \in Products |-> IF p \in Listed THEN 1 ELSE 0]
  /\ made = current
  /\ price = [p \in Products |->
                [n \in 1..MaxMade |-> IF p \in Listed /\ n = 1 THEN BasePrice[p] ELSE 0]]
  /\ call = [c \in Calls |-> Idle]
  /\ orders = {}
  /\ touched = {}
  /\ edited = {}

Suspended(c) == call[c].pc = "posted"

\* c posts an order to gateway via and is suspended; named says that its client
\* chose the amount.
Post(c, via, named, p, n, amount) ==
  call' = [call EXCEPT ![c] = [pc |-> "posted", via |-> via, named |-> named,
                               product |-> p, obj |-> n, charge |-> amount, shown |-> 0]]

Reject(c) == call' = [call EXCEPT ![c] = Rejected]

-----------------------------------------------------------------------------
(* Orders. *)

\* createOrder of the Cashfree service: the product is looked up and its price
\* taken before the request is posted.
CashfreeCreateOrder(c, p) ==
  IF current[p] = 0
  THEN Reject(c)
  ELSE Post(c, "cashfree", FALSE, p, current[p], price[p][current[p]])

\* Variant: amount ?? this.products[productId].price
RazorpayAmountNullish(p, given, amount) ==
  IF "amount" \in given THEN amount ELSE BasePrice[p]

\* amount || this.products[productId].price: an amount of 0 counts as none.
RazorpayAmount(p, given, amount) ==
  IF "amount" \in given /\ amount # 0 THEN amount ELSE BasePrice[p]

\* createOrder of the Razorpay service, for a body with the fields given.
RazorpayCreateOrder(c, p, given, amount, named) ==
  IF p \notin Listed
  THEN Reject(c)
  ELSE Post(c, "razorpay", named, p, 0, RazorpayAmount(p, given, amount))

\* POST /cashfree/create-order
CashfreeRequest(c, p) ==
  /\ call[c] = Idle
  /\ CashfreeCreateOrder(c, p)
  /\ UNCHANGED <<catalogue, orders, history>>

\* What the ValidationPipe lets through to the service: no field may be missing,
\* empty or of another type.
Validated(given) == Fields \subseteq given

\* POST /razorpay/order with a body whose fields in given are as the DTO wants
\* them; 400 if the pipe refuses it.
RazorpayRequest(c, p, given, amount) ==
  /\ call[c] = Idle
  /\ IF Validated(given)
     THEN RazorpayCreateOrder(c, p, given, amount, amount # 0)
     ELSE Reject(c)
  /\ UNCHANGED <<catalogue, orders, history>>

\* PaymentManager checks its own catalogue; to Razorpay it passes its price, to
\* Cashfree only the product id.
ManagerRequest(c, p, via) ==
  /\ call[c] = Idle
  /\ IF p \notin Listed
     THEN Reject(c)
     ELSE IF via = "razorpay"
          THEN RazorpayCreateOrder(c, p, Fields, BasePrice[p], FALSE)
          ELSE CashfreeCreateOrder(c, p)
  /\ UNCHANGED <<catalogue, orders, history>>

\* The gateway creates the order; the answer is still on its way, or the
\* connection has broken and the caller has given up.
GatewayCreates(c) ==
  /\ Suspended(c) \/ call[c].pc = "failed"
  /\ c \notin orders
  /\ orders' = orders \cup {c}
  /\ UNCHANGED <<catalogue, call, history>>

\* What the answer says the product costs: Cashfree reads the object it kept,
\* Razorpay the catalogue again.
ShownPrice(c) ==
  IF call[c].via = "cashfree" THEN price[call[c].product][call[c].obj]
                              ELSE BasePrice[call[c].product]

\* Variant: the answer is given without awaiting the gateway's.
ReplyUnawaited(c) ==
  /\ Suspended(c)
  /\ call' = [call EXCEPT ![c].pc = "replied", ![c].shown = ShownPrice(c)]
  /\ UNCHANGED <<catalogue, orders, history>>

Reply(c) ==
  /\ Suspended(c)
  /\ c \in orders
  /\ call' = [call EXCEPT ![c].pc = "replied", ![c].shown = ShownPrice(c)]
  /\ UNCHANGED <<catalogue, orders, history>>

\* The request fails, or its answer is lost before or after the gateway creates
\* the order: the client reads an error and the order stays behind.
Fail(c) ==
  /\ Suspended(c)
  /\ call' = [call EXCEPT ![c].pc = "failed"]
  /\ UNCHANGED <<catalogue, orders, history>>

-----------------------------------------------------------------------------
(* The Cashfree catalogue. *)

\* Variant: a product that exists is overwritten in place.
AddProductInPlace(p, v) ==
  /\ made[p] < MaxMade
  /\ edited' = edited \cup {p}
  /\ IF current[p] > 0
     THEN /\ price' = [price EXCEPT ![p][current[p]] = v]
          /\ UNCHANGED <<current, made>>
     ELSE /\ made' = [made EXCEPT ![p] = @ + 1]
          /\ current' = [current EXCEPT ![p] = made[p] + 1]
          /\ price' = [price EXCEPT ![p][made[p] + 1] = v]
  /\ UNCHANGED <<call, orders, touched>>

\* Variant: the new object is not counted, so the next one takes its place.
AddProductUncounted(p, v) ==
  /\ made[p] < MaxMade
  /\ current' = [current EXCEPT ![p] = made[p] + 1]
  /\ price' = [price EXCEPT ![p][made[p] + 1] = v]
  /\ edited' = edited \cup {p}
  /\ UNCHANGED <<made, call, orders, touched>>

AddProduct(p, v) ==
  /\ made[p] < MaxMade
  /\ made' = [made EXCEPT ![p] = @ + 1]
  /\ current' = [current EXCEPT ![p] = made[p] + 1]
  /\ price' = [price EXCEPT ![p][made[p] + 1] = v]
  /\ edited' = edited \cup {p}
  /\ UNCHANGED <<call, orders, touched>>

RemoveProduct(p) ==
  /\ current[p] > 0
  /\ current' = [current EXCEPT ![p] = 0]
  /\ edited' = edited \cup {p}
  /\ UNCHANGED <<made, price, call, orders, touched>>

\* if (updates.price) ...: a price of 0 is ignored; a missing product throws.
UpdateProduct(p, v) ==
  /\ current[p] > 0
  /\ v > 0
  /\ price' = [price EXCEPT ![p][current[p]] = v]
  /\ touched' = touched \cup
       {c \in Calls : /\ Suspended(c)
                      /\ call[c].via = "cashfree"
                      /\ call[c].product = p
                      /\ call[c].obj = current[p]}
  /\ edited' = edited \cup {p}
  /\ UNCHANGED <<current, made, call, orders>>

-----------------------------------------------------------------------------
Next ==
  \/ \E c \in Calls, p \in Products :
        \/ CashfreeRequest(c, p)
        \/ \E given \in SUBSET Fields, a \in Amounts : RazorpayRequest(c, p, given, a)
        \/ \E via \in Vias : ManagerRequest(c, p, via)
  \/ \E c \in Calls : GatewayCreates(c) \/ Reply(c) \/ Fail(c)
  \/ \E p \in Products :
        \/ RemoveProduct(p)
        \/ \E v \in Prices : AddProduct(p, v) \/ UpdateProduct(p, v)

Spec == Init /\ [][Next]_vars

-----------------------------------------------------------------------------
TypeOK ==
  /\ current \in [Products -> 0..MaxMade]
  /\ made \in [Products -> 0..MaxMade]
  /\ \A p \in Products : current[p] <= made[p]
  /\ price \in [Products -> [1..MaxMade -> Nat]]
  /\ call \in [Calls -> CallType]
  /\ \A c \in Calls : Suspended(c) =>
        IF call[c].via = "cashfree" THEN call[c].obj \in 1..MaxMade
                                    ELSE call[c].product \in Listed
  /\ orders \in SUBSET Calls
  /\ touched \in SUBSET Calls
  /\ edited \in SUBSET Products

Replied(c) == call[c].pc = "replied"
Posted(c)  == call[c].pc \in {"posted", "failed", "replied"}

\* The answer of a Cashfree order shows the price that was charged unless
\* updateProduct wrote into the very product object while the call was
\* suspended; removing the product, or adding it again, does no harm
\* (cashfree.service.ts createOrder keeps the reference over the await).
ShownIsCharged ==
  \A c \in Calls :
    Replied(c) /\ call[c].via = "cashfree" /\ call[c].shown # call[c].charge => c \in touched

\* An answered call has its order at the gateway, and a call rejected by a
\* check has none; only a call that failed after posting can leave an order
\* that its client knows nothing of.
OrdersMatchAnswers ==
  \A c \in Calls :
    /\ Replied(c) => c \in orders
    /\ c \in orders => Posted(c)

\* Whoever orders a product without choosing an amount - directly from either
\* gateway, or through PaymentManager - pays the same, until somebody edits the
\* Cashfree catalogue: that edit reaches only one of the three copies of the
\* prices.  (An amount of 0 posted to Razorpay is no choice: amount || price.)
GatewaysAgreeUntilEdited ==
  \A c, d \in Calls :
    /\ Posted(c) /\ ~call[c].named
    /\ Posted(d) /\ ~call[d].named
    /\ call[c].product = call[d].product
    /\ call[c].charge # call[d].charge
    => call[c].product \in edited

\* The comment in the Razorpay createOrder: "If amount is not provided, use the
\* product's default price" - so a request for a listed product that lacks only
\* the amount is posted, at that price.
MissingAmountUsesDefault ==
  [][\A c \in Calls, p \in Listed, a \in Amounts :
       RazorpayRequest(c, p, Fields \ {"amount"}, a)
         => call'[c].pc = "posted" /\ call'[c].charge = BasePrice[p]]_vars
=============================================================================
