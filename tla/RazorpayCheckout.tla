-------------------------- MODULE RazorpayCheckout --------------------------
(***************************************************************************)
(* A purchase through Razorpay from end to end: POST /razorpay/order, the  *)
(* payment at the gateway, POST /razorpay/verify (razorpay.controller.ts,  *)
(* razorpay.service.ts) and, composed with it, the webhook and mail        *)
(* pipeline of RazorpayWebhook, which shares the process and its crashes.  *)
(*                                                                         *)
(* One customer wants to buy once.  Told that the verification failed, or  *)
(* told nothing, the page may ask again or the customer may start over.    *)
(***************************************************************************)
EXTENDS Naturals, FiniteSets

CONSTANTS Orders, NEndpoints, MaxAttempts, MaxFaults, MaxCrashes, \* as in RazorpayWebhook
          MaxFailures, \* bound: requests of the page, or for it, that fail
          NoOrder         \* no order

VARIABLES
  canonical, withEmail, captured, attempts, due, refused, up, mailing,
  acked, sent, lost, faults, crashes,                    \* as in RazorpayWebhook
  phase,      \* what the customer's page is at
  order,      \* the order it has in hand
  created,    \* orders that exist at the gateway
  authorized, \* orders a payment was authorised for
  details,    \* what the verification under way read of the payment
  failures    \* requests that failed

Pipeline == INSTANCE RazorpayWebhook

ASSUME CheckoutAssumption ==
  /\ NoOrder \notin Orders
  /\ MaxFailures \in Nat
  /\ Pipeline!RazorpayAssumption

purchase == <<phase, order, created, authorized, details, failures>>
pipeline == <<canonical, withEmail, captured, attempts, due, refused, up, mailing,
              acked, sent, lost, faults, crashes>>
vars == <<pipeline, purchase>>

Unread == "unread"

Init ==
  /\ Pipeline!Init
  /\ phase = "choosing"
  /\ order = NoOrder
  /\ created = {}
  /\ authorized = {}
  /\ details = Unread
  /\ failures = 0

\* A request of the page, or one of the service to the gateway, fails.
Fails ==
  /\ failures < MaxFailures
  /\ failures' = failures + 1
  /\ UNCHANGED pipeline

Calm == UNCHANGED <<pipeline, failures>>

-----------------------------------------------------------------------------
(* POST /razorpay/order. *)

\* A request whose body passes the ValidationPipe and names a product.
CreateOrder ==
  /\ phase = "choosing"
  /\ up
  /\ phase' = "ordering"
  /\ Calm
  /\ UNCHANGED <<order, created, authorized, details>>

\* The gateway carries orders.create out.
OrderCreated(o) ==
  /\ phase = "ordering" /\ order = NoOrder
  /\ o \notin created
  /\ created' = created \cup {o}
  /\ order' = o
  /\ Calm
  /\ UNCHANGED <<phase, authorized, details>>

OrderAnswered ==
  /\ phase = "ordering" /\ order # NoOrder
  /\ phase' = "paying"
  /\ Calm
  /\ UNCHANGED <<order, created, authorized, details>>

\* Whatever orders.create throws is answered 400; so may an order be that the
\* gateway has created.
OrderFails ==
  /\ phase = "ordering"
  /\ Fails
  /\ phase' = "choosing"
  /\ order' = NoOrder
  /\ UNCHANGED <<created, authorized, details>>

-----------------------------------------------------------------------------
(* The payment, in the gateway's own window. *)

PaymentFails ==
  /\ phase = "paying"
  /\ Pipeline!Attempt(order, "payment.failed")
  /\ UNCHANGED purchase

\* The page receives a payment id and the signature over both ids.
Authorize ==
  /\ phase = "paying"
  /\ Pipeline!Attempt(order, "payment.authorized")
  /\ authorized' = authorized \cup {order}
  /\ UNCHANGED <<phase, order, created, details, failures>>

\* Captured now, later or never.
Capture(o) ==
  /\ o \in authorized
  /\ Pipeline!Capture(o)
  /\ UNCHANGED purchase

-----------------------------------------------------------------------------
(* POST /razorpay/verify. *)

\* verifyPayment compares the signature with the one over both ids, which only
\* an authorised payment of this order has; then the payment is fetched.
VerifyPayment ==
  /\ phase \in {"paying", "refused"} /\ order \in authorized
  /\ up
  /\ phase' = "verifying"
  /\ Calm
  /\ UNCHANGED <<order, created, authorized, details>>

\* Variant: the result of the comparison is not awaited.
VerificationFailsUnseen ==
  /\ phase \in {"paying", "refused"} /\ order # NoOrder
  /\ up
  /\ Fails
  /\ phase' = "thanked"
  /\ details' = "authorized"
  /\ UNCHANGED <<order, created, authorized>>

\* The page makes a mistake: a field is missing, or the ids are not of one
\* payment.  400, by the ValidationPipe or "Payment verification failed".
VerificationFails ==
  /\ phase \in {"paying", "refused"} /\ order # NoOrder
  /\ up
  /\ Fails
  /\ phase' = "refused"
  /\ UNCHANGED <<order, created, authorized, details>>

\* The gateway answers payments.fetch.
FetchPaymentDetails ==
  /\ phase = "verifying" /\ details = Unread
  /\ details' = IF order \in captured THEN "captured" ELSE "authorized"
  /\ Calm
  /\ UNCHANGED <<phase, order, created, authorized>>

\* fetchPaymentDetails throws BadRequestException: 400 after a verified signature.
FetchFails ==
  /\ phase = "verifying" /\ details = Unread
  /\ Fails
  /\ phase' = "refused"
  /\ UNCHANGED <<order, created, authorized, details>>

\* Variant: only a captured payment is answered as verified.
VerifiedIfCaptured ==
  /\ phase = "verifying" /\ details # Unread
  /\ phase' = IF details = "captured" THEN "thanked" ELSE "refused"
  /\ details' = Unread
  /\ Calm
  /\ UNCHANGED <<order, created, authorized>>

\* "Payment verified successfully", with the details.
Verified ==
  /\ phase = "verifying" /\ details # Unread
  /\ phase' = "thanked"
  /\ Calm
  /\ UNCHANGED <<order, created, authorized, details>>

\* Variant: what was read is kept for the next verification.
VerifiedUnheardKept ==
  /\ phase = "verifying" /\ details # Unread
  /\ Fails
  /\ phase' = "refused"
  /\ UNCHANGED <<order, created, authorized, details>>

\* The answer is lost on its way to the page.
VerifiedUnheard ==
  /\ phase = "verifying" /\ details # Unread
  /\ Fails
  /\ phase' = "refused"
  /\ details' = Unread
  /\ UNCHANGED <<order, created, authorized>>

\* Nobody answers.
Unreachable ==
  /\ phase = "paying" /\ order \in authorized
  /\ ~up
  /\ phase' = "refused"
  /\ Calm
  /\ UNCHANGED <<order, created, authorized, details>>

\* The customer takes the purchase for failed.
StartOver ==
  /\ phase = "refused"
  /\ phase' = "choosing"
  /\ order' = NoOrder
  /\ Calm
  /\ UNCHANGED <<created, authorized, details>>

-----------------------------------------------------------------------------
\* Requests under way are lost with the process.
Crash ==
  /\ Pipeline!Crash
  /\ phase' = CASE phase = "ordering" -> "choosing"
                [] phase = "verifying" -> "refused"
                [] OTHER -> phase
  /\ order' = IF phase = "ordering" THEN NoOrder ELSE order
  /\ details' = IF phase = "verifying" THEN Unread ELSE details
  /\ UNCHANGED <<created, authorized, failures>>

\* The rest of the pipeline goes its way.
PipelineStep ==
  /\ \/ Pipeline!Restart
     \/ \E o \in Orders : Pipeline!Mail(o)
     \/ \E o \in Orders, e \in Pipeline!Events :
          Pipeline!Webhook(o, e) \/ Pipeline!GiveUp(o, e) \/ Pipeline!Abandon(o, e)
  /\ UNCHANGED purchase

Answer == FetchPaymentDetails \/ Verified

Next ==
  \/ CreateOrder \/ OrderAnswered \/ OrderFails
  \/ \E o \in Orders : OrderCreated(o) \/ Capture(o)
  \/ PaymentFails \/ Authorize
  \/ VerifyPayment \/ VerificationFails \/ FetchFails \/ VerifiedUnheard \/ Unreachable
  \/ Answer \/ StartOver
  \/ Crash \/ PipelineStep

Spec == Init /\ [][Next]_vars

-----------------------------------------------------------------------------
TypeOK ==
  /\ Pipeline!TypeOK
  /\ phase \in {"choosing", "ordering", "paying", "verifying", "thanked", "refused"}
  /\ order \in created \cup {NoOrder}
  /\ created \subseteq Orders /\ authorized \subseteq Orders
  /\ details \in {Unread, "authorized", "captured"}
  /\ details # Unread => phase \in {"verifying", "thanked"}
  /\ failures \in 0..MaxFailures

\* A customer who wants to buy once leaves a second order at the gateway, paid or
\* orphaned, only after a failure: every order beyond the first, and so every charge
\* beyond the first, has one failure or crash of its own behind it, among them the
\* failed fetch that is answered 400 although the signature was genuine.
ChargesExplained ==
  /\ authorized \subseteq created
  /\ Cardinality(created) <= 1 + failures + crashes

\* The page thanks only for an authorised payment of the order it has in hand, and
\* only claims a capture that took place; a mail goes out only for an order that
\* went through creation, payment and capture.
ClaimsAreTrue ==
  /\ phase = "thanked" => order \in authorized /\ details # Unread
  /\ details = "captured" => order \in captured
  /\ \A o \in Orders : sent[o] + mailing[o] > 0 => o \in captured \cap authorized \cap created

-----------------------------------------------------------------------------
\* The actions above are those of RazorpayWebhook or leave its variables alone, so
\* what is proved of the pipeline can be used here (RazorpayCheckoutProofs).
RefinesPipeline == Pipeline!Spec
=============================================================================
