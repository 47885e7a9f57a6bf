----------------------- MODULE RazorpayCheckoutProofs -----------------------
(***************************************************************************)
(* Proofs about a purchase through Razorpay, for any set of orders and any *)
(* bounds on failures and crashes.                                         *)
(***************************************************************************)
EXTENDS RazorpayCheckout, FiniteSetTheorems, TLAPS

(* The order in hand exists from the moment the page leaves the request    *)
(* for it.                                                                 *)
InHand ==
  /\ created \subseteq Orders
  /\ order \in created \cup {NoOrder}
  /\ authorized \subseteq created
  /\ phase \in {"paying", "verifying", "thanked", "refused"} => order # NoOrder
  /\ phase = "choosing" => order = NoOrder

LEMMA InHandInductive == Spec => []InHand
<1>1. Init => InHand
  BY DEF Init, InHand
<1>2. InHand /\ [Next]_vars => InHand'
  <2> SUFFICES ASSUME InHand, [Next]_vars PROVE InHand'
    OBVIOUS
  <2> USE CheckoutAssumption DEF InHand, Calm, Fails, purchase
  <2>1. CASE CreateOrder \/ OrderAnswered \/ OrderFails
    BY <2>1 DEF CreateOrder, OrderAnswered, OrderFails
  <2>2. ASSUME NEW o \in Orders, OrderCreated(o) PROVE InHand'
    BY <2>2 DEF OrderCreated
  <2>3. ASSUME NEW o \in Orders, Capture(o) PROVE InHand'
    BY <2>3 DEF Capture
  <2>4. CASE PaymentFails \/ PipelineStep
    BY <2>4 DEF PaymentFails, PipelineStep
  <2>5. CASE Authorize
    BY <2>5 DEF Authorize
  <2>6. CASE VerifyPayment \/ VerificationFails \/ FetchFails \/ VerifiedUnheard \/ Unreachable
    BY <2>6 DEF VerifyPayment, VerificationFails, FetchFails, VerifiedUnheard, Unreachable
  <2>7. CASE Answer \/ StartOver
    BY <2>7 DEF Answer, FetchPaymentDetails, Verified, StartOver
  <2>8. CASE Crash
    BY <2>8 DEF Crash
  <2>9. CASE UNCHANGED vars
    BY <2>9 DEF vars
  <2> QED
    BY <2>1, <2>2, <2>3, <2>4, <2>5, <2>6, <2>7, <2>8, <2>9 DEF Next
<1> QED
  BY <1>1, <1>2, PTL DEF Spec

-----------------------------------------------------------------------------
(* A purchase is a behaviour the pipeline was specified for: every request *)
(* of the page leaves the pipeline alone, and every attempt and capture is *)
(* of an order that exists.                                                *)
LEMMA ImplementsPipeline == Spec => RefinesPipeline
<1>1. Init => Pipeline!Init
  BY DEF Init
<1>2. InHand /\ [Next]_vars => [Pipeline!Next]_Pipeline!vars
  <2> SUFFICES ASSUME InHand, [Next]_vars PROVE Pipeline!Next \/ UNCHANGED pipeline
    BY DEF pipeline, Pipeline!vars
  <2>1. CASE \/ CreateOrder \/ OrderAnswered \/ OrderFails
             \/ \E o \in Orders : OrderCreated(o)
    BY <2>1 DEF CreateOrder, OrderAnswered, OrderFails, OrderCreated, Calm, Fails
  <2>2. CASE \/ VerifyPayment \/ VerificationFails \/ FetchFails \/ VerifiedUnheard
             \/ Unreachable \/ Answer \/ StartOver
    BY <2>2 DEF VerifyPayment, VerificationFails, FetchFails, VerifiedUnheard,
       Unreachable, Answer, FetchPaymentDetails, Verified, StartOver, Calm, Fails
  <2>3. CASE PaymentFails \/ Authorize
    <3>1. phase = "paying" => order \in Orders
      BY DEF InHand
    <3>2. \E e \in Pipeline!Pending : Pipeline!Attempt(order, e)
      BY <2>3 DEF PaymentFails, Authorize, Pipeline!Pending
    <3> QED
      BY <2>3, <3>1, <3>2 DEF PaymentFails, Authorize, Pipeline!Next
  <2>4. CASE \E o \in Orders : Capture(o)
    BY <2>4 DEF Capture, Pipeline!Next
  <2>5. CASE Crash \/ PipelineStep
    BY <2>5 DEF Crash, PipelineStep, Pipeline!Next
  <2>6. CASE UNCHANGED vars
    BY <2>6 DEF vars
  <2> QED
    BY <2>1, <2>2, <2>3, <2>4, <2>5, <2>6 DEF Next
<1> QED
  BY <1>1, <1>2, InHandInductive, PTL DEF Spec, RefinesPipeline, Pipeline!Spec

-----------------------------------------------------------------------------
Spent == failures + crashes

(* Why ChargesExplained holds.  Every order but the one in hand is         *)
(* explained by a failure or a crash of its own; the one in hand is as     *)
(* soon as the page believes the purchase failed, and already while the    *)
(* process is down, when the page is about to.                             *)
Explained ==
  /\ failures \in Nat /\ crashes \in Nat
  /\ IsFiniteSet(created)
  /\ Cardinality(created \ {order}) <= Spent
  /\ phase = "refused" \/ (phase = "paying" /\ ~up)
       => Cardinality(created \ {order}) + 1 <= Spent
  /\ phase \in {"ordering", "verifying"} => up

(* Taking one member more out of a finite set, or putting one more in,     *)
(* changes its size by at most one.                                        *)
LEMMA WithoutOne ==
  ASSUME NEW S, IsFiniteSet(S), NEW x
  PROVE  /\ Cardinality(S) \in Nat /\ Cardinality(S \ {x}) \in Nat
         /\ Cardinality(S) <= Cardinality(S \ {x}) + 1
         /\ Cardinality(S \ {x}) <= Cardinality(S)
<1>1. /\ IsFiniteSet(S \ {x})
      /\ Cardinality(S \ {x}) = IF x \in S THEN Cardinality(S) - 1 ELSE Cardinality(S)
  BY FS_RemoveElement
<1> QED
  BY <1>1, FS_CardinalityType

(* One step of the purchase keeps the account.                             *)
LEMMA ExplainedStep ==
  ASSUME InHand, Explained, [Next]_vars
  PROVE  Explained'
<1> USE DEF Spent
<1>0. /\ Cardinality(created) \in Nat
      /\ Cardinality(created \ {order}) \in Nat
      /\ Cardinality(created) <= Cardinality(created \ {order}) + 1
  BY WithoutOne DEF Explained
<1>n. created \ {NoOrder} = created
  BY CheckoutAssumption DEF InHand
<1>1. CASE CreateOrder \/ OrderAnswered
  <2>1. CASE CreateOrder
    <3>1. order \notin created
      BY <1>n, <2>1 DEF CreateOrder, InHand
    <3> QED
      BY <2>1, <3>1 DEF Explained, CreateOrder, Calm, pipeline
  <2>2. CASE OrderAnswered
    <3>1. phase = "ordering" /\ phase' = "paying"
          /\ UNCHANGED <<order, created, failures, crashes, up>>
      BY <2>2 DEF OrderAnswered, Calm, pipeline
    <3> QED
      BY <3>1 DEF Explained
  <2> QED
    BY <1>1, <2>1, <2>2
<1>2. CASE OrderFails
  BY <1>2, <1>0, <1>n DEF Explained, OrderFails, Fails, pipeline
<1>3. ASSUME NEW o \in Orders, OrderCreated(o) PROVE Explained'
  <2>1. o \notin created /\ order = NoOrder
    BY <1>3 DEF OrderCreated, InHand
  <2>2. created' \ {order'} = created /\ created \ {order} = created
    BY <1>3, <2>1, <1>n DEF OrderCreated
  <2>3. IsFiniteSet(created')
    BY <1>3, FS_AddElement DEF OrderCreated, Explained
  <2>4. phase = "ordering" /\ UNCHANGED <<phase, failures, crashes, up>>
    BY <1>3 DEF OrderCreated, Calm, pipeline
  <2> QED
    BY <2>2, <2>3, <2>4 DEF Explained
<1>4. CASE PaymentFails
  BY <1>4 DEF Explained, PaymentFails, purchase, Pipeline!Attempt
<1>5. CASE Authorize
  <2>1. created' \ {order'} = created \ {order}
    BY <1>5 DEF Authorize
  <2>2. created' = created
    BY <1>5 DEF Authorize
  <2>3. UNCHANGED <<phase, order, failures, crashes, up>> /\ phase = "paying"
    BY <1>5 DEF Authorize, Pipeline!Attempt
  <2> QED
    BY <2>1, <2>2, <2>3 DEF Explained
<1>6. ASSUME NEW o \in Orders, Capture(o) PROVE Explained'
  BY <1>6 DEF Explained, Capture, purchase, Pipeline!Capture
<1>7. CASE VerifyPayment \/ Answer
  BY <1>7, <1>0 DEF Explained, VerifyPayment, Answer, FetchPaymentDetails, Verified, Calm, pipeline
<1>8. CASE VerificationFails \/ FetchFails \/ VerifiedUnheard
  BY <1>8, <1>0 DEF Explained, VerificationFails, FetchFails, VerifiedUnheard, Fails, pipeline
<1>9. CASE Unreachable
  BY <1>9 DEF Explained, Unreachable, Calm, pipeline
<1>10. CASE StartOver
  BY <1>10, <1>0, <1>n DEF Explained, StartOver, Calm, pipeline
<1>11. CASE Crash
  <2>1. /\ crashes' = crashes + 1 /\ ~up' /\ UNCHANGED <<created, failures>>
    BY <1>11 DEF Crash, Pipeline!Crash
  <2>2. CASE phase = "ordering"
    <3>1. phase' = "choosing" /\ order' = NoOrder
      BY <1>11, <2>2 DEF Crash
    <3> QED
      BY <2>1, <3>1, <1>0, <1>n DEF Explained
  <2>3. CASE phase # "ordering"
    <3>1. order' = order /\ phase' \notin {"ordering", "verifying"}
      BY <1>11, <2>3 DEF Crash
    <3> QED
      BY <2>1, <3>1, <1>0 DEF Explained
  <2> QED
    BY <2>2, <2>3
<1>12. CASE PipelineStep
  <2>1. UNCHANGED <<purchase, crashes>> /\ (up => up')
    <3>1. UNCHANGED purchase
      BY <1>12 DEF PipelineStep
    <3>2. CASE Pipeline!Restart
      BY <3>1, <3>2 DEF Pipeline!Restart
    <3>3. ASSUME NEW o \in Orders, Pipeline!Mail(o) PROVE UNCHANGED <<crashes, up>>
      BY <3>3 DEF Pipeline!Mail, Pipeline!MailSent, Pipeline!MailFails
    <3>4. ASSUME NEW o \in Orders, NEW e \in Pipeline!Events, Pipeline!Webhook(o, e)
          PROVE  UNCHANGED <<crashes, up>>
      BY <3>4 DEF Pipeline!Webhook, Pipeline!HandleWebhook,
         Pipeline!HandleWebhookReplyLost, Pipeline!RefuseWebhook
    <3>5. ASSUME NEW o \in Orders, NEW e \in Pipeline!Events,
                 Pipeline!GiveUp(o, e) \/ Pipeline!Abandon(o, e)
          PROVE  UNCHANGED <<crashes, up>>
      BY <3>5 DEF Pipeline!GiveUp, Pipeline!Abandon
    <3> QED
      BY <1>12, <3>1, <3>2, <3>3, <3>4, <3>5 DEF PipelineStep
  <2> QED
    BY <2>1 DEF Explained, purchase
<1>13. CASE UNCHANGED vars
  BY <1>13 DEF Explained, vars, purchase, pipeline
<1> QED
  BY <1>1, <1>2, <1>3, <1>4, <1>5, <1>6, <1>7, <1>8, <1>9, <1>10, <1>11, <1>12, <1>13
     DEF Next

(* However often the customer starts over, at most one order more exists   *)
(* than requests fail and the process crashes, and so at most one charge.  *)
THEOREM ChargesAreExplained == Spec => []ChargesExplained
<1>1. Init => Explained
  BY FS_EmptySet DEF Init, Pipeline!Init, Explained, Spent
<1>2. InHand /\ Explained /\ [Next]_vars => Explained'
  BY ExplainedStep
<1>3. InHand /\ Explained => ChargesExplained
  <2> SUFFICES ASSUME InHand, Explained PROVE ChargesExplained
    OBVIOUS
  <2>1. /\ Cardinality(created) \in Nat /\ Cardinality(created \ {order}) \in Nat
        /\ Cardinality(created) <= Cardinality(created \ {order}) + 1
    BY WithoutOne DEF Explained
  <2> QED
    BY <2>1 DEF InHand, Explained, Spent, ChargesExplained
<1> QED
  BY <1>1, <1>2, <1>3, InHandInductive, PTL DEF Spec

-----------------------------------------------------------------------------
(* What is proved of the pipeline alone holds of it within a purchase.     *)
Proven == INSTANCE RazorpayWebhookProofs

LEMMA PipelineProven == Spec => [](Pipeline!TypeOK /\ Pipeline!NoticesAccounted)
<1> USE DEF Pipeline!Events, Proven!Events, Pipeline!Pending, Proven!Pending,
    Pipeline!OrderPaid, Proven!OrderPaid, Pipeline!Captured, Proven!Captured
<1>1. Proven!RazorpayAssumption
  BY CheckoutAssumption DEF Pipeline!RazorpayAssumption, Proven!RazorpayAssumption
<1>2. Proven!Spec => []Proven!TypeOK
  BY <1>1, Proven!TypeCorrect
<1>3. Proven!Spec => []Proven!NoticesAccounted
  BY <1>1, Proven!NoticesAreAccounted
<1>4. Pipeline!Init => Proven!Init
  BY DEF Pipeline!Init, Proven!Init, Pipeline!None, Proven!None
<1>5. [Pipeline!Next]_Pipeline!vars => [Proven!Next]_Proven!vars
  BY DEF Pipeline!Attempt, Proven!Attempt, Pipeline!Capture, Proven!Capture,
         Pipeline!GiveUp, Proven!GiveUp, Pipeline!Abandon, Proven!Abandon,
         Pipeline!SignatureMatches, Proven!SignatureMatches, Pipeline!StartsMail,
         Proven!StartsMail, Pipeline!HandleWebhookEvents, Proven!HandleWebhookEvents,
         Pipeline!HandleWebhook, Proven!HandleWebhook,
         Pipeline!HandleWebhookReplyLost, Proven!HandleWebhookReplyLost,
         Pipeline!RefuseWebhook, Proven!RefuseWebhook, Pipeline!MailSent,
         Proven!MailSent, Pipeline!MailFails, Proven!MailFails, Pipeline!Crash,
         Proven!Crash, Pipeline!Restart, Proven!Restart, Pipeline!Webhook,
         Proven!Webhook, Pipeline!Mail, Proven!Mail, Pipeline!Next, Proven!Next,
         Pipeline!vars, Proven!vars, Pipeline!Fault, Proven!Fault, Pipeline!Inc,
         Proven!Inc, Pipeline!Dec, Proven!Dec, Pipeline!None, Proven!None,
         Pipeline!gateway, Proven!gateway, Pipeline!mails, Proven!mails,
         Pipeline!Announce, Proven!Announce
<1>6. Proven!TypeOK /\ Proven!NoticesAccounted => Pipeline!TypeOK /\ Pipeline!NoticesAccounted
  BY DEF Pipeline!TypeOK, Proven!TypeOK, Pipeline!NoticesAccounted, Proven!NoticesAccounted,
     Pipeline!Started, Proven!Started
<1> QED
  BY <1>2, <1>3, <1>4, <1>5, <1>6, ImplementsPipeline, PTL
     DEF RefinesPipeline, Pipeline!Spec, Proven!Spec

-----------------------------------------------------------------------------
(* What the page and the verification under way know, and that nothing is  *)
(* captured that was not authorised.                                       *)
Known ==
  /\ captured \subseteq authorized
  /\ phase \in {"verifying", "thanked"} => order \in authorized
  /\ phase = "thanked" => details # Unread
  /\ details # Unread => phase \in {"verifying", "thanked"}
  /\ details = "captured" => order \in captured
  /\ details \in {Unread, "authorized", "captured"}
  /\ phase \in {"choosing", "ordering", "paying", "verifying", "thanked", "refused"}
  /\ failures \in 0..MaxFailures

LEMMA KnownInductive == Spec => []Known
<1>1. Init => Known
  BY CheckoutAssumption DEF Init, Pipeline!Init, Known, Unread
<1>2. InHand /\ Known /\ [Next]_vars => Known'
  <2> SUFFICES ASSUME InHand, Known, [Next]_vars PROVE Known'
    OBVIOUS
  <2> USE CheckoutAssumption DEF Known, Calm, Fails, purchase, pipeline, Unread
  <2>1. CASE CreateOrder \/ OrderAnswered \/ OrderFails
    BY <2>1 DEF CreateOrder, OrderAnswered, OrderFails
  <2>2. ASSUME NEW o \in Orders, OrderCreated(o) PROVE Known'
    BY <2>2 DEF OrderCreated
  <2>3. ASSUME NEW o \in Orders, Capture(o) PROVE Known'
    BY <2>3 DEF Capture, Pipeline!Capture
  <2>4. CASE PaymentFails
    BY <2>4 DEF PaymentFails, Pipeline!Attempt
  <2>5. CASE Authorize
    BY <2>5 DEF Authorize, Pipeline!Attempt
  <2>6. CASE VerifyPayment \/ Answer
    BY <2>6 DEF VerifyPayment, Answer, FetchPaymentDetails, Verified
  <2>7. CASE VerificationFails \/ FetchFails \/ VerifiedUnheard \/ Unreachable
    BY <2>7 DEF VerificationFails, FetchFails, VerifiedUnheard, Unreachable
  <2>8. CASE StartOver
    BY <2>8 DEF StartOver
  <2>9. CASE Crash
    BY <2>9 DEF Crash, Pipeline!Crash, Pipeline!gateway
  <2>10. CASE PipelineStep
    <3>1. UNCHANGED purchase
      BY <2>10 DEF PipelineStep
    <3>2. UNCHANGED captured
      BY <2>10 DEF PipelineStep, Pipeline!Restart, Pipeline!Mail, Pipeline!MailSent,
         Pipeline!MailFails, Pipeline!Webhook, Pipeline!HandleWebhook, Pipeline!gateway,
         Pipeline!HandleWebhookReplyLost, Pipeline!RefuseWebhook, Pipeline!GiveUp,
         Pipeline!Abandon
    <3> QED
      BY <3>1, <3>2
  <2>11. CASE UNCHANGED vars
    BY <2>11 DEF vars
  <2> QED
    BY <2>1, <2>2, <2>3, <2>4, <2>5, <2>6, <2>7, <2>8, <2>9, <2>10, <2>11 DEF Next
<1> QED
  BY <1>1, <1>2, InHandInductive, PTL DEF Spec

(* The purchase and the pipeline beneath it stay within their types.       *)
THEOREM TypeCorrect == Spec => []TypeOK
<1>1. InHand /\ Known /\ Pipeline!TypeOK => TypeOK
  BY DEF InHand, Known, TypeOK
<1> QED
  BY <1>1, InHandInductive, KnownInductive, PipelineProven, PTL

(* The page thanks and claims a capture only when that is so, and a mail   *)
(* goes out only for an order that was created, authorised and captured:   *)
(* the pipeline mails nothing before the capture, and a capture follows    *)
(* the authorisation of an order that exists.                              *)
THEOREM ClaimsProven == Spec => []ClaimsAreTrue
<1>1. InHand /\ Known /\ Pipeline!TypeOK /\ Pipeline!NoticesAccounted => ClaimsAreTrue
  <2> SUFFICES ASSUME InHand, Known, Pipeline!TypeOK, Pipeline!NoticesAccounted
               PROVE  ClaimsAreTrue
    OBVIOUS
  <2>1. ASSUME NEW o \in Orders, sent[o] + mailing[o] > 0
        PROVE  o \in captured \cap authorized \cap created
    <3>1. sent[o] \in Nat /\ mailing[o] \in Nat /\ lost[o] \in Nat
      BY DEF Pipeline!TypeOK
    <3>2. Pipeline!Started(o) # 0
      BY <2>1, <3>1 DEF Pipeline!Started
    <3>3. o \in captured
      BY <3>2 DEF Pipeline!NoticesAccounted
    <3> QED
      BY <3>3 DEF InHand, Known
  <2> QED
    BY <2>1 DEF Known, ClaimsAreTrue
<1> QED
  BY <1>1, InHandInductive, KnownInductive, PipelineProven, PTL
=============================================================================
