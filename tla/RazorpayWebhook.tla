-------------------------- MODULE RazorpayWebhook ---------------------------
(***************************************************************************)
(* The Razorpay confirmation pipeline: the gateway posts signed events to  *)
(* POST /razorpay/webhook (razorpay.controller.ts).  The handler checks    *)
(* the signature against a re-serialisation of the parsed body, hands the  *)
(* event to RazorpayService.handleWebhookEvents (razorpay.service.ts) and  *)
(* answers; order.paid starts a confirmation mail that nobody awaits.      *)
(* Unlike the Cashfree pipeline nothing is read back from the gateway, and *)
(* a refused delivery is answered 500, so the gateway repeats it.          *)
(*                                                                         *)
(* Every event here is a genuine one: signed by the gateway over the bytes *)
(* it sends.                                                               *)
(***************************************************************************)
EXTENDS Integers

CONSTANTS Orders,            \* order ids
          NEndpoints,        \* webhook URLs registered at the gateway
          MaxAttempts,       \* bound: unsuccessful payment attempts per order
          MaxFaults,         \* bound: failures of the environment per order
          MaxCrashes         \* bound: crashes of the service process

ASSUME RazorpayAssumption ==
  /\ NEndpoints \in Nat \ {0}
  /\ MaxAttempts \in Nat
  /\ MaxFaults \in Nat
  /\ MaxCrashes \in Nat

VARIABLES
  canonical, \* <<event, order>> announced in a body that equals JSON.stringify of its parse
  withEmail, \* orders whose captured payment carries the customer's e-mail address
  captured,  \* orders whose payment was captured
  attempts,  \* events of unsuccessful or unfinished attempts, per order
  due,       \* per event and order: deliveries the gateway still has to make
  refused,   \* <<event, order>> answered 500 at least once
  up,        \* is the service process running
  mailing,   \* per order: confirmation mails awaiting the SMTP server
  acked,     \* per order: order.paid deliveries answered "Webhook processed"
  sent,      \* per order: confirmation mails the SMTP server took
  lost,      \* per order: mails ended by an error or a crash
  faults,    \* per order: failures of the environment that struck it
  crashes

gateway == <<canonical, withEmail, captured, attempts>>
mails   == <<mailing, sent, lost>>
vars    == <<canonical, withEmail, captured, attempts, due, refused, up, mailing,
             acked, sent, lost, faults, crashes>>

OrderPaid == "order.paid"
Captured  == "payment.captured"
Pending   == {"payment.failed", "payment.authorized"}
Events    == Pending \cup {OrderPaid, Captured}

None == [o \in Orders |-> 0]
Inc(f, o) == [f EXCEPT ![o] = @ + 1]
Dec(f, o) == [f EXCEPT ![o] = @ - 1]

Init ==
  /\ canonical = {}
  /\ withEmail = {}
  /\ captured = {}
  /\ attempts = None
  /\ due = [e \in Events |-> None]
  /\ refused = {}
  /\ up = TRUE
  /\ mailing = None /\ acked = None /\ sent = None /\ lost = None
  /\ faults = None /\ crashes = 0

\* The environment fails an event or a mail of o once more.
Fault(o) ==
  /\ faults[o] < MaxFaults
  /\ faults' = Inc(faults, o)

-----------------------------------------------------------------------------
(* The gateway. *)

\* The gateway writes the bodies of a payment's events of the kinds es: any of
\* them may be what JSON.stringify prints, or not.
Announce(o, es) ==
  \E forms \in SUBSET es :
    canonical' = (canonical \ (es \X {o})) \cup (forms \X {o})

\* A payment fails or is authorised only; either is announced.  (Deliveries of
\* an earlier attempt of the same kind are taken to have the latest form.)
Attempt(o, e) ==
  /\ o \notin captured
  /\ attempts[o] < MaxAttempts
  /\ attempts' = Inc(attempts, o)
  /\ Announce(o, {e})
  /\ due' = [due EXCEPT ![e][o] = @ + NEndpoints]
  /\ UNCHANGED <<withEmail, captured, refused, up, acked, faults, crashes>>
  /\ UNCHANGED mails

\* The payment is captured: two events announce it to every registered URL.
\* The payment may carry an address or not.
Capture(o) ==
  /\ o \notin captured
  /\ captured' = captured \cup {o}
  /\ Announce(o, {OrderPaid, Captured})
  /\ withEmail' \in {withEmail, withEmail \cup {o}}
  /\ due' = [due EXCEPT ![OrderPaid][o] = NEndpoints, ![Captured][o] = NEndpoints]
  /\ UNCHANGED <<attempts, refused, up, acked, faults, crashes>>
  /\ UNCHANGED mails

\* The gateway's retries of a delivery nobody answered are used up.
GiveUp(o, e) ==
  /\ ~up
  /\ due[e][o] > 0
  /\ Fault(o)
  /\ due' = [due EXCEPT ![e][o] = @ - 1]
  /\ UNCHANGED <<refused, up, acked, crashes>>
  /\ UNCHANGED <<gateway, mails>>

\* The same for a delivery that is refused whenever it is made.
Abandon(o, e) ==
  /\ <<e, o>> \in refused
  /\ due[e][o] > 0
  /\ due' = [due EXCEPT ![e][o] = @ - 1]
  /\ UNCHANGED <<refused, up, acked, faults, crashes>>
  /\ UNCHANGED <<gateway, mails>>

-----------------------------------------------------------------------------
(* The service. *)

\* The digest is computed over JSON.stringify(body), the signature over the
\* bytes received: they agree only if parsing and printing gives these back.
\* Each event has a body of its own, so of the two events that announce a
\* payment one may pass and the other not.
SignatureMatches(o, e) == <<e, o>> \in canonical

\* Variants of StartsMail: both events that announce a payment mail, the event
\* name misspelt, and the event of a failed payment handled like a success,
\* without a look for an address.
StartsMailBoth(o, e) == e \in {OrderPaid, Captured} /\ o \in withEmail
StartsMailNever(o, e) == e = "order_paid" /\ o \in withEmail
StartsMailFailed(o, e) == e = "payment.failed" \/ (e = OrderPaid /\ o \in withEmail)

\* handlePaymentSuccessEvent runs for order.paid only, and mails only if the
\* payment entity has an address; the other handlers log.
StartsMail(o, e) == e = OrderPaid /\ o \in withEmail

\* handleWebhookEvents: the mail is started, not awaited.
HandleWebhookEvents(o, e) ==
  mailing' = IF StartsMail(o, e) THEN Inc(mailing, o) ELSE mailing

\* The event is accepted and answered; the gateway retires the delivery.
HandleWebhook(o, e) ==
  /\ up
  /\ due[e][o] > 0
  /\ SignatureMatches(o, e)
  /\ HandleWebhookEvents(o, e)
  /\ due' = [due EXCEPT ![e][o] = @ - 1]
  /\ acked' = IF e = OrderPaid THEN Inc(acked, o) ELSE acked
  /\ UNCHANGED <<refused, up, sent, lost, faults, crashes>>
  /\ UNCHANGED gateway

\* As HandleWebhook, but the answer is lost and the delivery will be repeated.
HandleWebhookReplyLost(o, e) ==
  /\ up
  /\ due[e][o] > 0
  /\ SignatureMatches(o, e)
  /\ Fault(o)
  /\ HandleWebhookEvents(o, e)
  /\ UNCHANGED <<due, refused, up, acked, sent, lost, crashes>>
  /\ UNCHANGED gateway

\* "Invalid signature" is thrown, which the exception filter answers with 500.
RefuseWebhook(o, e) ==
  /\ up
  /\ due[e][o] > 0
  /\ ~SignatureMatches(o, e)
  /\ refused' = refused \cup {<<e, o>>}
  /\ UNCHANGED <<due, up, acked, faults, crashes>>
  /\ UNCHANGED <<gateway, mails>>

\* Variant: the mail is answered for twice.
MailSentTwice(o) ==
  /\ mailing[o] > 0
  /\ mailing' = [mailing EXCEPT ![o] = @ - 2]
  /\ sent' = Inc(sent, o)
  /\ UNCHANGED <<due, refused, up, acked, lost, faults, crashes>>
  /\ UNCHANGED gateway

MailSent(o) ==
  /\ mailing[o] > 0
  /\ mailing' = Dec(mailing, o)
  /\ sent' = Inc(sent, o)
  /\ UNCHANGED <<due, refused, up, acked, lost, faults, crashes>>
  /\ UNCHANGED gateway

\* sendEmail turns every error into the result false, which nobody reads.
MailFails(o) ==
  /\ mailing[o] > 0
  /\ Fault(o)
  /\ mailing' = Dec(mailing, o)
  /\ lost' = Inc(lost, o)
  /\ UNCHANGED <<due, refused, up, acked, sent, crashes>>
  /\ UNCHANGED gateway

\* Mails in flight live in memory only.
Crash ==
  /\ up
  /\ crashes < MaxCrashes
  /\ crashes' = crashes + 1
  /\ up' = FALSE
  /\ mailing' = None
  /\ lost' = [o \in Orders |-> lost[o] + mailing[o]]
  /\ UNCHANGED <<due, refused, acked, sent, faults>>
  /\ UNCHANGED gateway

Restart ==
  /\ ~up
  /\ up' = TRUE
  /\ UNCHANGED <<due, refused, acked, faults, crashes>>
  /\ UNCHANGED <<gateway, mails>>

-----------------------------------------------------------------------------
Webhook(o, e) ==
  HandleWebhook(o, e) \/ HandleWebhookReplyLost(o, e) \/ RefuseWebhook(o, e)
Mail(o) == MailSent(o) \/ MailFails(o)

Next ==
  \/ \E o \in Orders, e \in Pending : Attempt(o, e)
  \/ \E o \in Orders : Capture(o) \/ Mail(o)
  \/ \E o \in Orders, e \in Events : Webhook(o, e) \/ GiveUp(o, e) \/ Abandon(o, e)
  \/ Crash
  \/ Restart

Spec == Init /\ [][Next]_vars

(***************************************************************************)
(* The gateway keeps posting every delivery of an order, and the SMTP      *)
(* dialogue ends one way or the other.  Nothing is asked of a supervisor.  *)
(***************************************************************************)
Fairness ==
  /\ \A o \in Orders :
        /\ \A e \in Events : WF_vars(Webhook(o, e))
        /\ WF_vars(Mail(o))

FairSpec == Spec /\ Fairness

-----------------------------------------------------------------------------
TypeOK ==
  /\ canonical \in SUBSET (Events \X Orders)
  /\ withEmail \in SUBSET Orders
  /\ captured \in SUBSET Orders
  /\ attempts \in [Orders -> Nat]
  /\ due \in [Events -> [Orders -> Nat]]
  /\ refused \in SUBSET (Events \X Orders)
  /\ up \in BOOLEAN
  /\ mailing \in [Orders -> Nat]
  /\ acked \in [Orders -> Nat]
  /\ sent \in [Orders -> Nat]
  /\ lost \in [Orders -> Nat]
  /\ faults \in [Orders -> Nat]
  /\ crashes \in Nat

\* Mails started for o, whatever became of them.
Started(o) == mailing[o] + sent[o] + lost[o]

\* Before the capture nothing announces the payment and nothing is mailed; of
\* two events that both announce it only one leads to mails, one per delivery
\* answered and one per repetition after a lost answer of this very order
\* (razorpay.service.ts handleWebhookEvents).
NoticesAccounted ==
  \A o \in Orders :
    /\ acked[o] + due[OrderPaid][o] <= NEndpoints
    /\ Started(o) <= acked[o] + faults[o]
    /\ o \notin captured => due[OrderPaid][o] = 0 /\ acked[o] = 0 /\ Started(o) = 0

\* The customer gets one mail per registered URL, plus at most one for each
\* failure of the environment.
ConfirmationsBounded ==
  \A o \in Orders : sent[o] <= NEndpoints + faults[o]

\* Captured payments the customer can be told of: the event that leads to a
\* mail passes the signature check and carries an address.
Announceable == {o \in captured \cap withEmail : SignatureMatches(o, OrderPaid)}

\* Without a crash, once no delivery is due and no mail is pending, each
\* missing mail of an announceable payment is explained by one failure that
\* struck this very order.  That other events of the payment are refused, on
\* every retry and until the gateway gives them up, costs it no mail.
MissingMailsExplained ==
  \A o \in Announceable :
    due[OrderPaid][o] = 0 /\ mailing[o] = 0 /\ crashes = 0
      => sent[o] + faults[o] >= NEndpoints

\* What the comments on the webhook's request promise: the signature is
\* checked on the raw body, so a genuine event is not refused.
GenuineEventsAccepted == refused = {}

\* The customer of an announceable payment is eventually told, unless the
\* process crashes or a failure of its own strikes every URL.
CapturedEventuallyConfirmed ==
  \A o \in Orders :
    o \in Announceable ~> sent[o] > 0 \/ crashes > 0 \/ faults[o] >= NEndpoints

-----------------------------------------------------------------------------
\* The pipeline keeps the promise of the ledger: its obligations are the
\* mails in flight, and the capture is the payment.
Ledger == INSTANCE ConfirmationLedger WITH
  paid <- captured, owed <- mailing, sent <- sent

\* Refinement of the ledger: although the service never reads the order back,
\* mails only ever follow a capture.
KeepsLedger == Ledger!LedgerSpec
=============================================================================
