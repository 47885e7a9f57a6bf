-------------------------- MODULE CashfreeWebhook ---------------------------
(***************************************************************************)
(* The Cashfree confirmation pipeline: the gateway posts payment events to *)
(* POST /cashfree/webhook (cashfree.controller.ts), the handler answers    *)
(* before the event is processed, CashFreeService.handlePaymentSuccess     *)
(* re-reads the order's status from the gateway, and a paid order starts a *)
(* confirmation mail that nobody awaits (cashfree.service.ts,              *)
(* email.service.ts).                                                      *)
(*                                                                         *)
(* Requests of one order are interchangeable, so the handlers suspended at *)
(* an await are counted, not named.  The gateway, the SMTP server and the  *)
(* process supervisor are the environment; what they may do wrong is       *)
(* bounded by MaxFaults and MaxCrashes.                                    *)
(***************************************************************************)
EXTENDS Integers

CONSTANTS Orders,        \* order ids
          NEndpoints,    \* webhook URLs registered at the gateway (3 in the code's comment)
          MaxAttempts,   \* bound: unsuccessful payment attempts per order
          MaxFaults,     \* bound: failures of the environment per order
          MaxCrashes,    \* bound: crashes of the service process
          StatusMayLag   \* can the status API still say ACTIVE when the event is posted

ASSUME CashfreeAssumption ==
  /\ NEndpoints \in Nat \ {0}
  /\ MaxAttempts \in Nat
  /\ MaxFaults \in Nat
  /\ MaxCrashes \in Nat
  /\ StatusMayLag \in BOOLEAN

VARIABLES
  status,    \* order_status the gateway answers for each order
  charged,   \* orders whose payment succeeded
  attempts,  \* failed or dropped payment attempts of each order
  due,       \* per event type and order: deliveries the gateway still has to make
  up,        \* is the service process running
  looking,   \* per order: handlers awaiting getOrderStatus
  hung,      \* per order: those whose connection the gateway holds open for ever
  mailing,   \* per order: confirmation mails awaiting the SMTP server
  acked,     \* per order: success deliveries answered "Webhook processed successfully"
  sent,      \* per order: confirmation mails the SMTP server took
  early,     \* per order: handlers that read a status other than PAID and stopped
  lost,      \* per order: handlers ended by an error or a crash
  faults,    \* per order: failures of the environment that struck it
  crashes

gateway == <<status, charged, attempts>>
server  == <<looking, hung, mailing, sent, early, lost>>
vars    == <<status, charged, attempts, due, up, looking, hung, mailing,
             acked, sent, early, lost, faults, crashes>>

Success    == "PAYMENT_SUCCESS_WEBHOOK"
Unpaid     == {"PAYMENT_FAILED_WEBHOOK", "PAYMENT_USER_DROPPED_WEBHOOK", "OTHER"}
EventTypes == Unpaid \cup {Success}

None == [o \in Orders |-> 0]
Inc(f, o) == [f EXCEPT ![o] = @ + 1]
Dec(f, o) == [f EXCEPT ![o] = @ - 1]

Init ==
  /\ status = [o \in Orders |-> "ACTIVE"]
  /\ charged = {}
  /\ attempts = None
  /\ due = [t \in EventTypes |-> None]
  /\ up = TRUE
  /\ looking = None /\ hung = None /\ mailing = None /\ acked = None
  /\ sent = None /\ early = None /\ lost = None
  /\ faults = None /\ crashes = 0

\* The environment fails an event, a request or a mail of o once more.
Fault(o) ==
  /\ faults[o] < MaxFaults
  /\ faults' = Inc(faults, o)

-----------------------------------------------------------------------------
(* The gateway. *)

\* A payment attempt fails, is dropped, or raises an event of another kind;
\* every registered URL is due a delivery of it.
Attempt(o, t) ==
  /\ o \notin charged
  /\ attempts[o] < MaxAttempts
  /\ attempts' = Inc(attempts, o)
  /\ due' = [due EXCEPT ![t][o] = @ + NEndpoints]
  /\ UNCHANGED <<status, charged, up, acked, faults, crashes>>
  /\ UNCHANGED server

\* The payment succeeds.  The status API reports it at once, or later (Settle).
Charge(o) ==
  /\ o \notin charged
  /\ charged' = charged \cup {o}
  /\ status' = IF StatusMayLag THEN status ELSE [status EXCEPT ![o] = "PAID"]
  /\ due' = [due EXCEPT ![Success][o] = NEndpoints]
  /\ UNCHANGED <<attempts, up, acked, faults, crashes>>
  /\ UNCHANGED server

Settle(o) ==
  /\ o \in charged
  /\ status[o] # "PAID"
  /\ status' = [status EXCEPT ![o] = "PAID"]
  /\ UNCHANGED <<charged, attempts, due, up, acked, faults, crashes>>
  /\ UNCHANGED server

\* Nobody answers and the gateway's own retries are used up.
GiveUp(o, t) ==
  /\ ~up
  /\ due[t][o] > 0
  /\ Fault(o)
  /\ due' = [due EXCEPT ![t][o] = @ - 1]
  /\ UNCHANGED <<up, acked, crashes>>
  /\ UNCHANGED gateway
  /\ UNCHANGED server

-----------------------------------------------------------------------------
(* The service. *)

\* Variants of StartsVerification with a plausible slip: a missing break, and
\* a misspelt event name.
StartsVerificationFallsThrough(t) == t \in {Success, "PAYMENT_FAILED_WEBHOOK"}
StartsVerificationMisspelt(t) == t = "PAYMENT_SUCCESS"

\* The only event type whose handler does more than log.
StartsVerification(t) == t = Success

\* handleWebHookEvents runs up to its first await: a success event leaves a
\* handler suspended in getOrderStatus, every other type is only logged.
HandleWebHookEvents(o, t) ==
  looking' = IF StartsVerification(t) THEN Inc(looking, o) ELSE looking

\* The controller does not await the handler: it answers success whatever the
\* processing will come to, and the gateway retires the delivery.
HandleWebhook(o, t) ==
  /\ up
  /\ due[t][o] > 0
  /\ HandleWebHookEvents(o, t)
  /\ due' = [due EXCEPT ![t][o] = @ - 1]
  /\ acked' = IF t = Success THEN Inc(acked, o) ELSE acked
  /\ UNCHANGED <<up, hung, mailing, sent, early, lost, faults, crashes>>
  /\ UNCHANGED gateway

\* As HandleWebhook, but the answer is lost: the event is being processed and
\* the gateway will deliver it again.  Nothing recognises the repetition.
HandleWebhookReplyLost(o, t) ==
  /\ up
  /\ due[t][o] > 0
  /\ Fault(o)
  /\ HandleWebHookEvents(o, t)
  /\ UNCHANGED <<due, up, acked, hung, mailing, sent, early, lost, crashes>>
  /\ UNCHANGED gateway

\* Variant: the status is fetched but not looked at.
IsPaidUnchecked(o) == status[o] \in {"ACTIVE", "PAID"}

IsPaid(o) == status[o] = "PAID"

\* Variant: status requests of an order are made one at a time, so that one
\* nobody answers holds up the next.
VerifiedPaidQueued(o) ==
  /\ looking[o] > 0
  /\ hung[o] = 0
  /\ IsPaid(o)
  /\ looking' = Dec(looking, o)
  /\ mailing' = Inc(mailing, o)
  /\ UNCHANGED <<due, up, acked, hung, sent, early, lost, faults, crashes>>
  /\ UNCHANGED gateway

\* getOrderStatus answers PAID: the mail is started, not awaited.
VerifiedPaid(o) ==
  /\ looking[o] > 0
  /\ IsPaid(o)
  /\ looking' = Dec(looking, o)
  /\ mailing' = Inc(mailing, o)
  /\ UNCHANGED <<due, up, acked, hung, sent, early, lost, faults, crashes>>
  /\ UNCHANGED gateway

\* getOrderStatus answers anything else: the handler ends, nobody asks again.
VerifiedUnpaid(o) ==
  /\ looking[o] > 0
  /\ ~IsPaid(o)
  /\ looking' = Dec(looking, o)
  /\ early' = Inc(early, o)
  /\ UNCHANGED <<due, up, acked, hung, mailing, sent, lost, faults, crashes>>
  /\ UNCHANGED gateway

\* getOrderStatus rejects, or the event has no customer to write to: the
\* error is logged and swallowed.
VerificationFails(o) ==
  /\ looking[o] > 0
  /\ Fault(o)
  /\ looking' = Dec(looking, o)
  /\ lost' = Inc(lost, o)
  /\ UNCHANGED <<due, up, acked, hung, mailing, sent, early, crashes>>
  /\ UNCHANGED gateway

\* The gateway neither answers nor closes the connection.  HttpModule is
\* imported without a timeout, so nothing in the service ends the wait.
VerificationHangs(o) ==
  /\ looking[o] > 0
  /\ Fault(o)
  /\ looking' = Dec(looking, o)
  /\ hung' = Inc(hung, o)
  /\ UNCHANGED <<due, up, acked, mailing, sent, early, lost, crashes>>
  /\ UNCHANGED gateway

MailSent(o) ==
  /\ mailing[o] > 0
  /\ mailing' = Dec(mailing, o)
  /\ sent' = Inc(sent, o)
  /\ UNCHANGED <<due, up, acked, looking, hung, early, lost, faults, crashes>>
  /\ UNCHANGED gateway

\* Variant: the mail's error reaches the catch of a handler that has ended.
MailFailsInHandler(o) ==
  /\ mailing[o] > 0
  /\ Fault(o)
  /\ looking' = Dec(looking, o)
  /\ lost' = Inc(lost, o)
  /\ UNCHANGED <<due, up, acked, hung, mailing, sent, early, crashes>>
  /\ UNCHANGED gateway

\* sendEmail turns every error into the result false, which nobody reads.
MailFails(o) ==
  /\ mailing[o] > 0
  /\ Fault(o)
  /\ mailing' = Dec(mailing, o)
  /\ lost' = Inc(lost, o)
  /\ UNCHANGED <<due, up, acked, looking, hung, sent, early, crashes>>
  /\ UNCHANGED gateway

\* Handlers and mails in flight live in memory only.
Crash ==
  /\ up
  /\ crashes < MaxCrashes
  /\ crashes' = crashes + 1
  /\ up' = FALSE
  /\ looking' = None
  /\ hung' = None
  /\ mailing' = None
  /\ lost' = [o \in Orders |-> lost[o] + looking[o] + hung[o] + mailing[o]]
  /\ UNCHANGED <<due, acked, sent, early, faults>>
  /\ UNCHANGED gateway

Restart ==
  /\ ~up
  /\ up' = TRUE
  /\ UNCHANGED <<due, acked, faults, crashes>>
  /\ UNCHANGED gateway
  /\ UNCHANGED server

-----------------------------------------------------------------------------
Verification(o) ==
  VerifiedPaid(o) \/ VerifiedUnpaid(o) \/ VerificationFails(o) \/ VerificationHangs(o)
Mail(o)         == MailSent(o) \/ MailFails(o)
Webhook(o, t)   == HandleWebhook(o, t) \/ HandleWebhookReplyLost(o, t)

Next ==
  \/ \E o \in Orders, t \in Unpaid : Attempt(o, t)
  \/ \E o \in Orders : Charge(o) \/ Settle(o) \/ Verification(o) \/ Mail(o)
  \/ \E o \in Orders, t \in EventTypes : Webhook(o, t) \/ GiveUp(o, t)
  \/ Crash
  \/ Restart

Spec == Init /\ [][Next]_vars

(***************************************************************************)
(* The gateway keeps posting; a status request is answered, fails or hangs *)
(* for ever, so nothing is asked of the gateway here; an SMTP dialogue     *)
(* ends, by nodemailer's own timeouts if by nothing else.  Nothing makes a *)
(* customer pay, the status API catch up or a supervisor restart the       *)
(* process.                                                                *)
(***************************************************************************)
Fairness ==
  /\ \A o \in Orders :
        /\ WF_vars(\E t \in EventTypes : Webhook(o, t))
        /\ WF_vars(Verification(o))
        /\ WF_vars(Mail(o))

FairSpec == Spec /\ Fairness

-----------------------------------------------------------------------------
TypeOK ==
  /\ status \in [Orders -> {"ACTIVE", "PAID"}]
  /\ charged \in SUBSET Orders
  /\ attempts \in [Orders -> Nat]
  /\ due \in [EventTypes -> [Orders -> Nat]]
  /\ up \in BOOLEAN
  /\ looking \in [Orders -> Nat]
  /\ hung \in [Orders -> Nat]
  /\ mailing \in [Orders -> Nat]
  /\ acked \in [Orders -> Nat]
  /\ sent \in [Orders -> Nat]
  /\ early \in [Orders -> Nat]
  /\ lost \in [Orders -> Nat]
  /\ faults \in [Orders -> Nat]
  /\ crashes \in Nat

\* Handlers started for success events of o, whatever became of them.
Handled(o) == looking[o] + hung[o] + mailing[o] + sent[o] + early[o] + lost[o]

\* Nothing about o is in flight any more but what the gateway never answers.
Drained(o) ==
  /\ o \in charged
  /\ due[Success][o] = 0
  /\ looking[o] = 0
  /\ mailing[o] = 0

\* A confirmation is only ever started for an order the gateway reported as
\* paid, however events, lookups and crashes interleave
\* (cashfree.service.ts handlePaymentSuccess, "Verify payment status").
ConfirmedOnlyPaid ==
  \A o \in Orders : mailing[o] + sent[o] > 0 => status[o] = "PAID"

\* What the deliveries of a success event have become.  Of the NEndpoints
\* deliveries, those neither answered nor due were given up; handlers beyond
\* the answered deliveries repeat one whose answer was lost.  Deliveries given
\* up, repetitions and, until a crash, handlers that hang or were ended by an
\* error are each paid for by a failure that struck this very order; before the
\* payment nothing is handled.
OrderAccounted(o) ==
  /\ o \in charged =>
       /\ acked[o] + due[Success][o] <= NEndpoints
       /\ acked[o] <= Handled(o)
       /\ NEndpoints + Handled(o) <= 2 * acked[o] + due[Success][o] + faults[o]
       /\ crashes = 0 =>
            NEndpoints + Handled(o) + lost[o] + hung[o]
              <= 2 * acked[o] + due[Success][o] + faults[o]
  /\ o \notin charged =>
       acked[o] = 0 /\ due[Success][o] = 0 /\ Handled(o) = 0

DeliveryAccounting == \A o \in Orders : OrderAccounted(o)

\* One payment gives at most one mail per registered URL, plus one for each
\* failure that made the gateway repeat a delivery; events of unsuccessful
\* attempts add none.  With no failure and three URLs: at most the three mails
\* the comment in createOrder complains about.
ConfirmationsBounded ==
  \A o \in Orders : sent[o] <= NEndpoints + faults[o]

\* As long as the process has not crashed, once everything is drained each
\* missing mail is explained by one failure that struck this order, a status
\* request nobody answers among them, or by one status answered too early: no
\* other path of the code loses a confirmation, the copies sent to several URLs
\* back each other up, and trouble with one order costs no other its mails.
MissingMailsExplained ==
  \A o \in Orders :
    Drained(o) /\ crashes = 0 => sent[o] + early[o] + faults[o] >= NEndpoints

\* The claim of the reply: an event answered "Webhook processed successfully"
\* has been processed (cashfree.controller.ts).
ReplyMeansProcessed ==
  \A o \in Orders : acked[o] <= sent[o] + early[o] + lost[o]

\* The customer of a paid order is eventually told, unless the process crashes
\* or every URL was struck by a failure of its own or by a status answered too
\* early.  A handler that waits for ever (HttpModule has no timeout) takes only
\* its own confirmation with it and holds up neither another copy of the event
\* nor a mail (cashfree.service.ts handlePaymentSuccess).
PaidEventuallyConfirmed ==
  \A o \in Orders :
    status[o] = "PAID" ~> sent[o] > 0 \/ crashes > 0 \/ early[o] + faults[o] >= NEndpoints

-----------------------------------------------------------------------------
\* The pipeline keeps the promise of the ledger: its obligations are the
\* handlers, also those that hang, and the mails in flight.
Ledger == INSTANCE ConfirmationLedger WITH
  paid <- {o \in Orders : status[o] = "PAID"},
  owed <- [o \in Orders |-> looking[o] + hung[o] + mailing[o]],
  sent <- sent

\* Refinement of the ledger: every step of the pipeline pays, accepts,
\* confirms or forgets obligations, or changes none of them.
KeepsLedger == Ledger!LedgerSpec
=============================================================================
