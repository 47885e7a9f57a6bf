----------------------- MODULE CashfreeWebhookProofs ------------------------
(***************************************************************************)
(* Proofs about the Cashfree confirmation pipeline, for any set of orders, *)
(* any number of registered URLs and any bounds on failures.               *)
(***************************************************************************)
EXTENDS CashfreeWebhook, TLAPS

(* The pipeline stays within its types: no counter of handlers, mails or   *)
(* deliveries ever goes below zero.                                        *)
THEOREM TypeCorrect == Spec => []TypeOK
<1>1. Init => TypeOK
  BY CashfreeAssumption DEF Init, TypeOK, None, EventTypes
<1>2. TypeOK /\ [Next]_vars => TypeOK'
  <2> SUFFICES ASSUME TypeOK, [Next]_vars PROVE TypeOK'
    OBVIOUS
  <2> USE CashfreeAssumption DEF TypeOK, gateway, server, Inc, Dec, Fault
  <2>1. ASSUME NEW o \in Orders, NEW t \in Unpaid, Attempt(o, t) PROVE TypeOK'
    BY <2>1 DEF Attempt, EventTypes
  <2>2. ASSUME NEW o \in Orders, Charge(o) PROVE TypeOK'
    BY <2>2 DEF Charge, EventTypes, Success
  <2>3. ASSUME NEW o \in Orders, Settle(o) PROVE TypeOK'
    BY <2>3 DEF Settle
  <2>4. ASSUME NEW o \in Orders, Verification(o) PROVE TypeOK'
    BY <2>4 DEF Verification, VerifiedPaid, VerifiedUnpaid, VerificationFails, VerificationHangs
  <2>5. ASSUME NEW o \in Orders, Mail(o) PROVE TypeOK'
    BY <2>5 DEF Mail, MailSent, MailFails
  <2>6. ASSUME NEW o \in Orders, NEW t \in EventTypes, HandleWebhook(o, t) PROVE TypeOK'
    BY <2>6 DEF HandleWebhook, HandleWebHookEvents
  <2>7. ASSUME NEW o \in Orders, NEW t \in EventTypes, HandleWebhookReplyLost(o, t) PROVE TypeOK'
    BY <2>7 DEF HandleWebhookReplyLost, HandleWebHookEvents
  <2>8. ASSUME NEW o \in Orders, NEW t \in EventTypes, GiveUp(o, t) PROVE TypeOK'
    BY <2>8 DEF GiveUp
  <2>9. ASSUME Crash PROVE TypeOK'
    <3>1. up' \in BOOLEAN
      BY <2>9 DEF Crash
    <3>2. lost' \in [Orders -> Nat]
      BY <2>9 DEF Crash
    <3>3. /\ looking' \in [Orders -> Nat] /\ mailing' \in [Orders -> Nat]
          /\ hung' \in [Orders -> Nat]
      BY <2>9 DEF Crash, None
    <3>4. crashes' \in Nat
      BY <2>9 DEF Crash
    <3> QED
      BY <2>9, <3>1, <3>2, <3>3, <3>4, Zenon DEF Crash
  <2>10. ASSUME Restart PROVE TypeOK'
    BY <2>10 DEF Restart
  <2>11. CASE UNCHANGED vars
    BY <2>11 DEF vars
  <2> QED
    BY <2>1, <2>2, <2>3, <2>4, <2>5, <2>6, <2>7, <2>8, <2>9, <2>10, <2>11 DEF Next, Webhook
<1> QED
  BY <1>1, <1>2, PTL DEF Spec

-----------------------------------------------------------------------------
(* A mail is started or sent only for an order the gateway reports as      *)
(* paid.  Inductive as it stands: the status of a paid order never changes *)
(* back, and VerifiedPaid is the only step that starts a mail.             *)
THEOREM OnlyPaidOrdersConfirmed == Spec => []ConfirmedOnlyPaid
<1>1. Init => ConfirmedOnlyPaid
  BY DEF Init, ConfirmedOnlyPaid, None
<1>2. TypeOK /\ ConfirmedOnlyPaid /\ [Next]_vars => ConfirmedOnlyPaid'
  <2> SUFFICES ASSUME TypeOK, ConfirmedOnlyPaid, [Next]_vars,
                      NEW p \in Orders
               PROVE  (mailing[p] + sent[p] > 0 => status[p] = "PAID")'
    BY DEF ConfirmedOnlyPaid
  <2> DEFINE Goal == (mailing[p] + sent[p] > 0 => status[p] = "PAID")'
  <2> USE DEF TypeOK, ConfirmedOnlyPaid, gateway, server, Inc, Dec
  <2>1. ASSUME NEW o \in Orders, NEW t \in Unpaid, Attempt(o, t) PROVE Goal
    BY <2>1 DEF Attempt
  <2>2. ASSUME NEW o \in Orders, Charge(o) PROVE Goal
    BY <2>2 DEF Charge
  <2>3. ASSUME NEW o \in Orders, Settle(o) PROVE Goal
    BY <2>3 DEF Settle
  <2>4. ASSUME NEW o \in Orders, VerifiedPaid(o) PROVE Goal
    BY <2>4 DEF VerifiedPaid, IsPaid
  <2>5. ASSUME NEW o \in Orders, VerifiedUnpaid(o) \/ VerificationFails(o) \/ VerificationHangs(o)
        PROVE  Goal
    BY <2>5 DEF VerifiedUnpaid, VerificationFails, VerificationHangs
  <2>6. ASSUME NEW o \in Orders, Mail(o) PROVE Goal
    <3>1. CASE MailSent(o)
      BY <3>1 DEF MailSent
    <3>2. CASE MailFails(o)
      BY <3>2 DEF MailFails
    <3> QED
      BY <2>6, <3>1, <3>2 DEF Mail
  <2>7. ASSUME NEW o \in Orders, NEW t \in EventTypes, Webhook(o, t) PROVE Goal
    BY <2>7 DEF Webhook, HandleWebhook, HandleWebhookReplyLost
  <2>8. ASSUME NEW o \in Orders, NEW t \in EventTypes, GiveUp(o, t) PROVE Goal
    BY <2>8 DEF GiveUp
  <2>9. ASSUME Crash PROVE Goal
    BY <2>9 DEF Crash, None
  <2>10. ASSUME Restart PROVE Goal
    BY <2>10 DEF Restart
  <2>11. CASE UNCHANGED vars
    BY <2>11 DEF vars
  <2> QED
    BY <2>1, <2>2, <2>3, <2>4, <2>5, <2>6, <2>7, <2>8, <2>9, <2>10, <2>11
    DEF Next, Verification
<1> QED
  BY <1>1, <1>2, TypeCorrect, PTL DEF Spec

-----------------------------------------------------------------------------
(* The columns of an order's account are natural numbers.                  *)
LEMMA AccountTypes ==
  ASSUME TypeOK, NEW o \in Orders
  PROVE  /\ acked[o] \in Nat
         /\ due[Success][o] \in Nat
         /\ lost[o] \in Nat /\ hung[o] \in Nat
         /\ Handled(o) \in Nat
         /\ faults[o] \in Nat
BY DEF TypeOK, Handled, EventTypes

(* What a step does to the columns of one order's account: the answered    *)
(* and due deliveries, the handlers, and those among them that failed or   *)
(* hang.                                                                   *)
LEMMA AccountStep ==
  ASSUME TypeOK, [Next]_vars, NEW p \in Orders, OrderAccounted(p)
  PROVE  OrderAccounted(p)'
<1> DEFINE A == acked[p]
           D == due[Success][p]
           H == Handled(p)
           L == lost[p]
           G == hung[p]
           F == faults[p]
           Sure == crashes = 0
<1>0. /\ A \in Nat /\ D \in Nat /\ H \in Nat /\ L \in Nat /\ G \in Nat /\ F \in Nat
      /\ looking[p] \in Nat /\ mailing[p] \in Nat /\ sent[p] \in Nat /\ early[p] \in Nat
      /\ crashes \in Nat /\ NEndpoints \in Nat
      /\ H = looking[p] + G + mailing[p] + sent[p] + early[p] + L
  BY CashfreeAssumption DEF TypeOK, Handled, EventTypes
<1>h. H' = looking'[p] + G' + mailing'[p] + sent'[p] + early'[p] + lost'[p]
  BY DEF Handled
<1>a. /\ p \in charged =>
           /\ A + D <= NEndpoints
           /\ A <= H
           /\ NEndpoints + H <= 2 * A + D + F
           /\ Sure => NEndpoints + H + L + G <= 2 * A + D + F
      /\ p \notin charged => A = 0 /\ D = 0 /\ H = 0
  BY DEF OrderAccounted
<1>b. SUFFICES /\ p \in charged' =>
                    /\ A' + D' <= NEndpoints
                    /\ A' <= H'
                    /\ NEndpoints + H' <= 2 * A' + D' + F'
                    /\ Sure' => NEndpoints + H' + L' + G' <= 2 * A' + D' + F'
               /\ p \notin charged' => A' = 0 /\ D' = 0 /\ H' = 0
  BY DEF OrderAccounted
<1> DEFINE Goal == /\ p \in charged' =>
                        /\ A' + D' <= NEndpoints
                        /\ A' <= H'
                        /\ NEndpoints + H' <= 2 * A' + D' + F'
                        /\ Sure' => NEndpoints + H' + L' + G' <= 2 * A' + D' + F'
                   /\ p \notin charged' => A' = 0 /\ D' = 0 /\ H' = 0
           Kept == charged' = charged /\ A' = A /\ D' = D /\ F' = F /\ crashes' = crashes
<1>1. ASSUME NEW o \in Orders, NEW t \in Unpaid, Attempt(o, t) PROVE Goal
  <2>1. t # Success
    BY DEF Unpaid, Success
  <2>2. due'[Success] = due[Success]
    BY <1>1, <2>1 DEF Attempt, EventTypes, TypeOK
  <2>3. Kept /\ H' = H /\ L' = L /\ G' = G
    BY <1>1, <1>h, <1>0, <2>2 DEF Attempt, server
  <2> QED
    BY <2>3, <1>a, <1>0
<1>2. ASSUME NEW o \in Orders, Charge(o) PROVE Goal
  <2>1. D' = IF p = o THEN NEndpoints ELSE D
    BY <1>2 DEF Charge, EventTypes, TypeOK
  <2>2. A' = A /\ H' = H /\ L' = L /\ G' = G /\ F' = F /\ crashes' = crashes
    BY <1>2, <1>h, <1>0 DEF Charge, server
  <2>3. charged' = charged \cup {o} /\ o \notin charged
    BY <1>2 DEF Charge
  <2>4. L + G <= H
    BY <1>0
  <2> HIDE DEF A, D, H, L, G, F
  <2> QED
    BY <2>1, <2>2, <2>3, <2>4, <1>a, <1>0
<1>3. ASSUME NEW o \in Orders, Settle(o) PROVE Goal
  <2>1. Kept /\ H' = H /\ L' = L /\ G' = G
    BY <1>3, <1>h, <1>0 DEF Settle, server
  <2> QED
    BY <2>1, <1>a, <1>0
<1>4. ASSUME NEW o \in Orders, VerifiedPaid(o) \/ VerifiedUnpaid(o) \/ MailSent(o) PROVE Goal
  <2>1. Kept /\ L' = L /\ G' = G
    BY <1>4 DEF VerifiedPaid, VerifiedUnpaid, MailSent, gateway
  <2>2. H' = H
    <3>1. CASE VerifiedPaid(o)
      <4>1. /\ G' = G /\ sent'[p] = sent[p] /\ early'[p] = early[p] /\ L' = L
            /\ looking'[p] = IF p = o THEN looking[p] - 1 ELSE looking[p]
            /\ mailing'[p] = IF p = o THEN mailing[p] + 1 ELSE mailing[p]
        BY <3>1 DEF VerifiedPaid, TypeOK, Inc, Dec
      <4> QED
        BY <4>1, <1>h, <1>0
    <3>2. CASE VerifiedUnpaid(o)
      <4>1. /\ G' = G /\ sent'[p] = sent[p] /\ mailing'[p] = mailing[p] /\ L' = L
            /\ looking'[p] = IF p = o THEN looking[p] - 1 ELSE looking[p]
            /\ early'[p] = IF p = o THEN early[p] + 1 ELSE early[p]
        BY <3>2 DEF VerifiedUnpaid, TypeOK, Inc, Dec
      <4> QED
        BY <4>1, <1>h, <1>0
    <3>3. CASE MailSent(o)
      <4>1. /\ G' = G /\ looking'[p] = looking[p] /\ early'[p] = early[p] /\ L' = L
            /\ mailing'[p] = IF p = o THEN mailing[p] - 1 ELSE mailing[p]
            /\ sent'[p] = IF p = o THEN sent[p] + 1 ELSE sent[p]
        BY <3>3 DEF MailSent, TypeOK, Inc, Dec
      <4> QED
        BY <4>1, <1>h, <1>0
    <3> QED
      BY <1>4, <3>1, <3>2, <3>3
  <2> HIDE DEF A, D, H, L, G, F
  <2> QED
    BY <2>1, <2>2, <1>a, <1>0
<1>5. ASSUME NEW o \in Orders, VerificationFails(o) \/ MailFails(o) PROVE Goal
  <2>1. /\ charged' = charged /\ A' = A /\ D' = D /\ G' = G /\ crashes' = crashes
        /\ F' = IF p = o THEN F + 1 ELSE F
    BY <1>5 DEF VerificationFails, MailFails, gateway, Fault, Inc, TypeOK
  <2>2. L' = IF p = o THEN L + 1 ELSE L
    BY <1>5 DEF VerificationFails, MailFails, TypeOK, Inc
  <2>3. sent'[p] = sent[p] /\ early'[p] = early[p]
    BY <1>5 DEF VerificationFails, MailFails
  <2>4. looking'[p] + mailing'[p] = IF p = o THEN looking[p] + mailing[p] - 1
                                             ELSE looking[p] + mailing[p]
    BY <1>5, <1>0 DEF VerificationFails, MailFails, TypeOK, Dec
  <2>5. mailing'[p] \in Int /\ looking'[p] \in Int
    BY <1>5, <1>0 DEF VerificationFails, MailFails, TypeOK, Dec
  <2>6. looking'[p] + mailing'[p] + lost'[p] = looking[p] + mailing[p] + lost[p]
    BY <2>2, <2>4, <2>5, <1>0
  <2>7. H' = H
    BY <2>1, <2>2, <2>3, <2>5, <2>6, <1>h, <1>0
  <2> HIDE DEF A, D, H, L, G, F
  <2> QED
    BY <2>1, <2>2, <2>7, <1>a, <1>0
<1>11. ASSUME NEW o \in Orders, VerificationHangs(o) PROVE Goal
  <2>1. /\ charged' = charged /\ A' = A /\ D' = D /\ L' = L /\ crashes' = crashes
        /\ F' = IF p = o THEN F + 1 ELSE F
        /\ G' = IF p = o THEN G + 1 ELSE G
    BY <1>11 DEF VerificationHangs, gateway, Fault, Inc, TypeOK
  <2>2. /\ sent'[p] = sent[p] /\ early'[p] = early[p] /\ mailing'[p] = mailing[p]
        /\ looking'[p] = IF p = o THEN looking[p] - 1 ELSE looking[p]
    BY <1>11, <1>0 DEF VerificationHangs, TypeOK, Dec
  <2>3. H' = H
    BY <2>1, <2>2, <1>h, <1>0
  <2> HIDE DEF A, D, H, L, G, F
  <2> QED
    BY <2>1, <2>3, <1>a, <1>0
<1>6. ASSUME NEW o \in Orders, NEW t \in EventTypes, HandleWebhook(o, t) PROVE Goal
  <2>1. charged' = charged /\ L' = L /\ G' = G /\ F' = F /\ crashes' = crashes
    BY <1>6 DEF HandleWebhook, gateway
  <2>2. CASE p = o /\ t = Success
    <3>1. A' = A + 1 /\ D' = D - 1 /\ D > 0
      BY <1>6, <2>2 DEF HandleWebhook, Inc, TypeOK, EventTypes
    <3>2. H' = H + 1
      BY <1>6, <2>2, <1>h, <1>0
      DEF HandleWebhook, HandleWebHookEvents, StartsVerification, Inc, TypeOK
    <3> HIDE DEF A, D, H, L, G, F
    <3> QED
      BY <2>1, <3>1, <3>2, <1>a, <1>0
  <2>3. CASE ~(p = o /\ t = Success)
    <3>1. A' = A /\ D' = D
      BY <1>6, <2>3 DEF HandleWebhook, Inc, TypeOK, EventTypes
    <3>2. H' = H
      BY <1>6, <2>3, <1>h, <1>0
      DEF HandleWebhook, HandleWebHookEvents, StartsVerification, Inc, TypeOK
    <3> HIDE DEF A, D, H, L, G, F
    <3> QED
      BY <2>1, <3>1, <3>2, <1>a, <1>0
  <2> QED
    BY <2>2, <2>3
<1>7. ASSUME NEW o \in Orders, NEW t \in EventTypes, HandleWebhookReplyLost(o, t) PROVE Goal
  <2>1. /\ charged' = charged /\ A' = A /\ D' = D /\ L' = L /\ G' = G /\ crashes' = crashes
        /\ F' = IF p = o THEN F + 1 ELSE F
    BY <1>7 DEF HandleWebhookReplyLost, gateway, Fault, Inc, TypeOK
  <2>2. H' = IF p = o /\ t = Success THEN H + 1 ELSE H
    BY <1>7, <1>h, <1>0
    DEF HandleWebhookReplyLost, HandleWebHookEvents, StartsVerification, Inc, TypeOK
  <2>3. p = o /\ t = Success => D > 0
    BY <1>7 DEF HandleWebhookReplyLost
  <2> HIDE DEF A, D, H, L, G, F
  <2> QED
    BY <2>1, <2>2, <2>3, <1>a, <1>0
<1>8. ASSUME NEW o \in Orders, NEW t \in EventTypes, GiveUp(o, t) PROVE Goal
  <2>1. /\ charged' = charged /\ A' = A /\ H' = H /\ L' = L /\ G' = G /\ crashes' = crashes
        /\ F' = IF p = o THEN F + 1 ELSE F
    BY <1>8, <1>h, <1>0 DEF GiveUp, gateway, server, Fault, Inc, TypeOK
  <2>2. D' = D \/ (D' = D - 1 /\ D > 0 /\ p = o)
    BY <1>8 DEF GiveUp, EventTypes, TypeOK
  <2> HIDE DEF A, D, H, L, G, F
  <2> QED
    BY <2>1, <2>2, <1>a, <1>0
<1>9. ASSUME Crash PROVE Goal
  <2>1. charged' = charged /\ A' = A /\ D' = D /\ F' = F /\ crashes' # 0
    BY <1>9, <1>0 DEF Crash, gateway
  <2>2. H' = H
    BY <1>9, <1>h, <1>0 DEF Crash, None
  <2> HIDE DEF A, D, H, L, G, F
  <2> QED
    BY <2>1, <2>2, <1>a, <1>0
<1>10. ASSUME Restart \/ UNCHANGED vars PROVE Goal
  <2>1. Kept /\ H' = H /\ L' = L /\ G' = G
    BY <1>10, <1>h, <1>0 DEF Restart, vars, gateway, server
  <2> QED
    BY <2>1, <1>a, <1>0
<1> QED
  BY <1>1, <1>2, <1>3, <1>4, <1>5, <1>6, <1>7, <1>8, <1>9, <1>10, <1>11
  DEF Next, Verification, Mail, Webhook

(* The accounting of deliveries is an invariant: every step moves a        *)
(* delivery or a handler from one column of the account to another, and    *)
(* the steps that lose or repeat one also count a failure or a crash.      *)
THEOREM DeliveriesAccounted == Spec => []DeliveryAccounting
<1>1. Init => DeliveryAccounting
  <2> SUFFICES ASSUME Init, NEW o \in Orders PROVE OrderAccounted(o)
    BY DEF DeliveryAccounting
  <2>1. o \notin charged /\ acked[o] = 0 /\ due[Success][o] = 0
    BY DEF Init, None, EventTypes
  <2>2. Handled(o) = 0
    BY DEF Init, None, Handled
  <2> QED
    BY <2>1, <2>2 DEF OrderAccounted
<1>2. TypeOK /\ DeliveryAccounting /\ [Next]_vars => DeliveryAccounting'
  BY AccountStep DEF DeliveryAccounting
<1> QED
  BY <1>1, <1>2, TypeCorrect, PTL DEF Spec

(* At most one mail per registered URL and per failure: the mails of an    *)
(* order are among its handlers, which the account bounds.                 *)
THEOREM ConfirmationBound == Spec => []ConfirmationsBounded
<1>1. TypeOK /\ DeliveryAccounting => ConfirmationsBounded
  <2> SUFFICES ASSUME TypeOK, DeliveryAccounting, NEW o \in Orders
               PROVE  sent[o] <= NEndpoints + faults[o]
    BY DEF ConfirmationsBounded
  <2>1. OrderAccounted(o)
    BY DEF DeliveryAccounting
  <2>2. sent[o] \in Nat /\ sent[o] <= Handled(o)
    BY DEF TypeOK, Handled
  <2> QED
    BY <2>1, <2>2, AccountTypes, CashfreeAssumption DEF OrderAccounted
<1> QED
  BY <1>1, TypeCorrect, DeliveriesAccounted, PTL

(* Without a crash, every mail that is missing once all is drained is      *)
(* explained by a failure of the environment or by a status read too early.*)
THEOREM NoUnexplainedLoss == Spec => []MissingMailsExplained
<1>1. TypeOK /\ DeliveryAccounting => MissingMailsExplained
  <2> SUFFICES ASSUME TypeOK, DeliveryAccounting, NEW o \in Orders,
                      Drained(o), crashes = 0
               PROVE  sent[o] + early[o] + faults[o] >= NEndpoints
    BY DEF MissingMailsExplained
  <2>1. OrderAccounted(o)
    BY DEF DeliveryAccounting
  <2>2. Handled(o) = hung[o] + sent[o] + early[o] + lost[o] /\ sent[o] \in Nat /\ early[o] \in Nat
    BY DEF TypeOK, Handled, Drained
  <2>3. o \in charged /\ due[Success][o] = 0
    BY DEF Drained
  <2> QED
    BY <2>1, <2>2, <2>3, AccountTypes, CashfreeAssumption DEF OrderAccounted
<1> QED
  BY <1>1, TypeCorrect, DeliveriesAccounted, PTL

-----------------------------------------------------------------------------
(* The pipeline implements the ledger: each action pays, accepts, confirms *)
(* or forgets obligations, or leaves the ledger alone.                     *)
THEOREM ImplementsLedger == Spec => KeepsLedger
<1> DEFINE Paid == {o \in Orders : status[o] = "PAID"}
           Owed == [o \in Orders |-> looking[o] + hung[o] + mailing[o]]
           Same == UNCHANGED <<Paid, Owed, sent>>
<1>1. Init => Ledger!LedgerInit
  BY DEF Init, Ledger!LedgerInit, None
<1>2. TypeOK /\ ConfirmedOnlyPaid /\ [Next]_vars => [Ledger!LedgerNext]_(Ledger!ledgerVars)
  <2> SUFFICES ASSUME TypeOK, ConfirmedOnlyPaid, [Next]_vars
               PROVE  Ledger!LedgerNext \/ Same
    BY DEF Ledger!ledgerVars
  <2> USE DEF TypeOK, gateway, server, Inc, Dec
  <2>1. ASSUME NEW o \in Orders, NEW t \in Unpaid, Attempt(o, t) PROVE Same
    BY <2>1 DEF Attempt
  <2>2. ASSUME NEW o \in Orders, Charge(o) \/ Settle(o) PROVE Ledger!Pay(o) \/ Same
    <3>1. UNCHANGED <<Owed, sent>>
      BY <2>2 DEF Charge, Settle
    <3>2. status' = status \/ status' = [status EXCEPT ![o] = "PAID"]
      BY <2>2 DEF Charge, Settle
    <3>3. Paid' = Paid \/ Paid' = Paid \cup {o}
      BY <3>2
    <3> QED
      BY <3>1, <3>3 DEF Ledger!Pay
  <2>3. ASSUME NEW o \in Orders, VerifiedPaid(o) \/ VerificationHangs(o) PROVE Same
    <3>1. Paid' = Paid /\ sent' = sent
      BY <2>3 DEF VerifiedPaid, VerificationHangs
    <3>2. \A p \in Orders : looking'[p] + hung'[p] + mailing'[p] = looking[p] + hung[p] + mailing[p]
      <4>1. CASE VerifiedPaid(o)
        BY <4>1 DEF VerifiedPaid
      <4>2. CASE VerificationHangs(o)
        BY <4>2 DEF VerificationHangs
      <4> QED
        BY <2>3, <4>1, <4>2
    <3> QED
      BY <3>1, <3>2
  <2>4. ASSUME NEW o \in Orders,
               VerifiedUnpaid(o) \/ VerificationFails(o) \/ MailFails(o)
        PROVE  Ledger!Forget
    <3>1. looking' \in [Orders -> Nat] /\ mailing' \in [Orders -> Nat] /\ hung' = hung
      BY <2>4 DEF VerifiedUnpaid, VerificationFails, MailFails
    <3>2. \A p \in Orders : looking'[p] <= looking[p] /\ mailing'[p] <= mailing[p]
      BY <2>4 DEF VerifiedUnpaid, VerificationFails, MailFails
    <3>3. UNCHANGED <<Paid, sent>>
      BY <2>4 DEF VerifiedUnpaid, VerificationFails, MailFails
    <3> QED
      BY <3>1, <3>2, <3>3 DEF Ledger!Forget
  <2>5. ASSUME NEW o \in Orders, MailSent(o) PROVE Ledger!Confirm(o)
    <3>1. o \in Paid /\ Owed[o] > 0
      BY <2>5 DEF MailSent, ConfirmedOnlyPaid
    <3>2. Owed' = [Owed EXCEPT ![o] = @ - 1]
      <4>1. \A p \in Orders : looking'[p] + hung'[p] + mailing'[p] =
                IF p = o THEN looking[p] + hung[p] + mailing[p] - 1
                          ELSE looking[p] + hung[p] + mailing[p]
        <5>1. \A p \in Orders : mailing'[p] = IF p = o THEN mailing[p] - 1 ELSE mailing[p]
          BY <2>5 DEF MailSent
        <5>2. looking' = looking /\ hung' = hung
          BY <2>5 DEF MailSent
        <5> QED
          BY <5>1, <5>2
      <4>2. Owed' = [p \in Orders |-> IF p = o THEN Owed[p] - 1 ELSE Owed[p]]
        BY <4>1
      <4> QED
        BY <4>2, Zenon
    <3>3. sent' = [sent EXCEPT ![o] = @ + 1] /\ Paid' = Paid
      BY <2>5 DEF MailSent
    <3> QED
      BY <3>1, <3>2, <3>3 DEF Ledger!Confirm
  <2>6. ASSUME NEW o \in Orders, NEW t \in EventTypes, Webhook(o, t)
        PROVE  Ledger!Accept(o) \/ Same
    <3>1. UNCHANGED <<Paid, sent>> /\ mailing' = mailing /\ hung' = hung
      BY <2>6 DEF Webhook, HandleWebhook, HandleWebhookReplyLost
    <3>2. looking' = [looking EXCEPT ![o] = @ + 1] \/ looking' = looking
      BY <2>6 DEF Webhook, HandleWebhook, HandleWebhookReplyLost, HandleWebHookEvents
    <3>3. CASE looking' = [looking EXCEPT ![o] = @ + 1]
      <4>1. \A p \in Orders : looking'[p] + hung'[p] + mailing'[p] =
                IF p = o THEN looking[p] + hung[p] + mailing[p] + 1
                          ELSE looking[p] + hung[p] + mailing[p]
        BY <3>1, <3>3
      <4>2. Owed' = [Owed EXCEPT ![o] = @ + 1]
        BY <4>1
      <4> QED
        BY <3>1, <4>2 DEF Ledger!Accept
    <3>4. CASE looking' = looking
      BY <3>1, <3>4
    <3> QED
      BY <3>2, <3>3, <3>4
  <2>7. ASSUME NEW o \in Orders, NEW t \in EventTypes, GiveUp(o, t) PROVE Same
    BY <2>7 DEF GiveUp
  <2>8. ASSUME Crash PROVE Ledger!Forget
    <3>1. Owed' \in [Orders -> Nat] /\ \A p \in Orders : Owed'[p] = 0
      BY <2>8 DEF Crash, None
    <3>2. UNCHANGED <<Paid, sent>>
      BY <2>8 DEF Crash
    <3> QED
      BY <3>1, <3>2 DEF Ledger!Forget
  <2>9. ASSUME Restart \/ UNCHANGED vars PROVE Same
    BY <2>9 DEF Restart, vars
  <2> QED
    BY <2>1, <2>2, <2>3, <2>4, <2>5, <2>6, <2>7, <2>8, <2>9
    DEF Next, Verification, Mail, Ledger!LedgerNext
<1> QED
  BY <1>1, <1>2, TypeCorrect, OnlyPaidOrdersConfirmed, PTL
  DEF Spec, KeepsLedger, Ledger!LedgerSpec
=============================================================================
