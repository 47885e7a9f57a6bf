----------------------- MODULE RazorpayWebhookProofs ------------------------
(***************************************************************************)
(* Proofs about the Razorpay confirmation pipeline, for any set of orders, *)
(* any number of registered URLs and any bounds on failures.               *)
(***************************************************************************)
EXTENDS RazorpayWebhook, TLAPS

(* The pipeline stays within its types: no counter of mails or deliveries  *)
(* ever goes below zero.                                                   *)
THEOREM TypeCorrect == Spec => []TypeOK
<1>1. Init => TypeOK
  BY RazorpayAssumption DEF Init, TypeOK, None, Events
<1>2. TypeOK /\ [Next]_vars => TypeOK'
  <2> SUFFICES ASSUME TypeOK, [Next]_vars PROVE TypeOK'
    OBVIOUS
  <2> USE RazorpayAssumption DEF TypeOK, gateway, mails, Inc, Dec, Fault
  <2>1. ASSUME NEW o \in Orders, NEW e \in Pending, Attempt(o, e) PROVE TypeOK'
    <3>1. canonical' \in SUBSET (Events \X Orders)
      BY <2>1 DEF Attempt, Announce, Events
    <3> QED
      BY <2>1, <3>1 DEF Attempt, Events
  <2>2. ASSUME NEW o \in Orders, Capture(o) PROVE TypeOK'
    <3>1. canonical' \in SUBSET (Events \X Orders) /\ withEmail' \in SUBSET Orders
      BY <2>2 DEF Capture, Announce, Events
    <3> QED
      BY <2>2, <3>1 DEF Capture, Events, OrderPaid, Captured
  <2>3. ASSUME NEW o \in Orders, Mail(o) PROVE TypeOK'
    BY <2>3 DEF Mail, MailSent, MailFails
  <2>4. ASSUME NEW o \in Orders, NEW e \in Events, HandleWebhook(o, e) PROVE TypeOK'
    BY <2>4 DEF HandleWebhook, HandleWebhookEvents
  <2>5. ASSUME NEW o \in Orders, NEW e \in Events, HandleWebhookReplyLost(o, e) PROVE TypeOK'
    BY <2>5 DEF HandleWebhookReplyLost, HandleWebhookEvents
  <2>6. ASSUME NEW o \in Orders, NEW e \in Events, RefuseWebhook(o, e) PROVE TypeOK'
    <3>1. refused' \in SUBSET (Events \X Orders)
      BY <2>6 DEF RefuseWebhook
    <3> QED
      BY <2>6, <3>1, Zenon DEF RefuseWebhook
  <2>7. ASSUME NEW o \in Orders, NEW e \in Events, GiveUp(o, e) \/ Abandon(o, e) PROVE TypeOK'
    <3>1. CASE GiveUp(o, e)
      BY <3>1 DEF GiveUp
    <3>2. CASE Abandon(o, e)
      BY <3>2 DEF Abandon
    <3> QED
      BY <2>7, <3>1, <3>2
  <2>8. ASSUME Crash PROVE TypeOK'
    <3>1. up' \in BOOLEAN
      BY <2>8 DEF Crash
    <3>2. lost' \in [Orders -> Nat]
      BY <2>8 DEF Crash
    <3>3. mailing' \in [Orders -> Nat]
      BY <2>8 DEF Crash, None
    <3>4. crashes' \in Nat
      BY <2>8 DEF Crash
    <3> QED
      BY <2>8, <3>1, <3>2, <3>3, <3>4, Zenon DEF Crash
  <2>9. ASSUME Restart PROVE TypeOK'
    BY <2>9 DEF Restart
  <2>10. CASE UNCHANGED vars
    BY <2>10 DEF vars
  <2> QED
    BY <2>1, <2>2, <2>3, <2>4, <2>5, <2>6, <2>7, <2>8, <2>9, <2>10 DEF Next, Webhook
<1> QED
  BY <1>1, <1>2, PTL DEF Spec

-----------------------------------------------------------------------------
(* What is said of one order by NoticesAccounted.                          *)
OrderNoticed(o) ==
  /\ acked[o] + due[OrderPaid][o] <= NEndpoints
  /\ Started(o) <= acked[o] + faults[o]
  /\ o \notin captured => due[OrderPaid][o] = 0 /\ acked[o] = 0 /\ Started(o) = 0

(* One step keeps the account of one order.                                *)
LEMMA NoticeStep ==
  ASSUME TypeOK, [Next]_vars, NEW p \in Orders, OrderNoticed(p)
  PROVE  OrderNoticed(p)'
<1> DEFINE A == acked[p]
           D == due[OrderPaid][p]
           S == Started(p)
           F == faults[p]
<1>0. /\ A \in Nat /\ D \in Nat /\ S \in Nat /\ F \in Nat /\ NEndpoints \in Nat
      /\ mailing[p] \in Nat /\ sent[p] \in Nat /\ lost[p] \in Nat
      /\ S = mailing[p] + sent[p] + lost[p]
  BY RazorpayAssumption DEF TypeOK, Started, Events
<1>s. S' = mailing'[p] + sent'[p] + lost'[p]
  BY DEF Started
<1>a. /\ A + D <= NEndpoints
      /\ S <= A + F
      /\ p \notin captured => D = 0 /\ A = 0 /\ S = 0
  BY DEF OrderNoticed
<1> DEFINE Goal == /\ A' + D' <= NEndpoints
                   /\ S' <= A' + F'
                   /\ p \notin captured' => D' = 0 /\ A' = 0 /\ S' = 0
<1>b. SUFFICES Goal
  BY DEF OrderNoticed
<1>1. ASSUME NEW o \in Orders, NEW e \in Pending, Attempt(o, e) PROVE Goal
  <2>1. due'[OrderPaid] = due[OrderPaid]
    BY <1>1 DEF Attempt, Events, TypeOK, Pending, OrderPaid
  <2>2. captured' = captured /\ A' = A /\ D' = D /\ S' = S /\ F' = F
    BY <1>1, <1>s, <1>0, <2>1 DEF Attempt, mails
  <2> QED
    BY <2>2, <1>a
<1>2. ASSUME NEW o \in Orders, Capture(o) PROVE Goal
  <2>1. D' = IF p = o THEN NEndpoints ELSE D
    BY <1>2 DEF Capture, Events, TypeOK, OrderPaid, Captured
  <2>2. A' = A /\ S' = S /\ F' = F
    BY <1>2, <1>s, <1>0 DEF Capture, mails
  <2>3. captured' = captured \cup {o} /\ o \notin captured
    BY <1>2 DEF Capture
  <2> HIDE DEF A, D, S, F
  <2> QED
    BY <2>1, <2>2, <2>3, <1>a, <1>0
<1>3. ASSUME NEW o \in Orders, Mail(o) PROVE Goal
  <2>1. captured' = captured /\ A' = A /\ D' = D /\ F' >= F
    BY <1>3, <1>0 DEF Mail, MailSent, MailFails, gateway, Fault, Inc, TypeOK
  <2>2. S' = S /\ F' \in Nat
    <3>1. CASE MailSent(o)
      BY <3>1, <1>s, <1>0 DEF MailSent, TypeOK, Inc, Dec
    <3>2. CASE MailFails(o)
      BY <3>2, <1>s, <1>0 DEF MailFails, TypeOK, Inc, Dec, Fault
    <3> QED
      BY <1>3, <3>1, <3>2 DEF Mail
  <2> HIDE DEF A, D, S, F
  <2> QED
    BY <2>1, <2>2, <1>a, <1>0
<1>4. ASSUME NEW o \in Orders, NEW e \in Events, HandleWebhook(o, e) PROVE Goal
  <2>1. captured' = captured /\ F' = F
    BY <1>4 DEF HandleWebhook, gateway
  <2>2. CASE p = o /\ e = OrderPaid
    <3>1. A' = A + 1 /\ D' = D - 1 /\ D > 0
      BY <1>4, <2>2 DEF HandleWebhook, Inc, TypeOK, Events
    <3>2. S' = S \/ S' = S + 1
      BY <1>4, <2>2, <1>s, <1>0 DEF HandleWebhook, HandleWebhookEvents, Inc, TypeOK
    <3> HIDE DEF A, D, S, F
    <3> QED
      BY <2>1, <3>1, <3>2, <1>a, <1>0
  <2>3. CASE ~(p = o /\ e = OrderPaid)
    <3>1. A' = A /\ D' = D
      BY <1>4, <2>3 DEF HandleWebhook, Inc, TypeOK, Events
    <3>2. S' = S
      BY <1>4, <2>3, <1>s, <1>0 DEF HandleWebhook, HandleWebhookEvents, StartsMail, Inc, TypeOK
    <3> QED
      BY <2>1, <3>1, <3>2, <1>a
  <2> QED
    BY <2>2, <2>3
<1>5. ASSUME NEW o \in Orders, NEW e \in Events, HandleWebhookReplyLost(o, e) PROVE Goal
  <2>1. captured' = captured /\ A' = A /\ D' = D /\ F' = (IF p = o THEN F + 1 ELSE F)
    BY <1>5 DEF HandleWebhookReplyLost, gateway, Fault, Inc, TypeOK
  <2>2. S' = S \/ (S' = S + 1 /\ D > 0 /\ p = o)
    <3>1. CASE StartsMail(o, e) /\ p = o
      BY <1>5, <3>1, <1>s, <1>0
      DEF HandleWebhookReplyLost, HandleWebhookEvents, StartsMail, Inc, TypeOK
    <3>2. CASE ~(StartsMail(o, e) /\ p = o)
      BY <1>5, <3>2, <1>s, <1>0 DEF HandleWebhookReplyLost, HandleWebhookEvents, Inc, TypeOK
    <3> QED
      BY <3>1, <3>2
  <2> HIDE DEF A, D, S, F
  <2> QED
    BY <2>1, <2>2, <1>a, <1>0
<1>6. ASSUME NEW o \in Orders, NEW e \in Events, GiveUp(o, e) \/ Abandon(o, e) PROVE Goal
  <2>1. captured' = captured /\ A' = A /\ S' = S /\ F' \in {F, F + 1}
    BY <1>6, <1>s, <1>0 DEF GiveUp, Abandon, gateway, mails, Fault, Inc, TypeOK
  <2>2. D' = D \/ (D' = D - 1 /\ D > 0)
    BY <1>6 DEF GiveUp, Abandon, Events, TypeOK
  <2> HIDE DEF A, D, S, F
  <2> QED
    BY <2>1, <2>2, <1>a, <1>0
<1>7. ASSUME Crash PROVE Goal
  <2>1. captured' = captured /\ A' = A /\ D' = D /\ F' = F
    BY <1>7 DEF Crash, gateway
  <2>2. S' = S
    BY <1>7, <1>s, <1>0 DEF Crash, None
  <2> QED
    BY <2>1, <2>2, <1>a
<1>8. ASSUME (\E o \in Orders, e \in Events : RefuseWebhook(o, e)) \/ Restart \/ UNCHANGED vars
      PROVE Goal
  <2>1. captured' = captured /\ A' = A /\ D' = D /\ S' = S /\ F' = F
    BY <1>8, <1>s, <1>0 DEF RefuseWebhook, Restart, vars, gateway, mails
  <2> QED
    BY <2>1, <1>a
<1> QED
  BY <1>1, <1>2, <1>3, <1>4, <1>5, <1>6, <1>7, <1>8 DEF Next, Webhook

(* Deliveries and mails of every order are accounted for in every state.   *)
THEOREM NoticesAreAccounted == Spec => []NoticesAccounted
<1>1. Init => NoticesAccounted
  <2> SUFFICES ASSUME Init, NEW o \in Orders PROVE OrderNoticed(o)
    BY DEF NoticesAccounted, OrderNoticed
  <2>1. acked[o] = 0 /\ due[OrderPaid][o] = 0 /\ Started(o) = 0 /\ faults[o] = 0
    BY DEF Init, None, Events, Started
  <2> QED
    BY <2>1, RazorpayAssumption DEF OrderNoticed
<1>2. TypeOK /\ NoticesAccounted /\ [Next]_vars => NoticesAccounted'
  BY NoticeStep DEF NoticesAccounted, OrderNoticed
<1> QED
  BY <1>1, <1>2, TypeCorrect, PTL DEF Spec

(* At most one mail per registered URL and per failure.                    *)
THEOREM ConfirmationBound == Spec => []ConfirmationsBounded
<1>1. TypeOK /\ NoticesAccounted => ConfirmationsBounded
  <2> SUFFICES ASSUME TypeOK, NoticesAccounted, NEW o \in Orders
               PROVE  sent[o] <= NEndpoints + faults[o]
    BY DEF ConfirmationsBounded
  <2>1. /\ sent[o] \in Nat /\ mailing[o] \in Nat /\ lost[o] \in Nat
        /\ acked[o] \in Nat /\ due[OrderPaid][o] \in Nat /\ faults[o] \in Nat
    BY DEF TypeOK, Events
  <2>2. acked[o] + due[OrderPaid][o] <= NEndpoints /\ Started(o) <= acked[o] + faults[o]
    BY DEF NoticesAccounted
  <2> QED
    BY <2>1, <2>2, RazorpayAssumption DEF Started
<1> QED
  BY <1>1, TypeCorrect, NoticesAreAccounted, PTL

-----------------------------------------------------------------------------
(* What makes the account of the URLs inductive: an order.paid that was     *)
(* refused announces a capture, in a body that nothing changes any more.   *)
RefusedForGood ==
  \A o \in Orders :
    <<OrderPaid, o>> \in refused => o \in captured /\ <<OrderPaid, o>> \notin canonical

LEMMA RefusalsLast == Spec => []RefusedForGood
<1>1. Init => RefusedForGood
  BY DEF Init, RefusedForGood
<1>2. TypeOK /\ NoticesAccounted /\ RefusedForGood /\ [Next]_vars => RefusedForGood'
  <2> SUFFICES ASSUME TypeOK, NoticesAccounted, RefusedForGood, [Next]_vars,
                      NEW p \in Orders, <<OrderPaid, p>> \in refused'
               PROVE  p \in captured' /\ <<OrderPaid, p>> \notin canonical'
    BY DEF RefusedForGood
  <2> DEFINE Goal == p \in captured' /\ <<OrderPaid, p>> \notin canonical'
  <2>0. <<OrderPaid, p>> \in refused => p \in captured /\ <<OrderPaid, p>> \notin canonical
    BY DEF RefusedForGood
  <2>1. ASSUME NEW o \in Orders, NEW e \in Pending, Attempt(o, e) PROVE Goal
    <3>1. e # OrderPaid
      BY DEF Pending, OrderPaid
    <3>2. <<OrderPaid, p>> \in canonical' => <<OrderPaid, p>> \in canonical
      BY <2>1, <3>1 DEF Attempt, Announce
    <3> QED
      BY <2>0, <2>1, <3>2 DEF Attempt
  <2>2. ASSUME NEW o \in Orders, Capture(o) PROVE Goal
    <3>1. <<OrderPaid, p>> \in refused /\ p # o
      BY <2>0, <2>2 DEF Capture
    <3>2. <<OrderPaid, p>> \in canonical' => <<OrderPaid, p>> \in canonical
      BY <2>2, <3>1 DEF Capture, Announce
    <3> QED
      BY <2>0, <2>2, <3>1, <3>2 DEF Capture
  <2>3. ASSUME NEW o \in Orders, NEW e \in Events, RefuseWebhook(o, e) PROVE Goal
    <3>1. UNCHANGED <<captured, canonical>> /\ refused' = refused \cup {<<e, o>>}
      BY <2>3 DEF RefuseWebhook, gateway
    <3>2. CASE e = OrderPaid /\ p = o
      <4>1. due[OrderPaid][p] # 0 /\ <<OrderPaid, p>> \notin canonical
        BY <2>3, <3>2 DEF RefuseWebhook, SignatureMatches
      <4> QED
        BY <3>1, <4>1 DEF NoticesAccounted
    <3>3. CASE ~(e = OrderPaid /\ p = o)
      BY <2>0, <3>1, <3>3
    <3> QED
      BY <3>2, <3>3
  <2>4. ASSUME UNCHANGED <<captured, canonical, refused>> PROVE Goal
    BY <2>0, <2>4
  <2>5. ASSUME NEW o \in Orders, Mail(o) PROVE Goal
    BY <2>4, <2>5 DEF Mail, MailSent, MailFails, gateway
  <2>6. ASSUME NEW o \in Orders, NEW e \in Events,
               HandleWebhook(o, e) \/ HandleWebhookReplyLost(o, e)
        PROVE  Goal
    BY <2>4, <2>6 DEF HandleWebhook, HandleWebhookReplyLost, gateway
  <2>7. ASSUME NEW o \in Orders, NEW e \in Events, GiveUp(o, e) \/ Abandon(o, e) PROVE Goal
    BY <2>4, <2>7 DEF GiveUp, Abandon, gateway
  <2>8. ASSUME Crash \/ Restart \/ UNCHANGED vars PROVE Goal
    BY <2>4, <2>8 DEF Crash, Restart, gateway, vars
  <2> QED
    BY <2>1, <2>2, <2>3, <2>5, <2>6, <2>7, <2>8 DEF Next, Webhook
<1> QED
  BY <1>1, <1>2, TypeCorrect, NoticesAreAccounted, PTL DEF Spec

-----------------------------------------------------------------------------
(* What makes MissingMailsExplained inductive: every URL of a payment that *)
(* can be mailed has its delivery due, its mail under way or sent, or a    *)
(* failure that explains why not.  Deliveries are abandoned only where     *)
(* they were refused, which RefusalsLast rules out.                        *)
Mailable(o) ==
  o \in captured /\ <<OrderPaid, o>> \in canonical /\ o \in withEmail /\ crashes = 0
UrlsAccounted ==
  \A o \in Orders :
    Mailable(o) => due[OrderPaid][o] + mailing[o] + sent[o] + faults[o] >= NEndpoints

(* One step keeps the account of the URLs of one order.                    *)
LEMMA UrlStep ==
  ASSUME TypeOK, UrlsAccounted, RefusedForGood, [Next]_vars,
         NEW p \in Orders, Mailable(p)'
  PROVE  (due[OrderPaid][p] + mailing[p] + sent[p] + faults[p] >= NEndpoints)'
<1> DEFINE D == due[OrderPaid][p]
           M == mailing[p]
           S == sent[p]
           F == faults[p]
           Goal == D' + M' + S' + F' >= NEndpoints
<1>0. D \in Nat /\ M \in Nat /\ S \in Nat /\ F \in Nat /\ NEndpoints \in Nat
  BY RazorpayAssumption DEF TypeOK, Events
<1>a. Mailable(p) => D + M + S + F >= NEndpoints
  BY DEF UrlsAccounted
<1>b. SUFFICES Goal
  OBVIOUS
<1>1. ASSUME NEW o \in Orders, NEW e \in Pending, Attempt(o, e) PROVE Goal
  <2>1. due'[OrderPaid] = due[OrderPaid]
    BY <1>1 DEF Attempt, Events, TypeOK, Pending, OrderPaid
  <2>2. Mailable(p)
    <3>1. e # OrderPaid
      BY DEF Pending, OrderPaid
    <3>2. <<OrderPaid, p>> \in canonical' => <<OrderPaid, p>> \in canonical
      BY <1>1, <3>1 DEF Attempt, Announce
    <3> QED
      BY <1>1, <3>2 DEF Attempt, Mailable
  <2> QED
    BY <1>1, <1>a, <2>1, <2>2 DEF Attempt, mails
<1>2. ASSUME NEW o \in Orders, Capture(o) PROVE Goal
  <2>1. D' = IF p = o THEN NEndpoints ELSE D
    BY <1>2 DEF Capture, Events, TypeOK, OrderPaid, Captured
  <2>2. M' = M /\ S' = S /\ F' = F
    BY <1>2 DEF Capture, mails
  <2>3. p # o => Mailable(p)
    <3>1. p # o => (<<OrderPaid, p>> \in canonical' => <<OrderPaid, p>> \in canonical)
      BY <1>2 DEF Capture, Announce
    <3> QED
      BY <1>2, <3>1 DEF Capture, Mailable
  <2> HIDE DEF D, M, S, F
  <2> QED
    BY <2>1, <2>2, <2>3, <1>a, <1>0
<1>3. ASSUME NEW o \in Orders, Mail(o) PROVE Goal
  <2>1. Mailable(p) /\ D' = D
    BY <1>3 DEF Mail, MailSent, MailFails, gateway, Mailable
  <2>2. /\ M' \in Nat /\ S' \in Nat /\ F' \in Nat
        /\ \/ M' = M /\ S' = S /\ F' \in {F, F + 1}
           \/ M' = M - 1 /\ S' = S + 1 /\ F' = F
           \/ M' = M - 1 /\ S' = S /\ F' = F + 1
    <3>1. CASE MailSent(o)
      BY <3>1, <1>0 DEF MailSent, TypeOK, Inc, Dec
    <3>2. CASE MailFails(o)
      BY <3>2, <1>0 DEF MailFails, TypeOK, Dec, Inc, Fault
    <3> QED
      BY <1>3, <3>1, <3>2 DEF Mail
  <2> QED
    BY <2>1, <2>2, <1>a, <1>0
<1>4. ASSUME NEW o \in Orders, NEW e \in Events,
             HandleWebhook(o, e) \/ HandleWebhookReplyLost(o, e)
      PROVE  Goal
  <2>1. Mailable(p) /\ S' = S
    BY <1>4 DEF HandleWebhook, HandleWebhookReplyLost, gateway, Mailable
  <2>2. M' = IF p = o /\ e = OrderPaid THEN M + 1 ELSE M
    BY <1>4, <2>1
    DEF HandleWebhook, HandleWebhookReplyLost, HandleWebhookEvents, StartsMail, Mailable, TypeOK, Inc
  <2>3. D' = D \/ (p = o /\ e = OrderPaid /\ D' = D - 1)
    BY <1>4 DEF HandleWebhook, HandleWebhookReplyLost, TypeOK, Events
  <2>4. F' \in {F, F + 1}
    BY <1>4 DEF HandleWebhook, HandleWebhookReplyLost, Fault, Inc, TypeOK
  <2> HIDE DEF D, M, S, F
  <2> QED
    BY <2>1, <2>2, <2>3, <2>4, <1>a, <1>0
<1>5. ASSUME NEW o \in Orders, NEW e \in Events, GiveUp(o, e) PROVE Goal
  <2>1. Mailable(p) /\ M' = M /\ S' = S /\ F' = IF p = o THEN F + 1 ELSE F
    BY <1>5 DEF GiveUp, gateway, mails, Mailable, Fault, Inc, TypeOK
  <2>2. D' = D \/ (p = o /\ D' = D - 1)
    BY <1>5 DEF GiveUp, TypeOK, Events
  <2> HIDE DEF D, M, S, F
  <2> QED
    BY <2>1, <2>2, <1>a, <1>0
<1>6. ASSUME NEW o \in Orders, NEW e \in Events, Abandon(o, e) PROVE Goal
  <2>1. Mailable(p) /\ M' = M /\ S' = S /\ F' = F
    BY <1>6 DEF Abandon, gateway, mails, Mailable
  <2>2. ~(p = o /\ e = OrderPaid)
    BY <1>6, <2>1 DEF Abandon, RefusedForGood, Mailable
  <2>3. D' = D
    BY <1>6, <2>2 DEF Abandon, TypeOK, Events
  <2> QED
    BY <2>1, <2>3, <1>a
<1>7. ASSUME Crash PROVE FALSE
  BY <1>7 DEF Crash, Mailable, TypeOK
<1>8. ASSUME (\E o \in Orders, e \in Events : RefuseWebhook(o, e)) \/ Restart \/ UNCHANGED vars
      PROVE Goal
  BY <1>8, <1>a DEF RefuseWebhook, Restart, vars, gateway, mails, Mailable
<1> QED
  BY <1>1, <1>2, <1>3, <1>4, <1>5, <1>6, <1>7, <1>8 DEF Next, Webhook

(* Without a crash, every mail an acceptable payment lacks once nothing is *)
(* under way was prevented by a failure.                                   *)
THEOREM NoUnexplainedLoss == Spec => []MissingMailsExplained
<1>1. Init => UrlsAccounted
  BY DEF Init, UrlsAccounted, Mailable
<1>2. TypeOK /\ RefusedForGood /\ UrlsAccounted /\ [Next]_vars => UrlsAccounted'
  BY UrlStep DEF UrlsAccounted
<1>3. TypeOK /\ UrlsAccounted => MissingMailsExplained
  <2> SUFFICES ASSUME TypeOK, UrlsAccounted, NEW o \in Announceable,
                      due[OrderPaid][o] = 0, mailing[o] = 0, crashes = 0
               PROVE  sent[o] + faults[o] >= NEndpoints
    BY DEF MissingMailsExplained
  <2>1. o \in Orders /\ sent[o] \in Nat /\ faults[o] \in Nat
    BY DEF TypeOK, Announceable
  <2> QED
    BY <2>1, RazorpayAssumption DEF UrlsAccounted, Mailable, Announceable, SignatureMatches
<1> QED
  BY <1>1, <1>2, <1>3, TypeCorrect, RefusalsLast, PTL DEF Spec

-----------------------------------------------------------------------------
(* The pipeline implements the ledger.  A mail can only follow a capture   *)
(* because an order.paid delivery can: NoticesAccounted carries that.      *)
THEOREM ImplementsLedger == Spec => KeepsLedger
<1>1. Init => Ledger!LedgerInit
  BY DEF Init, Ledger!LedgerInit, None
<1>2. TypeOK /\ NoticesAccounted /\ [Next]_vars => [Ledger!LedgerNext]_(Ledger!ledgerVars)
  <2> DEFINE Same == UNCHANGED <<captured, mailing, sent>>
  <2> SUFFICES ASSUME TypeOK, NoticesAccounted, [Next]_vars
               PROVE  Ledger!LedgerNext \/ Same
    BY DEF Ledger!ledgerVars
  <2>1. ASSUME NEW o \in Orders, NEW e \in Pending, Attempt(o, e) PROVE Same
    BY <2>1 DEF Attempt, mails
  <2>2. ASSUME NEW o \in Orders, Capture(o) PROVE Ledger!Pay(o)
    BY <2>2 DEF Capture, mails, Ledger!Pay
  <2>3. ASSUME NEW o \in Orders, MailSent(o) PROVE Ledger!Confirm(o)
    <3>1. o \in captured
      <4>1. mailing[o] > 0 /\ mailing[o] \in Nat /\ sent[o] \in Nat /\ lost[o] \in Nat
        BY <2>3 DEF MailSent, TypeOK
      <4> QED
        BY <4>1 DEF NoticesAccounted, Started
    <3> QED
      BY <2>3, <3>1 DEF MailSent, gateway, Inc, Dec, Ledger!Confirm
  <2>4. ASSUME NEW o \in Orders, MailFails(o) PROVE Ledger!Forget
    <3>1. mailing' \in [Orders -> Nat] /\ \A p \in Orders : mailing'[p] <= mailing[p]
      BY <2>4 DEF MailFails, TypeOK, Dec
    <3>2. UNCHANGED <<captured, sent>>
      BY <2>4 DEF MailFails, gateway
    <3> QED
      BY <3>1, <3>2 DEF Ledger!Forget
  <2>5. ASSUME NEW o \in Orders, NEW e \in Events,
               HandleWebhook(o, e) \/ HandleWebhookReplyLost(o, e)
        PROVE  Ledger!Accept(o) \/ Same
    BY <2>5 DEF HandleWebhook, HandleWebhookReplyLost, HandleWebhookEvents, gateway, Inc,
                Ledger!Accept
  <2>6. ASSUME NEW o \in Orders, NEW e \in Events,
               RefuseWebhook(o, e) \/ GiveUp(o, e) \/ Abandon(o, e)
        PROVE  Same
    BY <2>6 DEF RefuseWebhook, GiveUp, Abandon, gateway, mails
  <2>7. ASSUME Crash PROVE Ledger!Forget
    <3>1. mailing' \in [Orders -> Nat] /\ \A p \in Orders : mailing'[p] <= mailing[p]
      BY <2>7 DEF Crash, None, TypeOK
    <3>2. UNCHANGED <<captured, sent>>
      BY <2>7 DEF Crash, gateway
    <3> QED
      BY <3>1, <3>2 DEF Ledger!Forget
  <2>8. ASSUME Restart \/ UNCHANGED vars PROVE Same
    BY <2>8 DEF Restart, vars, gateway, mails
  <2> QED
    BY <2>1, <2>2, <2>3, <2>4, <2>5, <2>6, <2>7, <2>8 DEF Next, Mail, Webhook, Ledger!LedgerNext
<1> QED
  BY <1>1, <1>2, TypeCorrect, NoticesAreAccounted, PTL
  DEF Spec, KeepsLedger, Ledger!LedgerSpec
=============================================================================
