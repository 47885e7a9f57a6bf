------------------------------- MODULE Mailer -------------------------------
(***************************************************************************)
(* EmailService (common/email/email.service.ts) with its template factory  *)
(* and templates: every kind of mail the service can be asked for, the one *)
(* SMTP transport they share, and the answer each caller gets.             *)
(*                                                                         *)
(* What a template prints is the set of the fields a reader sees, each     *)
(* with its value; layout and wording are left out.  The data of a payment *)
(* confirmation is what the two gateways' services make of a payment.      *)
(***************************************************************************)
EXTENDS Naturals, FiniteSets, Sequences

CONSTANTS Payments,   \* records [gateway, order, id, email, name, time, rupees]
          Customers,  \* addresses the other mails go to
          Calls,      \* calls of the service that may overlap
          Missing,    \* undefined or null
          MaxFaults   \* bound: failures of the SMTP server or of the connection

MailerAssumption ==
  /\ MaxFaults \in Nat
  /\ \A p \in Payments :
       /\ p.gateway \in {"cashfree", "razorpay"} /\ p.rupees \in Nat
       /\ Missing \notin {p.order, p.id, p.email, p.time}
  /\ \A c \in Customers : Missing \notin {c, <<"reset", c>>, <<"html", c>>}
  /\ Missing \notin Nat \cup {"Product A", "dummy product", "INR", "1 hour", ""}

VARIABLES
  verified, \* what became of the connection check: "pending", "ok" or "failed"
  call,     \* per call: what was asked for, and how far it is
  outbox,   \* per call: the messages the SMTP server took from it
  faults

vars == <<verified, call, outbox, faults>>

Idle == [at |-> "idle"]

\* createTransporter starts verify() and does not wait for it.
Init ==
  /\ verified = "pending"
  /\ call = [c \in Calls |-> Idle]
  /\ outbox = [c \in Calls |-> <<>>]
  /\ faults = 0

Fault == faults < MaxFaults /\ faults' = faults + 1

\* The result is logged; nothing else depends on it.
VerifyConnection ==
  /\ verified = "pending"
  /\ \/ verified' = "ok" /\ UNCHANGED faults
     \/ verified' = "failed" /\ Fault
  /\ UNCHANGED <<call, outbox>>

-----------------------------------------------------------------------------
(* What the mails are about. *)

\* cashfree.service.ts states a fixed amount and product.
CashfreeData(p) ==
  [name |-> p.name, orderId |-> p.order, transactionId |-> p.id, product |-> "Product A",
   paymentDate |-> p.time, currency |-> "INR", amount |-> 100]

\* razorpay.service.ts passes the amount of the payment entity on, in paise.
RazorpayData(p) ==
  [name |-> p.email, orderId |-> p.order, transactionId |-> p.id, product |-> "dummy product",
   paymentDate |-> p.time, currency |-> "INR", amount |-> 100 * p.rupees]

ConfirmationData(p) == IF p.gateway = "cashfree" THEN CashfreeData(p) ELSE RazorpayData(p)

\* A mail as its caller asks for it; an empty subject leaves it to the template.
Asked(type, to, subject, data) == [type |-> type, to |-> to, subject |-> subject, data |-> data]

Confirmation(p) == Asked("payment_confirmation", p.email, "", ConfirmationData(p))
Welcome(c, url) == Asked("welcome", c, "", [name |-> c, email |-> c, loginUrl |-> url])
PasswordReset(c) == Asked("password_reset", c, "", [name |-> c, resetUrl |-> <<"reset", c>>, expiresIn |-> "1 hour"])
Custom(c, subject) == Asked("custom", c, subject, [html |-> <<"html", c>>])

\* sendEmail can be called with a subject of its own, with a type no template
\* exists for and without data.
Direct(p) ==
  {Asked("payment_confirmation", p.email, "Receipt", ConfirmationData(p)),
   Asked("newsletter", p.email, "", ConfirmationData(p)),
   Asked("payment_confirmation", p.email, "", Missing)}

\* Mails that are about no payment.
Personal(c) ==
  {Welcome(c, url) : url \in {Missing, "login"}} \cup {PasswordReset(c)}
  \cup {Custom(c, subject) : subject \in {"", "News"}}

Requests ==
  (UNION {{Confirmation(p)} \cup Direct(p) : p \in Payments})
  \cup (UNION {Personal(c) : c \in Customers})

-----------------------------------------------------------------------------
(* The templates. *)

Templates == {"welcome", "payment_confirmation", "password_reset"}

Field(data, f) == <<f, IF f \in DOMAIN data THEN data[f] ELSE Missing>>
Fields(data, fs) == {Field(data, f) : f \in fs}

\* Variant: the button is there with or without an address for it.
WelcomeHtmlAlways(data) == Fields(data, {"name", "email", "loginUrl"})

\* The button appears only if there is an address for it.
WelcomeHtml(data) ==
  Fields(data, {"name", "email"} \cup {f \in {"loginUrl"} : data.loginUrl # Missing})

PaymentConfirmationHtml(data) ==
  Fields(data, {"name", "orderId", "transactionId", "product", "paymentDate", "currency", "amount"})

PasswordResetHtml(data) == Fields(data, {"name", "resetUrl", "expiresIn"})

GenerateHtml(type, data) ==
  CASE type = "welcome"              -> WelcomeHtml(data)
    [] type = "payment_confirmation" -> PaymentConfirmationHtml(data)
    [] type = "password_reset"       -> PasswordResetHtml(data)

GetSubject(type, data) ==
  CASE type = "welcome"              -> <<"Welcome to Our Platform", data.name>>
    [] type = "payment_confirmation" -> <<"Payment Confirmation", data.orderId>>
    [] type = "password_reset"       -> <<"Reset Your Password", "">>

Subject(m) == IF m.subject # "" THEN <<m.subject, "">> ELSE GetSubject(m.type, m.data)

\* Variant: the templates are shared and fill in what they were given last.
MessageShared(m) ==
  LET last == CHOOSE c \in Calls : call[c].at # "idle" /\ call[c].mail.type = m.type /\ call[c].mail.data # Missing
  IN [to |-> m.to, subject |-> <<m.subject, "">>,
      html |-> IF m.type = "custom" THEN {} ELSE GenerateHtml(m.type, call[last].mail.data)]

\* The message handed to the transport.
Message(m) ==
  IF m.type = "custom" THEN [to |-> m.to, subject |-> <<m.subject, "">>, html |-> Fields(m.data, {"html"})]
  ELSE [to |-> m.to, subject |-> Subject(m), html |-> GenerateHtml(m.type, m.data)]

\* createTemplate throws for an unknown type, generateHtml without data.
Composable(m) == m.type = "custom" \/ (m.type \in Templates /\ m.data # Missing)

-----------------------------------------------------------------------------
(* The calls. *)

\* Variant: the catch block returns nothing.
ReturnedNothing(c, answer) ==
  call' = [call EXCEPT ![c] = [at |-> "returned", mail |-> @.mail, answer |-> IF answer THEN TRUE ELSE Missing]]

\* The promise of the call resolves; it never rejects.
Returned(c, answer) == call' = [call EXCEPT ![c] = [at |-> "returned", mail |-> @.mail, answer |-> answer]]

\* sendEmail, directly or through one of the methods for a kind of mail, and
\* sendCustomEmail: the call waits for the transport.
SendEmail(c, m) ==
  /\ call[c] = Idle
  /\ Composable(m)
  /\ call' = [call EXCEPT ![c] = [at |-> "sending", mail |-> m]]
  /\ UNCHANGED <<verified, outbox, faults>>

\* What is thrown before anything is sent becomes the answer false.
SendEmailThrows(c, m) ==
  /\ call[c] = Idle
  /\ ~Composable(m)
  /\ call' = [call EXCEPT ![c] = [at |-> "returned", mail |-> m, answer |-> FALSE]]
  /\ UNCHANGED <<verified, outbox, faults>>

\* Variant: mails wait for the connection check.
TakenOnceVerified(c) ==
  /\ call[c].at = "sending"
  /\ verified = "ok"
  /\ outbox' = [outbox EXCEPT ![c] = Append(@, Message(call[c].mail))]
  /\ call' = [call EXCEPT ![c].at = "taken"]
  /\ UNCHANGED <<verified, faults>>

\* The SMTP server takes the message.
Taken(c) ==
  /\ call[c].at = "sending"
  /\ outbox' = [outbox EXCEPT ![c] = Append(@, Message(call[c].mail))]
  /\ call' = [call EXCEPT ![c].at = "taken"]
  /\ UNCHANGED <<verified, faults>>

\* Its reply arrives.
Answer(c) ==
  /\ call[c].at = "taken"
  /\ Returned(c, TRUE)
  /\ UNCHANGED <<verified, outbox, faults>>

\* Variant: a mail whose reply is lost is sent again.
FailsAndRepeats(c) ==
  /\ call[c].at \in {"sending", "taken"}
  /\ Fault
  /\ call' = [call EXCEPT ![c].at = "sending"]
  /\ UNCHANGED <<verified, outbox>>

\* The message is refused, or the reply is lost after it was taken.
Fails(c) ==
  /\ call[c].at \in {"sending", "taken"}
  /\ Fault
  /\ Returned(c, FALSE)
  /\ UNCHANGED <<verified, outbox>>

Next ==
  \/ VerifyConnection
  \/ \E c \in Calls : \E m \in Requests : SendEmail(c, m) \/ SendEmailThrows(c, m)
  \/ \E c \in Calls : Taken(c) \/ Answer(c) \/ Fails(c)

Spec == Init /\ [][Next]_vars

\* The transport ends every dialogue it began, one way or the other.
FairSpec == Spec /\ \A c \in Calls : WF_vars(Taken(c) \/ Answer(c) \/ Fails(c))

-----------------------------------------------------------------------------
TypeOK ==
  /\ verified \in {"pending", "ok", "failed"}
  /\ \A c \in Calls :
       /\ call[c].at \in {"idle", "sending", "taken", "returned"}
       /\ call[c].at # "idle" => call[c].mail \in Requests
       /\ call[c].at = "returned" => call[c].answer \in BOOLEAN
  /\ DOMAIN call = Calls /\ DOMAIN outbox = Calls
  /\ faults \in 0..MaxFaults

Mails == {e \in Calls \X {1, 2} : e[2] \in DOMAIN outbox[e[1]]}
Mail(e) == outbox[e[1]][e[2]]
Shown(mail, f) == {v[2] : v \in {w \in mail.html : w[1] = f}}

\* However many mails are under way, a confirmation is about one payment only:
\* address, greeting, order, transaction and date belong together, and a
\* subject that names an order names the same one.
OnePaymentPerMail ==
  \A e \in Mails : Shown(Mail(e), "orderId") # {} =>
    \E p \in Payments :
      /\ Mail(e).to = p.email
      /\ Shown(Mail(e), "orderId") = {p.order}
      /\ Shown(Mail(e), "transactionId") = {p.id}
      /\ Shown(Mail(e), "paymentDate") = {p.time}
      /\ Shown(Mail(e), "name") \subseteq {p.name, p.email}
      /\ Mail(e).subject[2] \in {p.order, ""}

\* A caller told true has had exactly one mail sent.  One told false had none
\* sent, or is accounted for by a failure of the connection: a mail that can be
\* composed never comes to nothing by itself.
AnswersAccounted ==
  /\ \A c \in Calls : call[c].at = "returned" =>
       /\ call[c].answer => Len(outbox[c]) = 1
       /\ ~Composable(call[c].mail) => ~call[c].answer /\ outbox[c] = <<>>
  /\ \A c \in Calls : Len(outbox[c]) <= 1
  /\ Cardinality({c \in Calls : call[c].at = "returned" /\ ~call[c].answer /\ Composable(call[c].mail)}) <= faults

\* Nobody reads `undefined' in a mail, except as the name of a Cashfree customer
\* the gateway has no name for.
OnlyNamesMissing ==
  \A e \in Mails : \A v \in Mail(e).html :
    v[2] = Missing => v[1] = "name" /\ \E p \in Payments : p.gateway = "cashfree" /\ p.email = Mail(e).to

\* Every call returns, whatever became of the connection check.
CallsReturn == \A c \in Calls : call[c].at = "sending" ~> call[c].at = "returned"
=============================================================================
