# Verification of the payment service

TLA+ models, TLC runs and TLAPS proofs for the payment service of this
repository: a NestJS application that creates orders at two payment gateways
(Cashfree and Razorpay), receives their webhooks and mails the customer a
confirmation. Nothing is stored: the only state is in the gateways, in one
product catalogue in memory, and in the handlers suspended at an `await`. What
is hard about this program therefore lies between its steps: events answered
before they are processed, repeated deliveries, lost answers, crashes with work
in flight, state used after an await, calls repeated after an error.

Paths below are relative to the repository's own `src/`, which the manifest
names as `src/src/`.

## 1. Inventory

### Parts in use (imported by `app.module.ts`)

| Part | State | Operations | What makes it hard | What makes it correct |
|---|---|---|---|---|
| Cashfree webhook (`payment/controller/cashfree.controller.ts`, `payment/service/cashfree.service.ts`) | suspended handlers, mails in flight | `handleWebhook`, `handleWebHookEvents`, `handlePaymentSuccess`, `getOrderStatus`, `sendSuccessfulPaymentEmailNotification` | answers before processing, never awaits handler or mail, three URLs, no recognition of repetitions, status read back once, over a connection without a timeout | only paid orders confirmed; duplicates and losses bounded by their causes; a handler that hangs takes nothing with it but its own confirmation |
| Razorpay webhook (`payment/controller/razorpay.controller.ts`, `payment/service/razorpay.service.ts`) | mails in flight | `handleWebhook`, `handleWebhookEvents`, `handlePaymentSuccessEvent` | signature over a re-serialised body, refusals repeated by the gateway, two events for one payment | one kind of event mails; a refused event costs no mail but its own |
| Razorpay checkout (`verifyPayment`, `fetchPaymentDetails`) | none | `POST /razorpay/order`, `POST /razorpay/verify` | fails for a verified payment when the details cannot be fetched, whereupon the customer may pay again | a second order, and so a second charge, needs a failed request; the page never claims what did not happen |
| Order creation (`createOrder` of both services, `payment/payment-manager.ts`) | suspended requests, three copies of the prices | `createOrder`, `processRazorpayPayment`, `processCashfreePayment` | price taken before an await and shown after it; answer lost after the order exists | what is shown was charged; answers match orders |
| Cashfree catalogue (`cashfree.service.ts`) | product objects shared by reference | `addProduct`, `removeProduct`, `updateProduct`, `getProducts` | edited while requests are suspended | edits do not disturb other requests |
| Cashfree refunds (`initiateRefund`) | none between two awaits | `initiateRefund` | check and post are separated by an await; fresh id per call; every failure is the same error | refunds bounded by what callers asked for and by broken connections; only paid orders |
| E-mail (`common/email`) | the SMTP connection | `sendEmail`, its wrappers, the templates, `verifyConnection` | several mails composed and under way at once; `false` for every failure | no mail carries data of another payment; what `false` can mean |
| Request pipeline (`common/pipes`, `common/filters`, `common/interceptors`, `common/iresponse.ts`, `common/exceptions`) | none | validate, map errors, wrap results | every controller maps errors its own way, so a client cannot tell what to repeat | each effect and each status has its cause; one status per answer |
| Bootstrap (`main.ts`, `microserviceFactory.factory.ts`, `env.ts`, `common/logger`) | `process.env`, static fields | the calls of `bootstrap`, `listen` | each call reads what an earlier one set; after one of them failures are only logged | requests meet a whole service only; what a failed start reports |

Requests and gateway calls interact through promises only: the controller calls
a service, the service suspends at an HTTP request or an SMTP dialogue, and other
requests run meanwhile. Product objects are the only state two requests share.

### Parts in the repository that the application does not import

| Part | State | What makes it hard | What makes it correct |
|---|---|---|---|
| Google calendar and mail providers (`common/gcp`) | one client field per provider object | every call overwrites the client while others are suspended; a removal reads the attendees, awaits and writes them | no call reaches another account; only what overlaps is undone |
| MIME texts (`createRawEmail`) | none | a fixed boundary between parts | what was written is read |
| Entities and repositories (`auth/entities`, `auth/repositories`, `database`) | documents, entities held by callers | copies of a document edited and saved as a whole; ids drawn once per process; errors become `null` | updates lose only what overlaps them; ids, dates and tokens accounted for |
| Sockets (`common/adapters/socket.adaptor.ts`, `socket-connection/`) | what is kept on the client, adaptors held elsewhere | adaptors outlive connections, several share a client | who receives an event; ids distinct |
| Handler chains (`common/sequence.ts`) | links between handlers | a chain grows while an event passes through it | it ends unless joined to itself |
| Cipher, hash, push tokens (`common/encryption-decryption.ts`, `common/utils`, `common/push_token_splitter.ts`) | none | grid sides recomputed, 32-bit arithmetic, labels found by substring | against a definition of what each should compute |
| Log lines (`common/logger`) | `APPLICATION_NAME` | values that cannot be printed | what is lost, and why |
| Pagination (`common/models/common.models.ts`) | none | a list edited between two pages | what is missed or repeated, and why |

The authentication and user services, their controllers and guards, the storage
provider and several modules are commented out from the first line to the last.

## 2. Modules

One module per component, a pure part (`HttpAnswers`, `RawEmail`) where two
modules share it, an `MC` module per specification that is run, and a proof
module for each of the five payment modules and for each of the three sums.

| Module | Models |
|---|---|
| `ConfirmationLedger` | the abstract promise of both webhook pipelines: obligations to confirm are accepted, discharged once by a mail while the order is paid, or forgotten |
| `CashfreeWebhook` | the Cashfree pipeline; implements the ledger |
| `RazorpayWebhook` | the Razorpay pipeline; implements the ledger |
| `RazorpayCheckout` | a purchase from order to verification, composed with `RazorpayWebhook`, whose actions it uses |
| `PaymentOrders` | order creation at both gateways and through `PaymentManager`, with the check of the Razorpay body, composed with the editable catalogue |
| `CashfreeRefund` | refunds with repeating, concurrent callers |
| `Mailer` | the e-mail service and its templates |
| `HttpAnswers`, `ErrorMapping` | envelope, interceptor, filter and the error helpers; one error through one helper |
| `RequestPipeline` | every route with every kind of body, clients that repeat, gateways that fail |
| `Bootstrap` | configuration and start |
| `GoogleCalendar`, `GoogleMail`, `RawEmail` | the two providers; the MIME text |
| `EntityStore` | one collection, its entity class and repository |
| `UserSessions` | users and refresh tokens together, under concurrent sign-ins |
| `SocketConnections`, `HandlerChain` | connections and adaptors; chains of handlers |
| `TranspositionCipher`, `StringHash`, `PushTokens`, `LogLines`, `Pagination` | the utilities, step by step where the code loops |
| `MCService`, `MCSharedState`, `MCCommon` | instances of the components outside `payment/`, see below |
| other `MC*` | the values the runs give to constants, and symmetry |
| `CashfreeWebhookProofs`, `RazorpayWebhookProofs`, `RazorpayCheckoutProofs`, `PaymentOrdersProofs`, `CashfreeRefundProofs` | theorems about the payment modules |
| `MCServiceProofs`, `MCSharedStateProofs`, `MCCommonProofs` | theorems about the sums, for every value of their constants |

**The three sums.** `MCService`, `MCSharedState` and `MCCommon` instantiate
several components each. The variable `part`, chosen initially, says which of
them a behaviour follows; the other components keep an initial state. The
components share no variable and none calls another, so each property of a
component holds of all its behaviours exactly if it holds of the behaviours of
the sum that follow it; it is trivially true of the others, which stutter.
Fairness is asked of mails and chains when they are followed, as `FairSpec` of
`Mailer` and `HandlerChain` asks it. Where components do interact they are composed for real:
`RazorpayCheckout` with the webhook, `PaymentOrders` with the catalogue,
`GoogleMail` with `RawEmail`, `RequestPipeline` with `HttpAnswers`.

### How state and actions correspond to the code

**CashfreeWebhook.** Handlers of one order do not differ in anything but the
order, so those suspended at an await are counted: `looking` in
`getOrderStatus`, `mailing` in `transporter.sendMail`. The synchronous stretch
from the arrival of a request to its first await is one action (`HandleWebhook`,
which contains `HandleWebHookEvents`); `VerifiedPaid`, `VerifiedUnpaid` and
`VerificationFails` are what follows the await of `getOrderStatus`, `MailSent`
and `MailFails` what follows the await of the mail. `VerificationHangs` is the
status request a gateway neither answers nor closes: `HttpModule` is imported
without a timeout, so the handler joins those in `hung` and stays there until the
process ends. `HandleWebhookReplyLost` is
the same handler when its answer does not arrive, so that the delivery stays
due. `Crash` empties everything in memory. `acked`, `sent`, `early` and `lost`
record what became of deliveries and handlers; no guard reads them.

**RazorpayWebhook.** `canonical` has the events whose body `JSON.stringify` gives
back byte by byte, `withEmail` the payments that carry an address. Each event has
a body of its own: whether it is canonical is chosen when the event is raised
(`Announce`), so of the two events that announce one payment one may pass the
check and the other be refused. `RefuseWebhook` is the error thrown on a signature mismatch, a
500 that keeps the delivery due until the gateway stops (`Abandon`).

**RazorpayCheckout.** `phase` is what the customer's page is at.
`CreateOrder`, `OrderCreated`, `OrderAnswered` and `OrderFails` are `POST
/razorpay/order` around its await, which may leave an order behind nobody was
told of, `VerifyPayment`, `FetchPaymentDetails`, `FetchFails` and `Verified` those
of `POST /razorpay/verify`, `VerifiedUnheard` an answer that is lost.
`Capture` is the gateway's and is the pipeline's own capture; `Crash` is one
step of both. A customer told of a failure, or told nothing, may ask again or
start over with a new order (`StartOver`).

**PaymentOrders.** A Cashfree product is the n-th object made for its id;
`createOrder` holds `<<p, n>>` across its await, `addProduct` makes a new
object, `updateProduct` writes into the current one. A request for a Razorpay order has
any of the fields of its DTO, or lacks them (`given`); `Validated` is what the
pipe lets through, and `RazorpayAmount` takes the default for an amount that is
missing or 0. `named` records whether the client chose the amount. Razorpay's catalogue and
`PaymentManager`'s are the constant `BasePrice`: no code writes to them.
`named`, `touched` and `edited` are history, read by properties only. Product ids that
happen to be names of `Object.prototype` are outside the model.

**CashfreeRefund.** A caller is a client of `initiateRefund` with one refund in
mind who may call again after an error. A broken connection is reported before
or after the gateway acts, so a request given up may still be carried out
(`stray`). An amount that is not given is 0, as `refundAmount || order_amount`
does not tell the two apart; the code keeps no balance of what it refunded.

**Mailer.** `call[c]` is one call of `sendEmail` from composition to return;
`CashfreeData` and `RazorpayData` are the objects the two services hand to the
template, field by field, `PaymentConfirmationHtml` the fields the template
shows, with `undefined` where the caller named none. `SendEmail` composes and
suspends, `Taken` is the SMTP server accepting the mail, `Answer` and `Fails`
end the call, the latter also after the mail was taken.

**RequestPipeline, HttpAnswers, ErrorMapping.** A thrown value is its class,
its status and the upstream response it came with. `Pipe` is the global
validation pipe, `HandleLocally` the stretch of a handler up to its answer or
its first await, `HandleCalling` and `GatewayAnswers`, `GatewayRefuses` and
`CallFails` what comes after it, `Respond` the interceptor or the filter.
`Mapped(route)` is the error a route's own `catch` makes of a fault.

**Bootstrap.** `real`, `dot` and `file` are the three sources of configuration;
`ImportLogger`, `DotenvConfig`, `EnvFileName` and `ForRoot` read them in the
order of the imports. `Install(s)` are the calls of `bootstrap` in `main.ts`,
`Create` and `CreateFails` the instantiation of the modules, which needs the
credentials of both gateways since both services' constructors ask for theirs,
`Listen` and `ListenFails` the promise nobody awaits; `Uncaught` and `Throws`
are exceptions after and before a listener for them exists.

**GoogleCalendar, GoogleMail.** `calendar` and `gmail` are the shared fields,
`bound[c]` the client a call uses for its requests; a method up to its await is
one action, Google's execution of the request (`Serve`) a second and the rest
of the method a third. `missed` records who joined or left between the read and
the write of a removal.

**RawEmail.** The text is a sequence of lines, a line a tuple named by its
kind; `PartsRead` is what a reader of MIME makes of it.

**EntityStore.** An entity is a record of the builder's fields. `ToBuilder` and
`Build` follow each class's copying constructor and its `build`, including the
default ids and dates; `Default` are the values the schemas fill in, `null` among
them, and `Merged` what the repository's save does to a document, `null` included.
`FindOne` is the one query that leaves out the id as well. The repositories' own
methods answer every error with `null`, those they inherit let it through
(`Refused`): users are created by an inherited one. `CallFails` is a failure of
the database before it carries out an insertion, an update or a deletion, or
after it, when only the answer is lost. `stale` records what others changed since
an entity was loaded.

**UserSessions.** The three steps of a registration and of a refresh lie between
awaits and interleave; a lookup, a create and a removal fail before they are
carried out or lose their answer. What a sign-in does with the repositories is
the callers' business (`auth.service.ts` is commented out); the module only says
what the repositories answer them. `rivals` and `misled` record addresses two callers were
about to register and lookups that failed.

**SocketConnections, HandlerChain.** What an adaptor knows of a client is stored
with the client (`backendId`, `authorized`); `Of`, `ToClient`,
`SendEventToClient`, `SendEventToServer` are the methods of the same names.
`next` is the field of `Sequence`, `AddNext` its walk to the end, `Execute`,
`Pass` and `Return` an execution handler by handler.

**Utilities.** `StringHash` and `PushTokens` take the code's loop one iteration a
step; an element of a token string may carry two labels, of which the code's first test
decides and the rest stays in the token, and `true` and `1` are the texts that
switch the sandbox on; the cipher's two methods are one action each, with the grid's sides computed as
in the code; `Pagination` reads page after page while `PutIn` and `TakeOut`
edit the list; `LogLines` formats one entry and reads it back.

The gateways, the SMTP and database servers, Google, socket.io, the process
supervisor and the callers of parts nothing calls are environment, modelled
from what the code does with them.

## 3. Runs

| Run | Shows |
|---|---|
| `cashfree_safety` | `ConfirmedOnlyPaid`; `DeliveryAccounting`: every delivery of a success event is answered, due, given up or repeated, each deviation paid for by one failure that struck the same order; `MissingMailsExplained`: so is each missing mail, unless the status was answered too early; `KeepsLedger`: refinement of `ConfirmationLedger` |
| `cashfree_confirmed` | `PaidEventuallyConfirmed`: a paid order is confirmed, or a crash, or a failure or early answer of its own at every URL prevented it; a status request that is never answered holds up nothing else |
| `cashfree_reply` | violation of `ReplyMeansProcessed`, see the findings |
| `razorpay_safety` | `NoticesAccounted`: before the capture nothing is mailed, and of two events announcing it only one leads to mails, at most one per delivery answered and per failure; `MissingMailsExplained`: a refused `payment.captured` costs no mail; `KeepsLedger`; `CapturedEventuallyConfirmed` |
| `razorpay_genuine` | violation of `GenuineEventsAccepted` |
| `checkout_safety` | `ChargesExplained`: each order beyond the first, charged or left behind, is paid for by a failed request or a crash; `ClaimsAreTrue`: what the page claims to the customer has happened |
| `orders_safety` | `ShownIsCharged`; `OrdersMatchAnswers`; `GatewaysAgreeUntilEdited`: every route charges the same for a product nobody edited, unless the client chose the amount |
| `orders_amount` | violation of `MissingAmountUsesDefault` |
| `refund_safety` | `RefundsPerCaller`: at most one refund more than broken connections; `AnswersTellTheTruth`; `RefundsExplained`: what left an order's account adds up to what callers were told of, and at most one refund more per broken connection; two concurrent callers may together exceed what was charged |
| `service_safety` | `RequestsAccounted`, `StartAccounted`, `MailsAccounted`, `ChainsAccounted`, `WorkReturns` |
| `shared_safety` | `OwnAccountOnly`, `AnswersTellTheTruth` (both providers), `WritesExplained` (attendees and entities), `SessionsAccounted` |
| `common_safety` | `StatusKept`, `AlgorithmsAgree`, `LossesExplained`, `SocketsApart` |

Every passing run also checks a type invariant. The properties of the three sums
are conjunctions of the components' own, one idea each:

| Property | Conjuncts |
|---|---|
| `RequestsAccounted` | `EffectsExplained`: an effect its client was not told of is one whose answer was lost; `OnlyCheckedAsked`: only validated bodies make the service ask a gateway; `StatusExplained`: a 4xx if the client can mend its request, with the two exceptions the controllers make |
| `StartAccounted` | `ServedWhole`: pipe, filter, interceptor, session and both gateways' credentials are there before the first request; `QuietEndExplained`: a failed start is reported as a success only after `addProcessTitle`; `ServingSurvives`: nothing uncaught ends a service that serves |
| `MailsAccounted` | `OnePaymentPerMail`, `AnswersAccounted`: `true` and `false` up to failures, `OnlyNamesMissing`: no other field reads `undefined` |
| `ChainsAccounted` | `EndlessOnlyByRejoining`, `HandledOnce`, `NothingUnlinked` |
| `WorkReturns` | liveness: `CallsReturn`: every mail is reported on, whatever became of the connection check; `ExecutionsEnd`: so is every execution of a chain that has an end |
| `OwnAccountOnly` | that of the calendar, `OwnMailboxOnly` |
| `AnswersTellTheTruth` | that of the calendar and of the mail provider; `IncompleteNeverSent` |
| `WritesExplained` | `RemovalUndoesOverlappingOnly`, `UpdateLosesOverlappingOnly`: what a stale write undoes was changed since the read; `NullMeansUnchanged`: with the database up `null` and errors leave the collection alone; `ThrowsExplained`: the two reasons to throw; `CreationDateKept`: a document's date is lost only to a save of an entity `create` did not return |
| `SessionsAccounted` | `SharedAddressExplained`: two users of one address need two registrations at one time or a failed lookup; `TokensAccounted` |
| `StatusKept` | `OneStatus`, `UpstreamPassedOn`, `MostSpecificFirst` |
| `AlgorithmsAgree` | `SentArrivesWhole`, `ParamsReadBack`, `IsPolynomial`, `RoundTrip`, and the cipher's `LossExplained` |
| `LossesExplained` | `MissesExplained`, `RepeatsExplained`, `LostTokensExplained`, `NothingInvented`, and that of log lines |
| `SocketsApart` | `BackendIdsDistinct`, `DefaultEventPrivate`, `AnswersMatchDelivery` |

The manifest's mutants break the conjuncts one by one.

`ConfirmationsBounded` (of both pipelines) and `RefundOnlyPaid` are proved for
all values of the constants and follow from, or stand beside, invariants the runs
do check; no run repeats them.

Some properties describe what the code does where one would wish for more, and
bound the damage instead of excluding it: `WritesExplained` lets a stale save undo
what others changed meanwhile, `SocketsApart` has the event of `to()` reach the
adaptor's own client, `StatusKept` has an upstream answer without data become a
500, `AnswersTellTheTruth` is silent on the attendees `addAttendee` replaces.

### Findings

The violated properties state what the code's own comments and messages say:

- `cashfree_reply`: the answer "Webhook processed successfully" is given while
  the handler still awaits the order's status; the branch for failed processing
  cannot be reached by an asynchronous error.
- `razorpay_genuine`: the comments ask for the raw body, the digest is computed
  over `JSON.stringify(body)`, so a genuine event may be refused on every retry.
- `orders_amount`: "If amount is not provided, use the product's default price"
  in `createOrder` cannot happen, because the pipe refuses a body that lacks any
  field of the DTO, and the amount is one.

Met while modelling, in the models as the code has it, without a run of their own:

- `addAttendee` (`common/gcp/calendar/calendar-provider.ts:212`) patches the
  event with the new attendee alone, and so replaces the list.
- `remove` of an array of tokens (`auth/repositories/refresh-token.repository.ts:83`)
  removes none: `RemoveMany` of `UserSessions` changes nothing.
- The Razorpay confirmation shows an amount in paise with the rupee sign
  (`payment/service/razorpay.service.ts:156`, `common/email/templates.ts:209`), the
  Cashfree one a fixed amount of 100 (`payment/service/cashfree.service.ts:279`).
- `.env` wins over the file for the mode, which `forRoot` reads later without
  overwriting (`env.ts:2`); a mode set in `.env` decides which file that is.
- The logger reads `SERVICE_NAME` when it is imported, before `.env` is loaded
  (`common/logger/logger.service.ts:34`).
- Page 0 and page 1 are the same page (`common/models/common.models.ts:144`).
- `customer_id` is drawn from the clock, so two orders of one millisecond share
  it (`payment/service/cashfree.service.ts:60`); not modelled, as nothing in the
  code reads it.

### Bounds

| Bound | Where | Why it is enough |
|---|---|---|
| two `Orders` | Cashfree safety, checkout, refunds | each order has failures of its own, in the Cashfree and Razorpay pipelines, and crashes strike all: two show that one's failures neither cause nor excuse the other's losses. One order with more URLs, attempts and failures in `cashfree_confirmed` and `razorpay_safety`; the proofs cover any number |
| `NEndpoints` 2 (1, 3) | webhooks | two URLs make duplicates and mutual backup; three are those of the comment in `createOrder` |
| `MaxAttempts` 1 or 2 | webhooks | unsuccessful attempts announced around the success |
| `MaxFaults` 1 or 2 | everywhere | a failure at each place of a handler (per order in the webhook pipelines, per part elsewhere); the second lets a retry fail again |
| `MaxCrashes` 1 or 2 | webhooks, checkout | a crash between any two steps, and during recovery |
| `MaxFailures` 1 | checkout | one failed request is enough for a second order |
| `MaxMade` 2, two `Calls`, `Prices` {0, 11}, `Amounts` {0, 9} | orders | an object and its replacement; two requests suspended together; 0 is the value the code treats as absent; every set of fields of the Razorpay body |
| `MaxCalls` 2, two `Callers`, order amount 2 | refunds | two partial refunds fit, two full ones do not and are made all the same |
| two `Clients`, `MaxTries` 2 | requests | one client's request and repetition beside another's |
| the sets `Reals`, `Dots`, `Files` | start | a key from any source or none, the credentials of none, one or both gateways, one of them empty; a mode with and one without a file, a port that is no number |
| two mails, two payments of each gateway | mails | overlap, a name that is missing, one customer with two payments |
| four handlers, `MaxVisits` 5 | chains | two chains of two joined; one visit more than there are handlers shows a cycle |
| two calls, two accounts, two people, one event, one message | providers | a removal overlapping an edit; a call for another account |
| two clients, two ids, five `Edits` | entities | two edits of one document; fields of every class, with and without a `null` default |
| `Drawing`: profiles and tokens | entities | one class that draws an id on creation and the one that always does; users and accounts, which draw as profiles do, are followed with the document's id or with none, where the shared id matters |
| two users, two tokens, two callers | sessions | registrations of one address and removals of one token at the same time |
| texts up to 8 letters, two calls of the cipher | cipher | squares, near squares and the sizes between; a text encrypted and decrypted, or encrypted twice |
| integers of 8 bits (`Half` 128), strings up to 5, codes with the top bits set | hash | several overflows, either way; the proof holds for every `Half` |
| two elements per token string | tokens | an element with any one or two labels, and a neighbour that may replace it |
| five items and one to come, two edits, limits up to 3 | pages | an item moved across a page's edge from either side, absent and zero limits |
| two sockets, two adaptors, three ids drawn | sockets | two adaptors of one client, a renewed id, a socket that left |

The proofs have none of these bounds: they hold for every value of the
constants.

### Fairness

- Cashfree pipeline: weak fairness, per order, of the gateway's deliveries, of
  the status requests and of the mails. Of a status request it asks for nothing
  but that it is answered, fails or hangs for ever, so nothing is assumed of the
  gateway there: what the property says of a handler that hangs is that it takes
  only its own confirmation with it. A mail ends one way or the other because
  nodemailer's own timeouts end the dialogue. Nothing is assumed about customers
  paying, the status API catching up or failures ceasing (they are bounded).
- Razorpay pipeline: weak fairness of the deliveries of each event and of the
  mails, for the same reasons; nothing is looked up there.
- `service_safety`: a dialogue with the mail server ends, as above, and a handler
  of a chain passes the event on or returns, since that is one call after another
  on the same stack. Nothing is assumed of requests, of the start or of a
  supervisor, none of which `WorkReturns` is about.

The restart in the two pipelines stands for a supervisor that is not in the
repository, and nothing is assumed of it: both properties excuse a crash.

Deadlock is not checked (`CHECK_DEADLOCK FALSE`): every model comes to rest when
the bounded environment has nothing more to do, or when the one call it follows
has returned.

## 4. Proofs

Every theorem is about all values of the constants that meet the named
assumptions. Each proof module first proves type correctness, whose content is
that counters that are decremented were positive and that references lead
somewhere; the other invariants rest on it.

### The payment modules

- **CashfreeWebhookProofs.** `ConfirmedOnlyPaid` is inductive with the types,
  because no action takes an order back from PAID. `DeliveryAccounting` is the
  inductive invariant from which the bounds follow: it balances, per order,
  answered and outstanding deliveries against handlers in any state and against
  failures, those that hang among them. `AccountStep` proves it step by step
  over one order's column of the state; then `ConfirmationsBounded` and
  `MissingMailsExplained` are arithmetic. `ImplementsLedger` maps every step to
  a ledger step or a stutter; it rests on `ConfirmedOnlyPaid` in one place,
  since `MailSent` is a ledger `Confirm` only while the order is paid, and
  `MailSent` itself does not look.
- **RazorpayWebhookProofs.** `NoticesAccounted` plays the same part;
  `MissingMailsExplained` follows from an account of the registered URLs of a
  payment that can be mailed: each has its delivery outstanding, a mail started
  for it or a failure; deliveries are abandoned only where one was refused, and
  `RefusedForGood` (lemma `RefusalsLast`) says that a refused `order.paid` is
  one whose body stays as it is, so that it rules them out for these payments.
  The refinement needs `NoticesAccounted` to know that a mail implies the
  capture, since the service never reads the order back.
- **RazorpayCheckoutProofs.** `ChargesExplained` follows from `Explained`: every
  order made but the one in hand has a failure or a crash of its own, and so has
  the one in hand as soon as the page believes the purchase failed, or is about to
  because the process is down. That is why a page which reaches nobody
  (`Unreachable`) needs no failure of its own: while the process is down no new
  order can be made. That a step of the purchase is one of the pipeline's or leaves
  it alone (`RefinesPipeline`) holds by the way the module is composed and is a
  lemma, for which the order a page pays must exist (`InHand`).
  `ClaimsAreTrue` uses the refinement: what
  `RazorpayWebhookProofs` proves of the pipeline alone is instantiated as
  `Proven` and holds of the purchase (`PipelineProven`); `Known` adds what the
  page and the verification under way know.
- **PaymentOrdersProofs.** Besides the types, `ShownIsCharged` needs the
  strengthening that the object a suspended request holds still has the price
  the request was charged, unless the request is in `touched`.
  `OrdersMatchAnswers` is inductive with the types; its proof rests on the lemma
  `CallStep`, which says what one step can do to one request.
  `GatewaysAgreeUntilEdited` follows from two facts: an unedited product of the
  built-in catalogue is still its first object at its base price
  (`CatalogueKept`), and every route posts that price unless the client chose an
  amount (`UnnamedPost`).
- **CashfreeRefundProofs.** `RefundsCounted` counts refunds made or under way
  against broken connections and the call the caller has running or answered;
  `RefundsPerCaller` and `AnswersTellTheTruth` follow. `RefundOnlyPaid` is
  inductive with the types: an order stays paid, so the check is still true when
  the request is posted. `RefundsExplained` compares sums over
  callers, recursive functions that the prover knows nothing about. The lemmas from
  `LeastSet` to `SumOfNothing` establish what is needed of them (a sum exists, is a
  number, grows by what one caller adds, is monotone and does not depend on the
  order), each by a least counterexample among the finite sets of callers.
  `TotalsKept` says that what an order was refunded is the sum of the refunds made
  for its callers, each of the amount its caller has in mind; with `RefundsCounted`
  the two bounds compare the sums caller by caller.

### The sums

A step of a sum is a step of one component or leaves its variables alone
(`PartStep`, `PartsStep`), so each component has its own inductive invariant,
and the theorems about the conjunctions put them together.

- **MCSharedStateProofs.** Calendar: `CalendarIInv` has the types, the account
  each call is bound to and the event it found; `WrittenOnce` says how often a
  call can have written, by where it is suspended; `ReadsKept` says that what a
  removal read and what is there now differ by people in `missed` only, so that
  a removal undoes only what overlaps it. Mail: `MailIInv` ties the mailboxes
  served to the call's own token, `OutboxCounted` counts texts against the calls
  that were served. Sessions: `AddressesApart` says that users of one address,
  or callers about to register it, are excused by `rivals` or `misled`;
  `Balanced` compares the tokens stored and removed with those issued, up to the
  answers nobody saw. Entities: `CopiesOK` says that what a client holds differs
  from the document it was made from only in fields it set or others changed
  (`stale`), under which id it was built, and that only entities from `create`
  still know their date. `NullStep`, `ErrorStep`, `SavesStep` and `DateStep` say
  of one step what the four conjuncts of `WritesExplained` about entities say of
  all.
- **MCServiceProofs.** Requests: `RequestIInv` relates, for each client, the
  place of its request to the error or result in hand, to its effects and to the
  answers that were lost. Start: `StartIInv` says after which call of
  `bootstrap` which part is installed (`InPlace`) and what an ended process left.
  Mails: `MailsIInv` says of every message on its way that it is the one composed
  for its call (`MailOK`) and counts failed answers; what a template shows is
  worked out once per kind of mail (`EveryMessage`). Chains: the handlers
  reachable from one are the least set closed under `next`; `ChainIInv` says
  that each such set has at most one end, that a ring has none, and that what an
  execution visited is linked in order.
- **MCCommonProofs.** Errors: `ErrorIInv` says which values each helper can have
  thrown; the first mapping that fits is found by a least number (`FirstHit`).
  Sockets: `SocketIInv`; a renewed id is drawn from a counter above every id in
  use (`DrawApart`), so rooms of two clients stay apart. Log lines and push
  tokens: `LogIInv` and `PushIInv` are loop invariants about the part formatted
  or read so far. Pages: `PageIInv` is the central one. Of the
  places read so far it bounds the items there that were never listed by the
  removals, and the repetitions, together with the listed items that stand at
  places yet to be read, by the insertions. An insertion or a removal moves one
  item at most across the edge between the two (`PutAtFronts`), and the next
  page begins at that edge (`PageBegins`, `PageCut`), so a miss or a repetition
  needs an edit of its own. The argument is the same for either order of the
  list, by reversal (`PutAtReversed`).
  Hash: `HashIInv` keeps the loop's index within the trimmed string and the hash
  within its range (`CutTypes`). Cipher: `Roots` and `RootUp` characterise the
  two roots, and `Grid` shows that decryption recomputes the sides encryption
  used. `RowColumn`, `CellOf` and `CellBack` are the arithmetic of cells. With
  them `Padded` computes what decryption reads of an encrypted text, the text
  and the padding behind it, so that `ThereAndBack` holds for texts of every
  length. `LettersLost` needs that no letter is dropped when the length of the
  text fits the grid: every letter has a cell (`CellFor`), every filled cell is
  read (`Ranked`) and trimming takes blanks only (`TrimKeeps`). Mail texts:
  `RawIInv` has the types of the one call. `TypeCorrect` puts the types of the
  eight parts together.

### Assumptions

The assumptions give constants their types and say that stand-ins for absent
values differ from present ones. Those that say more:

- `RefundAssumption`, `MailAssumption`: finitely many callers and calls, since
  sums and counts are taken over them.
- `BootAssumption`: every source names every key or leaves it absent, and a
  port given is a number or text; `PipelineAssumption`, `ErrorAssumption`: no
  error is the stand-in for none, and mappings are lists of a class and a status.
- `MailerAssumption`: the fields of a payment the templates print are there,
  except for the name, which neither service passes.
- `SocketAssumption`: a connection is not a set of connections (rooms and
  connections are addressed by the same method).
- `EntityAssumption`: `null` and `undefined` are not entities, ids or dates.
- `PaginationAssumption`: the list has no item twice, and a client that pages
  begins with the first page, named or left out. Limits are any numbers, also
  absent or zero.
- `CheckoutAssumption` includes that of the pipeline it is composed with, as
  `CommonAssumption`, `ServiceAssumption` and `SharedStateAssumption` include
  those of their components.

- `HashAssumption`: `Half` is above 1. With a single bit the value 1 of a blank
  string would be out of range, which the proof of the hash's type found.

The proofs made some definitions more precise. The choice of a built entity's id
(`BuiltId`) was a `CASE` with two guards that overlap when a builder without an
id is marked as an update; the code takes the branches in order, and so does the
model now.

### Only model-checked

- Liveness under fairness: `WorkReturns`, `PaidEventuallyConfirmed`,
  `CapturedEventuallyConfirmed`. Temporal reasoning
  about fairness and `ENABLED` is beyond the prover.
- `AlgorithmsAgree`, as a whole. Three of its five conjuncts are proved:
  `RoundTrip` and the cipher's `LossExplained` as the theorems `DecryptedBack`
  and `LettersLost`, `ParamsReadBack` in `LogHolds`. `SentArrivesWhole` reads a
  flattened sequence of lines and `IsPolynomial` sums powers of 31; both are
  inductions over the data inside functions of the library.
- The three expected violations, which are counterexamples.

## 5. Plan

The components the repository has code for are modelled, and all safety
properties of the runs but `AlgorithmsAgree` are proved. What is left of it, in
this order:

1. `IsPolynomial`: cutting respects addition and multiplication (two numbers
   that differ by a multiple of `2 * Half` are cut to the same), so that the
   loop is Horner's rule; the value of the polynomial has to be stated by that
   rule, since the prover knows nothing of powers.
2. `SentArrivesWhole`: the places of the delimiters in the flattened text, by
   the number of parts in front of them.

## 6. Not modelled

- Commented out from the first line to the last, so that there is no program:
  `auth/services/auth.service.ts`, `auth/users.service.ts`, the controllers of
  `auth` and users, `common/guards/guards.ts`, `common/guards/roles.guard.ts`,
  `common/gcp/storage/storage-provider.ts`, `auth/auth.module.ts`, the calendar,
  mail and storage modules and the Twitter strategy. `schemas.register.ts` is
  used by the commented-out `auth.module.ts` alone.
- Registered nowhere, so that they never run: `ServerAccessGuard`,
  `SentryInterceptor`, `LoggerMiddleware`, `HealthController`.
- Libraries: CORS, Swagger and session handling (only that they are installed,
  and when), index and transaction features of the database.
- Data declarations: DTOs, enums and constants, except the decorators of the
  payment DTOs (`RequestPipeline`) and the fields of the entities
  (`EntityStore`).
- Random ids and password hashes beyond the question whether two ids can be the
  same; the regular expressions and one-line conversions of `common/utils`.
- The HTML of mails beyond the fields shown, the wording of logs, HTTP headers,
  product names.
- Forged events: every event of the webhook modules is genuine; a signature
  that does not match appears in `RequestPipeline` as a refused body.
