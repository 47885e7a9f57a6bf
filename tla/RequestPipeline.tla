--------------------------- MODULE RequestPipeline ---------------------------
(***************************************************************************)
(* Requests on their way through the service: the route, the global        *)
(* validation pipe (validation.pipe.ts), the controller, the gateway it    *)
(* asks, and the interceptor or the filter that answers.  Clients repeat a *)
(* request that was not answered with SUCCESS.                             *)
(*                                                                         *)
(* A body is one of                                                        *)
(*   Malformed  no JSON,                                                   *)
(*   Invalid    breaks a decorator of the route's DTO,                     *)
(*   Refused    well formed, but an unknown product or order, or a         *)
(*              signature that does not match,                             *)
(*   Good       anything else.                                             *)
(***************************************************************************)
EXTENDS HttpAnswers

CONSTANTS Clients,
          MaxTries,  \* bound: requests per client
          MaxFaults  \* bound: failed calls of a gateway and crashes of the service

PipelineAssumption ==
  /\ MaxTries \in Nat \ {0} /\ MaxFaults \in Nat
  /\ Absent \notin {BadRequest, NotFound, InternalServerError, PlainError}

VARIABLES
  request,  \* client -> route and body of its request
  pc,       \* client -> where the request is
  outcome,  \* client -> the value the handler threw, or Absent for a result
  answer,   \* client -> the answer it read, or Absent
  tries,    \* client -> requests it made
  done,     \* client -> times its request took effect: an order created, an event handled
  heard,    \* client -> whether it read SUCCESS
  unheard,  \* client -> effects whose answer was lost on the way back
  asked,    \* requests that got a gateway to work
  faults

vars == <<request, pc, outcome, answer, tries, done, heard, unheard, asked, faults>>

-----------------------------------------------------------------------------
(* Routes. *)

Orders   == {"cashfree/create-order", "razorpay/order"}
Webhooks == {"cashfree/webhook", "razorpay/webhook"}
Lists    == {"", "cashfree/products", "razorpay/products"}
Posts    == Orders \cup Webhooks \cup {"razorpay/verify"}
Routes   == Posts \cup Lists \cup {"cashfree/order-status"}

\* Routes whose body has a class with decorators: CreateCashfreeOrderDto,
\* CreateRazorpayOrderDto and VerifyPaymentDto.  Events are declared as a union
\* or as any, which both become Object.
Validated == Orders \cup {"razorpay/verify"}

\* Routes the service can refuse on its own: no such product, no such signature.
SelfRefusing == Orders \cup {"razorpay/verify", "razorpay/webhook"}

\* Routes whose handler waits for a gateway.
Calling == Orders \cup {"razorpay/verify", "cashfree/order-status"}

Bodies(route) ==
  {"Good"} \cup (IF route \in Posts THEN {"Malformed"} ELSE {})
           \cup (IF route \in Validated THEN {"Invalid"} ELSE {})
           \cup (IF route \in SelfRefusing \cup {"cashfree/order-status"} THEN {"Refused"} ELSE {})

Requests ==
  (UNION {[route : {r}, body : Bodies(r)] : r \in Routes}) \cup [route : {"unknown"}, body : {"Good"}]

Status(route) == IF route \in Posts THEN 201 ELSE 200

Init ==
  /\ request \in [Clients -> Requests]
  /\ pc = [c \in Clients |-> "idle"]
  /\ outcome = [c \in Clients |-> Absent]
  /\ answer = [c \in Clients |-> Absent]
  /\ tries = [c \in Clients |-> 0]
  /\ done = [c \in Clients |-> 0]
  /\ heard = [c \in Clients |-> FALSE]
  /\ unheard = [c \in Clients |-> 0]
  /\ asked = {}
  /\ faults = 0

Goto(c, where)  == pc' = [pc EXCEPT ![c] = where]
Throws(c, e)    == outcome' = [outcome EXCEPT ![c] = e] /\ Goto(c, "thrown")
Returns(c)      == outcome' = [outcome EXCEPT ![c] = Absent] /\ Goto(c, "returned")
Route(c)        == request[c].route
Body(c)         == request[c].body
client          == <<request, answer, tries, heard>>

-----------------------------------------------------------------------------
(* The client. *)

Send(c) ==
  /\ pc[c] \in {"idle", "answered", "dropped"}
  /\ tries[c] < MaxTries /\ ~heard[c]
  /\ tries' = [tries EXCEPT ![c] = @ + 1]
  /\ answer' = [answer EXCEPT ![c] = Absent]
  /\ Goto(c, "sent")
  /\ UNCHANGED <<request, outcome, done, heard, unheard, asked, faults>>

-----------------------------------------------------------------------------
(* The service. *)

\* Nest: parses the body, then looks for the handler.
Accept(c) ==
  /\ pc[c] = "sent"
  /\ \/ Body(c) = "Malformed" /\ Throws(c, BadRequest)
     \/ Body(c) # "Malformed" /\ Route(c) \notin Routes /\ Throws(c, NotFound)
     \/ Body(c) # "Malformed" /\ Route(c) \in Routes /\ Goto(c, "piped") /\ UNCHANGED outcome
  /\ UNCHANGED <<client, done, unheard, asked, faults>>

\* Variant of ToValidate: the class of the body is asked instead of the one
\* declared, and a parsed body is a plain Object.
ToValidateInstances(route) == FALSE

\* ValidationPipe.toValidate: not for String, Boolean, Number, Array and Object.
ToValidate(route) == route \in Validated

\* ValidationPipe.transform.  It passes on the body it was given, not the object
\* it validated.
Pipe(c) ==
  /\ pc[c] = "piped"
  /\ IF ToValidate(Route(c)) /\ Body(c) = "Invalid"
     THEN Throws(c, BadRequest)
     ELSE Goto(c, "handled") /\ UNCHANGED outcome
  /\ UNCHANGED <<client, done, unheard, asked, faults>>

\* The controllers: what the client gets for an error of the service.
Mapped(route) ==
  CASE route \in Validated              -> BadRequest
    [] route = "cashfree/order-status"  -> InternalServerError
    [] route = "razorpay/webhook"       -> PlainError

\* The handlers that wait for nobody: the lists, the greeting, and the webhooks,
\* which start the processing of an event and answer.
HandleLocally(c) ==
  /\ pc[c] = "handled" /\ Route(c) \notin Calling
  /\ IF Body(c) = "Refused" THEN Throws(c, Mapped(Route(c))) ELSE Returns(c)
  /\ done' = IF Body(c) # "Refused" /\ Route(c) \in Webhooks THEN [done EXCEPT ![c] = @ + 1] ELSE done
  /\ UNCHANGED <<client, unheard, asked, faults>>

\* The handlers that ask a gateway; what the service refuses on its own is not asked.
HandleCalling(c) ==
  /\ pc[c] = "handled" /\ Route(c) \in Calling
  /\ \/ /\ Body(c) = "Refused" /\ Route(c) \in SelfRefusing
        /\ Throws(c, Mapped(Route(c))) /\ UNCHANGED asked
     \/ /\ ~(Body(c) = "Refused" /\ Route(c) \in SelfRefusing)
        /\ Goto(c, "calling") /\ asked' = asked \cup {request[c]} /\ UNCHANGED outcome
  /\ UNCHANGED <<client, done, unheard, faults>>

\* The effect of a call at the gateway.
Effect(c) == IF Route(c) \in Orders THEN 1 ELSE 0

GatewayAnswers(c) ==
  /\ pc[c] = "calling" /\ Body(c) # "Refused"
  /\ done' = [done EXCEPT ![c] = @ + Effect(c)]
  /\ Returns(c)
  /\ UNCHANGED <<client, unheard, asked, faults>>

\* It knows no such order.
GatewayRefuses(c) ==
  /\ pc[c] = "calling" /\ Body(c) = "Refused"
  /\ Throws(c, Mapped(Route(c)))
  /\ UNCHANGED <<client, done, unheard, asked, faults>>

\* Variant of CallFails: the service repeats the call by itself.
CallFailsAndRepeats(c) ==
  /\ pc[c] = "calling" /\ faults < MaxFaults
  /\ faults' = faults + 1
  /\ done' = [done EXCEPT ![c] = @ + Effect(c)]
  /\ UNCHANGED <<client, outcome, pc, unheard, asked>>

\* The call fails, before it had its effect or after.
CallFails(c) ==
  /\ pc[c] = "calling" /\ faults < MaxFaults
  /\ faults' = faults + 1
  /\ Throws(c, Mapped(Route(c)))
  /\ \E e \in IF Body(c) = "Refused" THEN {0} ELSE {0, Effect(c)} :
       /\ done' = [done EXCEPT ![c] = @ + e]
       /\ unheard' = [unheard EXCEPT ![c] = @ + e]
  /\ UNCHANGED <<client, asked>>

\* Variant of Respond: a thrown value is the result of the request.
RespondThrown(c) ==
  /\ pc[c] \in {"returned", "thrown"}
  /\ answer' = [answer EXCEPT ![c] = Transform("", Status(Route(c)))]
  /\ heard' = [heard EXCEPT ![c] = TRUE]
  /\ outcome' = [outcome EXCEPT ![c] = Absent]
  /\ Goto(c, "answered")
  /\ UNCHANGED <<request, tries, done, unheard, asked, faults>>

\* The interceptor answers a result, the filter a thrown value.
Respond(c) ==
  /\ pc[c] \in {"returned", "thrown"}
  /\ LET a == IF pc[c] = "returned" THEN Transform("", Status(Route(c))) ELSE Catch(outcome[c])
     IN /\ answer' = [answer EXCEPT ![c] = a]
        /\ heard' = [heard EXCEPT ![c] = a.body.status = "SUCCESS"]
  /\ outcome' = [outcome EXCEPT ![c] = Absent]
  /\ Goto(c, "answered")
  /\ UNCHANGED <<request, tries, done, unheard, asked, faults>>

\* The process ends and is started again.  Calls on their way may still have their
\* effect; results that were not answered are lost.
Crash ==
  /\ faults < MaxFaults
  /\ faults' = faults + 1
  /\ LET open    == {c \in Clients : pc[c] \notin {"idle", "answered", "dropped"}}
         calls   == {c \in open : pc[c] = "calling" /\ Body(c) # "Refused" /\ Effect(c) = 1}
         results == {c \in open : pc[c] = "returned" /\ Route(c) \in Orders \cup Webhooks}
     IN \E late \in SUBSET calls :
          /\ done' = [c \in Clients |-> done[c] + (IF c \in late THEN 1 ELSE 0)]
          /\ unheard' = [c \in Clients |-> unheard[c] + (IF c \in late \cup results THEN 1 ELSE 0)]
          /\ pc' = [c \in Clients |-> IF c \in open THEN "dropped" ELSE pc[c]]
          /\ outcome' = [c \in Clients |-> IF c \in open THEN Absent ELSE outcome[c]]
  /\ UNCHANGED <<client, asked>>

-----------------------------------------------------------------------------
Serve(c) ==
  \/ Accept(c) \/ Pipe(c) \/ HandleLocally(c) \/ HandleCalling(c) \/ Respond(c)
  \/ GatewayAnswers(c) \/ GatewayRefuses(c)

Next == Crash \/ \E c \in Clients : Send(c) \/ Serve(c) \/ CallFails(c)

Spec == Init /\ [][Next]_vars

-----------------------------------------------------------------------------
TypeOK ==
  /\ request \in [Clients -> Requests]
  /\ pc \in [Clients -> {"idle", "sent", "piped", "handled", "calling", "returned", "thrown",
                         "answered", "dropped"}]
  /\ tries \in [Clients -> 0..MaxTries] /\ done \in [Clients -> 0..MaxTries]
  /\ \A c \in Clients : pc[c] = "thrown" <=> outcome[c] # Absent
  /\ asked \subseteq Requests /\ faults \in 0..MaxFaults

\* An order or an event that has its effect more often than its client was told
\* of is one whose answer got lost: the pipeline itself repeats nothing, and the
\* repetitions of a client can double an order only after such a loss.
EffectsExplained ==
  \A c \in Clients :
    pc[c] # "returned" =>
      done[c] = unheard[c] + (IF heard[c] /\ Route(c) \in Orders \cup Webhooks THEN 1 ELSE 0)

\* Only bodies that passed the pipe, and that the service itself did not refuse,
\* make it ask a gateway.
OnlyCheckedAsked ==
  \A a \in asked :
    /\ a.body \notin {"Malformed", "Invalid"}
    /\ a.body = "Refused" => a.route = "cashfree/order-status"

\* The status tells whose turn it is, as far as the controllers let it: without a
\* fault a refused request is answered with a 4xx exactly if its sender can mend
\* it, except that the lookup of an order and the event of a wrong signature are
\* answered as if the service had failed.
StatusExplained ==
  \A c \in Clients :
    pc[c] = "answered" /\ faults = 0 =>
      /\ answer[c].http < 400 <=> Body(c) = "Good" /\ Route(c) \in Routes
      /\ answer[c].http = 404 <=> Route(c) \notin Routes
      /\ answer[c].http = 500 <=>
           Body(c) = "Refused" /\ Route(c) \in {"cashfree/order-status", "razorpay/webhook"}
=============================================================================
