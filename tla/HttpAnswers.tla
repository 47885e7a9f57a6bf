---------------------------- MODULE HttpAnswers -----------------------------
(***************************************************************************)
(* What becomes of results and of errors on their way to the client: the   *)
(* response envelope (common/iresponse.ts), the interceptor and the        *)
(* exception filter that fill it in, and the helpers that turn errors of   *)
(* upstream services into HTTP errors (common/exceptions).                 *)
(*                                                                         *)
(* A thrown value is a record: its class, the status it carries (0 if      *)
(* none) and, for an upstream error, the response that came with it.       *)
(***************************************************************************)
EXTENDS Naturals, Sequences

CONSTANT Absent \* undefined

\* Classes of thrown values, each with the classes it is an instance of.
Ancestors ==
  [Value |-> {"Value"}, Error |-> {"Error"},
   HttpException       |-> {"HttpException", "Error"},
   BadRequestException |-> {"BadRequestException", "HttpException", "Error"},
   BadGatewayException |-> {"BadGatewayException", "HttpException", "Error"},
   NotFoundException   |-> {"NotFoundException", "HttpException", "Error"},
   DuplicateRecordException |-> {"DuplicateRecordException", "HttpException", "Error"},
   UserNotFoundException    |-> {"UserNotFoundException", "HttpException", "Error"}]

Classes == DOMAIN Ancestors
InstanceOf(e, class) == class \in Ancestors[e.class]

Thrown(class, status) == [class |-> class, status |-> status]

\* The exceptions of common/exceptions and the ones of Nest used with them.
BadRequest      == Thrown("BadRequestException", 400)
BadGateway      == Thrown("BadGatewayException", 502)
NotFound        == Thrown("NotFoundException", 404)
DuplicateRecord == Thrown("DuplicateRecordException", 409)
UserNotFound    == Thrown("UserNotFoundException", 412)
PlainError      == Thrown("Error", 0)
InternalServerError == Thrown("HttpException", 500)

-----------------------------------------------------------------------------
(* The envelope. *)

\* IResponse.ofResult and ofError; setStatusCode sets code.
OfResult(code) == [status |-> "SUCCESS", code |-> code]
OfError(code)  == [status |-> "NOT_SUCCESS", code |-> code]

\* ResponseTransformInterceptor: the body of an answer that is not an error.
Transform(controller, http) ==
  [http |-> http, body |-> IF controller = "HealthController" THEN Absent ELSE OfResult(http)]

\* Variants of Catch: the status of the response is not set, and errors that are
\* no HttpException are answered with the status they happen to carry.
CatchUnset(e) ==
  [http |-> 201, body |-> OfError(IF InstanceOf(e, "HttpException") THEN e.status ELSE 500)]
CatchRaw(e) == [http |-> e.status, body |-> OfError(e.status)]

\* AllExceptionsFilter: any other error is an internal one.
Catch(e) ==
  LET ex == IF InstanceOf(e, "HttpException") THEN e ELSE InternalServerError
  IN [http |-> ex.status, body |-> OfError(ex.status)]

-----------------------------------------------------------------------------
(* The helpers. *)

\* Errors of an upstream call: a response may have come with them, with data and
\* a status of its own.
Responses == [data : {Absent} \cup [statusCode : {Absent, 404, 409}], status : {Absent, 403, 502}]
Upstream  == [class : {"Value", "Error"}, status : {0}, response : {Absent} \cup Responses]

\* Variant: the status of the response goes before the one in its data.
HttpExceptionThrowerOuter(e) ==
  IF e.response # Absent /\ e.response.status # Absent THEN Thrown("HttpException", e.response.status)
  ELSE InternalServerError

\* HttpExceptionThrower.throw.  Data is read whenever there is data or a status,
\* so a status without data ends in a TypeError.
HttpExceptionThrower(e) ==
  LET r == e.response IN
  IF r = Absent THEN InternalServerError
  ELSE IF r.data = Absent THEN IF r.status = Absent THEN InternalServerError ELSE PlainError
  ELSE IF r.data.statusCode # Absent THEN Thrown("HttpException", r.data.statusCode)
  ELSE IF r.status # Absent THEN Thrown("HttpException", r.status)
  ELSE InternalServerError

\* handleException throws every Error on as it is and makes a result of the rest;
\* its branches for single classes are never reached.
HandleException(e) == IF InstanceOf(e, "Error") THEN e ELSE Absent

\* Variant: the most general match counts.
HandleSpecificErrorsLast(e, mappings) ==
  LET hits == {i \in DOMAIN mappings : InstanceOf(e, mappings[i].errorType)} IN
  IF hits = {} THEN InternalServerError
  ELSE Thrown("HttpException", mappings[CHOOSE i \in hits : \A j \in hits : j <= i].status)

\* handleSpecificErrors: the first mapping whose class fits.
HandleSpecificErrors(e, mappings) ==
  LET hits == {i \in DOMAIN mappings : InstanceOf(e, mappings[i].errorType)} IN
  IF hits = {} THEN InternalServerError
  ELSE Thrown("HttpException", mappings[CHOOSE i \in hits : \A j \in hits : i <= j].status)
=============================================================================
