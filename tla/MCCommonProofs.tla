--------------------------- MODULE MCCommonProofs ---------------------------
(***************************************************************************)
(* Proofs about the components of common/: the error helpers, pages of     *)
(* lists, push tokens, log lines, socket adaptors, the cipher, and the     *)
(* types of raw e-mails and of the hash, for every number of items,        *)
(* tokens, parameters and connections and for texts of every length.       *)
(***************************************************************************)
EXTENDS MCCommon, FiniteSets, FiniteSetTheorems, SequenceTheorems, TLAPS

LEMMA PartStep ==
  [Next]_vars =>
    /\ part' = part
    /\ [Error!Next]_errorVars /\ [Raw!Next]_rawVars /\ [Page!Next]_pageVars
    /\ [Cipher!Next]_cipherVars /\ [Hash!Next]_hashVars /\ [Push!Next]_pushVars
    /\ [Log!Next]_logVars /\ [Socket!Next]_socketVars
BY DEF Next, Rest, vars

\* A set of numbers has a least one.
LEMMA LeastNumber ==
  ASSUME NEW T \in SUBSET Nat, T # {}
  PROVE  \E n \in T : \A m \in T : n <= m
<1>1. PICK n \in T : \A m \in T : ~ (<<m, n>> \in OpToRel(<, Nat))
  BY NatLessThanWellFounded, WFMin
<1>2. ASSUME NEW m \in T PROVE n <= m
  <2>1. m \in Nat /\ n \in Nat
    BY <1>1
  <2>2. ASSUME m < n PROVE <<m, n>> \in OpToRel(<, Nat)
    <3>1. <<m, n>> \in Nat \X Nat /\ <<m, n>>[1] = m /\ <<m, n>>[2] = n
      BY <2>1
    <3> QED
      BY <2>2, <3>1 DEF OpToRel
  <2>3. ~ (m < n)
    BY <1>1, <2>2, Zenon
  <2> QED
    BY <2>1, <2>3
<1> QED
  BY <1>1, <1>2

-----------------------------------------------------------------------------
(* ErrorMapping. *)

ErrorResult == IF error = Absent THEN Error!Transform("AppController", 201) ELSE Error!Catch(error)

\* What is thrown now is what the helper made of what was thrown first, and the
\* answer is what the filter or the interceptor makes of it.
ErrorIInv ==
  /\ thrown \in Error!Known \cup Error!Upstream
  /\ \/ by = "" /\ error = thrown
     \/ by = "throw" /\ thrown \in Error!Upstream /\ error = Error!HttpExceptionThrower(thrown)
     \/ by = "handleException" /\ error = Error!HandleException(thrown)
     \/ by = "handleSpecificErrors" /\ maps \in AllMappings /\ error = Error!HandleSpecificErrors(thrown, maps)
  /\ answer = Absent \/ answer = ErrorResult

LEMMA ErrorTyped == Spec => []ErrorIInv
<1>1. Init => ErrorIInv
  BY DEF Init, Error!Init, ErrorIInv
<1>2. ErrorIInv /\ [Error!Next]_errorVars => ErrorIInv'
  <2> SUFFICES ASSUME ErrorIInv, [Error!Next]_errorVars PROVE ErrorIInv'
    OBVIOUS
  <2>1. ASSUME NEW name, NEW with, NEW result, Error!Helped(name, with, result),
               \/ name = "throw" /\ thrown \in Error!Upstream /\ result = Error!HttpExceptionThrower(thrown)
               \/ name = "handleException" /\ result = Error!HandleException(thrown)
               \/ /\ name = "handleSpecificErrors" /\ with \in AllMappings
                  /\ result = Error!HandleSpecificErrors(thrown, with)
        PROVE  ErrorIInv'
    <3>1. by' = name /\ maps' = with /\ error' = result /\ thrown' = thrown /\ answer' = Absent
      BY <2>1 DEF Error!Helped
    <3> QED
      BY <2>1, <3>1 DEF ErrorIInv
  <2>2. CASE Error!Throw
    BY <2>1, <2>2 DEF Error!Throw
  <2>3. CASE Error!Handle
    BY <2>1, <2>3 DEF Error!Handle
  <2>4. CASE \E m \in AllMappings : Error!Map(m)
    BY <2>1, <2>4 DEF Error!Map
  <2>5. CASE Error!Answer
    BY <2>5 DEF Error!Answer, ErrorIInv, ErrorResult
  <2>6. CASE UNCHANGED errorVars
    BY <2>6 DEF errorVars, ErrorIInv, ErrorResult
  <2> QED
    BY <2>2, <2>3, <2>4, <2>5, <2>6 DEF Error!Next
<1> QED
  BY <1>1, <1>2, PartStep, PTL DEF Spec

\* Every error the filter can see, told apart by whether it is an HttpException.
LEMMA ErrorStatuses ==
  ASSUME CommonAssumption, NEW e \in Error!Known \cup Error!Upstream
  PROVE  /\ e # Absent /\ e.class \in Error!Classes /\ e.class \in Error!Ancestors[e.class]
         /\ Error!InstanceOf(e, "HttpException") => e.status \in Error!Statuses
         /\ e.class = "Value" <=> ~Error!InstanceOf(e, "Error")
<1>1. e # Absent
  BY DEF CommonAssumption, Error!ErrorAssumption
<1>2. CASE e \in Error!Upstream
  BY <1>1, <1>2 DEF Error!Upstream, Error!Ancestors, Error!Classes, Error!InstanceOf
<1>3. CASE e \in Error!Known
  <2>1. \/ e.class = "BadRequestException" /\ e.status = 400
        \/ e.class = "BadGatewayException" /\ e.status = 502
        \/ e.class = "NotFoundException" /\ e.status = 404
        \/ e.class = "DuplicateRecordException" /\ e.status = 409
        \/ e.class = "UserNotFoundException" /\ e.status = 412
        \/ e.class = "Error" \/ e.class = "Value"
    BY <1>3 DEF Error!Known, Error!Thrown, Error!BadRequest, Error!BadGateway, Error!NotFound,
                Error!DuplicateRecord, Error!UserNotFound, Error!PlainError
  <2> QED
    BY <1>1, <2>1 DEF Error!Ancestors, Error!Classes, Error!InstanceOf, Error!Statuses
<1> QED
  BY <1>2, <1>3

LEMMA CatchAnswers ==
  ASSUME NEW e, Error!InstanceOf(e, "HttpException") => e.status \in Error!Statuses
  PROVE  /\ Error!Catch(e).http \in Error!Statuses /\ Error!Catch(e).http = Error!Catch(e).body.code
         /\ Error!Catch(e).body.status # "SUCCESS" /\ Error!Catch(e).http >= 400
         /\ Error!Catch(e).http = IF Error!InstanceOf(e, "HttpException") THEN e.status ELSE 500
BY DEF Error!Catch, Error!OfError, Error!InternalServerError, Error!Thrown, Error!Statuses

LEMMA MappingTypes ==
  ASSUME CommonAssumption, NEW m \in AllMappings
  PROVE  DOMAIN m = 1 .. Len(m) /\ Len(m) \in Nat /\ \A i \in DOMAIN m : m[i].status \in Error!Statuses
<1> DEFINE R == [errorType : Error!Classes, status : Error!Statuses]
<1>1. m \in Seq(R)
  BY DEF CommonAssumption, Error!ErrorAssumption
<1>2. \A x \in R : x.status \in Error!Statuses
  OBVIOUS
<1> HIDE DEF R
<1>3. DOMAIN m = 1 .. Len(m) /\ Len(m) \in Nat /\ \A i \in 1 .. Len(m) : m[i] \in R
  BY <1>1
<1> QED
  BY <1>2, <1>3

LEMMA FirstHit ==
  ASSUME CommonAssumption, NEW m \in AllMappings, NEW e, e.class \in Error!Classes
  PROVE  LET hits == {i \in DOMAIN m : Error!InstanceOf(e, m[i].errorType)}
             result == Error!HandleSpecificErrors(e, m)
         IN \/ hits = {} /\ result = Error!InternalServerError
            \/ \E i \in hits : /\ \A j \in hits : i <= j
                               /\ result = Error!Thrown("HttpException", m[i].status)
                               /\ m[i].status \in Error!Statuses
<1> DEFINE hits == {i \in DOMAIN m : Error!InstanceOf(e, m[i].errorType)}
<1>2. hits \in SUBSET Nat /\ \A i \in hits : m[i].status \in Error!Statuses
  BY MappingTypes
<1>3. CASE hits = {}
  BY <1>3 DEF Error!HandleSpecificErrors
<1>4. CASE hits # {}
  <2> DEFINE i == CHOOSE i \in hits : \A j \in hits : i <= j
  <2>1. \E k \in hits : \A j \in hits : k <= j
    BY <1>2, <1>4, LeastNumber
  <2>2. i \in hits /\ \A j \in hits : i <= j
    BY <2>1
  <2>3. Error!HandleSpecificErrors(e, m) = Error!Thrown("HttpException", m[i].status)
    BY <1>4 DEF Error!HandleSpecificErrors
  <2> HIDE DEF i, hits
  <2>4. \E k \in hits : /\ \A j \in hits : k <= j
                        /\ Error!HandleSpecificErrors(e, m) = Error!Thrown("HttpException", m[k].status)
                        /\ m[k].status \in Error!Statuses
    <3>1. m[i].status \in Error!Statuses
      BY <1>2, <2>2
    <3> USE <2>2
    <3> WITNESS i \in hits
    <3> QED
      BY <2>3, <3>1
  <2> QED
    BY <2>4 DEF hits
<1> QED
  BY <1>3, <1>4

\* What a helper throws carries a status the filter can answer with.
LEMMA HelperStatuses ==
  ASSUME CommonAssumption, NEW s \in Error!Statuses
  PROVE  LET e == Error!Thrown("HttpException", s)
         IN e # Absent /\ Error!InstanceOf(e, "HttpException") /\ e.status = s
<1>1. Error!Thrown("HttpException", s) # Absent
  BY DEF CommonAssumption, Error!ErrorAssumption
<1> QED
  BY <1>1 DEF Error!Thrown, Error!InstanceOf, Error!Ancestors

\* The error of an upstream service after HttpExceptionThrower.
LEMMA UpstreamStatus ==
  ASSUME CommonAssumption, NEW e \in Error!Upstream
  PROVE  LET r == e.response
             x == Error!HttpExceptionThrower(e)
         IN \/ x = Error!InternalServerError /\ (r = Absent \/ (r.data = Absent /\ r.status = Absent)
                 \/ (r.data # Absent /\ r.data.statusCode = Absent /\ r.status = Absent))
            \/ x = Error!PlainError /\ r # Absent /\ r.data = Absent
            \/ /\ r # Absent /\ r.data # Absent /\ r.data.statusCode \in {404, 409} /\ r.data.statusCode # Absent
               /\ x = Error!Thrown("HttpException", r.data.statusCode)
            \/ /\ r # Absent /\ r.data # Absent /\ r.data.statusCode = Absent /\ r.status \in {403, 502}
               /\ x = Error!Thrown("HttpException", r.status)
BY DEF Error!Upstream, Error!Responses, Error!HttpExceptionThrower

LEMMA ErrorKinds ==
  ASSUME CommonAssumption, ErrorIInv
  PROVE  \/ error = Absent /\ by = "handleException" /\ thrown.class = "Value"
         \/ error # Absent /\ (Error!InstanceOf(error, "HttpException") => error.status \in Error!Statuses)
<1>0. thrown \in Error!Known \cup Error!Upstream
  BY DEF ErrorIInv
<1>1. ASSUME NEW s \in Error!Statuses, error = Error!Thrown("HttpException", s)
      PROVE  error # Absent /\ (Error!InstanceOf(error, "HttpException") => error.status \in Error!Statuses)
  BY <1>1, HelperStatuses
<1>2. ASSUME error = Error!InternalServerError
      PROVE  error # Absent /\ (Error!InstanceOf(error, "HttpException") => error.status \in Error!Statuses)
  <2>1. 500 \in Error!Statuses /\ error = Error!Thrown("HttpException", 500)
    BY <1>2 DEF Error!Statuses, Error!InternalServerError
  <2> QED
    BY <1>1, <2>1
<1>3. CASE by = "" /\ error = thrown
  BY <1>0, <1>3, ErrorStatuses
<1>4. CASE by = "throw" /\ thrown \in Error!Upstream /\ error = Error!HttpExceptionThrower(thrown)
  <2> DEFINE r == thrown.response
  <2>1. \/ error = Error!InternalServerError \/ error = Error!PlainError
        \/ r.data.statusCode \in {404, 409} /\ error = Error!Thrown("HttpException", r.data.statusCode)
        \/ r.status \in {403, 502} /\ error = Error!Thrown("HttpException", r.status)
    BY <1>4, UpstreamStatus
  <2> HIDE DEF r
  <2>2. CASE error = Error!PlainError
    <3>1. Error!PlainError \in Error!Known
      BY DEF Error!Known
    <3> QED
      BY <2>2, <3>1, ErrorStatuses
  <2>3. {404, 409, 403, 502} \subseteq Error!Statuses
    BY DEF Error!Statuses
  <2> QED
    BY <1>1, <1>2, <2>1, <2>2, <2>3
<1>5. CASE by = "handleException" /\ error = Error!HandleException(thrown)
  <2>1. CASE Error!InstanceOf(thrown, "Error")
    <3>1. error = thrown
      BY <1>5, <2>1 DEF Error!HandleException
    <3> QED
      BY <1>0, <3>1, ErrorStatuses
  <2>2. CASE ~Error!InstanceOf(thrown, "Error")
    <3>1. error = Absent
      BY <1>5, <2>2 DEF Error!HandleException
    <3> QED
      BY <1>0, <1>5, <2>2, <3>1, ErrorStatuses
  <2> QED
    BY <2>1, <2>2
<1>6. CASE by = "handleSpecificErrors" /\ maps \in AllMappings /\ error = Error!HandleSpecificErrors(thrown, maps)
  <2>1. thrown.class \in Error!Classes
    BY <1>0, ErrorStatuses
  <2>2. \/ error = Error!InternalServerError
        \/ \E s \in Error!Statuses : error = Error!Thrown("HttpException", s)
    BY <1>6, <2>1, FirstHit
  <2> QED
    BY <1>1, <1>2, <2>2
<1> QED
  BY <1>3, <1>4, <1>5, <1>6 DEF ErrorIInv

LEMMA OneStatusHolds ==
  ASSUME CommonAssumption, ErrorIInv, answer # Absent
  PROVE  Error!OneStatus /\ Error!TypeOK
<1>1. answer = ErrorResult /\ thrown \in Error!Known \cup Error!Upstream
  BY DEF ErrorIInv
<1>2. CASE error = Absent
  <2>1. by = "handleException" /\ thrown.class = "Value"
    BY <1>2, ErrorKinds
  <2>2. answer = [http |-> 201, body |-> [status |-> "SUCCESS", code |-> 201]]
    BY <1>1, <1>2 DEF ErrorResult, Error!Transform, Error!OfResult
  <2>3. answer.http = 201 /\ answer.body.code = 201 /\ answer.body.status = "SUCCESS"
    BY <2>2
  <2> QED
    BY <1>1, <2>1, <2>3 DEF Error!OneStatus, Error!TypeOK
<1>3. CASE error # Absent
  <2>1. Error!InstanceOf(error, "HttpException") => error.status \in Error!Statuses
    BY <1>3, ErrorKinds
  <2>2. answer = Error!Catch(error)
    BY <1>1, <1>3 DEF ErrorResult
  <2>3. /\ answer.http \in Error!Statuses /\ answer.http = answer.body.code
        /\ answer.body.status # "SUCCESS" /\ answer.http >= 400
    BY <2>1, <2>2, CatchAnswers
  <2>4. ~ (answer.http < 400)
    BY <2>3 DEF Error!Statuses
  <2> QED
    BY <1>1, <2>3, <2>4 DEF Error!OneStatus, Error!TypeOK
<1> QED
  BY <1>2, <1>3

LEMMA UpstreamHolds ==
  ASSUME CommonAssumption, ErrorIInv
  PROVE  Error!UpstreamPassedOn
<1> SUFFICES ASSUME answer # Absent, by = "throw" PROVE Error!UpstreamPassedOn
  BY DEF Error!UpstreamPassedOn
<1> DEFINE r == thrown.response
           Given == {r.status} \cup (IF r.data = Absent THEN {} ELSE {r.data.statusCode})
<1>1. thrown \in Error!Upstream /\ error = Error!HttpExceptionThrower(thrown) /\ answer = ErrorResult
  BY DEF ErrorIInv
<1>2. answer = Error!Catch(error)
  BY <1>1, ErrorKinds DEF ErrorResult
<1>3. answer.http = IF Error!InstanceOf(error, "HttpException") THEN error.status ELSE 500
  BY <1>2, ErrorKinds, CatchAnswers
<1>4. ASSUME NEW s \in Error!Statuses, error = Error!Thrown("HttpException", s) PROVE answer.http = s
  BY <1>3, <1>4, HelperStatuses
<1>5. {404, 409, 403, 502, 500} \subseteq Error!Statuses
  BY DEF Error!Statuses
<1>6. error = Error!InternalServerError => answer.http = 500
  BY <1>4, <1>5 DEF Error!InternalServerError
<1>7. error = Error!PlainError => answer.http = 500
  BY <1>3 DEF Error!PlainError, Error!Thrown, Error!InstanceOf, Error!Ancestors
<1>8. \/ error = Error!InternalServerError /\ (r = Absent \/ (r.data = Absent /\ r.status = Absent)
                 \/ (r.data # Absent /\ r.data.statusCode = Absent /\ r.status = Absent))
      \/ error = Error!PlainError /\ r # Absent /\ r.data = Absent
      \/ /\ r.data # Absent /\ r.data.statusCode \in {404, 409} /\ r.data.statusCode # Absent
         /\ error = Error!Thrown("HttpException", r.data.statusCode)
      \/ /\ r.data # Absent /\ r.data.statusCode = Absent /\ r.status \in {403, 502}
         /\ error = Error!Thrown("HttpException", r.status)
  BY <1>1, UpstreamStatus
<1> HIDE DEF r
<1>9. \/ answer.http = 500 /\ (r = Absent \/ r.data = Absent \/ Given = {Absent})
      \/ answer.http \in Given /\ (r.data.statusCode # Absent => answer.http = r.data.statusCode)
  <2>1. CASE error = Error!InternalServerError /\ (r = Absent \/ (r.data = Absent /\ r.status = Absent)
                 \/ (r.data # Absent /\ r.data.statusCode = Absent /\ r.status = Absent))
    BY <1>6, <2>1
  <2>2. CASE error = Error!PlainError /\ r # Absent /\ r.data = Absent
    BY <1>7, <2>2
  <2>3. CASE /\ r.data # Absent /\ r.data.statusCode \in {404, 409}
             /\ error = Error!Thrown("HttpException", r.data.statusCode)
    <3>1. answer.http = r.data.statusCode
      BY <1>4, <1>5, <2>3
    <3> QED
      BY <2>3, <3>1
  <2>4. CASE /\ r.data # Absent /\ r.data.statusCode = Absent /\ r.status \in {403, 502}
             /\ error = Error!Thrown("HttpException", r.status)
    <3>1. answer.http = r.status
      BY <1>4, <1>5, <2>4
    <3> QED
      BY <2>4, <3>1
  <2> QED
    BY <1>8, <2>1, <2>2, <2>3, <2>4
<1> QED
  BY <1>9 DEF Error!UpstreamPassedOn, r

LEMMA FirstClassHolds ==
  ASSUME CommonAssumption, ErrorIInv
  PROVE  Error!MostSpecificFirst
<1> SUFFICES ASSUME answer # Absent, by = "handleSpecificErrors", NEW i \in DOMAIN maps,
                    maps[i].errorType = thrown.class,
                    \A j \in 1 .. (i - 1) : maps[j].errorType \notin Error!Ancestors[thrown.class]
             PROVE  answer.http = maps[i].status
  BY DEF Error!MostSpecificFirst
<1> DEFINE hits == {k \in DOMAIN maps : Error!InstanceOf(thrown, maps[k].errorType)}
<1>1. /\ maps \in AllMappings /\ error = Error!HandleSpecificErrors(thrown, maps) /\ answer = ErrorResult
      /\ thrown.class \in Error!Classes /\ thrown.class \in Error!Ancestors[thrown.class]
  BY ErrorStatuses DEF ErrorIInv
<1>2. i \in hits
  BY <1>1 DEF Error!InstanceOf
<1>3. PICK k \in hits : /\ \A j \in hits : k <= j
                        /\ error = Error!Thrown("HttpException", maps[k].status)
                        /\ maps[k].status \in Error!Statuses
  <2>1. hits # {}
    BY <1>2
  <2> QED
    BY <1>1, <2>1, FirstHit
<1>4. k = i
  <2>1. DOMAIN maps = 1 .. Len(maps) /\ Len(maps) \in Nat
    BY <1>1, MappingTypes
  <2>2. k \in 1 .. Len(maps) /\ i \in 1 .. Len(maps) /\ k <= i
    BY <1>2, <1>3, <2>1
  <2>3. maps[k].errorType \in Error!Ancestors[thrown.class]
    BY <1>3 DEF Error!InstanceOf
  <2>4. k \notin 1 .. (i - 1)
    BY <2>3
  <2> QED
    BY <2>2, <2>4
<1>5. error # Absent /\ Error!InstanceOf(error, "HttpException") /\ error.status = maps[i].status
  BY <1>3, <1>4, HelperStatuses
<1>6. answer = Error!Catch(error)
  BY <1>1, <1>5 DEF ErrorResult
<1> QED
  BY <1>3, <1>4, <1>5, <1>6, CatchAnswers

(* Whatever is thrown and whatever helper it goes through, the client      *)
(* reads one status, the one the upstream service gave if there was one,   *)
(* and the one of the most specific class that is listed first.            *)
THEOREM KeptStatus == Spec => []StatusKept
<1>1. CommonAssumption /\ ErrorIInv => StatusKept
  BY OneStatusHolds, UpstreamHolds, FirstClassHolds DEF StatusKept, Error!OneStatus
<1> QED
  BY <1>1, CommonAssumption, ErrorTyped, PTL

-----------------------------------------------------------------------------
(* SocketConnections. *)

\* The client an adaptor is of was connected once, backend ids are drawn from a
\* counter, and no id is given to two connections.
SocketTypes ==
  /\ sharedServer \in BOOLEAN
  /\ live \subseteq seen /\ seen \subseteq Sockets /\ authorized \subseteq seen
  /\ drawn \in Nat /\ backendId \in [Sockets -> Nat]
  /\ \A s \in Sockets : backendId[s] <= drawn
  /\ \A h \in Holders : Socket!Holds(h) => adaptor[h] \in [server : BOOLEAN, client : seen \cup {None}]

SocketIInv ==
  /\ SocketTypes /\ last.reached \subseteq seen
  /\ Socket!BackendIdsDistinct /\ Socket!DefaultEventPrivate /\ Socket!AnswersMatchDelivery

LEMMA SocketHeld ==
  ASSUME SocketTypes, NEW h \in Holders, Socket!Holds(h)
  PROVE  /\ Socket!Client(h) \in seen \cup {None} /\ adaptor[h].server \in BOOLEAN
         /\ Socket!Client(h) # None => Socket!Client(h) \in Sockets
BY DEF SocketTypes, Socket!Client

\* A number above all that were drawn is nobody's id.
LEMMA DrawApart ==
  ASSUME SocketTypes, NEW s \in Sockets, NEW n \in Nat, n > drawn, Socket!Draw(s, n),
         Socket!BackendIdsDistinct, seen' \in SUBSET (seen \cup {s})
  PROVE  /\ drawn' \in Nat /\ drawn' > drawn /\ backendId' \in [Sockets -> Nat]
         /\ \A t \in Sockets : backendId'[t] <= drawn'
         /\ Socket!BackendIdsDistinct'
<1>1. drawn' = n /\ drawn' \in Nat /\ drawn' > drawn /\ drawn \in Nat
  BY DEF Socket!Draw, SocketTypes
<1>2. backendId' \in [Sockets -> Nat] /\ backendId'[s] = n
  BY DEF Socket!Draw, SocketTypes
<1>3. \A t \in Sockets : t # s => backendId'[t] = backendId[t]
  BY DEF Socket!Draw, SocketTypes
<1>4. \A t \in Sockets : backendId[t] \in Nat /\ backendId[t] <= drawn
  BY DEF SocketTypes
<1>5. \A t \in Sockets : backendId'[t] <= drawn'
  BY <1>1, <1>2, <1>3, <1>4
<1>6. ASSUME NEW t \in seen', NEW u \in seen' PROVE backendId'[t] # 0 /\ (backendId'[t] = backendId'[u] => t = u)
  <2>1. t \in Sockets /\ u \in Sockets /\ (t # s => t \in seen) /\ (u # s => u \in seen)
    BY DEF SocketTypes
  <2>2. (t # s => backendId[t] # 0) /\ (t # s /\ u # s => (backendId[t] = backendId[u] => t = u))
    BY <2>1 DEF Socket!BackendIdsDistinct
  <2> QED
    BY <1>1, <1>2, <1>3, <1>4, <2>1, <2>2
<1> QED
  BY <1>1, <1>2, <1>5, <1>6 DEF Socket!BackendIdsDistinct

\* What is noted of a send, and that it keeps the promises if its own delivery does.
LEMMA SendKeeps ==
  ASSUME SocketIInv, NEW h \in Holders, NEW way, NEW asked, NEW to, NEW name, NEW result, NEW reached,
         Socket!Sent(h, way, asked, to, name, result, reached),
         reached \subseteq seen, reached # {} => result,
         way = "client" /\ asked \in {Socket!Default, Socket!Blank} =>
           \A s \in reached : name = Socket!Private(s) /\ s = Socket!Client(h),
         way = "client" /\ Socket!Client(h) # None => reached \subseteq {Socket!Client(h)},
         to \in Sockets => reached \subseteq {to, Socket!Client(h)}
  PROVE  SocketIInv'
<1>1. last'.by = way /\ last'.asked = asked /\ last'.to = to
  BY DEF Socket!Sent
<1>2. last'.client = Socket!Client(h) /\ last'.name = name
  BY DEF Socket!Sent
<1>3. last'.result = result /\ last'.reached = reached
  BY DEF Socket!Sent
<1>4. UNCHANGED <<sharedServer, live, seen, backendId, authorized, drawn, adaptor>>
  BY DEF Socket!Sent, Socket!clients
<1>5. SocketTypes' /\ Socket!BackendIdsDistinct'
  BY <1>4 DEF SocketIInv, SocketTypes, Socket!BackendIdsDistinct, Socket!Holds
<1>6. Socket!DefaultEventPrivate'
  BY <1>1, <1>2, <1>3 DEF Socket!DefaultEventPrivate
<1>7. Socket!AnswersMatchDelivery'
  BY <1>1, <1>2, <1>3 DEF Socket!AnswersMatchDelivery
<1> QED
  BY <1>3, <1>4, <1>5, <1>6, <1>7 DEF SocketIInv

LEMMA RoomsOf ==
  ASSUME CommonAssumption, SocketTypes, NEW recipient \in Socket!Recipients
  PROVE  /\ live \cap Socket!Rooms(recipient) \subseteq seen
         /\ recipient \in Sockets => live \cap Socket!Rooms(recipient) \subseteq {recipient}
<1>1. live \subseteq seen
  BY DEF SocketTypes
<1>2. ASSUME recipient \in Sockets PROVE Socket!Rooms(recipient) = {recipient}
  <2>1. recipient # None /\ recipient # {}
    <3>1. {} \in SUBSET Sockets
      OBVIOUS
    <3> QED
      BY <1>2, <3>1 DEF CommonAssumption, Socket!SocketAssumption
  <2> QED
    BY <1>2, <2>1 DEF Socket!Rooms
<1> QED
  BY <1>1, <1>2

LEMMA ToClientKeeps ==
  ASSUME CommonAssumption, SocketIInv, NEW h \in Holders, NEW event \in Names \cup {Socket!Default, Socket!Blank},
         NEW recipient \in Socket!Recipients, Socket!SendEventToClient(h, event, recipient)
  PROVE  SocketIInv'
<1> DEFINE name == Socket!EventName(h, event)
           c    == Socket!Client(h)
<1>1. /\ c \in seen \cup {None} /\ adaptor[h].server \in BOOLEAN /\ live \subseteq seen
  BY SocketHeld DEF SocketIInv, SocketTypes, Socket!SendEventToClient
<1>2. ASSUME Socket!Sent(h, "client", event, recipient, name, FALSE, {}) PROVE SocketIInv'
  <2> HIDE DEF name, c
  <2> DEFINE reached == {}
  <2>1. /\ reached \subseteq seen /\ (reached # {} => FALSE) /\ reached \subseteq {Socket!Client(h)}
        /\ reached \subseteq {recipient, Socket!Client(h)}
        /\ \A s \in reached : name = Socket!Private(s) /\ s = Socket!Client(h)
    OBVIOUS
  <2>2. Socket!Sent(h, "client", event, recipient, name, FALSE, reached)
    BY <1>2
  <2> HIDE DEF reached
  <2> QED
    BY <2>1, <2>2, SendKeeps
<1>3. CASE c # None
  <2>1. event \in {Socket!Default, Socket!Blank} => name = Socket!Private(c)
    BY <1>3 DEF Socket!EventName
  <2>2. ASSUME Socket!Sent(h, "client", event, recipient, name, TRUE, Socket!ToClient(h, recipient))
        PROVE SocketIInv'
    <3>1. Socket!ToClient(h, recipient) \subseteq seen /\ Socket!ToClient(h, recipient) \subseteq {c}
      BY <1>1 DEF Socket!ToClient
    <3> HIDE DEF name
    <3>2. event \in {Socket!Default, Socket!Blank} =>
            \A s \in Socket!ToClient(h, recipient) : name = Socket!Private(s) /\ s = c
      BY <2>1, <3>1
    <3> QED
      BY <2>2, <3>1, <3>2, SendKeeps
  <2> QED
    BY <1>2, <1>3, <2>2 DEF Socket!SendEventToClient
<1>4. CASE c = None
  <2>1. event \in {Socket!Default, Socket!Blank} => name = Socket!Named(Socket!Blank)
    BY <1>4 DEF Socket!EventName
  <2>2. ASSUME name # Socket!Named(Socket!Blank),
               Socket!Sent(h, "client", event, recipient, name, adaptor[h].server,
                           IF adaptor[h].server THEN live \cap Socket!Rooms(recipient) ELSE {})
        PROVE SocketIInv'
    <3> DEFINE reached == IF adaptor[h].server THEN live \cap Socket!Rooms(recipient) ELSE {}
    <3>1. /\ reached \subseteq seen /\ (reached # {} => adaptor[h].server)
          /\ recipient \in Sockets => reached \subseteq {recipient}
      BY RoomsOf DEF SocketIInv
    <3> HIDE DEF reached, name
    <3>2. Socket!Sent(h, "client", event, recipient, name, adaptor[h].server, reached)
      BY <2>2 DEF reached
    <3> QED
      BY <1>4, <2>1, <2>2, <3>1, <3>2, SendKeeps
  <2> QED
    BY <1>2, <1>4, <2>2 DEF Socket!SendEventToClient
<1> QED
  BY <1>3, <1>4

LEMMA ToServerKeeps ==
  ASSUME CommonAssumption, SocketIInv, NEW h \in Holders,
         \/ \E event \in Names \cup {Socket!Default, Socket!Blank}, recipient \in Socket!Recipients :
              Socket!SendEventToServer(h, event, recipient)
         \/ \E events \in SUBSET Sockets : Socket!SendEventsToServer(h, events)
  PROVE  SocketIInv'
<1>1. ASSUME NEW event \in Names \cup {Socket!Default, Socket!Blank}, NEW recipient \in Socket!Recipients,
             Socket!SendEventToServer(h, event, recipient)
      PROVE  SocketIInv'
  <2> DEFINE ok      == event # Socket!Blank /\ adaptor[h].server
             reached == IF ok THEN live \cap Socket!Rooms(recipient) ELSE {}
  <2>1. Socket!Sent(h, "server", event, recipient, Socket!Named(event), ok, reached)
    BY <1>1 DEF Socket!SendEventToServer
  <2>2. /\ reached \subseteq seen /\ (reached # {} => ok)
        /\ recipient \in Sockets => reached \subseteq {recipient}
    BY RoomsOf DEF SocketIInv
  <2> HIDE DEF ok, reached
  <2> QED
    BY <2>1, <2>2, SendKeeps
<1>2. ASSUME NEW events \in SUBSET Sockets, Socket!SendEventsToServer(h, events) PROVE SocketIInv'
  <2> DEFINE reached == IF adaptor[h].server THEN live \cap events ELSE {}
  <2>1. Socket!Sent(h, "events", Socket!Blank, events, Socket!Named(Socket!Blank), adaptor[h].server, reached)
    BY <1>2 DEF Socket!SendEventsToServer
  <2>2. reached \subseteq seen /\ (reached # {} => adaptor[h].server)
    BY DEF SocketIInv, SocketTypes
  <2>3. events \notin Sockets
    BY DEF CommonAssumption, Socket!SocketAssumption
  <2> HIDE DEF reached
  <2> QED
    BY <2>1, <2>2, <2>3, SendKeeps
<1> QED
  BY <1>1, <1>2

LEMMA SocketTyped == Spec => []SocketIInv
<1>1. CommonAssumption /\ Init => SocketIInv
  <2> SUFFICES ASSUME CommonAssumption, Init PROVE SocketIInv
    OBVIOUS
  <2>1. /\ sharedServer = FALSE /\ live = {} /\ seen = {} /\ backendId = [s \in Sockets |-> 0]
        /\ authorized = {} /\ drawn = 0 /\ adaptor = [h \in Holders |-> None] /\ last = Socket!NothingSent
    BY DEF Init, Socket!Init
  <2>2. last.by = "none" /\ last.reached = {} /\ last.to = None
    BY <2>1 DEF Socket!NothingSent
  <2>3. SocketTypes
    <3>1. sharedServer \in BOOLEAN /\ live \subseteq seen /\ seen \subseteq Sockets /\ authorized \subseteq seen
      BY <2>1
    <3>2. drawn \in Nat /\ backendId \in [Sockets -> Nat] /\ \A s \in Sockets : backendId[s] <= drawn
      BY <2>1
    <3>3. \A h \in Holders : ~Socket!Holds(h)
      BY <2>1 DEF Socket!Holds
    <3> QED
      BY <3>1, <3>2, <3>3 DEF SocketTypes
  <2>4. Socket!BackendIdsDistinct /\ Socket!DefaultEventPrivate /\ Socket!AnswersMatchDelivery
    BY <2>1, <2>2 DEF Socket!BackendIdsDistinct, Socket!DefaultEventPrivate, Socket!AnswersMatchDelivery
  <2> QED
    BY <2>2, <2>3, <2>4 DEF SocketIInv
<1>2. CommonAssumption /\ SocketIInv /\ [Socket!Next]_socketVars => SocketIInv'
  <2> SUFFICES ASSUME CommonAssumption, SocketIInv, [Socket!Next]_socketVars PROVE SocketIInv'
    OBVIOUS
  <2>0. SocketTypes /\ Socket!BackendIdsDistinct
    BY DEF SocketIInv
  <2>1. ASSUME UNCHANGED last, SocketTypes', Socket!BackendIdsDistinct', seen \subseteq seen'
        PROVE  SocketIInv'
    BY <2>1 DEF SocketIInv, Socket!DefaultEventPrivate, Socket!AnswersMatchDelivery
  <2>2. CASE Socket!OnModuleInit
    BY <2>0, <2>1, <2>2 DEF Socket!OnModuleInit, Socket!clients, SocketTypes, Socket!BackendIdsDistinct, Socket!Holds
  <2>3. ASSUME NEW s \in Sockets, Socket!HandleConnection(s) PROVE SocketIInv'
    <3>1. /\ seen' = seen \cup {s} /\ live' = live \cup {s} /\ Socket!Draw(s, drawn + 2)
          /\ UNCHANGED <<sharedServer, authorized, adaptor, last>>
      BY <2>3 DEF Socket!HandleConnection
    <3>2. drawn \in Nat
      BY <2>0 DEF SocketTypes
    <3>3. drawn + 2 \in Nat /\ drawn + 2 > drawn
      BY <3>2
    <3>4. /\ drawn' \in Nat /\ drawn' > drawn /\ backendId' \in [Sockets -> Nat]
          /\ \A t \in Sockets : backendId'[t] <= drawn'
          /\ Socket!BackendIdsDistinct'
      BY <2>0, <3>1, <3>3, DrawApart
    <3>5. SocketTypes'
      BY <2>0, <3>1, <3>4 DEF SocketTypes, Socket!Holds
    <3> QED
      BY <2>1, <3>1, <3>4, <3>5
  <2>4. ASSUME NEW s \in Sockets, Socket!HandleDisconnect(s) PROVE SocketIInv'
    BY <2>0, <2>1, <2>4 DEF Socket!HandleDisconnect, SocketTypes, Socket!BackendIdsDistinct, Socket!Holds
  <2>5. ASSUME NEW h \in Holders, NEW server \in BOOLEAN, NEW c \in seen \cup {None}, Socket!Of(h, server, c)
        PROVE SocketIInv'
    <3>1. UNCHANGED <<sharedServer, live, seen, backendId, authorized, drawn, last>>
      BY <2>5 DEF Socket!Of, Socket!clients
    <3>2. \A k \in Holders : adaptor'[k] # None => \/ k # h /\ adaptor'[k] = adaptor[k]
                                                 \/ adaptor'[k] = [server |-> server \/ sharedServer, client |-> c]
                                                 \/ adaptor'[k] = adaptor[k]
      BY <2>5 DEF Socket!Of
    <3>3. [server |-> server \/ sharedServer, client |-> c] \in [server : BOOLEAN, client : seen \cup {None}]
      BY <2>5
    <3>4. \A k \in Holders : adaptor'[k] # None => adaptor'[k] \in [server : BOOLEAN, client : seen \cup {None}]
      BY <2>0, <3>2, <3>3 DEF SocketTypes, Socket!Holds
    <3>5. SocketTypes' /\ Socket!BackendIdsDistinct'
      BY <2>0, <3>1, <3>4 DEF SocketTypes, Socket!Holds, Socket!BackendIdsDistinct
    <3> QED
      BY <2>1, <3>1, <3>5
  <2>6. ASSUME NEW h \in Holders, NEW b \in BOOLEAN, Socket!SetAuthorized(h, b) PROVE SocketIInv'
    <3>1. Socket!Client(h) \in seen
      BY <2>0, <2>6, SocketHeld DEF Socket!SetAuthorized
    <3>2. authorized' \subseteq seen
      BY <2>0, <2>6, <3>1 DEF Socket!SetAuthorized, SocketTypes
    <3> QED
      BY <2>0, <2>1, <2>6, <3>2 DEF Socket!SetAuthorized, SocketTypes, Socket!Holds, Socket!BackendIdsDistinct
  <2>7. ASSUME NEW h \in Holders, Socket!RefreshBackendConnectionId(h) PROVE SocketIInv'
    <3>1. Socket!Client(h) \in seen /\ seen \subseteq Sockets
      BY <2>0, <2>7, SocketHeld DEF Socket!RefreshBackendConnectionId, SocketTypes
    <3>2. drawn \in Nat
      BY <2>0 DEF SocketTypes
    <3>3. drawn + 1 \in Nat /\ drawn + 1 > drawn
      BY <3>2
    <3>4. Socket!Draw(Socket!Client(h), drawn + 1) /\ UNCHANGED <<sharedServer, live, seen, authorized, adaptor, last>>
      BY <2>7 DEF Socket!RefreshBackendConnectionId
    <3>5. /\ drawn' \in Nat /\ drawn' > drawn /\ backendId' \in [Sockets -> Nat]
          /\ \A t \in Sockets : backendId'[t] <= drawn'
          /\ Socket!BackendIdsDistinct'
      BY <2>0, <3>1, <3>3, <3>4, DrawApart
    <3>6. SocketTypes'
      BY <2>0, <3>4, <3>5 DEF SocketTypes, Socket!Holds
    <3> QED
      BY <2>1, <3>4, <3>5, <3>6
  <2>8. CASE UNCHANGED socketVars
    BY <2>0, <2>1, <2>8 DEF socketVars, SocketTypes, Socket!BackendIdsDistinct, Socket!Holds
  <2> QED
    BY <2>2, <2>3, <2>4, <2>5, <2>6, <2>7, <2>8, ToClientKeeps, ToServerKeeps DEF Socket!Next
<1> QED
  BY <1>1, <1>2, CommonAssumption, PartStep, PTL DEF Spec

(* However many adaptors are made of a connection and whoever refreshes its *)
(* id, connections keep ids of their own, default events reach their own    *)
(* client only, and a send that answers false reached nobody.               *)
THEOREM ApartSockets == Spec => []SocketsApart
<1>1. SocketIInv => SocketsApart
  BY DEF SocketIInv, SocketsApart
<1> QED
  BY <1>1, SocketTyped, PTL

-----------------------------------------------------------------------------
(* LogLines. *)

\* What formattParams makes of a parameter.
FormattedAs(v) == Log!ParseSafe(Log!StringifySafe(v))

\* The parameters read so far are formatted, each at its place, and the line is
\* printed of all of them.
LogIInv ==
  /\ logCall.params \in Seq(Log!Values) /\ logCall.message \in Log!Values
  /\ logCall.trace \in {"Falsy", "Object", "Cyclic"}
  /\ formatted \in 0 .. Len(logCall.params)
  /\ param \in Seq({FormattedAs(v) : v \in Log!Values}) /\ Len(param) = formatted
  /\ \A k \in 1 .. formatted : param[k] = FormattedAs(logCall.params[k])
  /\ line = Log!Unprinted \/ (formatted = Len(logCall.params) /\ line = Log!Stringified)

LEMMA FormattedApart ==
  ASSUME NEW v \in Log!Values, NEW w \in Log!Values
  PROVE  /\ FormattedAs(v) = "Bottomless" <=> v = "Bottomless"
         /\ FormattedAs(v) # "Bottomless" => FormattedAs(v) \in Log!Printed
         /\ FormattedAs(v) = FormattedAs(w) <=> v = w \/ {v, w} = {"Json", "Object"}
<1>1. ASSUME NEW x \in Log!Values
      PROVE  /\ x \notin {"Falsy", "Json", "Cyclic", "Function"} => FormattedAs(x) = x
             /\ x = "Falsy" => FormattedAs(x) = "Null"
             /\ x = "Json" => FormattedAs(x) = "Object"
             /\ x = "Cyclic" => FormattedAs(x) = "Pruned"
             /\ x = "Function" => FormattedAs(x) = "NullText"
  BY DEF Log!Values, FormattedAs, Log!ParseSafe, Log!StringifySafe
<1>2. /\ FormattedAs(v) = "Bottomless" <=> v = "Bottomless"
      /\ FormattedAs(v) # "Bottomless" => FormattedAs(v) \in Log!Printed
  BY <1>1 DEF Log!Values, Log!Printed
<1>3. FormattedAs(v) = FormattedAs(w) <=> v = w \/ (v = "Json" /\ w = "Object") \/ (v = "Object" /\ w = "Json")
  BY <1>1 DEF Log!Values
<1>4. {v, w} = {"Json", "Object"} <=> (v = "Json" /\ w = "Object") \/ (v = "Object" /\ w = "Json")
  OBVIOUS
<1> QED
  BY <1>2, <1>3, <1>4

LEMMA LogTyped == Spec => []LogIInv
<1>1. Init => LogIInv
  <2> SUFFICES ASSUME Init PROVE LogIInv
    OBVIOUS
  <2>1. /\ logCall.message \in Log!Values /\ logCall.trace \in {"Falsy", "Object", "Cyclic"}
        /\ logCall.params \in UNION {[1..n -> Log!Values] : n \in 0..MaxParams}
    BY DEF Init, Log!Init
  <2>2. logCall.params \in Seq(Log!Values)
    BY <2>1
  <2>3. formatted = 0 /\ param = <<>> /\ line = Log!Unprinted
    BY DEF Init, Log!Init
  <2> QED
    BY <2>1, <2>2, <2>3 DEF LogIInv
<1>2. LogIInv /\ [Log!Next]_logVars => LogIInv'
  <2> SUFFICES ASSUME LogIInv, [Log!Next]_logVars PROVE LogIInv'
    OBVIOUS
  <2>1. CASE Log!Format
    <3> DEFINE v == logCall.params[formatted + 1]
    <3>1. /\ formatted' = formatted + 1 /\ param' = Append(param, FormattedAs(v))
          /\ UNCHANGED <<logCall, line>> /\ formatted < Len(logCall.params) /\ line = Log!Unprinted
      BY <2>1 DEF Log!Format, FormattedAs
    <3>2. formatted \in Nat /\ formatted + 1 \in 0 .. Len(logCall.params) /\ v \in Log!Values
      BY <3>1 DEF LogIInv
    <3>3. FormattedAs(v) \in {FormattedAs(w) : w \in Log!Values}
      BY <3>2
    <3> DEFINE F == {FormattedAs(w) : w \in Log!Values}
               x == FormattedAs(v)
    <3>4. param \in Seq(F) /\ Len(param) = formatted /\ x \in F /\ param' = Append(param, x)
      BY <3>1, <3>3 DEF LogIInv
    <3> HIDE DEF F, x
    <3>5. /\ param' \in Seq(F) /\ Len(param') = formatted + 1
          /\ param'[formatted + 1] = x /\ \A k \in 1 .. formatted : param'[k] = param[k]
      BY <3>2, <3>4
    <3>6. \A k \in 1 .. formatted' : param'[k] = FormattedAs(logCall'.params[k])
      <4> SUFFICES ASSUME NEW k \in 1 .. (formatted + 1) PROVE param'[k] = FormattedAs(logCall.params[k])
        BY <3>1
      <4>1. CASE k = formatted + 1
        BY <3>5, <4>1 DEF x
      <4>2. CASE k # formatted + 1
        <5>1. k \in 1 .. formatted
          BY <3>2, <4>2
        <5> QED
          BY <3>5, <5>1 DEF LogIInv
      <4> QED
        BY <4>1, <4>2
    <3>7. param' \in Seq({FormattedAs(w) : w \in Log!Values})
      BY <3>5 DEF F
    <3> QED
      BY <3>1, <3>2, <3>5, <3>6, <3>7 DEF LogIInv
  <2>2. CASE Log!PrintLine
    BY <2>2 DEF Log!PrintLine, LogIInv, Log!Stringified
  <2>3. CASE UNCHANGED logVars
    BY <2>3 DEF logVars, LogIInv, Log!Stringified
  <2> QED
    BY <2>1, <2>2, <2>3 DEF Log!Next
<1> QED
  BY <1>1, <1>2, PartStep, PTL DEF Spec

LEMMA LogHolds ==
  ASSUME LogIInv
  PROVE  Log!LossExplained /\ Log!TypeOK /\ Log!ParamsReadBack
<1>1. DOMAIN param = 1 .. formatted /\ DOMAIN logCall.params = 1 .. Len(logCall.params)
  BY DEF LogIInv
<1>2. formatted \in 0 .. Len(logCall.params)
  BY DEF LogIInv
<1>3. CASE line = Log!Unprinted
  BY <1>2, <1>3 DEF Log!Unprinted, Log!LossExplained, Log!TypeOK, Log!ParamsReadBack
<1>4. CASE formatted = Len(logCall.params) /\ line = Log!Stringified
  <2> DEFINE lost == "Bottomless" \in {logCall.message} \cup {param[k] : k \in DOMAIN param}
  <2>1. \A k \in DOMAIN logCall.params : logCall.params[k] \in Log!Values /\ param[k] = FormattedAs(logCall.params[k])
    BY <1>1, <1>4 DEF LogIInv
  <2>2. CASE lost
    <3>1. line = Log!Garbled
      BY <1>4, <2>2 DEF Log!Stringified
    <3>2. "Bottomless" \in {logCall.message} \cup {logCall.params[k] : k \in DOMAIN logCall.params}
      BY <1>1, <1>4, <2>1, <2>2, FormattedApart
    <3> QED
      BY <1>2, <3>1, <3>2 DEF Log!Garbled, Log!LossExplained, Log!TypeOK, Log!ParamsReadBack
  <2>3. CASE ~lost
    <3>1. line = [kind |-> "line", level |-> logCall.level, context |-> Log!ClassNameOf(logCall.context),
                  message |-> Log!Member(logCall.message), params |-> param, trace |-> Log!Member(logCall.trace)]
      BY <1>4, <2>3 DEF Log!Stringified
    <3>2. line.kind = "line" /\ line.params = param /\ line.message = Log!Member(logCall.message)
      BY <3>1
    <3>3. line.trace = Log!Member(logCall.trace) /\ line.context = Log!ClassNameOf(logCall.context)
      BY <3>1
    <3>4. \A k \in DOMAIN param : param[k] # "Bottomless"
      BY <2>3
    <3>5. {line.params[k] : k \in DOMAIN line.params} \subseteq Log!Printed
      BY <1>1, <1>4, <2>1, <3>2, <3>4, FormattedApart
    <3>6. logCall.message \in Log!Values \ {"Bottomless"}
      <4>1. logCall.message \in Log!Values
        BY DEF LogIInv
      <4>2. logCall.message # "Bottomless"
        BY <2>3
      <4> QED
        BY <4>1, <4>2
    <3>7. line.message \in Log!Printed
      BY <3>2, <3>6 DEF Log!Member, Log!Values, Log!Printed
    <3>8. line.trace \in Log!Printed
      <4>1. logCall.trace \in {"Falsy", "Object", "Cyclic"}
        BY DEF LogIInv
      <4> QED
        BY <3>3, <4>1 DEF Log!Member, Log!Printed
    <3>9. line.context \in Log!Printed
      BY <3>3 DEF Log!ClassNameOf, Log!Printed
    <3>10. Log!TypeOK
      BY <1>2, <3>5, <3>7, <3>8, <3>9 DEF Log!TypeOK
    <3>11. Log!ParamsReadBack
      <4>1. DOMAIN line.params = DOMAIN logCall.params
        BY <1>1, <1>4, <3>2
      <4>2. ASSUME NEW k \in DOMAIN logCall.params, NEW l \in DOMAIN logCall.params
            PROVE  line.params[k] = line.params[l] <=>
                     logCall.params[k] = logCall.params[l] \/ {logCall.params[k], logCall.params[l]} = {"Json", "Object"}
        <5> DEFINE v == logCall.params[k]
                   w == logCall.params[l]
        <5>1. v \in Log!Values /\ w \in Log!Values
          BY <2>1
        <5>2. line.params[k] = FormattedAs(v) /\ line.params[l] = FormattedAs(w)
          BY <2>1, <3>2
        <5> HIDE DEF v, w
        <5>3. FormattedAs(v) = FormattedAs(w) <=> v = w \/ {v, w} = {"Json", "Object"}
          BY <5>1, FormattedApart
        <5>4. line.params[k] = line.params[l] <=> v = w \/ {v, w} = {"Json", "Object"}
          BY <5>2, <5>3, Zenon
        <5> QED
          BY <5>4, Zenon DEF v, w
      <4> QED
        BY <4>1, <4>2, Zenon DEF Log!ParamsReadBack
    <3> QED
      BY <3>2, <3>10, <3>11 DEF Log!LossExplained
  <2> QED
    BY <2>2, <2>3
<1> QED
  BY <1>3, <1>4 DEF LogIInv

-----------------------------------------------------------------------------
(* PushTokens. *)

\* A labelled token read so far is in its slot, or a later one went there.
KeptOrReplaced ==
  \A k \in 1 .. read, s \in {"APNS", "APN", "VOIP", "FCM"} :
    list[k].labels = {s} =>
      \/ group[Push!Slot[s]] = [labels |-> {}, rest |-> list[k].rest]
      \/ \E l \in (k + 1) .. read :
           \/ list[l].labels \cap {s, "APNS", "APN"} # {} /\ s \in {"APNS", "APN"}
           \/ s \in list[l].labels
           \/ s = "FCM" /\ list[l].labels = {}

PushTypes ==
  /\ list \in Seq(Push!Elements) /\ read \in 0 .. Len(list)
  /\ group \in [apns : [labels : SUBSET Push!Labels, rest : PushTokenNames \cup {"empty"}],
                fcm : [labels : SUBSET Push!Labels, rest : PushTokenNames \cup {"empty"}],
                voip : [labels : SUBSET Push!Labels, rest : PushTokenNames \cup {"empty"}],
                isSandBox : BOOLEAN]

PushIInv == PushTypes /\ KeptOrReplaced /\ Push!NothingInvented

LEMMA ElementType ==
  ASSUME NEW e \in Push!Elements
  PROVE  e = [labels |-> e.labels, rest |-> e.rest] /\ e.labels \subseteq Push!Labels /\ e.rest \in PushTokenNames \cup {"empty"}
BY DEF Push!Elements, Push!Labels

\* An element without its deciding label, and the slot it goes to.
LEMMA LabelOf ==
  ASSUME NEW e \in Push!Elements
  PROVE  /\ Push!Label(e) \in {"IS_SAND_BOX", "APNS", "APN", "VOIP", "FCM"}
         /\ Push!Label(e) # "FCM" => Push!Label(e) \in e.labels
         /\ Push!Label(e) = "FCM" => e.labels \subseteq {"FCM"}
         /\ \A s \in Push!Labels : e.labels = {s} => Push!Label(e) = s
<1>1. e.labels \subseteq Push!Labels
  BY ElementType
<1> DEFINE L == e.labels
<1>2. \/ "IS_SAND_BOX" \in L /\ Push!Label(e) = "IS_SAND_BOX"
      \/ "IS_SAND_BOX" \notin L /\ "APNS" \in L /\ Push!Label(e) = "APNS"
      \/ "IS_SAND_BOX" \notin L /\ "APNS" \notin L /\ "APN" \in L /\ Push!Label(e) = "APN"
      \/ /\ "IS_SAND_BOX" \notin L /\ "APNS" \notin L /\ "APN" \notin L /\ "VOIP" \in L
         /\ Push!Label(e) = "VOIP"
      \/ /\ "IS_SAND_BOX" \notin L /\ "APNS" \notin L /\ "APN" \notin L /\ "VOIP" \notin L
         /\ Push!Label(e) = "FCM"
  BY DEF Push!Label
<1> HIDE DEF L
<1>3. Push!Label(e) \in {"IS_SAND_BOX", "APNS", "APN", "VOIP", "FCM"}
  BY <1>2
<1>4. Push!Label(e) # "FCM" => Push!Label(e) \in L
  BY <1>2
<1>5. Push!Label(e) = "FCM" => L \subseteq {"FCM"}
  BY <1>1, <1>2 DEF Push!Labels, L
<1>6. ASSUME NEW s \in Push!Labels, L = {s} PROVE Push!Label(e) = s
  BY <1>2, <1>6 DEF Push!Labels
<1> QED
  BY <1>3, <1>4, <1>5, <1>6 DEF L

LEMMA Dropped ==
  ASSUME NEW e \in Push!Elements, NEW l \in Push!Labels
  PROVE  LET w == Push!Without(e, l)
         IN /\ w \in [labels : SUBSET Push!Labels, rest : PushTokenNames \cup {"empty"}]
            /\ w.rest = e.rest
            /\ e.labels = {l} => w = [labels |-> {}, rest |-> e.rest]
<1>1. e = [labels |-> e.labels, rest |-> e.rest] /\ e.labels \subseteq Push!Labels /\ e.rest \in PushTokenNames \cup {"empty"}
  BY ElementType
<1>2. Push!Without(e, l) = [labels |-> e.labels \ {l}, rest |-> e.rest]
  BY <1>1 DEF Push!Without
<1> QED
  BY <1>1, <1>2

\* What one element does to the group: one slot is filled, or none.
LEMMA PlacedFills ==
  ASSUME PushTypes, NEW e \in Push!Elements
  PROVE  LET to == Push!Label(e)
             g  == Push!Placed(e)
         IN /\ g \in [apns : [labels : SUBSET Push!Labels, rest : PushTokenNames \cup {"empty"}],
                      fcm : [labels : SUBSET Push!Labels, rest : PushTokenNames \cup {"empty"}],
                      voip : [labels : SUBSET Push!Labels, rest : PushTokenNames \cup {"empty"}],
                      isSandBox : BOOLEAN]
            /\ g.apns = IF to \in {"APNS", "APN"} THEN Push!Without(e, to) ELSE group.apns
            /\ g.voip = IF to = "VOIP" THEN Push!Without(e, to) ELSE group.voip
            /\ g.fcm = IF to = "FCM" THEN Push!Without(e, to) ELSE group.fcm
<1> DEFINE to == Push!Label(e)
           w  == Push!Without(e, to)
           P  == [labels : SUBSET Push!Labels, rest : PushTokenNames \cup {"empty"}]
           G  == [apns : P, fcm : P, voip : P, isSandBox : BOOLEAN]
<1>1. to \in Push!Labels /\ to \in {"IS_SAND_BOX", "APNS", "APN", "VOIP", "FCM"}
  BY LabelOf DEF Push!Labels
<1>2. w \in P
  BY <1>1, Dropped
<1>3. group \in G
  BY DEF PushTypes
<1>4. to = "IS_SAND_BOX" => Push!Placed(e) = [group EXCEPT !.isSandBox = Push!Flag(w)]
  BY DEF Push!Placed
<1>5. (to = "APNS" \/ to = "APN") => Push!Placed(e) = [group EXCEPT !.apns = w]
  BY DEF Push!Placed, Push!Slot
<1>6. to = "VOIP" => Push!Placed(e) = [group EXCEPT !.voip = w]
  BY DEF Push!Placed, Push!Slot
<1>7. to = "FCM" => Push!Placed(e) = [group EXCEPT !.fcm = w]
  BY DEF Push!Placed, Push!Slot
<1> HIDE DEF P, w, to
<1>8. ASSUME NEW b \in BOOLEAN, Push!Placed(e) = [group EXCEPT !.isSandBox = b]
      PROVE  Push!Placed(e) \in G /\ Push!Placed(e).apns = group.apns /\ Push!Placed(e).voip = group.voip
             /\ Push!Placed(e).fcm = group.fcm
  BY <1>3, <1>8
<1>9. CASE to = "IS_SAND_BOX"
  <2>1. Push!Flag(w) \in BOOLEAN
    BY DEF Push!Flag
  <2>2. /\ Push!Placed(e) \in G /\ Push!Placed(e).apns = group.apns /\ Push!Placed(e).voip = group.voip
        /\ Push!Placed(e).fcm = group.fcm
    BY <1>4, <1>8, <1>9, <2>1
  <2> QED
    BY <1>9, <2>2 DEF P, to, w
<1>10. CASE to = "APNS" \/ to = "APN"
  <2>1. /\ Push!Placed(e) \in G /\ Push!Placed(e).apns = w /\ Push!Placed(e).voip = group.voip
        /\ Push!Placed(e).fcm = group.fcm
    BY <1>2, <1>3, <1>5, <1>10
  <2> QED
    BY <1>10, <2>1 DEF P, to, w
<1>11. CASE to = "VOIP"
  <2>1. /\ Push!Placed(e) \in G /\ Push!Placed(e).apns = group.apns /\ Push!Placed(e).voip = w
        /\ Push!Placed(e).fcm = group.fcm
    BY <1>2, <1>3, <1>6, <1>11
  <2> QED
    BY <1>11, <2>1 DEF P, to, w
<1>12. CASE to = "FCM"
  <2>1. /\ Push!Placed(e) \in G /\ Push!Placed(e).apns = group.apns /\ Push!Placed(e).voip = group.voip
        /\ Push!Placed(e).fcm = w
    BY <1>2, <1>3, <1>7, <1>12
  <2> QED
    BY <1>12, <2>1 DEF P, to, w
<1> QED
  BY <1>1, <1>9, <1>10, <1>11, <1>12

LEMMA PushStep ==
  ASSUME PushIInv, Push!ForEach
  PROVE  PushIInv'
<1> DEFINE e  == list[read + 1]
           to == Push!Label(e)
<1>1. read' = read + 1 /\ group' = Push!Placed(e) /\ list' = list /\ read < Len(list)
  BY DEF Push!ForEach
<1>2. PushTypes /\ read \in Nat /\ read + 1 \in 0 .. Len(list) /\ e \in Push!Elements
  BY <1>1 DEF PushIInv, PushTypes
<1>3. PushTypes'
  BY <1>1, <1>2, PlacedFills DEF PushTypes
<1>4. /\ group'.apns = IF to \in {"APNS", "APN"} THEN Push!Without(e, to) ELSE group.apns
      /\ group'.voip = IF to = "VOIP" THEN Push!Without(e, to) ELSE group.voip
      /\ group'.fcm = IF to = "FCM" THEN Push!Without(e, to) ELSE group.fcm
  BY <1>1, <1>2, PlacedFills
<1>5. /\ to \in Push!Labels
      /\ to # "FCM" => to \in e.labels
      /\ to = "FCM" => e.labels \subseteq {"FCM"}
      /\ \A s \in Push!Labels : e.labels = {s} => to = s
  BY <1>2, LabelOf DEF Push!Labels
<1>6. /\ Push!Without(e, to).rest = e.rest
      /\ e.labels = {to} => Push!Without(e, to) = [labels |-> {}, rest |-> e.rest]
  BY <1>2, <1>5, Dropped
<1>7. \A s \in {"APNS", "APN", "VOIP", "FCM"} :
        /\ s \in {"APNS", "APN"} => group'[Push!Slot[s]] = group'.apns /\ group[Push!Slot[s]] = group.apns
        /\ s = "VOIP" => group'[Push!Slot[s]] = group'.voip /\ group[Push!Slot[s]] = group.voip
        /\ s = "FCM" => group'[Push!Slot[s]] = group'.fcm /\ group[Push!Slot[s]] = group.fcm
  BY DEF Push!Slot
<1> HIDE DEF to
<1>8. ASSUME NEW k \in 1 .. (read + 1), NEW s \in {"APNS", "APN", "VOIP", "FCM"}, list[k].labels = {s},
             ~ \E l \in (k + 1) .. (read + 1) :
                 \/ list[l].labels \cap {s, "APNS", "APN"} # {} /\ s \in {"APNS", "APN"}
                 \/ s \in list[l].labels
                 \/ s = "FCM" /\ list[l].labels = {}
      PROVE  group'[Push!Slot[s]] = [labels |-> {}, rest |-> list[k].rest]
  <2>1. CASE k = read + 1
    <3>1. to = s /\ e.labels = {to} /\ list[k] = e
      BY <1>5, <1>8, <2>1 DEF Push!Labels
    <3>2. Push!Without(e, to) = [labels |-> {}, rest |-> list[k].rest]
      BY <1>6, <3>1
    <3>3. group'[Push!Slot[s]] = Push!Without(e, to)
      BY <1>4, <1>7, <3>1
    <3> QED
      BY <3>2, <3>3
  <2>2. CASE k # read + 1
    <3>1. k \in 1 .. read /\ read + 1 \in (k + 1) .. (read + 1)
      BY <1>2, <2>2
    <3>2. ~ \E l \in (k + 1) .. read :
             \/ list[l].labels \cap {s, "APNS", "APN"} # {} /\ s \in {"APNS", "APN"}
             \/ s \in list[l].labels
             \/ s = "FCM" /\ list[l].labels = {}
      <4>1. \A l \in (k + 1) .. read : l \in (k + 1) .. (read + 1)
        BY <1>2, <3>1
      <4> QED
        BY <1>8, <4>1, Zenon
    <3>3. group[Push!Slot[s]] = [labels |-> {}, rest |-> list[k].rest]
      BY <1>8, <3>1, <3>2, Zenon DEF PushIInv, KeptOrReplaced
    <3>4. /\ ~ (e.labels \cap {s, "APNS", "APN"} # {} /\ s \in {"APNS", "APN"})
          /\ s \notin e.labels /\ ~ (s = "FCM" /\ e.labels = {})
      BY <1>8, <3>1, Zenon
    <3>5. CASE s \in {"APNS", "APN"}
      <4>1. to \notin {"APNS", "APN"}
        BY <1>5, <3>4, <3>5
      <4> QED
        BY <1>4, <1>7, <3>3, <3>5, <4>1
    <3>6. CASE s = "VOIP"
      <4>1. to # "VOIP"
        BY <1>5, <3>4, <3>6
      <4> QED
        BY <1>4, <1>7, <3>3, <3>6, <4>1
    <3>7. CASE s = "FCM"
      <4>1. to # "FCM"
        BY <1>5, <3>4, <3>7
      <4> QED
        BY <1>4, <1>7, <3>3, <3>7, <4>1
    <3> QED
      BY <3>5, <3>6, <3>7
  <2> QED
    BY <2>1, <2>2
<1>9. KeptOrReplaced'
  <2>1. read' = read + 1 /\ list' = list
    BY <1>1
  <2> QED
    BY ONLY <2>1, <1>8 DEF KeptOrReplaced
<1>10. 1 .. read \subseteq 1 .. (read + 1) /\ read + 1 \in 1 .. (read + 1)
  BY <1>2
<1>11. Push!NothingInvented
  BY DEF PushIInv
<1>12. group'.apns # Push!Nothing =>
         \E k \in 1 .. (read + 1) : list[k].labels \cap {"APNS", "APN"} # {} /\ list[k].rest = group'.apns.rest
  <2>1. CASE to \in {"APNS", "APN"}
    <3>1. list[read + 1].labels \cap {"APNS", "APN"} # {} /\ list[read + 1].rest = group'.apns.rest
      BY <1>4, <1>5, <1>6, <2>1
    <3> QED
      BY <1>10, <3>1
  <2>2. CASE to \notin {"APNS", "APN"}
    BY <1>4, <1>10, <1>11, <2>2 DEF Push!NothingInvented
  <2> QED
    BY <2>1, <2>2
<1>13. group'.voip # Push!Nothing =>
         \E k \in 1 .. (read + 1) : "VOIP" \in list[k].labels /\ list[k].rest = group'.voip.rest
  <2>1. CASE to = "VOIP"
    <3>1. "VOIP" \in list[read + 1].labels /\ list[read + 1].rest = group'.voip.rest
      BY <1>4, <1>5, <1>6, <2>1
    <3> QED
      BY <1>10, <3>1
  <2>2. CASE to # "VOIP"
    BY <1>4, <1>10, <1>11, <2>2 DEF Push!NothingInvented
  <2> QED
    BY <2>1, <2>2
<1>14. group'.fcm # Push!Nothing =>
         \E k \in 1 .. (read + 1) : list[k].labels \subseteq {"FCM"} /\ list[k].rest = group'.fcm.rest
  <2>1. CASE to = "FCM"
    <3>1. list[read + 1].labels \subseteq {"FCM"} /\ list[read + 1].rest = group'.fcm.rest
      BY <1>4, <1>5, <1>6, <2>1
    <3> QED
      BY <1>10, <3>1
  <2>2. CASE to # "FCM"
    BY <1>4, <1>10, <1>11, <2>2 DEF Push!NothingInvented
  <2> QED
    BY <2>1, <2>2
<1>15. Push!NothingInvented'
  BY <1>1, <1>12, <1>13, <1>14 DEF Push!NothingInvented, Push!Nothing
<1> QED
  BY <1>3, <1>9, <1>15 DEF PushIInv

LEMMA PushTyped == Spec => []PushIInv
<1>1. CommonAssumption /\ Init => PushIInv
  <2> SUFFICES ASSUME CommonAssumption, Init PROVE PushIInv
    OBVIOUS
  <2>1. /\ list \in UNION {[1..m -> Push!Elements] : m \in 0..MaxElements} /\ read = 0
        /\ group = [apns |-> Push!Nothing, fcm |-> Push!Nothing, voip |-> Push!Nothing, isSandBox |-> FALSE]
    BY DEF Init, Push!Init, Push!BoundedSeq, Push!SeqOf
  <2>2. list \in Seq(Push!Elements)
    BY <2>1
  <2>3. Push!Nothing \in [labels : SUBSET Push!Labels, rest : PushTokenNames \cup {"empty"}]
    BY DEF Push!Nothing
  <2>4. PushTypes
    BY <2>1, <2>2, <2>3 DEF PushTypes
  <2>5. group.apns = Push!Nothing /\ group.fcm = Push!Nothing /\ group.voip = Push!Nothing
    BY <2>1
  <2>6. Push!NothingInvented
    BY <2>5 DEF Push!NothingInvented
  <2>7. KeptOrReplaced
    BY <2>1 DEF KeptOrReplaced
  <2> QED
    BY <2>4, <2>6, <2>7 DEF PushIInv
<1>2. PushIInv /\ [Push!Next]_pushVars => PushIInv'
  <2>1. ASSUME PushIInv, UNCHANGED pushVars PROVE PushIInv'
    <3>1. list' = list /\ read' = read /\ group' = group
      BY <2>1 DEF pushVars
    <3>2. PushTypes'
      BY <2>1, <3>1, Zenon DEF PushIInv, PushTypes
    <3>3. KeptOrReplaced'
      <4>1. KeptOrReplaced
        BY <2>1 DEF PushIInv
      <4> QED
        BY ONLY <3>1, <4>1 DEF KeptOrReplaced
    <3>4. Push!NothingInvented'
      BY <2>1, <3>1, Zenon DEF PushIInv, Push!NothingInvented, Push!Nothing
    <3> QED
      BY <3>2, <3>3, <3>4 DEF PushIInv
  <2> QED
    BY <2>1, PushStep DEF Push!Next
<1> QED
  BY <1>1, <1>2, CommonAssumption, PartStep, PTL DEF Spec

LEMMA PushHolds ==
  ASSUME PushIInv
  PROVE  Push!LostTokensExplained /\ Push!NothingInvented /\ Push!TypeOK
<1>1. Push!LostTokensExplained
  BY DEF PushIInv, KeptOrReplaced, Push!LostTokensExplained
<1>2. Push!TypeOK
  <2>1. read \in 0 .. Len(list) /\ group.isSandBox \in BOOLEAN
    BY DEF PushIInv, PushTypes
  <2>2. /\ group["apns"].rest \in PushTokenNames \cup {"empty"} /\ group["fcm"].rest \in PushTokenNames \cup {"empty"}
        /\ group["voip"].rest \in PushTokenNames \cup {"empty"}
    BY DEF PushIInv, PushTypes
  <2> QED
    BY <2>1, <2>2 DEF Push!TypeOK
<1> QED
  BY <1>1, <1>2 DEF PushIInv

-----------------------------------------------------------------------------
(* Pagination: sequences. *)

\* t is s with x put in at position q; and s is t with position q taken out.
PutAt(s, t, q, x) ==
  /\ q \in 1 .. (Len(s) + 1) /\ Len(t) = Len(s) + 1 /\ t[q] = x
  /\ \A j \in 1 .. Len(s) : t[IF j < q THEN j ELSE j + 1] = s[j]

LEMMA Concat ==
  ASSUME NEW S, NEW s \in Seq(S), NEW t \in Seq(S)
  PROVE  /\ s \o t \in Seq(S) /\ Len(s \o t) = Len(s) + Len(t)
         /\ \A j \in 1 .. Len(s) : (s \o t)[j] = s[j]
         /\ \A j \in (Len(s) + 1) .. (Len(s) + Len(t)) : (s \o t)[j] = t[j - Len(s)]
<1>1. Len(s) \in Nat /\ Len(t) \in Nat
  OBVIOUS
<1>2. /\ s \o t \in Seq(S) /\ Len(s \o t) = Len(s) + Len(t)
      /\ \A j \in 1 .. (Len(s) + Len(t)) : (s \o t)[j] = IF j <= Len(s) THEN s[j] ELSE t[j - Len(s)]
  BY ConcatProperties
<1> QED
  BY ONLY <1>1, <1>2

LEMMA InsertAtPuts ==
  ASSUME NEW s \in Seq(Items), NEW q \in 1 .. (Len(s) + 1), NEW x \in Items
  PROVE  Page!InsertAt(s, q, x) \in Seq(Items) /\ PutAt(s, Page!InsertAt(s, q, x), q, x)
<1> DEFINE a == SubSeq(s, 1, q - 1)
           b == SubSeq(s, q, Len(s))
           t == (a \o <<x>>) \o b
<1>0. Len(s) \in Nat /\ q \in Nat /\ 1 <= q /\ q <= Len(s) + 1
  OBVIOUS
<1>1. a \in Seq(Items) /\ Len(a) = q - 1 /\ \A j \in 1 .. (q - 1) : a[j] = s[j]
  BY <1>0
<1>2. b \in Seq(Items) /\ Len(b) = Len(s) - q + 1 /\ \A j \in 1 .. (Len(s) - q + 1) : b[j] = s[j + q - 1]
  BY <1>0
<1> HIDE DEF a, b
<1>3. /\ a \o <<x>> \in Seq(Items) /\ Len(a \o <<x>>) = q /\ (a \o <<x>>)[q] = x
      /\ \A j \in 1 .. (q - 1) : (a \o <<x>>)[j] = s[j]
  BY <1>0, <1>1
<1> DEFINE c == a \o <<x>>
<1>4. c \in Seq(Items) /\ Len(c) = q /\ c[q] = x /\ \A j \in 1 .. (q - 1) : c[j] = s[j]
  BY <1>3
<1> HIDE DEF c
<1>5. /\ c \o b \in Seq(Items) /\ Len(c \o b) = Len(s) + 1
      /\ \A j \in 1 .. q : (c \o b)[j] = c[j]
      /\ \A j \in (q + 1) .. (Len(s) + 1) : (c \o b)[j] = b[j - q]
  <2>1. Len(c) + Len(b) = Len(s) + 1
    BY ONLY <1>0, <1>2, <1>4
  <2>2. /\ c \o b \in Seq(Items) /\ Len(c \o b) = Len(c) + Len(b)
        /\ \A j \in 1 .. Len(c) : (c \o b)[j] = c[j]
        /\ \A j \in (Len(c) + 1) .. (Len(c) + Len(b)) : (c \o b)[j] = b[j - Len(c)]
    BY <1>2, <1>4, Concat
  <2> QED
    BY ONLY <1>4, <2>1, <2>2
<1>6. ASSUME NEW j \in 1 .. Len(s) PROVE (c \o b)[IF j < q THEN j ELSE j + 1] = s[j]
  <2>1. CASE j < q
    BY <1>0, <1>4, <1>5, <2>1
  <2>2. CASE ~ (j < q)
    <3>1. j + 1 \in (q + 1) .. (Len(s) + 1) /\ j + 1 - q \in 1 .. (Len(s) - q + 1) /\ (j + 1 - q) + q - 1 = j
      BY <1>0, <2>2
    <3> QED
      BY <1>2, <1>5, <2>2, <3>1
  <2> QED
    BY <2>1, <2>2
<1>7. (c \o b)[q] = x
  BY <1>0, <1>4, <1>5
<1>8. c \o b \in Seq(Items) /\ PutAt(s, c \o b, q, x)
  BY <1>0, <1>5, <1>6, <1>7 DEF PutAt
<1> QED
  BY <1>8 DEF Page!InsertAt, a, b, c

LEMMA RemoveAtTakes ==
  ASSUME NEW t \in Seq(Items), NEW q \in 1 .. Len(t)
  PROVE  Page!RemoveAt(t, q) \in Seq(Items) /\ PutAt(Page!RemoveAt(t, q), t, q, t[q])
<1> DEFINE a == SubSeq(t, 1, q - 1)
           b == SubSeq(t, q + 1, Len(t))
<1>0. Len(t) \in Nat /\ q \in Nat /\ 1 <= q /\ q <= Len(t)
  OBVIOUS
<1>1. a \in Seq(Items) /\ Len(a) = q - 1 /\ \A j \in 1 .. (q - 1) : a[j] = t[j]
  BY <1>0
<1>2. b \in Seq(Items) /\ Len(b) = Len(t) - q /\ \A j \in 1 .. (Len(t) - q) : b[j] = t[j + q]
  BY <1>0
<1> HIDE DEF a, b
<1>3. /\ a \o b \in Seq(Items) /\ Len(a \o b) = Len(t) - 1
      /\ \A j \in 1 .. (q - 1) : (a \o b)[j] = a[j]
      /\ \A j \in q .. (Len(t) - 1) : (a \o b)[j] = b[j - (q - 1)]
  <2>1. Len(a) + Len(b) = Len(t) - 1 /\ Len(a) + 1 = q
    BY ONLY <1>0, <1>1, <1>2
  <2>2. /\ a \o b \in Seq(Items) /\ Len(a \o b) = Len(a) + Len(b)
        /\ \A j \in 1 .. Len(a) : (a \o b)[j] = a[j]
        /\ \A j \in (Len(a) + 1) .. (Len(a) + Len(b)) : (a \o b)[j] = b[j - Len(a)]
    BY <1>1, <1>2, Concat
  <2> QED
    BY ONLY <1>1, <2>1, <2>2
<1>4. ASSUME NEW j \in 1 .. (Len(t) - 1) PROVE t[IF j < q THEN j ELSE j + 1] = (a \o b)[j]
  <2>1. CASE j < q
    BY <1>0, <1>1, <1>3, <2>1
  <2>2. CASE ~ (j < q)
    <3>1. j \in q .. (Len(t) - 1) /\ j - (q - 1) \in 1 .. (Len(t) - q) /\ (j - (q - 1)) + q = j + 1
      BY <1>0, <2>2
    <3> QED
      BY <1>2, <1>3, <2>2, <3>1
  <2> QED
    BY <2>1, <2>2
<1>5. a \o b \in Seq(Items) /\ PutAt(a \o b, t, q, t[q])
  BY <1>0, <1>3, <1>4 DEF PutAt
<1> QED
  BY <1>5 DEF Page!RemoveAt, a, b

LEMMA Reversed ==
  ASSUME NEW s \in Seq(Items)
  PROVE  /\ Page!Reverse(s) \in Seq(Items) /\ Len(Page!Reverse(s)) = Len(s)
         /\ \A j \in 1 .. Len(s) : Page!Reverse(s)[j] = s[Len(s) + 1 - j]
<1>1. Page!Reverse(s) = [j \in 1 .. Len(s) |-> s[(Len(s) - j) + 1]]
  BY DEF Page!Reverse
<1>2. \A j \in 1 .. Len(s) : (Len(s) - j) + 1 = Len(s) + 1 - j /\ Len(s) + 1 - j \in 1 .. Len(s)
  OBVIOUS
<1>3. \A j \in 1 .. Len(s) : s[(Len(s) - j) + 1] = s[Len(s) + 1 - j] /\ s[Len(s) + 1 - j] \in Items
  BY <1>2
<1> QED
  BY <1>1, <1>3

LEMMA PutAtReversed ==
  ASSUME NEW s \in Seq(Items), NEW t \in Seq(Items), NEW q, NEW x, PutAt(s, t, q, x)
  PROVE  PutAt(Page!Reverse(s), Page!Reverse(t), Len(s) + 2 - q, x)
<1> DEFINE n == Len(s)
           r == Page!Reverse(s)
           u == Page!Reverse(t)
           p == n + 2 - q
<1>1. /\ n \in Nat /\ q \in 1 .. (n + 1) /\ Len(t) = n + 1 /\ t[q] = x
      /\ \A j \in 1 .. n : t[IF j < q THEN j ELSE j + 1] = s[j]
  BY DEF PutAt
<1>2. Len(r) = n /\ \A j \in 1 .. n : r[j] = s[n + 1 - j]
  BY Reversed
<1>3. Len(u) = n + 1 /\ \A j \in 1 .. (n + 1) : u[j] = t[n + 2 - j]
  BY <1>1, Reversed
<1> HIDE DEF n, r, u
<1>4. p \in 1 .. (n + 1) /\ u[p] = x
  <2>1. p \in 1 .. (n + 1) /\ n + 2 - p = q
    BY <1>1
  <2> QED
    BY <1>1, <1>3, <2>1
<1>5. ASSUME NEW j \in 1 .. n PROVE u[IF j < p THEN j ELSE j + 1] = r[j]
  <2> DEFINE k == n + 1 - j
  <2>1. k \in 1 .. n /\ r[j] = s[k]
    BY <1>1, <1>2
  <2>2. CASE j < p
    <3>1. ~ (k < q) /\ n + 2 - j = k + 1 /\ j \in 1 .. (n + 1)
      BY <1>1, <2>2
    <3> QED
      BY <1>1, <1>3, <2>1, <2>2, <3>1
  <2>3. CASE ~ (j < p)
    <3>1. k < q /\ n + 2 - (j + 1) = k /\ j + 1 \in 1 .. (n + 1)
      BY <1>1, <2>3
    <3> QED
      BY <1>1, <1>3, <2>1, <2>3, <3>1
  <2> QED
    BY <2>2, <2>3
<1> QED
  BY <1>2, <1>3, <1>4, <1>5 DEF PutAt, n, r, u

\* What stands at the first n places of a sequence, and what stands behind.
Front(s, n) == {s[j] : j \in {k \in 1 .. Len(s) : k <= n}}
Back(s, n)  == {s[j] : j \in {k \in 1 .. Len(s) : k > n}}

LEMMA PutAtPlaces ==
  ASSUME NEW s \in Seq(Items), NEW t \in Seq(Items), NEW q, NEW x, PutAt(s, t, q, x)
  PROVE  /\ q \in 1 .. (Len(s) + 1) /\ Len(t) = Len(s) + 1 /\ Len(s) \in Nat /\ t[q] = x
         /\ \A m \in 1 .. Len(t) : m < q => m \in 1 .. Len(s) /\ t[m] = s[m]
         /\ \A m \in 1 .. Len(t) : m > q => m - 1 \in 1 .. Len(s) /\ t[m] = s[m - 1]
<1>1. q \in 1 .. (Len(s) + 1) /\ Len(t) = Len(s) + 1 /\ Len(s) \in Nat /\ t[q] = x
  BY DEF PutAt
<1>2. \A j \in 1 .. Len(s) : t[IF j < q THEN j ELSE j + 1] = s[j]
  BY DEF PutAt
<1>3. ASSUME NEW m \in 1 .. Len(t), m < q PROVE m \in 1 .. Len(s) /\ t[m] = s[m]
  <2>1. m \in 1 .. Len(s)
    BY <1>1, <1>3
  <2> QED
    BY <1>2, <1>3, <2>1
<1>4. ASSUME NEW m \in 1 .. Len(t), m > q PROVE m - 1 \in 1 .. Len(s) /\ t[m] = s[m - 1]
  <2>1. m - 1 \in 1 .. Len(s) /\ ~ (m - 1 < q) /\ (m - 1) + 1 = m
    BY <1>1, <1>4
  <2>2. t[IF m - 1 < q THEN m - 1 ELSE (m - 1) + 1] = s[m - 1]
    BY <1>2, <2>1
  <2> QED
    BY <2>1, <2>2
<1> QED
  BY <1>1, <1>3, <1>4

\* Whatever is put in or taken out moves one item at most over the border between
\* front and back: out of the front when something is put in, into it when
\* something is taken out.
LEMMA PutAtFronts ==
  ASSUME NEW s \in Seq(Items), NEW t \in Seq(Items), NEW q, NEW x, PutAt(s, t, q, x), NEW n \in Nat
  PROVE  /\ Front(t, n) \subseteq Front(s, n) \cup {x}
         /\ Back(s, n) \subseteq Back(t, n)
         /\ \E y : Front(s, n) \subseteq Front(t, n) \cup {y}
         /\ \E y : Back(t, n) \subseteq Back(s, n) \cup {y}
<1>1. /\ q \in 1 .. (Len(s) + 1) /\ Len(t) = Len(s) + 1 /\ Len(s) \in Nat /\ t[q] = x
      /\ \A m \in 1 .. Len(t) : m < q => m \in 1 .. Len(s) /\ t[m] = s[m]
      /\ \A m \in 1 .. Len(t) : m > q => m - 1 \in 1 .. Len(s) /\ t[m] = s[m - 1]
  BY PutAtPlaces
<1>2. \A j \in 1 .. Len(s) : t[IF j < q THEN j ELSE j + 1] = s[j]
  BY DEF PutAt
<1>3. ASSUME NEW m \in 1 .. Len(t), m <= n PROVE t[m] \in Front(s, n) \cup {x}
  <2>1. CASE m < q
    BY <1>1, <1>3, <2>1 DEF Front
  <2>2. CASE m = q
    BY <1>1, <2>2
  <2>3. CASE m > q
    <3>1. m - 1 \in 1 .. Len(s) /\ m - 1 <= n /\ t[m] = s[m - 1]
      BY <1>1, <1>3, <2>3
    <3> QED
      BY <3>1 DEF Front
  <2> QED
    BY <1>1, <2>1, <2>2, <2>3
<1>4. ASSUME NEW j \in 1 .. Len(s), j > n PROVE s[j] \in Back(t, n)
  <2>1. CASE j < q
    <3>1. j \in 1 .. Len(t) /\ t[j] = s[j]
      BY <1>1, <1>2, <2>1
    <3> QED
      BY <1>4, <3>1 DEF Back
  <2>2. CASE ~ (j < q)
    <3>1. j + 1 \in 1 .. Len(t) /\ j + 1 > n /\ t[j + 1] = s[j]
      BY <1>1, <1>2, <1>4, <2>2
    <3> QED
      BY <3>1 DEF Back
  <2> QED
    BY <2>1, <2>2
<1>5. \E y : Front(s, n) \subseteq Front(t, n) \cup {y}
  <2>1. ASSUME NEW j \in 1 .. Len(s), j <= n PROVE s[j] \in Front(t, n) \cup {s[n]}
    <3>1. CASE j < q
      <4>1. j \in 1 .. Len(t) /\ t[j] = s[j]
        BY <1>1, <1>2, <3>1
      <4> QED
        BY <2>1, <4>1 DEF Front
    <3>2. CASE ~ (j < q) /\ j + 1 <= n
      <4>1. j + 1 \in 1 .. Len(t) /\ t[j + 1] = s[j]
        BY <1>1, <1>2, <3>2
      <4> QED
        BY <3>2, <4>1 DEF Front
    <3>3. CASE ~ (j + 1 <= n)
      <4>1. j = n
        BY <2>1, <3>3
      <4> QED
        BY <4>1
    <3> QED
      BY <3>1, <3>2, <3>3
  <2>2. Front(s, n) \subseteq Front(t, n) \cup {s[n]}
    BY <2>1 DEF Front
  <2> QED
    BY <2>2
<1>6. \E y : Back(t, n) \subseteq Back(s, n) \cup {y}
  <2>1. ASSUME NEW m \in 1 .. Len(t), m > n PROVE t[m] \in Back(s, n) \cup {t[IF q > n THEN q ELSE n + 1]}
    <3>1. CASE m < q
      BY <1>1, <2>1, <3>1 DEF Back
    <3>2. CASE m = q
      BY <2>1, <3>2
    <3>3. CASE m > q
      <4>1. m - 1 \in 1 .. Len(s) /\ t[m] = s[m - 1]
        BY <1>1, <3>3
      <4>2. CASE m - 1 > n
        BY <4>1, <4>2 DEF Back
      <4>3. CASE ~ (m - 1 > n)
        <5>1. m = n + 1 /\ ~ (q > n)
          BY <1>1, <2>1, <3>3, <4>3
        <5> QED
          BY <5>1
      <4> QED
        BY <4>2, <4>3
    <3> QED
      BY <1>1, <3>1, <3>2, <3>3
  <2>2. Back(t, n) \subseteq Back(s, n) \cup {t[IF q > n THEN q ELSE n + 1]}
    BY <2>1 DEF Back
  <2> QED
    BY <2>2
<1> QED
  BY <1>3, <1>4, <1>5, <1>6 DEF Front, Back

Apart(s) == \A i, j \in 1 .. Len(s) : s[i] = s[j] => i = j

LEMMA PutAtApart ==
  ASSUME NEW s \in Seq(Items), NEW t \in Seq(Items), NEW q, NEW x, PutAt(s, t, q, x)
  PROVE  /\ Apart(s) /\ (\A j \in 1 .. Len(s) : s[j] # x) => Apart(t)
         /\ Apart(t) => Apart(s)
<1>1. /\ q \in 1 .. (Len(s) + 1) /\ Len(t) = Len(s) + 1 /\ Len(s) \in Nat /\ t[q] = x
      /\ \A m \in 1 .. Len(t) : m < q => m \in 1 .. Len(s) /\ t[m] = s[m]
      /\ \A m \in 1 .. Len(t) : m > q => m - 1 \in 1 .. Len(s) /\ t[m] = s[m - 1]
  BY PutAtPlaces
<1>2. \A j \in 1 .. Len(s) : t[IF j < q THEN j ELSE j + 1] = s[j]
  BY DEF PutAt
<1>3. ASSUME Apart(s), \A j \in 1 .. Len(s) : s[j] # x, NEW a \in 1 .. Len(t), NEW b \in 1 .. Len(t), t[a] = t[b]
      PROVE  a = b
  <2> DEFINE Old(m) == IF m < q THEN m ELSE m - 1
  <2>1. ASSUME NEW m \in 1 .. Len(t), m # q PROVE Old(m) \in 1 .. Len(s) /\ t[m] = s[Old(m)]
    BY <1>1, <2>1
  <2>2. CASE a # q /\ b # q
    <3>1. Old(a) = Old(b)
      BY <1>3, <2>1, <2>2 DEF Apart
    <3>2. a \in Nat /\ b \in Nat /\ q \in Nat
      BY <1>1
    <3>3. (IF a < q THEN a ELSE a - 1) = (IF b < q THEN b ELSE b - 1)
      BY <3>1
    <3> QED
      BY ONLY <2>2, <3>2, <3>3
  <2>3. CASE a = q \/ b = q
    <3>1. \A m \in 1 .. Len(t) : m # q => t[m] # x
      BY <1>3, <2>1
    <3> QED
      BY <1>1, <1>3, <2>3, <3>1
  <2> QED
    BY <2>2, <2>3
<1>4. ASSUME Apart(t), NEW a \in 1 .. Len(s), NEW b \in 1 .. Len(s), s[a] = s[b] PROVE a = b
  <2> DEFINE New(j) == IF j < q THEN j ELSE j + 1
  <2>1. New(a) \in 1 .. Len(t) /\ New(b) \in 1 .. Len(t)
    BY <1>1
  <2>2. t[New(a)] = t[New(b)]
    BY <1>2, <1>4
  <2>3. New(a) = New(b)
    BY <1>4, <2>1, <2>2 DEF Apart
  <2>4. a \in Nat /\ b \in Nat /\ q \in Nat
    BY <1>1
  <2> QED
    BY <2>3, <2>4
<1> QED
  BY <1>3, <1>4 DEF Apart

LEMMA ReversedApart ==
  ASSUME NEW s \in Seq(Items), Apart(s)
  PROVE  Apart(Page!Reverse(s))
<1> DEFINE r == Page!Reverse(s)
<1>1. Len(r) = Len(s) /\ Len(s) \in Nat /\ \A j \in 1 .. Len(s) : r[j] = s[Len(s) + 1 - j]
  BY Reversed
<1> HIDE DEF r
<1>0. Len(s) \in Nat
  OBVIOUS
<1>2. ASSUME NEW i \in 1 .. Len(s), NEW j \in 1 .. Len(s), r[i] = r[j] PROVE i = j
  <2>1. Len(s) + 1 - i \in 1 .. Len(s) /\ Len(s) + 1 - j \in 1 .. Len(s)
    BY ONLY <1>0, i \in 1 .. Len(s), j \in 1 .. Len(s)
  <2> DEFINE a == Len(s) + 1 - i
             b == Len(s) + 1 - j
  <2>2. r[i] = s[a] /\ r[j] = s[b]
    BY <1>1
  <2>3. s[a] = s[b]
    BY ONLY <1>2, <2>2
  <2> HIDE DEF a, b
  <2>4. a \in 1 .. Len(s) /\ b \in 1 .. Len(s)
    BY <2>1 DEF a, b
  <2>5. a = b
    BY <2>3, <2>4 DEF Apart
  <2> QED
    BY ONLY <1>0, <2>5, i \in 1 .. Len(s), j \in 1 .. Len(s) DEF a, b
<1>3. Apart(r)
  BY <1>1, <1>2 DEF Apart
<1> QED
  BY <1>3 DEF r

-----------------------------------------------------------------------------
(* Pagination: pages. *)

LEMMA ItemsFinite ==
  ASSUME CommonAssumption
  PROVE  /\ IsFiniteSet(Items)
         /\ \A S \in SUBSET Items : IsFiniteSet(S) /\ Cardinality(S) \in Nat /\ Page!Cardinality(S) = Cardinality(S)
         /\ \A S \in SUBSET Items : \A T \in SUBSET S : Cardinality(T) <= Cardinality(S)
<1>1. IsFiniteSet(Items)
  BY DEF CommonAssumption, Page!PaginationAssumption, Page!IsFiniteSet, IsFiniteSet
<1>2. ASSUME NEW S \in SUBSET Items PROVE IsFiniteSet(S) /\ Cardinality(S) \in Nat
  BY <1>1, FS_Subset, FS_CardinalityType
<1>3. ASSUME NEW S \in SUBSET Items PROVE Page!Cardinality(S) = Cardinality(S)
  BY DEF Page!Cardinality, Cardinality
<1>4. ASSUME NEW S \in SUBSET Items, NEW T \in SUBSET S PROVE Cardinality(T) <= Cardinality(S)
  BY <1>2, FS_Subset
<1> QED
  BY <1>1, <1>2, <1>3, <1>4

\* A set that grew by one item at most.
LEMMA OneMore ==
  ASSUME CommonAssumption, NEW S \in SUBSET Items, NEW T \in SUBSET Items, NEW y, T \subseteq S \cup {y}
  PROVE  Cardinality(T) <= Cardinality(S) + 1
<1>1. IsFiniteSet(S) /\ IsFiniteSet(T) /\ Cardinality(S) \in Nat /\ Cardinality(T) \in Nat
  BY ItemsFinite
<1>2. IsFiniteSet(S \cup {y}) /\ (Cardinality(S \cup {y}) = Cardinality(S) \/ Cardinality(S \cup {y}) = Cardinality(S) + 1)
  BY <1>1, FS_AddElement
<1>3. Cardinality(T) <= Cardinality(S \cup {y})
  BY <1>2, FS_Subset
<1> QED
  BY <1>1, <1>2, <1>3

LEMMA FrontBackTypes ==
  ASSUME NEW s \in Seq(Items), NEW n \in Nat
  PROVE  /\ Front(s, n) \subseteq Items /\ Back(s, n) \subseteq Items
         /\ Page!ToSet(s) \subseteq Items
         /\ Len(s) <= n => Page!ToSet(s) = Front(s, n)
<1>1. DOMAIN s = 1 .. Len(s) /\ \A j \in 1 .. Len(s) : s[j] \in Items
  OBVIOUS
<1>2. Front(s, n) \subseteq Items /\ Back(s, n) \subseteq Items /\ Page!ToSet(s) \subseteq Items
  BY <1>1 DEF Front, Back, Page!ToSet
<1>3. ASSUME Len(s) <= n PROVE Page!ToSet(s) = Front(s, n)
  <2>1. \A j \in 1 .. Len(s) : j <= n
    BY <1>3
  <2> QED
    BY <1>1, <2>1 DEF Front, Page!ToSet
<1> QED
  BY <1>2, <1>3

LEMMA ApartCounts ==
  ASSUME NEW l \in Seq(Items), Apart(l)
  PROVE  Cardinality(Page!ToSet(l)) = Len(l)
<1>1. l \in Bijection(1 .. Len(l), Page!ToSet(l))
  BY DEF Apart, Page!ToSet, Bijection, Injection, Surjection, IsInjective
<1>2. Len(l) \in Nat /\ ExistsBijection(1 .. Len(l), Page!ToSet(l))
  BY <1>1 DEF ExistsBijection
<1> QED
  BY <1>2, FS_CountingElements

\* The page of limit m after n items: its items, each once.
PageOf(s, n, m) == SubSeq(s, n + 1, IF n + m < Len(s) THEN n + m ELSE Len(s))

LEMMA PageCut ==
  ASSUME NEW s \in Seq(Items), Apart(s), NEW n \in Nat, NEW m \in Nat,
         NEW l, l = PageOf(s, n, m)
  PROVE  /\ l \in Seq(Items) /\ Len(l) <= m
         /\ Cardinality(Page!ToSet(l)) = Len(l)
         /\ Front(s, n + m) = Front(s, n) \cup Page!ToSet(l)
         /\ Back(s, n) = Back(s, n + m) \cup Page!ToSet(l)
         /\ Back(s, n + m) \cap Page!ToSet(l) = {}
<1> DEFINE to == IF n + m < Len(s) THEN n + m ELSE Len(s)
<1>0. Len(s) \in Nat
  OBVIOUS
<1>1. to \in Nat /\ to <= Len(s) /\ to <= n + m /\ (to = n + m \/ (to = Len(s) /\ Len(s) <= n + m))
  BY <1>0
<1>14. l = SubSeq(s, n + 1, to)
  BY DEF PageOf
<1> HIDE DEF to
<1>2. /\ l \in Seq(Items) /\ Len(l) = IF n + 1 <= to THEN to - n ELSE 0
      /\ \A j \in 1 .. (to - n) : l[j] = s[n + j]
  <2>1. CASE n + 1 <= to
    <3>1. /\ SubSeq(s, n + 1, to) \in Seq(Items) /\ Len(SubSeq(s, n + 1, to)) = to - n
          /\ \A j \in 1 .. (to - n) : SubSeq(s, n + 1, to)[j] = s[n + j]
      BY <1>0, <1>1, <2>1
    <3> QED
      BY <1>14, <2>1, <3>1
  <2>2. CASE ~ (n + 1 <= to)
    <3>1. l = <<>>
      BY <1>0, <1>1, <1>14, <2>2, SubSeqEmpty
    <3> QED
      BY <1>0, <1>1, <2>2, <3>1
  <2> QED
    BY <2>1, <2>2
<1>3. Len(l) <= m /\ Len(l) \in Nat /\ DOMAIN l = 1 .. Len(l)
  BY <1>1, <1>2
<1>4. \A j \in 1 .. Len(l) : n + j \in 1 .. Len(s) /\ n + j <= n + m /\ n + j > n /\ l[j] = s[n + j]
  BY <1>0, <1>1, <1>2
<1>5. \A k \in 1 .. Len(s) : k > n /\ k <= n + m => k - n \in 1 .. Len(l) /\ l[k - n] = s[k]
  <2> SUFFICES ASSUME NEW k \in 1 .. Len(s), k > n, k <= n + m PROVE k - n \in 1 .. Len(l) /\ l[k - n] = s[k]
    OBVIOUS
  <2>1. k <= to /\ n + 1 <= to
    BY <1>0, <1>1
  <2>2. k - n \in 1 .. (to - n) /\ Len(l) = to - n /\ n + (k - n) = k
    BY <1>0, <1>1, <1>2, <2>1
  <2> QED
    BY <1>2, <2>2
<1>6. Apart(l)
  <2> SUFFICES ASSUME NEW i \in 1 .. Len(l), NEW j \in 1 .. Len(l), l[i] = l[j] PROVE i = j
    BY DEF Apart
  <2>1. n + i \in 1 .. Len(s) /\ n + j \in 1 .. Len(s) /\ s[n + i] = s[n + j]
    BY <1>4
  <2>2. n + i = n + j
    BY <2>1 DEF Apart
  <2> QED
    BY <2>2
<1>7. Cardinality(Page!ToSet(l)) = Len(l)
  BY <1>2, <1>6, ApartCounts
<1>8. \A x \in Page!ToSet(l) : \E k \in 1 .. Len(s) : k > n /\ k <= n + m /\ x = s[k]
  <2> SUFFICES ASSUME NEW j \in 1 .. Len(l) PROVE \E k \in 1 .. Len(s) : k > n /\ k <= n + m /\ l[j] = s[k]
    BY <1>3 DEF Page!ToSet
  <2> QED
    BY <1>4
<1>9. \A k \in 1 .. Len(s) : k > n /\ k <= n + m => s[k] \in Page!ToSet(l)
  BY <1>3, <1>5 DEF Page!ToSet
<1>10. \A k \in 1 .. Len(s) : k \in Nat /\ (k <= n => k <= n + m) /\ (k > n + m => k > n)
  BY <1>0
<1>11. Front(s, n + m) = Front(s, n) \cup Page!ToSet(l)
  BY <1>8, <1>9, <1>10 DEF Front
<1>12. Back(s, n) = Back(s, n + m) \cup Page!ToSet(l)
  BY <1>8, <1>9, <1>10 DEF Back
<1>13. Back(s, n + m) \cap Page!ToSet(l) = {}
  <2> SUFFICES ASSUME NEW k \in 1 .. Len(s), k > n + m, s[k] \in Page!ToSet(l) PROVE FALSE
    BY DEF Back
  <2>1. PICK i \in 1 .. Len(s) : i > n /\ i <= n + m /\ s[k] = s[i]
    BY <1>8
  <2>2. i = k
    BY <2>1 DEF Apart
  <2> QED
    BY <1>0, <2>1, <2>2
<1> QED
  BY <1>2, <1>3, <1>7, <1>11, <1>12, <1>13

\* The list as the client asks for it, and how many of its places it has read.
Sorted == IF ask.order = "ASC" THEN collection ELSE Page!Reverse(collection)
Done   == Page!RepoPagination(ask).skip
Listed == Page!ToSet(pages)

AskTypes ==
  ask \in [page : {Absent} \cup (Nat \ {0}), limit : Nat \cup {Absent}, order : {"ASC", "DESC", Absent}]

PageTypes ==
  /\ AskTypes /\ reading \in BOOLEAN
  /\ collection \in Seq(Items) /\ Apart(collection)
  /\ pages \in Seq(Items) /\ gone \subseteq Items
  /\ added \in Nat /\ removed \in Nat /\ added + removed <= MaxEdits
  /\ response # Absent =>
       /\ response.page >= 1 /\ response.limit >= 1 /\ Len(response.list) <= response.limit
       /\ response.total <= Cardinality(Items)

\* Of the places read, as many items are not listed as were taken out at most; and
\* those listed twice, with those listed that stand at places yet to be read, are as
\* many as were put in at most.
PageIInv ==
  /\ PageTypes
  /\ ~reading => Len(collection) <= Done
  /\ Cardinality(Front(Sorted, Done) \ (Listed \cup gone)) <= removed
  /\ Len(pages) - Cardinality(Listed) + Cardinality(Back(Sorted, Done) \cap Listed) <= added

LEMMA AskPage ==
  ASSUME CommonAssumption, AskTypes
  PROVE  LET p == Page!RepoPagination(ask)
         IN /\ p.page \in Nat /\ p.page >= 1 /\ p.limit \in Nat /\ p.limit >= 1
            /\ p.skip = (p.page - 1) * p.limit /\ p.skip \in Nat
            /\ p.sortOrder = 1 <=> ask.order = "ASC"
            /\ ask.page # Absent => p.page = ask.page
            /\ p.page = Page!OrDefault(ask.page, 1) /\ p.limit = Page!OrDefault(ask.limit, 10)
<1> DEFINE p == Page!RepoPagination(ask)
<1>0. Absent \notin Nat
  BY DEF CommonAssumption, Page!PaginationAssumption
<1>1. /\ p.page = Page!OrDefault(ask.page, 1) /\ p.limit = Page!OrDefault(ask.limit, 10)
      /\ p.skip = (Page!OrDefault(ask.page, 1) - 1) * Page!OrDefault(ask.limit, 10)
      /\ p.sortOrder = IF ask.order = "ASC" THEN 1 ELSE -1
  BY DEF Page!RepoPagination
<1>2. ask.page \in {Absent} \cup (Nat \ {0}) /\ ask.limit \in Nat \cup {Absent}
  BY DEF AskTypes
<1>3. p.page \in Nat /\ p.page >= 1 /\ (ask.page # Absent => p.page = ask.page)
  BY <1>0, <1>1, <1>2 DEF Page!OrDefault
<1>4. p.limit \in Nat /\ p.limit >= 1
  BY <1>0, <1>1, <1>2 DEF Page!OrDefault
<1>5. p.skip = (p.page - 1) * p.limit
  BY <1>1
<1> HIDE DEF p
<1>6. p.skip \in Nat
  <2>1. p.page - 1 \in Nat
    BY <1>3
  <2> QED
    BY <1>4, <1>5, <2>1
<1>7. p.sortOrder = 1 <=> ask.order = "ASC"
  BY <1>1
<1> QED
  BY <1>1, <1>3, <1>4, <1>5, <1>6, <1>7 DEF p

\* The next page begins where this one ends.
LEMMA NextPage ==
  ASSUME CommonAssumption, AskTypes, NEW r, r = Page!RepoPagination(ask),
         ask' = [ask EXCEPT !.page = (IF ask.page = Absent THEN r.page ELSE ask.page) + 1]
  PROVE  /\ AskTypes' /\ Done' = Done + r.limit /\ Done' = r.page * r.limit
         /\ ask'.order = ask.order
<1>0. Absent \notin Nat
  BY DEF CommonAssumption, Page!PaginationAssumption
<1>1. /\ r.page \in Nat /\ r.page >= 1 /\ r.limit \in Nat /\ r.limit >= 1
      /\ r.skip = (r.page - 1) * r.limit /\ r.skip \in Nat
      /\ ask.page # Absent => r.page = ask.page
      /\ r.limit = Page!OrDefault(ask.limit, 10)
  BY AskPage
<1>2. /\ ask'.page = r.page + 1 /\ ask'.limit = ask.limit /\ ask'.order = ask.order
      /\ AskTypes'
  BY <1>1 DEF AskTypes
<1>3. /\ Page!RepoPagination(ask').page = Page!OrDefault(ask'.page, 1)
      /\ Page!RepoPagination(ask').limit = Page!OrDefault(ask'.limit, 10)
      /\ Page!RepoPagination(ask').skip = (Page!OrDefault(ask'.page, 1) - 1) * Page!OrDefault(ask'.limit, 10)
  BY DEF Page!RepoPagination
<1>4. Page!OrDefault(ask'.page, 1) = r.page + 1
  BY <1>0, <1>1, <1>2 DEF Page!OrDefault
<1>5. Page!OrDefault(ask'.limit, 10) = r.limit
  BY <1>1, <1>2
<1>6. Done' = ((r.page + 1) - 1) * r.limit /\ Done = (r.page - 1) * r.limit
  BY <1>1, <1>3, <1>4, <1>5 DEF Done
<1>7. \A a, b \in Nat : a >= 1 => /\ ((a + 1) - 1) * b = a * b
                                  /\ (a - 1) * b + b = a * b
  OBVIOUS
<1>8. ((r.page + 1) - 1) * r.limit = r.page * r.limit /\ (r.page - 1) * r.limit + r.limit = r.page * r.limit
  BY <1>1, <1>7
<1> QED
  BY <1>2, <1>6, <1>8

LEMMA SortedTypes ==
  ASSUME PageTypes
  PROVE  /\ Sorted \in Seq(Items) /\ Apart(Sorted) /\ Len(Sorted) = Len(collection) /\ Len(Sorted) \in Nat
         /\ Page!ToSet(Sorted) = Page!ToSet(collection)
<1>1. collection \in Seq(Items) /\ Apart(collection) /\ Len(collection) \in Nat
  BY DEF PageTypes
<1>2. CASE ask.order = "ASC"
  BY <1>1, <1>2 DEF Sorted
<1>3. CASE ask.order # "ASC"
  <2> DEFINE r == Page!Reverse(collection)
  <2>1. /\ r \in Seq(Items) /\ Len(r) = Len(collection) /\ Apart(r)
        /\ \A j \in 1 .. Len(collection) : r[j] = collection[Len(collection) + 1 - j]
    BY <1>1, Reversed, ReversedApart
  <2> HIDE DEF r
  <2>2. \A j \in 1 .. Len(collection) : /\ Len(collection) + 1 - j \in 1 .. Len(collection)
                                        /\ Len(collection) + 1 - (Len(collection) + 1 - j) = j
    BY <1>1
  <2>3. \A j \in 1 .. Len(collection) : collection[j] = r[Len(collection) + 1 - j]
    BY <2>1, <2>2
  <2>4. DOMAIN r = 1 .. Len(collection) /\ DOMAIN collection = 1 .. Len(collection)
    BY <1>1, <2>1
  <2>5. Page!ToSet(r) = Page!ToSet(collection)
    BY <2>1, <2>2, <2>3, <2>4 DEF Page!ToSet
  <2>6. Sorted = r
    BY <1>3 DEF Sorted, r
  <2> QED
    BY <1>1, <2>1, <2>5, <2>6
<1> QED
  BY <1>2, <1>3

LEMMA ListedTypes ==
  ASSUME PageTypes
  PROVE  Listed \subseteq Items /\ Len(pages) \in Nat
<1>1. pages \in Seq(Items)
  BY DEF PageTypes
<1> QED
  BY <1>1 DEF Listed, Page!ToSet

LEMMA ConcatLists ==
  ASSUME NEW a \in Seq(Items), NEW b \in Seq(Items)
  PROVE  /\ a \o b \in Seq(Items) /\ Len(a \o b) = Len(a) + Len(b)
         /\ Page!ToSet(a \o b) = Page!ToSet(a) \cup Page!ToSet(b)
<1>1. /\ a \o b \in Seq(Items) /\ Len(a \o b) = Len(a) + Len(b) /\ Len(a) \in Nat /\ Len(b) \in Nat
      /\ \A j \in 1 .. Len(a) : (a \o b)[j] = a[j]
      /\ \A j \in (Len(a) + 1) .. (Len(a) + Len(b)) : (a \o b)[j] = b[j - Len(a)]
  OBVIOUS
<1> DEFINE c == a \o b
<1>2. DOMAIN a = 1 .. Len(a) /\ DOMAIN b = 1 .. Len(b) /\ DOMAIN c = 1 .. (Len(a) + Len(b))
  BY <1>1
<1>3. /\ \A j \in 1 .. Len(a) : c[j] = a[j]
      /\ \A j \in (Len(a) + 1) .. (Len(a) + Len(b)) : c[j] = b[j - Len(a)]
  BY <1>1
<1> HIDE DEF c
<1>4. ASSUME NEW j \in DOMAIN c PROVE c[j] \in Page!ToSet(a) \cup Page!ToSet(b)
  <2>1. CASE j <= Len(a)
    <3>1. j \in 1 .. Len(a)
      BY <1>1, <1>2, <2>1
    <3> QED
      BY <1>2, <1>3, <3>1 DEF Page!ToSet
  <2>2. CASE ~ (j <= Len(a))
    <3>1. j \in (Len(a) + 1) .. (Len(a) + Len(b)) /\ j - Len(a) \in 1 .. Len(b)
      BY <1>1, <1>2, <2>2
    <3>2. c[j] = b[j - Len(a)]
      BY <1>3, <3>1
    <3> QED
      BY <1>2, <3>1, <3>2 DEF Page!ToSet
  <2> QED
    BY <2>1, <2>2
<1>5. ASSUME NEW j \in DOMAIN a PROVE a[j] \in Page!ToSet(c)
  <2>1. j \in DOMAIN c /\ c[j] = a[j]
    BY <1>1, <1>2, <1>3
  <2> QED
    BY <2>1 DEF Page!ToSet
<1>6. ASSUME NEW j \in DOMAIN b PROVE b[j] \in Page!ToSet(c)
  <2> DEFINE k == j + Len(a)
  <2>1. k \in (Len(a) + 1) .. (Len(a) + Len(b)) /\ k - Len(a) = j /\ k \in DOMAIN c
    BY <1>1, <1>2
  <2> HIDE DEF k
  <2>2. c[k] = b[j]
    BY <1>3, <2>1
  <2> QED
    BY <2>1, <2>2 DEF Page!ToSet
<1>7. Page!ToSet(c) = Page!ToSet(a) \cup Page!ToSet(b)
  BY <1>4, <1>5, <1>6 DEF Page!ToSet
<1> QED
  BY <1>1, <1>7 DEF c

\* Those of a page B listed before are listed in excess by it; those at places
\* behind it, K, count as before.
LEMMA ExcessKept ==
  ASSUME CommonAssumption, NEW A \in SUBSET Items, NEW B \in SUBSET Items, NEW K \in SUBSET Items,
         NEW S \in SUBSET Items, S = K \cup B, K \cap B = {}
  PROVE  Cardinality(B) - Cardinality(A \cup B) + Cardinality(K \cap (A \cup B)) =
           Cardinality(S \cap A) - Cardinality(A)
<1>1. \A T \in SUBSET Items : IsFiniteSet(T) /\ Cardinality(T) \in Nat
  BY ItemsFinite
<1>2. Cardinality(A \cup B) = Cardinality(A) + Cardinality(B) - Cardinality(A \cap B)
  BY <1>1, FS_Union
<1>3. IsFiniteSet(K \cap A) /\ IsFiniteSet(B \cap A)
  <2>1. K \cap A \in SUBSET Items /\ B \cap A \in SUBSET Items
    OBVIOUS
  <2> QED
    BY <1>1, <2>1
<1>4. Cardinality((K \cap A) \cup (B \cap A)) =
        Cardinality(K \cap A) + Cardinality(B \cap A) - Cardinality((K \cap A) \cap (B \cap A))
  BY <1>3, FS_Union
<1>5. /\ (K \cap A) \cup (B \cap A) = S \cap A /\ (K \cap A) \cap (B \cap A) = {}
      /\ K \cap (A \cup B) = K \cap A /\ A \cap B = B \cap A
  OBVIOUS
<1> DEFINE a   == Cardinality(A)
           b   == Cardinality(B)
           ab  == Cardinality(B \cap A)
           k   == Cardinality(K \cap A)
           all == Cardinality(A \cup B)
           sa  == Cardinality(S \cap A)
<1>6. a \in Nat /\ b \in Nat /\ ab \in Nat /\ k \in Nat /\ all \in Nat /\ sa \in Nat
  <2>1. /\ K \cap A \in SUBSET Items /\ B \cap A \in SUBSET Items /\ A \cup B \in SUBSET Items
        /\ S \cap A \in SUBSET Items
    OBVIOUS
  <2> QED
    BY <1>1, <2>1
<1>7. all = a + b - ab
  BY <1>2, <1>5
<1>8. sa = k + ab - 0
  BY <1>4, <1>5, FS_EmptySet
<1>9. Cardinality(K \cap (A \cup B)) = k
  BY <1>5
<1> HIDE DEF a, b, ab, k, all, sa
<1>10. b - all + k = sa - a
  BY <1>6, <1>7, <1>8
<1> QED
  BY <1>9, <1>10 DEF a, b, all, k, sa

LEMMA ReadPageKeeps ==
  ASSUME CommonAssumption, PageIInv, Page!ReadPage
  PROVE  PageIInv'
<1> DEFINE r == Page!RepoPagination(ask)
           l == Page!Find(r)
           n == Done
           m == r.limit
<1>1. /\ response' = [page |-> r.page, limit |-> r.limit, total |-> Len(collection), list |-> l]
      /\ pages' = pages \o l
      /\ reading' = (r.page * r.limit < Len(collection))
      /\ ask' = [ask EXCEPT !.page = (IF ask.page = Absent THEN r.page ELSE ask.page) + 1]
      /\ UNCHANGED <<collection, added, removed, gone>>
  BY DEF Page!ReadPage, Page!Build
<1>2. PageTypes
  BY DEF PageIInv
<1>3. /\ r.page \in Nat /\ r.page >= 1 /\ r.limit \in Nat /\ r.limit >= 1
      /\ r.skip \in Nat /\ n = r.skip
      /\ r.sortOrder = 1 <=> ask.order = "ASC"
  BY <1>2, AskPage DEF PageTypes, Done
<1>4. /\ Sorted \in Seq(Items) /\ Apart(Sorted) /\ Len(Sorted) = Len(collection) /\ Len(Sorted) \in Nat
  BY <1>2, SortedTypes
<1>5. l = PageOf(Sorted, n, m)
  <2>1. n = r.skip /\ Sorted = IF r.sortOrder = 1 THEN collection ELSE Page!Reverse(collection)
    BY <1>3 DEF Sorted
  <2> HIDE DEF r, n
  <2> QED
    BY <2>1 DEF Page!Find, PageOf
<1>6. AskTypes' /\ Done' = n + m /\ Done' = r.page * r.limit /\ ask'.order = ask.order
  <2>1. AskTypes /\ r = Page!RepoPagination(ask)
    BY <1>2 DEF PageTypes
  <2> HIDE DEF r
  <2> QED
    BY <1>1, <2>1, NextPage
<1>7. Sorted' = Sorted
  BY <1>1, <1>6 DEF Sorted
<1> DEFINE s == Sorted
           B == Page!ToSet(l)
           K == Back(s, n + m)
<1> HIDE DEF r
<1>8. /\ l \in Seq(Items) /\ Len(l) <= m /\ Cardinality(B) = Len(l)
      /\ Front(s, n + m) = Front(s, n) \cup B /\ Back(s, n) = K \cup B /\ K \cap B = {}
  <2>1. n \in Nat /\ m \in Nat /\ s \in Seq(Items) /\ Apart(s)
    BY <1>3, <1>4
  <2>2. l = PageOf(s, n, m)
    BY <1>5
  <2> HIDE DEF l, n, m, s
  <2> QED
    BY <2>1, <2>2, PageCut
<1> HIDE DEF l, m
<1>9. /\ pages' \in Seq(Items) /\ Len(pages') = Len(pages) + Len(l) /\ Listed' = Listed \cup B
  <2>1. pages \in Seq(Items)
    BY <1>2 DEF PageTypes
  <2> QED
    BY <1>1, <1>8, <2>1, ConcatLists DEF Listed
<1>10. n \in Nat /\ m \in Nat /\ n + m \in Nat
  BY <1>3 DEF m
<1>11. /\ Listed \subseteq Items /\ B \subseteq Items /\ K \subseteq Items /\ Front(s, n) \subseteq Items
       /\ Len(pages) \in Nat /\ Len(l) \in Nat
  BY <1>2, <1>4, <1>8, <1>10, ListedTypes, FrontBackTypes
<1> HIDE DEF s, n, B, K
<1>12. PageTypes'
  <2>1. Len(collection) <= Cardinality(Items)
    <3>1. collection \in Seq(Items) /\ Apart(collection)
      BY <1>2 DEF PageTypes
    <3>2. Page!ToSet(collection) \subseteq Items /\ Cardinality(Page!ToSet(collection)) = Len(collection)
      BY <3>1, ApartCounts, FrontBackTypes, 0 \in Nat
    <3> QED
      BY <3>2, ItemsFinite
  <2>2. /\ response'.page = r.page /\ response'.limit = m /\ response'.list = l
        /\ response'.total = Len(collection)
    BY <1>1 DEF m
  <2>3. /\ response'.page >= 1 /\ response'.limit >= 1 /\ Len(response'.list) <= response'.limit
        /\ response'.total <= Cardinality(Items)
    BY <1>3, <1>8, <2>1, <2>2 DEF m
  <2>4. reading' \in BOOLEAN
    BY <1>1
  <2> QED
    BY <1>1, <1>2, <1>6, <1>9, <2>3, <2>4 DEF PageTypes
<1>13. ~reading' => Len(collection') <= Done'
  <2>1. reading' = (Done' < Len(collection)) /\ Done' \in Nat /\ Len(collection) \in Nat
    BY <1>1, <1>4, <1>6, <1>10
  <2>2. ~ (Done' < Len(collection)) => Len(collection) <= Done'
    BY <2>1
  <2>3. ~reading' => Len(collection) <= Done'
    BY <2>1, <2>2, Zenon
  <2> QED
    BY <1>1, <2>3
<1>14. Cardinality(Front(s, n + m) \ ((Listed \cup B) \cup gone)) <= removed
  <2>1. Front(s, n + m) \ ((Listed \cup B) \cup gone) \subseteq Front(s, n) \ (Listed \cup gone)
    BY <1>8
  <2>2. Front(s, n) \ (Listed \cup gone) \subseteq Items
    BY <1>11
  <2>3. Cardinality(Front(s, n) \ (Listed \cup gone)) <= removed /\ removed \in Nat
    BY DEF PageIInv, PageTypes, s, n
  <2>4. /\ Cardinality(Front(s, n) \ (Listed \cup gone)) \in Nat
        /\ Cardinality(Front(s, n + m) \ ((Listed \cup B) \cup gone)) \in Nat
        /\ Cardinality(Front(s, n + m) \ ((Listed \cup B) \cup gone)) <= Cardinality(Front(s, n) \ (Listed \cup gone))
    BY <2>1, <2>2, ItemsFinite
  <2> QED
    BY <2>3, <2>4
<1>15. Len(pages) + Len(l) - Cardinality(Listed \cup B) + Cardinality(K \cap (Listed \cup B)) <= added
  <2> DEFINE all  == Cardinality(Listed \cup B)
             k    == Cardinality(K \cap (Listed \cup B))
             a    == Cardinality(Listed)
             sa   == Cardinality(Back(s, n) \cap Listed)
  <2>1. Len(pages) - a + sa <= added
    BY DEF PageIInv, s, n
  <2>2. Len(l) - all + k = sa - a
    <3>1. /\ Listed \in SUBSET Items /\ B \in SUBSET Items /\ K \in SUBSET Items
          /\ Back(s, n) \in SUBSET Items
      BY <1>8, <1>11
    <3>3. Back(s, n) = K \cup B /\ K \cap B = {}
      BY <1>8
    <3>2. Cardinality(B) - all + k = sa - a
      BY CommonAssumption, <3>1, <3>3, ExcessKept, ZenonT(30)
    <3>4. Len(l) = Cardinality(B)
      BY <1>8
    <3> HIDE DEF all, k, a, sa
    <3> QED
      BY ONLY <3>2, <3>4
  <2>3. a \in Nat /\ k \in Nat /\ sa \in Nat /\ all \in Nat
    <3>1. /\ Back(s, n) \cap Listed \subseteq Items /\ Listed \cup B \subseteq Items
          /\ K \cap (Listed \cup B) \subseteq Items
      BY <1>11
    <3> QED
      BY <1>11, <3>1, ItemsFinite
  <2>4. added \in Nat /\ Len(pages) \in Nat /\ Len(l) \in Nat
    BY <1>2, <1>11 DEF PageTypes
  <2> HIDE DEF a, k, sa, all
  <2>5. Len(pages) + Len(l) - all + k <= added
    BY <2>1, <2>2, <2>3, <2>4
  <2> QED
    BY <2>5 DEF all, k
<1>16. Sorted' = s /\ Done' = n + m /\ gone' = gone /\ removed' = removed /\ added' = added
  BY <1>1, <1>6, <1>7 DEF s
<1>17. Cardinality(Front(Sorted', Done') \ (Listed' \cup gone')) <= removed'
  BY <1>9, <1>14, <1>16
<1>18. Len(pages') - Cardinality(Listed') + Cardinality(Back(Sorted', Done') \cap Listed') <= added'
  <2>1. Back(Sorted', Done') = K
    BY <1>16 DEF K
  <2>2. Cardinality(Back(Sorted', Done') \cap Listed') = Cardinality(K \cap (Listed \cup B))
    BY <1>9, <2>1
  <2>3. Cardinality(Listed') = Cardinality(Listed \cup B)
    BY <1>9
  <2> DEFINE k   == Cardinality(Back(Sorted', Done') \cap Listed')
             all == Cardinality(Listed')
  <2>4. Len(pages) + Len(l) - all + k <= added
    BY <1>15, <2>2, <2>3, Zenon
  <2>7. k \in Nat /\ all \in Nat
    <3>1. Listed \cup B \subseteq Items /\ K \cap (Listed \cup B) \subseteq Items
      BY <1>11
    <3> QED
      BY <2>2, <2>3, <3>1, ItemsFinite
  <2> HIDE DEF k, all
  <2>6. Len(pages') = Len(pages) + Len(l) /\ added' = added
    BY <1>9, <1>16
  <2>5. Len(pages') - all + k <= added'
    BY <1>11, <2>4, <2>6, <2>7
  <2> QED
    BY <2>5 DEF k, all
<1> QED
  BY <1>12, <1>13, <1>17, <1>18, Zenon DEF PageIInv

\* An edit of the collection is an edit of the list as the client asks for it.
LEMMA SortedEdit ==
  ASSUME UNCHANGED ask, collection \in Seq(Items), collection' \in Seq(Items), NEW q, NEW x
  PROVE  /\ PutAt(collection, collection', q, x) => \E p : PutAt(Sorted, Sorted', p, x)
         /\ PutAt(collection', collection, q, x) => \E p : PutAt(Sorted', Sorted, p, x)
<1>1. CASE ask.order = "ASC"
  <2>1. Sorted = collection /\ Sorted' = collection'
    BY <1>1 DEF Sorted
  <2> QED
    BY <2>1
<1>2. CASE ask.order # "ASC"
  <2>1. Sorted = Page!Reverse(collection) /\ Sorted' = Page!Reverse(collection')
    BY <1>2 DEF Sorted
  <2>2. PutAt(collection, collection', q, x) =>
          PutAt(Page!Reverse(collection), Page!Reverse(collection'), Len(collection) + 2 - q, x)
    BY PutAtReversed
  <2>3. PutAt(collection', collection, q, x) =>
          PutAt(Page!Reverse(collection'), Page!Reverse(collection), Len(collection') + 2 - q, x)
    BY PutAtReversed
  <2> QED
    BY <2>1, <2>2, <2>3, Zenon
<1> QED
  BY <1>1, <1>2

LEMMA PutInKeeps ==
  ASSUME CommonAssumption, PageIInv, NEW item \in Items, NEW i \in 1 .. (Len(collection) + 1), Page!PutIn(item, i)
  PROVE  PageIInv'
<1>1. /\ reading /\ response # Absent /\ added + removed < MaxEdits /\ item \notin Page!ToSet(collection)
      /\ collection' = Page!InsertAt(collection, i, item) /\ added' = added + 1 /\ gone' = gone \cup {item}
      /\ UNCHANGED <<ask, response, reading, pages, removed>>
  BY DEF Page!PutIn, Page!Underway
<1>2. PageTypes
  BY DEF PageIInv
<1>3. /\ collection \in Seq(Items) /\ Apart(collection) /\ added \in Nat /\ removed \in Nat /\ MaxEdits \in Nat
      /\ AskTypes /\ gone \subseteq Items
  BY <1>2 DEF PageTypes, CommonAssumption, Page!PaginationAssumption
<1>4. collection' \in Seq(Items) /\ PutAt(collection, collection', i, item)
  BY <1>1, <1>3, InsertAtPuts
<1>5. PICK p : PutAt(Sorted, Sorted', p, item)
  BY <1>1, <1>3, <1>4, SortedEdit
<1>6. Apart(collection')
  <2>1. \A j \in 1 .. Len(collection) : collection[j] # item
    BY <1>1, <1>3 DEF Page!ToSet
  <2> QED
    BY <1>3, <1>4, <2>1, PutAtApart
<1>7. PageTypes'
  <2>1. AskTypes'
    BY <1>1, <1>3 DEF AskTypes
  <2>2. added' \in Nat /\ added' + removed' <= MaxEdits /\ removed' \in Nat
    BY <1>1, <1>3
  <2>3. gone' \subseteq Items
    BY <1>1, <1>3
  <2>4. pages' \in Seq(Items) /\ reading' \in BOOLEAN
    BY <1>1, <1>2 DEF PageTypes
  <2>5. response' # Absent =>
          /\ response'.page >= 1 /\ response'.limit >= 1 /\ Len(response'.list) <= response'.limit
          /\ response'.total <= Cardinality(Items)
    BY <1>1, <1>2 DEF PageTypes
  <2> QED
    BY <1>4, <1>6, <2>1, <2>2, <2>3, <2>4, <2>5 DEF PageTypes
<1> DEFINE s == Sorted
           t == Sorted'
           n == Done
<1>8. n \in Nat /\ Done' = n /\ Listed' = Listed
  BY <1>1, <1>3, AskPage DEF Done, Listed
<1>9. s \in Seq(Items) /\ t \in Seq(Items) /\ Listed \subseteq Items
  <2>1. s \in Seq(Items) /\ Listed \subseteq Items
    BY <1>2, SortedTypes, ListedTypes
  <2>2. t = Page!Reverse(collection') \/ t = collection'
    BY DEF Sorted
  <2> QED
    BY <1>4, <2>1, <2>2, Reversed
<1>10. /\ Cardinality(Front(s, n) \ (Listed \cup gone)) <= removed
       /\ Len(pages) - Cardinality(Listed) + Cardinality(Back(s, n) \cap Listed) <= added
  BY DEF PageIInv
<1> HIDE DEF s, t, n
<1>11. /\ Front(t, n) \subseteq Front(s, n) \cup {item}
       /\ \E y : Back(t, n) \subseteq Back(s, n) \cup {y}
  BY <1>5, <1>8, <1>9, PutAtFronts DEF s, t
<1>12. /\ Front(s, n) \subseteq Items /\ Front(t, n) \subseteq Items
       /\ Back(s, n) \subseteq Items /\ Back(t, n) \subseteq Items
  BY <1>8, <1>9, FrontBackTypes
<1>13. Cardinality(Front(t, n) \ (Listed \cup gone')) <= removed
  <2> DEFINE A == Front(s, n) \ (Listed \cup gone)
             B == Front(t, n) \ (Listed \cup gone')
  <2>1. B \subseteq A /\ A \subseteq Items /\ B \subseteq Items
    BY <1>1, <1>11, <1>12
  <2>2. Cardinality(A) <= removed
    BY <1>10
  <2> HIDE DEF A, B
  <2>3. Cardinality(B) <= Cardinality(A) /\ Cardinality(A) \in Nat /\ Cardinality(B) \in Nat
    BY <2>1, ItemsFinite
  <2>4. Cardinality(B) <= removed
    BY <1>3, <2>2, <2>3
  <2> QED
    BY <2>4 DEF B
<1>14. Len(pages) - Cardinality(Listed) + Cardinality(Back(t, n) \cap Listed) <= added + 1
  <2> DEFINE A == Back(s, n) \cap Listed
             B == Back(t, n) \cap Listed
             c == Cardinality(Listed)
  <2>1. A \subseteq Items /\ B \subseteq Items /\ \E y : B \subseteq A \cup {y}
    BY <1>9, <1>11
  <2>2. Len(pages) - c + Cardinality(A) <= added
    BY <1>10
  <2>3. c \in Nat /\ Len(pages) \in Nat
    BY <1>2, <1>9, ItemsFinite, ListedTypes
  <2> HIDE DEF A, B, c
  <2>4. Cardinality(B) <= Cardinality(A) + 1 /\ Cardinality(A) \in Nat /\ Cardinality(B) \in Nat
    BY <2>1, OneMore, ItemsFinite
  <2>5. Len(pages) - c + Cardinality(B) <= added + 1
    BY <1>3, <2>2, <2>3, <2>4
  <2> QED
    BY <2>5 DEF B, c
<1>15. Cardinality(Front(Sorted', Done') \ (Listed' \cup gone')) <= removed'
  BY <1>1, <1>8, <1>13 DEF t
<1>16. Len(pages') - Cardinality(Listed') + Cardinality(Back(Sorted', Done') \cap Listed') <= added'
  BY <1>1, <1>8, <1>14 DEF t
<1>17. reading'
  BY <1>1
<1> QED
  BY <1>7, <1>15, <1>16, <1>17, Zenon DEF PageIInv

LEMMA TakeOutKeeps ==
  ASSUME CommonAssumption, PageIInv, NEW i \in 1 .. Len(collection), Page!TakeOut(i)
  PROVE  PageIInv'
<1> DEFINE item == collection[i]
<1>1. /\ reading /\ response # Absent /\ added + removed < MaxEdits
      /\ collection' = Page!RemoveAt(collection, i) /\ removed' = removed + 1 /\ gone' = gone \cup {item}
      /\ UNCHANGED <<ask, response, reading, pages, added>>
  BY DEF Page!TakeOut, Page!Underway
<1>2. PageTypes
  BY DEF PageIInv
<1>3. /\ collection \in Seq(Items) /\ Apart(collection) /\ added \in Nat /\ removed \in Nat /\ MaxEdits \in Nat
      /\ AskTypes /\ gone \subseteq Items /\ item \in Items
  BY <1>2 DEF PageTypes, CommonAssumption, Page!PaginationAssumption
<1>4. collection' \in Seq(Items) /\ PutAt(collection', collection, i, item)
  BY <1>1, <1>3, RemoveAtTakes
<1> HIDE DEF item
<1>5. PICK p : PutAt(Sorted', Sorted, p, item)
  BY <1>1, <1>3, <1>4, SortedEdit
<1>6. Apart(collection')
  BY <1>3, <1>4, PutAtApart
<1>7. PageTypes'
  <2>1. AskTypes'
    BY <1>1, <1>3 DEF AskTypes
  <2>2. added' \in Nat /\ added' + removed' <= MaxEdits /\ removed' \in Nat
    BY <1>1, <1>3
  <2>3. gone' \subseteq Items
    BY <1>1, <1>3
  <2>4. pages' \in Seq(Items) /\ reading' \in BOOLEAN
    BY <1>1, <1>2 DEF PageTypes
  <2>5. response' # Absent =>
          /\ response'.page >= 1 /\ response'.limit >= 1 /\ Len(response'.list) <= response'.limit
          /\ response'.total <= Cardinality(Items)
    BY <1>1, <1>2 DEF PageTypes
  <2> QED
    BY <1>4, <1>6, <2>1, <2>2, <2>3, <2>4, <2>5 DEF PageTypes
<1> DEFINE s == Sorted
           t == Sorted'
           n == Done
<1>8. n \in Nat /\ Done' = n /\ Listed' = Listed
  BY <1>1, <1>3, AskPage DEF Done, Listed
<1>9. s \in Seq(Items) /\ t \in Seq(Items) /\ Listed \subseteq Items
  <2>1. s \in Seq(Items) /\ Listed \subseteq Items
    BY <1>2, SortedTypes, ListedTypes
  <2>2. t = Page!Reverse(collection') \/ t = collection'
    BY DEF Sorted
  <2> QED
    BY <1>4, <2>1, <2>2, Reversed
<1>10. /\ Cardinality(Front(s, n) \ (Listed \cup gone)) <= removed
       /\ Len(pages) - Cardinality(Listed) + Cardinality(Back(s, n) \cap Listed) <= added
  BY DEF PageIInv
<1> HIDE DEF s, t, n
<1>11. /\ Back(t, n) \subseteq Back(s, n)
       /\ \E y : Front(t, n) \subseteq Front(s, n) \cup {y}
  BY <1>5, <1>8, <1>9, PutAtFronts DEF s, t
<1>12. /\ Front(s, n) \subseteq Items /\ Front(t, n) \subseteq Items
       /\ Back(s, n) \subseteq Items /\ Back(t, n) \subseteq Items
  BY <1>8, <1>9, FrontBackTypes
<1>13. Cardinality(Front(t, n) \ (Listed \cup gone')) <= removed + 1
  <2> DEFINE A == Front(s, n) \ (Listed \cup gone)
             B == Front(t, n) \ (Listed \cup gone')
  <2>1. A \subseteq Items /\ B \subseteq Items /\ \E y : B \subseteq A \cup {y}
    BY <1>1, <1>11, <1>12
  <2>2. Cardinality(A) <= removed
    BY <1>10
  <2> HIDE DEF A, B
  <2>3. Cardinality(B) <= Cardinality(A) + 1 /\ Cardinality(A) \in Nat /\ Cardinality(B) \in Nat
    BY <2>1, OneMore, ItemsFinite
  <2>4. Cardinality(B) <= removed + 1
    BY <1>3, <2>2, <2>3
  <2> QED
    BY <2>4 DEF B
<1>14. Len(pages) - Cardinality(Listed) + Cardinality(Back(t, n) \cap Listed) <= added
  <2> DEFINE A == Back(s, n) \cap Listed
             B == Back(t, n) \cap Listed
             c == Cardinality(Listed)
  <2>1. A \subseteq Items /\ B \subseteq Items /\ B \subseteq A
    BY <1>9, <1>11
  <2>2. Len(pages) - c + Cardinality(A) <= added
    BY <1>10
  <2>3. c \in Nat /\ Len(pages) \in Nat
    BY <1>2, <1>9, ItemsFinite, ListedTypes
  <2> HIDE DEF A, B, c
  <2>4. Cardinality(B) <= Cardinality(A) /\ Cardinality(A) \in Nat /\ Cardinality(B) \in Nat
    BY <2>1, ItemsFinite
  <2>5. Len(pages) - c + Cardinality(B) <= added
    BY <1>3, <2>2, <2>3, <2>4
  <2> QED
    BY <2>5 DEF B, c
<1>15. Cardinality(Front(Sorted', Done') \ (Listed' \cup gone')) <= removed'
  BY <1>1, <1>8, <1>13 DEF t
<1>16. Len(pages') - Cardinality(Listed') + Cardinality(Back(Sorted', Done') \cap Listed') <= added'
  BY <1>1, <1>8, <1>14 DEF t
<1>17. reading'
  BY <1>1
<1> QED
  BY <1>7, <1>15, <1>16, <1>17, Zenon DEF PageIInv

LEMMA PageBegins ==
  ASSUME CommonAssumption, Init
  PROVE  PageIInv
<1>1. /\ collection = <<1, 2, 3, 4, 5>> /\ response = Absent /\ reading = TRUE /\ pages = <<>>
      /\ added = 0 /\ removed = 0 /\ gone = {}
      /\ ask \in [page : Firsts, limit : Limits, order : {"ASC", "DESC", Absent}]
  BY DEF Init, Page!Init
<1>2. /\ <<1, 2, 3, 4, 5>> \in Seq(Items) /\ Page!IsInjective(<<1, 2, 3, 4, 5>>)
      /\ Absent \notin Nat /\ Firsts \subseteq {Absent, 1} /\ Limits \subseteq Nat \cup {Absent} /\ MaxEdits \in Nat
  BY DEF CommonAssumption, Page!PaginationAssumption
<1>3. collection \in Seq(Items) /\ Apart(collection)
  <2>1. collection \in Seq(Items) /\ Page!IsInjective(collection)
    BY <1>1, <1>2
  <2>2. DOMAIN collection = 1 .. Len(collection)
    BY <2>1
  <2> QED
    BY <2>1, <2>2 DEF Page!IsInjective, Apart
<1>4. AskTypes
  <2>1. {Absent, 1} \subseteq {Absent} \cup (Nat \ {0})
    OBVIOUS
  <2>2. /\ Firsts \subseteq {Absent} \cup (Nat \ {0})
        /\ ask = [page |-> ask.page, limit |-> ask.limit, order |-> ask.order]
        /\ ask.page \in Firsts /\ ask.limit \in Limits /\ ask.order \in {"ASC", "DESC", Absent}
    BY <1>1, <1>2, <2>1
  <2>3. ask.page \in {Absent} \cup (Nat \ {0}) /\ ask.limit \in Nat \cup {Absent}
    BY <1>2, <2>2, Zenon
  <2> QED
    BY <2>2, <2>3 DEF AskTypes
<1>5. PageTypes
  BY <1>1, <1>2, <1>3, <1>4 DEF PageTypes
<1>6. Done = 0
  <2>1. Page!OrDefault(ask.page, 1) = 1 /\ Page!OrDefault(ask.limit, 10) \in Nat
    BY <1>1, <1>2 DEF Page!OrDefault
  <2>2. Done = (Page!OrDefault(ask.page, 1) - 1) * Page!OrDefault(ask.limit, 10)
    BY DEF Done, Page!RepoPagination
  <2> QED
    BY <2>1, <2>2
<1>7. Front(Sorted, Done) = {} /\ Listed = {} /\ Len(pages) = 0
  <2>1. Sorted \in Seq(Items) /\ Len(Sorted) \in Nat
    BY <1>5, SortedTypes
  <2>2. \A k \in 1 .. Len(Sorted) : ~ (k <= 0)
    BY <2>1
  <2> QED
    BY <1>1, <1>6, <2>2 DEF Front, Listed, Page!ToSet
<1>8. Cardinality({}) = 0
  BY FS_EmptySet
<1>9. Cardinality(Front(Sorted, Done) \ (Listed \cup gone)) <= removed
  <2>1. Front(Sorted, Done) \ (Listed \cup gone) = {}
    BY <1>7
  <2>2. Cardinality(Front(Sorted, Done) \ (Listed \cup gone)) = 0
    BY <1>8, <2>1, Zenon
  <2> QED
    BY <1>1, <2>2
<1>10. Len(pages) - Cardinality(Listed) + Cardinality(Back(Sorted, Done) \cap Listed) <= added
  <2>1. Back(Sorted, Done) \cap Listed = {}
    BY <1>7
  <2>2. Cardinality(Back(Sorted, Done) \cap Listed) = 0 /\ Cardinality(Listed) = 0
    BY <1>7, <1>8, <2>1
  <2> QED
    BY <1>1, <1>7, <2>2
<1> QED
  BY <1>1, <1>5, <1>9, <1>10 DEF PageIInv

LEMMA PageTyped == Spec => []PageIInv
<1>1. CommonAssumption /\ PageIInv /\ [Page!Next]_pageVars => PageIInv'
  <2> SUFFICES ASSUME CommonAssumption, PageIInv, [Page!Next]_pageVars PROVE PageIInv'
    OBVIOUS
  <2>1. CASE UNCHANGED pageVars
    <3>1. /\ UNCHANGED <<collection, ask, response, reading, pages, added, removed, gone>>
      BY <2>1 DEF pageVars
    <3>2. PageTypes'
      BY <3>1 DEF PageIInv, PageTypes, AskTypes
    <3>3. Sorted' = Sorted /\ Done' = Done /\ Listed' = Listed
      BY <3>1 DEF Sorted, Done, Listed
    <3> QED
      BY <3>1, <3>2, <3>3, Zenon DEF PageIInv
  <2> QED
    BY <2>1, ReadPageKeeps, PutInKeeps, TakeOutKeeps DEF Page!Next
<1> QED
  BY <1>1, PageBegins, CommonAssumption, PartStep, PTL DEF Spec

LEMMA PageHolds ==
  ASSUME CommonAssumption, PageIInv
  PROVE  Page!MissesExplained /\ Page!RepeatsExplained /\ Page!TypeOK
<1>1. PageTypes
  BY DEF PageIInv
<1>2. /\ Sorted \in Seq(Items) /\ Len(Sorted) = Len(collection) /\ Done \in Nat
      /\ Page!ToSet(Sorted) = Page!ToSet(collection) /\ Listed \subseteq Items
  BY <1>1, SortedTypes, ListedTypes, AskPage DEF PageTypes, Done
<1>3. ASSUME ~reading PROVE Page!Cardinality(Page!Missed) <= removed
  <2>1. Page!ToSet(collection) = Front(Sorted, Done)
    BY <1>2, <1>3, FrontBackTypes DEF PageIInv
  <2>2. Page!Missed = Front(Sorted, Done) \ (Listed \cup gone)
    BY <2>1 DEF Page!Missed, Listed
  <2>3. Page!Missed \subseteq Items
    BY <1>2, <2>2, FrontBackTypes
  <2>4. Page!Cardinality(Page!Missed) = Cardinality(Page!Missed)
    BY <2>3, ItemsFinite
  <2>5. Cardinality(Page!Missed) <= removed
    BY <2>2 DEF PageIInv
  <2> QED
    BY <2>4, <2>5
<1>4. Page!Excess <= added
  <2> DEFINE c == Cardinality(Listed)
             k == Cardinality(Back(Sorted, Done) \cap Listed)
  <2>1. Page!Excess = Len(pages) - c
    <3>1. Page!Cardinality(Listed) = Cardinality(Listed)
      BY <1>2, ItemsFinite
    <3> QED
      BY <3>1 DEF Page!Excess, Listed
  <2>2. Len(pages) - c + k <= added
    BY DEF PageIInv
  <2>3. c \in Nat /\ k \in Nat /\ Len(pages) \in Nat /\ added \in Nat
    <3>1. Back(Sorted, Done) \cap Listed \subseteq Items
      BY <1>2
    <3> QED
      BY <1>1, <1>2, <3>1, ItemsFinite, ListedTypes DEF PageTypes
  <2> HIDE DEF c, k
  <2> QED
    BY <2>1, <2>2, <2>3
<1>5. Page!TypeOK
  <2>1. collection \in Seq(Items) /\ Apart(collection) /\ added + removed <= MaxEdits
    BY <1>1 DEF PageTypes
  <2>2. DOMAIN collection = 1 .. Len(collection) /\ Page!ToSet(collection) \subseteq Items
    BY <2>1, FrontBackTypes, 0 \in Nat
  <2>3. Page!IsInjective(collection)
    BY <2>1, <2>2 DEF Apart, Page!IsInjective
  <2>4. Page!Cardinality(Items) = Cardinality(Items)
    BY ItemsFinite
  <2>5. response # Absent =>
          /\ response.page >= 1 /\ response.limit >= 1 /\ Len(response.list) <= response.limit
          /\ response.total <= Page!Cardinality(Items)
    BY <1>1, <2>4 DEF PageTypes
  <2> QED
    BY <2>1, <2>2, <2>3, <2>5 DEF Page!TypeOK
<1> QED
  BY <1>3, <1>4, <1>5 DEF Page!MissesExplained, Page!RepeatsExplained

(* An item that stayed in a list is missed, and one is listed twice, only for   *)
(* an edit by others; a push token is lost only to a later one, and none is     *)
(* made up; a line of the log is lost only to a value that cannot be printed.   *)
THEOREM ExplainedLosses == Spec => []LossesExplained
<1>1. CommonAssumption /\ PageIInv /\ PushIInv /\ LogIInv => LossesExplained
  BY PageHolds, PushHolds, LogHolds DEF LossesExplained
<1> QED
  BY <1>1, CommonAssumption, PageTyped, PushTyped, LogTyped, PTL

-----------------------------------------------------------------------------
(* GoogleMail, with one call. *)

RawRequests ==
  [verb : Raw!Verbs, token : {"me", None}, ids : SUBSET {"m"}, add : SUBSET {"INBOX"},
   remove : SUBSET {"INBOX"}, email : AllEmails \cup {Absent}]

RawTypes ==
  /\ gmail \in {"me", None}
  /\ gmail = None <=> pc["call"] = "idle"
  /\ call \in [{"call"} -> RawRequests]
  /\ pc \in [{"call"} -> {"idle", "sent", "served", "returned", "thrown"}]
  /\ mailbox \in [{"me"} -> [{"m"} -> {Absent} \cup SUBSET {"INBOX"}]]
  /\ served \in [{"call"} -> SUBSET {"me"}]
  /\ broken \in SUBSET {"call"}
  /\ faults \in Nat

\* The one call sends from the mailbox of its own token, and at most once.
RawIInv ==
  /\ RawTypes
  /\ pc["call"] # "idle" => call["call"].token = "me"
  /\ DOMAIN outbox = {"me"}
  /\ \/ outbox["me"] = <<>>
     \/ Len(outbox["me"]) = 1 /\ pc["call"] \notin {"idle", "sent"}

\* What every method does up to its await.
Starts(r) ==
  /\ pc["call"] = "idle" /\ pc'["call"] # "idle"
  /\ pc' \in [{"call"} -> {"idle", "sent", "served", "returned", "thrown"}]
  /\ r \in RawRequests /\ r.token = "me"
  /\ call' = [call EXCEPT !["call"] = r]
  /\ gmail' = "me"
  /\ UNCHANGED <<mailbox, outbox, served, broken, faults>>

LEMMA RawInvokes ==
  ASSUME RawTypes, Raw!Invoke("call")
  PROVE  \E r : Starts(r)
<1> USE DEF Raw!Verbs, Raw!Single, Raw!NoCall, Raw!About, Raw!Modify
<1>1. PICK ids \in SUBSET {"m"}, add \in {{}, {"INBOX"}}, remove \in {{}, {"INBOX"}} :
        \/ remove = {} /\ ids = {} /\ Raw!ListMessages("call", "me", add)
        \/ add = {} /\ remove = {} /\ Raw!BatchDeleteMessages("call", "me", ids)
        \/ Raw!BatchModifyMessages("call", "me", ids, add, remove)
        \/ \E id \in ids :
             \/ Raw!UpdateLabels("call", "me", id, add, remove)
             \/ add = {} /\ remove = {} /\ (Raw!GetMessage("call", "me", id) \/ Raw!DeleteMessage("call", "me", id))
  BY DEF Raw!Invoke
<1> DEFINE R(v, s) == [verb |-> v, token |-> "me", ids |-> s, add |-> add, remove |-> remove,
                       email |-> Absent]
<1>3. ASSUME NEW v \in Raw!Verbs, NEW s \in SUBSET {"m"}, Raw!Request("call", R(v, s))
      PROVE  \E r : Starts(r)
  <2>1. R(v, s) \in RawRequests /\ R(v, s).token = "me"
    BY <1>1 DEF RawRequests
  <2> HIDE DEF R
  <2>2. Starts(R(v, s))
    BY <1>3, <2>1 DEF Starts, Raw!Request, Raw!GetUserResource, RawTypes
  <2> QED
    BY <2>2
<1> HIDE DEF R
<1>4. CASE remove = {} /\ ids = {} /\ Raw!ListMessages("call", "me", add)
  <2>1. Raw!Request("call", R("list", ids))
    BY <1>4 DEF R, Raw!ListMessages
  <2> QED
    BY <2>1, <1>3
<1>5. CASE add = {} /\ remove = {} /\ Raw!BatchDeleteMessages("call", "me", ids)
  <2>1. Raw!Request("call", R("batchDelete", ids))
    BY <1>5 DEF R, Raw!BatchDeleteMessages
  <2> QED
    BY <2>1, <1>3
<1>6. CASE Raw!BatchModifyMessages("call", "me", ids, add, remove)
  <2>1. Raw!Request("call", R("batchModify", ids))
    BY <1>6 DEF R, Raw!BatchModifyMessages
  <2> QED
    BY <2>1, <1>3
<1>7. ASSUME NEW id \in ids, Raw!UpdateLabels("call", "me", id, add, remove) PROVE \E r : Starts(r)
  <2>1. Raw!Request("call", R("modify", {id})) /\ {id} \in SUBSET {"m"}
    BY <1>7 DEF R, Raw!UpdateLabels
  <2> QED
    BY <2>1, <1>3
<1>8. ASSUME NEW id \in ids, add = {}, remove = {},
             Raw!GetMessage("call", "me", id) \/ Raw!DeleteMessage("call", "me", id)
      PROVE  \E r : Starts(r)
  <2>1. /\ {id} \in SUBSET {"m"}
        /\ Raw!Request("call", R("get", {id})) \/ Raw!Request("call", R("delete", {id}))
    BY <1>8 DEF R, Raw!GetMessage, Raw!DeleteMessage
  <2> QED
    BY <2>1, <1>3
<1> QED
  BY <1>1, <1>4, <1>5, <1>6, <1>7, <1>8

LEMMA RawSends ==
  ASSUME RawTypes, Raw!Send("call")
  PROVE  \E r : Starts(r)
<1>1. PICK email \in AllEmails :
        Raw!SendMessage("call", "me", email) \/ Raw!SendMessageFails("call", "me", email)
  BY DEF Raw!Send
<1>2. Raw!Mail("me", email) \in RawRequests /\ Raw!Mail("me", email).token = "me"
  BY DEF Raw!Mail, RawRequests, Raw!Verbs, Raw!Single
<1> DEFINE r == Raw!Mail("me", email)
<1>3. /\ pc["call"] = "idle"
      /\ pc' = [pc EXCEPT !["call"] = "sent"] \/ pc' = [pc EXCEPT !["call"] = "thrown"]
      /\ call' = [call EXCEPT !["call"] = r]
      /\ gmail' = "me"
      /\ UNCHANGED <<mailbox, outbox, served, broken, faults>>
  BY <1>1 DEF Raw!SendMessage, Raw!SendMessageFails, Raw!Request, Raw!GetUserResource, Raw!Mail
<1> HIDE DEF r
<1>4. Starts(r)
  BY <1>2, <1>3 DEF Starts, RawTypes, r
<1> QED
  BY <1>4

LEMMA RawMailbox ==
  ASSUME RawTypes
  PROVE  Raw!After(call["call"], "me") \in [{"m"} -> {Absent} \cup SUBSET {"INBOX"}]
<1>1. ASSUME NEW id \in {"m"}, id \in Raw!Existing("me")
      PROVE  (mailbox["me"][id] \cup call["call"].add) \ call["call"].remove \in SUBSET {"INBOX"}
  <2>1. mailbox["me"][id] \in SUBSET {"INBOX"}
    BY <1>1 DEF RawTypes, Raw!Existing
  <2>2. call["call"].add \in SUBSET {"INBOX"}
    BY DEF RawTypes, RawRequests
  <2> QED
    BY <2>1, <2>2
<1>2. ASSUME NEW id \in {"m"} PROVE mailbox["me"][id] \in {Absent} \cup SUBSET {"INBOX"}
  BY DEF RawTypes
<1> QED
  BY <1>1, <1>2 DEF Raw!After

LEMMA RawServes ==
  ASSUME RawIInv, Raw!Serve("call")
  PROVE  RawIInv'
<1> USE DEF RawIInv
<1>1. /\ pc["call"] = "sent" /\ pc' = [pc EXCEPT !["call"] = "served"]
      /\ call["call"].token = "me"
      /\ served' = [served EXCEPT !["call"] = @ \cup {"me"}]
      /\ mailbox' = [mailbox EXCEPT !["me"] = Raw!After(call["call"], "me")]
      /\ UNCHANGED <<gmail, call, broken, faults>>
  BY DEF Raw!Serve, Raw!Client
<1>2. RawTypes'
  BY <1>1, RawMailbox DEF RawTypes
<1>3. /\ outbox["me"] = <<>>
      /\ \/ outbox' = outbox
         \/ outbox' = [outbox EXCEPT !["me"] = Append(@, Raw!CreateRawEmail(call["call"].email))]
  BY <1>1 DEF Raw!Serve, Raw!Client
<1>4. ASSUME NEW x PROVE Len(Append(<<>>, x)) = 1
  <2>1. <<>> \in Seq({x}) /\ Len(<<>>) = 0
    BY EmptySeq
  <2> QED
    BY <2>1, AppendProperties
<1>5. outbox'["me"] = <<>> \/ Len(outbox'["me"]) = 1
  BY <1>3, <1>4
<1>6. DOMAIN outbox' = {"me"}
  BY <1>3
<1>7. pc'["call"] = "served" /\ call' = call
  BY <1>1 DEF RawTypes
<1> QED
  BY <1>1, <1>2, <1>5, <1>6, <1>7

LEMMA RawTyped == Spec => []RawIInv
<1>1. Init => RawIInv
  <2> SUFFICES ASSUME Raw!Init PROVE RawIInv
    BY DEF Init
  <2>1. call \in [{"call"} -> RawRequests]
    BY DEF Raw!Init, Raw!NoCall, RawRequests, Raw!Verbs
  <2> QED
    BY <2>1 DEF Raw!Init, RawTypes, RawIInv
<1>2. RawIInv /\ [Raw!Next]_rawVars => RawIInv'
  <2> SUFFICES ASSUME RawIInv, [Raw!Next]_rawVars PROVE RawIInv'
    OBVIOUS
  <2>1. ASSUME NEW r, Starts(r) PROVE RawIInv'
    <3>1. None # "me"
      BY CommonAssumption DEF Raw!MailAssumption
    <3>2. RawTypes'
      BY <2>1, <3>1 DEF RawIInv, RawTypes, Starts
    <3>3. call'["call"].token = "me"
      BY <2>1 DEF RawIInv, RawTypes, Starts
    <3>4. outbox' = outbox /\ outbox["me"] = <<>> /\ DOMAIN outbox = {"me"}
      BY <2>1 DEF RawIInv, Starts
    <3> QED
      BY <3>2, <3>3, <3>4 DEF RawIInv
  <2>2. ASSUME Raw!Return("call") \/ Raw!Refuse("call") \/ Raw!Break("call") PROVE RawIInv'
    <3>1. /\ pc["call"] \in {"sent", "served"}
          /\ pc' = [pc EXCEPT !["call"] = "returned"] \/ pc' = [pc EXCEPT !["call"] = "thrown"]
          /\ UNCHANGED <<gmail, call, mailbox, outbox, served>>
          /\ broken' \in SUBSET {"call"} /\ faults' \in Nat
      <4>1. ASSUME Raw!Return("call") \/ Raw!Refuse("call")
            PROVE  /\ pc["call"] \in {"sent", "served"}
                   /\ pc' = [pc EXCEPT !["call"] = "returned"] \/ pc' = [pc EXCEPT !["call"] = "thrown"]
                   /\ UNCHANGED <<gmail, call, mailbox, outbox, served, broken, faults>>
        BY <4>1 DEF Raw!Return, Raw!Refuse, Raw!Throw
      <4>2. ~Raw!Break("call")
        BY DEF Raw!Break, RawIInv, RawTypes
      <4> QED
        BY <2>2, <4>1, <4>2 DEF RawIInv, RawTypes
    <3>2. RawTypes' /\ pc'["call"] \in {"returned", "thrown"}
      BY <3>1 DEF RawIInv, RawTypes
    <3>3. /\ call' = call /\ outbox' = outbox
          /\ DOMAIN outbox = {"me"} /\ call["call"].token = "me"
          /\ outbox["me"] = <<>> \/ Len(outbox["me"]) = 1
      BY <3>1 DEF RawIInv
    <3> QED
      BY <3>2, <3>3 DEF RawIInv
  <2>3. CASE UNCHANGED rawVars
    BY <2>3 DEF rawVars, RawIInv, RawTypes
  <2>4. RawTypes
    BY DEF RawIInv
  <2>5. CASE Raw!Next
    <3>1. \/ Raw!Invoke("call") \/ Raw!Send("call") \/ Raw!Serve("call")
          \/ Raw!Return("call") \/ Raw!Refuse("call") \/ Raw!Break("call")
      BY <2>5 DEF Raw!Next
    <3> QED
      BY <3>1, <2>1, <2>2, <2>4, RawInvokes, RawSends, RawServes
  <2> QED
    BY <2>3, <2>5
<1> QED
  BY <1>1, <1>2, PartStep, PTL DEF Spec

LEMMA RawHolds == RawIInv => Raw!TypeOK
<1> SUFFICES ASSUME RawIInv PROVE Raw!TypeOK
  OBVIOUS
<1>1. IsFiniteSet({"call"}) /\ Cardinality({"call"}) = 1
  BY FS_Singleton
<1>2. Raw!Cardinality({"call"}) = 1
  BY <1>1 DEF Raw!Cardinality, Cardinality
<1>3. \A t \in {"me"} : Len(outbox[t]) <= 1
  <2>1. \A s : s = <<>> => Len(s) = 0
    OBVIOUS
  <2>2. \A n : n = 0 \/ n = 1 => n <= 1
    OBVIOUS
  <2> QED
    BY <2>1, <2>2 DEF RawIInv
<1>4. \A t \in {"me"} : Len(outbox[t]) <= Raw!Cardinality({"call"})
  BY <1>2, <1>3, Zenon
<1>5. RawTypes
  BY DEF RawIInv
<1> QED
  BY <1>4, <1>5 DEF RawTypes, RawRequests, Raw!TypeOK

-----------------------------------------------------------------------------
(* String.trim, of the hash and of the cipher.                             *)

SolidOf(s, blank) == {k \in DOMAIN s : s[k] # blank}
LeastOf(T) == CHOOSE k \in T : \A j \in T : k <= j
MostOf(T)  == CHOOSE k \in T : \A j \in T : j <= k
Trimmed(s, blank) ==
  IF SolidOf(s, blank) = {} THEN <<>>
  ELSE SubSeq(s, LeastOf(SolidOf(s, blank)), MostOf(SolidOf(s, blank)))

\* The first and the last of some positions of a sequence.
LEMMA EndsOf ==
  ASSUME NEW n \in Nat, NEW T \in SUBSET (1 .. n), T # {}
  PROVE  /\ LeastOf(T) \in T /\ \A j \in T : LeastOf(T) <= j
         /\ MostOf(T) \in T /\ \A j \in T : j <= MostOf(T)
<1>1. \E k \in T : \A j \in T : k <= j
  <2>1. T \in SUBSET Nat
    OBVIOUS
  <2> QED
    BY <2>1, LeastNumber
<1>2. \E k \in T : \A j \in T : j <= k
  <2> DEFINE U == {n - k : k \in T}
  <2>1. U \in SUBSET Nat /\ U # {}
    <3>1. ASSUME NEW k \in T PROVE n - k \in Nat
      OBVIOUS
    <3> QED
      BY <3>1
  <2>2. PICK u \in U : \A v \in U : u <= v
    BY <2>1, LeastNumber
  <2>3. PICK k \in T : u = n - k
    BY <2>2
  <2>4. ASSUME NEW j \in T PROVE j <= k
    <3>1. n - j \in U
      OBVIOUS
    <3>2. n - k <= n - j
      BY <2>2, <2>3, <3>1
    <3> QED
      BY <3>2
  <2> QED
    BY <2>4
<1> QED
  BY <1>1, <1>2 DEF LeastOf, MostOf

LEMMA TrimmedTypes ==
  ASSUME NEW S, NEW s \in Seq(S), NEW blank
  PROVE  Trimmed(s, blank) \in Seq(S) /\ Len(Trimmed(s, blank)) <= Len(s)
<1> DEFINE T == SolidOf(s, blank)
<1>1. CASE T = {}
  <2>1. Trimmed(s, blank) = <<>> /\ <<>> \in Seq(S) /\ Len(<<>>) = 0 /\ Len(s) \in Nat
    BY <1>1 DEF Trimmed
  <2> QED
    BY <2>1
<1>2. CASE T # {}
  <2>1. Len(s) \in Nat /\ T \in SUBSET (1 .. Len(s))
    BY DEF SolidOf
  <2>2. LeastOf(T) \in T /\ MostOf(T) \in T /\ LeastOf(T) <= MostOf(T)
    BY <1>2, <2>1, EndsOf
  <2>3. LeastOf(T) \in 1 .. Len(s) /\ MostOf(T) \in 1 .. Len(s)
    BY <2>1, <2>2
  <2> DEFINE p == LeastOf(T)
             q == MostOf(T)
  <2>4. Trimmed(s, blank) = SubSeq(s, p, q)
    BY <1>2 DEF Trimmed
  <2> HIDE DEF p, q, T
  <2>5. SubSeq(s, p, q) \in Seq(S) /\ Len(SubSeq(s, p, q)) <= Len(s)
    <3>1. p \in 1 .. Len(s) /\ q \in 1 .. Len(s) /\ p <= q
      BY <2>2, <2>3 DEF p, q
    <3> QED
      BY <3>1, <2>1
  <2> QED
    BY <2>4, <2>5
<1> QED
  BY <1>1, <1>2

-----------------------------------------------------------------------------
(* StringHash. *)

HashIInv ==
  /\ string \in Seq(Codes \cup {32})
  /\ index \in 0 .. Len(Hash!Trim(string))
  /\ hash \in -Half .. (Half - 1)

LEMMA HashTrim ==
  ASSUME NEW s \in Seq(Codes \cup {32})
  PROVE  /\ Hash!Trim(s) \in Seq(Codes \cup {32}) /\ Len(Hash!Trim(s)) \in Nat
         /\ Len(Hash!Trim(s)) <= Len(s)
<1>1. Hash!Trim(s) = Trimmed(s, 32)
  BY DEF Hash!Trim, Trimmed, SolidOf, LeastOf, MostOf
<1> QED
  BY <1>1, TrimmedTypes

\* Whatever is cut is an integer of the program's.
LEMMA CutTypes ==
  ASSUME NEW n \in Int, Half \in Nat, Half > 0
  PROVE  Hash!ToInt(n) \in -Half .. (Half - 1)
<1> DEFINE m == n % (2 * Half)
<1>1. m \in 0 .. (2 * Half - 1)
  OBVIOUS
<1> HIDE DEF m
<1>2. Hash!ToInt(n) = IF m >= Half THEN m - 2 * Half ELSE m
  BY DEF Hash!ToInt, m
<1> QED
  BY <1>1, <1>2

LEMMA HashTyped == Spec => []HashIInv
<1>0. Half \in Nat /\ Half > 1 /\ Codes \cup {32} \subseteq Nat
  BY CommonAssumption DEF Hash!HashAssumption
<1>1. Init => HashIInv
  <2> SUFFICES ASSUME Hash!Init PROVE HashIInv
    BY DEF Init
  <2>1. string \in Seq(Codes \cup {32}) /\ index = 0 /\ hash = 0
    BY DEF Hash!Init, Hash!BoundedSeq, Hash!SeqOf
  <2>2. Len(Hash!Trim(string)) \in Nat
    BY <2>1, HashTrim
  <2> QED
    BY <1>0, <2>1, <2>2 DEF HashIInv
<1>2. HashIInv /\ [Hash!Next]_hashVars => HashIInv'
  <2> SUFFICES ASSUME HashIInv, [Hash!Next]_hashVars PROVE HashIInv'
    OBVIOUS
  <2> DEFINE s == Hash!Trim(string)
  <2>1. s \in Seq(Codes \cup {32}) /\ Len(s) \in Nat
    BY HashTrim DEF HashIInv
  <2>2. CASE Hash!Start
    <3>1. string' = string /\ index' = index /\ hash' \in {0, 1}
      BY <2>2 DEF Hash!Start
    <3>2. hash' \in -Half .. (Half - 1)
      <4>1. Half \in Int /\ (hash' = 0 \/ hash' = 1)
        BY <1>0, <3>1
      <4> QED
        BY ONLY <1>0, <4>1
    <3> QED
      BY <3>1, <3>2 DEF HashIInv
  <2>3. CASE Hash!Step
    <3>1. /\ string' = string /\ index' = index + 1 /\ index < Len(s)
          /\ hash' = Hash!ToInt(Hash!ToInt(hash * 32) - hash + s[index + 1])
      BY <2>3 DEF Hash!Step, Hash!Mix
    <3>2. index + 1 \in 1 .. Len(s) /\ s[index + 1] \in Nat /\ hash \in Int /\ hash * 32 \in Int
      <4>1. index \in 0 .. Len(s) /\ hash \in -Half .. (Half - 1)
        BY DEF HashIInv
      <4>2. index + 1 \in 1 .. Len(s)
        BY ONLY <2>1, <3>1, <4>1
      <4>3. s[index + 1] \in Codes \cup {32}
        BY ONLY <2>1, <4>2
      <4> QED
        BY <1>0, <4>1, <4>2, <4>3
    <3>3. Hash!ToInt(hash * 32) \in Int
      BY <1>0, <3>2, CutTypes
    <3> DEFINE x == Hash!ToInt(hash * 32) - hash + s[index + 1]
    <3>4. x \in Int
      BY <3>2, <3>3
    <3>5. hash' \in -Half .. (Half - 1)
      BY <1>0, <3>1, <3>4, CutTypes
    <3> QED
      BY <3>1, <3>2, <3>5 DEF HashIInv
  <2>4. CASE Hash!Return \/ UNCHANGED hashVars
    <3>1. string' = string /\ index' = index /\ hash' = hash
      BY <2>4 DEF Hash!Return, hashVars
    <3> QED
      BY <3>1 DEF HashIInv
  <2> QED
    BY <2>2, <2>3, <2>4 DEF Hash!Next
<1> QED
  BY <1>1, <1>2, PartStep, PTL DEF Spec

LEMMA HashHolds == HashIInv => Hash!TypeOK
BY HashTrim DEF HashIInv, Hash!TypeOK

-----------------------------------------------------------------------------
(* TranspositionCipher: the sides of the grid. *)

LEMMA Roots ==
  ASSUME NEW n \in Nat
  PROVE  /\ Cipher!FloorSqrt(n) \in Nat /\ Cipher!FloorSqrt(n) <= n
         /\ Cipher!FloorSqrt(n) * Cipher!FloorSqrt(n) <= n
         /\ n < (Cipher!FloorSqrt(n) + 1) * (Cipher!FloorSqrt(n) + 1)
<1> DEFINE T == {r \in Nat : (r + 1) * (r + 1) > n}
<1>1. n \in T
  <2>1. (n + 1) * (n + 1) = n * n + 2 * n + 1 /\ n * n \in Nat
    OBVIOUS
  <2>2. (n + 1) * (n + 1) > n
    BY <2>1
  <2> QED
    BY <2>2
<1>2. PICK r \in T : \A m \in T : r <= m
  <2>1. T \in SUBSET Nat /\ T # {}
    BY <1>1
  <2> QED
    BY <2>1, LeastNumber
<1>3. r * r <= n
  <2>1. CASE r = 0
    BY <2>1
  <2>2. CASE r # 0
    <3>1. r - 1 \in Nat /\ r - 1 \notin T /\ (r - 1) + 1 = r
      BY <1>2, <2>2
    <3>2. ~ (r * r > n)
      BY <3>1
    <3>3. r \in Nat /\ r * r \in Nat
      OBVIOUS
    <3> QED
      BY <3>2, <3>3
  <2> QED
    BY <2>1, <2>2
<1>4. r \in 0 .. n /\ r * r <= n /\ (r + 1) * (r + 1) > n
  BY <1>1, <1>2, <1>3
<1>5. /\ Cipher!FloorSqrt(n) \in 0 .. n
      /\ Cipher!FloorSqrt(n) * Cipher!FloorSqrt(n) <= n
      /\ (Cipher!FloorSqrt(n) + 1) * (Cipher!FloorSqrt(n) + 1) > n
  BY <1>4 DEF Cipher!FloorSqrt
<1> QED
  BY ONLY <1>5, n \in Nat

LEMMA Squares ==
  ASSUME NEW x \in Nat, NEW y \in Nat
  PROVE  /\ x * x <= y * y => x <= y
         /\ x * x < y * y => x < y
<1>1. x >= y => x * x >= y * y
  OBVIOUS
<1>2. x > y => x * x > y * y
  <2> SUFFICES ASSUME x > y PROVE x * x > y * y
    OBVIOUS
  <2>1. x * x >= x * y /\ x * y >= y * y
    OBVIOUS
  <2>2. x * (x - y) > 0
    OBVIOUS
  <2>3. x * (x - y) = x * x - x * y
    OBVIOUS
  <2>4. x * x \in Nat /\ x * y \in Nat /\ y * y \in Nat
    OBVIOUS
  <2> QED
    BY <2>1, <2>2, <2>3, <2>4
<1>3. x * x \in Nat /\ y * y \in Nat
  OBVIOUS
<1> QED
  BY <1>1, <1>2, <1>3

LEMMA RootIs ==
  ASSUME NEW n \in Nat, NEW r \in Nat, r * r <= n, n < (r + 1) * (r + 1)
  PROVE  Cipher!FloorSqrt(n) = r
<1> DEFINE f == Cipher!FloorSqrt(n)
<1>1. f \in Nat /\ f * f <= n /\ n < (f + 1) * (f + 1)
  BY Roots
<1> HIDE DEF f
<1>2. f * f < (r + 1) * (r + 1) /\ r * r < (f + 1) * (f + 1)
  <2>1. f * f \in Nat /\ r * r \in Nat /\ (r + 1) * (r + 1) \in Nat /\ (f + 1) * (f + 1) \in Nat
    BY <1>1
  <2> QED
    BY <1>1, <2>1
<1>3. f + 1 \in Nat /\ r + 1 \in Nat
  BY <1>1
<1>4. f < r + 1 /\ r < f + 1
  BY <1>1, <1>2, <1>3, Squares
<1>5. f = r
  BY <1>1, <1>4
<1> QED
  BY <1>5 DEF f

LEMMA RootUp ==
  ASSUME NEW n \in Nat
  PROVE  /\ Cipher!CeilSqrt(n) \in Nat /\ n <= Cipher!CeilSqrt(n) * Cipher!CeilSqrt(n)
         /\ Cipher!FloorSqrt(n) <= Cipher!CeilSqrt(n)
         /\ \A r \in Nat : n <= r * r => Cipher!CeilSqrt(n) <= r
<1> DEFINE f == Cipher!FloorSqrt(n)
<1>0. f \in Nat /\ f * f <= n /\ n < (f + 1) * (f + 1)
  BY Roots
<1>2. Cipher!CeilSqrt(n) = IF f * f = n THEN f ELSE f + 1
  BY DEF Cipher!CeilSqrt
<1> HIDE DEF f
<1>1. f \in Nat /\ f * f <= n /\ n < (f + 1) * (f + 1) /\ f * f \in Nat /\ (f + 1) * (f + 1) \in Nat
  <2>1. f + 1 \in Nat
    BY <1>0
  <2> QED
    BY <1>0, <2>1
<1>3. ASSUME NEW r \in Nat, n <= r * r PROVE Cipher!CeilSqrt(n) <= r
  <2>1. r * r \in Nat /\ f * f <= r * r /\ (f * f # n => f * f < r * r)
    BY <1>1, <1>3
  <2>2. f <= r /\ (f * f # n => f < r)
    BY <1>1, <2>1, Squares
  <2> QED
    BY <1>1, <1>2, <2>2
<1>4. Cipher!CeilSqrt(n) \in Nat /\ n <= Cipher!CeilSqrt(n) * Cipher!CeilSqrt(n) /\ f <= Cipher!CeilSqrt(n)
  <2>1. CASE f * f = n
    BY <1>1, <1>2, <2>1
  <2>2. CASE f * f # n
    <3>1. Cipher!CeilSqrt(n) = f + 1 /\ n <= (f + 1) * (f + 1) /\ f + 1 \in Nat /\ f <= f + 1
      BY <1>1, <1>2, <2>2
    <3> QED
      BY <3>1
  <2> QED
    BY <2>1, <2>2
<1> QED
  BY <1>3, <1>4 DEF f

\* The sides decryption finds from the length of what encryption made are those
\* of the grid it was written into, and the grid holds the text.
LEMMA Grid ==
  ASSUME NEW n \in Nat
  PROVE  LET a == Cipher!EncryptionRows(n) b == Cipher!CeilSqrt(n)
         IN /\ a \in Nat /\ b \in Nat /\ a * b \in Nat /\ n <= a * b /\ a <= b
            /\ Cipher!FloorSqrt(a * b) = a /\ Cipher!CeilSqrt(a * b) = b
<1> DEFINE f == Cipher!FloorSqrt(n)
           a == Cipher!EncryptionRows(n)
           b == Cipher!CeilSqrt(n)
<1>0. f \in Nat /\ f * f <= n /\ n < (f + 1) * (f + 1)
  BY Roots
<1>b. b = IF f * f = n THEN f ELSE f + 1
  BY DEF Cipher!CeilSqrt
<1>a. a = IF f * b < n THEN f + 1 ELSE f
  BY DEF Cipher!EncryptionRows
<1>3. \A m : Cipher!CeilSqrt(m) =
        IF Cipher!FloorSqrt(m) * Cipher!FloorSqrt(m) = m THEN Cipher!FloorSqrt(m) ELSE Cipher!FloorSqrt(m) + 1
  BY DEF Cipher!CeilSqrt
<1> HIDE DEF f, a, b
<1>1. f \in Nat /\ f * f <= n /\ n < (f + 1) * (f + 1) /\ f * f \in Nat /\ (f + 1) * (f + 1) \in Nat
  <2>1. f + 1 \in Nat
    BY <1>0
  <2> QED
    BY <1>0, <2>1
<1>2. /\ b = IF f * f = n THEN f ELSE f + 1
      /\ a = IF f * b < n THEN f + 1 ELSE f
  BY <1>a, <1>b
<1> USE <1>1
<1>g. \A c \in Nat : /\ (c + 1) * (c + 1) = c * c + 2 * c + 1 /\ c * (c + 1) = c * c + c
                     /\ c * c \in Nat /\ c * (c + 1) \in Nat
  OBVIOUS
<1>4. ASSUME NEW c \in Nat PROVE Cipher!FloorSqrt(c * c) = c /\ Cipher!CeilSqrt(c * c) = c
  <2>1. c * c \in Nat /\ c * c <= c * c /\ c * c < (c + 1) * (c + 1)
    BY <1>g
  <2>2. Cipher!FloorSqrt(c * c) = c
    BY <2>1, RootIs
  <2> QED
    BY <1>3, <2>2
<1>5. CASE f * f = n
  <2>1. b = f /\ a = f
    <3>1. b = f
      BY <1>2, <1>5
    <3> QED
      BY <1>2, <1>5, <3>1
  <2> QED
    BY <1>4, <1>5, <2>1 DEF a, b
<1>6. CASE f * f # n /\ f * (f + 1) < n
  <2>1. b = f + 1 /\ a = f + 1
    BY <1>2, <1>6
  <2>2. f + 1 \in Nat /\ n <= (f + 1) * (f + 1)
    OBVIOUS
  <2>3. Cipher!FloorSqrt((f + 1) * (f + 1)) = f + 1 /\ Cipher!CeilSqrt((f + 1) * (f + 1)) = f + 1
    BY <1>4, <2>2
  <2> QED
    BY <2>1, <2>2, <2>3 DEF a, b
<1>7. CASE f * f # n /\ ~ (f * (f + 1) < n)
  <2>1. b = f + 1 /\ a = f
    BY <1>2, <1>7
  <2>2. f # 0 /\ f * (f + 1) \in Nat /\ n <= f * (f + 1)
    <3>1. f = 0 => f * f = 0 /\ f * (f + 1) = 0
      OBVIOUS
    <3> QED
      BY <1>7, <1>g, <3>1
  <2>3. f * f <= f * (f + 1) /\ f * (f + 1) < (f + 1) * (f + 1) /\ f * f # f * (f + 1)
    BY <1>g, <2>2
  <2>4. Cipher!FloorSqrt(f * (f + 1)) = f
    BY <2>2, <2>3, RootIs
  <2>5. Cipher!CeilSqrt(f * (f + 1)) = f + 1
    BY <1>3, <2>3, <2>4
  <2>6. f <= f + 1 /\ f + 1 \in Nat
    OBVIOUS
  <2> QED
    BY <2>1, <2>2, <2>4, <2>5, <2>6 DEF a, b
<1> QED
  BY <1>5, <1>6, <1>7

-----------------------------------------------------------------------------
(* TranspositionCipher: the cells of the grid. *)

Text == Seq(Letters \cup {None})

\* The row and the column of the k-th cell of a rows of b cells, and back.
LEMMA RowColumn ==
  ASSUME NEW a \in Nat, NEW b \in Nat, NEW k \in 1 .. (a * b)
  PROVE  /\ b > 0 /\ (k - 1) \div b \in 0 .. (a - 1) /\ (k - 1) % b \in 0 .. (b - 1)
         /\ k - 1 = ((k - 1) \div b) * b + ((k - 1) % b)
<1>1. a * b \in Nat /\ k \in Nat /\ 1 <= k /\ k <= a * b
  OBVIOUS
<1>2. b > 0
  <2>1. b = 0 => a * b = 0
    OBVIOUS
  <2> QED
    BY <1>1, <2>1
<1> DEFINE i == (k - 1) \div b
           j == (k - 1) % b
<1>3. k - 1 \in Nat /\ k - 1 < a * b
  BY <1>1
<1>4. i \in Nat /\ j \in 0 .. (b - 1) /\ k - 1 = i * b + j
  BY <1>2, <1>3
<1> HIDE DEF i, j
<1>5. i < a
  <2> SUFFICES ASSUME ~ (i < a) PROVE FALSE
    OBVIOUS
  <2>1. i >= a /\ i - a \in Nat
    BY <1>4
  <2>2. PICK d \in Nat : i = a + d
    <3>1. i = a + (i - a)
      BY <2>1, <1>4
    <3> QED
      BY <2>1, <3>1
  <2>3. (a + d) * b = a * b + d * b /\ d * b \in Nat
    OBVIOUS
  <2> QED
    BY <1>1, <1>3, <1>4, <2>2, <2>3
<1>6. i \in 0 .. (a - 1)
  BY <1>4, <1>5
<1> QED
  BY <1>2, <1>4, <1>6 DEF i, j

LEMMA CellOf ==
  ASSUME NEW a \in Nat, NEW b \in Nat, NEW i \in 0 .. (a - 1), NEW j \in 0 .. (b - 1)
  PROVE  j * a + i + 1 \in 1 .. (a * b)
<1>1. j * a \in Nat /\ (b - 1 - j) * a \in Nat /\ a * b \in Nat
  <2>1. b - 1 - j \in Nat /\ j \in Nat
    OBVIOUS
  <2> QED
    BY <2>1
<1>2. (b - 1 - j) * a = a * b - a - j * a
  OBVIOUS
<1> QED
  BY <1>1, <1>2

LEMMA CellBack ==
  ASSUME NEW a \in Nat, NEW i \in 0 .. (a - 1), NEW j \in Nat
  PROVE  (j * a + i) % a = i /\ (j * a + i) \div a = j
<1>1. a > 0 /\ i \in Nat
  OBVIOUS
<1> QED
  BY <1>1

LEMMA Encrypted ==
  ASSUME NEW s \in Text
  PROVE  LET n == Len(s) a == Cipher!EncryptionRows(n) b == Cipher!CeilSqrt(n)
         IN /\ Cipher!Encryption(s) \in Text /\ Len(Cipher!Encryption(s)) = a * b
            /\ \A k \in 1 .. (a * b) :
                 Cipher!Encryption(s)[k] =
                   IF ((k - 1) % a) * b + (k - 1) \div a < n
                   THEN s[((k - 1) % a) * b + (k - 1) \div a + 1] ELSE None
<1> DEFINE n == Len(s)
           a == Cipher!EncryptionRows(n)
           b == Cipher!CeilSqrt(n)
           V(k) == IF ((k - 1) % a) * b + (k - 1) \div a < n
                   THEN s[((k - 1) % a) * b + (k - 1) \div a + 1] ELSE None
<1>1. n \in Nat
  BY DEF Text
<1>2. a \in Nat /\ b \in Nat /\ a * b \in Nat
  BY <1>1, Grid
<1>3. Cipher!Encryption(s) = [k \in 1 .. (a * b) |-> V(k)]
  BY DEF Cipher!Encryption
<1> HIDE DEF a, b, n
<1>4. ASSUME NEW k \in 1 .. (a * b) PROVE V(k) \in Letters \cup {None}
  <2> DEFINE i == (k - 1) % a
             j == (k - 1) \div a
  <2>1. a * b = b * a
    BY <1>2
  <2>2. i \in Nat /\ j \in Nat
    BY <1>2, <2>1, RowColumn
  <2> HIDE DEF i, j
  <2>3. i * b + j \in Nat
    BY <1>2, <2>2
  <2>4. CASE i * b + j < n
    <3>1. i * b + j + 1 \in 1 .. Len(s)
      BY <1>1, <2>3, <2>4 DEF n
    <3>2. s[i * b + j + 1] \in Letters \cup {None}
      BY <3>1 DEF Text
    <3> QED
      BY <2>4, <3>2 DEF i, j
  <2>5. CASE ~ (i * b + j < n)
    BY <2>5 DEF i, j
  <2> QED
    BY <2>4, <2>5
<1> HIDE DEF V
<1>5. [k \in 1 .. (a * b) |-> V(k)] \in Text /\ Len([k \in 1 .. (a * b) |-> V(k)]) = a * b
  BY <1>2, <1>4 DEF Text
<1>6. /\ Cipher!Encryption(s) \in Text /\ Len(Cipher!Encryption(s)) = a * b
      /\ \A k \in 1 .. (a * b) : Cipher!Encryption(s)[k] = V(k)
  BY <1>3, <1>5
<1> QED
  BY <1>6 DEF n, a, b, V

-----------------------------------------------------------------------------
(* The numbers of a set in ascending order. *)

UpTo(T, k) == {m \in T : m <= k}

LEMMA AscendingIs ==
  ASSUME NEW T
  PROVE  Cipher!Ascending(T) = [j \in 1 .. Cardinality(T) |-> CHOOSE k \in T : Cardinality(UpTo(T, k)) = j]
<1>0. \A V : Cipher!Cardinality(V) = Cardinality(V)
  BY DEF Cipher!Cardinality, Cardinality
<1>1. \A k : UpTo(T, k) = {m \in T : m <= k}
  BY DEF UpTo
<1>2. \A k : Cipher!Cardinality({m \in T : m <= k}) = Cardinality(UpTo(T, k))
  BY <1>0, <1>1
<1>3. Cipher!Cardinality(T) = Cardinality(T)
  BY <1>0
<1>4. Cipher!Ascending(T)
        = [j \in 1 .. Cipher!Cardinality(T) |-> CHOOSE k \in T : Cipher!Cardinality({m \in T : m <= k}) = j]
  BY DEF Cipher!Ascending
<1> QED
  BY <1>2, <1>3, <1>4

LEMMA Ascends ==
  ASSUME NEW n \in Nat, NEW T \in SUBSET (1 .. n)
  PROVE  /\ IsFiniteSet(T) /\ Cardinality(T) \in Nat /\ Cardinality(T) <= n
         /\ DOMAIN Cipher!Ascending(T) = 1 .. Cardinality(T)
         /\ \A j \in 1 .. Cardinality(T) : Cipher!Ascending(T)[j] \in T
<1>1. IsFiniteSet(1 .. n) /\ Cardinality(1 .. n) = n
  BY FS_Interval
<1>2. IsFiniteSet(T) /\ Cardinality(T) \in Nat /\ Cardinality(T) <= n
  BY <1>1, FS_Subset, FS_CardinalityType
<1>t. \A m \in T : m \in Nat /\ 1 <= m /\ m <= n
  OBVIOUS
<1>3. \A k : IsFiniteSet(UpTo(T, k)) /\ Cardinality(UpTo(T, k)) \in Nat
  <2>1. \A k : UpTo(T, k) \subseteq T
    BY DEF UpTo
  <2> QED
    BY <1>2, <2>1, FS_Subset, FS_CardinalityType
<1>5. ASSUME NEW j \in 1 .. Cardinality(T)
      PROVE  \E k \in T : Cardinality(UpTo(T, k)) = j
  <2> DEFINE W == {k \in Nat : Cardinality(UpTo(T, k)) >= j}
  <2>1. n \in W
    <3>1. UpTo(T, n) = T
      BY <1>t DEF UpTo
    <3> QED
      BY <1>2, <3>1
  <2>2. PICK k \in W : \A m \in W : k <= m
    <3>1. W \in SUBSET Nat /\ W # {}
      BY <2>1
    <3> QED
      BY <3>1, LeastNumber
  <2>3. k # 0
    <3>1. UpTo(T, 0) = {}
      <4>1. \A m \in T : ~ (m <= 0)
        BY <1>t
      <4> QED
        BY <4>1 DEF UpTo
    <3>2. Cardinality(UpTo(T, 0)) = 0
      BY <3>1, FS_EmptySet
    <3> QED
      BY <2>2, <3>2
  <2>4. k - 1 \in Nat /\ k - 1 \notin W
    BY <2>2, <2>3
  <2>5. Cardinality(UpTo(T, k - 1)) < j
    BY <1>3, <2>4
  <2>6. k \in T
    <3> SUFFICES ASSUME k \notin T PROVE FALSE
      OBVIOUS
    <3>1. UpTo(T, k) = UpTo(T, k - 1)
      <4>1. k \in Nat /\ \A m \in T : m # k /\ (m <= k <=> m <= k - 1)
        BY <1>t, <2>4
      <4> QED
        BY <4>1 DEF UpTo
    <3> QED
      BY <1>3, <2>2, <2>5, <3>1
  <2>7. UpTo(T, k) = UpTo(T, k - 1) \cup {k} /\ k \notin UpTo(T, k - 1)
    <3>1. k \in Nat /\ ~ (k <= k - 1) /\ \A m \in T : m <= k <=> m <= k - 1 \/ m = k
      BY <1>t, <2>4
    <3> QED
      BY <2>6, <3>1 DEF UpTo
  <2>8. Cardinality(UpTo(T, k)) = Cardinality(UpTo(T, k - 1)) + 1
    BY <1>3, <2>7, FS_AddElement
  <2>9. Cardinality(UpTo(T, k)) = j
    BY <1>3, <2>2, <2>5, <2>8
  <2> QED
    BY <2>6, <2>9
<1>6. Cipher!Ascending(T) = [j \in 1 .. Cardinality(T) |-> CHOOSE k \in T : Cardinality(UpTo(T, k)) = j]
  BY AscendingIs
<1> QED
  BY <1>2, <1>5, <1>6

LEMMA AscendsAll ==
  ASSUME NEW n \in Nat, NEW j \in 1 .. n
  PROVE  Cardinality(1 .. n) = n /\ Cipher!Ascending(1 .. n)[j] = j
<1>1. Cardinality(1 .. n) = n /\ Cipher!Cardinality(1 .. n) = n
  <2>1. Cipher!Cardinality(1 .. n) = Cardinality(1 .. n)
    BY DEF Cipher!Cardinality, Cardinality
  <2>2. Cardinality(1 .. n) = n
    BY FS_Interval
  <2> QED
    BY <2>1, <2>2
<1>2. ASSUME NEW k \in 1 .. n PROVE Cipher!Cardinality({m \in 1 .. n : m <= k}) = k
  <2>1. {m \in 1 .. n : m <= k} = 1 .. k
    OBVIOUS
  <2>2. k \in Nat /\ Cardinality(1 .. k) = k
    BY FS_Interval
  <2>3. Cipher!Cardinality(1 .. k) = Cardinality(1 .. k)
    BY DEF Cipher!Cardinality, Cardinality
  <2> QED
    BY <2>1, <2>2, <2>3
<1>3. Cipher!Ascending(1 .. n)[j] = CHOOSE k \in 1 .. n : Cipher!Cardinality({m \in 1 .. n : m <= k}) = j
  BY <1>1 DEF Cipher!Ascending
<1> QED
  BY <1>1, <1>2, <1>3

-----------------------------------------------------------------------------
(* What decryption makes of a text. *)

\* The letters of e in the order decryption reads them.
ReadBack(e) ==
  [j \in 1 .. Cardinality(Cipher!Filled(Len(e))) |->
     e[Cipher!Place(Len(e), Cipher!Ascending(Cipher!Filled(Len(e)))[j])]]

LEMMA PlaceTypes ==
  ASSUME NEW n \in Nat, NEW k \in 1 .. (Cipher!FloorSqrt(n) * Cipher!CeilSqrt(n))
  PROVE  Cipher!Place(n, k) \in Nat /\ Cipher!Place(n, k) >= 1
<1> DEFINE f == Cipher!FloorSqrt(n)
           c == Cipher!CeilSqrt(n)
           i == (k - 1) \div c
           j == (k - 1) % c
<1>1. f \in Nat /\ c \in Nat
  BY Roots, RootUp
<1>2. i \in Nat /\ j \in Nat
  <2>1. k \in 1 .. (f * c)
    OBVIOUS
  <2> HIDE DEF f, c
  <2> QED
    BY <1>1, <2>1, RowColumn
<1>3. Cipher!Place(n, k) = j * f + i + 1
  BY DEF Cipher!Place
<1> HIDE DEF f, c, i, j
<1>4. j * f \in Nat
  BY <1>1, <1>2
<1> QED
  BY <1>2, <1>3, <1>4

LEMMA Decrypted ==
  ASSUME NEW e \in Text
  PROVE  /\ ReadBack(e) \in Text /\ Cipher!Decryption(e) = Trimmed(ReadBack(e), None)
         /\ Cipher!Decryption(e) \in Text
         /\ Len(Cipher!Decryption(e)) <= Cipher!FloorSqrt(Len(e)) * Cipher!CeilSqrt(Len(e))
<1> DEFINE n == Len(e)
           F == Cipher!Filled(n)
           A == Cipher!Ascending(F)
           p == Cipher!FloorSqrt(n) * Cipher!CeilSqrt(n)
<1>1. n \in Nat /\ p \in Nat
  <2>1. n \in Nat
    BY DEF Text
  <2>2. Cipher!FloorSqrt(n) \in Nat /\ Cipher!CeilSqrt(n) \in Nat
    BY <2>1, Roots, RootUp
  <2> QED
    BY <2>1, <2>2
<1>2. F \in SUBSET (1 .. p) /\ \A k \in F : Cipher!Place(n, k) \in 1 .. n
  <2>1. F = {k \in 1 .. p : Cipher!Place(n, k) <= n}
    BY DEF Cipher!Filled
  <2>2. \A k \in 1 .. p : Cipher!Place(n, k) \in Nat /\ Cipher!Place(n, k) >= 1
    BY <1>1, PlaceTypes
  <2> HIDE DEF n, F, p
  <2> QED
    BY <1>1, <2>1, <2>2
<1> HIDE DEF F
<1>3. /\ Cardinality(F) \in Nat /\ Cardinality(F) <= p
      /\ DOMAIN A = 1 .. Cardinality(F) /\ \A j \in 1 .. Cardinality(F) : A[j] \in F
  <2> HIDE DEF p
  <2> QED
    BY <1>1, <1>2, Ascends
<1>4. ReadBack(e) = [j \in 1 .. Cardinality(F) |-> e[Cipher!Place(n, A[j])]]
  BY DEF ReadBack, F
<1> HIDE DEF A, n, p
<1>5. \A j \in 1 .. Cardinality(F) : e[Cipher!Place(n, A[j])] \in Letters \cup {None}
  <2>1. \A m \in 1 .. n : e[m] \in Letters \cup {None}
    BY DEF Text, n
  <2> QED
    BY <1>2, <1>3, <2>1
<1>6. ReadBack(e) \in Text /\ Len(ReadBack(e)) = Cardinality(F)
  BY <1>3, <1>4, <1>5 DEF Text
<1>7. Cipher!Decryption(e) = Cipher!Trim([j \in DOMAIN A |-> e[Cipher!Place(n, A[j])]])
  BY DEF Cipher!Decryption, A, F, n
<1>8. Cipher!Decryption(e) = Cipher!Trim(ReadBack(e))
  BY <1>3, <1>4, <1>7
<1>9. Cipher!Trim(ReadBack(e)) = Trimmed(ReadBack(e), None)
  BY DEF Cipher!Trim, Cipher!Solid, Trimmed, SolidOf, LeastOf, MostOf
<1>10. Trimmed(ReadBack(e), None) \in Text /\ Len(Trimmed(ReadBack(e), None)) <= Len(ReadBack(e))
  BY <1>6, TrimmedTypes DEF Text
<1>11. Len(Trimmed(ReadBack(e), None)) \in Nat
  BY <1>10 DEF Text
<1>12. Len(Cipher!Decryption(e)) <= p
  BY <1>1, <1>3, <1>6, <1>8, <1>9, <1>10, <1>11
<1> QED
  BY <1>6, <1>8, <1>9, <1>10, <1>12 DEF p, n

-----------------------------------------------------------------------------
(* The texts of the cipher. *)

\* The side of the largest grid.
Side == Cipher!CeilSqrt(MaxText)

CipherIInv ==
  /\ text \in Text /\ Len(text) <= Side * Side
  /\ under \in Seq(Text) /\ calls \in Nat /\ Len(under) <= calls

LEMMA SideOf ==
  ASSUME NEW n \in Nat, n <= Side * Side, MaxText \in Nat
  PROVE  /\ Cipher!EncryptionRows(n) * Cipher!CeilSqrt(n) <= Side * Side
         /\ Cipher!FloorSqrt(n) * Cipher!CeilSqrt(n) <= Side * Side
<1> DEFINE a == Cipher!EncryptionRows(n)
           b == Cipher!CeilSqrt(n)
           f == Cipher!FloorSqrt(n)
<1>1. Side \in Nat
  BY RootUp DEF Side
<1>2. a \in Nat /\ b \in Nat /\ f \in Nat /\ a <= b /\ f <= b /\ b <= Side
  <2>1. a \in Nat /\ b \in Nat /\ a <= b
    BY Grid
  <2>2. f \in Nat /\ f <= b /\ b <= Side
    BY <1>1, Roots, RootUp
  <2> QED
    BY <2>1, <2>2
<1> HIDE DEF a, b, f
<1>3. ASSUME NEW x \in Nat, x <= b PROVE x * b <= Side * Side
  <2>1. x * b <= b * b
    BY <1>2, <1>3
  <2>2. b * b <= Side * Side
    BY <1>1, <1>2
  <2>3. x * b \in Nat /\ b * b \in Nat /\ Side * Side \in Nat
    BY <1>1, <1>2
  <2> QED
    BY <2>1, <2>2, <2>3
<1> QED
  BY <1>2, <1>3 DEF a, b, f

LEMMA CipherTyped == Spec => []CipherIInv
<1> USE DEF Rest
<1>m. MaxText \in Nat
  BY CommonAssumption DEF Cipher!CipherAssumption
<1>1. Init => CipherIInv
  <2> SUFFICES ASSUME Init PROVE CipherIInv
    OBVIOUS
  <2>1. text \in Cipher!Texts /\ under = <<>> /\ calls = 0
    BY DEF Init, Cipher!Init
  <2>2. text \in Text /\ Len(text) <= MaxText /\ Len(text) \in Nat
    <3>1. text \in Cipher!BoundedSeq(Letters \cup {None}, MaxText)
      BY <2>1 DEF Cipher!Texts
    <3>2. PICK k \in 0 .. MaxText : text \in [1 .. k -> Letters \cup {None}]
      BY <3>1 DEF Cipher!BoundedSeq, Cipher!SeqOf
    <3> QED
      BY <1>m, <3>2 DEF Text
  <2>3. MaxText <= Side * Side /\ Side \in Nat /\ Side * Side \in Nat
    <3>1. MaxText <= Side * Side /\ Side \in Nat
      BY <1>m, RootUp DEF Side
    <3> QED
      BY <3>1
  <2>4. Len(text) <= Side * Side
    BY <1>m, <2>2, <2>3
  <2>5. under \in Seq(Text) /\ Len(under) = 0
    BY <2>1
  <2> QED
    BY <2>1, <2>2, <2>4, <2>5 DEF CipherIInv
<1>2. CipherIInv /\ [Cipher!Next]_cipherVars => CipherIInv'
  <2> SUFFICES ASSUME CipherIInv, [Cipher!Next]_cipherVars PROVE CipherIInv'
    OBVIOUS
  <2>0. text \in Text /\ Len(text) <= Side * Side /\ Len(text) \in Nat /\ under \in Seq(Text)
        /\ calls \in Nat /\ Len(under) <= calls /\ Len(under) \in Nat
    BY DEF CipherIInv, Text
  <2>s. Side \in Nat /\ Side * Side \in Nat
    <3>1. Side \in Nat
      BY <1>m, RootUp DEF Side
    <3> QED
      BY <3>1
  <2>1. CASE Cipher!Encrypt
    <3>1. text' = Cipher!Encryption(text) /\ under' = <<text>> \o under /\ calls' = calls + 1
      BY <2>1 DEF Cipher!Encrypt
    <3>2. text' \in Text /\ Len(text') <= Side * Side
      <4>1. /\ Cipher!Encryption(text) \in Text
            /\ Len(Cipher!Encryption(text)) = Cipher!EncryptionRows(Len(text)) * Cipher!CeilSqrt(Len(text))
        BY <2>0, Encrypted
      <4>2. Cipher!EncryptionRows(Len(text)) * Cipher!CeilSqrt(Len(text)) <= Side * Side
        BY <1>m, <2>0, SideOf
      <4> QED
        BY <3>1, <4>1, <4>2
    <3>3. under' \in Seq(Text) /\ Len(under') = Len(under) + 1
      <4>1. <<text>> \in Seq(Text) /\ Len(<<text>>) = 1
        BY <2>0
      <4> QED
        BY <2>0, <3>1, <4>1
    <3>4. calls' \in Nat /\ Len(under') <= calls'
      BY <2>0, <3>1, <3>3
    <3> QED
      BY <3>2, <3>3, <3>4 DEF CipherIInv
  <2>2. CASE Cipher!Decrypt
    <3>1. under # <<>> /\ text' = Cipher!Decryption(text) /\ under' = Tail(under) /\ calls' = calls
      BY <2>2 DEF Cipher!Decrypt
    <3>2. text' \in Text /\ Len(text') <= Side * Side
      <4>1. /\ Cipher!Decryption(text) \in Text
            /\ Len(Cipher!Decryption(text)) <= Cipher!FloorSqrt(Len(text)) * Cipher!CeilSqrt(Len(text))
        BY <2>0, Decrypted
      <4>2. Cipher!FloorSqrt(Len(text)) * Cipher!CeilSqrt(Len(text)) <= Side * Side
        BY <1>m, <2>0, SideOf
      <4>3. Cipher!FloorSqrt(Len(text)) * Cipher!CeilSqrt(Len(text)) \in Nat
        <5>1. Cipher!FloorSqrt(Len(text)) \in Nat /\ Cipher!CeilSqrt(Len(text)) \in Nat
          BY <2>0, Roots, RootUp
        <5> QED
          BY <5>1
      <4>4. Len(Cipher!Decryption(text)) \in Nat
        BY <4>1 DEF Text
      <4>5. Len(Cipher!Decryption(text)) <= Side * Side
        BY <2>s, <4>1, <4>2, <4>3, <4>4
      <4> QED
        BY <3>1, <4>1, <4>5
    <3>3. under' \in Seq(Text) /\ Len(under') = Len(under) - 1
      BY <2>0, <3>1
    <3>4. calls' \in Nat /\ Len(under') <= calls'
      BY <2>0, <3>1, <3>3
    <3> QED
      BY <3>2, <3>3, <3>4 DEF CipherIInv
  <2>3. CASE UNCHANGED cipherVars
    BY <2>3 DEF CipherIInv, cipherVars, Side
  <2> QED
    BY <2>1, <2>2, <2>3 DEF Cipher!Next
<1> QED
  BY <1>1, <1>2, PartStep, PTL DEF Spec

LEMMA CipherHolds == CipherIInv => Cipher!TypeOK
<1> SUFFICES ASSUME CipherIInv PROVE Cipher!TypeOK
  OBVIOUS
<1>1. text \in Text /\ Len(text) <= Side * Side /\ Len(under) <= calls
  BY DEF CipherIInv
<1>2. Cipher!ToSet(text) \subseteq Letters \cup {None}
  <2>1. Cipher!ToSet(text) = {text[i] : i \in DOMAIN text}
    BY DEF Cipher!ToSet
  <2>2. \A i \in DOMAIN text : text[i] \in Letters \cup {None}
    BY <1>1 DEF Text
  <2> QED
    BY <2>1, <2>2
<1> QED
  BY <1>1, <1>2 DEF Cipher!TypeOK, Side

-----------------------------------------------------------------------------
(* Encryption and decryption. *)

\* The text of what encryption made, as decryption reads it: the letters in their
\* order, and blanks up to the end of the grid.
LEMMA FromOne ==
  ASSUME NEW n \in Nat
  PROVE  Cardinality(1 .. n) = n
BY FS_Interval

LEMMA Padded ==
  ASSUME NEW s \in Text
  PROVE  LET m == Cipher!EncryptionRows(Len(s)) * Cipher!CeilSqrt(Len(s))
         IN /\ m \in Nat /\ Len(s) <= m
            /\ ReadBack(Cipher!Encryption(s)) = [k \in 1 .. m |-> IF k <= Len(s) THEN s[k] ELSE None]
<1> DEFINE n == Len(s)
           a == Cipher!EncryptionRows(n)
           b == Cipher!CeilSqrt(n)
           e == Cipher!Encryption(s)
           F == Cipher!Filled(a * b)
           A == Cipher!Ascending(F)
<1>1. n \in Nat
  BY DEF Text
<1>2. a \in Nat /\ b \in Nat /\ a * b \in Nat /\ n <= a * b
  BY <1>1, Grid
<1>3. Cipher!FloorSqrt(a * b) = a /\ Cipher!CeilSqrt(a * b) = b
  BY <1>1, Grid
<1>4. Len(e) = a * b
  BY Encrypted
<1>5. \A k \in 1 .. (a * b) :
        e[k] = IF ((k - 1) % a) * b + (k - 1) \div a < n
               THEN s[((k - 1) % a) * b + (k - 1) \div a + 1] ELSE None
  BY Encrypted
<1>6. \A k : Cipher!Place(a * b, k) = ((k - 1) % b) * a + (k - 1) \div b + 1
  BY <1>3 DEF Cipher!Place
<1>7. F = {k \in 1 .. (a * b) : Cipher!Place(a * b, k) <= a * b}
  BY <1>3 DEF Cipher!Filled
<1> HIDE DEF n, a, b, e, F
<1>8. ASSUME NEW k \in 1 .. (a * b)
      PROVE  /\ Cipher!Place(a * b, k) \in 1 .. (a * b)
             /\ e[Cipher!Place(a * b, k)] = IF k <= n THEN s[k] ELSE None
  <2> DEFINE i == (k - 1) \div b
             j == (k - 1) % b
  <2>1. i \in 0 .. (a - 1) /\ j \in 0 .. (b - 1) /\ k - 1 = i * b + j
    BY <1>2, RowColumn
  <2>2. Cipher!Place(a * b, k) = j * a + i + 1
    BY <1>6
  <2> HIDE DEF i, j
  <2>3. j * a + i + 1 \in 1 .. (a * b)
    BY <1>2, <2>1, CellOf
  <2>4. i \in Nat /\ j \in Nat /\ j * a \in Nat /\ i * b \in Nat
    <3>1. i \in Nat /\ j \in Nat
      BY <2>1
    <3> QED
      BY <1>2, <3>1
  <2>5. (j * a + i + 1) - 1 = j * a + i
    BY <2>4
  <2>6. (j * a + i) % a = i /\ (j * a + i) \div a = j
    BY <1>2, <2>1, <2>4, CellBack
  <2>7. e[j * a + i + 1] = IF i * b + j < n THEN s[i * b + j + 1] ELSE None
    BY <1>5, <2>3, <2>5, <2>6
  <2>8. i * b + j + 1 = k /\ (i * b + j < n <=> k <= n)
    BY <1>1, <2>1, <2>4
  <2> QED
    BY <2>2, <2>3, <2>7, <2>8
<1>9. F = 1 .. (a * b)
  <2>1. \A k \in 1 .. (a * b) : Cipher!Place(a * b, k) <= a * b
    BY <1>2, <1>8
  <2> QED
    BY <1>7, <2>1
<1>10. Cardinality(F) = a * b
  BY <1>2, <1>9, FromOne
<1>11. \A k \in 1 .. (a * b) : A[k] = k
  BY <1>2, <1>9, AscendsAll
<1>12. ReadBack(e) = [k \in 1 .. Cardinality(F) |-> e[Cipher!Place(a * b, A[k])]]
  BY <1>4 DEF ReadBack, F
<1> HIDE DEF A
<1>13. ReadBack(e) = [k \in 1 .. (a * b) |-> e[Cipher!Place(a * b, A[k])]]
  BY <1>10, <1>12
<1>14. ReadBack(e) = [k \in 1 .. (a * b) |-> IF k <= n THEN s[k] ELSE None]
  <2>1. \A k \in 1 .. (a * b) : e[Cipher!Place(a * b, A[k])] = IF k <= n THEN s[k] ELSE None
    BY <1>8, <1>11
  <2> QED
    BY <1>13, <2>1
<1> QED
  BY <1>2, <1>14 DEF n, a, b, e

\* String.trim of a text with blanks behind it.
LEMMA TrimPadded ==
  ASSUME NEW S, NEW s \in Seq(S), NEW blank, NEW m \in Nat, Len(s) <= m
  PROVE  Trimmed([k \in 1 .. m |-> IF k <= Len(s) THEN s[k] ELSE blank], blank) = Trimmed(s, blank)
<1> DEFINE n == Len(s)
           t == [k \in 1 .. m |-> IF k <= n THEN s[k] ELSE blank]
           T == SolidOf(s, blank)
<1>1. n \in Nat /\ DOMAIN s = 1 .. n /\ n <= m
  OBVIOUS
<1>2. DOMAIN t = 1 .. m /\ \A k \in 1 .. m : t[k] = IF k <= n THEN s[k] ELSE blank
  OBVIOUS
<1> HIDE DEF n, t
<1>3. T = SolidOf(t, blank)
  BY <1>1, <1>2 DEF SolidOf
<1>4. T \in SUBSET (1 .. n)
  BY <1>1 DEF SolidOf
<1>5. CASE T = {}
  BY <1>3, <1>5 DEF Trimmed, t, n
<1>6. CASE T # {}
  <2> DEFINE p == LeastOf(T)
             q == MostOf(T)
  <2>1. p \in 1 .. n /\ q \in 1 .. n /\ p <= q
    <3>1. LeastOf(T) \in T /\ MostOf(T) \in T /\ LeastOf(T) <= MostOf(T)
      BY <1>1, <1>4, <1>6, EndsOf
    <3> QED
      BY <1>4, <3>1
  <2>2. Trimmed(s, blank) = SubSeq(s, p, q)
    BY <1>6 DEF Trimmed
  <2>3. Trimmed(t, blank) = SubSeq(t, p, q)
    BY <1>3, <1>6 DEF Trimmed
  <2> HIDE DEF p, q
  <2>4. SubSeq(s, p, q) = [k \in 1 .. (q - p + 1) |-> s[p + k - 1]]
    BY <1>1, <2>1 DEF SubSeq
  <2>5. SubSeq(t, p, q) = [k \in 1 .. (q - p + 1) |-> t[p + k - 1]]
    BY <1>1, <2>1 DEF SubSeq
  <2>6. ASSUME NEW k \in 1 .. (q - p + 1) PROVE t[p + k - 1] = s[p + k - 1]
    <3>1. p + k - 1 \in 1 .. m /\ p + k - 1 <= n
      BY <1>1, <2>1
    <3> QED
      BY <1>2, <3>1
  <2>7. SubSeq(t, p, q) = SubSeq(s, p, q)
    BY <2>4, <2>5, <2>6
  <2> QED
    BY <2>2, <2>3, <2>7 DEF t, n
<1> QED
  BY <1>5, <1>6

LEMMA ThereAndBack ==
  ASSUME NEW s \in Text
  PROVE  Cipher!Decryption(Cipher!Encryption(s)) = Cipher!Trim(s)
<1> DEFINE m == Cipher!EncryptionRows(Len(s)) * Cipher!CeilSqrt(Len(s))
           e == Cipher!Encryption(s)
<1>1. e \in Text
  BY Encrypted
<1>2. m \in Nat /\ Len(s) <= m /\ ReadBack(e) = [k \in 1 .. m |-> IF k <= Len(s) THEN s[k] ELSE None]
  BY Padded
<1> HIDE DEF e, m
<1>3. Cipher!Decryption(e) = Trimmed(ReadBack(e), None)
  BY <1>1, Decrypted
<1>4. Trimmed(ReadBack(e), None) = Trimmed(s, None)
  BY <1>2, TrimPadded DEF Text
<1>5. Cipher!Trim(s) = Trimmed(s, None)
  BY DEF Cipher!Trim, Cipher!Solid, Trimmed, SolidOf, LeastOf, MostOf
<1> QED
  BY <1>3, <1>4, <1>5 DEF e

\* EncryptionDecryption, texts of every length over every alphabet: decrypting what
\* encryption made gives the text back, without the blanks around it.
THEOREM DecryptedBack == Spec => Cipher!RoundTrip
<1>1. CipherIInv /\ [Next]_vars =>
        [Cipher!Decrypt /\ text = Cipher!Encryption(Head(under)) => text' = Cipher!Trim(Head(under))]_cipherVars
  <2> SUFFICES ASSUME CipherIInv, Cipher!Decrypt, text = Cipher!Encryption(Head(under))
               PROVE  text' = Cipher!Trim(Head(under))
    OBVIOUS
  <2>1. under # <<>> /\ text' = Cipher!Decryption(text)
    BY DEF Cipher!Decrypt
  <2>2. under \in Seq(Text)
    BY DEF CipherIInv
  <2>3. Head(under) \in Text
    BY <2>1, <2>2
  <2> QED
    BY <2>1, <2>3, ThereAndBack
<1> QED
  BY <1>1, CipherTyped, PTL DEF Spec, Cipher!RoundTrip, cipherVars, Cipher!vars

-----------------------------------------------------------------------------
(* Letters that decryption loses. *)

\* A set that others reach through a function has no more elements than they.
LEMMA Reached ==
  ASSUME NEW S, NEW T, IsFiniteSet(T), NEW f, \A y \in S : \E x \in T : f[x] = y
  PROVE  IsFiniteSet(S) /\ Cardinality(S) <= Cardinality(T) /\ Cardinality(S) \in Nat /\ Cardinality(T) \in Nat
<1> DEFINE R == {x \in T : f[x] \in S}
           g == [x \in R |-> f[x]]
<1>1. IsFiniteSet(R) /\ Cardinality(R) <= Cardinality(T)
  <2>1. R \subseteq T
    OBVIOUS
  <2> QED
    BY <2>1, FS_Subset
<1>2. g \in Surjection(R, S)
  BY DEF Surjection
<1>3. IsFiniteSet(S) /\ Cardinality(S) <= Cardinality(R)
  BY <1>1, <1>2, FS_Surjection
<1>4. Cardinality(S) \in Nat /\ Cardinality(R) \in Nat /\ Cardinality(T) \in Nat
  BY <1>1, <1>3, FS_CardinalityType
<1> HIDE DEF R, g
<1> QED
  BY <1>1, <1>3, <1>4

LEMMA SolidFinite ==
  ASSUME NEW S, NEW s \in Seq(S), NEW blank
  PROVE  IsFiniteSet(SolidOf(s, blank)) /\ SolidOf(s, blank) \in SUBSET (1 .. Len(s))
<1>1. SolidOf(s, blank) \in SUBSET (1 .. Len(s)) /\ Len(s) \in Nat
  BY DEF SolidOf
<1>2. IsFiniteSet(1 .. Len(s))
  BY <1>1, FS_Interval
<1> QED
  BY <1>1, <1>2, FS_Subset

\* Every number of a set is found at its rank.
LEMMA Ranked ==
  ASSUME NEW n \in Nat, NEW T \in SUBSET (1 .. n), NEW k \in T
  PROVE  \E j \in 1 .. Cardinality(T) : Cipher!Ascending(T)[j] = k
<1> DEFINE rank(x) == Cardinality(UpTo(T, x))
<1>1. IsFiniteSet(T) /\ Cardinality(T) \in Nat
  BY Ascends
<1>2. \A x : UpTo(T, x) \subseteq T
  BY DEF UpTo
<1>3. \A x : IsFiniteSet(UpTo(T, x)) /\ rank(x) \in Nat /\ rank(x) <= Cardinality(T)
  BY <1>1, <1>2, FS_Subset, FS_CardinalityType
<1>4. \A m \in T : m \in Nat /\ 1 <= m /\ m <= n
  OBVIOUS
<1>5. ASSUME NEW x \in T, NEW y \in T, x < y PROVE rank(x) < rank(y)
  <2>1. UpTo(T, x) \subseteq UpTo(T, y)
    <3>1. \A m \in T : m <= x => m <= y
      BY <1>4, <1>5
    <3> QED
      BY <3>1 DEF UpTo
  <2>2. y \in UpTo(T, y) /\ y \notin UpTo(T, x)
    <3>1. y <= y /\ ~ (y <= x)
      BY <1>4, <1>5
    <3> QED
      BY <3>1 DEF UpTo
  <2>3. UpTo(T, x) \cup {y} \subseteq UpTo(T, y)
    BY <2>1, <2>2
  <2>4. /\ Cardinality(UpTo(T, x) \cup {y}) = rank(x) + 1
        /\ Cardinality(UpTo(T, x) \cup {y}) <= rank(y)
    <3>1. Cardinality(UpTo(T, x) \cup {y}) = rank(x) + 1
      BY <1>3, <2>2, FS_AddElement
    <3>2. Cardinality(UpTo(T, x) \cup {y}) <= rank(y)
      BY <1>3, <2>3, FS_Subset
    <3> QED
      BY <3>1, <3>2
  <2>5. rank(x) \in Nat /\ rank(y) \in Nat
    BY <1>3
  <2> HIDE DEF rank
  <2> QED
    BY <2>4, <2>5
<1>6. ASSUME NEW x \in T, rank(x) = rank(k) PROVE x = k
  <2>1. ~ (x < k) /\ ~ (k < x)
    <3>1. rank(x) \in Nat /\ rank(k) \in Nat
      BY <1>3
    <3> HIDE DEF rank
    <3> QED
      BY <1>5, <1>6, <3>1
  <2> QED
    BY <1>4, <2>1
<1>7. rank(k) \in 1 .. Cardinality(T)
  <2>1. k \in UpTo(T, k)
    <3>1. k <= k
      BY <1>4
    <3> QED
      BY <3>1 DEF UpTo
  <2>2. rank(k) # 0
    BY <1>3, <2>1, FS_EmptySet
  <2>3. rank(k) \in Nat /\ rank(k) <= Cardinality(T)
    BY <1>3
  <2> HIDE DEF rank
  <2> QED
    BY <1>1, <2>2, <2>3
<1>8. Cipher!Ascending(T) = [j \in 1 .. Cardinality(T) |-> CHOOSE x \in T : rank(x) = j]
  BY AscendingIs
<1> HIDE DEF rank
<1>9. Cipher!Ascending(T)[rank(k)] = CHOOSE x \in T : rank(x) = rank(k)
  BY <1>7, <1>8
<1>10. Cipher!Ascending(T)[rank(k)] = k
  BY <1>6, <1>9
<1> QED
  BY <1>7, <1>10

\* When the grid is large enough, every letter is in a cell of it.
LEMMA CellFor ==
  ASSUME NEW n \in Nat, n <= Cipher!FloorSqrt(n) * Cipher!CeilSqrt(n), NEW m \in 1 .. n
  PROVE  \E k \in Cipher!Filled(n) : Cipher!Place(n, k) = m
<1> DEFINE f == Cipher!FloorSqrt(n)
           c == Cipher!CeilSqrt(n)
           j == (m - 1) \div f
           i == (m - 1) % f
           k == i * c + j + 1
<1>1. f \in Nat /\ c \in Nat /\ f * c \in Nat /\ c * f = f * c /\ n <= f * c
  <2>1. f \in Nat /\ c \in Nat
    BY Roots, RootUp
  <2>2. n <= f * c
    OBVIOUS
  <2> HIDE DEF f, c
  <2> QED
    BY <2>1, <2>2
<1>2. Cipher!Place(n, k) = ((k - 1) % c) * f + (k - 1) \div c + 1
  BY DEF Cipher!Place
<1>3. Cipher!Filled(n) = {x \in 1 .. (f * c) : Cipher!Place(n, x) <= n}
  BY DEF Cipher!Filled
<1> HIDE DEF f, c
<1>4. j \in 0 .. (c - 1) /\ i \in 0 .. (f - 1) /\ m - 1 = j * f + i
  <2>1. m \in 1 .. (c * f)
    BY <1>1
  <2> QED
    BY <1>1, <2>1, RowColumn
<1> HIDE DEF i, j
<1>5. i * c + j + 1 \in 1 .. (c * f)
  BY <1>1, <1>4, CellOf
<1>6. i \in Nat /\ j \in Nat /\ i * c \in Nat /\ j * f \in Nat
  <2>1. i \in Nat /\ j \in Nat
    BY <1>4
  <2> QED
    BY <1>1, <2>1
<1>7. (i * c + j) % c = j /\ (i * c + j) \div c = i /\ k - 1 = i * c + j
  <2>1. (i * c + j) % c = j /\ (i * c + j) \div c = i
    BY <1>1, <1>4, <1>6, CellBack
  <2>2. k - 1 = i * c + j
    BY <1>6
  <2> QED
    BY <2>1, <2>2
<1>8. Cipher!Place(n, k) = j * f + i + 1
  BY <1>2, <1>7
<1>9. Cipher!Place(n, k) = m /\ m <= n
  BY <1>4, <1>6, <1>8
<1>10. k \in 1 .. (f * c)
  BY <1>1, <1>5
<1> HIDE DEF k
<1>11. k \in Cipher!Filled(n)
  BY <1>3, <1>9, <1>10
<1> QED
  BY <1>9, <1>11

\* Trimming loses no letter.
LEMMA TrimKeeps ==
  ASSUME NEW S, NEW s \in Seq(S), NEW blank
  PROVE  Cardinality(SolidOf(s, blank)) <= Cardinality(SolidOf(Trimmed(s, blank), blank))
<1> DEFINE T == SolidOf(s, blank)
           t == Trimmed(s, blank)
<1>1. IsFiniteSet(T) /\ T \in SUBSET (1 .. Len(s)) /\ Len(s) \in Nat
  BY SolidFinite
<1>2. t \in Seq(S) /\ IsFiniteSet(SolidOf(t, blank))
  BY TrimmedTypes, SolidFinite
<1>3. CASE T = {}
  <2>1. Cardinality(T) = 0
    BY <1>3, FS_EmptySet
  <2>2. Cardinality(SolidOf(t, blank)) \in Nat
    BY <1>2, FS_CardinalityType
  <2> HIDE DEF T, t
  <2>3. Cardinality(T) <= Cardinality(SolidOf(t, blank))
    BY <2>1, <2>2
  <2> QED
    BY <2>3 DEF T, t
<1>4. CASE T # {}
  <2> DEFINE p == LeastOf(T)
             q == MostOf(T)
             h == [x \in 1 .. (q - p + 1) |-> p + x - 1]
  <2>1. p \in T /\ q \in T /\ \A y \in T : p <= y /\ y <= q
    BY <1>1, <1>4, EndsOf
  <2>2. t = SubSeq(s, p, q)
    BY <1>4 DEF Trimmed
  <2> HIDE DEF p, q, T, t
  <2>3. p \in 1 .. Len(s) /\ q \in 1 .. Len(s)
    BY <1>1, <2>1
  <2>4. p <= q
    BY <2>1
  <2>5. t = [x \in 1 .. (q - p + 1) |-> s[p + x - 1]]
    BY <1>1, <2>2, <2>3, <2>4 DEF SubSeq
  <2>6. ASSUME NEW y \in T PROVE \E x \in SolidOf(t, blank) : h[x] = y
    <3>1. p <= y /\ y <= q /\ y \in Nat /\ p \in Nat /\ q \in Nat
      BY <1>1, <2>1, <2>3
    <3>2. y - p + 1 \in 1 .. (q - p + 1) /\ p + (y - p + 1) - 1 = y
      BY <3>1
    <3>3. t[y - p + 1] = s[y] /\ h[y - p + 1] = y /\ DOMAIN t = 1 .. (q - p + 1)
      BY <2>5, <3>2
    <3>4. s[y] # blank
      BY DEF T, SolidOf
    <3>5. y - p + 1 \in SolidOf(t, blank)
      BY <3>2, <3>3, <3>4 DEF SolidOf
    <3> QED
      BY <3>3, <3>5
  <2> HIDE DEF h
  <2>7. Cardinality(T) <= Cardinality(SolidOf(t, blank))
    BY <1>2, <2>6, Reached
  <2> QED
    BY <2>7 DEF T, t
<1> QED
  BY <1>3, <1>4

\* A text whose length fits a grid keeps its letters when it is decrypted.
LEMMA LettersKept ==
  ASSUME NEW e \in Text, Len(e) <= Cipher!FloorSqrt(Len(e)) * Cipher!CeilSqrt(Len(e))
  PROVE  /\ Cardinality(SolidOf(e, None)) <= Cardinality(SolidOf(Cipher!Decryption(e), None))
         /\ Cardinality(SolidOf(e, None)) \in Nat
         /\ Cardinality(SolidOf(Cipher!Decryption(e), None)) \in Nat
<1> DEFINE n == Len(e)
           F == Cipher!Filled(n)
           A == Cipher!Ascending(F)
           r == ReadBack(e)
           h == [j \in 1 .. Cardinality(F) |-> Cipher!Place(n, A[j])]
<1>1. n \in Nat /\ DOMAIN e = 1 .. n /\ e \in Seq(Letters \cup {None})
  BY DEF Text
<1>2. r \in Text /\ Cipher!Decryption(e) = Trimmed(r, None) /\ Cipher!Decryption(e) \in Text
  BY Decrypted
<1>3. F \in SUBSET (1 .. (Cipher!FloorSqrt(n) * Cipher!CeilSqrt(n)))
      /\ Cipher!FloorSqrt(n) * Cipher!CeilSqrt(n) \in Nat
  <2>1. F \in SUBSET (1 .. (Cipher!FloorSqrt(n) * Cipher!CeilSqrt(n)))
    BY DEF Cipher!Filled
  <2>2. Cipher!FloorSqrt(n) \in Nat /\ Cipher!CeilSqrt(n) \in Nat
    BY <1>1, Roots, RootUp
  <2> HIDE DEF F, n
  <2> QED
    BY <2>1, <2>2
<1>4. r = [j \in 1 .. Cardinality(F) |-> e[Cipher!Place(n, A[j])]]
  BY DEF ReadBack
<1>5. ASSUME NEW m \in SolidOf(e, None) PROVE \E j \in SolidOf(r, None) : h[j] = m
  <2>1. m \in 1 .. n /\ e[m] # None
    BY <1>1 DEF SolidOf
  <2>2. PICK k \in F : Cipher!Place(n, k) = m
    BY <1>1, <2>1, CellFor
  <2> HIDE DEF F, r, n
  <2>3. PICK j \in 1 .. Cardinality(F) : A[j] = k
    BY <1>3, <2>2, Ranked
  <2> HIDE DEF A
  <2>4. h[j] = m /\ DOMAIN r = 1 .. Cardinality(F) /\ r[j] = e[m]
    BY <1>4, <2>2, <2>3
  <2>5. j \in SolidOf(r, None)
    BY <2>1, <2>4 DEF SolidOf
  <2> QED
    BY <2>4, <2>5
<1> HIDE DEF h, r
<1>6. IsFiniteSet(SolidOf(r, None))
  BY <1>2, SolidFinite DEF Text
<1>7. /\ Cardinality(SolidOf(e, None)) <= Cardinality(SolidOf(r, None))
      /\ Cardinality(SolidOf(e, None)) \in Nat /\ Cardinality(SolidOf(r, None)) \in Nat
  BY <1>5, <1>6, Reached
<1>8. Cardinality(SolidOf(r, None)) <= Cardinality(SolidOf(Cipher!Decryption(e), None))
  BY <1>2, TrimKeeps DEF Text
<1>9. Cardinality(SolidOf(Cipher!Decryption(e), None)) \in Nat
  BY <1>2, SolidFinite, FS_CardinalityType DEF Text
<1> QED
  BY <1>7, <1>8, <1>9

\* EncryptionDecryption: decryption loses letters only of a text whose length fits
\* no grid, which encryption never makes.
THEOREM LettersLost == Spec => Cipher!LossExplained
<1>1. CipherIInv /\ [Next]_vars =>
        [Cipher!Decrypt /\ Cipher!Cardinality(Cipher!Solid(text')) < Cipher!Cardinality(Cipher!Solid(text))
           => Cipher!FloorSqrt(Len(text)) * Cipher!CeilSqrt(Len(text)) < Len(text)
              /\ text # Cipher!Encryption(Head(under))]_cipherVars
  <2> SUFFICES ASSUME CipherIInv, Cipher!Decrypt,
                      Cipher!Cardinality(Cipher!Solid(text')) < Cipher!Cardinality(Cipher!Solid(text))
               PROVE  /\ Cipher!FloorSqrt(Len(text)) * Cipher!CeilSqrt(Len(text)) < Len(text)
                      /\ text # Cipher!Encryption(Head(under))
    OBVIOUS
  <2>1. under # <<>> /\ text' = Cipher!Decryption(text)
    BY DEF Cipher!Decrypt
  <2>2. under \in Seq(Text) /\ text \in Text /\ Len(text) \in Nat
    BY DEF CipherIInv, Text
  <2>3. \A s : Cipher!Solid(s) = SolidOf(s, None)
    BY DEF Cipher!Solid, SolidOf
  <2>c. \A V : Cipher!Cardinality(V) = Cardinality(V)
    BY DEF Cipher!Cardinality, Cardinality
  <2>4. Cipher!FloorSqrt(Len(text)) * Cipher!CeilSqrt(Len(text)) \in Nat
    <3>1. Cipher!FloorSqrt(Len(text)) \in Nat /\ Cipher!CeilSqrt(Len(text)) \in Nat
      BY <2>2, Roots, RootUp
    <3> QED
      BY <3>1
  <2>5. Cipher!FloorSqrt(Len(text)) * Cipher!CeilSqrt(Len(text)) < Len(text)
    <3> SUFFICES ASSUME ~ (Cipher!FloorSqrt(Len(text)) * Cipher!CeilSqrt(Len(text)) < Len(text)) PROVE FALSE
      OBVIOUS
    <3>1. Len(text) <= Cipher!FloorSqrt(Len(text)) * Cipher!CeilSqrt(Len(text))
      BY <2>2, <2>4
    <3>2. /\ Cardinality(SolidOf(text, None)) <= Cardinality(SolidOf(text', None))
          /\ Cardinality(SolidOf(text, None)) \in Nat /\ Cardinality(SolidOf(text', None)) \in Nat
      BY <2>1, <2>2, <3>1, LettersKept
    <3>3. Cardinality(SolidOf(text', None)) < Cardinality(SolidOf(text, None))
      BY <2>3, <2>c
    <3> QED
      BY ONLY <3>2, <3>3
  <2>6. text # Cipher!Encryption(Head(under))
    <3> SUFFICES ASSUME text = Cipher!Encryption(Head(under)) PROVE FALSE
      OBVIOUS
    <3>1. Head(under) \in Text /\ Len(Head(under)) \in Nat
      BY <2>1, <2>2 DEF Text
    <3>2. Len(text) = Cipher!EncryptionRows(Len(Head(under))) * Cipher!CeilSqrt(Len(Head(under)))
      BY <3>1, Encrypted
    <3>3. Cipher!FloorSqrt(Len(text)) * Cipher!CeilSqrt(Len(text)) = Len(text)
      BY <3>1, <3>2, Grid
    <3> QED
      BY <2>2, <2>5, <3>3
  <2> QED
    BY <2>5, <2>6
<1> QED
  BY <1>1, CipherTyped, PTL DEF Spec, Cipher!LossExplained, cipherVars, Cipher!vars

-----------------------------------------------------------------------------
(* The types of all parts together. *)

AllParts == {"error", "raw", "page", "cipher", "hash", "push", "log", "socket"}

PartIInv == part \in AllParts

LEMMA PartTyped == Spec => []PartIInv
<1>1. Init => PartIInv
  BY DEF Init, AllParts, PartIInv
<1>2. PartIInv /\ [Next]_vars => PartIInv'
  BY PartStep DEF PartIInv
<1> QED
  BY <1>1, <1>2, PTL DEF Spec

LEMMA SocketHolds ==
  ASSUME SocketIInv
  PROVE  Socket!TypeOK
<1>1. \A s \in Sockets : backendId[s] \in Nat /\ backendId[s] <= drawn
  BY DEF SocketIInv, SocketTypes
<1>2. backendId \in [Sockets -> Nat] /\ drawn \in Nat
  BY DEF SocketIInv, SocketTypes
<1>3. backendId \in [Sockets -> 0 .. drawn]
  BY <1>1, <1>2
<1> QED
  BY <1>3 DEF SocketIInv, SocketTypes, Socket!TypeOK

LEMMA ErrorHolds ==
  ASSUME CommonAssumption, ErrorIInv
  PROVE  Error!TypeOK
<1>1. CASE answer = Absent
  BY <1>1 DEF ErrorIInv, Error!TypeOK
<1>2. CASE answer # Absent
  BY <1>2, OneStatusHolds
<1> QED
  BY <1>1, <1>2

\* Every component of common/ keeps to its types: statuses of answers, requests to
\* Gmail and its mailboxes, pages and their totals, the length of encrypted texts,
\* the range of a hash, slots of push tokens, printed lines and socket adaptors.
THEOREM TypeCorrect == Spec => []TypeOK
<1>1. /\ CommonAssumption /\ PartIInv /\ ErrorIInv /\ RawIInv /\ PageIInv /\ CipherIInv
      /\ HashIInv /\ PushIInv /\ LogIInv /\ SocketIInv
      => TypeOK
  <2> SUFFICES ASSUME CommonAssumption, PartIInv, ErrorIInv, RawIInv, PageIInv, CipherIInv,
                      HashIInv, PushIInv, LogIInv, SocketIInv
               PROVE  TypeOK
    OBVIOUS
  <2>1. /\ Error!TypeOK /\ Raw!TypeOK /\ Page!TypeOK /\ Cipher!TypeOK
        /\ Hash!TypeOK /\ Push!TypeOK /\ Log!TypeOK /\ Socket!TypeOK
    BY ErrorHolds, RawHolds, PageHolds, CipherHolds, HashHolds, PushHolds, LogHolds, SocketHolds
  <2> QED
    BY <2>1 DEF TypeOK, AllParts, PartIInv
<1> QED
  BY <1>1, CommonAssumption, PartTyped, ErrorTyped, RawTyped, PageTyped, CipherTyped, HashTyped,
     PushTyped, LogTyped, SocketTyped, PTL
=============================================================================
