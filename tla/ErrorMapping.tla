---------------------------- MODULE ErrorMapping ----------------------------
(***************************************************************************)
(* The helpers of HttpAnswers, one after the other: an error is thrown, a  *)
(* helper maps it or lets it pass, the filter answers.                     *)
(***************************************************************************)
EXTENDS HttpAnswers, FiniteSets

CONSTANT Mappings \* lists of mappings handleSpecificErrors is called with

Statuses == {400, 403, 404, 409, 412, 500, 502}

Known == {BadRequest, BadGateway, NotFound, DuplicateRecord, UserNotFound, PlainError, Thrown("Value", 0)}

\* undefined is no error, and a mapping names a class and a status of an error.
ErrorAssumption ==
  /\ Absent \notin Known \cup Upstream \cup {Thrown("HttpException", s) : s \in Statuses}
  /\ \A m \in Mappings : m \in Seq([errorType : Classes, status : Statuses])

VARIABLES thrown, \* what was thrown in the first place
          by,     \* the helper it went through: "", or its name
          maps,   \* the mappings handleSpecificErrors was called with
          error,  \* what is thrown now, or Absent for a result
          answer  \* what the client gets, or Absent

vars == <<thrown, by, maps, error, answer>>

Init ==
  /\ thrown \in Known \cup Upstream
  /\ by = "" /\ maps = <<>> /\ error = thrown /\ answer = Absent

Helped(name, with, result) ==
  /\ by = "" /\ answer = Absent
  /\ by' = name /\ maps' = with /\ error' = result
  /\ UNCHANGED <<thrown, answer>>

Throw  == thrown \in Upstream /\ Helped("throw", <<>>, HttpExceptionThrower(thrown))
Handle == Helped("handleException", <<>>, HandleException(thrown))
Map(m) == Helped("handleSpecificErrors", m, HandleSpecificErrors(thrown, m))

Answer ==
  /\ answer = Absent
  /\ answer' = IF error = Absent THEN Transform("AppController", 201) ELSE Catch(error)
  /\ UNCHANGED <<thrown, by, maps, error>>

Next == Throw \/ Handle \/ (\E m \in Mappings : Map(m)) \/ Answer

Spec == Init /\ [][Next]_vars

-----------------------------------------------------------------------------
TypeOK ==
  /\ thrown \in Known \cup Upstream
  /\ answer # Absent => answer.http \in Statuses \cup {201}

\* Whatever was thrown and whatever helper it went through, the client reads one
\* status: the one of the response and the one in the envelope agree, and the
\* envelope says SUCCESS only of a value that is no error and was handled.
OneStatus ==
  answer # Absent =>
    /\ answer.http = answer.body.code
    /\ answer.body.status = "SUCCESS" <=> answer.http < 400
    /\ answer.http < 400 => by = "handleException" /\ thrown.class = "Value"

\* A status the upstream service gave reaches the client, the one in the data
\* before the one of the response; 500 means that it gave none, or no data.
UpstreamPassedOn ==
  answer # Absent /\ by = "throw" =>
    LET r == thrown.response
        Given == {r.status} \cup (IF r.data = Absent THEN {} ELSE {r.data.statusCode})
    IN \/ answer.http = 500 /\ (r = Absent \/ r.data = Absent \/ Given = {Absent})
       \/ answer.http \in Given /\ (r.data.statusCode # Absent => answer.http = r.data.statusCode)

\* A class listed before its ancestors keeps its own status; one listed behind
\* loses it.
MostSpecificFirst ==
  answer # Absent /\ by = "handleSpecificErrors" =>
    \A i \in DOMAIN maps :
      maps[i].errorType = thrown.class
      /\ (\A j \in 1..(i - 1) : maps[j].errorType \notin Ancestors[thrown.class])
        => answer.http = maps[i].status
=============================================================================
