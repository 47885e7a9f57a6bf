------------------------------ MODULE MCCommon ------------------------------
(***************************************************************************)
(* Instances of the components of common/ that everything else is built    *)
(* on: the error helpers, the text of raw e-mails, pages of lists, the     *)
(* cipher, the hash, push tokens, log lines and socket adaptors.  They     *)
(* share no variable, so that one behaviour follows one of them, its part, *)
(* and the others stay as they begin.                                      *)
(***************************************************************************)
EXTENDS Integers, Sequences, TLC

CONSTANTS Absent, None,
          Items, Firsts, Limits, MaxEdits,            \* Pagination
          Letters, MaxText, MaxCalls,                 \* TranspositionCipher
          Codes, Half, MaxString,                     \* StringHash
          PushTokenNames, MaxElements,                \* PushTokens
          MaxParams,                                  \* LogLines
          Sockets, Holders, Names, MaxDrawn           \* SocketConnections

VARIABLES
  part,
  thrown, by, maps, error, answer,                                             \* ErrorMapping
  gmail, call, pc, mailbox, outbox, served, broken, faults,                    \* GoogleMail
  collection, ask, response, reading, pages, added, removed, gone,             \* Pagination
  text, under, calls,                                                          \* TranspositionCipher
  string, at, index, hash,                                                     \* StringHash
  list, read, group,                                                           \* PushTokens
  logCall, formatted, param, line,                                             \* LogLines
  sharedServer, live, seen, backendId, authorized, drawn, adaptor, last        \* SocketConnections

-----------------------------------------------------------------------------
(* Arguments of handleSpecificErrors, and e-mails. *)

Mapping(type, status) == [errorType |-> type, status |-> status]

\* Lists with a class before and behind its ancestors, and the empty list.
AllMappings ==
  {<<>>,
   <<Mapping("NotFoundException", 404), Mapping("HttpException", 502)>>,
   <<Mapping("HttpException", 502), Mapping("NotFoundException", 404)>>,
   <<Mapping("DuplicateRecordException", 409), Mapping("Error", 403), Mapping("HttpException", 502)>>}

Attachment(data) == [filename |-> "a.pdf", data |-> data]

\* Every field present or missing, attachments with and without data, and a
\* text that is a boundary line.
AllEmails ==
  {[from |-> from, to |-> to, cc |-> cc, bcc |-> bcc, subject |-> subject, text |-> content,
    html |-> html, attachments |-> attachments] :
     from \in {Absent, "me"}, to \in {Absent, <<>>, <<"a", "b">>},
     cc \in {Absent, <<>>, <<"c">>}, bcc \in {Absent, <<"d">>}, subject \in {Absent, "s"},
     content \in {Absent, <<"text">>, <<"--boundary">>}, html \in {Absent, <<"html">>},
     attachments \in {Absent, <<>>, <<Attachment(<<"data">>)>>,
                      <<Attachment(<<"data">>), Attachment(Absent)>>,
                      <<Attachment(<<"data">>), Attachment(<<"more">>)>>}}

-----------------------------------------------------------------------------
Error  == INSTANCE ErrorMapping WITH Mappings <- AllMappings
Raw    == INSTANCE GoogleMail WITH
  Tokens <- {"me"}, Messages <- {"m"}, Labels <- {"INBOX"}, Emails <- AllEmails, Calls <- {"call"},
  MaxFaults <- 0
Page   == INSTANCE Pagination WITH Initial <- <<1, 2, 3, 4, 5>>, Missing <- Absent
Cipher == INSTANCE TranspositionCipher WITH Blank <- None, MaxLength <- MaxText
Hash   == INSTANCE StringHash WITH Blank <- 32, MaxLength <- MaxString, pc <- at, i <- index
Push   == INSTANCE PushTokens WITH
  Tokens <- PushTokenNames, Empty <- "empty", MaxLength <- MaxElements, i <- read
Log    == INSTANCE LogLines WITH call <- logCall, i <- formatted
Socket == INSTANCE SocketConnections

ASSUME CommonAssumption ==
  /\ Error!ErrorAssumption /\ Raw!MailAssumption /\ Page!PaginationAssumption /\ Cipher!CipherAssumption
  /\ Hash!HashAssumption /\ Push!TokensAssumption /\ Log!LogAssumption /\ Socket!SocketAssumption

errorVars  == <<thrown, by, maps, error, answer>>
rawVars    == <<gmail, call, pc, mailbox, outbox, served, broken, faults>>
pageVars   == <<collection, ask, response, reading, pages, added, removed, gone>>
cipherVars == <<text, under, calls>>
hashVars   == <<string, at, index, hash>>
pushVars   == <<list, read, group>>
logVars    == <<logCall, formatted, param, line>>
socketVars == <<sharedServer, live, seen, backendId, authorized, drawn, adaptor, last>>
vars == <<part, errorVars, rawVars, pageVars, cipherVars, hashVars, pushVars, logVars, socketVars>>

Init ==
  /\ part \in {"error", "raw", "page", "cipher", "hash", "push", "log", "socket"}
  /\ part = "error" \/ thrown = CHOOSE e \in Error!Known : TRUE
  /\ part = "raw" \/ mailbox = [t \in {"me"} |-> [m \in {"m"} |-> Absent]]
  /\ part = "page" \/ ask = [page |-> 1, limit |-> 1, order |-> "ASC"]
  /\ part = "cipher" \/ text = <<>>
  /\ part = "hash" \/ string = <<>>
  /\ part = "push" \/ list = <<Push!Nothing>>
  /\ part = "log" \/ logCall = [level |-> "log", context |-> "Falsy", message |-> "Text",
                                trace |-> "Falsy", params |-> <<>>]
  /\ Error!Init /\ Raw!Init /\ Page!Init /\ Cipher!Init /\ Hash!Init /\ Push!Init /\ Log!Init
  /\ Socket!Init

Rest(p, state) == IF part = p THEN TRUE ELSE UNCHANGED state

Next ==
  /\ UNCHANGED part
  /\ \/ part = "error"   /\ Error!Next
     \/ part = "raw"     /\ Raw!Next
     \/ part = "page"    /\ Page!Next
     \/ part = "cipher"  /\ Cipher!Next
     \/ part = "hash"    /\ Hash!Next
     \/ part = "push"    /\ Push!Next
     \/ part = "log"     /\ Log!Next
     \/ part = "socket"  /\ Socket!Next
  /\ Rest("error", errorVars) /\ Rest("raw", rawVars) /\ Rest("page", pageVars)
  /\ Rest("cipher", cipherVars) /\ Rest("hash", hashVars) /\ Rest("push", pushVars)
  /\ Rest("log", logVars) /\ Rest("socket", socketVars)

Spec == Init /\ [][Next]_vars

\* Connections and holders are interchangeable.
Symmetry == Permutations(Sockets) \cup Permutations(Holders)

-----------------------------------------------------------------------------
TypeOK ==
  CASE part = "error"  -> Error!TypeOK
    [] part = "raw"    -> Raw!TypeOK
    [] part = "page"   -> Page!TypeOK
    [] part = "cipher" -> Cipher!TypeOK
    [] part = "hash"   -> Hash!TypeOK
    [] part = "push"   -> Push!TypeOK
    [] part = "log"    -> Log!TypeOK
    [] part = "socket" -> Socket!TypeOK

\* ErrorMapping: an answer has one status, the one of an upstream service is passed
\* on, and a class listed before its ancestors keeps its own.
StatusKept == Error!OneStatus /\ Error!UpstreamPassedOn /\ Error!MostSpecificFirst

\* What the algorithms compute agrees with what they stand for: a MIME text is read
\* as the mail that was sent, logged parameters are read back, the hash is a
\* polynomial cut once, and decryption undoes encryption, up to blanks around the
\* text, and loses letters only of a text whose length fits no grid.
AlgorithmsAgree ==
  /\ [](Raw!SentArrivesWhole /\ Log!ParamsReadBack /\ Hash!IsPolynomial)
  /\ Cipher!RoundTrip /\ Cipher!LossExplained

\* Items missed or repeated by a reader of pages, push tokens and log lines are lost
\* for a cause: an edit before the page, a later token for the same slot, a value
\* that cannot be printed.  No slot holds a token that was not there.
LossesExplained ==
  /\ Page!MissesExplained /\ Page!RepeatsExplained
  /\ Push!LostTokensExplained /\ Push!NothingInvented
  /\ Log!LossExplained

\* SocketConnections: no two connections share a backend id, events of the default
\* name stay private, and the answer of a send agrees with whom it reached.
SocketsApart == Socket!BackendIdsDistinct /\ Socket!DefaultEventPrivate /\ Socket!AnswersMatchDelivery
=============================================================================
