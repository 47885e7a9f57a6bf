------------------------------ MODULE MCService -----------------------------
(***************************************************************************)
(* Instances of the four components of the service process: its start,     *)
(* the requests it serves, the mails it sends and the handler chains it    *)
(* runs.  They share no variable, so that one behaviour follows one of     *)
(* them, its part, and the others stay as they begin.                      *)
(***************************************************************************)
EXTENDS Naturals, Sequences, TLC

CONSTANTS Absent, None, Clients, MaxTries, Customers, Calls, Handlers, MaxVisits,
          MaxRequestFaults, MaxFaults \* bounds: failures among the requests, and elsewhere

VARIABLES
  part,
  request, pc, outcome, answer, tries, done, heard, unheard, asked, reqFaults,  \* RequestPipeline
  real, dot, file, env, envFile, appName, variables, step, handlers, installed,
  serving, ended, bootFaults,                                                    \* Bootstrap
  verified, call, outbox, mailFaults,                                            \* Mailer
  next, visited, running, rejoined, overflow                                     \* HandlerChain

-----------------------------------------------------------------------------
(* The sources of the configuration. *)

Razorpay    == {"RAZORPAY_API_KEY_ID", "RAZORPAY_API_KEY_SECRET"}
Cashfree    == {"CASHFREE_APP_ID", "CASHFREE_APP_SECRET"}
Unset       == [k \in Razorpay \cup Cashfree |-> Absent]
Only(keys, v) == [k \in keys |-> v] @@ Unset

Source(mode, name, port, credentials) ==
  [NODE_ENV |-> mode, SERVICE_NAME |-> name, SERVICE_PORT |-> port] @@ credentials

\* Credentials of none, one or both of the gateways, one of them empty; a mode with
\* a file of its own, one without and none; a port that is no number.
Reals == {Source(mode, name, Absent, credentials) :
            mode \in {Absent, "production", "test"}, name \in {Absent, "real"},
            credentials \in {Unset, Only(Razorpay, "real"), Only(Razorpay \cup Cashfree, "real"),
                             Only({"CASHFREE_APP_SECRET"}, "")}}
Dots  == {Source(mode, name, port, credentials) :
            mode \in {Absent, "staging"}, name \in {Absent, "dot"}, port \in {Absent, "4800", "junk"},
            credentials \in {Unset, Only(Cashfree, "dot")}}
Files == {Source(Absent, name, port, credentials) :
            name \in {Absent, "file"}, port \in {Absent, "4900"},
            credentials \in {Unset, Only(Razorpay, "file")}}
NoSource == Source(Absent, Absent, Absent, Unset)

-----------------------------------------------------------------------------
(* The payments mails are about. *)

Payment(gateway, order, id, email, name, time, rupees) ==
  [gateway |-> gateway, order |-> order, id |-> id, email |-> email, name |-> name,
   time |-> time, rupees |-> rupees]

\* Two payments of each gateway, one by a customer without a name; two of the
\* same customer.
Payments ==
  {Payment("cashfree", "c1", "cp1", "ann", "Ann", "t1", 10),
   Payment("cashfree", "c2", "cp2", "bob", Absent, "t2", 50),
   Payment("razorpay", "r1", "rp1", "ann", Absent, "t1", 10),
   Payment("razorpay", "r2", "rp2", "eve", Absent, "t3", 100)}

-----------------------------------------------------------------------------
Pipeline == INSTANCE RequestPipeline WITH faults <- reqFaults, MaxFaults <- MaxRequestFaults
Boot     == INSTANCE Bootstrap WITH faults <- bootFaults
Mail     == INSTANCE Mailer WITH faults <- mailFaults, Missing <- Absent
Chain    == INSTANCE HandlerChain

ASSUME ServiceAssumption ==
  /\ Pipeline!PipelineAssumption /\ Boot!BootAssumption
  /\ Mail!MailerAssumption /\ Chain!ChainAssumption

requestVars == <<request, pc, outcome, answer, tries, done, heard, unheard, asked, reqFaults>>
startVars   == <<real, dot, file, env, envFile, appName, variables, step, handlers, installed,
                 serving, ended, bootFaults>>
mailVars    == <<verified, call, outbox, mailFaults>>
chainVars   == <<next, visited, running, rejoined, overflow>>
vars == <<part, requestVars, startVars, mailVars, chainVars>>

Init ==
  /\ part \in {"requests", "start", "mail", "chain"}
  /\ part = "requests" \/ request = [c \in Clients |-> CHOOSE r \in Pipeline!Requests : TRUE]
  /\ part = "start" \/ (real = NoSource /\ dot = NoSource /\ file = NoSource)
  /\ Pipeline!Init /\ Boot!Init /\ Mail!Init /\ Chain!Init

Next ==
  /\ UNCHANGED part
  /\ \/ part = "requests" /\ Pipeline!Next /\ UNCHANGED <<startVars, mailVars, chainVars>>
     \/ part = "start" /\ Boot!Next /\ UNCHANGED <<requestVars, mailVars, chainVars>>
     \/ part = "mail" /\ Mail!Next /\ UNCHANGED <<requestVars, startVars, chainVars>>
     \/ part = "chain" /\ Chain!Next /\ UNCHANGED <<requestVars, startVars, mailVars>>

\* What is asked of the scheduler: that the transport of the mails ends every dialogue
\* it began, and that a call of a handler is run.
Fairness ==
  /\ \A c \in Calls : WF_mailVars(part = "mail" /\ (Mail!Taken(c) \/ Mail!Answer(c) \/ Mail!Fails(c)))
  /\ WF_chainVars(part = "chain" /\ Chain!Pass)
  /\ WF_chainVars(part = "chain" /\ Chain!Return)

Spec == Init /\ [][Next]_vars /\ Fairness

-----------------------------------------------------------------------------
TypeOK ==
  CASE part = "requests" -> Pipeline!TypeOK
    [] part = "start"    -> Boot!TypeOK
    [] part = "mail"     -> Mail!TypeOK
    [] part = "chain"    -> Chain!TypeOK

\* RequestPipeline: effects a client was not told of are those whose answer got lost,
\* only checked bodies make the service ask a gateway, and the status tells whose
\* turn it is.
RequestsAccounted ==
  Pipeline!EffectsExplained /\ Pipeline!OnlyCheckedAsked /\ Pipeline!StatusExplained

\* Bootstrap: requests are taken by a whole service only, a failed start reported as
\* a success failed after addProcessTitle, and nothing uncaught ends a service that
\* serves.
StartAccounted == [](Boot!ServedWhole /\ Boot!QuietEndExplained) /\ Boot!ServingSurvives

\* Mailer: mails under way at once do not mix, their answers are right up to
\* failures, and names alone are ever left undefined.
MailsAccounted == Mail!OnePaymentPerMail /\ Mail!AnswersAccounted /\ Mail!OnlyNamesMissing

\* HandlerChain: a chain loses its end only by being joined to itself, no handler
\* gets an event twice before that, and nothing is taken out of a chain.
ChainsAccounted ==
  [](Chain!EndlessOnlyByRejoining /\ Chain!HandledOnce) /\ Chain!NothingUnlinked

\* What was begun returns: every mail is reported on, whatever became of the check of
\* the connection, and every execution of a chain that has an end.
WorkReturns == Mail!CallsReturn /\ Chain!ExecutionsEnd
=============================================================================
