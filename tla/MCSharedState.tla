--------------------------- MODULE MCSharedState ----------------------------
(***************************************************************************)
(* Instances of the four components whose calls overlap on state they      *)
(* share: the Google providers, and the repositories of entities and of    *)
(* sessions.  They have no variable in common, so that one behaviour       *)
(* follows one of them, its part, and the others stay as they begin.       *)
(***************************************************************************)
EXTENDS Naturals, Sequences, TLC

CONSTANTS Null, Absent, None, Tokens, Events, People, Messages, Labels, Calls,
          Kinds, Edits, Drawing, Clients, MaxIds,
          Addresses, Sessions, Callers, MaxUsers, MaxTokens, MaxFaults

VARIABLES
  part,
  calendar, call, bound, pc, verb, body, read, store, served, written, missed,
  broken, faults,                                                             \* GoogleCalendar
  gmail, mailCall, mailPc, mailbox, outbox, mailServed, mailBroken, mailFaults, \* GoogleMail
  kind, db, drawn, held, ended, from, set, fresh, stale, dated, dbFaults,      \* EntityStore
  users, tokens, issuedNo, step, args, issued, removed, unseen, rivals, misled,
  sessionFaults                                                               \* UserSessions

\* A mail that can be sent and one that lacks its sender.
Email(sender) ==
  [from |-> sender, to |-> <<"a">>, cc |-> Absent, bcc |-> Absent, subject |-> "s",
   text |-> <<"text">>, html |-> Absent, attachments |-> Absent]

Calendar == INSTANCE GoogleCalendar
Gmail    == INSTANCE GoogleMail WITH
  Emails <- {Email(Absent), Email("me")},
  call <- mailCall, pc <- mailPc, served <- mailServed, broken <- mailBroken, faults <- mailFaults
Entity   == INSTANCE EntityStore WITH Undefined <- Absent, faults <- dbFaults
Session  == INSTANCE UserSessions WITH
  Emails <- Addresses, drawn <- issuedNo, pc <- step, faults <- sessionFaults

ASSUME SharedStateAssumption ==
  /\ Calendar!CalendarAssumption /\ Gmail!MailAssumption /\ Entity!EntityAssumption
  /\ Session!SessionsAssumption

calendarVars == <<calendar, call, bound, pc, verb, body, read, store, served, written, missed,
                  broken, faults>>
gmailVars    == <<gmail, mailCall, mailPc, mailbox, outbox, mailServed, mailBroken, mailFaults>>
entityVars   == <<kind, db, drawn, held, ended, from, set, fresh, stale, dated, dbFaults>>
sessionVars  == <<users, tokens, issuedNo, step, args, issued, removed, unseen, rivals, misled,
                  sessionFaults>>
vars == <<part, calendarVars, gmailVars, entityVars, sessionVars>>

Init ==
  /\ part \in {"calendar", "gmail", "entity", "session"}
  /\ part = "calendar" \/ store = [t \in Tokens |-> [e \in Events |-> Calendar!Unused]]
  /\ part = "gmail" \/ mailbox = [t \in Tokens |-> [m \in Messages |-> Absent]]
  /\ part = "entity" \/ kind = CHOOSE k \in Kinds : TRUE
  /\ Calendar!Init /\ Gmail!Init /\ Entity!Init /\ Session!Init

Next ==
  /\ UNCHANGED part
  /\ \/ part = "calendar" /\ Calendar!Next
        /\ UNCHANGED <<gmailVars, entityVars, sessionVars>>
     \/ part = "gmail" /\ Gmail!Next
        /\ UNCHANGED <<calendarVars, entityVars, sessionVars>>
     \/ part = "entity" /\ Entity!Next
        /\ UNCHANGED <<calendarVars, gmailVars, sessionVars>>
     \/ part = "session" /\ Session!Next
        /\ UNCHANGED <<calendarVars, gmailVars, entityVars>>

Spec == Init /\ [][Next]_vars

\* Accounts, people, messages and callers are interchangeable.
Symmetry ==
  UNION {Permutations(s) : s \in {Tokens, People, Messages, Calls, Clients, Addresses,
                                  Sessions, Callers}}

-----------------------------------------------------------------------------
TypeOK ==
  CASE part = "calendar" -> Calendar!TypeOK
    [] part = "gmail"    -> Gmail!TypeOK
    [] part = "entity"   -> Entity!TypeOK
    [] part = "session"  -> Session!TypeOK

\* The Google providers: no request of a call reaches another account, whichever
\* calls overwrite the shared client meanwhile.
OwnAccountOnly == Calendar!OwnAccountOnly /\ Gmail!OwnMailboxOnly

\* The Google providers: returned and thrown mean done and not done, up to answers
\* that got lost, and no part of an incomplete mail leaves.
AnswersTellTheTruth ==
  Calendar!AnswersTellTheTruth /\ Gmail!AnswersTellTheTruth /\ Gmail!IncompleteNeverSent

\* Read, edit and write back, of attendees and of entities: a write undoes only
\* what was changed since the read; with the database up null and errors leave the
\* collection as it is and an error has one of two reasons; and the date of creation
\* is lost only to entities that create did not return.
WritesExplained ==
  /\ Calendar!RemovalUndoesOverlappingOnly
  /\ Entity!UpdateLosesOverlappingOnly
  /\ Entity!NullMeansUnchanged /\ Entity!ThrowsExplained /\ Entity!CreationDateKept

\* UserSessions: two users share an address only after two registrations at one
\* time or a failed lookup; the tokens of a session are those issued and not removed.
SessionsAccounted == Session!SharedAddressExplained /\ Session!TokensAccounted
=============================================================================
