----------------------------- MODULE GoogleMail -----------------------------
(***************************************************************************)
(* GoogleMailProvider (common/gcp/mail/mail-provider.ts): one provider     *)
(* object serves the mailboxes of every user, one request per call.  Every *)
(* call overwrites the shared field `gmail' with a client bound to its own *)
(* refresh token and awaits the answer of that client; sendMessage builds  *)
(* the MIME text first (RawEmail).                                         *)
(*                                                                         *)
(* Gmail is the environment.  It refuses a single request about a message  *)
(* that is not there, while a batch passes over such messages.             *)
(***************************************************************************)
EXTENDS RawEmail, Naturals, FiniteSets

CONSTANTS Tokens,     \* refresh tokens, one per mailbox
          Messages,   \* ids of messages
          Labels,     \* labels of messages
          Emails,     \* e-mails sendMessage is called with
          Calls,      \* calls of the provider, each made at most once
          None,       \* no token
          MaxFaults   \* bound: answers that get lost

MailAssumption ==
  /\ None \notin Tokens /\ Absent \notin Emails
  /\ IsFiniteSet(Calls)
  /\ MaxFaults \in Nat

VARIABLES
  gmail,    \* this.gmail: the token its client is bound to
  call,     \* call -> the request it makes
  pc,       \* call -> where it is suspended, or how it ended
  mailbox,  \* mailbox -> message -> its labels and text, or Absent
  outbox,   \* mailbox -> texts it sent, in order
  served,   \* call -> mailboxes its request was carried out for
  broken,   \* calls that lost their answer
  faults

vars == <<gmail, call, pc, mailbox, outbox, served, broken, faults>>

NoCall == [verb |-> "none", token |-> None, ids |-> {}, add |-> {}, remove |-> {}, email |-> Absent]

Init ==
  /\ gmail = None
  /\ call = [c \in Calls |-> NoCall]
  /\ pc = [c \in Calls |-> "idle"]
  /\ mailbox \in [Tokens -> [Messages -> {Absent, {}, Labels}]]
  /\ outbox = [t \in Tokens |-> <<>>]
  /\ served = [c \in Calls |-> {}]
  /\ broken = {}
  /\ faults = 0

-----------------------------------------------------------------------------
(* The provider: each method sends one request of its own kind. *)

\* Variant: the field is left as it is.
GetUserResourceKept(c, t) == pc[c] = "idle" /\ UNCHANGED gmail

\* getResource gives the call a client of its own and leaves it in the field.
GetUserResource(c, t) == pc[c] = "idle" /\ gmail' = t

Request(c, r) ==
  /\ GetUserResource(c, r.token)
  /\ call' = [call EXCEPT ![c] = r]
  /\ pc' = [pc EXCEPT ![c] = "sent"]
  /\ UNCHANGED <<mailbox, outbox, served, broken, faults>>

Modify(v, t, ids, add, remove) ==
  [verb |-> v, token |-> t, ids |-> ids, add |-> add, remove |-> remove, email |-> Absent]
About(v, t, ids) == Modify(v, t, ids, {}, {})
Mail(t, email) ==
  [verb |-> "send", token |-> t, ids |-> {}, add |-> {}, remove |-> {}, email |-> email]

\* The labels asked for go with the request; the default is INBOX and UNREAD.
ListMessages(c, t, labels) == Request(c, Modify("list", t, {}, labels, {}))
GetMessage(c, t, id)       == Request(c, About("get", t, {id}))
DeleteMessage(c, t, id)    == Request(c, About("delete", t, {id}))
UpdateLabels(c, t, id, add, remove) == Request(c, Modify("modify", t, {id}, add, remove))
BatchDeleteMessages(c, t, ids)      == Request(c, About("batchDelete", t, ids))
BatchModifyMessages(c, t, ids, add, remove) ==
  Request(c, Modify("batchModify", t, ids, add, remove))

\* Variant: the text is created without looking at what is missing.
SendMessageUnchecked(c, t, email) ==
  Request(c, Mail(t, email))

\* createRawEmail runs after the client is made and before anything is sent.
SendMessage(c, t, email) ==
  /\ Complete(email)
  /\ Request(c, Mail(t, email))

\* "Error creating raw email"
SendMessageFails(c, t, email) ==
  /\ ~Complete(email)
  /\ GetUserResource(c, t)
  /\ call' = [call EXCEPT ![c] = Mail(t, email)]
  /\ pc' = [pc EXCEPT ![c] = "thrown"]
  /\ UNCHANGED <<mailbox, outbox, served, broken, faults>>

\* Variant: the client is taken from the field when the request is carried out.
ClientShared(c) == gmail

\* The mailbox the request of c goes to.
Client(c) == call[c].token

\* The answer arrives and the method returns what it holds, [] for no message.
Return(c) ==
  /\ pc[c] = "served"
  /\ pc' = [pc EXCEPT ![c] = "returned"]
  /\ UNCHANGED <<gmail, call, mailbox, outbox, served, broken, faults>>

\* Variant: the error is logged only.
ThrowSwallowed(c) == pc' = [pc EXCEPT ![c] = "returned"]

\* Every method logs the error and throws it again.
Throw(c) == pc' = [pc EXCEPT ![c] = "thrown"]

-----------------------------------------------------------------------------
(* Gmail. *)

Existing(t) == {id \in Messages : mailbox[t][id] # Absent}
Single == {"get", "delete", "modify"}

\* The mailbox of t once the request r is carried out.
After(r, t) ==
  LET hit == r.ids \cap Existing(t)
  IN [id \in Messages |->
        CASE id \in hit /\ r.verb \in {"delete", "batchDelete"} -> Absent
          [] id \in hit /\ r.verb \in {"modify", "batchModify"} ->
               (mailbox[t][id] \cup r.add) \ r.remove
          [] OTHER -> mailbox[t][id]]

Serve(c) ==
  LET r == call[c]
      t == Client(c)
  IN /\ pc[c] = "sent"
     /\ r.verb \in Single => r.ids \subseteq Existing(t)
     /\ pc' = [pc EXCEPT ![c] = "served"]
     /\ served' = [served EXCEPT ![c] = @ \cup {t}]
     /\ mailbox' = [mailbox EXCEPT ![t] = After(r, t)]
     /\ outbox' = IF r.verb = "send"
                  THEN [outbox EXCEPT ![t] = Append(@, CreateRawEmail(r.email))] ELSE outbox
     /\ UNCHANGED <<gmail, call, broken, faults>>

Refuse(c) ==
  /\ pc[c] = "sent"
  /\ call[c].verb \in Single
  /\ ~(call[c].ids \subseteq Existing(Client(c)))
  /\ Throw(c)
  /\ UNCHANGED <<gmail, call, mailbox, outbox, served, broken, faults>>

\* The request or its answer is lost.
Break(c) ==
  /\ pc[c] \in {"sent", "served"}
  /\ faults < MaxFaults
  /\ faults' = faults + 1
  /\ broken' = broken \cup {c}
  /\ Throw(c)
  /\ UNCHANGED <<gmail, call, mailbox, outbox, served>>

-----------------------------------------------------------------------------
Invoke(c) ==
  \E t \in Tokens, ids \in SUBSET Messages, add \in {{}, Labels}, remove \in {{}, Labels} :
    \/ remove = {} /\ ids = {} /\ ListMessages(c, t, add)
    \/ add = {} /\ remove = {} /\ BatchDeleteMessages(c, t, ids)
    \/ BatchModifyMessages(c, t, ids, add, remove)
    \/ \E id \in ids :
         \/ UpdateLabels(c, t, id, add, remove)
         \/ add = {} /\ remove = {} /\ (GetMessage(c, t, id) \/ DeleteMessage(c, t, id))

Send(c) == \E t \in Tokens, email \in Emails :
             SendMessage(c, t, email) \/ SendMessageFails(c, t, email)

Next == \E c \in Calls : Invoke(c) \/ Send(c) \/ Return(c) \/ Serve(c) \/ Refuse(c) \/ Break(c)

Spec == Init /\ [][Next]_vars

-----------------------------------------------------------------------------
Verbs == Single \cup {"none", "list", "batchDelete", "batchModify", "send"}

TypeOK ==
  /\ gmail \in Tokens \cup {None}
  /\ gmail = None <=> \A c \in Calls : pc[c] = "idle"
  /\ call \in [Calls -> [verb : Verbs, token : Tokens \cup {None}, ids : SUBSET Messages,
                         add : SUBSET Labels, remove : SUBSET Labels, email : Emails \cup {Absent}]]
  /\ pc \in [Calls -> {"idle", "sent", "served", "returned", "thrown"}]
  /\ mailbox \in [Tokens -> [Messages -> {Absent} \cup SUBSET Labels]]
  /\ \A t \in Tokens : Len(outbox[t]) <= Cardinality(Calls)
  /\ served \in [Calls -> SUBSET Tokens]
  /\ broken \in SUBSET Calls
  /\ faults \in Nat

Senders(t) == {c \in Calls : call[c].verb = "send" /\ call[c].token = t}

\* No mailbox is read, changed or sent from for a call made with the refresh
\* token of another one, although every call overwrites the shared client
\* (getResource, and the methods that use what it returned).
OwnMailboxOnly == \A c \in Calls : served[c] \subseteq {call[c].token}

\* What arrives is what was sent: a reader of a sent text finds the addressees
\* and the subject given, every part given, in order, and one empty part at the
\* end, unless a line of the content is itself a boundary (createRawEmail).
SentArrivesWhole ==
  \A t \in Tokens : \A i \in DOMAIN outbox[t] :
    \E c \in Senders(t) :
      /\ HeadersRead(outbox[t][i]) = Headers(call[c].email)
      /\ Unmarked(call[c].email) =>
           PartsRead(outbox[t][i]) = Append(Parts(call[c].email), <<>>)

\* A mail that lacks its sender, its recipients or the content of an attachment
\* is sent by nobody: the call throws, and no part of the mail leaves.
IncompleteNeverSent ==
  \A c \in Calls :
    call[c].verb = "send" /\ ~Complete(call[c].email) => pc[c] = "thrown" /\ served[c] = {}

\* A method that returns had its request carried out, for every message it
\* names if it names a single one; one that throws had not, unless an answer
\* was lost.  Mails leave once per call that was served.
AnswersTellTheTruth ==
  /\ \A c \in Calls :
       /\ pc[c] = "returned" => served[c] # {}
       /\ pc[c] = "thrown" /\ c \notin broken => served[c] = {}
  /\ \A t \in Tokens : Len(outbox[t]) = Cardinality({c \in Senders(t) : served[c] # {}})
=============================================================================
