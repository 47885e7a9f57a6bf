--------------------------- MODULE GoogleCalendar ---------------------------
(***************************************************************************)
(* GoogleCalendarProvider (common/gcp/calendar/calendar-provider.ts): one  *)
(* provider object serves the calls of every user.  A call binds a client  *)
(* to its refresh token, overwrites the shared field `calendar' with it,   *)
(* sends a request and awaits the answer; removeAttendee sends two, the    *)
(* second built from the answer to the first.                              *)
(*                                                                         *)
(* Google is the environment: it carries a request out for the account of  *)
(* the token it came with, replaces the whole list when a patch names the  *)
(* attendees (what removeAttendee relies on), and refuses requests about   *)
(* an event that does not exist.  An event without attendees is answered   *)
(* without the field.                                                      *)
(***************************************************************************)
EXTENDS Naturals, FiniteSets

CONSTANTS Tokens,     \* refresh tokens, one per Google account
          Events,     \* event ids an account may come to use
          People,     \* e-mail addresses of attendees
          Calls,      \* calls of the provider, each made at most once
          None,       \* no token, no event
          MaxFaults   \* bound: answers that get lost

CalendarAssumption == None \notin Tokens \cup Events /\ MaxFaults \in Nat

VARIABLES
  calendar,  \* this.calendar: the token its client is bound to
  call,      \* call -> the method called and its arguments
  bound,     \* call -> token of the client the call sends its requests with
  pc,        \* call -> where it is suspended, or how it ended
  verb,      \* call -> the request it awaits the answer of
  body,      \* call -> attendees that request names
  read,      \* call -> attendees the answered `get' of a removal listed
  store,     \* account -> event -> its attendees and reminders, Unused or Deleted
  served,    \* call -> accounts its requests were carried out for
  written,   \* call -> changes Google made for it
  missed,    \* call -> people who joined or left the event since its `get'
  broken,    \* calls that lost an answer
  faults

google == <<store, served, written, missed, broken, faults>>
vars   == <<calendar, call, bound, pc, verb, body, read, google>>

Unused   == [state |-> "unused"]
Deleted  == [state |-> "deleted"]
Event(people, reminder) == [state |-> "live", attendees |-> people, reminder |-> reminder]
AnyEvent == [state : {"live"}, attendees : SUBSET People, reminder : {"default", "popup"}]
NoCall   == [op |-> "none", token |-> None, event |-> None, people |-> {}]

Init ==
  /\ calendar = None
  /\ call = [c \in Calls |-> NoCall]
  /\ bound = [c \in Calls |-> None]
  /\ pc = [c \in Calls |-> "idle"]
  /\ verb = [c \in Calls |-> "none"]
  /\ body = [c \in Calls |-> {}] /\ read = body /\ missed = body /\ served = body
  /\ store \in [Tokens -> [Events -> {Unused} \cup {Event(s, "default") : s \in SUBSET People}]]
  /\ written = [c \in Calls |-> 0]
  /\ broken = {}
  /\ faults = 0

-----------------------------------------------------------------------------
(* The provider.  Every method binds a client and sends its first request   *)
(* in one piece; the methods differ in the request.                         *)

\* Variant: the shared field is left as it is.
GetResourceKept(c, token) ==
  /\ UNCHANGED calendar
  /\ bound' = [bound EXCEPT ![c] = token]

\* getResource: the call keeps the resource it is given, bound to its own
\* token, whatever the shared field holds later.
GetResource(c, token) ==
  /\ calendar' = token
  /\ bound' = [bound EXCEPT ![c] = token]

\* Variant: the resource is taken from the shared field.
ClientShared(c) == calendar

\* The token a request of c is made with.
Client(c) == bound[c]

Send(c, v, people) ==
  /\ pc' = [pc EXCEPT ![c] = "sent"]
  /\ verb' = [verb EXCEPT ![c] = v]
  /\ body' = [body EXCEPT ![c] = people]

Method(c, op, t, e, people, v) ==
  /\ pc[c] = "idle"
  /\ call' = [call EXCEPT ![c] = [op |-> op, token |-> t, event |-> e, people |-> people]]
  /\ GetResource(c, t)
  /\ Send(c, v, people)
  /\ UNCHANGED <<read, google>>

ListEvents(c, t)            == Method(c, "listEvents", t, None, {}, "list")
CreateEvent(c, t, people)   == Method(c, "createEvent", t, None, people, "insert")
UpdateEvent(c, t, e, people) == Method(c, "updateEvent", t, e, people, "update")
DeleteEvent(c, t, e)        == Method(c, "deleteEvent", t, e, {}, "delete")
GetEvent(c, t, e)           == Method(c, "getEvent", t, e, {}, "get")
ListCalendars(c, t)         == Method(c, "listCalendars", t, None, {}, "list")
AddReminder(c, t, e)        == Method(c, "addReminder", t, e, {}, "patchReminders")
GetFreeBusyInfo(c, t)       == Method(c, "getFreeBusyInfo", t, None, {}, "list")
AddAttendee(c, t, e, p)     == Method(c, "addAttendee", t, e, {p}, "patchAttendees")
RemoveAttendee(c, t, e, p)  == Method(c, "removeAttendee", t, e, {p}, "get")

\* removeAttendee awaits its `get'; the patch is still to come.
Reading(c) == call[c].op = "removeAttendee" /\ verb[c] = "get"

\* The request of c was answered, and the method returns what it holds.
Return(c) ==
  /\ pc[c] = "answered"
  /\ ~Reading(c)
  /\ pc' = [pc EXCEPT ![c] = "returned"]
  /\ UNCHANGED <<calendar, call, bound, verb, body, read, google>>

\* Variant: the filter keeps the attendee to be removed instead.
RemainingInverted(c) == read[c] \cap call[c].people

\* event.data.attendees.filter(attendee => attendee.email !== attendeeEmail)
Remaining(c) == read[c] \ call[c].people

\* removeAttendee, after its `get': the list it read, less one, is sent back.
PatchRemaining(c) ==
  /\ pc[c] = "answered"
  /\ Reading(c)
  /\ read[c] # {}
  /\ Send(c, "patchAttendees", Remaining(c))
  /\ UNCHANGED <<calendar, call, bound, read, google>>

\* "No attendees found for the event."
NoAttendees(c) ==
  /\ pc[c] = "answered"
  /\ Reading(c)
  /\ read[c] = {}
  /\ pc' = [pc EXCEPT ![c] = "thrown"]
  /\ UNCHANGED <<calendar, call, bound, verb, body, read, google>>

\* Variant: the error is logged and not thrown again.
ThrowSwallowed(c) == pc' = [pc EXCEPT ![c] = "returned"]

\* Every method logs the error and throws it again.
Throw(c) == pc' = [pc EXCEPT ![c] = "thrown"]

-----------------------------------------------------------------------------
(* Google. *)

Live(t, e) == e \in Events /\ store[t][e].state = "live"

\* What the request of c makes of event e, for a request that changes one.
Changed(c, e) ==
  CASE verb[c] \in {"insert", "update"} -> Event(body[c], "default")
    [] verb[c] = "delete"               -> Deleted
    [] verb[c] = "patchReminders"       -> [store[Client(c)][e] EXCEPT !.reminder = "popup"]
    [] verb[c] = "patchAttendees"       -> [store[Client(c)][e] EXCEPT !.attendees = body[c]]

Attending(ev) == IF ev.state = "live" THEN ev.attendees ELSE {}
Differ(s, r)  == (s \ r) \cup (r \ s)

Serve(c) ==
  /\ pc[c] = "sent"
  /\ pc' = [pc EXCEPT ![c] = "served"]
  /\ served' = [served EXCEPT ![c] = @ \cup {Client(c)}]
  /\ UNCHANGED <<calendar, call, bound, verb, body, broken, faults>>

\* A request that changes event e of the account it is made for.
Write(c, e) ==
  LET t == Client(c) IN
  /\ verb[c] \notin {"list", "get"}
  /\ IF verb[c] = "insert" THEN store[t][e] = Unused ELSE e = call[c].event /\ Live(t, e)
  /\ Serve(c)
  /\ store' = [store EXCEPT ![t][e] = Changed(c, e)]
  /\ written' = [written EXCEPT ![c] = @ + 1]
  /\ missed' = [d \in Calls |->
       IF call[d].token = t /\ call[d].event = e
       THEN missed[d] \cup Differ(Attending(store[t][e]), Attending(Changed(c, e)))
       ELSE missed[d]]
  /\ UNCHANGED read

List(c) ==
  /\ verb[c] = "list"
  /\ Serve(c)
  /\ UNCHANGED <<read, store, written, missed>>

Get(c) ==
  /\ verb[c] = "get"
  /\ Live(Client(c), call[c].event)
  /\ Serve(c)
  /\ read' = [read EXCEPT ![c] = store[Client(c)][call[c].event].attendees]
  /\ missed' = [missed EXCEPT ![c] = {}]
  /\ UNCHANGED <<store, written>>

Answer(c) ==
  /\ pc[c] = "served"
  /\ pc' = [pc EXCEPT ![c] = "answered"]
  /\ UNCHANGED <<calendar, call, bound, verb, body, read, google>>

\* The event the request is about does not exist.
Refuse(c) ==
  /\ pc[c] = "sent"
  /\ call[c].event # None
  /\ ~Live(Client(c), call[c].event)
  /\ Throw(c)
  /\ UNCHANGED <<calendar, call, bound, verb, body, read, google>>

\* The request or its answer is lost.
Break(c) ==
  /\ pc[c] \in {"sent", "served"}
  /\ faults < MaxFaults
  /\ faults' = faults + 1
  /\ broken' = broken \cup {c}
  /\ Throw(c)
  /\ UNCHANGED <<calendar, call, bound, verb, body, read, store, served, written, missed>>

-----------------------------------------------------------------------------
Query(c) ==
  \E t \in Tokens :
    \/ ListEvents(c, t) \/ ListCalendars(c, t) \/ GetFreeBusyInfo(c, t)
    \/ \E e \in Events : GetEvent(c, t, e)

Edit(c) ==
  \E t \in Tokens :
    \/ \E people \in SUBSET People : CreateEvent(c, t, people)
    \/ \E e \in Events :
         \/ DeleteEvent(c, t, e) \/ AddReminder(c, t, e)
         \/ \E people \in SUBSET People : UpdateEvent(c, t, e, people)
         \/ \E p \in People : AddAttendee(c, t, e, p) \/ RemoveAttendee(c, t, e, p)

Next ==
  \E c \in Calls :
    \/ Query(c) \/ Edit(c)
    \/ PatchRemaining(c) \/ NoAttendees(c) \/ Return(c)
    \/ (\E e \in Events : Write(c, e)) \/ List(c) \/ Get(c)
    \/ Answer(c) \/ Refuse(c) \/ Break(c)

Spec == Init /\ [][Next]_vars

-----------------------------------------------------------------------------
Writes  == {"createEvent", "updateEvent", "deleteEvent", "addReminder",
            "addAttendee", "removeAttendee"}
Queries == {"listEvents", "getEvent", "listCalendars", "getFreeBusyInfo"}

TypeOK ==
  /\ calendar \in Tokens \cup {None}
  /\ calendar = None <=> \A c \in Calls : pc[c] = "idle"
  /\ call \in [Calls -> [op : Writes \cup Queries \cup {"none"}, token : Tokens \cup {None},
                         event : Events \cup {None}, people : SUBSET People]]
  /\ bound \in [Calls -> Tokens \cup {None}]
  /\ pc \in [Calls -> {"idle", "sent", "served", "answered", "returned", "thrown"}]
  /\ verb \in [Calls -> {"none", "list", "get", "insert", "update", "delete",
                         "patchReminders", "patchAttendees"}]
  /\ body \in [Calls -> SUBSET People]
  /\ read \in [Calls -> SUBSET People]
  /\ store \in [Tokens -> [Events -> {Unused, Deleted} \cup AnyEvent]]
  /\ served \in [Calls -> SUBSET Tokens]
  /\ written \in [Calls -> Nat]
  /\ missed \in [Calls -> SUBSET People]
  /\ broken \in SUBSET Calls
  /\ faults \in Nat

\* Although every call overwrites the client the provider object holds, no
\* request of a call, first or second, is carried out for another account than
\* the one whose refresh token it was called with (getResource).
OwnAccountOnly == \A c \in Calls : served[c] \subseteq {call[c].token}

\* A method that returns has made its change exactly once; one that throws has
\* made none, unless an answer was lost on the way (the catch of each method).
AnswersTellTheTruth ==
  \A c \in Calls :
    /\ pc[c] = "returned" => written[c] = IF call[c].op \in Writes THEN 1 ELSE 0
    /\ pc[c] = "thrown" /\ c \notin broken => written[c] = 0

\* c makes its change now, to event e of account t.
WritesNow(c, t, e) ==
  pc[c] = "sent" /\ pc'[c] = "served" /\ written'[c] # written[c] /\ store'[t][e] # store[t][e]

\* A removal changes the attendance of nobody it was not asked to remove,
\* except of those whose own attendance changed while it was between its `get'
\* and its patch (removeAttendee sends back the list it read).
RemovalUndoesOverlappingOnly ==
  [][\A c \in Calls, t \in Tokens, e \in Events :
       WritesNow(c, t, e) /\ call[c].op = "removeAttendee"
       => Differ(Attending(store[t][e]), Attending(store'[t][e]))
            \subseteq call[c].people \cup missed[c]]_vars
=============================================================================
