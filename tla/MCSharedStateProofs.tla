------------------------ MODULE MCSharedStateProofs -------------------------
(***************************************************************************)
(* Proofs about the components whose calls overlap on shared state, for    *)
(* any number of calls, accounts, events, messages and people.  No step    *)
(* of one part touches the others, so that each part is argued about as if *)
(* it were alone.                                                          *)
(***************************************************************************)
EXTENDS MCSharedState, FiniteSets, FiniteSetTheorems, TLAPS

(* Every step is a step of each part or leaves that part alone.            *)
LEMMA PartStep ==
  ASSUME [Next]_vars
  PROVE  /\ [Calendar!Next]_calendarVars
         /\ [Gmail!Next]_gmailVars
         /\ [Entity!Next]_entityVars
         /\ [Session!Next]_sessionVars
<1>1. CASE Next
  BY <1>1 DEF Next
<1>2. CASE UNCHANGED vars
  BY <1>2 DEF vars
<1> QED
  BY <1>1, <1>2

-----------------------------------------------------------------------------
(* GoogleCalendar.                                                         *)

Verbs == {"none", "list", "get", "insert", "update", "delete", "patchReminders",
          "patchAttendees"}
Reads == {"list", "get"}
Ops   == Calendar!Writes \cup Calendar!Queries

(* What the ten methods have in common: a method that only asks sends a    *)
(* request that only asks, and a removal begins with its `get'.            *)
Invoked(c, op, t, e, people, v) ==
  /\ Calendar!Method(c, op, t, e, people, v)
  /\ v # "none"
  /\ op = "removeAttendee" => v = "get" /\ e \in Events
  /\ op # "removeAttendee" => (v \in Reads <=> op \notin Calendar!Writes)

LEMMA CalendarMethods ==
  ASSUME NEW c \in Calls, Calendar!Query(c) \/ Calendar!Edit(c)
  PROVE  \E op \in Ops, t \in Tokens, e \in Events \cup {None}, people \in SUBSET People,
            v \in Verbs : Invoked(c, op, t, e, people, v)
<1> DEFINE Goal == \E op \in Ops, t \in Tokens, e \in Events \cup {None},
                     people \in SUBSET People, v \in Verbs : Invoked(c, op, t, e, people, v)
<1>0. ASSUME NEW op \in Ops, NEW t \in Tokens, NEW e \in Events \cup {None},
             NEW people \in SUBSET People, NEW v \in Verbs, Invoked(c, op, t, e, people, v)
      PROVE  Goal
  BY <1>0
<1> HIDE DEF Goal
<1> USE DEF Verbs, Reads, Ops, Calendar!Writes, Calendar!Queries
<1>1. ASSUME NEW t \in Tokens, Calendar!ListEvents(c, t) PROVE Goal
  <2>1. Invoked(c, "listEvents", t, None, {}, "list")
    BY <1>1 DEF Invoked, Calendar!ListEvents
  <2> QED
    BY <2>1, <1>0
<1>2. ASSUME NEW t \in Tokens, Calendar!ListCalendars(c, t) PROVE Goal
  <2>1. Invoked(c, "listCalendars", t, None, {}, "list")
    BY <1>2 DEF Invoked, Calendar!ListCalendars
  <2> QED
    BY <2>1, <1>0
<1>3. ASSUME NEW t \in Tokens, Calendar!GetFreeBusyInfo(c, t) PROVE Goal
  <2>1. Invoked(c, "getFreeBusyInfo", t, None, {}, "list")
    BY <1>3 DEF Invoked, Calendar!GetFreeBusyInfo
  <2> QED
    BY <2>1, <1>0
<1>4. ASSUME NEW t \in Tokens, NEW e \in Events, Calendar!GetEvent(c, t, e) PROVE Goal
  <2>1. Invoked(c, "getEvent", t, e, {}, "get")
    BY <1>4 DEF Invoked, Calendar!GetEvent
  <2> QED
    BY <2>1, <1>0
<1>5. ASSUME NEW t \in Tokens, NEW people \in SUBSET People, Calendar!CreateEvent(c, t, people) PROVE Goal
  <2>1. Invoked(c, "createEvent", t, None, people, "insert")
    BY <1>5 DEF Invoked, Calendar!CreateEvent
  <2> QED
    BY <2>1, <1>0
<1>6. ASSUME NEW t \in Tokens, NEW e \in Events, Calendar!DeleteEvent(c, t, e) PROVE Goal
  <2>1. Invoked(c, "deleteEvent", t, e, {}, "delete")
    BY <1>6 DEF Invoked, Calendar!DeleteEvent
  <2> QED
    BY <2>1, <1>0
<1>7. ASSUME NEW t \in Tokens, NEW e \in Events, Calendar!AddReminder(c, t, e) PROVE Goal
  <2>1. Invoked(c, "addReminder", t, e, {}, "patchReminders")
    BY <1>7 DEF Invoked, Calendar!AddReminder
  <2> QED
    BY <2>1, <1>0
<1>8. ASSUME NEW t \in Tokens, NEW e \in Events, NEW people \in SUBSET People,
             Calendar!UpdateEvent(c, t, e, people) PROVE Goal
  <2>1. Invoked(c, "updateEvent", t, e, people, "update")
    BY <1>8 DEF Invoked, Calendar!UpdateEvent
  <2> QED
    BY <2>1, <1>0
<1>9. ASSUME NEW t \in Tokens, NEW e \in Events, NEW p \in People, Calendar!AddAttendee(c, t, e, p) PROVE Goal
  <2>1. Invoked(c, "addAttendee", t, e, {p}, "patchAttendees")
    BY <1>9 DEF Invoked, Calendar!AddAttendee
  <2> QED
    BY <2>1, <1>0
<1>10. ASSUME NEW t \in Tokens, NEW e \in Events, NEW p \in People, Calendar!RemoveAttendee(c, t, e, p) PROVE Goal
  <2>1. Invoked(c, "removeAttendee", t, e, {p}, "get")
    BY <1>10 DEF Invoked, Calendar!RemoveAttendee
  <2> QED
    BY <2>1, <1>0
<1>11. Goal
  BY <1>1, <1>2, <1>3, <1>4, <1>5, <1>6, <1>7, <1>8, <1>9, <1>10 DEF Calendar!Query, Calendar!Edit
<1> QED
  BY <1>11 DEF Goal

(* The steps of the calendar, by what they do to a call.                   *)
LEMMA CalendarSteps ==
  ASSUME [Calendar!Next]_calendarVars
  PROVE  \/ \E c \in Calls, op \in Ops, t \in Tokens, e \in Events \cup {None},
               people \in SUBSET People, v \in Verbs : Invoked(c, op, t, e, people, v)
         \/ \E c \in Calls :
              \/ Calendar!PatchRemaining(c) \/ Calendar!NoAttendees(c)
              \/ Calendar!Return(c) \/ Calendar!List(c) \/ Calendar!Get(c)
              \/ Calendar!Answer(c) \/ Calendar!Refuse(c) \/ Calendar!Break(c)
         \/ \E c \in Calls, e \in Events : Calendar!Write(c, e)
         \/ UNCHANGED calendarVars
<1>1. CASE \E c \in Calls : Calendar!Query(c) \/ Calendar!Edit(c)
  BY <1>1, CalendarMethods
<1>2. CASE Calendar!Next /\ ~\E c \in Calls : Calendar!Query(c) \/ Calendar!Edit(c)
  BY <1>2 DEF Calendar!Next
<1> QED
  BY <1>1, <1>2 DEF Calendar!Next

(* An event that takes part in anything is a record of its attendees and   *)
(* reminders.                                                              *)
LEMMA LiveEvent ==
  ASSUME Calendar!TypeOK, NEW t \in Tokens, NEW e \in Events, store[t][e].state = "live"
  PROVE  store[t][e] \in Calendar!AnyEvent
<1>1. store[t][e] \in {Calendar!Unused, Calendar!Deleted} \cup Calendar!AnyEvent
  BY DEF Calendar!TypeOK
<1>2. store[t][e] # Calendar!Unused /\ store[t][e] # Calendar!Deleted
  BY DEF Calendar!Unused, Calendar!Deleted
<1> QED
  BY <1>1, <1>2

(* The types, and the token every request of a call goes out with.         *)
CalendarIInv ==
  /\ Calendar!TypeOK
  /\ \A c \in Calls :
       /\ bound[c] = call[c].token
       /\ pc[c] # "idle" => call[c].token \in Tokens /\ verb[c] # "none"
       /\ pc[c] = "idle" => served[c] = {} /\ written[c] = 0
       /\ served[c] \subseteq {call[c].token}

(* What a change leaves behind is an event, or the place of a deleted one. *)
LEMMA ChangedEvent ==
  ASSUME CalendarIInv, NEW c \in Calls, NEW e \in Events, Calendar!Write(c, e)
  PROVE  Calendar!Changed(c, e) \in {Calendar!Unused, Calendar!Deleted} \cup Calendar!AnyEvent
<1> DEFINE t == bound[c]
<1>1. t \in Tokens /\ body[c] \in SUBSET People
  BY DEF CalendarIInv, Calendar!TypeOK, Calendar!Write, Calendar!Serve
<1>2. verb[c] \in Verbs \ Reads /\ (verb[c] # "insert" => store[t][e].state = "live")
  BY DEF CalendarIInv, Calendar!TypeOK, Calendar!Write, Calendar!Live, Calendar!Client, Verbs, Reads
<1>3. verb[c] # "insert" => store[t][e] \in Calendar!AnyEvent
  BY <1>1, <1>2, LiveEvent DEF CalendarIInv
<1>4. verb[c] # "none"
  BY DEF CalendarIInv, Calendar!Write, Calendar!Serve
<1>5. Calendar!Event(body[c], "default") \in Calendar!AnyEvent
  BY <1>1 DEF Calendar!Event, Calendar!AnyEvent
<1>6. CASE verb[c] \in {"insert", "update"}
  BY <1>5, <1>6 DEF Calendar!Changed
<1>7. CASE verb[c] = "delete"
  BY <1>7 DEF Calendar!Changed
<1>8. CASE verb[c] = "patchReminders"
  <2>1. [store[t][e] EXCEPT !.reminder = "popup"] \in Calendar!AnyEvent
    BY <1>3, <1>8 DEF Calendar!AnyEvent
  <2> QED
    BY <1>8, <2>1 DEF Calendar!Changed, Calendar!Client
<1>9. CASE verb[c] = "patchAttendees"
  <2>1. [store[t][e] EXCEPT !.attendees = body[c]] \in Calendar!AnyEvent
    BY <1>1, <1>3, <1>9 DEF Calendar!AnyEvent
  <2> QED
    BY <1>9, <2>1 DEF Calendar!Changed, Calendar!Client
<1> QED
  BY <1>2, <1>4, <1>6, <1>7, <1>8, <1>9 DEF Verbs, Reads

(* Whatever it makes of an event, it moves people only.                    *)
LEMMA AttendingPeople ==
  ASSUME NEW ev \in {Calendar!Unused, Calendar!Deleted} \cup Calendar!AnyEvent
  PROVE  Calendar!Attending(ev) \in SUBSET People
<1>1. ev.state = "live" => ev \in Calendar!AnyEvent
  BY DEF Calendar!Unused, Calendar!Deleted
<1> QED
  BY <1>1 DEF Calendar!Attending, Calendar!AnyEvent

LEMMA MissedPeople ==
  ASSUME CalendarIInv, NEW c \in Calls, NEW e \in Events, Calendar!Write(c, e), bound[c] \in Tokens
  PROVE  missed' \in [Calls -> SUBSET People]
<1> DEFINE t == bound[c]
           moved == Calendar!Differ(Calendar!Attending(store[t][e]),
                                    Calendar!Attending(Calendar!Changed(c, e)))
<1>1. store[t][e] \in {Calendar!Unused, Calendar!Deleted} \cup Calendar!AnyEvent
  BY DEF CalendarIInv, Calendar!TypeOK
<1>2. moved \in SUBSET People
  BY <1>1, ChangedEvent, AttendingPeople DEF Calendar!Differ
<1>3. missed' = [d \in Calls |-> IF call[d].token = t /\ call[d].event = e
                                 THEN missed[d] \cup moved ELSE missed[d]]
  BY DEF Calendar!Write, Calendar!Client
<1> HIDE DEF moved
<1> QED
  BY <1>2, <1>3 DEF CalendarIInv, Calendar!TypeOK

LEMMA CalendarTyped == Spec => []CalendarIInv
<1>1. Init => CalendarIInv
  <2> SUFFICES ASSUME Calendar!Init PROVE CalendarIInv
    BY DEF Init
  <2> USE SharedStateAssumption DEF Calendar!CalendarAssumption, Calendar!Init, CalendarIInv,
      Calendar!NoCall
  <2>1. store \in [Tokens -> [Events -> {Calendar!Unused, Calendar!Deleted} \cup Calendar!AnyEvent]]
    BY DEF Calendar!AnyEvent, Calendar!Event
  <2> QED
    BY <2>1 DEF Calendar!TypeOK
<1>2. CalendarIInv /\ [Calendar!Next]_calendarVars => CalendarIInv'
  <2> SUFFICES ASSUME CalendarIInv, [Calendar!Next]_calendarVars PROVE CalendarIInv'
    OBVIOUS
  <2> USE SharedStateAssumption DEF Calendar!CalendarAssumption, CalendarIInv, Calendar!TypeOK,
      Calendar!google
  <2>1. ASSUME NEW c \in Calls, NEW op \in Ops, NEW t \in Tokens, NEW e \in Events \cup {None},
               NEW people \in SUBSET People, NEW v \in Verbs, Invoked(c, op, t, e, people, v)
        PROVE  CalendarIInv'
    BY <2>1 DEF Invoked, Verbs, Ops, Calendar!Method, Calendar!GetResource, Calendar!Send
  <2>2. ASSUME NEW c \in Calls, Calendar!PatchRemaining(c) PROVE CalendarIInv'
    BY <2>2 DEF Calendar!PatchRemaining, Calendar!Remaining, Calendar!Send
  <2>3. ASSUME NEW c \in Calls, Calendar!NoAttendees(c) \/ Calendar!Return(c) \/ Calendar!Answer(c)
        PROVE  CalendarIInv'
    <3>1. PICK s \in {"answered", "returned", "thrown"} : pc' = [pc EXCEPT ![c] = s]
      BY <2>3 DEF Calendar!NoAttendees, Calendar!Return, Calendar!Answer, Calendar!Throw
    <3>2. pc[c] # "idle" /\ UNCHANGED <<calendar, call, bound, verb, body, read, Calendar!google>>
      BY <2>3 DEF Calendar!NoAttendees, Calendar!Return, Calendar!Answer
    <3> QED
      BY <3>1, <3>2
  <2>4. ASSUME NEW c \in Calls, Calendar!List(c) PROVE CalendarIInv'
    BY <2>4 DEF Calendar!List, Calendar!Serve, Calendar!Client
  <2>5. ASSUME NEW c \in Calls, Calendar!Get(c) PROVE CalendarIInv'
    <3>1. bound[c] \in Tokens /\ call[c].event \in Events
          /\ store[bound[c]][call[c].event].state = "live"
      BY <2>5 DEF Calendar!Get, Calendar!Live, Calendar!Client, Calendar!Serve
    <3>2. store[bound[c]][call[c].event] \in Calendar!AnyEvent
      BY <3>1, LiveEvent
    <3>3. store[bound[c]][call[c].event].attendees \in SUBSET People
      BY <3>2 DEF Calendar!AnyEvent
    <3>4. /\ read' = [read EXCEPT ![c] = store[bound[c]][call[c].event].attendees]
          /\ missed' = [missed EXCEPT ![c] = {}]
          /\ pc' = [pc EXCEPT ![c] = "served"] /\ pc[c] = "sent"
          /\ served' = [served EXCEPT ![c] = @ \cup {bound[c]}]
          /\ UNCHANGED <<calendar, call, bound, verb, body, broken, faults, store, written>>
      BY <2>5 DEF Calendar!Get, Calendar!Serve, Calendar!Client
    <3>5. served' \in [Calls -> SUBSET Tokens]
      BY <3>1, <3>4
    <3>6. Calendar!TypeOK'
      BY <3>3, <3>4, <3>5
    <3>7. ASSUME NEW d \in Calls
          PROVE  /\ bound'[d] = call'[d].token
                 /\ pc'[d] # "idle" => call'[d].token \in Tokens /\ verb'[d] # "none"
                 /\ pc'[d] = "idle" => served'[d] = {} /\ written'[d] = 0
                 /\ served'[d] \subseteq {call'[d].token}
      BY <3>1, <3>4
    <3> QED
      BY <3>6, <3>7
  <2>6. ASSUME NEW c \in Calls, Calendar!Refuse(c) \/ Calendar!Break(c) PROVE CalendarIInv'
    BY <2>6 DEF Calendar!Refuse, Calendar!Break, Calendar!Throw
  <2>7. ASSUME NEW c \in Calls, NEW e \in Events, Calendar!Write(c, e) PROVE CalendarIInv'
    <3> DEFINE t == bound[c]
               new == Calendar!Changed(c, e)
    <3>1. /\ pc[c] = "sent" /\ pc' = [pc EXCEPT ![c] = "served"]
          /\ served' = [served EXCEPT ![c] = @ \cup {t}]
          /\ store' = [store EXCEPT ![t][e] = new]
          /\ written' = [written EXCEPT ![c] = @ + 1]
          /\ UNCHANGED <<calendar, call, bound, verb, body, read, broken, faults>>
      BY <2>7 DEF Calendar!Write, Calendar!Serve, Calendar!Client
    <3>2. t \in Tokens
      BY <3>1
    <3>3. new \in {Calendar!Unused, Calendar!Deleted} \cup Calendar!AnyEvent
      BY <2>7, ChangedEvent
    <3>4. missed' \in [Calls -> SUBSET People]
      BY <2>7, <3>2, MissedPeople DEF Calendar!Client
    <3>5. served' \in [Calls -> SUBSET Tokens] /\ served'[c] \subseteq {t}
      BY <3>1, <3>2
    <3> HIDE DEF new
    <3> QED
      BY <3>1, <3>2, <3>3, <3>4, <3>5
  <2>8. CASE UNCHANGED calendarVars
    BY <2>8 DEF calendarVars
  <2> QED
    BY <2>1, <2>2, <2>3, <2>4, <2>5, <2>6, <2>7, <2>8, CalendarSteps
<1> QED
  BY <1>1, <1>2, PartStep, PTL DEF Spec

(* How often Google carried out a change for a call: not at all before the *)
(* request that makes it was served, once afterwards.  Which requests make *)
(* a change is known from the method, except that a removal starts with a  *)
(* request that only reads.                                                *)
WrittenByCall(c) ==
  /\ pc[c] = "sent" => written[c] = 0
  /\ pc[c] \in {"served", "answered"} => written[c] = IF verb[c] \in Reads THEN 0 ELSE 1
  /\ pc[c] = "returned" => written[c] = IF call[c].op \in Calendar!Writes THEN 1 ELSE 0
  /\ pc[c] = "thrown" /\ c \notin broken => written[c] = 0
  /\ pc[c] # "idle" => \/ verb[c] \in Reads <=> call[c].op \notin Calendar!Writes
                       \/ Calendar!Reading(c)
  /\ pc[c] = "returned" => ~Calendar!Reading(c)

WrittenOnce == \A c \in Calls : WrittenByCall(c)

LEMMA WrittenStep ==
  ASSUME CalendarIInv, WrittenOnce, [Calendar!Next]_calendarVars, NEW d \in Calls
  PROVE  WrittenByCall(d)'
<1> USE DEF WrittenByCall, WrittenOnce, Reads, Calendar!Reading, Calendar!google
<1>0. /\ pc \in [Calls -> {"idle", "sent", "served", "answered", "returned", "thrown"}]
      /\ written \in [Calls -> Nat] /\ broken \subseteq Calls
      /\ DOMAIN call = Calls /\ DOMAIN verb = Calls
      /\ pc[d] = "idle" => written[d] = 0
  BY DEF CalendarIInv, Calendar!TypeOK
<1>1. ASSUME NEW c \in Calls, NEW op \in Ops, NEW t \in Tokens, NEW e \in Events \cup {None},
             NEW people \in SUBSET People, NEW v \in Verbs, Invoked(c, op, t, e, people, v)
      PROVE  WrittenByCall(d)'
  BY <1>0, <1>1 DEF Invoked, Calendar!Method, Calendar!GetResource, Calendar!Send, Calendar!Writes
<1>2. ASSUME NEW c \in Calls, Calendar!PatchRemaining(c) PROVE WrittenByCall(d)'
  BY <1>0, <1>2 DEF Calendar!PatchRemaining, Calendar!Send, Calendar!Writes
<1>3. ASSUME NEW c \in Calls, Calendar!NoAttendees(c) \/ Calendar!Return(c) \/ Calendar!Answer(c)
      PROVE  WrittenByCall(d)'
  BY <1>0, <1>3 DEF Calendar!NoAttendees, Calendar!Return, Calendar!Answer
<1>4. ASSUME NEW c \in Calls, Calendar!List(c) \/ Calendar!Get(c) PROVE WrittenByCall(d)'
  BY <1>0, <1>4 DEF Calendar!List, Calendar!Get, Calendar!Serve
<1>5. ASSUME NEW c \in Calls, Calendar!Refuse(c) \/ Calendar!Break(c) PROVE WrittenByCall(d)'
  BY <1>0, <1>5 DEF Calendar!Refuse, Calendar!Break, Calendar!Throw
<1>6. ASSUME NEW c \in Calls, NEW e \in Events, Calendar!Write(c, e) PROVE WrittenByCall(d)'
  BY <1>0, <1>6 DEF Calendar!Write, Calendar!Serve
<1>7. CASE UNCHANGED calendarVars
  BY <1>7 DEF calendarVars
<1> QED
  BY <1>1, <1>2, <1>3, <1>4, <1>5, <1>6, <1>7, CalendarSteps

LEMMA CalendarCounted == Spec => []WrittenOnce
<1>1. Init => WrittenOnce
  BY DEF Init, Calendar!Init, WrittenOnce, WrittenByCall
<1>2. CalendarIInv /\ WrittenOnce /\ [Calendar!Next]_calendarVars => WrittenOnce'
  BY WrittenStep DEF WrittenOnce
<1> QED
  BY <1>1, <1>2, CalendarTyped, PartStep, PTL DEF Spec

-----------------------------------------------------------------------------
(* What a removal between its `get' and its patch knows of the event: the  *)
(* list it read, up to the people who joined or left since.                *)
Differing(c) ==
  Calendar!Differ(read[c], Calendar!Attending(store[call[c].token][call[c].event]))

ReadUpToMissed(c) ==
  call[c].op = "removeAttendee" =>
    /\ call[c].event \in Events
    /\ verb[c] \in {"get", "patchAttendees"}
    /\ \/ verb[c] = "get" /\ pc[c] \in {"served", "answered"}
       \/ verb[c] = "patchAttendees" /\ pc[c] = "sent"
       => Differing(c) \subseteq missed[c]
    /\ verb[c] = "patchAttendees" => body[c] = Calendar!Remaining(c)

ReadsKept == \A c \in Calls : pc[c] # "idle" => ReadUpToMissed(c)

(* A change of an event widens what a reader missed by all it moves.       *)
LEMMA MissedByWrite ==
  ASSUME CalendarIInv, NEW c \in Calls, NEW e \in Events, Calendar!Write(c, e),
         NEW d \in Calls, call[d].token \in Tokens, call[d].event \in Events,
         Differing(d) \subseteq missed[d]
  PROVE  Calendar!Differ(read[d], Calendar!Attending(store'[call[d].token][call[d].event]))
           \subseteq missed'[d]
<1> DEFINE t   == bound[c]
           old == store[t][e]
           new == Calendar!Changed(c, e)
<1>1. /\ store' = [store EXCEPT ![t][e] = new]
      /\ missed'[d] = IF call[d].token = t /\ call[d].event = e
                      THEN missed[d] \cup Calendar!Differ(Calendar!Attending(old), Calendar!Attending(new))
                      ELSE missed[d]
      /\ t \in Tokens
  BY DEF Calendar!Write, Calendar!Client, Calendar!Serve, CalendarIInv
<1>2. store \in [Tokens -> [Events -> {Calendar!Unused, Calendar!Deleted} \cup Calendar!AnyEvent]]
  BY DEF CalendarIInv, Calendar!TypeOK
<1> HIDE DEF new
<1>3. CASE call[d].token = t /\ call[d].event = e
  <2>1. store'[t][e] = new
    BY <1>1, <1>2
  <2> QED
    BY <1>1, <1>3, <2>1 DEF Differing, Calendar!Differ
<1>4. CASE ~(call[d].token = t /\ call[d].event = e)
  <2>1. store'[call[d].token][call[d].event] = store[call[d].token][call[d].event]
    BY <1>1, <1>2, <1>4
  <2> QED
    BY <1>1, <1>4, <2>1 DEF Differing
<1> QED
  BY <1>3, <1>4

LEMMA ReadsStep ==
  ASSUME CalendarIInv, ReadsKept, [Calendar!Next]_calendarVars, NEW d \in Calls, pc'[d] # "idle"
  PROVE  ReadUpToMissed(d)'
<1> USE DEF ReadUpToMissed, ReadsKept
<1>0. /\ pc \in [Calls -> {"idle", "sent", "served", "answered", "returned", "thrown"}]
      /\ DOMAIN call = Calls /\ DOMAIN verb = Calls /\ DOMAIN body = Calls
      /\ DOMAIN read = Calls /\ DOMAIN missed = Calls
      /\ \A c \in Calls : bound[c] = call[c].token
      /\ pc[d] # "idle" => call[d].token \in Tokens
  BY DEF CalendarIInv, Calendar!TypeOK
<1>1. ASSUME NEW c \in Calls, NEW op \in Ops, NEW t \in Tokens, NEW e \in Events \cup {None},
             NEW people \in SUBSET People, NEW v \in Verbs, Invoked(c, op, t, e, people, v)
      PROVE  ReadUpToMissed(d)'
  <2>1. CASE d = c
    BY <1>0, <1>1, <2>1 DEF Invoked, Calendar!Method, Calendar!GetResource, Calendar!Send
  <2>2. CASE d # c
    BY <1>0, <1>1, <2>2
    DEF Invoked, Calendar!Method, Calendar!GetResource, Calendar!Send, Differing,
        Calendar!Remaining, Calendar!google
  <2> QED
    BY <2>1, <2>2
<1>2. ASSUME NEW c \in Calls, Calendar!PatchRemaining(c) PROVE ReadUpToMissed(d)'
  BY <1>0, <1>2 DEF Calendar!PatchRemaining, Calendar!Send, Calendar!Reading, Calendar!Remaining,
     Differing, Calendar!google
<1>3. ASSUME NEW c \in Calls, Calendar!NoAttendees(c) \/ Calendar!Return(c) \/ Calendar!Answer(c)
      PROVE  ReadUpToMissed(d)'
  BY <1>0, <1>3 DEF Calendar!NoAttendees, Calendar!Return, Calendar!Answer, Calendar!Remaining,
     Differing, Calendar!google
<1>4. ASSUME NEW c \in Calls, Calendar!List(c) PROVE ReadUpToMissed(d)'
  BY <1>0, <1>4 DEF Calendar!List, Calendar!Serve, Calendar!Remaining, Differing
<1>5. ASSUME NEW c \in Calls, Calendar!Get(c) PROVE ReadUpToMissed(d)'
  <2>1. CASE d = c
    <3>1. store[call[d].token][call[d].event].state = "live"
          /\ read'[d] = store[call[d].token][call[d].event].attendees
          /\ UNCHANGED <<call, verb, body, store>> /\ verb[d] = "get" /\ pc[d] = "sent"
      BY <1>0, <1>5, <2>1 DEF Calendar!Get, Calendar!Live, Calendar!Client, Calendar!Serve
    <3>2. Differing(d)' = {}
      BY <3>1 DEF Differing, Calendar!Differ, Calendar!Attending
    <3> QED
      BY <1>0, <3>1, <3>2
  <2>2. CASE d # c
    BY <1>0, <1>5, <2>2 DEF Calendar!Get, Calendar!Serve, Calendar!Remaining, Differing
  <2> QED
    BY <2>1, <2>2
<1>6. ASSUME NEW c \in Calls, Calendar!Refuse(c) \/ Calendar!Break(c) PROVE ReadUpToMissed(d)'
  BY <1>0, <1>6 DEF Calendar!Refuse, Calendar!Break, Calendar!Throw, Calendar!Remaining, Differing,
     Calendar!google
<1>7. ASSUME NEW c \in Calls, NEW e \in Events, Calendar!Write(c, e) PROVE ReadUpToMissed(d)'
  <2>1. /\ UNCHANGED <<call, verb, body, read>>
        /\ pc' = [pc EXCEPT ![c] = "served"] /\ pc[c] = "sent"
        /\ verb[c] \notin {"list", "get"}
    BY <1>7 DEF Calendar!Write, Calendar!Serve
  <2>2. ASSUME call[d].op = "removeAttendee", Differing(d) \subseteq missed[d]
        PROVE  Differing(d)' \subseteq missed'[d]
    BY <1>0, <1>7, <2>1, <2>2, MissedByWrite DEF Differing
  <2> QED
    BY <1>0, <2>1, <2>2 DEF Calendar!Remaining
<1>8. CASE UNCHANGED calendarVars
  BY <1>8 DEF calendarVars, Calendar!Remaining, Differing
<1> QED
  BY <1>1, <1>2, <1>3, <1>4, <1>5, <1>6, <1>7, <1>8, CalendarSteps

LEMMA CalendarReads == Spec => []ReadsKept
<1>1. Init => ReadsKept
  BY DEF Init, Calendar!Init, ReadsKept
<1>2. CalendarIInv /\ ReadsKept /\ [Calendar!Next]_calendarVars => ReadsKept'
  BY ReadsStep DEF ReadsKept
<1> QED
  BY <1>1, <1>2, CalendarTyped, PartStep, PTL DEF Spec

(* The patch of a removal moves the person it is about and those its list  *)
(* was stale for.                                                          *)
LEMMA PatchMoves ==
  ASSUME CalendarIInv, ReadsKept, NEW c \in Calls, NEW e \in Events, Calendar!Write(c, e),
         call[c].op = "removeAttendee"
  PROVE  Calendar!Differ(Calendar!Attending(store[bound[c]][e]),
                         Calendar!Attending(store'[bound[c]][e]))
           \subseteq call[c].people \cup missed[c]
<1> DEFINE t == bound[c]
<1>1. /\ pc[c] = "sent" /\ verb[c] = "patchAttendees" /\ body[c] = read[c] \ call[c].people
      /\ Differing(c) \subseteq missed[c]
  BY DEF ReadsKept, ReadUpToMissed, Calendar!Remaining, Calendar!Write, Calendar!Serve
<1>2. /\ t = call[c].token /\ t \in Tokens /\ e = call[c].event /\ store[t][e].state = "live"
      /\ store' = [store EXCEPT ![t][e] = Calendar!Changed(c, e)]
  BY <1>1 DEF Calendar!Write, Calendar!Live, Calendar!Client, CalendarIInv
<1>3. store[t][e] \in Calendar!AnyEvent
  BY <1>2, LiveEvent DEF CalendarIInv
<1>4. store'[t][e] = [store[t][e] EXCEPT !.attendees = body[c]]
  BY <1>1, <1>2 DEF Calendar!Changed, Calendar!Client, CalendarIInv, Calendar!TypeOK
<1>5. Calendar!Attending(store'[t][e]) = body[c]
  BY <1>3, <1>4 DEF Calendar!Attending, Calendar!AnyEvent
<1> QED
  BY <1>1, <1>2, <1>5 DEF Differing, Calendar!Differ

-----------------------------------------------------------------------------
(* GoogleMail.                                                             *)

Mails == {Email(Absent), Email("me")}

(* What the seven methods have in common.                                  *)
Requested(c, r) ==
  /\ Gmail!Request(c, r)
  /\ r \in [verb : Gmail!Verbs \ {"none"}, token : Tokens, ids : SUBSET Messages,
            add : SUBSET Labels, remove : SUBSET Labels, email : Mails \cup {Absent}]
  /\ r.verb = "send" => Gmail!Complete(r.email)

LEMMA MailMethods ==
  ASSUME NEW c \in Calls, Gmail!Invoke(c)
  PROVE  \E r : Requested(c, r)
<1> USE DEF Gmail!Verbs, Gmail!Single, Gmail!NoCall, Gmail!About, Gmail!Modify
<1>1. PICK t \in Tokens, ids \in SUBSET Messages, add \in {{}, Labels}, remove \in {{}, Labels} :
        \/ remove = {} /\ ids = {} /\ Gmail!ListMessages(c, t, add)
        \/ add = {} /\ remove = {} /\ Gmail!BatchDeleteMessages(c, t, ids)
        \/ Gmail!BatchModifyMessages(c, t, ids, add, remove)
        \/ \E id \in ids :
             \/ Gmail!UpdateLabels(c, t, id, add, remove)
             \/ add = {} /\ remove = {} /\ (Gmail!GetMessage(c, t, id) \/ Gmail!DeleteMessage(c, t, id))
  BY DEF Gmail!Invoke
<1>2. add \in SUBSET Labels /\ remove \in SUBSET Labels
  OBVIOUS
<1> DEFINE R(v, s) == [verb |-> v, token |-> t, ids |-> s, add |-> add, remove |-> remove,
                       email |-> Absent]
<1>3. ASSUME NEW v \in Gmail!Verbs \ {"none", "send"}, NEW s \in SUBSET Messages,
             Gmail!Request(c, R(v, s))
      PROVE  \E r : Requested(c, r)
  <2>1. Requested(c, R(v, s))
    BY <1>2, <1>3 DEF Requested
  <2> QED
    BY <2>1
<1> HIDE DEF R
<1>4. CASE remove = {} /\ ids = {} /\ Gmail!ListMessages(c, t, add)
  <2>1. Gmail!Request(c, R("list", ids))
    BY <1>4 DEF R, Gmail!ListMessages
  <2> QED
    BY <2>1, <1>3
<1>5. CASE add = {} /\ remove = {} /\ Gmail!BatchDeleteMessages(c, t, ids)
  <2>1. Gmail!Request(c, R("batchDelete", ids))
    BY <1>5 DEF R, Gmail!BatchDeleteMessages
  <2> QED
    BY <2>1, <1>3
<1>6. CASE Gmail!BatchModifyMessages(c, t, ids, add, remove)
  <2>1. Gmail!Request(c, R("batchModify", ids))
    BY <1>6 DEF R, Gmail!BatchModifyMessages
  <2> QED
    BY <2>1, <1>3
<1>7. ASSUME NEW id \in ids, Gmail!UpdateLabels(c, t, id, add, remove) PROVE \E r : Requested(c, r)
  <2>1. Gmail!Request(c, R("modify", {id}))
    BY <1>7 DEF R, Gmail!UpdateLabels
  <2> QED
    BY <2>1, <1>3
<1>8. ASSUME NEW id \in ids, add = {}, remove = {},
             Gmail!GetMessage(c, t, id) \/ Gmail!DeleteMessage(c, t, id)
      PROVE  \E r : Requested(c, r)
  <2>1. Gmail!Request(c, R("get", {id})) \/ Gmail!Request(c, R("delete", {id}))
    BY <1>8 DEF R, Gmail!GetMessage, Gmail!DeleteMessage
  <2> QED
    BY <2>1, <1>3
<1> QED
  BY <1>1, <1>4, <1>5, <1>6, <1>7, <1>8

(* A mail of one of the two kinds goes out, or is refused at once.         *)
LEMMA MailSends ==
  ASSUME NEW c \in Calls, Gmail!Send(c)
  PROVE  \/ \E r : Requested(c, r)
         \/ \E t \in Tokens, email \in Mails : Gmail!SendMessageFails(c, t, email)
<1>1. PICK t \in Tokens, email \in Mails :
        Gmail!SendMessage(c, t, email) \/ Gmail!SendMessageFails(c, t, email)
  BY DEF Gmail!Send, Mails
<1>2. CASE Gmail!SendMessage(c, t, email)
  <2>1. Requested(c, Gmail!Mail(t, email))
    BY <1>2 DEF Requested, Gmail!SendMessage, Gmail!Mail, Gmail!Verbs, Gmail!Single
  <2> QED
    BY <2>1
<1> QED
  BY <1>1, <1>2

LEMMA MailSteps ==
  ASSUME [Gmail!Next]_gmailVars
  PROVE  \/ \E c \in Calls : \E r : Requested(c, r)
         \/ \E c \in Calls, t \in Tokens, email \in Mails : Gmail!SendMessageFails(c, t, email)
         \/ \E c \in Calls : Gmail!Return(c) \/ Gmail!Refuse(c) \/ Gmail!Break(c) \/ Gmail!Serve(c)
         \/ UNCHANGED gmailVars
  BY MailMethods, MailSends DEF Gmail!Next

(* The types; the mailbox every request of a call goes to; and how far a   *)
(* call that returned, threw or waits was carried out.                     *)
MailCallOK(c) ==
  /\ mailPc[c] # "idle" => mailCall[c].token \in Tokens
  /\ mailServed[c] \subseteq {mailCall[c].token}
  /\ mailPc[c] \in {"idle", "sent"} => mailServed[c] = {}
  /\ mailPc[c] \in {"served", "returned"} => mailServed[c] # {}
  /\ mailPc[c] = "thrown" /\ c \notin mailBroken => mailServed[c] = {}
  /\ mailCall[c].verb = "send" /\ ~Gmail!Complete(mailCall[c].email)
       => mailPc[c] = "thrown" /\ mailServed[c] = {}
  /\ mailPc[c] = "idle" => mailCall[c] = Gmail!NoCall

MailTypes ==
  /\ gmail \in Tokens \cup {None}
  /\ gmail = None <=> \A c \in Calls : mailPc[c] = "idle"
  /\ mailCall \in [Calls -> [verb : Gmail!Verbs, token : Tokens \cup {None},
                             ids : SUBSET Messages, add : SUBSET Labels,
                             remove : SUBSET Labels, email : Mails \cup {Absent}]]
  /\ mailPc \in [Calls -> {"idle", "sent", "served", "returned", "thrown"}]
  /\ mailbox \in [Tokens -> [Messages -> {Absent} \cup SUBSET Labels]]
  /\ mailServed \in [Calls -> SUBSET Tokens]
  /\ mailBroken \in SUBSET Calls
  /\ mailFaults \in Nat

MailIInv == MailTypes /\ \A c \in Calls : MailCallOK(c)

(* What a served request leaves of a mailbox.                              *)
LEMMA MailboxAfter ==
  ASSUME MailTypes, NEW c \in Calls, NEW t \in Tokens
  PROVE  Gmail!After(mailCall[c], t) \in [Messages -> {Absent} \cup SUBSET Labels]
<1>1. ASSUME NEW id \in Messages, id \in Gmail!Existing(t)
      PROVE  (mailbox[t][id] \cup mailCall[c].add) \ mailCall[c].remove \in SUBSET Labels
  <2>1. mailbox[t][id] \in SUBSET Labels
    BY <1>1 DEF MailTypes, Gmail!Existing
  <2>2. mailCall[c].add \in SUBSET Labels
    BY DEF MailTypes
  <2> QED
    BY <2>1, <2>2
<1>2. ASSUME NEW id \in Messages PROVE mailbox[t][id] \in {Absent} \cup SUBSET Labels
  BY DEF MailTypes
<1> QED
  BY <1>1, <1>2 DEF Gmail!After

LEMMA MailTyped == Spec => []MailIInv
<1>1. Init => MailIInv
  <2> SUFFICES ASSUME Gmail!Init PROVE MailIInv
    BY DEF Init
  <2>1. MailTypes
    BY DEF Gmail!Init, Gmail!NoCall, MailTypes, Gmail!Verbs, Mails
  <2>2. \A c \in Calls : MailCallOK(c)
    BY DEF Gmail!Init, Gmail!NoCall, MailCallOK
  <2> QED
    BY <2>1, <2>2 DEF MailIInv
<1>2. MailIInv /\ [Gmail!Next]_gmailVars => MailIInv'
  <2> SUFFICES ASSUME MailIInv, [Gmail!Next]_gmailVars PROVE MailIInv'
    OBVIOUS
  <2> USE SharedStateAssumption DEF Gmail!MailAssumption, MailIInv, MailTypes, MailCallOK
  <2>1. ASSUME NEW c \in Calls, NEW r, Requested(c, r) PROVE MailIInv'
    BY <2>1 DEF Requested, Gmail!Request, Gmail!GetUserResource
  <2>2. ASSUME NEW c \in Calls, NEW t \in Tokens, NEW email \in Mails,
               Gmail!SendMessageFails(c, t, email)
        PROVE  MailIInv'
    <3> DEFINE r == Gmail!Mail(t, email)
    <3>1. /\ r \in [verb : Gmail!Verbs, token : Tokens \cup {None}, ids : SUBSET Messages,
                    add : SUBSET Labels, remove : SUBSET Labels, email : Mails \cup {Absent}]
          /\ r.token = t /\ r.verb = "send" /\ r.email = email
      BY DEF Gmail!Mail, Gmail!Verbs
    <3>2. /\ ~Gmail!Complete(email)
          /\ mailPc[c] = "idle" /\ mailPc' = [mailPc EXCEPT ![c] = "thrown"]
          /\ mailCall' = [mailCall EXCEPT ![c] = r] /\ gmail' = t
          /\ UNCHANGED <<mailbox, outbox, mailServed, mailBroken, mailFaults>>
      BY <2>2 DEF Gmail!SendMessageFails, Gmail!GetUserResource
    <3> HIDE DEF r
    <3>3. MailTypes'
      BY <3>1, <3>2
    <3>4. ASSUME NEW d \in Calls PROVE MailCallOK(d)'
      BY <3>1, <3>2
    <3> QED
      BY <3>3, <3>4
  <2>3. ASSUME NEW c \in Calls, Gmail!Return(c) PROVE MailIInv'
    BY <2>3 DEF Gmail!Return
  <2>4. ASSUME NEW c \in Calls, Gmail!Refuse(c) \/ Gmail!Break(c) PROVE MailIInv'
    <3>1. /\ mailPc[c] \in {"sent", "served"} /\ mailPc' = [mailPc EXCEPT ![c] = "thrown"]
          /\ mailFaults' \in Nat /\ mailBroken' \in SUBSET Calls /\ mailBroken \subseteq mailBroken'
          /\ c \notin mailBroken' => mailServed[c] = {}
          /\ UNCHANGED <<gmail, mailCall, mailbox, mailServed>>
      BY <2>4 DEF Gmail!Refuse, Gmail!Break, Gmail!Throw
    <3>2. MailTypes'
      BY <3>1
    <3>3. ASSUME NEW d \in Calls PROVE MailCallOK(d)'
      BY <3>1
    <3> QED
      BY <3>2, <3>3
  <2>5. ASSUME NEW c \in Calls, Gmail!Serve(c) PROVE MailIInv'
    <3> DEFINE t == mailCall[c].token
    <3>1. /\ mailPc[c] = "sent" /\ mailPc' = [mailPc EXCEPT ![c] = "served"]
          /\ mailServed' = [mailServed EXCEPT ![c] = @ \cup {t}]
          /\ mailbox' = [mailbox EXCEPT ![t] = Gmail!After(mailCall[c], t)]
          /\ UNCHANGED <<gmail, mailCall, mailBroken, mailFaults>>
      BY <2>5 DEF Gmail!Serve, Gmail!Client
    <3>2. t \in Tokens
      BY <3>1
    <3>3. mailbox' \in [Tokens -> [Messages -> {Absent} \cup SUBSET Labels]]
      BY <3>1, <3>2, MailboxAfter
    <3>4. mailServed' \in [Calls -> SUBSET Tokens] /\ mailServed'[c] = {t}
      BY <3>1, <3>2
    <3> QED
      BY <3>1, <3>2, <3>3, <3>4
  <2>6. CASE UNCHANGED gmailVars
    BY <2>6 DEF gmailVars
  <2> QED
    BY <2>1, <2>2, <2>3, <2>4, <2>5, <2>6, MailSteps
<1> QED
  BY <1>1, <1>2, PartStep, PTL DEF Spec

-----------------------------------------------------------------------------
(* One mail has left a mailbox for each call that had one sent from it.    *)
Posted(t) == {c \in Gmail!Senders(t) : mailServed[c] # {}}

Texts == {Gmail!CreateRawEmail(m) : m \in Mails \cup {Absent}}

OutboxCounted ==
  \A t \in Tokens : outbox[t] \in Seq(Texts) /\ Len(outbox[t]) = Cardinality(Posted(t))

LEMMA OutboxStep ==
  ASSUME MailIInv, OutboxCounted, DOMAIN outbox = Tokens, [Gmail!Next]_gmailVars
  PROVE  OutboxCounted' /\ DOMAIN outbox' = Tokens
<1> USE DEF OutboxCounted, MailIInv, MailCallOK
<1>0. /\ DOMAIN mailCall = Calls /\ DOMAIN mailServed = Calls
  BY DEF MailTypes
<1>f. IsFiniteSet(Calls)
  BY SharedStateAssumption DEF Gmail!MailAssumption, Gmail!IsFiniteSet, IsFiniteSet
<1>1. ASSUME UNCHANGED outbox, \A t \in Tokens : Posted(t)' = Posted(t)
      PROVE  OutboxCounted' /\ DOMAIN outbox' = Tokens
  BY <1>1
<1>2. ASSUME NEW c \in Calls, NEW r, Requested(c, r)
      PROVE  UNCHANGED outbox /\ \A t \in Tokens : Posted(t)' = Posted(t)
  <2>1. mailServed[c] = {} /\ mailServed' = mailServed /\ outbox' = outbox
        /\ mailCall' = [mailCall EXCEPT ![c] = r]
    BY <1>2 DEF Requested, Gmail!Request, Gmail!GetUserResource
  <2> QED
    BY <1>0, <2>1 DEF Posted, Gmail!Senders
<1>3. ASSUME NEW c \in Calls, NEW s \in Tokens, NEW email \in Mails,
             Gmail!SendMessageFails(c, s, email)
      PROVE  UNCHANGED outbox /\ \A t \in Tokens : Posted(t)' = Posted(t)
  <2>1. mailServed[c] = {} /\ mailServed' = mailServed /\ outbox' = outbox
        /\ mailCall' = [mailCall EXCEPT ![c] = Gmail!Mail(s, email)]
    BY <1>3 DEF Gmail!SendMessageFails, Gmail!GetUserResource
  <2> QED
    BY <1>0, <2>1 DEF Posted, Gmail!Senders
<1>4. ASSUME NEW c \in Calls, Gmail!Return(c) \/ Gmail!Refuse(c) \/ Gmail!Break(c)
      PROVE  UNCHANGED outbox /\ \A t \in Tokens : Posted(t)' = Posted(t)
  BY <1>4 DEF Gmail!Return, Gmail!Refuse, Gmail!Break, Posted, Gmail!Senders
<1>5. ASSUME NEW c \in Calls, Gmail!Serve(c) PROVE OutboxCounted' /\ DOMAIN outbox' = Tokens
  <2> DEFINE s == mailCall[c].token
             raw == Gmail!CreateRawEmail(mailCall[c].email)
  <2>1. /\ mailServed[c] = {} /\ s \in Tokens /\ mailCall' = mailCall
        /\ mailServed' = [mailServed EXCEPT ![c] = @ \cup {s}]
        /\ outbox' = IF mailCall[c].verb = "send" THEN [outbox EXCEPT ![s] = Append(@, raw)] ELSE outbox
    BY <1>5 DEF Gmail!Serve, Gmail!Client
  <2>2. mailServed'[c] = {s} /\ \A d \in Calls : d # c => mailServed'[d] = mailServed[d]
    BY <1>0, <2>1
  <2>3. CASE mailCall[c].verb # "send"
    <3>1. \A t \in Tokens : Posted(t)' = Posted(t)
      BY <1>0, <2>1, <2>2, <2>3 DEF Posted, Gmail!Senders
    <3> QED
      BY <1>1, <2>1, <2>3, <3>1
  <2>4. CASE mailCall[c].verb = "send"
    <3>1. Posted(s)' = Posted(s) \cup {c} /\ c \notin Posted(s)
      <4>1. c \in Gmail!Senders(s) /\ c \notin Posted(s) /\ Gmail!Senders(s)' = Gmail!Senders(s)
        BY <2>1, <2>4 DEF Posted, Gmail!Senders
      <4>2. ASSUME NEW d \in Gmail!Senders(s) PROVE mailServed'[d] # {} <=> mailServed[d] # {} \/ d = c
        BY <2>2 DEF Gmail!Senders
      <4>3. Posted(s)' = {d \in Gmail!Senders(s) : mailServed'[d] # {}}
        BY <4>1 DEF Posted
      <4> QED
        BY <4>1, <4>2, <4>3 DEF Posted
    <3>2. \A t \in Tokens : t # s => Posted(t)' = Posted(t) /\ outbox'[t] = outbox[t]
      BY <1>0, <2>1, <2>2, <2>4 DEF Posted, Gmail!Senders
    <3>3. IsFiniteSet(Posted(s))
      BY <1>f, FS_Subset DEF Posted, Gmail!Senders
    <3>4. Cardinality(Posted(s)') = Cardinality(Posted(s)) + 1
      BY <3>1, <3>3, FS_AddElement
    <3>5. mailCall[c].email \in Mails \cup {Absent}
      BY DEF MailTypes
    <3>6. raw \in Texts
      BY <3>5 DEF Texts
    <3> HIDE DEF raw
    <3>7. outbox'[s] = Append(outbox[s], raw)
      BY <2>1, <2>4
    <3>8. /\ outbox'[s] \in Seq(Texts)
          /\ Len(outbox'[s]) = Len(outbox[s]) + 1
      BY <2>1, <3>6, <3>7
    <3> QED
      BY <2>1, <2>4, <3>2, <3>4, <3>8
  <2> QED
    BY <2>3, <2>4
<1>6. CASE UNCHANGED gmailVars
  BY <1>6 DEF gmailVars, Posted, Gmail!Senders
<1> QED
  BY <1>1, <1>2, <1>3, <1>4, <1>5, <1>6, MailSteps

LEMMA MailCounted == Spec => [](OutboxCounted /\ DOMAIN outbox = Tokens)
<1>1. Init => OutboxCounted /\ DOMAIN outbox = Tokens
  <2> SUFFICES ASSUME Gmail!Init PROVE OutboxCounted /\ DOMAIN outbox = Tokens
    BY DEF Init
  <2>1. \A t \in Tokens : Posted(t) = {} /\ outbox[t] = <<>>
    BY DEF Gmail!Init, Posted, Gmail!Senders
  <2>2. <<>> \in Seq(Texts) /\ Len(<<>>) = 0
    OBVIOUS
  <2> QED
    BY <2>1, <2>2, FS_EmptySet DEF OutboxCounted, Gmail!Init
<1>2. MailIInv /\ OutboxCounted /\ DOMAIN outbox = Tokens /\ [Gmail!Next]_gmailVars
      => (OutboxCounted /\ DOMAIN outbox = Tokens)'
  BY OutboxStep
<1> QED
  BY <1>1, <1>2, MailTyped, PartStep, PTL DEF Spec

(* The types of the mail provider: no mailbox sends more mails than there  *)
(* are calls.                                                              *)
LEMMA MailTypeOK ==
  ASSUME MailIInv, OutboxCounted, SharedStateAssumption
  PROVE  Gmail!TypeOK
<1>1. IsFiniteSet(Calls)
  BY DEF SharedStateAssumption, Gmail!MailAssumption, Gmail!IsFiniteSet, IsFiniteSet
<1>2. Gmail!Cardinality(Calls) = Cardinality(Calls)
  BY DEF Gmail!Cardinality, Cardinality
<1>3. ASSUME NEW t \in Tokens PROVE Len(outbox[t]) <= Gmail!Cardinality(Calls)
  <2>1. Posted(t) \subseteq Calls
    BY DEF Posted, Gmail!Senders
  <2> QED
    BY <1>1, <1>2, <2>1, FS_Subset DEF OutboxCounted
<1> QED
  BY <1>3 DEF MailIInv, MailTypes, Gmail!TypeOK, Mails

-----------------------------------------------------------------------------
(* UserSessions.                                                           *)

States    == {"idle", "registering", "removing", "removed", "refreshing"}
Numbers   == 0 .. MaxUsers - 1
Arguments == [email : Addresses \cup {Null}, session : Sessions \cup {Null},
              user : Numbers \cup {Null}, tokens : SUBSET Session!TokenDocs]

(* What a caller holds is enough for its next step.                        *)
CallerOK(c) ==
  /\ step[c] = "registering" => args[c].email \in Addresses
  /\ args[c].session # Null => args[c].user \in Numbers

SessionIInv ==
  /\ Session!TypeOK
  /\ IsFiniteSet(users) /\ IsFiniteSet(tokens)
  /\ \A t \in tokens : t.no < issuedNo
  /\ \A c \in Callers : CallerOK(c)

(* The steps of the callers: those that change neither collection, and     *)
(* what the others need of what the caller holds.                          *)
Quiet(c) ==
  /\ \E to \in States \ {"registering"}, a \in Arguments :
       /\ step[c] # "registering"
       /\ Session!Step(c, step[c], to, a)
       /\ a.session # Null => a.user \in Numbers
  /\ UNCHANGED <<users, tokens, issuedNo, issued, removed, unseen, rivals, misled, sessionFaults>>

Creating(c, s, u) ==
  /\ step[c] # "registering" /\ Session!Step(c, step[c], "idle", Session!NoArgs)
  /\ Session!CreateToken(s, u)
  /\ UNCHANGED <<users, removed, rivals, misled>>

LEMMA SessionQuiet ==
  ASSUME SessionIInv, NEW c \in Callers,
         \/ \E e \in Addresses : Session!FindByEmail(c, e)
         \/ \E s \in Sessions, u \in users : Session!SignIn(c, s, u.no)
         \/ \E list \in SUBSET tokens : Session!Discard(c, list)
         \/ Session!RemoveMany(c) \/ Session!Done(c)
         \/ \E t \in tokens : Session!FindByTokenAndSessionId(c, t)
  PROVE  Quiet(c)
<1> USE DEF Session!Step, Session!NoArgs, Arguments, Numbers, States
<1>0. /\ users \subseteq [no : Numbers, email : Addresses]
      /\ tokens \subseteq Session!TokenDocs
      /\ args \in [Callers -> Arguments]
  BY DEF SessionIInv, Session!TypeOK
<1>1. ASSUME NEW to \in States \ {"registering"}, NEW a \in Arguments,
             step[c] # "registering", Session!Step(c, step[c], to, a),
             a.session # Null => a.user \in Numbers,
             UNCHANGED <<users, tokens, issuedNo, issued, removed, unseen, rivals, misled, sessionFaults>>
      PROVE  Quiet(c)
  BY <1>1 DEF Quiet
<1>2. ASSUME NEW e \in Addresses, Session!FindByEmail(c, e) PROVE Quiet(c)
  BY <1>1, <1>2 DEF Session!FindByEmail
<1>3. ASSUME NEW s \in Sessions, NEW u \in users, Session!SignIn(c, s, u.no) PROVE Quiet(c)
  <2> DEFINE a == [Session!NoArgs EXCEPT !.tokens = Session!FindByUserId(u.no), !.session = s, !.user = u.no]
  <2>1. Session!FindByUserId(u.no) \subseteq Session!TokenDocs /\ u.no \in Numbers
    BY <1>0 DEF Session!FindByUserId
  <2>2. a \in Arguments /\ a.user \in Numbers
    BY <2>1
  <2>3. step[c] = "idle" /\ Session!Step(c, "idle", "removing", a)
        /\ UNCHANGED <<users, tokens, issuedNo, issued, removed, unseen, rivals, misled, sessionFaults>>
    BY <1>3 DEF Session!SignIn
  <2> QED
    BY <1>1, <2>2, <2>3
<1>4. ASSUME NEW list \in SUBSET tokens, Session!Discard(c, list) PROVE Quiet(c)
  <2> DEFINE a == [Session!NoArgs EXCEPT !.tokens = list]
  <2>1. a \in Arguments /\ a.session = Null
    BY <1>0
  <2>2. step[c] = "idle" /\ Session!Step(c, "idle", "removing", a)
        /\ UNCHANGED <<users, tokens, issuedNo, issued, removed, unseen, rivals, misled, sessionFaults>>
    BY <1>4 DEF Session!Discard
  <2> QED
    BY <1>1, <2>1, <2>2
<1>5. ASSUME Session!RemoveMany(c) \/ Session!Done(c) PROVE Quiet(c)
  BY <1>0, <1>1, <1>5 DEF Session!RemoveMany, Session!Done, SessionIInv, CallerOK
<1>6. ASSUME NEW t \in tokens, Session!FindByTokenAndSessionId(c, t) PROVE Quiet(c)
  <2> DEFINE a == [Session!NoArgs EXCEPT !.tokens = {t}]
  <2>1. a \in Arguments /\ a.session = Null
    BY <1>0
  <2>2. step[c] = "idle" /\ Session!Step(c, "idle", "refreshing", a)
        /\ UNCHANGED <<users, tokens, issuedNo, issued, removed, unseen, rivals, misled, sessionFaults>>
    BY <1>6 DEF Session!FindByTokenAndSessionId
  <2> QED
    BY <1>1, <2>1, <2>2
<1> QED
  BY <1>2, <1>3, <1>4, <1>5, <1>6

LEMMA SessionCreates ==
  ASSUME SessionIInv, NEW c \in Callers, Session!Issue(c) \/ Session!Refresh(c)
  PROVE  \E s \in Sessions, u \in Numbers : Creating(c, s, u)
<1>0. args[c] \in Arguments
  BY DEF SessionIInv, Session!TypeOK, Arguments, Numbers
<1>1. CASE Session!Issue(c)
  <2>1. args[c].session \in Sessions /\ args[c].user \in Numbers
    BY <1>0, <1>1 DEF SessionIInv, CallerOK, Session!Issue, Arguments
  <2> QED
    BY <1>1, <2>1 DEF Session!Issue, Session!Step, Creating
<1>2. CASE Session!Refresh(c)
  <2>1. PICK t \in args[c].tokens : Session!CreateToken(t.session, t.user)
    BY <1>2 DEF Session!Refresh
  <2>2. t.session \in Sessions /\ t.user \in Numbers
    BY <1>0, <2>1 DEF Arguments, Numbers, Session!TokenDocs
  <2> QED
    BY <1>2, <2>1, <2>2 DEF Session!Refresh, Session!Step, Creating
<1> QED
  BY <1>1, <1>2

LEMMA SessionSteps ==
  ASSUME SessionIInv, [Session!Next]_sessionVars
  PROVE  \/ \E c \in Callers :
              \/ Quiet(c) \/ Session!CreateUser(c)
              \/ \E e \in Addresses : Session!FindByEmailNull(c, e)
              \/ \E s \in Sessions, u \in Numbers : Creating(c, s, u)
              \/ \E t \in Session!TokenDocs : Session!RemoveOne(c, t)
         \/ UNCHANGED sessionVars
<1>1. ASSUME NEW c \in Callers, NEW t \in args[c].tokens PROVE t \in Session!TokenDocs
  BY DEF SessionIInv, Session!TypeOK
<1> QED
  BY <1>1, SessionQuiet, SessionCreates DEF Session!Next

LEMMA SessionTyped == Spec => []SessionIInv
<1> USE DEF Arguments, Numbers, States, Session!Step, Session!NoArgs
<1>1. Init => SessionIInv
  <2> SUFFICES ASSUME Session!Init PROVE SessionIInv
    BY DEF Init
  <2>1. Session!TypeOK
    BY SharedStateAssumption DEF Session!SessionsAssumption, Session!Init, Session!TypeOK
  <2> QED
    BY <2>1, FS_EmptySet DEF SessionIInv, CallerOK, Session!Init
<1>2. SessionIInv /\ [Session!Next]_sessionVars => SessionIInv'
  <2> SUFFICES ASSUME SessionIInv, [Session!Next]_sessionVars PROVE SessionIInv'
    OBVIOUS
  <2>0. /\ MaxUsers \in Nat /\ MaxTokens \in Nat /\ MaxFaults \in Nat
        /\ args \in [Callers -> Arguments] /\ step \in [Callers -> States]
    BY SharedStateAssumption DEF Session!SessionsAssumption, SessionIInv, Session!TypeOK
  <2>1. ASSUME NEW c \in Callers, Quiet(c) PROVE SessionIInv'
    <3>1. PICK to \in States \ {"registering"}, a \in Arguments :
            /\ step' = [step EXCEPT ![c] = to] /\ args' = [args EXCEPT ![c] = a]
            /\ a.session # Null => a.user \in Numbers
      BY <2>1 DEF Quiet
    <3>2. UNCHANGED <<users, tokens, issuedNo, issued, removed, unseen, rivals, misled, sessionFaults>>
      BY <2>1 DEF Quiet
    <3>3. Session!TypeOK'
      BY <2>0, <3>1, <3>2 DEF SessionIInv, Session!TypeOK
    <3>4. ASSUME NEW d \in Callers PROVE CallerOK(d)'
      BY <2>0, <3>1 DEF SessionIInv, CallerOK
    <3> QED
      BY <3>2, <3>3, <3>4 DEF SessionIInv
  <2>2. ASSUME NEW c \in Callers, Session!CreateUser(c) PROVE SessionIInv'
    <3>1. /\ step[c] = "registering" /\ step' = [step EXCEPT ![c] = "idle"]
          /\ args' = [args EXCEPT ![c] = Session!NoArgs]
          /\ users' = users \cup {Session!User(Cardinality(users), args[c].email)}
          /\ Cardinality(users) < MaxUsers
          /\ UNCHANGED <<tokens, issuedNo, issued, removed, unseen, rivals, misled, sessionFaults>>
      BY <2>2 DEF Session!CreateUser, Session!Cardinality, Cardinality
    <3>2. Cardinality(users) \in Nat /\ IsFiniteSet(users')
      BY <3>1, FS_CardinalityType, FS_AddElement DEF SessionIInv
    <3>3. args[c].email \in Addresses
      BY <3>1 DEF SessionIInv, CallerOK
    <3>4. users' \subseteq [no : Numbers, email : Addresses]
      BY <2>0, <3>1, <3>2, <3>3 DEF SessionIInv, Session!TypeOK, Session!User
    <3>5. Session!TypeOK'
      BY <2>0, <3>1, <3>4 DEF SessionIInv, Session!TypeOK
    <3>6. ASSUME NEW d \in Callers PROVE CallerOK(d)'
      BY <2>0, <3>1 DEF SessionIInv, CallerOK
    <3> QED
      BY <3>1, <3>2, <3>5, <3>6 DEF SessionIInv
  <2>3. ASSUME NEW c \in Callers, NEW e \in Addresses, Session!FindByEmailNull(c, e) PROVE SessionIInv'
    <3> DEFINE a == [Session!NoArgs EXCEPT !.email = e]
    <3>1. /\ step' = [step EXCEPT ![c] = "registering"] /\ args' = [args EXCEPT ![c] = a]
          /\ rivals' \in SUBSET Addresses /\ misled' \in SUBSET Addresses /\ sessionFaults' \in Nat
          /\ UNCHANGED <<users, tokens, issuedNo, issued, removed, unseen>>
      BY <2>3 DEF Session!FindByEmailNull, Session!Fault, SessionIInv, Session!TypeOK
    <3>2. a \in Arguments /\ a.session = Null /\ a.email = e
      OBVIOUS
    <3>3. Session!TypeOK'
      BY <2>0, <3>1, <3>2 DEF SessionIInv, Session!TypeOK
    <3>4. ASSUME NEW d \in Callers PROVE CallerOK(d)'
      BY <2>0, <3>1, <3>2 DEF SessionIInv, CallerOK
    <3> QED
      BY <3>1, <3>3, <3>4 DEF SessionIInv
  <2>4. ASSUME NEW c \in Callers, NEW s \in Sessions, NEW u \in Numbers, Creating(c, s, u)
        PROVE  SessionIInv'
    <3> DEFINE new == Session!Token(issuedNo, s, u)
    <3>1. /\ step' = [step EXCEPT ![c] = "idle"] /\ args' = [args EXCEPT ![c] = Session!NoArgs]
          /\ UNCHANGED <<users, removed, rivals, misled>>
          /\ \/ issuedNo < MaxTokens /\ issuedNo' = issuedNo + 1 /\ tokens' = tokens \cup {new}
             \/ UNCHANGED <<tokens, issuedNo>>
      BY <2>4 DEF Creating, Session!CreateToken
    <3>2. issued' \in [Sessions -> Nat] /\ unseen' \in [Sessions -> Nat] /\ sessionFaults' \in Nat
      <4>1. issued \in [Sessions -> Nat] /\ unseen \in [Sessions -> Nat] /\ sessionFaults \in Nat
        BY DEF SessionIInv, Session!TypeOK
      <4>2. /\ sessionFaults' \in {sessionFaults, sessionFaults + 1}
            /\ \/ issued' = issued \/ issued' = [issued EXCEPT ![s] = @ + 1]
            /\ \/ unseen' = unseen \/ unseen' = [unseen EXCEPT ![s] = @ + 1]
        BY <2>4 DEF Creating, Session!CreateToken, Session!Fault
      <4> QED
        BY <4>1, <4>2
    <3>3. issuedNo \in Nat /\ \A t \in tokens : t \in Session!TokenDocs /\ t.no < issuedNo
      BY <2>0 DEF SessionIInv, Session!TypeOK
    <3>4. /\ new.no = issuedNo
          /\ issuedNo < MaxTokens => new \in Session!TokenDocs
      BY <2>0, <3>1, <3>3 DEF Session!Token, Session!TokenDocs
    <3> HIDE DEF new
    <3>5. /\ tokens' \subseteq Session!TokenDocs /\ \A t \in tokens' : t.no < issuedNo'
          /\ \A x, y \in tokens' : x.no = y.no => x = y
      <4>1. \A t \in tokens : t.no \in Nat
        BY <2>0, <3>3 DEF Session!TokenDocs
      <4>2. \A x, y \in tokens : x.no = y.no => x = y
        BY DEF SessionIInv, Session!TypeOK
      <4>3. CASE issuedNo < MaxTokens /\ issuedNo' = issuedNo + 1 /\ tokens' = tokens \cup {new}
        BY <3>3, <3>4, <4>1, <4>2, <4>3
      <4>4. CASE UNCHANGED <<tokens, issuedNo>>
        BY <3>3, <4>2, <4>4
      <4> QED
        BY <3>1, <4>3, <4>4
    <3>6. IsFiniteSet(tokens') /\ issuedNo' \in 0 .. MaxTokens
      <4>1. IsFiniteSet(tokens) /\ issuedNo \in 0 .. MaxTokens
        BY DEF SessionIInv, Session!TypeOK
      <4>2. CASE issuedNo < MaxTokens /\ issuedNo' = issuedNo + 1 /\ tokens' = tokens \cup {new}
        <5>1. IsFiniteSet(tokens')
          BY <4>1, <4>2, FS_AddElement
        <5>2. issuedNo' \in 0 .. MaxTokens
          BY <2>0, <4>1, <4>2
        <5> QED
          BY <5>1, <5>2
      <4>3. CASE UNCHANGED <<tokens, issuedNo>>
        BY <4>1, <4>3
      <4> QED
        BY <3>1, <4>2, <4>3
    <3>7. Session!TypeOK'
      BY <2>0, <3>1, <3>2, <3>3, <3>5, <3>6 DEF SessionIInv, Session!TypeOK
    <3>8. ASSUME NEW d \in Callers PROVE CallerOK(d)'
      BY <2>0, <3>1 DEF SessionIInv, CallerOK
    <3> QED
      BY <3>1, <3>5, <3>6, <3>7, <3>8 DEF SessionIInv
  <2>5. ASSUME NEW c \in Callers, NEW t \in Session!TokenDocs, Session!RemoveOne(c, t)
        PROVE  SessionIInv'
    <3>1. /\ step' = [step EXCEPT ![c] = "idle"] /\ args' = [args EXCEPT ![c] = Session!NoArgs]
          /\ tokens' \in {tokens \ {t}, tokens}
          /\ UNCHANGED <<users, issuedNo, issued, rivals, misled>>
      BY <2>5 DEF Session!RemoveOne, Session!Step
    <3>2. removed' \in [Sessions -> Nat] /\ unseen' \in [Sessions -> Nat] /\ sessionFaults' \in Nat
      <4>1. removed \in [Sessions -> Nat] /\ unseen \in [Sessions -> Nat] /\ sessionFaults \in Nat
        BY DEF SessionIInv, Session!TypeOK
      <4>2. /\ sessionFaults' \in {sessionFaults, sessionFaults + 1}
            /\ removed' = removed \/ removed' = [removed EXCEPT ![t.session] = @ + 1]
            /\ unseen' = unseen \/ unseen' = [unseen EXCEPT ![t.session] = @ + 1]
        BY <2>5 DEF Session!RemoveOne, Session!Fault
      <4> QED
        BY <4>1, <4>2
    <3>3. IsFiniteSet(tokens')
      BY <3>1, FS_RemoveElement DEF SessionIInv
    <3>4. Session!TypeOK'
      BY <2>0, <3>1, <3>2 DEF SessionIInv, Session!TypeOK
    <3>5. ASSUME NEW d \in Callers PROVE CallerOK(d)'
      BY <2>0, <3>1 DEF SessionIInv, CallerOK
    <3> QED
      BY <3>1, <3>3, <3>4, <3>5 DEF SessionIInv
  <2>6. CASE UNCHANGED sessionVars
    BY <2>6 DEF sessionVars, SessionIInv, Session!TypeOK, CallerOK
  <2> QED
    BY <2>1, <2>2, <2>3, <2>4, <2>5, <2>6, SessionSteps
<1> QED
  BY <1>1, <1>2, PartStep, PTL DEF Spec

(* Who is about to register an address that is taken, or that another one  *)
(* is about to register too, was told a lie or has a rival.                *)
Excused == rivals \cup misled

AddressesApart ==
  /\ \A u, v \in users : u # v /\ u.email = v.email => u.email \in Excused
  /\ \A c \in Callers, u \in users :
       step[c] = "registering" /\ u.email = args[c].email => u.email \in Excused
  /\ \A c, d \in Callers :
       /\ c # d /\ step[c] = "registering" /\ step[d] = "registering"
       /\ args[c].email = args[d].email
       => args[c].email \in Excused

LEMMA AddressStep ==
  ASSUME SessionIInv, AddressesApart, [Session!Next]_sessionVars
  PROVE  AddressesApart'
<1> USE DEF AddressesApart, Excused
<1>0. DOMAIN step = Callers /\ DOMAIN args = Callers
  BY DEF SessionIInv, Session!TypeOK
<1>1. ASSUME NEW c \in Callers, NEW to \in States \ {"registering"}, NEW a,
             Session!Step(c, step[c], to, a), UNCHANGED <<users, rivals, misled>>
      PROVE  AddressesApart'
  BY <1>0, <1>1 DEF Session!Step
<1>2. ASSUME NEW c \in Callers, Quiet(c) PROVE AddressesApart'
  BY <1>1, <1>2 DEF Quiet
<1>3. ASSUME NEW c \in Callers, NEW s, NEW u, Creating(c, s, u) PROVE AddressesApart'
  BY <1>1, <1>3 DEF Creating, States
<1>4. ASSUME NEW c \in Callers, NEW t, Session!RemoveOne(c, t) PROVE AddressesApart'
  <2>1. step[c] = "refreshing" /\ Session!Step(c, step[c], "idle", Session!NoArgs)
        /\ UNCHANGED <<users, rivals, misled>>
    BY <1>4 DEF Session!RemoveOne, Session!Step
  <2> QED
    BY <1>1, <2>1 DEF States
<1>5. ASSUME NEW c \in Callers, Session!CreateUser(c) PROVE AddressesApart'
  <2> DEFINE new == Session!User(Session!Cardinality(users), args[c].email)
  <2>1. /\ step[c] = "registering" /\ step' = [step EXCEPT ![c] = "idle"]
        /\ args' = [args EXCEPT ![c] = Session!NoArgs]
        /\ users' = users \cup {new} /\ UNCHANGED <<rivals, misled>>
    BY <1>5 DEF Session!CreateUser, Session!Step
  <2>2. new.email = args[c].email
    BY DEF Session!User
  <2> HIDE DEF new
  <2>3. ASSUME NEW u \in users', NEW v \in users', u # v, u.email = v.email
        PROVE  u.email \in Excused'
    BY <2>1, <2>2, <2>3
  <2>4. ASSUME NEW d \in Callers, NEW u \in users', step'[d] = "registering", u.email = args'[d].email
        PROVE  u.email \in Excused'
    <3>1. d # c /\ step[d] = "registering" /\ args'[d] = args[d]
      BY <1>0, <2>1, <2>4
    <3> QED
      BY <2>1, <2>2, <2>4, <3>1
  <2>5. ASSUME NEW d \in Callers, NEW g \in Callers, d # g, step'[d] = "registering",
               step'[g] = "registering", args'[d].email = args'[g].email
        PROVE  args'[d].email \in Excused'
    BY <1>0, <2>1, <2>5
  <2> QED
    BY <2>3, <2>4, <2>5
<1>6. ASSUME NEW c \in Callers, NEW e \in Addresses, Session!FindByEmailNull(c, e)
      PROVE  AddressesApart'
  <2>1. /\ step[c] = "idle" /\ step' = [step EXCEPT ![c] = "registering"]
        /\ args' = [args EXCEPT ![c] = [Session!NoArgs EXCEPT !.email = e]]
        /\ users' = users /\ rivals \subseteq rivals' /\ misled \subseteq misled'
        /\ (\A u \in users : u.email # e) \/ e \in misled'
        /\ Session!Registering(e) # {} => e \in rivals'
    BY <1>6 DEF Session!FindByEmailNull, Session!Step
  <2>2. args'[c].email = e /\ step'[c] = "registering"
    BY <1>0, <2>1 DEF Session!NoArgs
  <2>3. \A d \in Callers : d # c => step'[d] = step[d] /\ args'[d] = args[d]
    BY <1>0, <2>1
  <2>4. \A d \in Callers : d # c /\ step[d] = "registering" /\ args[d].email = e => e \in Excused'
    BY <2>1 DEF Session!Registering
  <2>5. Excused \subseteq Excused'
    BY <2>1
  <2>6. ASSUME NEW d \in Callers, NEW u \in users', step'[d] = "registering", u.email = args'[d].email
        PROVE  u.email \in Excused'
    BY <2>1, <2>2, <2>3, <2>5, <2>6
  <2>7. ASSUME NEW d \in Callers, NEW g \in Callers, d # g, step'[d] = "registering",
               step'[g] = "registering", args'[d].email = args'[g].email
        PROVE  args'[d].email \in Excused'
    BY <2>2, <2>3, <2>4, <2>5, <2>7
  <2> QED
    BY <2>1, <2>5, <2>6, <2>7
<1>7. CASE UNCHANGED sessionVars
  BY <1>7 DEF sessionVars
<1> QED
  BY <1>2, <1>3, <1>4, <1>5, <1>6, <1>7, SessionSteps

(* The tokens of a session are those issued to it and not acknowledged as  *)
(* removed, up to one for every answer that was lost.                      *)
TokensOf(s) == {t \in tokens : t.session = s}

Balanced == \A s \in Sessions :
  Session!Apart(Cardinality(TokensOf(s)) + removed[s], issued[s]) <= unseen[s]

LEMMA TokenStep ==
  ASSUME SessionIInv, Balanced, [Session!Next]_sessionVars
  PROVE  Balanced'
<1> USE DEF Balanced, Session!Apart
<1>0. /\ issued \in [Sessions -> Nat] /\ removed \in [Sessions -> Nat] /\ unseen \in [Sessions -> Nat]
      /\ tokens \subseteq Session!TokenDocs /\ IsFiniteSet(tokens) /\ issuedNo \in Nat
  BY SharedStateAssumption DEF SessionIInv, Session!TypeOK, Session!SessionsAssumption
<1>1. ASSUME NEW s \in Sessions
      PROVE  IsFiniteSet(TokensOf(s)) /\ Cardinality(TokensOf(s)) \in Nat
  BY <1>0, FS_Subset, FS_CardinalityType DEF TokensOf
<1>2. CASE UNCHANGED <<tokens, issued, removed, unseen>>
  BY <1>2 DEF TokensOf
<1>3. ASSUME NEW c \in Callers, NEW s \in Sessions, NEW u \in Numbers, Creating(c, s, u)
      PROVE  Balanced'
  <2> DEFINE new == Session!Token(issuedNo, s, u)
  <2>0. SUFFICES ASSUME ~UNCHANGED <<tokens, issued, removed, unseen>> PROVE Balanced'
    BY <1>2
  <2>1. /\ tokens' = tokens \cup {new} /\ removed' = removed
        /\ \/ issued' = [issued EXCEPT ![s] = @ + 1] /\ unseen' = unseen
           \/ unseen' = [unseen EXCEPT ![s] = @ + 1] /\ issued' = issued
    BY <1>3, <2>0 DEF Creating, Session!CreateToken
  <2>2. new.session = s /\ new \notin tokens
    BY <1>0 DEF Session!Token, SessionIInv
  <2> HIDE DEF new
  <2>3. TokensOf(s)' = TokensOf(s) \cup {new} /\ new \notin TokensOf(s)
    BY <2>1, <2>2 DEF TokensOf
  <2>4. Cardinality(TokensOf(s)') = Cardinality(TokensOf(s)) + 1
    BY <1>1, <2>3, FS_AddElement
  <2>5. \A q \in Sessions : q # s => TokensOf(q)' = TokensOf(q)
    BY <2>1, <2>2 DEF TokensOf
  <2> QED
    BY <1>0, <1>1, <2>1, <2>4, <2>5
<1>4. ASSUME NEW c \in Callers, NEW t \in Session!TokenDocs, Session!RemoveOne(c, t) PROVE Balanced'
  <2>0. SUFFICES ASSUME ~UNCHANGED <<tokens, issued, removed, unseen>> PROVE Balanced'
    BY <1>2
  <2>1. /\ tokens' = tokens \ {t} /\ issued' = issued
        /\ \/ /\ removed' = IF t \in tokens THEN [removed EXCEPT ![t.session] = @ + 1] ELSE removed
              /\ unseen' = unseen
           \/ /\ unseen' = IF t \in tokens THEN [unseen EXCEPT ![t.session] = @ + 1] ELSE unseen
              /\ removed' = removed
    BY <1>4, <2>0 DEF Session!RemoveOne, Session!Acknowledged
  <2>2. CASE t \notin tokens
    BY <1>2, <2>1, <2>2
  <2>3. CASE t \in tokens
    <3> DEFINE s == t.session
    <3>1. s \in Sessions
      BY DEF Session!TokenDocs
    <3>2. TokensOf(s)' = TokensOf(s) \ {t} /\ t \in TokensOf(s)
      BY <2>1, <2>3 DEF TokensOf
    <3>3. Cardinality(TokensOf(s)') = Cardinality(TokensOf(s)) - 1
      <4>1. IsFiniteSet(TokensOf(s))
        BY <1>1, <3>1
      <4>2. Cardinality(TokensOf(s) \ {t}) = Cardinality(TokensOf(s)) - 1
        BY <3>2, <4>1, FS_RemoveElement
      <4> QED
        BY <3>2, <4>2
    <3>4. \A q \in Sessions : q # s => TokensOf(q)' = TokensOf(q)
      BY <2>1 DEF TokensOf
    <3> HIDE DEF s
    <3>5. /\ issued' = issued
          /\ \/ removed' = [removed EXCEPT ![s] = @ + 1] /\ unseen' = unseen
             \/ unseen' = [unseen EXCEPT ![s] = @ + 1] /\ removed' = removed
      BY <2>1, <2>3 DEF s
    <3> QED
      BY <1>0, <1>1, <3>1, <3>3, <3>4, <3>5
  <2> QED
    BY <2>2, <2>3
<1> QED
  BY <1>2, <1>3, <1>4, SessionSteps DEF Quiet, Session!CreateUser, Session!FindByEmailNull, sessionVars

LEMMA SessionBalanced == Spec => [](AddressesApart /\ Balanced)
<1>1. Init => AddressesApart /\ Balanced
  <2> SUFFICES ASSUME Session!Init PROVE AddressesApart /\ Balanced
    BY DEF Init
  <2>1. AddressesApart
    BY DEF Session!Init, AddressesApart
  <2>2. \A s \in Sessions : TokensOf(s) = {}
    BY DEF Session!Init, TokensOf
  <2> QED
    BY <2>1, <2>2, FS_EmptySet DEF Session!Init, Balanced, Session!Apart
<1>2. SessionIInv /\ AddressesApart /\ Balanced /\ [Session!Next]_sessionVars
      => (AddressesApart /\ Balanced)'
  BY AddressStep, TokenStep
<1> QED
  BY <1>1, <1>2, SessionTyped, PartStep, PTL DEF Spec

-----------------------------------------------------------------------------
(* EntityStore.                                                            *)

Values == {Absent, "null", "old", "new", "USER", "ADMIN", "twitter"}
Dates  == {Absent, "birth", "rebuilt"}
Shape  == [id : Entity!AnyId \cup {Absent}, createdAt : Dates, fields : [Entity!Fields -> Values]]

LEMMA EntityShape == Entity!Entities = Shape
  BY DEF Entity!Entities, Entity!EntitiesOf, Entity!Fields, Shape, Values, Dates

(* What insertion, an update and a query make of an entity.                *)
LEMMA InsertedShape ==
  ASSUME NEW e \in Shape, SharedStateAssumption
  PROVE  /\ Entity!Inserted(e) \in Shape /\ Entity!Inserted(e).id \in Entity!AnyId
         /\ Entity!Inserted(e).createdAt = "birth"
         /\ e.id # Absent => Entity!Inserted(e).id = e.id
         /\ e.id = Absent => Entity!Inserted(e).id = 0
<1> DEFINE F == [f \in Entity!Fields |-> IF e.fields[f] = Absent THEN Entity!Default(f) ELSE e.fields[f]]
           n == IF e.id = Absent THEN 0 ELSE e.id
<1>1. F \in [Entity!Fields -> Values]
  BY DEF Shape, Values, Entity!Default
<1>2. n \in Entity!AnyId
  BY SharedStateAssumption DEF Entity!EntityAssumption, Shape, Entity!AnyId
<1>3. Entity!Inserted(e) = [e EXCEPT !.id = n, !.createdAt = "birth", !.fields = F]
  BY DEF Entity!Inserted, Entity!SharedId, Shape
<1> HIDE DEF F, n
<1> DEFINE d == [e EXCEPT !.id = n, !.createdAt = "birth", !.fields = F]
<1>4. d \in Shape /\ d.id = n /\ d.createdAt = "birth"
  BY <1>1, <1>2 DEF Shape, Dates
<1> QED
  BY <1>2, <1>3, <1>4 DEF n

LEMMA MergedShape ==
  ASSUME NEW d \in Shape, NEW e \in Shape
  PROVE  /\ Entity!Merged(d, e) \in Shape /\ Entity!Merged(d, e).id = d.id
         /\ Entity!Merged(d, e).createdAt = e.createdAt
         /\ \A f \in Entity!Fields :
              Entity!Merged(d, e).fields[f] = IF e.fields[f] = Absent THEN d.fields[f] ELSE e.fields[f]
<1> DEFINE F == [f \in Entity!Fields |-> IF e.fields[f] = Absent THEN d.fields[f] ELSE e.fields[f]]
<1>1. F \in [Entity!Fields -> Values]
  BY DEF Shape
<1>2. Entity!Merged(d, e) = [d EXCEPT !.fields = F, !.createdAt = e.createdAt]
  BY DEF Entity!Merged
<1>3. \A f \in Entity!Fields : F[f] = IF e.fields[f] = Absent THEN d.fields[f] ELSE e.fields[f]
  OBVIOUS
<1> HIDE DEF F
<1> QED
  BY <1>1, <1>2, <1>3 DEF Shape

LEMMA QueriedShape ==
  ASSUME NEW d \in Shape
  PROVE  /\ Entity!Queried(d) \in Shape /\ Entity!Queried(d).id = d.id
         /\ Entity!Queried(d).createdAt = Absent /\ Entity!Queried(d).fields = d.fields
         /\ Entity!Projected(d) \in Shape /\ Entity!Projected(d).id = Absent
         /\ Entity!Projected(d).createdAt = Absent /\ Entity!Projected(d).fields = d.fields
  BY DEF Entity!Queried, Entity!Projected, Shape, Dates

(* Ids name documents.                                                     *)
LEMMA DocOfId ==
  ASSUME Entity!TypeOK, NEW id \in Entity!Ids
  PROVE  /\ Entity!Doc(id) \in db /\ Entity!Doc(id) \in Shape /\ Entity!Doc(id).id = id
         /\ id \in Entity!AnyId
         /\ \A d \in db : d.id = id => d = Entity!Doc(id)
<1>1. \E d \in db : d.id = id
  BY DEF Entity!Ids
<1>2. Entity!Doc(id) \in db /\ Entity!Doc(id).id = id
  BY <1>1 DEF Entity!Doc
<1> QED
  BY <1>2, EntityShape DEF Entity!TypeOK

(* A builder with one field set, built.                                    *)
LEMMA BuiltShape ==
  ASSUME NEW b \in Shape, NEW f \in Entity!Fields, NEW update \in BOOLEAN, NEW n \in Entity!AnyId
  PROVE  LET e == Entity!Build([b EXCEPT !.fields[f] = "new"], update, n)
         IN  /\ e \in Shape
             /\ e.id = Entity!BuiltId(b, update, n)
             /\ \A g \in Entity!Fields : g # f => e.fields[g] = b.fields[g]
             /\ b.createdAt # Absent => e.createdAt = b.createdAt
<1> DEFINE B == [b EXCEPT !.fields[f] = "new"]
<1>1. /\ B \in Shape /\ B.id = b.id /\ B.createdAt = b.createdAt
      /\ \A g \in Entity!Fields : g # f => B.fields[g] = b.fields[g]
  BY DEF Shape, Values
<1>2. Entity!BuiltId(B, update, n) = Entity!BuiltId(b, update, n)
  BY <1>1 DEF Entity!BuiltId
<1>3. Entity!BuiltId(B, update, n) \in Entity!AnyId \cup {Absent}
  BY <1>1 DEF Entity!BuiltId, Shape
<1> HIDE DEF B
<1>4. Entity!Build(B, update, n) \in Shape
  BY <1>1, <1>3 DEF Entity!Build, Shape, Dates
<1> QED
  BY <1>1, <1>2, <1>4 DEF Entity!Build, B

LEMMA BuilderShape ==
  /\ Entity!EmptyBuilder \in Shape /\ Entity!EmptyBuilder.id = Absent
  /\ \A f \in Entity!Fields : Entity!EmptyBuilder.fields[f] = Absent
  /\ \A e \in Shape :
       /\ Entity!ToBuilder(e) \in Shape /\ Entity!ToBuilder(e).id = e.id
       /\ Entity!ToBuilder(e).createdAt = e.createdAt
       /\ \A f \in Entity!Fields :
            Entity!ToBuilder(e).fields[f] = IF f = "role" THEN Absent ELSE e.fields[f]
  BY DEF Entity!EmptyBuilder, Entity!ToBuilder, Entity!DateCopied, Entity!Copied, Shape, Values, Dates

(* The steps of the clients, by what they change.  A builder is built: the *)
(* client then holds an entity under a new id or under that of the one it  *)
(* held, without a role, and with the date of the one it held.             *)
EditedTo(c, e, f) ==
  /\ held' = [held EXCEPT ![c] = e]
  /\ set' = [set EXCEPT ![c] = {f}]
  /\ ended' = "done"
  /\ UNCHANGED <<kind, db, from, stale, dated, dbFaults>>
  /\ "role" \in Entity!Fields => e.fields["role"] = Absent
  /\ \/ drawn < MaxIds /\ drawn' = drawn + 1 /\ fresh' = fresh \cup {c}
     \/ /\ drawn' = drawn /\ fresh' = fresh \ {c} /\ Entity!Holds(c)
        /\ e.id \in {held[c].id, Absent}
  /\ \/ /\ ~Entity!Holds(c) /\ c \in fresh'
        /\ \A g \in Entity!Fields : g # f => e.fields[g] = Absent
     \/ /\ Entity!Holds(c) /\ set[c] = {}
        /\ \A g \in Entity!Fields : g # f => e.fields[g] \in {held[c].fields[g], Absent}
        /\ held[c].createdAt # Absent => e.createdAt = held[c].createdAt

EditStep(c) == \E e \in Shape, f \in Entity!Fields : EditedTo(c, e, f)

(* What c saves is under another id than the document it is saved over, or *)
(* is a user under an id that is taken.                                    *)
Throws(c) ==
  \/ /\ Entity!Saves(c)
     /\ \E id \in Entity!Ids : from[c] \in {id, Absent} /\ held[c].id \notin {id, Absent}
  \/ kind = "user" /\ Entity!Creates(c) /\ Entity!Inserted(held[c]).id \in Entity!Ids

(* e stands for the document id, with or without the id itself.            *)
CopyOf(e, id, documents) ==
  \E d \in documents : d.id = id /\ e.id \in {id, Absent} /\ e.fields = d.fields

(* A call ends and leaves the documents as they are.                       *)
KeepStep(c) == \E e \in Shape \cup {Null}, id \in Entity!AnyId \cup {Absent} :
  \E how \in {"done", "null", "error", "failed", "found"} :
    /\ Entity!Answered(c, e, id, how) /\ Entity!Kept(c)
    /\ (e = Null /\ id = Absent) \/ (e \in Shape /\ CopyOf(e, id, db))
    /\ how = "error" => Throws(c)

(* Documents are removed.                                                  *)
DropStep(c) == \E ids : \E how \in {"done", "null", "failed"} :
  /\ Entity!Answered(c, Null, Absent, how) /\ Entity!Delete(c, ids)
  /\ how = "null" => db' = db

(* A document is added, and its creator may not be told so.                *)
AddStep(c) ==
  /\ Entity!Insert(c)
  /\ \/ Entity!Answered(c, Entity!Inserted(held[c]), Entity!Inserted(held[c]).id, "created")
     \/ Entity!Answered(c, Null, Absent, "failed")

(* A document is saved over, or its role set.                              *)
ChangeStep(c) == \E id \in Entity!Ids, new \in Shape :
  /\ new.id = id
  /\ Entity!Change(c, Entity!Doc(id), new)
  /\ Entity!Answered(c, Entity!Queried(new), id, "updated") \/ Entity!Answered(c, Null, Absent, "failed")
  /\ \/ Entity!Updates(c, id) /\ new = Entity!Merged(Entity!Doc(id), held[c])
     \/ new.createdAt = Entity!Doc(id).createdAt /\ ~Entity!Holds(c)

CallStep(c) == dbFaults' \in Nat /\ (KeepStep(c) \/ DropStep(c) \/ AddStep(c) \/ ChangeStep(c))

LEMMA EntityEdits ==
  ASSUME Entity!TypeOK, SharedStateAssumption, NEW c \in Clients, NEW f \in Entity!Copied \cap Edits,
         Entity!New(c, f) \/ \E update \in BOOLEAN : Entity!Rebuild(c, f, update)
  PROVE  EditStep(c)
<1>0. f \in Entity!Fields /\ f # "role" /\ drawn \in 1 .. MaxIds /\ MaxIds \in Nat
      /\ held \in [Clients -> Shape \cup {Null}]
  BY EntityShape DEF Entity!Copied, Entity!TypeOK, SharedStateAssumption, Entity!EntityAssumption
<1>1. CASE Entity!New(c, f)
  <2> DEFINE e == Entity!Build([Entity!EmptyBuilder EXCEPT !.fields[f] = "new"], FALSE, drawn + 1)
  <2>1. /\ drawn < MaxIds /\ drawn' = drawn + 1 /\ fresh' = fresh \cup {c} /\ ~Entity!Holds(c)
        /\ held' = [held EXCEPT ![c] = e] /\ set' = [set EXCEPT ![c] = {f}] /\ ended' = "done"
        /\ UNCHANGED <<kind, db, from, stale, dated, dbFaults>>
    BY <1>1 DEF Entity!New, Entity!Draws, Entity!Edited
  <2>2. drawn + 1 \in Entity!AnyId
    BY <1>0, <2>1 DEF Entity!AnyId
  <2>3. e \in Shape /\ \A g \in Entity!Fields : g # f => e.fields[g] = Absent
    <3>1. Entity!EmptyBuilder \in Shape /\ FALSE \in BOOLEAN
      BY BuilderShape
    <3>2. e \in Shape /\ \A g \in Entity!Fields : g # f => e.fields[g] = Entity!EmptyBuilder.fields[g]
      BY <1>0, <2>2, <3>1, BuiltShape
    <3> HIDE DEF e
    <3> QED
      BY <3>2, BuilderShape
  <2> HIDE DEF e
  <2> QED
    BY <1>0, <2>1, <2>3 DEF EditStep, EditedTo
<1>2. ASSUME NEW update \in BOOLEAN, Entity!Rebuild(c, f, update) PROVE EditStep(c)
  <2> DEFINE b == Entity!ToBuilder(held[c])
             e == Entity!Build([b EXCEPT !.fields[f] = "new"], update, drawn + 1)
  <2>1. /\ Entity!Holds(c) /\ set[c] = {}
        /\ IF ~update \/ kind = "token"
           THEN drawn < MaxIds /\ drawn' = drawn + 1 /\ fresh' = fresh \cup {c}
           ELSE drawn' = drawn /\ fresh' = fresh \ {c}
        /\ held' = [held EXCEPT ![c] = e] /\ set' = [set EXCEPT ![c] = {f}] /\ ended' = "done"
        /\ UNCHANGED <<kind, db, from, stale, dated, dbFaults>>
    BY <1>2 DEF Entity!Rebuild, Entity!Draws, Entity!Edited
  <2>2. held[c] \in Shape
    BY <1>0, <2>1 DEF Entity!Holds
  <2>3. /\ b \in Shape /\ b.id = held[c].id /\ b.createdAt = held[c].createdAt
        /\ \A g \in Entity!Fields : b.fields[g] = IF g = "role" THEN Absent ELSE held[c].fields[g]
    BY <2>2, BuilderShape
  <2> HIDE DEF b
  <2>4. \E n \in Entity!AnyId : e = Entity!Build([b EXCEPT !.fields[f] = "new"], update, n)
    <3>1. CASE ~update \/ kind = "token"
      <4>1. drawn + 1 \in Entity!AnyId
        BY <1>0, <2>1, <3>1 DEF Entity!AnyId
      <4> QED
        BY <4>1
    <3>2. CASE ~(~update \/ kind = "token")
      <4>1. e = Entity!Build([b EXCEPT !.fields[f] = "new"], update, drawn)
        BY <3>2 DEF Entity!Build, Entity!BuiltId
      <4>2. drawn \in Entity!AnyId
        BY <1>0 DEF Entity!AnyId
      <4> QED
        BY <4>1, <4>2
    <3> QED
      BY <3>1, <3>2
  <2>5. PICK n \in Entity!AnyId : e = Entity!Build([b EXCEPT !.fields[f] = "new"], update, n)
    BY <2>4
  <2> HIDE DEF e
  <2>6. /\ e \in Shape /\ e.id = Entity!BuiltId(b, update, n)
        /\ \A g \in Entity!Fields : g # f => e.fields[g] = b.fields[g]
        /\ b.createdAt # Absent => e.createdAt = b.createdAt
    BY <1>0, <2>3, <2>5, BuiltShape
  <2>7. /\ "role" \in Entity!Fields => e.fields["role"] = Absent
        /\ \A g \in Entity!Fields : g # f => e.fields[g] \in {held[c].fields[g], Absent}
        /\ held[c].createdAt # Absent => e.createdAt = held[c].createdAt
    BY <1>0, <2>3, <2>6
  <2>8. ~(~update \/ kind = "token") => e.id \in {held[c].id, Absent}
    BY <2>3, <2>6 DEF Entity!BuiltId
  <2>9. EditedTo(c, e, f)
    BY <2>1, <2>7, <2>8 DEF EditedTo
  <2> QED
    BY <1>0, <2>6, <2>9 DEF EditStep
<1> QED
  BY <1>1, <1>2

(* Calls that end with nothing to hold, and leave the documents.           *)
LEMMA KeepsNull ==
  ASSUME NEW c \in Clients, NEW how \in {"done", "null", "error", "failed"},
         Entity!Answered(c, Null, Absent, how), Entity!Kept(c), how = "error" => Throws(c)
  PROVE  KeepStep(c)
<1>1. how \in {"done", "null", "error", "failed", "found"}
  OBVIOUS
<1> QED
  BY <1>1 DEF KeepStep

(* A document is returned.                                                 *)
LEMMA KeepsFound ==
  ASSUME Entity!TypeOK, NEW c \in Clients, NEW id \in Entity!Ids, Entity!Kept(c),
         \/ Entity!Answered(c, Entity!Queried(Entity!Doc(id)), id, "found")
         \/ Entity!Answered(c, Entity!Projected(Entity!Doc(id)), id, "found")
  PROVE  KeepStep(c)
<1>1. /\ Entity!Doc(id) \in db /\ Entity!Doc(id) \in Shape /\ Entity!Doc(id).id = id
      /\ id \in Entity!AnyId
  BY DocOfId
<1>2. PICK e \in Shape : /\ Entity!Answered(c, e, id, "found")
                         /\ e.id \in {id, Absent} /\ e.fields = Entity!Doc(id).fields
  <2>1. CASE Entity!Answered(c, Entity!Queried(Entity!Doc(id)), id, "found")
    BY <1>1, <2>1, QueriedShape
  <2>2. CASE Entity!Answered(c, Entity!Projected(Entity!Doc(id)), id, "found")
    BY <1>1, <2>2, QueriedShape
  <2> QED
    BY <2>1, <2>2
<1>3. CopyOf(e, id, db)
  BY <1>1, <1>2 DEF CopyOf
<1>4. "found" \in {"done", "null", "error", "failed", "found"} /\ "found" # "error"
  OBVIOUS
<1> QED
  BY <1>1, <1>2, <1>3, <1>4 DEF KeepStep

(* What an update or a grant writes.                                       *)
LEMMA Written ==
  ASSUME Entity!TypeOK, NEW c \in Clients, NEW id \in Entity!AnyId, NEW role \in Entity!Roles
  PROVE  /\ Entity!Replace(c, id) =>
              /\ id \in Entity!Ids /\ Entity!Updates(c, id)
              /\ Entity!Saved(c, id) \in Shape /\ Entity!Saved(c, id).id = id
              /\ Entity!Change(c, Entity!Doc(id), Entity!Saved(c, id))
         /\ Entity!Grant(c, id, role) =>
              /\ id \in Entity!Ids /\ ~Entity!Holds(c)
              /\ Entity!Granted(id, role) \in Shape /\ Entity!Granted(id, role).id = id
              /\ Entity!Granted(id, role).createdAt = Entity!Doc(id).createdAt
              /\ Entity!Change(c, Entity!Doc(id), Entity!Granted(id, role))
<1>1. ASSUME Entity!Replace(c, id)
      PROVE  /\ id \in Entity!Ids /\ Entity!Updates(c, id)
             /\ Entity!Saved(c, id) \in Shape /\ Entity!Saved(c, id).id = id
             /\ Entity!Change(c, Entity!Doc(id), Entity!Saved(c, id))
  <2>1. id \in Entity!Ids /\ Entity!Updates(c, id) /\ Entity!Change(c, Entity!Doc(id), Entity!Saved(c, id))
    BY <1>1 DEF Entity!Replace
  <2>2. held[c] \in Shape
    BY <2>1, EntityShape DEF Entity!Updates, Entity!Saves, Entity!Holds, Entity!TypeOK
  <2> QED
    BY <2>1, <2>2, DocOfId, MergedShape DEF Entity!Saved
<1>2. ASSUME Entity!Grant(c, id, role)
      PROVE  /\ id \in Entity!Ids /\ ~Entity!Holds(c)
             /\ Entity!Granted(id, role) \in Shape /\ Entity!Granted(id, role).id = id
             /\ Entity!Granted(id, role).createdAt = Entity!Doc(id).createdAt
             /\ Entity!Change(c, Entity!Doc(id), Entity!Granted(id, role))
  <2>1. /\ id \in Entity!Ids /\ ~Entity!Holds(c)
        /\ Entity!Change(c, Entity!Doc(id), Entity!Granted(id, role))
    BY <1>2 DEF Entity!Grant
  <2>2. Entity!Doc(id) \in Shape /\ Entity!Doc(id).id = id
    BY <2>1, DocOfId
  <2>3. role \in Values
    BY DEF Entity!Roles, Values
  <2> QED
    BY <2>1, <2>2, <2>3 DEF Entity!Granted, Shape
<1> QED
  BY <1>1, <1>2

(* A document is written, and the caller told so or not.                   *)
LEMMA WrittenStepOf ==
  ASSUME Entity!TypeOK, NEW c \in Clients, NEW id \in Entity!AnyId,
         \/ /\ Entity!Replace(c, id)
            /\ \/ Entity!Answered(c, Entity!Queried(Entity!Saved(c, id)), Entity!Queried(Entity!Saved(c, id)).id, "updated")
               \/ Entity!Answered(c, Null, Absent, "failed")
         \/ \E role \in Entity!Roles :
              /\ Entity!Grant(c, id, role)
              /\ \/ Entity!Answered(c, Entity!Queried(Entity!Granted(id, role)), Entity!Queried(Entity!Granted(id, role)).id, "updated")
                 \/ Entity!Answered(c, Null, Absent, "failed")
  PROVE  ChangeStep(c)
<1>0. "USER" \in Entity!Roles
  BY DEF Entity!Roles
<1>1. CASE /\ Entity!Replace(c, id)
           /\ \/ Entity!Answered(c, Entity!Queried(Entity!Saved(c, id)), Entity!Queried(Entity!Saved(c, id)).id, "updated")
              \/ Entity!Answered(c, Null, Absent, "failed")
  <2>1. /\ id \in Entity!Ids /\ Entity!Updates(c, id)
        /\ Entity!Saved(c, id) \in Shape /\ Entity!Saved(c, id).id = id
        /\ Entity!Change(c, Entity!Doc(id), Entity!Saved(c, id))
    BY <1>0, <1>1, Written
  <2>2. Entity!Queried(Entity!Saved(c, id)).id = id
    BY <2>1, QueriedShape
  <2> QED
    BY <1>1, <2>1, <2>2 DEF ChangeStep, Entity!Saved
<1>2. ASSUME NEW role \in Entity!Roles, Entity!Grant(c, id, role),
             \/ Entity!Answered(c, Entity!Queried(Entity!Granted(id, role)), Entity!Queried(Entity!Granted(id, role)).id, "updated")
             \/ Entity!Answered(c, Null, Absent, "failed")
      PROVE  ChangeStep(c)
  <2>1. /\ id \in Entity!Ids /\ ~Entity!Holds(c)
        /\ Entity!Granted(id, role) \in Shape /\ Entity!Granted(id, role).id = id
        /\ Entity!Granted(id, role).createdAt = Entity!Doc(id).createdAt
        /\ Entity!Change(c, Entity!Doc(id), Entity!Granted(id, role))
    BY <1>2, Written
  <2>2. Entity!Queried(Entity!Granted(id, role)).id = id
    BY <2>1, QueriedShape
  <2> QED
    BY <1>2, <2>1, <2>2 DEF ChangeStep
<1> QED
  BY <1>1, <1>2

LEMMA EntitySteps ==
  ASSUME Entity!TypeOK, SharedStateAssumption, [Entity!Next]_entityVars
  PROVE  \/ \E c \in Clients : EditStep(c)
         \/ \E c \in Clients : CallStep(c)
         \/ UNCHANGED entityVars
<1>0. dbFaults \in Nat
  BY DEF Entity!TypeOK
<1>n. \A c : Entity!Fails(c) => dbFaults' \in Nat /\ Entity!Answered(c, Null, Absent, "failed")
  BY <1>0 DEF Entity!Fails
<1>e. \A c, how : Entity!Ends(c, how) => dbFaults' \in Nat /\ Entity!Answered(c, Null, Absent, how)
  BY <1>0 DEF Entity!Ends
<1>r. \A c, e, how : Entity!Returns(c, e, how) => dbFaults' \in Nat /\ Entity!Answered(c, e, e.id, how)
  BY <1>0 DEF Entity!Returns
<1>1. ASSUME NEW c \in Clients, NEW f \in Entity!Copied \cap Edits,
             Entity!New(c, f) \/ \E update \in BOOLEAN : Entity!Rebuild(c, f, update)
      PROVE  EditStep(c)
  BY <1>1, EntityEdits
<1>2. ASSUME NEW c \in Clients, NEW id \in Entity!AnyId, Entity!FindById(c, id) \/ Entity!FindOne(c, id)
      PROVE  CallStep(c)
  <2>1. CASE id \in Entity!Ids
    <3>1. /\ dbFaults' \in Nat /\ Entity!Kept(c)
          /\ \/ Entity!Answered(c, Entity!Queried(Entity!Doc(id)), Entity!Queried(Entity!Doc(id)).id, "found")
             \/ Entity!Answered(c, Entity!Projected(Entity!Doc(id)), id, "found")
      BY <1>0, <1>2, <1>r, <2>1 DEF Entity!FindById, Entity!FindOne
    <3>2. Entity!Queried(Entity!Doc(id)).id = id
      BY <2>1, DocOfId, QueriedShape
    <3> QED
      BY <2>1, <3>1, <3>2, KeepsFound DEF CallStep
  <2>2. CASE id \notin Entity!Ids
    <3>1. Entity!Ends(c, "null") /\ Entity!Kept(c)
      BY <1>2, <2>2 DEF Entity!FindById, Entity!FindOne
    <3>2. KeepStep(c)
      BY <1>e, <3>1, KeepsNull
    <3> QED
      BY <1>e, <3>1, <3>2 DEF CallStep
  <2> QED
    BY <2>1, <2>2
<1>3. ASSUME NEW c \in Clients, NEW id \in Entity!AnyId,
             Entity!FindOneAndUpdate(c, id) \/ \E role \in Entity!Roles : Entity!GrantRole(c, id, role)
      PROVE  CallStep(c)
  <2>1. CASE Entity!Replace(c, id) /\ Entity!Returns(c, Entity!Queried(Entity!Saved(c, id)), "updated")
    BY <1>r, <2>1, WrittenStepOf DEF CallStep
  <2>2. CASE Entity!Updates(c, id) /\ id \notin Entity!Ids /\ Entity!Ends(c, "null") /\ Entity!Kept(c)
    <3>1. KeepStep(c)
      BY <1>e, <2>2, KeepsNull
    <3> QED
      BY <1>e, <2>2, <3>1 DEF CallStep
  <2>3. CASE /\ Entity!Updates(c, id) /\ id \in Entity!Ids /\ held[c].id \notin {id, Absent}
             /\ Entity!Ends(c, "error") /\ Entity!Kept(c)
    <3>1. Throws(c)
      BY <2>3 DEF Throws, Entity!Updates
    <3>2. KeepStep(c)
      BY <1>e, <2>3, <3>1, KeepsNull
    <3> QED
      BY <1>e, <2>3, <3>2 DEF CallStep
  <2>4. ASSUME NEW role \in Entity!Roles, Entity!GrantRole(c, id, role) PROVE CallStep(c)
    <3>1. Entity!Grant(c, id, role) /\ Entity!Returns(c, Entity!Queried(Entity!Granted(id, role)), "updated")
      BY <2>4 DEF Entity!GrantRole
    <3> QED
      BY <1>r, <3>1, WrittenStepOf DEF CallStep
  <2> QED
    BY <1>3, <2>1, <2>2, <2>3, <2>4 DEF Entity!FindOneAndUpdate
<1>4. ASSUME NEW c \in Clients, Entity!Create(c) PROVE CallStep(c)
  <2>1. CASE Entity!Insert(c) /\ Entity!Returns(c, Entity!Inserted(held[c]), "created")
    BY <1>r, <2>1 DEF CallStep, AddStep
  <2>2. CASE /\ Entity!Creates(c) /\ Entity!Inserted(held[c]).id \in Entity!Ids
             /\ Entity!Ends(c, Entity!Refused("create")) /\ Entity!Kept(c)
    <3>1. /\ Entity!Refused("create") \in {"done", "null", "error", "failed"}
          /\ Entity!Refused("create") = "error" => kind = "user"
      BY DEF Entity!Refused, Entity!OwnMethods
    <3>2. Entity!Refused("create") = "error" => Throws(c)
      BY <2>2, <3>1 DEF Throws
    <3>3. Entity!Answered(c, Null, Absent, Entity!Refused("create")) /\ dbFaults' \in Nat
      BY <1>e, <2>2
    <3>4. KeepStep(c)
      BY <2>2, <3>1, <3>2, <3>3, KeepsNull
    <3> QED
      BY <3>3, <3>4 DEF CallStep
  <2> QED
    BY <1>4, <2>1, <2>2 DEF Entity!Create
<1>5. ASSUME NEW c \in Clients, NEW ids \in Entity!Filters(c), Entity!Remove(c, ids) PROVE CallStep(c)
  <2> DEFINE how == IF ids \cap Entity!Ids # {} THEN "done" ELSE "null"
  <2>1. Entity!Delete(c, ids) /\ Entity!Ends(c, how)
    BY <1>5 DEF Entity!Remove
  <2>2. how = "null" => db' = db
    <3>1. SUFFICES ASSUME ids \cap Entity!Ids = {} PROVE db' = db
      OBVIOUS
    <3>2. db' = {d \in db : d.id \notin ids}
      BY <2>1 DEF Entity!Delete
    <3> QED
      BY <3>1, <3>2 DEF Entity!Ids
  <2>3. how \in {"done", "null", "failed"}
    OBVIOUS
  <2> HIDE DEF how
  <2>4. Entity!Answered(c, Null, Absent, how) /\ dbFaults' \in Nat
    BY <1>e, <2>1
  <2>5. DropStep(c)
    BY <2>1, <2>2, <2>3, <2>4 DEF DropStep
  <2> QED
    BY <2>4, <2>5 DEF CallStep
<1>6. ASSUME NEW c \in Clients, Entity!CallFails(c) PROVE CallStep(c)
  <2>1. dbFaults' \in Nat /\ Entity!Answered(c, Null, Absent, "failed")
    BY <1>6, <1>n DEF Entity!CallFails
  <2>2. CASE Entity!Kept(c)
    <3>1. KeepStep(c)
      BY <2>1, <2>2, KeepsNull
    <3> QED
      BY <2>1, <3>1 DEF CallStep
  <2>3. CASE Entity!Insert(c)
    BY <2>1, <2>3 DEF CallStep, AddStep
  <2>4. ASSUME NEW id \in Entity!AnyId,
               Entity!Replace(c, id) \/ \E role \in Entity!Roles : Entity!Grant(c, id, role)
        PROVE  CallStep(c)
    BY <2>1, <2>4, WrittenStepOf DEF CallStep
  <2>5. ASSUME NEW ids \in Entity!Filters(c), Entity!Delete(c, ids) PROVE CallStep(c)
    <3>1. DropStep(c)
      BY <2>1, <2>5 DEF DropStep
    <3> QED
      BY <2>1, <3>1 DEF CallStep
  <2> QED
    BY <1>6, <2>2, <2>3, <2>4, <2>5 DEF Entity!CallFails
<1>7. ASSUME NEW c \in Clients, Entity!Forget(c) PROVE CallStep(c)
  <2>1. Entity!Ends(c, "done") /\ Entity!Kept(c)
    BY <1>7 DEF Entity!Forget
  <2>2. KeepStep(c)
    BY <1>e, <2>1, KeepsNull
  <2> QED
    BY <1>e, <2>1, <2>2 DEF CallStep
<1> QED
  BY <1>1, <1>2, <1>3, <1>4, <1>5, <1>6, <1>7 DEF Entity!Next

(* How a call may have ended.                                              *)
Hows == {"done", "null", "error", "failed", "found", "created", "updated"}

(* The end of a call keeps the types of what clients hold.                 *)
LEMMA EndsTyped ==
  ASSUME Entity!TypeOK, NEW c \in Clients, NEW e \in Shape \cup {Null},
         NEW id \in Entity!AnyId \cup {Absent}, NEW how \in Hows,
         Entity!Answered(c, e, id, how)
  PROVE  /\ held' \in [Clients -> Shape \cup {Null}]
         /\ ended' \in Hows
         /\ from' \in [Clients -> Entity!AnyId \cup {Absent}]
         /\ set' \in [Clients -> SUBSET Entity!Fields]
         /\ fresh' \subseteq Clients /\ dated' \subseteq Clients
         /\ kind' = kind /\ drawn' = drawn
  BY EntityShape DEF Entity!TypeOK, Entity!Answered

(* The collection holds one document per id, and knows whom it is stale    *)
(* for.                                                                    *)
DocsTyped(documents, staleness) ==
  /\ documents \subseteq Shape /\ \A d \in documents : d.id \in Entity!AnyId
  /\ \A d, e \in documents : d.id = e.id => d = e
  /\ staleness \in [Clients -> SUBSET Entity!Fields]

LEMMA TypesFrom ==
  ASSUME Entity!TypeOK, kind' = kind, drawn' \in 1 .. MaxIds,
         DocsTyped(db', stale'),
         held' \in [Clients -> Shape \cup {Null}],
         ended' \in Hows,
         from' \in [Clients -> Entity!AnyId \cup {Absent}],
         set' \in [Clients -> SUBSET Entity!Fields],
         fresh' \subseteq Clients, dated' \subseteq Clients, dbFaults' \in Nat
  PROVE  Entity!TypeOK'
<1>1. (Entity!Entities)' = Shape /\ Entity!Fields' = Entity!Fields
  BY EntityShape DEF Entity!Entities, Entity!Fields
<1>2. (Entity!Ids)' \subseteq Entity!AnyId
  BY DEF DocsTyped, Entity!Ids
<1> QED
  BY <1>1, <1>2 DEF Entity!TypeOK, DocsTyped, Hows

(* What each step makes of the documents.                                  *)
LEMMA DocsAfter ==
  ASSUME Entity!TypeOK, SharedStateAssumption, NEW c \in Clients,
         KeepStep(c) \/ DropStep(c) \/ AddStep(c) \/ ChangeStep(c)
  PROVE  DocsTyped(db', stale')
<1>0. DocsTyped(db, stale) /\ held \in [Clients -> Shape \cup {Null}]
  BY EntityShape DEF Entity!TypeOK, DocsTyped, Entity!Ids
<1>1. CASE KeepStep(c)
  BY <1>0, <1>1 DEF KeepStep, Entity!Kept, DocsTyped
<1>2. CASE DropStep(c)
  BY <1>0, <1>2 DEF DropStep, Entity!Delete, DocsTyped
<1>3. CASE AddStep(c)
  <2> DEFINE d == Entity!Inserted(held[c])
  <2>1. /\ held[c] \in Shape /\ d.id \notin Entity!Ids /\ db' = db \cup {d}
        /\ stale' = [x \in Clients |->
             IF x = c THEN {} ELSE IF from[x] = d.id THEN Entity!Fields ELSE stale[x]]
    BY <1>0, <1>3 DEF AddStep, Entity!Insert, Entity!Creates, Entity!Saves, Entity!Holds
  <2>2. d \in Shape /\ d.id \in Entity!AnyId
    BY <2>1, InsertedShape
  <2>3. stale' \in [Clients -> SUBSET Entity!Fields]
    BY <1>0, <2>1 DEF DocsTyped
  <2> HIDE DEF d
  <2> QED
    BY <1>0, <2>1, <2>2, <2>3 DEF DocsTyped, Entity!Ids
<1>4. CASE ChangeStep(c)
  <2>1. PICK id \in Entity!Ids, new \in Shape :
          new.id = id /\ Entity!Change(c, Entity!Doc(id), new)
    BY <1>4 DEF ChangeStep
  <2>2. id \in Entity!AnyId
    BY DEF Entity!TypeOK
  <2>3. /\ db' = (db \ {Entity!Doc(id)}) \cup {new}
        /\ stale' \in [Clients -> SUBSET Entity!Fields]
    BY <1>0, <2>1 DEF DocsTyped, Entity!Change
  <2>4. \A d \in db : d.id = id => d = Entity!Doc(id)
    BY DocOfId
  <2> QED
    BY <1>0, <2>1, <2>2, <2>3, <2>4 DEF DocsTyped
<1> QED
  BY <1>1, <1>2, <1>3, <1>4

(* What the caller holds after each: nothing, or what stands for a         *)
(* document, with its date of creation if create returned it.              *)
EndedWith(c, e, id, how) ==
  /\ Entity!Answered(c, e, id, how)
  /\ (e = Null /\ id = Absent) \/ (e \in Shape /\ CopyOf(e, id, db'))
  /\ how = "created" => e # Null /\ e.createdAt = "birth"

LEMMA EndsAs ==
  ASSUME Entity!TypeOK, SharedStateAssumption, NEW c \in Clients,
         KeepStep(c) \/ DropStep(c) \/ AddStep(c) \/ ChangeStep(c)
  PROVE  \E e \in Shape \cup {Null}, id \in Entity!AnyId \cup {Absent}, how \in Hows :
           EndedWith(c, e, id, how)
<1> USE DEF Hows
<1>0. held \in [Clients -> Shape \cup {Null}] /\ Null \notin Shape
  BY EntityShape, SharedStateAssumption DEF Entity!TypeOK, Entity!EntityAssumption, Entity!Entities
<1>n. ASSUME NEW how \in {"done", "null", "failed"}, Entity!Answered(c, Null, Absent, how)
      PROVE  \E e \in Shape \cup {Null}, id \in Entity!AnyId \cup {Absent}, h \in Hows :
               EndedWith(c, e, id, h)
  <2>1. EndedWith(c, Null, Absent, how) /\ how \in Hows
    BY <1>n DEF EndedWith
  <2> QED
    BY <2>1
<1>1. CASE KeepStep(c)
  <2>1. PICK e \in Shape \cup {Null}, id \in Entity!AnyId \cup {Absent},
             how \in {"done", "null", "error", "failed", "found"} :
          /\ Entity!Answered(c, e, id, how) /\ db' = db
          /\ (e = Null /\ id = Absent) \/ (e \in Shape /\ CopyOf(e, id, db))
    BY <1>1 DEF KeepStep, Entity!Kept
  <2>2. EndedWith(c, e, id, how) /\ how \in Hows
    BY <2>1 DEF EndedWith
  <2> QED
    BY <2>2
<1>2. CASE DropStep(c)
  BY <1>2, <1>n DEF DropStep
<1>3. CASE AddStep(c)
  <2> DEFINE d == Entity!Inserted(held[c])
  <2>1. /\ held[c] \in Shape /\ db' = db \cup {d}
        /\ Entity!Answered(c, d, d.id, "created") \/ Entity!Answered(c, Null, Absent, "failed")
    BY <1>0, <1>3 DEF AddStep, Entity!Insert, Entity!Creates, Entity!Saves, Entity!Holds
  <2>2. d \in Shape /\ d \in db' /\ d.id \in Entity!AnyId /\ d.createdAt = "birth" /\ d # Null
    BY <1>0, <2>1, InsertedShape
  <2> HIDE DEF d
  <2>3. CASE Entity!Answered(c, d, d.id, "created")
    <3>1. CopyOf(d, d.id, db')
      BY <2>2 DEF CopyOf
    <3>2. EndedWith(c, d, d.id, "created") /\ "created" \in Hows
      BY <2>2, <2>3, <3>1 DEF EndedWith
    <3> QED
      BY <2>2, <3>2
  <2> QED
    BY <1>n, <2>1, <2>3
<1>4. CASE ChangeStep(c)
  <2>1. PICK id \in Entity!Ids, new \in Shape :
          /\ new.id = id /\ Entity!Change(c, Entity!Doc(id), new)
          /\ \/ Entity!Answered(c, Entity!Queried(new), id, "updated")
             \/ Entity!Answered(c, Null, Absent, "failed")
    BY <1>4 DEF ChangeStep
  <2>2. CASE Entity!Answered(c, Entity!Queried(new), id, "updated")
    <3>1. new \in db' /\ id \in Entity!AnyId
      BY <2>1 DEF Entity!Change, Entity!TypeOK
    <3>2. Entity!Queried(new) \in Shape /\ CopyOf(Entity!Queried(new), id, db')
      BY <2>1, <3>1, QueriedShape DEF CopyOf
    <3>3. EndedWith(c, Entity!Queried(new), id, "updated") /\ "updated" \in Hows
      BY <2>2, <3>2 DEF EndedWith
    <3> QED
      BY <3>1, <3>2, <3>3
  <2> QED
    BY <1>n, <2>1, <2>2
<1> QED
  BY <1>1, <1>2, <1>3, <1>4

LEMMA EntityTyped == Spec => []Entity!TypeOK
<1>1. Init => Entity!TypeOK
  <2> SUFFICES ASSUME Entity!Init PROVE Entity!TypeOK
    BY DEF Init
  <2>0. MaxIds \in Nat \ {0}
    BY SharedStateAssumption DEF Entity!EntityAssumption
  <2>1. Entity!Old \in Shape /\ Entity!Old.id = 1
    BY <2>0 DEF Entity!Old, Shape, Values, Dates, Entity!AnyId
  <2>2. db \subseteq Shape /\ Entity!Ids \subseteq Entity!AnyId /\ \A d, e \in db : d.id = e.id => d = e
    BY <2>0, <2>1 DEF Entity!Init, Entity!Ids, Entity!AnyId
  <2> QED
    BY <2>0, <2>2, EntityShape DEF Entity!Init, Entity!Nobody, Entity!TypeOK
<1>2. Entity!TypeOK /\ [Entity!Next]_entityVars => Entity!TypeOK'
  <2> SUFFICES ASSUME Entity!TypeOK, [Entity!Next]_entityVars PROVE Entity!TypeOK'
    OBVIOUS
  <2>0. DocsTyped(db, stale) /\ MaxIds \in Nat
    BY EntityShape, SharedStateAssumption DEF Entity!TypeOK, DocsTyped, Entity!Ids, Entity!EntityAssumption
  <2>1. ASSUME NEW c \in Clients, EditStep(c) PROVE Entity!TypeOK'
    <3>1. DocsTyped(db', stale') /\ kind' = kind
      BY <2>0, <2>1 DEF EditStep, EditedTo
    <3>2. drawn' \in 1 .. MaxIds
      BY <2>0, <2>1 DEF EditStep, EditedTo, Entity!TypeOK
    <3>3. held' \in [Clients -> Shape \cup {Null}] /\ set' \in [Clients -> SUBSET Entity!Fields]
          /\ fresh' \subseteq Clients
      BY <2>1, EntityShape DEF EditStep, EditedTo, Entity!TypeOK
    <3>4. UNCHANGED <<from, dated, dbFaults>> /\ ended' \in Hows
      BY <2>1 DEF EditStep, EditedTo, Hows
    <3> QED
      BY <3>1, <3>2, <3>3, <3>4, TypesFrom DEF Entity!TypeOK
  <2>2. ASSUME NEW c \in Clients, CallStep(c) PROVE Entity!TypeOK'
    <3>1. PICK e \in Shape \cup {Null}, id \in Entity!AnyId \cup {Absent}, how \in Hows :
            Entity!Answered(c, e, id, how)
      BY <2>2, EndsAs, SharedStateAssumption DEF EndedWith, CallStep
    <3>2. DocsTyped(db', stale') /\ dbFaults' \in Nat
      BY <2>2, DocsAfter, SharedStateAssumption DEF CallStep
    <3>3. drawn' \in 1 .. MaxIds
      BY <3>1, EndsTyped DEF Entity!TypeOK
    <3> QED
      BY <3>1, <3>2, <3>3, EndsTyped, TypesFrom
  <2>3. CASE UNCHANGED entityVars
    BY <2>3 DEF entityVars, Entity!TypeOK, Entity!Ids, Entity!Entities, Entity!EntitiesOf, Entity!Fields
  <2> QED
    BY <2>1, <2>2, <2>3, EntitySteps, SharedStateAssumption
<1> QED
  BY <1>1, <1>2, PartStep, PTL DEF Spec

(* What a client holds of a document: outside of the field it set and of   *)
(* those others changed since, nothing that differs from the document; no  *)
(* role once it was built; the id of the document, or none, unless a new   *)
(* one was drawn; and the date of creation if it comes from create.        *)
CopyOK(c) ==
  /\ ~Entity!Holds(c) => from[c] = Absent /\ set[c] = {}
  /\ set[c] = {} => c \notin fresh
  /\ c \in dated => Entity!Holds(c) /\ held[c].createdAt = "birth"
  /\ Entity!Holds(c) =>
       /\ \A d \in db, f \in Entity!Fields \ (set[c] \cup stale[c]) :
            d.id = from[c] => held[c].fields[f] \in {Absent, d.fields[f]}
       /\ set[c] # {} /\ "role" \in Entity!Fields => held[c].fields["role"] = Absent
       /\ c \notin fresh => held[c].id \in {from[c], Absent}

CopiesOK == \A c \in Clients : CopyOK(c)

LEMMA NullIsNoEntity ==
  ASSUME Entity!TypeOK, SharedStateAssumption
  PROVE  Null \notin Shape
  BY EntityShape DEF Entity!TypeOK, Entity!Entities, SharedStateAssumption, Entity!EntityAssumption

(* The caller itself.                                                      *)
LEMMA CopyOfCaller ==
  ASSUME Entity!TypeOK, Entity!TypeOK', SharedStateAssumption, NEW c \in Clients,
         KeepStep(c) \/ DropStep(c) \/ AddStep(c) \/ ChangeStep(c)
  PROVE  CopyOK(c)'
<1>1. PICK e \in Shape \cup {Null}, id \in Entity!AnyId \cup {Absent}, how \in Hows :
        EndedWith(c, e, id, how)
  BY EndsAs
<1>2. /\ held'[c] = e /\ from'[c] = id /\ set'[c] = {}
      /\ c \notin fresh' /\ kind' = kind
      /\ c \in dated' => e # Null /\ e.createdAt = "birth"
  BY <1>1 DEF EndedWith, Entity!Answered, Entity!TypeOK
<1>3. Entity!Fields' = Entity!Fields /\ (\A d, x \in db' : d.id = x.id => d = x)
  BY <1>2 DEF Entity!Fields, Entity!TypeOK
<1>4. CASE e = Null
  <2>1. id = Absent
    BY <1>1, <1>4, NullIsNoEntity DEF EndedWith
  <2> QED
    BY <1>2, <1>4, <2>1 DEF CopyOK, Entity!Holds
<1>5. CASE e # Null
  <2>1. PICK d \in db' : d.id = id /\ e.id \in {id, Absent} /\ d.fields = e.fields
    BY <1>1, <1>5 DEF EndedWith, CopyOf
  <2>2. \A x \in db' : x.id = from'[c] => x.fields = held'[c].fields
    BY <1>2, <1>3, <1>5, <2>1
  <2> QED
    BY <1>2, <1>3, <1>5, <2>1, <2>2 DEF CopyOK, Entity!Holds
<1> QED
  BY <1>4, <1>5

(* The others: what they hold is what they held, and whatever changed of   *)
(* the document they are stale for.                                        *)
LEMMA CopyOfOthers ==
  ASSUME Entity!TypeOK, SharedStateAssumption, NEW c \in Clients, NEW g \in Clients, g # c,
         CopyOK(g), KeepStep(c) \/ DropStep(c) \/ AddStep(c) \/ ChangeStep(c)
  PROVE  CopyOK(g)'
<1>1. PICK e, i, how : Entity!Answered(c, e, i, how)
  BY EndsAs DEF EndedWith
<1>2. /\ held'[g] = held[g] /\ from'[g] = from[g] /\ set'[g] = set[g]
      /\ g \in fresh' <=> g \in fresh
      /\ g \in dated' <=> g \in dated
      /\ kind' = kind /\ Entity!Fields' = Entity!Fields
  BY <1>1 DEF Entity!Answered, Entity!TypeOK, Entity!Fields
<1>3. SUFFICES ASSUME Entity!Holds(g), NEW x \in db', x.id = from[g],
                      NEW f \in Entity!Fields \ (set[g] \cup stale'[g])
               PROVE  held[g].fields[f] \in {Absent, x.fields[f]}
  BY <1>2 DEF CopyOK, Entity!Holds
<1>4. \A d \in db, h \in Entity!Fields \ (set[g] \cup stale[g]) :
        d.id = from[g] => held[g].fields[h] \in {Absent, d.fields[h]}
  BY <1>3 DEF CopyOK
<1>5. CASE x \in db /\ f \notin stale[g]
  BY <1>3, <1>4, <1>5
<1>0. stale \in [Clients -> SUBSET Entity!Fields] /\ held \in [Clients -> Shape \cup {Null}]
  BY EntityShape DEF Entity!TypeOK
<1>6. CASE KeepStep(c)
  <2>1. db' = db /\ stale'[g] = stale[g]
    BY <1>0, <1>6 DEF KeepStep, Entity!Kept
  <2> QED
    BY <1>3, <1>5, <2>1
<1>7. CASE DropStep(c)
  <2>1. db' \subseteq db /\ stale'[g] = stale[g]
    BY <1>0, <1>7 DEF DropStep, Entity!Delete
  <2> QED
    BY <1>3, <1>5, <2>1
<1>8. CASE AddStep(c)
  <2> DEFINE d == Entity!Inserted(held[c])
  <2>1. /\ db' = db \cup {d}
        /\ stale'[g] = IF from[g] = d.id THEN Entity!Fields ELSE stale[g]
    BY <1>8 DEF AddStep, Entity!Insert
  <2> HIDE DEF d
  <2>2. from[g] # d.id
    BY <1>3, <2>1
  <2>3. stale'[g] = stale[g] /\ x \in db
    BY <1>3, <2>1, <2>2
  <2> QED
    BY <1>3, <1>5, <2>3
<1>9. CASE ChangeStep(c)
  <2>1. PICK id \in Entity!Ids, new \in Shape : new.id = id /\ Entity!Change(c, Entity!Doc(id), new)
    BY <1>9 DEF ChangeStep
  <2> DEFINE old == Entity!Doc(id)
  <2>2. old \in db /\ old.id = id
    BY DocOfId
  <2> HIDE DEF old
  <2>3. /\ db' = (db \ {old}) \cup {new}
        /\ stale'[g] = IF from[g] = old.id
                       THEN stale[g] \cup {h \in Entity!Fields : old.fields[h] # new.fields[h]}
                       ELSE stale[g]
    BY <2>1 DEF Entity!Change, old
  <2>4. f \notin stale[g]
    BY <1>3, <2>3
  <2>5. CASE x = new
    <3>1. old.fields[f] = new.fields[f]
      BY <1>3, <2>1, <2>2, <2>3, <2>5
    <3> QED
      BY <1>3, <1>4, <2>1, <2>2, <2>4, <2>5, <3>1
  <2>6. CASE x # new
    BY <1>3, <1>5, <2>3, <2>4, <2>6
  <2> QED
    BY <2>5, <2>6
<1> QED
  BY <1>6, <1>7, <1>8, <1>9

LEMMA CopyAfterEdit ==
  ASSUME Entity!TypeOK, SharedStateAssumption, NEW c \in Clients, NEW g \in Clients,
         CopyOK(g), EditStep(c)
  PROVE  CopyOK(g)'
<1>1. PICK e \in Shape, f \in Entity!Fields : EditedTo(c, e, f)
  BY DEF EditStep
<1>2. Entity!Fields' = Entity!Fields /\ e # Null
  BY <1>1, NullIsNoEntity DEF EditedTo, Entity!Fields
<1>3. DOMAIN held = Clients /\ DOMAIN set = Clients
  BY DEF Entity!TypeOK
<1>4. CASE g # c
  <2>1. /\ held'[g] = held[g] /\ set'[g] = set[g] /\ (g \in fresh' <=> g \in fresh)
        /\ from' = from /\ stale' = stale /\ dated' = dated /\ db' = db
    BY <1>1, <1>3, <1>4 DEF EditedTo
  <2> QED
    BY <1>2, <2>1 DEF CopyOK, Entity!Holds
<1>5. CASE g = c
  <2>1. /\ held'[c] = e /\ set'[c] = {f}
        /\ from' = from /\ stale' = stale /\ dated' = dated /\ db' = db
    BY <1>1, <1>3 DEF EditedTo
  <2>2. ASSUME NEW d \in db, NEW h \in Entity!Fields \ ({f} \cup stale[c]), d.id = from[c]
        PROVE  e.fields[h] \in {Absent, d.fields[h]}
    <3>1. CASE ~Entity!Holds(c)
      BY <1>1, <2>2, <3>1 DEF EditedTo
    <3>2. CASE Entity!Holds(c) /\ set[c] = {}
      <4>1. held[c].fields[h] \in {Absent, d.fields[h]}
        BY <1>5, <2>2, <3>2 DEF CopyOK
      <4>2. e.fields[h] \in {held[c].fields[h], Absent}
        BY <1>1, <2>2, <3>2 DEF EditedTo
      <4> QED
        BY <4>1, <4>2
    <3> QED
      BY <1>1, <3>1, <3>2 DEF EditedTo
  <2>3. c \notin fresh' => e.id \in {from[c], Absent}
    <3>1. SUFFICES ASSUME c \notin fresh' PROVE e.id \in {from[c], Absent}
      OBVIOUS
    <3>2. Entity!Holds(c) /\ set[c] = {} /\ e.id \in {held[c].id, Absent}
      BY <1>1, <3>1 DEF EditedTo
    <3> QED
      BY <1>5, <3>2 DEF CopyOK
  <2>4. c \in dated => e.createdAt = "birth"
    <3>1. SUFFICES ASSUME c \in dated PROVE e.createdAt = "birth"
      OBVIOUS
    <3>2. Entity!Holds(c) /\ held[c].createdAt = "birth" /\ "birth" # Absent
      BY <1>5, <3>1, SharedStateAssumption DEF CopyOK, Entity!EntityAssumption
    <3> QED
      BY <1>1, <3>2 DEF EditedTo
  <2>5. "role" \in Entity!Fields => e.fields["role"] = Absent
    BY <1>1 DEF EditedTo
  <2> QED
    BY <1>2, <1>5, <2>1, <2>2, <2>3, <2>4, <2>5 DEF CopyOK, Entity!Holds
<1> QED
  BY <1>4, <1>5

LEMMA EntityCopies == Spec => []CopiesOK
<1>1. Init => CopiesOK
  BY DEF Init, Entity!Init, Entity!Nobody, CopiesOK, CopyOK, Entity!Holds
<1>2. Entity!TypeOK /\ Entity!TypeOK' /\ CopiesOK /\ [Entity!Next]_entityVars => CopiesOK'
  <2> SUFFICES ASSUME Entity!TypeOK, Entity!TypeOK', CopiesOK, [Entity!Next]_entityVars,
                      NEW g \in Clients
               PROVE  CopyOK(g)'
    BY DEF CopiesOK
  <2>0. CopyOK(g)
    BY DEF CopiesOK
  <2>1. ASSUME NEW c \in Clients, EditStep(c) PROVE CopyOK(g)'
    BY <2>0, <2>1, CopyAfterEdit, SharedStateAssumption
  <2>2. ASSUME NEW c \in Clients, CallStep(c) PROVE CopyOK(g)'
    BY <2>0, <2>2, CopyOfCaller, CopyOfOthers, SharedStateAssumption DEF CallStep
  <2>3. CASE UNCHANGED entityVars
    BY <2>0, <2>3 DEF entityVars, CopyOK, Entity!Holds, Entity!Fields
  <2> QED
    BY <2>1, <2>2, <2>3, EntitySteps, SharedStateAssumption
<1> QED
  BY <1>1, <1>2, EntityTyped, PartStep, PTL DEF Spec

(* A document becomes another one of its id only when it is saved over, or *)
(* its role set.                                                           *)
LEMMA DocumentChanged ==
  ASSUME Entity!TypeOK, SharedStateAssumption, [Entity!Next]_entityVars,
         NEW d \in db, NEW e \in db', d.id = e.id, d # e
  PROVE  \E c \in Clients :
           /\ \E x, id, how : Entity!Answered(c, x, id, how)
           /\ \/ Entity!Updates(c, d.id) /\ e = Entity!Merged(d, held[c])
              \/ ~Entity!Holds(c) /\ e.createdAt = d.createdAt
<1>0. \A x, y \in db : x.id = y.id => x = y
  BY DEF Entity!TypeOK
<1>1. db' # db
  BY <1>0
<1>2. PICK c \in Clients : DropStep(c) \/ AddStep(c) \/ ChangeStep(c)
  BY <1>1, EntitySteps DEF EditStep, EditedTo, CallStep, KeepStep, Entity!Kept, entityVars
<1>3. ~DropStep(c)
  BY <1>0 DEF DropStep, Entity!Delete
<1>4. ~AddStep(c)
  BY <1>0 DEF AddStep, Entity!Insert, Entity!Ids
<1>5. PICK id \in Entity!Ids, new \in Shape :
        /\ new.id = id
        /\ Entity!Change(c, Entity!Doc(id), new)
        /\ \E x, i, how : Entity!Answered(c, x, i, how)
        /\ \/ Entity!Updates(c, id) /\ new = Entity!Merged(Entity!Doc(id), held[c])
           \/ new.createdAt = Entity!Doc(id).createdAt /\ ~Entity!Holds(c)
  BY <1>2, <1>3, <1>4 DEF ChangeStep
<1>6. db' = (db \ {Entity!Doc(id)}) \cup {new}
  BY <1>5 DEF Entity!Change
<1>7. e = new /\ d.id = id /\ d = Entity!Doc(id)
  BY <1>0, <1>5, <1>6, DocOfId
<1> QED
  BY <1>5, <1>7

(* Who is done has its call answered.                                      *)
LEMMA DoneAnswered ==
  ASSUME Entity!TypeOK, NEW c \in Clients, NEW a \in Clients,
         \E x, id, how : Entity!Answered(a, x, id, how)
  PROVE  /\ Entity!Done(c) => a = c
         /\ Entity!Saves(a) => Entity!Done(a)
  BY DEF Entity!TypeOK, Entity!Answered, Entity!Done, Entity!Saves

(* A save changes the field that was set and those the copy is stale for.  *)
SaveOverlaps ==
  \A c \in Clients : Entity!Done(c) /\ from[c] # Absent =>
    \A d \in db, e \in db' :
      d.id = e.id => {f \in Entity!Fields : d.fields[f] # e.fields[f]}
                       \subseteq set[c] \cup (stale[c] \ {"role"})

LEMMA SavesStep ==
  ASSUME Entity!TypeOK, CopiesOK, SharedStateAssumption, [Entity!Next]_entityVars
  PROVE  SaveOverlaps
<1> SUFFICES ASSUME NEW c \in Clients, Entity!Done(c), from[c] # Absent,
                    NEW d \in db, NEW e \in db', d.id = e.id,
                    NEW f \in Entity!Fields, d.fields[f] # e.fields[f]
             PROVE  f \in set[c] \cup (stale[c] \ {"role"})
  BY DEF SaveOverlaps
<1>1. PICK a \in Clients :
        /\ \E x, id, how : Entity!Answered(a, x, id, how)
        /\ \/ Entity!Updates(a, d.id) /\ e = Entity!Merged(d, held[a])
           \/ ~Entity!Holds(a) /\ e.createdAt = d.createdAt
  BY DocumentChanged
<1>2. a = c
  BY <1>1, DoneAnswered
<1>3. CopyOK(c) /\ set[c] # {}
  BY DEF CopiesOK, Entity!Done
<1>4. Entity!Holds(c)
  BY <1>3 DEF CopyOK
<1>5. from[c] = d.id /\ e = Entity!Merged(d, held[c])
  BY <1>1, <1>2, <1>3, <1>4 DEF Entity!Updates
<1>6. d \in Shape /\ held[c] \in Shape
  BY <1>4, EntityShape DEF Entity!TypeOK, Entity!Holds
<1>7. e.fields[f] = IF held[c].fields[f] = Absent THEN d.fields[f] ELSE held[c].fields[f]
  BY <1>5, <1>6, MergedShape
<1> QED
  BY <1>3, <1>4, <1>5, <1>7 DEF CopyOK

(* A call that answers null or throws with the database up changed nothing. *)
NullKeeps ==
  \A c \in Clients :
    Entity!Holds(c) /\ held'[c] = Null /\ ended' \in {"null", "error"} => db' = db

LEMMA NullStep ==
  ASSUME Entity!TypeOK, SharedStateAssumption, [Entity!Next]_entityVars
  PROVE  NullKeeps
<1> SUFFICES ASSUME NEW c \in Clients, Entity!Holds(c), held'[c] = Null, ended' \in {"null", "error"}
             PROVE  db' = db
  BY DEF NullKeeps
<1>1. ASSUME NEW a \in Clients, NEW e, NEW id, NEW how, Entity!Answered(a, e, id, how)
      PROVE  how \in {"null", "error"}
  BY <1>1 DEF Entity!Answered
<1>2. ASSUME NEW a \in Clients, KeepStep(a) PROVE db' = db
  BY <1>2 DEF KeepStep, Entity!Kept
<1>3. ASSUME NEW a \in Clients, DropStep(a) PROVE db' = db
  BY <1>1, <1>3 DEF DropStep
<1>4. ASSUME NEW a \in Clients, AddStep(a) PROVE db' = db
  BY <1>1, <1>4 DEF AddStep
<1>5. ASSUME NEW a \in Clients, ChangeStep(a) PROVE db' = db
  BY <1>1, <1>5 DEF ChangeStep
<1> QED
  BY <1>2, <1>3, <1>4, <1>5, EntitySteps DEF EditStep, EditedTo, CallStep, entityVars

(* An error is met by those who save an entity that was built under a new  *)
(* id, or create a user without one while the shared id is taken.          *)
ErrorsExplained ==
  \A c \in Clients :
    Entity!Holds(c) /\ held'[c] = Null /\ ended' = "error"
    => c \in fresh \/ (kind = "user" /\ held[c].id = Absent /\ Entity!SharedId \in Entity!Ids)

LEMMA ErrorStep ==
  ASSUME Entity!TypeOK, CopiesOK, SharedStateAssumption, [Entity!Next]_entityVars
  PROVE  ErrorsExplained
<1> SUFFICES ASSUME NEW c \in Clients, Entity!Holds(c), held'[c] = Null, ended' = "error", c \notin fresh
             PROVE  kind = "user" /\ held[c].id = Absent /\ Entity!SharedId \in Entity!Ids
  BY DEF ErrorsExplained
<1>0. held \in [Clients -> Shape \cup {Null}]
  BY EntityShape DEF Entity!TypeOK
<1>1. ASSUME NEW a \in Clients, NEW e \in Shape \cup {Null}, NEW id, NEW how,
             Entity!Answered(a, e, id, how)
      PROVE  a = c /\ how = "error"
  BY <1>0, <1>1 DEF Entity!Answered, Entity!Holds
<1>2. held' # held
  BY DEF Entity!Holds
<1>3. PICK a \in Clients : EditStep(a) \/ CallStep(a)
  BY <1>2, EntitySteps DEF entityVars
<1>4. KeepStep(a)
  <2>1. ~EditStep(a)
    BY DEF EditStep, EditedTo
  <2>2. ASSUME NEW e, NEW id, NEW how, Entity!Answered(a, e, id, how) PROVE how = "error"
    BY <2>2 DEF Entity!Answered
  <2>3. ~DropStep(a) /\ ~AddStep(a) /\ ~ChangeStep(a)
    BY <2>2 DEF DropStep, AddStep, ChangeStep
  <2> QED
    BY <1>3, <2>1, <2>2, <2>3 DEF CallStep
<1>5. Throws(c)
  BY <1>1, <1>4 DEF KeepStep
<1>6. ~(Entity!Saves(c) /\ \E id \in Entity!Ids : from[c] \in {id, Absent} /\ held[c].id \notin {id, Absent})
  BY DEF CopiesOK, CopyOK
<1>7. kind = "user" /\ Entity!Creates(c) /\ Entity!Inserted(held[c]).id \in Entity!Ids
  BY <1>5, <1>6 DEF Throws
<1>8. held[c].id = Absent
  BY <1>7 DEF Entity!Creates
<1>9. held[c] \in Shape
  BY <1>0 DEF Entity!Holds
<1> QED
  BY <1>7, <1>8, <1>9, InsertedShape, SharedStateAssumption DEF Entity!SharedId

(* A document loses its date of creation to an entity create did not       *)
(* return.                                                                 *)
DateKept ==
  \A d \in db, e \in db' :
    d.id = e.id /\ d.createdAt = "birth" /\ e.createdAt # "birth"
    => \E c \in Clients : Entity!Done(c) /\ c \notin dated

LEMMA DateStep ==
  ASSUME Entity!TypeOK, SharedStateAssumption, CopiesOK, [Entity!Next]_entityVars
  PROVE  DateKept
<1> SUFFICES ASSUME NEW d \in db, NEW e \in db', d.id = e.id,
                    d.createdAt = "birth", e.createdAt # "birth"
             PROVE  \E c \in Clients : Entity!Done(c) /\ c \notin dated
  BY DEF DateKept
<1>1. PICK c \in Clients :
        /\ \E x, id, how : Entity!Answered(c, x, id, how)
        /\ Entity!Updates(c, d.id) /\ e = Entity!Merged(d, held[c])
  BY DocumentChanged
<1>2. d \in Shape /\ held[c] \in Shape
  BY <1>1, EntityShape DEF Entity!Updates, Entity!Saves, Entity!Holds, Entity!TypeOK
<1>3. held[c].createdAt # "birth"
  BY <1>1, <1>2, MergedShape
<1>4. c \notin dated
  BY <1>3 DEF CopiesOK, CopyOK
<1>5. Entity!Done(c)
  BY <1>1, DoneAnswered DEF Entity!Updates
<1> QED
  BY <1>4, <1>5

-----------------------------------------------------------------------------
(* No request of a call, to Google's calendar or to its mail, is carried   *)
(* out for another account than the one whose token the call came with,    *)
(* whatever the calls that meanwhile overwrite the client of the provider. *)
THEOREM OwnAccounts == Spec => []OwnAccountOnly
<1>1. CalendarIInv /\ MailIInv => OwnAccountOnly
  BY DEF CalendarIInv, MailIInv, MailCallOK, OwnAccountOnly, Calendar!OwnAccountOnly,
     Gmail!OwnMailboxOnly
<1> QED
  BY <1>1, CalendarTyped, MailTyped, PTL

(* A call that returned had its change made exactly once, one that threw   *)
(* had none made unless its answer was lost; a mailbox has sent one mail   *)
(* per call that was served, and none that was incomplete.                 *)
THEOREM TruthfulAnswers == Spec => []AnswersTellTheTruth
<1>1. WrittenOnce => Calendar!AnswersTellTheTruth
  BY DEF WrittenOnce, WrittenByCall, Calendar!AnswersTellTheTruth
<1>2. MailIInv => Gmail!IncompleteNeverSent
  BY DEF MailIInv, MailCallOK, Gmail!IncompleteNeverSent
<1>3. MailIInv /\ OutboxCounted => Gmail!AnswersTellTheTruth
  <2> SUFFICES ASSUME MailIInv, OutboxCounted PROVE Gmail!AnswersTellTheTruth
    OBVIOUS
  <2>1. \A c \in Calls : /\ mailPc[c] = "returned" => mailServed[c] # {}
                         /\ mailPc[c] = "thrown" /\ c \notin mailBroken => mailServed[c] = {}
    BY DEF MailIInv, MailCallOK
  <2>2. ASSUME NEW t \in Tokens
        PROVE  Len(outbox[t]) = Gmail!Cardinality({c \in Gmail!Senders(t) : mailServed[c] # {}})
    <3>1. Gmail!Cardinality(Posted(t)) = Cardinality(Posted(t))
      BY DEF Gmail!Cardinality, Cardinality
    <3>2. Len(outbox[t]) = Gmail!Cardinality(Posted(t))
      BY <3>1 DEF OutboxCounted
    <3> QED
      BY <3>2 DEF Posted
  <2> QED
    BY <2>1, <2>2 DEF Gmail!AnswersTellTheTruth
<1> QED
  BY <1>1, <1>2, <1>3, CalendarCounted, MailTyped, MailCounted, PTL DEF AnswersTellTheTruth

(* Two users share an address only after two registrations at one time, or *)
(* a lookup that failed and was taken for absence; the tokens of a session *)
(* are those issued to it and not removed, up to answers that got lost.    *)
THEOREM AccountedSessions == Spec => []SessionsAccounted
<1>1. AddressesApart => Session!SharedAddressExplained
  BY DEF AddressesApart, Excused, Session!SharedAddressExplained
<1>2. Balanced => Session!TokensAccounted
  <2> SUFFICES ASSUME Balanced, NEW s \in Sessions
               PROVE  Session!Apart(Session!Stored(s) + removed[s], issued[s]) <= unseen[s]
    BY DEF Session!TokensAccounted
  <2>1. Session!Stored(s) = Cardinality(TokensOf(s))
    BY DEF Session!Stored, TokensOf, Session!Cardinality, Cardinality
  <2> QED
    BY <2>1 DEF Balanced
<1> QED
  BY <1>1, <1>2, SessionBalanced, PTL DEF SessionsAccounted

(* The types of whichever component the behaviour is about.                *)
THEOREM TypeCorrect == Spec => []TypeOK
<1> DEFINE Parts == part \in {"calendar", "gmail", "entity", "session"}
<1>1. Init => Parts
  BY DEF Init
<1>2. Parts /\ [Next]_vars => Parts'
  BY DEF Next, vars
<1>3. Parts /\ CalendarIInv /\ MailIInv /\ OutboxCounted /\ Entity!TypeOK /\ SessionIInv => TypeOK
  BY MailTypeOK, SharedStateAssumption DEF TypeOK, CalendarIInv, SessionIInv
<1> QED
  BY <1>1, <1>2, <1>3, CalendarTyped, MailTyped, MailCounted, EntityTyped, SessionTyped, PTL DEF Spec

(* The request of a removal that changes an event.                         *)
RemovalUndoes ==
  \A c \in Calls, t \in Tokens, e \in Events :
    Calendar!WritesNow(c, t, e) /\ call[c].op = "removeAttendee"
    => Calendar!Differ(Calendar!Attending(store[t][e]), Calendar!Attending(store'[t][e]))
         \subseteq call[c].people \cup missed[c]

LEMMA RemovalStep ==
  ASSUME CalendarIInv, ReadsKept, [Calendar!Next]_calendarVars
  PROVE  RemovalUndoes
<1> SUFFICES ASSUME NEW c \in Calls, NEW t \in Tokens, NEW e \in Events,
                    Calendar!WritesNow(c, t, e), call[c].op = "removeAttendee"
             PROVE  Calendar!Differ(Calendar!Attending(store[t][e]), Calendar!Attending(store'[t][e]))
                      \subseteq call[c].people \cup missed[c]
  BY DEF RemovalUndoes
<1>1. store' # store /\ pc[c] = "sent" /\ pc'[c] = "served"
  BY DEF Calendar!WritesNow
<1>2. PICK a \in Calls, x \in Events : Calendar!Write(a, x)
  BY <1>1, CalendarSteps DEF Invoked, Calendar!Method, Calendar!google, Calendar!PatchRemaining,
     Calendar!NoAttendees, Calendar!Return, Calendar!List, Calendar!Get, Calendar!Answer,
     Calendar!Refuse, Calendar!Break, calendarVars
<1>3. a = c
  BY <1>1, <1>2 DEF Calendar!Write, Calendar!Serve
<1>4. t = bound[c] /\ e = x
  <2>1. store' = [store EXCEPT ![bound[c]][x] = Calendar!Changed(c, x)]
    BY <1>2, <1>3 DEF Calendar!Write, Calendar!Client
  <2> QED
    BY <2>1 DEF Calendar!WritesNow, CalendarIInv, Calendar!TypeOK
<1> QED
  BY <1>2, <1>3, <1>4, PatchMoves

(* Read, edit and write back: a removal of attendees undoes only what was  *)
(* changed since its read, and a save of an entity only what was changed   *)
(* since it was loaded; with the database up, a call that takes an entity  *)
(* and answers null or throws changed nothing, and throws only for an      *)
(* entity built under a new id and saved over a document, or for a user    *)
(* without an id whose shared one is taken; a document loses its date of   *)
(* creation only to a save of an entity create did not return.             *)
THEOREM ExplainedWrites == Spec => WritesExplained
<1>1. CalendarIInv /\ ReadsKept /\ [Next]_vars => [RemovalUndoes]_(Calendar!vars)
  BY RemovalStep, PartStep
<1>2. Entity!TypeOK /\ CopiesOK /\ [Next]_vars
      => /\ [SaveOverlaps]_(Entity!vars) /\ [NullKeeps]_(Entity!vars)
         /\ [ErrorsExplained]_(Entity!vars) /\ [DateKept]_(Entity!vars)
  BY SavesStep, NullStep, ErrorStep, DateStep, PartStep, SharedStateAssumption
<1>3. Spec => [][RemovalUndoes]_(Calendar!vars)
  BY <1>1, CalendarTyped, CalendarReads, PTL DEF Spec
<1>4. Spec => /\ [][SaveOverlaps]_(Entity!vars) /\ [][NullKeeps]_(Entity!vars)
              /\ [][ErrorsExplained]_(Entity!vars) /\ [][DateKept]_(Entity!vars)
  BY <1>2, EntityTyped, EntityCopies, PTL DEF Spec
<1> QED
  BY <1>3, <1>4 DEF WritesExplained, Calendar!RemovalUndoesOverlappingOnly,
     Entity!UpdateLosesOverlappingOnly, Entity!NullMeansUnchanged, Entity!ThrowsExplained,
     Entity!CreationDateKept, RemovalUndoes, SaveOverlaps, NullKeeps, ErrorsExplained, DateKept
=============================================================================
