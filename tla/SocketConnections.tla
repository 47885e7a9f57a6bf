------------------------- MODULE SocketConnections --------------------------
(***************************************************************************)
(* SocketConnectionAdaptor (common/adapters/socket.adaptor.ts) and the     *)
(* chat-bot gateway and service that make one per connection.  An adaptor  *)
(* pairs the server with a client, or is made for the server alone; what   *)
(* it knows of the client is kept on the client itself, so all adaptors of *)
(* one client share it and it ends with the connection.                    *)
(*                                                                         *)
(* A socket that connects again is another socket.  socket.io is the       *)
(* environment: it delivers to a live client, to the clients of the named  *)
(* rooms (here the room of each client's own id), or to all.               *)
(***************************************************************************)
EXTENDS Naturals

CONSTANTS Sockets,    \* connections, by the id socket.io gives each
          Holders,    \* parts of the program that keep an adaptor
          Names,      \* names of events, besides the default one
          None,       \* no client, no adaptor, no recipient
          MaxDrawn    \* bound: backend ids drawn

\* The id of a connection is no list of connections.
SocketAssumption ==
  /\ None \notin Sockets \cup Names /\ MaxDrawn \in Nat
  /\ \A s \in Sockets, t \in SUBSET Sockets : s # t

VARIABLES
  sharedServer,  \* is SocketConnectionAdaptor.__sharedServer set
  live,          \* connected sockets
  seen,          \* sockets that connected at some time
  backendId,     \* socket -> its backend connection id, 0 for none
  authorized,    \* sockets whose IS_AUTHORIZED is set
  drawn,         \* backend ids drawn so far
  adaptor,       \* holder -> its adaptor
  last           \* the last event sent: how, under which name, and who received it

clients == <<live, seen, backendId, authorized, drawn>>
vars    == <<sharedServer, clients, adaptor, last>>

Default == "__DEFAULT_EVENT__"
Blank   == "  "
Private(s)  == <<"__id__", s>>
Named(e)    == <<e>>
Recipients  == {None} \cup SUBSET Sockets \cup Sockets
NothingSent == [by |-> "none", asked |-> Blank, to |-> None, client |-> None, name |-> Named(Blank),
                result |-> FALSE, reached |-> {}]

Init ==
  /\ sharedServer = FALSE
  /\ live = {} /\ seen = {}
  /\ backendId = [s \in Sockets |-> 0]
  /\ authorized = {}
  /\ drawn = 0
  /\ adaptor = [h \in Holders |-> None]
  /\ last = NothingSent

-----------------------------------------------------------------------------
(* The gateway and the service. *)

OnModuleInit ==
  /\ ~sharedServer
  /\ sharedServer' = TRUE
  /\ UNCHANGED <<clients, adaptor, last>>

\* Variant: the drawing is not counted.
DrawUncounted(s, n) ==
  drawn < MaxDrawn /\ UNCHANGED drawn /\ backendId' = [backendId EXCEPT ![s] = n]

\* Variant: the id is drawn once and kept in the class.
DrawShared(s, n) == drawn < MaxDrawn /\ drawn' = n /\ backendId' = [backendId EXCEPT ![s] = 1]

Draw(s, n) == drawn < MaxDrawn /\ drawn' = n /\ backendId' = [backendId EXCEPT ![s] = n]

\* handleConnection: the constructor gives the client a backend id, and
\* refreshBackendConnectionId at once another one.
HandleConnection(s) ==
  /\ sharedServer
  /\ s \notin seen
  /\ seen' = seen \cup {s} /\ live' = live \cup {s}
  /\ Draw(s, drawn + 2)
  /\ UNCHANGED <<sharedServer, authorized, adaptor, last>>

\* handleDisconnect only logs; whoever keeps an adaptor keeps the dead client.
HandleDisconnect(s) ==
  /\ s \in live
  /\ live' = live \ {s}
  /\ UNCHANGED <<sharedServer, seen, backendId, authorized, drawn, adaptor, last>>

-----------------------------------------------------------------------------
(* The adaptor. *)

\* of(server, client), of(undefined, client), of(): a missing server is the
\* shared one, as it is now; a client that has a backend id keeps it.
Of(h, server, c) ==
  /\ c # None => server
  /\ server => sharedServer
  /\ adaptor' = [adaptor EXCEPT ![h] = [server |-> server \/ sharedServer, client |-> c]]
  /\ UNCHANGED <<sharedServer, clients, last>>

Holds(h)  == adaptor[h] # None
Client(h) == adaptor[h].client

\* Without a client nothing is set; isAuthorized is false then.
SetAuthorized(h, isAuthorized) ==
  /\ Holds(h) /\ Client(h) # None
  /\ authorized' = IF isAuthorized THEN authorized \cup {Client(h)} ELSE authorized \ {Client(h)}
  /\ UNCHANGED <<sharedServer, live, seen, backendId, drawn, adaptor, last>>

RefreshBackendConnectionId(h) ==
  /\ Holds(h) /\ Client(h) # None
  /\ Draw(Client(h), drawn + 1)
  /\ UNCHANGED <<sharedServer, live, seen, authorized, adaptor, last>>

\* Variant: the default event has one name for all clients.
EventNameCommon(h, event) == Named(IF event = Blank THEN Default ELSE event)

\* The default event, and one without a name, is the client's own one; an
\* adaptor without a client has none.
EventName(h, event) ==
  IF event \notin {Default, Blank} THEN Named(event)
  ELSE IF Client(h) # None THEN Private(Client(h)) ELSE Named(Blank)

\* The rooms an event of the server goes to.  No room at all means everybody.
Rooms(recipient) ==
  CASE recipient \in {None, {}} -> Sockets
    [] recipient \in Sockets    -> {recipient}
    [] OTHER                    -> recipient

Sent(h, by, asked, to, name, result, reached) ==
  /\ last' = [by |-> by, asked |-> asked, to |-> to, client |-> Client(h), name |-> name,
              result |-> result, reached |-> reached]
  /\ UNCHANGED <<sharedServer, clients, adaptor>>

\* Variant: the operator `to' returns is used, so the recipients get the event.
ToClientBroadcast(h, recipient) == live \cap Rooms(recipient)

\* client.to(recipient) returns an operator that is dropped: client.emit goes
\* to the client, whoever the recipient is.
ToClient(h, recipient) == live \cap {Client(h)}

SendEventToClient(h, event, recipient) ==
  LET name == EventName(h, event)
      Answer(result, reached) == Sent(h, "client", event, recipient, name, result, reached)
  IN /\ Holds(h)
     /\ IF name = Named(Blank) THEN Answer(FALSE, {})
        ELSE IF Client(h) # None THEN Answer(TRUE, ToClient(h, recipient))
        ELSE Answer(adaptor[h].server, IF adaptor[h].server THEN live \cap Rooms(recipient) ELSE {})

\* The server's own events have no default name.
SendEventToServer(h, event, recipient) ==
  LET ok == event # Blank /\ adaptor[h].server IN
  /\ Holds(h)
  /\ Sent(h, "server", event, recipient, Named(event), ok, IF ok THEN live \cap Rooms(recipient) ELSE {})

\* Each event goes to the room of its own name; the events here are named after
\* connections, as nothing else makes a room.
SendEventsToServer(h, events) ==
  /\ Holds(h)
  /\ Sent(h, "events", Blank, events, Named(Blank), adaptor[h].server,
          IF adaptor[h].server THEN live \cap events ELSE {})

Next ==
  \/ OnModuleInit
  \/ \E s \in Sockets : HandleConnection(s) \/ HandleDisconnect(s)
  \/ \E h \in Holders :
       \/ \E server \in BOOLEAN, c \in seen \cup {None} : Of(h, server, c)
       \/ \E b \in BOOLEAN : SetAuthorized(h, b)
       \/ RefreshBackendConnectionId(h)
       \/ \E recipient \in Recipients, event \in Names \cup {Default, Blank} :
            SendEventToClient(h, event, recipient) \/ SendEventToServer(h, event, recipient)
       \/ \E events \in SUBSET Sockets : SendEventsToServer(h, events)

Spec == Init /\ [][Next]_vars

-----------------------------------------------------------------------------
TypeOK ==
  /\ sharedServer \in BOOLEAN
  /\ live \subseteq seen /\ seen \subseteq Sockets
  /\ backendId \in [Sockets -> 0 .. drawn]
  /\ authorized \subseteq seen
  /\ drawn \in Nat
  /\ \A h \in Holders : Holds(h) => adaptor[h] \in [server : BOOLEAN, client : seen \cup {None}]
  /\ last.reached \subseteq seen

\* However many adaptors are made of a client, and whoever refreshes its id, two
\* connections never share a backend connection id, and none is without one.
BackendIdsDistinct ==
  \A s, t \in seen : backendId[s] # 0 /\ (backendId[s] = backendId[t] => s = t)

\* An event sent to a client under the default name, or under none, arrives at
\* nobody but the client whose own name it then bears, whatever recipients are
\* named and however many adaptors are alive (sendEventToClient).
DefaultEventPrivate ==
  last.by = "client" /\ last.asked \in {Default, Blank} =>
    \A s \in last.reached : last.name = Private(s) /\ s = last.client

\* An adaptor of a client reaches that client and nobody else by
\* sendEventToClient, for it drops the recipients; every other send reaches the
\* named recipients only.  Nobody is reached by a send that answers false.
AnswersMatchDelivery ==
  /\ last.reached # {} => last.result
  /\ last.by = "client" /\ last.client # None => last.reached \subseteq {last.client}
  /\ last.to \in Sockets => last.reached \subseteq {last.to, last.client}
=============================================================================
