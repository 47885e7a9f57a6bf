---------------------------- MODULE UserSessions ----------------------------
(***************************************************************************)
(* UserRepository and RefreshTokenRepository (auth/repositories) under     *)
(* concurrent registrations, sign-ins, refreshes and removals.  Neither    *)
(* collection has a unique index besides _id, every error of a lookup or   *)
(* of a create becomes null or an empty list, and a lookup and the create  *)
(* that relies on it are two awaits.                                       *)
(*                                                                         *)
(* The callers are the environment: the service that called the            *)
(* repositories in this order is commented out (auth.service.ts), and of   *)
(* the sign-in the repositories' part alone is the code's.                 *)
(***************************************************************************)
EXTENDS Naturals, FiniteSets

CONSTANTS Emails,     \* addresses users register with
          Sessions,   \* session ids
          Callers,    \* concurrent requests
          Null,       \* no document, or an error
          MaxUsers,   \* bound: users created
          MaxTokens,  \* bound: tokens created
          MaxFaults   \* bound: failures of the database

SessionsAssumption == MaxUsers \in Nat /\ MaxTokens \in Nat /\ MaxFaults \in Nat

VARIABLES
  users,    \* documents of users: number and e-mail address
  tokens,   \* documents of refresh tokens: number, session and user
  drawn,    \* tokens created so far
  pc,       \* caller -> what it does next, or what it was answered
  args,     \* caller -> the documents or the address it works on
  issued,   \* session -> tokens whose create was answered
  removed,  \* session -> tokens whose removal was acknowledged
  unseen,   \* session -> creates and removals whose answer was lost
  rivals,   \* addresses two callers were about to register at one time
  misled,   \* addresses whose lookup failed
  faults

vars == <<users, tokens, drawn, pc, args, issued, removed, unseen, rivals, misled, faults>>

User(n, e)     == [no |-> n, email |-> e]
Token(n, s, u) == [no |-> n, session |-> s, user |-> u]
NoArgs == [email |-> Null, session |-> Null, user |-> Null, tokens |-> {}]

Init ==
  /\ users = {} /\ tokens = {} /\ drawn = 0
  /\ pc = [c \in Callers |-> "idle"]
  /\ args = [c \in Callers |-> NoArgs]
  /\ issued = [s \in Sessions |-> 0]
  /\ removed = issued /\ unseen = issued
  /\ rivals = {} /\ misled = {}
  /\ faults = 0

Fault == faults < MaxFaults /\ faults' = faults + 1

Step(c, from, to, a) ==
  /\ pc[c] = from
  /\ pc' = [pc EXCEPT ![c] = to]
  /\ args' = [args EXCEPT ![c] = a]

-----------------------------------------------------------------------------
(* Registration: findByEmail, then create. *)

Registering(e) == {c \in Callers : pc[c] = "registering" /\ args[c].email = e}

\* A document is found: the address is taken.
FindByEmail(c, e) ==
  /\ \E u \in users : u.email = e
  /\ Step(c, "idle", "idle", NoArgs)
  /\ UNCHANGED <<users, tokens, drawn, issued, removed, unseen, rivals, misled, faults>>

\* null: there is none, or the lookup failed.
FindByEmailNull(c, e) ==
  /\ \/ /\ \A u \in users : u.email # e
        /\ UNCHANGED <<misled, faults>>
     \/ Fault /\ misled' = misled \cup {e}
  /\ Step(c, "idle", "registering", [NoArgs EXCEPT !.email = e])
  /\ rivals' = IF Registering(e) # {} THEN rivals \cup {e} ELSE rivals
  /\ UNCHANGED <<users, tokens, drawn, issued, removed, unseen>>

\* Variant: the address is created before it is looked up.
CreateUserFirst(c) ==
  /\ Cardinality(users) < MaxUsers
  /\ \E e \in Emails : users' = users \cup {User(Cardinality(users), e)}
  /\ Step(c, "idle", "idle", NoArgs)
  /\ UNCHANGED <<tokens, drawn, issued, removed, unseen, rivals, misled, faults>>

CreateUser(c) ==
  /\ Cardinality(users) < MaxUsers
  /\ Step(c, "registering", "idle", NoArgs)
  /\ users' = users \cup {User(Cardinality(users), args[c].email)}
  /\ UNCHANGED <<tokens, drawn, issued, removed, unseen, rivals, misled, faults>>

-----------------------------------------------------------------------------
(* TokenDocs. *)

\* Variant: the users that populate adds are answered instead of the tokens.
FindByUserIdUsers(u) == {v \in users : v.no = u}

\* findByUserId asks for `_user', which no token has: whoever signs in finds no
\* token of the user, and removes none.
FindByUserId(u) == {t \in tokens : "_user" \in DOMAIN t /\ t.user = u}

\* create: one more token of the session.  When the database fails the answer is
\* null, and the token stored or not.
CreateToken(s, u) ==
  \/ /\ drawn < MaxTokens
     /\ drawn' = drawn + 1
     /\ tokens' = tokens \cup {Token(drawn, s, u)}
     /\ \/ issued' = [issued EXCEPT ![s] = @ + 1] /\ UNCHANGED <<unseen, faults>>
        \/ Fault /\ unseen' = [unseen EXCEPT ![s] = @ + 1] /\ UNCHANGED issued
  \/ Fault /\ UNCHANGED <<tokens, drawn, issued, unseen>>

\* A sign-in removes the tokens of the user it finds and creates a new one.
SignIn(c, s, u) ==
  /\ Step(c, "idle", "removing",
          [NoArgs EXCEPT !.tokens = FindByUserId(u), !.session = s, !.user = u])
  /\ UNCHANGED <<users, tokens, drawn, issued, removed, unseen, rivals, misled, faults>>

\* A caller has a list of tokens removed.
Discard(c, list) ==
  /\ Step(c, "idle", "removing", [NoArgs EXCEPT !.tokens = list])
  /\ UNCHANGED <<users, tokens, drawn, issued, removed, unseen, rivals, misled, faults>>

\* remove of an array: the branch is empty, and the answer undefined.
RemoveMany(c) ==
  /\ Step(c, "removing", "removed", args[c])
  /\ UNCHANGED <<users, tokens, drawn, issued, removed, unseen, rivals, misled, faults>>

Issue(c) ==
  /\ args[c].session # Null
  /\ Step(c, "removed", "idle", NoArgs)
  /\ CreateToken(args[c].session, args[c].user)
  /\ UNCHANGED <<users, removed, rivals, misled>>

Done(c) ==
  /\ args[c].session = Null
  /\ Step(c, "removed", "idle", NoArgs)
  /\ UNCHANGED <<users, tokens, drawn, issued, removed, unseen, rivals, misled, faults>>

\* findByTokenAndSessionId: the token, with its user, or null.
FindByTokenAndSessionId(c, t) ==
  /\ Step(c, "idle", "refreshing", [NoArgs EXCEPT !.tokens = {t}])
  /\ UNCHANGED <<users, tokens, drawn, issued, removed, unseen, rivals, misled, faults>>

\* The rebuilt token has an id of its own: the one it was made from stays.
Refresh(c) ==
  /\ Step(c, "refreshing", "idle", NoArgs)
  /\ \E t \in args[c].tokens : CreateToken(t.session, t.user)
  /\ UNCHANGED <<users, removed, rivals, misled>>

\* Variant: the entity is returned whatever was deleted.
AcknowledgedAlways(t) == TRUE

\* result.deletedCount > 0 ? refreshTokenEntity : null
Acknowledged(t) == t \in tokens

\* remove of one token.  When the database fails the answer is null, and the token
\* removed or not.
RemoveOne(c, t) ==
  /\ Step(c, "refreshing", "idle", NoArgs)
  /\ t \in args[c].tokens
  /\ \/ /\ tokens' = tokens \ {t}
        /\ removed' = IF Acknowledged(t) THEN [removed EXCEPT ![t.session] = @ + 1] ELSE removed
        /\ UNCHANGED <<unseen, faults>>
     \/ /\ Fault
        /\ tokens' = tokens \ {t}
        /\ unseen' = IF t \in tokens THEN [unseen EXCEPT ![t.session] = @ + 1] ELSE unseen
        /\ UNCHANGED removed
     \/ Fault /\ UNCHANGED <<tokens, removed, unseen>>
  /\ UNCHANGED <<users, drawn, issued, rivals, misled>>

Next ==
  \E c \in Callers :
    \/ \E e \in Emails : FindByEmail(c, e) \/ FindByEmailNull(c, e)
    \/ CreateUser(c)
    \/ \E s \in Sessions, u \in users : SignIn(c, s, u.no)
    \/ \E list \in SUBSET tokens : Discard(c, list)
    \/ RemoveMany(c) \/ Issue(c) \/ Done(c)
    \/ \E t \in tokens : FindByTokenAndSessionId(c, t)
    \/ Refresh(c) \/ \E t \in args[c].tokens : RemoveOne(c, t)

Spec == Init /\ [][Next]_vars

-----------------------------------------------------------------------------
TokenDocs == [no : 0 .. MaxTokens - 1, session : Sessions, user : 0 .. MaxUsers - 1]

TypeOK ==
  /\ users \subseteq [no : 0 .. MaxUsers - 1, email : Emails]
  /\ tokens \subseteq TokenDocs
  /\ drawn \in 0 .. MaxTokens
  /\ \A s, t \in tokens : s.no = t.no => s = t
  /\ pc \in [Callers -> {"idle", "registering", "removing", "removed", "refreshing"}]
  /\ args \in [Callers -> [email : Emails \cup {Null}, session : Sessions \cup {Null},
                           user : 0 .. MaxUsers - 1 \cup {Null}, tokens : SUBSET TokenDocs]]
  /\ issued \in [Sessions -> Nat] /\ removed \in [Sessions -> Nat] /\ unseen \in [Sessions -> Nat]
  /\ rivals \subseteq Emails /\ misled \subseteq Emails
  /\ faults \in Nat

\* Two users share an address only if two requests looked it up before either of
\* them created its user, or a lookup failed and null was taken for absence
\* (findByEmail).
SharedAddressExplained ==
  \A u, v \in users : u # v /\ u.email = v.email => u.email \in rivals \cup misled

Stored(s) == Cardinality({t \in tokens : t.session = s})
Apart(m, n) == IF m < n THEN n - m ELSE m - n

\* A session has as many tokens as were issued to it and not acknowledged as
\* removed, but for those whose answer was lost: a refresh adds one without
\* taking one, and of several callers that remove a token one is told so.
TokensAccounted ==
  \A s \in Sessions : Apart(Stored(s) + removed[s], issued[s]) <= unseen[s]
=============================================================================
