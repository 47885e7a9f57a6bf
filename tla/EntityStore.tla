---------------------------- MODULE EntityStore -----------------------------
(***************************************************************************)
(* One collection of the database as its repository and its entity class   *)
(* handle it (auth/repositories, auth/entities, database/entity.repository *)
(* .ts): a client builds an entity, or loads a document, copies it into a  *)
(* builder, sets a field and builds it again, and saves the result.  The   *)
(* four classes look alike and differ in what their builders keep.         *)
(*                                                                         *)
(* The database carries an operation out in one step; what lies between    *)
(* two steps of a client is open to the others.  The callers of the        *)
(* repositories are the environment (nothing under src/ calls them yet).   *)
(* Of the version, every built entity has 1, so it is left out.  "birth"   *)
(* is the date a document was created with, "rebuilt" a later one, and     *)
(* "null" a field that is there without a value.                           *)
(***************************************************************************)
EXTENDS Naturals, FiniteSets

CONSTANTS Kinds,       \* the collections looked at
          Edits,       \* bound: the fields clients set
          Clients,     \* concurrent users of the repository
          Undefined,   \* a property that has no value
          Null,        \* what a swallowed error or a missing document becomes
          Drawing,     \* bound: the collections in which ids are drawn
          MaxIds,      \* bound: object ids
          MaxFaults    \* bound: failures of the database

\* Properties the schema and the builder of each class know.
UserFields    == {"userName", "firstName", "lastName", "email", "password", "profile", "role"}
ProfileFields == {"dateOfBirth", "profilePicture", "phoneNumber", "location", "website"}
TokenFields   == {"sessionId", "token", "user", "expiryDate"}
AccountFields == {"idToken", "accessToken", "accessSecret", "refreshToken", "userName", "email",
                  "socialMedia", "user"}

FieldsOf(k) == CASE k = "user"    -> UserFields
                 [] k = "profile" -> ProfileFields
                 [] k = "token"   -> TokenFields
                 [] k = "account" -> AccountFields

AnyId == 0 .. MaxIds

EntitiesOf(k) ==
  [id : AnyId \cup {Undefined},
   createdAt : {Undefined, "birth", "rebuilt"},
   fields : [FieldsOf(k) -> {Undefined, "null", "old", "new", "USER", "ADMIN", "twitter"}]]

\* null is no entity, and undefined neither an id nor a date.
EntityAssumption ==
  /\ Kinds \subseteq {"user", "profile", "token", "account"}
  /\ \A k \in Kinds : Null \notin EntitiesOf(k)
  /\ Undefined \notin AnyId /\ Undefined \notin {"birth", "rebuilt"}
  /\ MaxIds \in Nat \ {0}
  /\ MaxFaults \in Nat

VARIABLES
  kind,    \* the collection of this behaviour
  db,      \* its documents
  drawn,   \* object ids drawn so far
  held,    \* client -> the entity it holds
  ended,   \* how the call ended that did last: "failed" with the database
  from,    \* client -> id of the document that entity was made from
  set,     \* client -> fields it set on it
  fresh,   \* clients whose entity was built under a new id
  stale,   \* client -> fields of that document changed since it was loaded
  dated,   \* clients whose entity comes from create
  faults

copies == <<from, set, fresh, stale, dated>>
vars   == <<kind, db, drawn, held, ended, copies, faults>>

Fields == FieldsOf(kind)

\* Variants: role copied; the creation date not copied.
CopiedWithRole == Fields
DateForgotten(e) == Undefined

\* toBuilder copies every property but the role of a user, for which there is
\* no setter either.
Copied == Fields \ {"role"}
DateCopied(e) == e.createdAt

\* Variant: no default.
SharedIdMissing == Undefined

\* The id a schema gives a document that has none: `default: new
\* Types.ObjectId()' is evaluated once, so all such documents share it.
SharedId == 0

\* Variant: an update falls back on the default id of its class.
BuiltIdShared(b, update, id) == IF update THEN SharedId ELSE id

\* The id build(update) gives: tokens always draw one, an updated account has
\* none, users and profiles keep theirs.
BuiltId(b, update, id) ==
  IF ~update \/ kind = "token" THEN id ELSE IF kind = "account" THEN Undefined ELSE b.id

ToBuilder(e) == [id |-> e.id, createdAt |-> DateCopied(e),
                 fields |-> [f \in Fields |-> IF f \in Copied THEN e.fields[f] ELSE Undefined]]
EmptyBuilder == [id |-> Undefined, createdAt |-> Undefined, fields |-> [f \in Fields |-> Undefined]]

\* The creation date is `new Date()' where the builder has none.
Build(b, update, id) ==
  [id |-> BuiltId(b, update, id), fields |-> b.fields,
   createdAt |-> IF b.createdAt = Undefined THEN "rebuilt" ELSE b.createdAt]

\* The schema's defaults, for what an entity leaves open: of these, the fields
\* of a profile and of an account that are null.
Default(f) ==
  CASE f = "role" -> "USER"
    [] f = "socialMedia" -> "twitter"
    [] kind = "profile" /\ f \in {"location", "website"} -> "null"
    [] kind = "account" /\ f \in {"userName", "email"} -> "null"
    [] OTHER -> Undefined

Inserted(e) ==
  [e EXCEPT !.id = IF @ = Undefined THEN SharedId ELSE @,
            !.createdAt = "birth",
            !.fields = [f \in Fields |-> IF e.fields[f] = Undefined THEN Default(f) ELSE e.fields[f]]]

\* An update takes over what is defined, null included.
Merged(d, e) ==
  [d EXCEPT !.fields = [f \in Fields |-> IF e.fields[f] = Undefined THEN d.fields[f] ELSE e.fields[f]],
            !.createdAt = e.createdAt]

\* createdAt is declared `select: false': queries leave it out.  findOne leaves
\* out the id as well.
Queried(d) == [d EXCEPT !.createdAt = Undefined]
Projected(d) == [Queried(d) EXCEPT !.id = Undefined]

Ids == {d.id : d \in db}
Doc(id) == CHOOSE d \in db : d.id = id
Holds(c) == held[c] # Null

Old == [id |-> 1, createdAt |-> "birth",
        fields |-> [f \in Fields |-> IF f = "role" THEN "ADMIN" ELSE "old"]]

Nobody == [c \in Clients |-> {}]

Init ==
  /\ kind \in Kinds
  /\ db = {Old}
  /\ drawn = 1
  /\ held = [c \in Clients |-> Null]
  /\ ended = "done"
  /\ from = [c \in Clients |-> Undefined]
  /\ set = Nobody /\ stale = Nobody
  /\ fresh = {} /\ dated = {}
  /\ faults = 0

-----------------------------------------------------------------------------
(* The entity classes. *)

\* A new id is drawn, if the entity is built under one.
Draws(c, new) ==
  IF new THEN kind \in Drawing /\ drawn < MaxIds /\ drawn' = drawn + 1 /\ fresh' = fresh \cup {c}
         ELSE UNCHANGED drawn /\ fresh' = fresh \ {c}

Edited(c, b, f, update) ==
  /\ held' = [held EXCEPT ![c] = Build([b EXCEPT !.fields[f] = "new"], update, drawn + 1)]
  /\ set' = [set EXCEPT ![c] = {f}]
  /\ ended' = "done"
  /\ UNCHANGED <<kind, db, from, stale, dated, faults>>

\* builder().set...(v).build()
New(c, f) ==
  /\ ~Holds(c)
  /\ Draws(c, TRUE)
  /\ Edited(c, EmptyBuilder, f, FALSE)

\* toBuilder().set...(v).build(update), of a document a repository returned.
Rebuild(c, f, update) ==
  /\ Holds(c) /\ set[c] = {}
  /\ Draws(c, ~update \/ kind = "token")
  /\ Edited(c, ToBuilder(held[c]), f, update)

-----------------------------------------------------------------------------
(* The repositories.  Their own methods turn every error into null; those   *)
(* of EntityRepository let it through.                                      *)

\* Queries aside, the methods a repository has of its own.
OwnMethods == CASE kind = "user" -> {"remove"} [] kind = "profile" -> {"create"}
                [] OTHER -> {"create", "remove"}
Refused(method) == IF method \in OwnMethods THEN "null" ELSE "error"

\* A call of c ends: it holds the entity e, made from the document id, or Null,
\* and no edits.
Answered(c, e, id, how) ==
  /\ held' = [held EXCEPT ![c] = e]
  /\ ended' = how
  /\ from' = [from EXCEPT ![c] = id]
  /\ set' = [set EXCEPT ![c] = {}]
  /\ fresh' = fresh \ {c}
  /\ dated' = IF how = "created" THEN dated \cup {c} ELSE dated \ {c}
  /\ UNCHANGED <<kind, drawn>>
Returns(c, e, how) == Answered(c, e, e.id, how) /\ UNCHANGED faults
Ends(c, how)       == Answered(c, Null, Undefined, how) /\ UNCHANGED faults

\* The database fails: null, or an error.
Fails(c) == Answered(c, Null, Undefined, "failed") /\ faults < MaxFaults /\ faults' = faults + 1

\* The documents stay as they are.
Kept(c) == UNCHANGED db /\ stale' = [stale EXCEPT ![c] = {}]

Saves(c) == Holds(c) /\ set[c] # {}

\* Nobody creates an entity under the id of the document it was made from.
Creates(c) == Saves(c) /\ (c \in fresh \/ held[c].id = Undefined)

\* Nobody saves an entity over another document than it was made from.
Updates(c, id) == Saves(c) /\ from[c] \in {id, Undefined}

\* findById, findByEmail and the other queries, for one document.
FindById(c, id) ==
  /\ ~Holds(c)
  /\ IF id \in Ids THEN Returns(c, Queried(Doc(id)), "found") ELSE Ends(c, "null")
  /\ Kept(c)

\* EntityRepository.findOne: the document comes without an id.
FindOne(c, id) ==
  /\ ~Holds(c) /\ id \in Ids
  /\ Answered(c, Projected(Doc(id)), id, "found")
  /\ Kept(c) /\ UNCHANGED faults

\* Variant: a document of that id is replaced.
InsertOver(c) ==
  LET d == Inserted(held[c]) IN
  /\ Creates(c)
  /\ db' = {x \in db : x.id # d.id} \cup {d}
  /\ UNCHANGED stale

\* A document is added; whoever still holds a removed one of its id holds
\* another document.
Insert(c) ==
  LET d == Inserted(held[c]) IN
  /\ Creates(c)
  /\ d.id \notin Ids
  /\ db' = db \cup {d}
  /\ stale' = [x \in Clients |-> IF x = c THEN {} ELSE IF from[x] = d.id THEN Fields ELSE stale[x]]

\* A document changes under those who hold a copy of it.
Change(c, old, new) ==
  /\ db' = (db \ {old}) \cup {new}
  /\ stale' = [x \in Clients |->
       IF x = c THEN {} ELSE IF from[x] = old.id
       THEN stale[x] \cup {f \in Fields : old.fields[f] # new.fields[f]} ELSE stale[x]]

Roles == {"USER", "ADMIN"}

\* The fields of an entity are set in a document, whose id cannot change; or the
\* role of a user is, the one way to change it.
Saved(c, id)      == Merged(Doc(id), held[c])
Granted(id, role) == [Doc(id) EXCEPT !.fields["role"] = role]
Replace(c, id) ==
  id \in Ids /\ Updates(c, id) /\ held[c].id \in {id, Undefined} /\ Change(c, Doc(id), Saved(c, id))
Grant(c, id, role) ==
  id \in Ids /\ kind = "user" /\ ~Holds(c) /\ Change(c, Doc(id), Granted(id, role))

\* Documents are deleted by the id of the one that is held, or by a filter.
Filters(c) == IF Holds(c) THEN {{held[c].id}} ELSE SUBSET Ids
Delete(c, ids) ==
  /\ db' = {d \in db : d.id \notin ids}
  /\ stale' = [stale EXCEPT ![c] = {}]

\* create: a second document under one id is refused.
Create(c) ==
  \/ Insert(c) /\ Returns(c, Inserted(held[c]), "created")
  \/ Creates(c) /\ Inserted(held[c]).id \in Ids /\ Ends(c, Refused("create")) /\ Kept(c)

\* findOneAndUpdate({_id: id}, entity)
FindOneAndUpdate(c, id) ==
  \/ Replace(c, id) /\ Returns(c, Queried(Saved(c, id)), "updated")
  \/ Updates(c, id) /\ id \notin Ids /\ Ends(c, "null") /\ Kept(c)
  \/ /\ Updates(c, id) /\ id \in Ids /\ held[c].id \notin {id, Undefined}
     /\ Ends(c, "error") /\ Kept(c)

\* findOneAndUpdate({_id: id}, {role})
GrantRole(c, id, role) ==
  Grant(c, id, role) /\ Returns(c, Queried(Granted(id, role)), "updated")

\* remove, deleteOne, deleteMany: null (or false) if nothing was removed.
Remove(c, ids) ==
  Delete(c, ids) /\ Ends(c, IF ids \cap Ids # {} THEN "done" ELSE "null")

\* The database fails before it carries an operation out, or after it.
CallFails(c) ==
  /\ Fails(c)
  /\ \/ Kept(c) \/ Insert(c)
     \/ \E id \in AnyId : Replace(c, id) \/ \E role \in Roles : Grant(c, id, role)
     \/ \E ids \in Filters(c) : Delete(c, ids)

\* The caller drops what it holds.
Forget(c) == Holds(c) /\ Ends(c, "done") /\ Kept(c)

Next ==
  \E c \in Clients :
    \/ \E f \in Copied \cap Edits : New(c, f) \/ \E update \in BOOLEAN : Rebuild(c, f, update)
    \/ \E id \in AnyId : \/ FindById(c, id) \/ FindOne(c, id)
                         \/ FindOneAndUpdate(c, id) \/ \E role \in Roles : GrantRole(c, id, role)
    \/ \E ids \in Filters(c) : Remove(c, ids)
    \/ Create(c) \/ CallFails(c) \/ Forget(c)

Spec == Init /\ [][Next]_vars

-----------------------------------------------------------------------------
Entities == EntitiesOf(kind)

TypeOK ==
  /\ kind \in Kinds
  /\ db \subseteq Entities /\ Ids \subseteq AnyId
  /\ \A d, e \in db : d.id = e.id => d = e
  /\ drawn \in 1 .. MaxIds
  /\ held \in [Clients -> Entities \cup {Null}]
  /\ ended \in {"done", "null", "error", "failed", "found", "created", "updated"}
  /\ from \in [Clients -> AnyId \cup {Undefined}]
  /\ set \in [Clients -> SUBSET Fields]
  /\ stale \in [Clients -> SUBSET Fields]
  /\ fresh \cup dated \subseteq Clients
  /\ faults \in Nat

\* A call of c ends that worked on what c built.
Done(c) == set[c] # {} /\ set'[c] = {}

\* Saving a rebuilt entity over the document it was made from changes no field but
\* the one that was set and those others changed after it was loaded: what the
\* builder does not carry stays as it is, and a role granted meanwhile is not even
\* then undone.
UpdateLosesOverlappingOnly ==
  [][\A c \in Clients : Done(c) /\ from[c] # Undefined =>
       \A d \in db, e \in db' :
         d.id = e.id => {f \in Fields : d.fields[f] # e.fields[f]}
                          \subseteq set[c] \cup (stale[c] \ {"role"})]_vars

\* A call that takes an entity, ends with the database up and answers null, or
\* throws, changed nothing: the id shared by entities without one makes no document
\* replace another.
NullMeansUnchanged ==
  [][\A c \in Clients :
       Holds(c) /\ held'[c] = Null /\ ended' \in {"null", "error"} => db' = db]_vars

\* With the database up, such a call throws for two reasons: what is saved over a
\* document was built under a new id (tokens always are, the other classes when
\* build is not told that it updates), or a user without an id is created while
\* another has the shared one, which the other classes answer with null.
ThrowsExplained ==
  [][\A c \in Clients :
       Holds(c) /\ held'[c] = Null /\ ended' = "error"
       => c \in fresh \/ (kind = "user" /\ held[c].id = Undefined /\ SharedId \in Ids)]_vars

\* A document loses its date of creation only to a save of an entity that does not
\* come from create: a query leaves the date out, so that build sets a new one.
CreationDateKept ==
  [][\A d \in db, e \in db' :
       d.id = e.id /\ d.createdAt = "birth" /\ e.createdAt # "birth"
       => \E c \in Clients : Done(c) /\ c \notin dated]_vars
=============================================================================
