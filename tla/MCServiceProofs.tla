--------------------------- MODULE MCServiceProofs ---------------------------
(***************************************************************************)
(* Proofs about the components of the service process: its start, its      *)
(* requests, its mails and its handler chains, for every number of         *)
(* clients, calls, handlers and faults.                                    *)
(***************************************************************************)
EXTENDS MCService, FiniteSets, FiniteSetTheorems, TLAPS

-----------------------------------------------------------------------------
(* Handler chains.  The operators of HandlerChain, of any links. *)

ClosedIn(nx, s) == \A m \in s : nx[m] = None \/ nx[m] \in s
ChainOf(nx, n)  == CHOOSE s \in SUBSET Handlers :
                     n \in s /\ ClosedIn(nx, s) /\ \A r \in SUBSET s : n \in r /\ ClosedIn(nx, r) => r = s
EndsOf(nx, n)   == {m \in ChainOf(nx, n) : nx[m] = None}

Links == [Handlers -> Handlers \cup {None}]

\* Every handler has a chain: the least set with it that is closed under `next'.
LEMMA ChainExists ==
  ASSUME NEW nx \in Links, NEW n \in Handlers, None \notin Handlers
  PROVE  /\ ChainOf(nx, n) \subseteq Handlers /\ n \in ChainOf(nx, n) /\ ClosedIn(nx, ChainOf(nx, n))
         /\ \A r \in SUBSET Handlers : n \in r /\ ClosedIn(nx, r) => ChainOf(nx, n) \subseteq r
<1> DEFINE all   == {r \in SUBSET Handlers : n \in r /\ ClosedIn(nx, r)}
           least == {m \in Handlers : \A r \in all : m \in r}
           Good(s) == n \in s /\ ClosedIn(nx, s) /\ \A r \in SUBSET s : n \in r /\ ClosedIn(nx, r) => r = s
<1>1. n \in least /\ least \in SUBSET Handlers
  OBVIOUS
<1>2. ClosedIn(nx, least)
  <2> SUFFICES ASSUME NEW m \in least, nx[m] # None PROVE nx[m] \in least
    BY DEF ClosedIn
  <2>1. nx[m] \in Handlers
    BY DEF Links
  <2>2. \A r \in all : nx[m] \in r
    BY DEF ClosedIn
  <2> QED
    BY <2>1, <2>2
<1>3. \A r \in SUBSET least : n \in r /\ ClosedIn(nx, r) => r = least
  <2> SUFFICES ASSUME NEW r \in SUBSET least, n \in r, ClosedIn(nx, r) PROVE r = least
    OBVIOUS
  <2>1. r \in all
    OBVIOUS
  <2>2. least \subseteq r
    BY <2>1
  <2> QED
    BY <2>2
<1>4. \E s \in SUBSET Handlers : Good(s)
  <2>1. Good(least)
    BY <1>1, <1>2, <1>3
  <2> QED
    BY <1>1, <2>1
<1>5. ChainOf(nx, n) \in SUBSET Handlers /\ Good(ChainOf(nx, n))
  <2>1. ChainOf(nx, n) = CHOOSE s \in SUBSET Handlers : Good(s)
    BY DEF ChainOf
  <2> HIDE DEF Good
  <2> QED
    BY <1>4, <2>1
<1>6. ASSUME NEW r \in SUBSET Handlers, n \in r, ClosedIn(nx, r)
      PROVE  ChainOf(nx, n) \subseteq r
  <2> DEFINE both == r \cap ChainOf(nx, n)
  <2>1. both \in SUBSET ChainOf(nx, n) /\ n \in both
    BY <1>5, <1>6
  <2>2. ClosedIn(nx, both)
    BY <1>5, <1>6 DEF ClosedIn
  <2>3. both = ChainOf(nx, n)
    BY <1>5, <2>1, <2>2
  <2> QED
    BY <2>3
<1> QED
  BY <1>5, <1>6

\* The chain of a handler in a chain is the rest of that chain.
LEMMA ChainTail ==
  ASSUME NEW nx \in Links, NEW n \in Handlers, NEW m \in ChainOf(nx, n), None \notin Handlers
  PROVE  m \in Handlers /\ ChainOf(nx, m) \subseteq ChainOf(nx, n)
BY ChainExists

\* A chain has one end at most, and every handler of the chain leads to it.
LEMMA OneEnd ==
  ASSUME NEW nx \in Links, NEW n \in Handlers, None \notin Handlers, NEW h \in EndsOf(nx, n)
  PROVE  /\ EndsOf(nx, n) = {h}
         /\ \A m \in ChainOf(nx, n) : h \in EndsOf(nx, m)
<1> DEFINE leading == {m \in ChainOf(nx, n) : h \in ChainOf(nx, m)}
<1>0. h \in ChainOf(nx, n) /\ h \in Handlers /\ nx[h] = None
  BY ChainExists DEF EndsOf
<1>1. n \in leading /\ leading \in SUBSET Handlers
  BY <1>0, ChainExists
<1>2. ClosedIn(nx, leading)
  <2> SUFFICES ASSUME NEW m \in leading, nx[m] # None PROVE nx[m] \in leading
    BY DEF ClosedIn
  <2> DEFINE rest == {m} \cup ChainOf(nx, nx[m])
  <2>1. m \in Handlers /\ nx[m] \in Handlers /\ nx[m] \in ChainOf(nx, n)
    BY ChainExists DEF ClosedIn, Links
  <2>2. nx[m] \in ChainOf(nx, nx[m]) /\ ClosedIn(nx, ChainOf(nx, nx[m]))
        /\ ChainOf(nx, nx[m]) \subseteq Handlers
    BY <2>1, ChainExists
  <2>3. ClosedIn(nx, rest)
    BY <2>2 DEF ClosedIn
  <2>4. ChainOf(nx, m) \subseteq rest
    BY <2>1, <2>2, <2>3, ChainExists
  <2>5. h # m
    BY <1>0
  <2> QED
    BY <2>1, <2>4, <2>5
<1>3. leading = ChainOf(nx, n)
  BY <1>1, <1>2, ChainExists
<1>4. ASSUME NEW g \in EndsOf(nx, n) PROVE g = h
  <2>1. g \in Handlers /\ nx[g] = None /\ h \in ChainOf(nx, g)
    BY <1>3, ChainExists DEF EndsOf
  <2>2. ClosedIn(nx, {g})
    BY <2>1 DEF ClosedIn
  <2> QED
    BY <2>1, <2>2, ChainExists
<1> QED
  BY <1>0, <1>3, <1>4 DEF EndsOf

\* Linking m behind a handler h leaves the chains without h as they are.
LEMMA ChainAside ==
  ASSUME NEW nx \in Links, NEW n \in Handlers, NEW h \in Handlers, NEW m \in Handlers,
         None \notin Handlers, h \notin ChainOf(nx, n)
  PROVE  LET new == [nx EXCEPT ![h] = m]
         IN ChainOf(new, n) = ChainOf(nx, n) /\ EndsOf(new, n) = EndsOf(nx, n)
<1> DEFINE new == [nx EXCEPT ![h] = m]
<1>1. new \in Links /\ \A g \in Handlers \ {h} : new[g] = nx[g]
  BY DEF Links
<1>2. ChainOf(nx, n) \subseteq Handlers /\ n \in ChainOf(nx, n) /\ ClosedIn(nx, ChainOf(nx, n))
  BY ChainExists
<1>3. ClosedIn(new, ChainOf(nx, n))
  BY <1>1, <1>2 DEF ClosedIn
<1> HIDE DEF new
<1>4. ChainOf(new, n) \subseteq ChainOf(nx, n) /\ ClosedIn(new, ChainOf(new, n)) /\ n \in ChainOf(new, n)
  BY <1>1, <1>2, <1>3, ChainExists
<1>5. ClosedIn(nx, ChainOf(new, n))
  BY <1>1, <1>2, <1>4 DEF ClosedIn
<1>6. ChainOf(nx, n) \subseteq ChainOf(new, n)
  BY <1>2, <1>4, <1>5, ChainExists
<1>7. ChainOf(new, n) = ChainOf(nx, n)
  BY <1>4, <1>6
<1>8. EndsOf(new, n) = EndsOf(nx, n)
  BY <1>1, <1>2, <1>7 DEF EndsOf
<1> QED
  BY <1>7, <1>8 DEF new

\* Linking a chain with one end behind the end of another leaves every chain
\* an end.
LEMMA EndsStay ==
  ASSUME NEW nx \in Links, NEW h \in Handlers, NEW m \in Handlers, None \notin Handlers,
         nx[h] = None, h \notin ChainOf(nx, m), \A g \in Handlers : EndsOf(nx, g) # {}
  PROVE  \A g \in Handlers : EndsOf([nx EXCEPT ![h] = m], g) # {}
<1> DEFINE new == [nx EXCEPT ![h] = m]
<1>1. new \in Links /\ new[h] = m /\ \A g \in Handlers \ {h} : new[g] = nx[g]
  BY DEF Links
<1>2. EndsOf(new, m) # {} /\ ChainOf(new, m) = ChainOf(nx, m)
  BY ChainAside
<1> HIDE DEF new
<1> SUFFICES ASSUME NEW g \in Handlers PROVE EndsOf(new, g) # {}
  BY DEF new
<1>3. CASE h \notin ChainOf(nx, g)
  BY <1>3, ChainAside DEF new
<1>4. CASE h \in ChainOf(nx, g)
  <2>1. ChainOf(new, g) \subseteq Handlers /\ g \in ChainOf(new, g) /\ ClosedIn(new, ChainOf(new, g))
    BY <1>1, ChainExists
  <2>2. h \in ChainOf(new, g)
    <3> SUFFICES ASSUME h \notin ChainOf(new, g) PROVE FALSE
      OBVIOUS
    <3>1. ClosedIn(nx, ChainOf(new, g))
      BY <1>1, <2>1 DEF ClosedIn
    <3>2. ChainOf(nx, g) \subseteq ChainOf(new, g)
      BY <2>1, <3>1, ChainExists
    <3> QED
      BY <1>4, <3>2
  <2>3. m \in ChainOf(new, g)
    BY <1>1, <2>1, <2>2 DEF ClosedIn
  <2>4. ChainOf(new, m) \subseteq ChainOf(new, g)
    BY <1>1, <2>3, ChainTail
  <2> QED
    BY <1>2, <2>4 DEF EndsOf
<1> QED
  BY <1>3, <1>4

\* The inductive invariant of the handler chains: every chain has an end as long
\* as nothing was rejoined, and the handlers an execution went through are linked
\* one behind the other.
ChainIInv ==
  /\ Chain!TypeOK
  /\ overflow => rejoined
  /\ rejoined \/ \A n \in Handlers : EndsOf(next, n) # {}
  /\ \A i \in 1 .. Len(visited) - 1 : next[visited[i]] = visited[i + 1]
  /\ Chain!HandledOnce

\* The operators of HandlerChain are those of its links.
LEMMA ChainOperators ==
  \A n \in Handlers : /\ Chain!Chain(n) = ChainOf(next, n) /\ Chain!Ends(n) = EndsOf(next, n)
                      /\ Chain!Chain(n)' = ChainOf(next', n) /\ Chain!Ends(n)' = EndsOf(next', n)
<1>1. \A n \in Handlers : Chain!Chain(n) = ChainOf(next, n) /\ Chain!Chain(n)' = ChainOf(next', n)
  BY DEF Chain!Chain, Chain!Closed, ChainOf, ClosedIn
<1>2. \A n \in Handlers : Chain!Ends(n) = {m \in Chain!Chain(n) : next[m] = None}
                          /\ Chain!Ends(n)' = {m \in Chain!Chain(n)' : next'[m] = None}
  BY DEF Chain!Ends
<1> QED
  BY <1>1, <1>2 DEF EndsOf

\* The hook of a chain that has an end is its end.
LEMMA HookIsEnd ==
  ASSUME NEW n \in Handlers, ~Chain!Cyclic(n), ServiceAssumption, next \in Links
  PROVE  /\ Chain!Hook(n) \in EndsOf(next, n) /\ Chain!Hook(n) \in Handlers
         /\ next[Chain!Hook(n)] = None
<1>1. Chain!Ends(n) # {} /\ Chain!Ends(n) = EndsOf(next, n)
  BY ChainOperators DEF Chain!Cyclic
<1>2. Chain!Hook(n) \in Chain!Ends(n)
  BY <1>1 DEF Chain!Hook
<1> QED
  BY <1>1, <1>2, ChainExists, ServiceAssumption DEF EndsOf, Chain!ChainAssumption

\* A set of handlers that are all linked to a handler of the set has no end.
LEMMA RingHasNoEnd ==
  ASSUME NEW nx \in Links, None \notin Handlers, NEW ring \in SUBSET Handlers, NEW n \in ring,
         \A m \in ring : nx[m] \in ring
  PROVE  EndsOf(nx, n) = {}
<1>1. ClosedIn(nx, ring)
  BY DEF ClosedIn
<1>2. ChainOf(nx, n) \subseteq ring
  BY <1>1, ChainExists
<1> QED
  BY <1>2 DEF EndsOf

\* Nothing is taken out of a chain by a step.
LEMMA LinksStay ==
  ASSUME ServiceAssumption, next \in Links, [Chain!Next]_chainVars
  PROVE  \A n \in Handlers : next[n] # None => next'[n] = next[n]
<1>1. ASSUME NEW n \in Handlers, NEW m \in Handlers, Chain!AddNext(n, m)
      PROVE  \A g \in Handlers : next[g] # None => next'[g] = next[g]
  BY <1>1, HookIsEnd DEF Chain!AddNext, Links
<1>2. CASE UNCHANGED next
  BY <1>2
<1> QED
  BY <1>1, <1>2 DEF Chain!Next, Chain!AddNextOverflows, Chain!Execute, Chain!Pass, Chain!Return, chainVars

LEMMA ChainInit == ServiceAssumption /\ Chain!Init => ChainIInv
<1> SUFFICES ASSUME ServiceAssumption, Chain!Init PROVE ChainIInv
  OBVIOUS
<1>1. Chain!TypeOK /\ ~overflow /\ Chain!HandledOnce /\ next \in Links /\ visited = <<>>
  <2>1. visited = <<>> /\ next = [n \in Handlers |-> None] /\ running = FALSE /\ rejoined = FALSE
        /\ overflow = FALSE
    BY DEF Chain!Init
  <2>2. visited \in Seq(Handlers) /\ Len(visited) = 0 /\ DOMAIN visited = {}
    BY <2>1
  <2>3. next \in Links
    BY <2>1 DEF Links
  <2>4. MaxVisits \in Nat
    BY ServiceAssumption DEF Chain!ChainAssumption
  <2>5. Chain!TypeOK
    <3>1. visited \in Seq(Handlers) /\ Len(visited) <= MaxVisits
      BY <2>2, <2>4
    <3>2. (running => visited # <<>>) /\ rejoined \in BOOLEAN /\ overflow \in BOOLEAN
      BY <2>1
    <3> QED
      BY <2>3, <3>1, <3>2 DEF Chain!TypeOK, Links
  <2> QED
    BY <2>1, <2>2, <2>3, <2>5 DEF Chain!HandledOnce
<1>2. ASSUME NEW n \in Handlers PROVE EndsOf(next, n) # {}
  <2>1. next[n] = None /\ n \in ChainOf(next, n)
    BY <1>1, ChainExists, ServiceAssumption DEF Chain!Init, Chain!ChainAssumption
  <2> QED
    BY <2>1 DEF EndsOf
<1> QED
  BY <1>1, <1>2 DEF ChainIInv

LEMMA ChainStep ==
  ASSUME ServiceAssumption, ChainIInv, [Chain!Next]_chainVars
  PROVE  ChainIInv'
<1>0. /\ next \in Links /\ visited \in Seq(Handlers) /\ Len(visited) \in Nat /\ Len(visited) <= MaxVisits
      /\ None \notin Handlers /\ MaxVisits \in Nat \ {0}
      /\ \A i \in 1 .. Len(visited) : visited[i] \in Handlers
  BY ServiceAssumption DEF ChainIInv, Chain!TypeOK, Links, Chain!ChainAssumption
<1>1. ASSUME NEW n \in Handlers, NEW m \in Handlers, Chain!AddNext(n, m) PROVE ChainIInv'
  <2> DEFINE h == Chain!Hook(n)
  <2>1. h \in EndsOf(next, n) /\ h \in Handlers /\ next[h] = None
    BY <1>0, <1>1, HookIsEnd DEF Chain!AddNext
  <2>2. /\ next' = [next EXCEPT ![h] = m] /\ UNCHANGED <<visited, running, overflow>>
        /\ rejoined' = (rejoined \/ EndsOf(next, n) = EndsOf(next, m))
    BY <1>1, ChainOperators DEF Chain!AddNext
  <2> HIDE DEF h
  <2>3. Chain!TypeOK'
    BY <1>0, <2>1, <2>2 DEF ChainIInv, Chain!TypeOK, Links
  <2>4. rejoined' \/ \A g \in Handlers : EndsOf(next', g) # {}
    <3> SUFFICES ASSUME ~rejoined' PROVE \A g \in Handlers : EndsOf(next', g) # {}
      OBVIOUS
    <3>1. (\A g \in Handlers : EndsOf(next, g) # {}) /\ EndsOf(next, n) # EndsOf(next, m)
      BY <2>2 DEF ChainIInv, Chain!TypeOK
    <3>2. h \notin ChainOf(next, m)
      <4> SUFFICES ASSUME h \in ChainOf(next, m) PROVE FALSE
        OBVIOUS
      <4>1. h \in EndsOf(next, m)
        BY <2>1 DEF EndsOf
      <4>2. EndsOf(next, n) = {h}
        BY <1>0, <2>1, OneEnd
      <4>3. EndsOf(next, m) = {h}
        BY <1>0, <4>1, OneEnd
      <4> QED
        BY <3>1, <4>2, <4>3
    <3> QED
      BY <1>0, <2>1, <2>2, <3>1, <3>2, EndsStay
  <2>5. \A i \in 1 .. Len(visited) - 1 : next'[visited[i]] = visited[i + 1]
    <3> SUFFICES ASSUME NEW i \in 1 .. Len(visited) - 1 PROVE next'[visited[i]] = visited[i + 1]
      OBVIOUS
    <3>1. next[visited[i]] = visited[i + 1] /\ visited[i] \in Handlers /\ visited[i + 1] \in Handlers
      BY <1>0 DEF ChainIInv
    <3> QED
      BY <1>0, <2>1, <2>2, <3>1 DEF Links
  <2> QED
    BY <2>2, <2>3, <2>4, <2>5 DEF ChainIInv, Chain!HandledOnce, Chain!TypeOK
<1>2. ASSUME NEW n \in Handlers, Chain!AddNextOverflows(n) PROVE ChainIInv'
  <2>1. EndsOf(next, n) = {}
    BY <1>2, ChainOperators DEF Chain!AddNextOverflows, Chain!Cyclic
  <2> QED
    BY <1>2, <2>1 DEF ChainIInv, Chain!AddNextOverflows, Chain!TypeOK, Chain!HandledOnce
<1>3. ASSUME NEW n \in Handlers, Chain!Execute(n) PROVE ChainIInv'
  <2>1. visited' = <<n>> /\ running' = TRUE /\ UNCHANGED <<next, rejoined, overflow>>
    BY <1>3 DEF Chain!Execute
  <2>2. visited' \in Seq(Handlers) /\ Len(visited') = 1 /\ visited' # <<>>
    BY <2>1
  <2>3. Chain!TypeOK'
    BY <1>0, <2>1, <2>2 DEF ChainIInv, Chain!TypeOK
  <2>4. Chain!HandledOnce' /\ \A i \in 1 .. Len(visited') - 1 : next[visited'[i]] = visited'[i + 1]
    BY <2>2 DEF Chain!HandledOnce
  <2> QED
    BY <2>1, <2>3, <2>4 DEF ChainIInv
<1>4. ASSUME Chain!Pass PROVE ChainIInv'
  <2> DEFINE k == Len(visited)
  <2>1. /\ visited' = Append(visited, next[visited[k]]) /\ next[visited[k]] # None
        /\ k < MaxVisits /\ running /\ UNCHANGED <<next, running, rejoined, overflow>>
    BY <1>4 DEF Chain!Pass, Chain!Current
  <2>2. k \in 1 .. k /\ visited[k] \in Handlers /\ next[visited[k]] \in Handlers
    <3>1. visited # <<>>
      BY <2>1 DEF ChainIInv, Chain!TypeOK
    <3>2. k # 0
      BY <1>0, <3>1
    <3> QED
      BY <1>0, <2>1, <3>2 DEF Links
  <2>3. /\ visited' \in Seq(Handlers) /\ Len(visited') = k + 1 /\ visited' # <<>>
        /\ visited'[k + 1] = next[visited[k]] /\ \A i \in 1 .. k : visited'[i] = visited[i]
    <3>1. visited' = Append(visited, next[visited[k]]) /\ next[visited[k]] \in Handlers
      BY <2>1, <2>2
    <3>2. visited' \in Seq(Handlers) /\ Len(visited') = k + 1
      BY <1>0, <3>1
    <3>3. visited'[k + 1] = next[visited[k]] /\ \A i \in 1 .. k : visited'[i] = visited[i]
      BY <1>0, <3>1
    <3> QED
      BY <1>0, <3>2, <3>3
  <2>4. Chain!TypeOK'
    BY <1>0, <2>1, <2>3 DEF ChainIInv, Chain!TypeOK
  <2>5. \A i \in 1 .. k : next[visited'[i]] = visited'[i + 1]
    <3> SUFFICES ASSUME NEW i \in 1 .. k PROVE next[visited'[i]] = visited'[i + 1]
      OBVIOUS
    <3>1. CASE i = k
      BY <1>0, <2>3, <3>1
    <3>2. CASE i # k
      <4>1. i \in 1 .. k - 1 /\ i + 1 \in 1 .. k
        BY <1>0, <3>2
      <4> QED
        BY <2>3, <4>1 DEF ChainIInv
    <3> QED
      BY <3>1, <3>2
  <2>6. Chain!HandledOnce'
    <3> SUFFICES ASSUME ~rejoined PROVE \A i, j \in 1 .. k + 1 : visited'[i] = visited'[j] => i = j
      BY <1>0, <2>1, <2>3 DEF Chain!HandledOnce
    <3>1. \A i, j \in 1 .. k : visited'[i] = visited'[j] => i = j
      BY <1>0, <2>3 DEF ChainIInv, Chain!HandledOnce
    <3>2. ASSUME NEW i \in 1 .. k PROVE visited'[i] # visited'[k + 1]
      <4> SUFFICES ASSUME visited'[i] = visited'[k + 1] PROVE FALSE
        OBVIOUS
      <4> DEFINE ring == {visited[j] : j \in i .. k}
      <4>1. ring \in SUBSET Handlers /\ visited[i] \in ring /\ visited[i] \in Handlers
        BY <1>0
      <4>2. ASSUME NEW j \in i .. k PROVE next[visited[j]] \in ring
        <5>1. CASE j = k
          BY <2>3, <4>1, <5>1
        <5>2. CASE j # k
          <6>1. j \in 1 .. k - 1 /\ j + 1 \in i .. k
            BY <1>0, <5>2
          <6>2. next[visited[j]] = visited[j + 1]
            BY <6>1 DEF ChainIInv
          <6> QED
            BY <6>1, <6>2
        <5> QED
          BY <5>1, <5>2
      <4>3. \A m \in ring : next[m] \in ring
        BY <4>2
      <4> HIDE DEF ring
      <4>4. EndsOf(next, visited[i]) = {}
        BY <1>0, <4>1, <4>3, RingHasNoEnd
      <4> QED
        BY <4>1, <4>4 DEF ChainIInv
    <3> QED
      BY <1>0, <3>1, <3>2
  <2> QED
    BY <1>0, <2>1, <2>3, <2>4, <2>5, <2>6 DEF ChainIInv
<1>5. CASE Chain!Return
  BY <1>5 DEF ChainIInv, Chain!Return, Chain!TypeOK, Chain!HandledOnce
<1>6. CASE UNCHANGED chainVars
  BY <1>6 DEF ChainIInv, chainVars, Chain!TypeOK, Chain!HandledOnce
<1> QED
  BY <1>1, <1>2, <1>3, <1>4, <1>5, <1>6 DEF Chain!Next

\* What the chains promise follows from the invariant.
LEMMA ChainPromises ==
  ChainIInv /\ ServiceAssumption => Chain!EndlessOnlyByRejoining /\ Chain!HandledOnce
BY ChainOperators DEF ChainIInv, Chain!EndlessOnlyByRejoining, Chain!Cyclic

-----------------------------------------------------------------------------
(* Requests. *)

Known   == {Pipeline!BadRequest, Pipeline!NotFound, Pipeline!InternalServerError, Pipeline!PlainError}
Answers == {Pipeline!Transform("", code) : code \in {200, 201}} \cup {Pipeline!Catch(e) : e \in Known}
States  == {"idle", "sent", "piped", "handled", "calling", "returned", "thrown", "answered", "dropped"}

\* What a request has as soon as it is handled without a fault, and what its client
\* counts then.
Effective(r) == IF r.route \in Pipeline!Orders \cup Pipeline!Webhooks THEN 1 ELSE 0

\* The value thrown for a request, if nothing fails.
Due(r) ==
  IF r.route \notin Pipeline!Routes THEN Pipeline!NotFound
  ELSE IF r.body \in {"Malformed", "Invalid"} THEN Pipeline!BadRequest ELSE Pipeline!Mapped(r.route)

\* What holds of one request: how far what it may be has been checked, what it has
\* done compared with what its client knows of, and, without a fault, the answer
\* it is about to get.
Checked(c) ==
  /\ pc[c] \in {"piped", "handled", "calling"} =>
       request[c].body # "Malformed" /\ request[c].route \in Pipeline!Routes
  /\ pc[c] \in {"handled", "calling"} => request[c].body # "Invalid"
  /\ pc[c] = "calling" =>
       /\ request[c].route \in Pipeline!Calling
       /\ request[c].body = "Refused" => request[c].route = "cashfree/order-status"

Counted(c) ==
  /\ heard[c] => pc[c] = "answered"
  /\ done[c] <= tries[c] /\ tries[c] <= MaxTries
  /\ pc[c] \in {"sent", "piped", "handled", "calling"} => done[c] < tries[c]
  /\ pc[c] # "returned" => done[c] = unheard[c] + (IF heard[c] THEN Effective(request[c]) ELSE 0)
  /\ pc[c] = "returned" => done[c] = unheard[c] + Effective(request[c])

Answered(c) ==
  /\ pc[c] = "thrown" <=> outcome[c] # Absent
  /\ reqFaults = 0 =>
       /\ pc[c] = "returned" => request[c].body = "Good" /\ request[c].route \in Pipeline!Routes
       /\ pc[c] = "thrown" => outcome[c] = Due(request[c])
                              /\ ~(request[c].body = "Good" /\ request[c].route \in Pipeline!Routes)
       /\ pc[c] = "answered" =>
            answer[c] = IF request[c].body = "Good" /\ request[c].route \in Pipeline!Routes
                        THEN Pipeline!Transform("", Pipeline!Status(request[c].route))
                        ELSE Pipeline!Catch(Due(request[c]))

RequestOK(c) == Checked(c) /\ Counted(c) /\ Answered(c)

RequestTypes ==
  /\ request \in [Clients -> Pipeline!Requests]
  /\ pc \in [Clients -> States]
  /\ outcome \in [Clients -> Known \cup {Absent}]
  /\ answer \in [Clients -> Answers \cup {Absent}]
  /\ tries \in [Clients -> Nat] /\ done \in [Clients -> Nat] /\ unheard \in [Clients -> Nat]
  /\ heard \in [Clients -> BOOLEAN]
  /\ reqFaults \in Nat /\ reqFaults <= MaxRequestFaults
  /\ asked \subseteq Pipeline!Requests

\* The inductive invariant of the requests.
RequestIInv == RequestTypes /\ Pipeline!OnlyCheckedAsked /\ \A c \in Clients : RequestOK(c)

\* The bodies there are, and the routes on which they can be refused.
LEMMA RequestShapes ==
  ASSUME NEW r \in Pipeline!Requests
  PROVE  /\ r.body \in {"Good", "Malformed", "Invalid", "Refused"}
         /\ r.body = "Malformed" => r.route \in Pipeline!Posts
         /\ r.body = "Invalid" => r.route \in Pipeline!Validated
         /\ r.body = "Refused" => r.route \in Pipeline!SelfRefusing \cup {"cashfree/order-status"}
<1>1. CASE r \in [route : {"unknown"}, body : {"Good"}]
  <2>1. r.body = "Good"
    BY <1>1
  <2> QED
    BY <2>1
<1>2. ASSUME NEW p \in Pipeline!Routes, r \in [route : {p}, body : Pipeline!Bodies(p)]
      PROVE  /\ r.body \in {"Good", "Malformed", "Invalid", "Refused"}
             /\ r.body = "Malformed" => r.route \in Pipeline!Posts
             /\ r.body = "Invalid" => r.route \in Pipeline!Validated
             /\ r.body = "Refused" => r.route \in Pipeline!SelfRefusing \cup {"cashfree/order-status"}
  <2>1. r.route = p /\ r.body \in Pipeline!Bodies(p)
    BY <1>2
  <2> QED
    BY <2>1 DEF Pipeline!Bodies
<1>3. \/ r \in [route : {"unknown"}, body : {"Good"}]
      \/ \E p \in Pipeline!Routes : r \in [route : {p}, body : Pipeline!Bodies(p)]
  <2>1. \/ r \in [route : {"unknown"}, body : {"Good"}]
        \/ r \in UNION {[route : {p}, body : Pipeline!Bodies(p)] : p \in Pipeline!Routes}
    BY DEF Pipeline!Requests
  <2> QED
    BY <2>1, Zenon
<1> QED
  BY <1>1, <1>2, <1>3

\* How the sets of routes lie to each other.
LEMMA RouteSets ==
  /\ Pipeline!Posts \subseteq Pipeline!Routes /\ Pipeline!Validated \subseteq Pipeline!Posts
  /\ Pipeline!SelfRefusing \subseteq Pipeline!Posts /\ "cashfree/order-status" \in Pipeline!Routes
  /\ "cashfree/order-status" \notin Pipeline!Posts /\ "cashfree/order-status" \in Pipeline!Calling
  /\ Pipeline!Orders \subseteq Pipeline!Calling /\ Pipeline!Orders \cap Pipeline!Webhooks = {}
  /\ Pipeline!Webhooks \cap Pipeline!Calling = {} /\ Pipeline!Validated \subseteq Pipeline!Calling
  /\ Pipeline!SelfRefusing = Pipeline!Validated \cup {"razorpay/webhook"}
  /\ "razorpay/webhook" \notin Pipeline!Validated /\ "razorpay/webhook" \in Pipeline!Webhooks
BY DEF Pipeline!Posts, Pipeline!Routes, Pipeline!Validated, Pipeline!SelfRefusing, Pipeline!Calling,
       Pipeline!Orders, Pipeline!Webhooks, Pipeline!Lists

\* What the controllers make of errors is known, and told apart by the route.
LEMMA MappedErrors ==
  /\ \A route \in Pipeline!Validated : Pipeline!Mapped(route) = Pipeline!BadRequest
  /\ Pipeline!Mapped("cashfree/order-status") = Pipeline!InternalServerError
  /\ Pipeline!Mapped("razorpay/webhook") = Pipeline!PlainError
BY RouteSets DEF Pipeline!Mapped

LEMMA CallingIsMapped ==
  \A route \in Pipeline!Calling \cup Pipeline!SelfRefusing : Pipeline!Mapped(route) \in Known
<1>1. Pipeline!Calling \cup Pipeline!SelfRefusing
        = Pipeline!Validated \cup {"cashfree/order-status", "razorpay/webhook"}
  BY DEF Pipeline!Calling, Pipeline!SelfRefusing, Pipeline!Validated
<1> QED
  BY <1>1, MappedErrors DEF Known

\* A step of one client leaves what holds of the others.
LEMMA OthersKept ==
  ASSUME NEW c \in Clients, NEW d \in Clients, RequestIInv,
         request' = request, pc'[d] = pc[d], outcome'[d] = outcome[d], answer'[d] = answer[d],
         tries'[d] = tries[d], done'[d] = done[d], heard'[d] = heard[d], unheard'[d] = unheard[d],
         reqFaults' = 0 => reqFaults = 0
  PROVE  RequestOK(d)'
<1>1. RequestOK(d)
  BY DEF RequestIInv
<1>2. Checked(d)'
  BY <1>1 DEF RequestOK, Checked
<1>3. Counted(d)'
  BY <1>1 DEF RequestOK, Counted
<1>4. Answered(d)'
  BY <1>1 DEF RequestOK, Answered
<1> QED
  BY <1>2, <1>3, <1>4 DEF RequestOK

\* What every action of one client but CallFails and Send leaves alone.
OnlyOf(c) ==
  /\ request' = request /\ DOMAIN pc' = Clients
  /\ \A d \in Clients \ {c} :
       /\ pc'[d] = pc[d] /\ outcome'[d] = outcome[d] /\ answer'[d] = answer[d] /\ tries'[d] = tries[d]
       /\ done'[d] = done[d] /\ heard'[d] = heard[d] /\ unheard'[d] = unheard[d]
  /\ reqFaults' = 0 => reqFaults = 0

\* It is enough to look at the client that made the step.
LEMMA OneClient ==
  ASSUME NEW c \in Clients, RequestIInv, OnlyOf(c), RequestTypes', Pipeline!OnlyCheckedAsked', RequestOK(c)'
  PROVE  RequestIInv'
<1>1. ASSUME NEW d \in Clients \ {c} PROVE RequestOK(d)'
  BY OthersKept DEF OnlyOf
<1> QED
  BY <1>1 DEF RequestIInv

LEMMA RequestInit == ServiceAssumption /\ Pipeline!Init => RequestIInv
<1> SUFFICES ASSUME ServiceAssumption, Pipeline!Init PROVE RequestIInv
  OBVIOUS
<1>1. RequestTypes
  BY ServiceAssumption DEF Pipeline!Init, RequestTypes, States, Pipeline!PipelineAssumption
<1>2. Pipeline!OnlyCheckedAsked
  BY DEF Pipeline!Init, Pipeline!OnlyCheckedAsked
<1>3. ASSUME NEW c \in Clients PROVE RequestOK(c)
  <2>1. pc[c] = "idle" /\ outcome[c] = Absent /\ tries[c] = 0 /\ done[c] = 0 /\ heard[c] = FALSE /\ unheard[c] = 0
    BY DEF Pipeline!Init
  <2> QED
    BY <2>1, ServiceAssumption DEF RequestOK, Checked, Counted, Answered, Pipeline!PipelineAssumption
<1> QED
  BY <1>1, <1>2, <1>3 DEF RequestIInv

\* The thrown values are none of the results.
LEMMA ThrownIsSomething == ServiceAssumption => Absent \notin Known
BY DEF Pipeline!PipelineAssumption, Known

LEMMA SendStep ==
  ASSUME ServiceAssumption, RequestIInv, NEW c \in Clients, Pipeline!Send(c)
  PROVE  RequestIInv'
<1>1. /\ pc[c] \in {"idle", "answered", "dropped"} /\ tries[c] < MaxTries /\ ~heard[c]
      /\ tries' = [tries EXCEPT ![c] = tries[c] + 1] /\ answer' = [answer EXCEPT ![c] = Absent]
      /\ pc' = [pc EXCEPT ![c] = "sent"]
      /\ UNCHANGED <<request, outcome, done, heard, unheard, asked, reqFaults>>
  BY DEF Pipeline!Send, Pipeline!Goto
<1>2. RequestTypes'
  BY <1>1 DEF RequestIInv, RequestTypes, States
<1>3. OnlyOf(c)
  BY <1>1 DEF OnlyOf, RequestIInv, RequestTypes
<1>4. Pipeline!OnlyCheckedAsked'
  BY <1>1 DEF RequestIInv, Pipeline!OnlyCheckedAsked
<1>5. RequestOK(c)'
  <2>1. /\ pc'[c] = "sent" /\ tries'[c] = tries[c] + 1 /\ done'[c] = done[c] /\ outcome'[c] = outcome[c]
        /\ heard'[c] = heard[c] /\ unheard'[c] = unheard[c] /\ tries[c] \in Nat /\ done[c] \in Nat
    BY <1>1 DEF RequestIInv, RequestTypes
  <2>2. Checked(c)'
    BY <2>1 DEF Checked
  <2>3. Counted(c)'
    <3>1. MaxTries \in Nat /\ Counted(c)
      BY ServiceAssumption DEF Pipeline!PipelineAssumption, RequestIInv, RequestOK
    <3> QED
      BY <1>1, <2>1, <3>1 DEF Counted
  <2>4. Answered(c)'
    BY <1>1, <2>1 DEF RequestIInv, RequestOK, Answered
  <2> QED
    BY <2>2, <2>3, <2>4 DEF RequestOK
<1> QED
  BY <1>2, <1>3, <1>4, <1>5, OneClient

\* What the steps of the service on a request have in common: the client and what it
\* counts stay, but for the effects done and unheard of.
ServedAs(c, where, thrown) ==
  /\ pc' = [pc EXCEPT ![c] = where] /\ outcome' = [outcome EXCEPT ![c] = thrown]
  /\ UNCHANGED <<request, answer, tries, heard>>

\* Throwing an error leads to a state of the invariant, if it is the one due unless
\* there were faults and nothing has been done that is not told.
LEMMA ThrowStep ==
  ASSUME ServiceAssumption, RequestIInv, NEW c \in Clients, NEW e \in Known, ServedAs(c, "thrown", e),
         UNCHANGED <<done, unheard, reqFaults>>, Pipeline!OnlyCheckedAsked', asked' \subseteq Pipeline!Requests,
         pc[c] \in {"sent", "piped", "handled", "calling"},
         reqFaults = 0 =>
           e = Due(request[c]) /\ ~(request[c].body = "Good" /\ request[c].route \in Pipeline!Routes)
  PROVE  RequestIInv'
<1>1. RequestTypes'
  BY DEF RequestIInv, RequestTypes, ServedAs, States
<1>2. OnlyOf(c)
  BY DEF OnlyOf, RequestIInv, RequestTypes, ServedAs
<1>3. /\ pc'[c] = "thrown" /\ outcome'[c] = e /\ RequestOK(c) /\ e # Absent
      /\ UNCHANGED <<request, answer, tries, heard, done, unheard, reqFaults>>
      /\ done[c] \in Nat /\ tries[c] \in Nat
  BY ThrownIsSomething DEF RequestIInv, RequestTypes, ServedAs
<1>4. Counted(c)'
  <2>1. heard[c] = FALSE
    BY <1>3 DEF RequestOK, Counted, RequestIInv, RequestTypes
  <2>2. done[c] = unheard[c]
    BY <1>3, <2>1 DEF RequestOK, Counted, RequestIInv, RequestTypes
  <2>3. done[c] <= tries[c] /\ tries[c] <= MaxTries
    BY <1>3 DEF RequestOK, Counted
  <2>4. unheard[c] \in Nat
    BY DEF RequestIInv, RequestTypes
  <2> QED
    BY <1>3, <2>1, <2>2, <2>3, <2>4 DEF Counted
<1>5. RequestOK(c)'
  BY <1>3, <1>4 DEF RequestOK, Checked, Answered
<1> QED
  BY <1>1, <1>2, <1>5, OneClient

\* A step further leads to a state of the invariant if the check it stands for was made.
LEMMA FurtherStep ==
  ASSUME ServiceAssumption, RequestIInv, NEW c \in Clients, NEW where \in {"piped", "handled", "calling"},
         ServedAs(c, where, outcome[c]), UNCHANGED <<done, unheard, reqFaults>>,
         Pipeline!OnlyCheckedAsked', asked' \subseteq Pipeline!Requests,
         pc[c] \in {"sent", "piped", "handled"}, Checked(c)'
  PROVE  RequestIInv'
<1>1. /\ pc'[c] = where /\ outcome' = outcome /\ RequestOK(c)
      /\ UNCHANGED <<request, answer, tries, heard, done, unheard, reqFaults>>
  BY DEF RequestIInv, RequestTypes, ServedAs
<1>2. RequestTypes'
  BY <1>1 DEF RequestIInv, RequestTypes, ServedAs, States
<1>3. OnlyOf(c)
  BY DEF OnlyOf, RequestIInv, RequestTypes, ServedAs
<1>4. Counted(c)'
  BY <1>1 DEF RequestOK, Counted
<1>5. RequestOK(c)'
  BY <1>1, <1>4 DEF RequestOK, Answered
<1> QED
  BY <1>2, <1>3, <1>5, OneClient

\* What the asked gateway is asked stays checked if nothing is asked, or a checked request.
LEMMA AskedStay ==
  ASSUME RequestIInv, asked' = asked
  PROVE  Pipeline!OnlyCheckedAsked' /\ asked' \subseteq Pipeline!Requests
BY DEF RequestIInv, RequestTypes, Pipeline!OnlyCheckedAsked

LEMMA AcceptStep ==
  ASSUME ServiceAssumption, RequestIInv, NEW c \in Clients, Pipeline!Accept(c)
  PROVE  RequestIInv'
<1>1. /\ pc[c] = "sent" /\ UNCHANGED <<request, answer, tries, heard, done, unheard, asked, reqFaults>>
      /\ request[c] \in Pipeline!Requests /\ outcome = [outcome EXCEPT ![c] = outcome[c]]
  BY DEF Pipeline!Accept, Pipeline!client, RequestIInv, RequestTypes
<1>2. Pipeline!OnlyCheckedAsked' /\ asked' \subseteq Pipeline!Requests
  BY <1>1, AskedStay
<1>3. CASE request[c].body = "Malformed"
  <2>1. ServedAs(c, "thrown", Pipeline!BadRequest)
    BY <1>1, <1>3 DEF Pipeline!Accept, Pipeline!Body, Pipeline!Throws, Pipeline!Goto, ServedAs
  <2>2. request[c].route \in Pipeline!Routes
    BY <1>1, <1>3, RequestShapes, RouteSets
  <2>3. Pipeline!BadRequest = Due(request[c]) /\ Pipeline!BadRequest \in Known
    BY <1>3, <2>2 DEF Due, Known
  <2> QED
    BY <1>1, <1>2, <1>3, <2>1, <2>3, ThrowStep
<1>4. CASE request[c].body # "Malformed" /\ request[c].route \notin Pipeline!Routes
  <2>1. ServedAs(c, "thrown", Pipeline!NotFound)
    BY <1>1, <1>4 DEF Pipeline!Accept, Pipeline!Body, Pipeline!Route, Pipeline!Throws, Pipeline!Goto, ServedAs
  <2>2. Pipeline!NotFound = Due(request[c]) /\ Pipeline!NotFound \in Known
    BY <1>4 DEF Due, Known
  <2> QED
    BY <1>1, <1>2, <1>4, <2>1, <2>2, ThrowStep
<1>5. CASE request[c].body # "Malformed" /\ request[c].route \in Pipeline!Routes
  <2>1. ServedAs(c, "piped", outcome[c])
    BY <1>1, <1>5 DEF Pipeline!Accept, Pipeline!Body, Pipeline!Route, Pipeline!Goto, ServedAs
  <2>2. Checked(c)'
    BY <1>1, <1>5, <2>1 DEF Checked, ServedAs, RequestIInv, RequestTypes
  <2> QED
    BY <1>1, <1>2, <2>1, <2>2, FurtherStep
<1> QED
  BY <1>3, <1>4, <1>5

LEMMA PipeStep ==
  ASSUME ServiceAssumption, RequestIInv, NEW c \in Clients, Pipeline!Pipe(c)
  PROVE  RequestIInv'
<1>1. /\ pc[c] = "piped" /\ UNCHANGED <<request, answer, tries, heard, done, unheard, asked, reqFaults>>
      /\ request[c] \in Pipeline!Requests /\ outcome = [outcome EXCEPT ![c] = outcome[c]]
  BY DEF Pipeline!Pipe, Pipeline!client, RequestIInv, RequestTypes
<1>2. Pipeline!OnlyCheckedAsked' /\ asked' \subseteq Pipeline!Requests
  BY <1>1, AskedStay
<1>3. request[c].body # "Malformed" /\ request[c].route \in Pipeline!Routes
  BY <1>1 DEF RequestIInv, RequestOK, Checked
<1>4. CASE request[c].body = "Invalid"
  <2>1. request[c].route \in Pipeline!Validated
    BY <1>1, <1>4, RequestShapes
  <2>2. ServedAs(c, "thrown", Pipeline!BadRequest)
    BY <1>1, <1>4, <2>1
    DEF Pipeline!Pipe, Pipeline!Body, Pipeline!Route, Pipeline!ToValidate, Pipeline!Throws, Pipeline!Goto, ServedAs
  <2>3. Pipeline!BadRequest = Due(request[c]) /\ Pipeline!BadRequest \in Known
    BY <1>3, <1>4 DEF Due, Known
  <2> QED
    BY <1>1, <1>2, <1>4, <2>2, <2>3, ThrowStep
<1>5. CASE request[c].body # "Invalid"
  <2>1. ServedAs(c, "handled", outcome[c])
    BY <1>1, <1>5 DEF Pipeline!Pipe, Pipeline!Body, Pipeline!Route, Pipeline!Goto, ServedAs
  <2>2. Checked(c)'
    BY <1>1, <1>3, <1>5, <2>1 DEF Checked, ServedAs, RequestIInv, RequestTypes
  <2> QED
    BY <1>1, <1>2, <2>1, <2>2, FurtherStep
<1> QED
  BY <1>4, <1>5

\* Returning a result leads to a state of the invariant, if the request took its
\* effect in this step.
LEMMA ReturnStep ==
  ASSUME ServiceAssumption, RequestIInv, NEW c \in Clients, ServedAs(c, "returned", Absent),
         UNCHANGED <<unheard, asked, reqFaults>>, pc[c] \in {"handled", "calling"},
         done' = [done EXCEPT ![c] = done[c] + Effective(request[c])],
         request[c].body = "Good", request[c].route \in Pipeline!Routes
  PROVE  RequestIInv'
<1>1. /\ pc'[c] = "returned" /\ outcome'[c] = Absent /\ RequestOK(c) /\ done'[c] = done[c] + Effective(request[c])
      /\ UNCHANGED <<request, answer, tries, heard, unheard, reqFaults>>
      /\ done[c] \in Nat /\ tries[c] \in Nat /\ unheard[c] \in Nat /\ Effective(request[c]) \in {0, 1}
      /\ heard[c] \in BOOLEAN
  BY DEF RequestIInv, RequestTypes, ServedAs, Effective
<1>2. RequestTypes'
  <2>1. done' \in [Clients -> Nat]
    BY <1>1 DEF RequestIInv, RequestTypes
  <2>2. pc' \in [Clients -> States] /\ outcome' \in [Clients -> Known \cup {Absent}]
    BY DEF RequestIInv, RequestTypes, ServedAs, States
  <2> QED
    BY <1>1, <2>1, <2>2 DEF RequestIInv, RequestTypes
<1>3. OnlyOf(c)
  BY DEF OnlyOf, RequestIInv, RequestTypes, ServedAs
<1>4. Pipeline!OnlyCheckedAsked'
  BY AskedStay
<1>5. Counted(c)'
  <2>1. heard[c] = FALSE /\ done[c] = unheard[c] /\ done[c] < tries[c] /\ tries[c] <= MaxTries
    BY <1>1 DEF RequestOK, Counted
  <2>2. Effective(request'[c]) = Effective(request[c])
    BY <1>1
  <2>3. done'[c] <= tries'[c] /\ tries'[c] <= MaxTries
    BY <1>1, <2>1
  <2>4. done'[c] = unheard'[c] + Effective(request'[c])
    BY <1>1, <2>1, <2>2
  <2> QED
    BY <1>1, <2>1, <2>3, <2>4 DEF Counted
<1>6. RequestOK(c)'
  BY <1>1, <1>5 DEF RequestOK, Checked, Answered
<1> QED
  BY <1>2, <1>3, <1>4, <1>6, OneClient

LEMMA HandleLocallyStep ==
  ASSUME ServiceAssumption, RequestIInv, NEW c \in Clients, Pipeline!HandleLocally(c)
  PROVE  RequestIInv'
<1>1. /\ pc[c] = "handled" /\ UNCHANGED <<request, answer, tries, heard, unheard, asked, reqFaults>>
      /\ request[c] \in Pipeline!Requests /\ request[c].route \notin Pipeline!Calling
      /\ done \in [Clients -> Nat]
  BY DEF Pipeline!HandleLocally, Pipeline!client, Pipeline!Route, RequestIInv, RequestTypes
<1>2. Pipeline!OnlyCheckedAsked' /\ asked' \subseteq Pipeline!Requests
  BY <1>1, AskedStay
<1>3. request[c].body \in {"Good", "Refused"} /\ request[c].route \in Pipeline!Routes
  BY <1>1, RequestShapes DEF RequestIInv, RequestOK, Checked
<1>4. CASE request[c].body = "Refused"
  <2>1. request[c].route = "razorpay/webhook"
    BY <1>1, <1>4, RequestShapes, RouteSets
  <2>2. ServedAs(c, "thrown", Pipeline!Mapped(request[c].route)) /\ done' = done
    BY <1>1, <1>4
    DEF Pipeline!HandleLocally, Pipeline!Body, Pipeline!Route, Pipeline!Throws, Pipeline!Goto, ServedAs
  <2>3. Pipeline!Mapped(request[c].route) = Due(request[c]) /\ Pipeline!Mapped(request[c].route) \in Known
    BY <1>3, <1>4, <2>1, RouteSets, CallingIsMapped DEF Due
  <2> QED
    BY <1>1, <1>2, <1>4, <2>2, <2>3, ThrowStep
<1>5. CASE request[c].body = "Good"
  <2>1. ServedAs(c, "returned", Absent)
    BY <1>1, <1>5
    DEF Pipeline!HandleLocally, Pipeline!Body, Pipeline!Route, Pipeline!Returns, Pipeline!Goto, ServedAs
  <2>2. done' = IF request[c].route \in Pipeline!Webhooks THEN [done EXCEPT ![c] = done[c] + 1] ELSE done
    BY <1>5 DEF Pipeline!HandleLocally, Pipeline!Body, Pipeline!Route
  <2>3. Effective(request[c]) = IF request[c].route \in Pipeline!Webhooks THEN 1 ELSE 0
    BY <1>1, RouteSets DEF Effective
  <2>4. done' = [done EXCEPT ![c] = done[c] + Effective(request[c])]
    <3>1. done = [done EXCEPT ![c] = done[c] + 0]
      BY <1>1
    <3>2. CASE request[c].route \in Pipeline!Webhooks
      BY <2>2, <2>3, <3>2
    <3>3. CASE request[c].route \notin Pipeline!Webhooks
      <4>1. done' = done /\ Effective(request[c]) = 0
        BY <2>2, <2>3, <3>3
      <4> QED
        BY <3>1, <4>1
    <3> QED
      BY <3>2, <3>3
  <2> QED
    BY <1>1, <1>3, <1>5, <2>1, <2>4, ReturnStep
<1> QED
  BY <1>3, <1>4, <1>5

LEMMA HandleCallingStep ==
  ASSUME ServiceAssumption, RequestIInv, NEW c \in Clients, Pipeline!HandleCalling(c)
  PROVE  RequestIInv'
<1>1. /\ pc[c] = "handled" /\ UNCHANGED <<request, answer, tries, heard, done, unheard, reqFaults>>
      /\ request[c] \in Pipeline!Requests /\ request[c].route \in Pipeline!Calling
      /\ outcome = [outcome EXCEPT ![c] = outcome[c]]
  BY DEF Pipeline!HandleCalling, Pipeline!client, Pipeline!Route, RequestIInv, RequestTypes
<1>3. request[c].body \in {"Good", "Refused"} /\ request[c].route \in Pipeline!Routes
  BY <1>1, RequestShapes DEF RequestIInv, RequestOK, Checked
<1>4. CASE request[c].body = "Refused" /\ request[c].route \in Pipeline!SelfRefusing
  <2>1. ServedAs(c, "thrown", Pipeline!Mapped(request[c].route)) /\ asked' = asked
    BY <1>1, <1>4
    DEF Pipeline!HandleCalling, Pipeline!Body, Pipeline!Route, Pipeline!Throws, Pipeline!Goto, ServedAs
  <2>2. Pipeline!Mapped(request[c].route) = Due(request[c]) /\ Pipeline!Mapped(request[c].route) \in Known
    BY <1>3, <1>4, CallingIsMapped DEF Due
  <2>3. Pipeline!OnlyCheckedAsked' /\ asked' \subseteq Pipeline!Requests
    BY <2>1, AskedStay
  <2> QED
    BY <1>1, <1>4, <2>1, <2>2, <2>3, ThrowStep
<1>5. CASE ~(request[c].body = "Refused" /\ request[c].route \in Pipeline!SelfRefusing)
  <2>1. ServedAs(c, "calling", outcome[c]) /\ asked' = asked \cup {request[c]}
    BY <1>1, <1>5
    DEF Pipeline!HandleCalling, Pipeline!Body, Pipeline!Route, Pipeline!Goto, ServedAs
  <2>2. request[c].body = "Refused" => request[c].route = "cashfree/order-status"
    BY <1>1, <1>5, RequestShapes
  <2>3. Pipeline!OnlyCheckedAsked' /\ asked' \subseteq Pipeline!Requests
    BY <1>1, <1>3, <2>1, <2>2 DEF RequestIInv, RequestTypes, Pipeline!OnlyCheckedAsked
  <2>4. Checked(c)'
    BY <1>1, <1>3, <2>1, <2>2 DEF Checked, ServedAs, RequestIInv, RequestTypes
  <2> QED
    BY <1>1, <2>1, <2>3, <2>4, FurtherStep
<1> QED
  BY <1>4, <1>5

LEMMA GatewayAnswersStep ==
  ASSUME ServiceAssumption, RequestIInv, NEW c \in Clients, Pipeline!GatewayAnswers(c)
  PROVE  RequestIInv'
<1>1. /\ pc[c] = "calling" /\ UNCHANGED <<request, answer, tries, heard, unheard, asked, reqFaults>>
      /\ request[c] \in Pipeline!Requests /\ request[c].body # "Refused"
      /\ done' = [done EXCEPT ![c] = done[c] + Pipeline!Effect(c)]
      /\ ServedAs(c, "returned", Absent)
  BY DEF Pipeline!GatewayAnswers, Pipeline!client, Pipeline!Body, Pipeline!Returns, Pipeline!Goto, ServedAs,
         RequestIInv, RequestTypes
<1>2. /\ request[c].body = "Good" /\ request[c].route \in Pipeline!Routes
      /\ request[c].route \in Pipeline!Calling
  BY <1>1, RequestShapes DEF RequestIInv, RequestOK, Checked
<1>3. Pipeline!Effect(c) = Effective(request[c])
  BY <1>2, RouteSets DEF Pipeline!Effect, Pipeline!Route, Effective
<1> QED
  BY <1>1, <1>2, <1>3, ReturnStep

LEMMA GatewayRefusesStep ==
  ASSUME ServiceAssumption, RequestIInv, NEW c \in Clients, Pipeline!GatewayRefuses(c)
  PROVE  RequestIInv'
<1>1. /\ pc[c] = "calling" /\ UNCHANGED <<request, answer, tries, heard, done, unheard, asked, reqFaults>>
      /\ request[c].body = "Refused" /\ ServedAs(c, "thrown", Pipeline!Mapped(request[c].route))
  BY DEF Pipeline!GatewayRefuses, Pipeline!client, Pipeline!Body, Pipeline!Route, Pipeline!Throws, Pipeline!Goto,
         ServedAs
<1>2. request[c].route \in Pipeline!Calling /\ request[c].route \in Pipeline!Routes
  BY <1>1 DEF RequestIInv, RequestOK, Checked
<1>3. Pipeline!Mapped(request[c].route) = Due(request[c]) /\ Pipeline!Mapped(request[c].route) \in Known
  BY <1>1, <1>2, CallingIsMapped DEF Due
<1>4. Pipeline!OnlyCheckedAsked' /\ asked' \subseteq Pipeline!Requests
  BY <1>1, AskedStay
<1> QED
  BY <1>1, <1>3, <1>4, ThrowStep

LEMMA CallFailsStep ==
  ASSUME ServiceAssumption, RequestIInv, NEW c \in Clients, Pipeline!CallFails(c)
  PROVE  RequestIInv'
<1>1. /\ pc[c] = "calling" /\ reqFaults < MaxRequestFaults /\ reqFaults' = reqFaults + 1
      /\ UNCHANGED <<request, answer, tries, heard, asked>>
      /\ ServedAs(c, "thrown", Pipeline!Mapped(request[c].route))
  BY DEF Pipeline!CallFails, Pipeline!client, Pipeline!Route, Pipeline!Throws, Pipeline!Goto, ServedAs
<1>2. PICK e \in {0, 1} : /\ done' = [done EXCEPT ![c] = done[c] + e]
                          /\ unheard' = [unheard EXCEPT ![c] = unheard[c] + e]
  BY DEF Pipeline!CallFails, Pipeline!Effect
<1>3. /\ pc'[c] = "thrown" /\ outcome'[c] \in Known /\ outcome'[c] # Absent /\ RequestOK(c)
      /\ done[c] \in Nat /\ unheard[c] \in Nat /\ tries[c] \in Nat /\ heard[c] \in BOOLEAN /\ reqFaults \in Nat
      /\ done'[c] = done[c] + e /\ unheard'[c] = unheard[c] + e /\ MaxRequestFaults \in Nat
      /\ Pipeline!Mapped(request[c].route) \in Known
  <2>1. request[c].route \in Pipeline!Calling
    BY <1>1 DEF RequestIInv, RequestOK, Checked
  <2>2. Pipeline!Mapped(request[c].route) \in Known
    BY <2>1, CallingIsMapped
  <2>3. pc'[c] = "thrown" /\ outcome'[c] = Pipeline!Mapped(request[c].route)
    BY <1>1 DEF ServedAs, RequestIInv, RequestTypes
  <2>4. Pipeline!Mapped(request[c].route) # Absent
    BY <2>2, ThrownIsSomething
  <2>5. /\ RequestOK(c) /\ done[c] \in Nat /\ unheard[c] \in Nat /\ tries[c] \in Nat /\ heard[c] \in BOOLEAN
        /\ reqFaults \in Nat /\ done'[c] = done[c] + e /\ unheard'[c] = unheard[c] + e
    BY <1>2 DEF RequestIInv, RequestTypes
  <2>6. MaxRequestFaults \in Nat
    BY ServiceAssumption DEF Pipeline!PipelineAssumption
  <2> QED
    BY <2>2, <2>3, <2>4, <2>5, <2>6
<1>4. RequestTypes'
  <2>1. done' \in [Clients -> Nat] /\ unheard' \in [Clients -> Nat]
    BY <1>2, <1>3 DEF RequestIInv, RequestTypes
  <2>2. pc' \in [Clients -> States] /\ outcome' \in [Clients -> Known \cup {Absent}]
    BY <1>1, <1>3 DEF RequestIInv, RequestTypes, ServedAs, States
  <2>3. reqFaults' \in Nat /\ reqFaults' <= MaxRequestFaults
    BY <1>1, <1>3
  <2> QED
    BY <1>1, <2>1, <2>2, <2>3 DEF RequestIInv, RequestTypes
<1>5. OnlyOf(c)
  BY <1>1, <1>2, <1>3 DEF OnlyOf, RequestIInv, RequestTypes, ServedAs
<1>6. Pipeline!OnlyCheckedAsked'
  BY <1>1, AskedStay
<1>7. Counted(c)'
  <2>1. heard[c] = FALSE /\ done[c] = unheard[c] /\ done[c] < tries[c] /\ tries[c] <= MaxTries
    BY <1>1, <1>3 DEF RequestOK, Counted
  <2>2. /\ done'[c] = unheard'[c] /\ heard'[c] = FALSE /\ unheard'[c] \in Nat
        /\ done'[c] <= tries'[c] /\ tries'[c] <= MaxTries
    BY <1>1, <1>3, <2>1
  <2> QED
    BY <1>3, <2>2 DEF Counted
<1>8. RequestOK(c)'
  <2>1. reqFaults' # 0
    BY <1>1, <1>3
  <2> QED
    BY <1>3, <1>7, <2>1 DEF RequestOK, Checked, Answered
<1> QED
  BY <1>4, <1>5, <1>6, <1>8, OneClient

\* The answer to a result is a success, the answer to a thrown value is none.
LEMMA AnswerStatus ==
  /\ \A code : Pipeline!Transform("", code).body.status = "SUCCESS"
  /\ \A e : Pipeline!Catch(e).body.status # "SUCCESS"
<1>1. ASSUME NEW code PROVE Pipeline!Transform("", code).body.status = "SUCCESS"
  BY DEF Pipeline!Transform, Pipeline!OfResult
<1>2. ASSUME NEW e PROVE Pipeline!Catch(e).body.status # "SUCCESS"
  BY DEF Pipeline!Catch, Pipeline!OfError
<1> QED
  BY <1>1, <1>2

LEMMA RespondStep ==
  ASSUME ServiceAssumption, RequestIInv, NEW c \in Clients, Pipeline!Respond(c)
  PROVE  RequestIInv'
<1> DEFINE a == IF pc[c] = "returned" THEN Pipeline!Transform("", Pipeline!Status(request[c].route))
                ELSE Pipeline!Catch(outcome[c])
<1>1. /\ pc[c] \in {"returned", "thrown"} /\ UNCHANGED <<request, tries, done, unheard, asked, reqFaults>>
      /\ answer' = [answer EXCEPT ![c] = a] /\ heard' = [heard EXCEPT ![c] = a.body.status = "SUCCESS"]
      /\ outcome' = [outcome EXCEPT ![c] = Absent] /\ pc' = [pc EXCEPT ![c] = "answered"]
  BY DEF Pipeline!Respond, Pipeline!Route, Pipeline!Goto
<1>2. RequestOK(c) /\ Checked(c) /\ Counted(c) /\ Answered(c) /\ (pc[c] = "thrown" => outcome[c] \in Known)
  BY DEF RequestIInv, RequestTypes, RequestOK, Answered
<1>3. a \in Answers
  <2>1. CASE pc[c] = "returned"
    <3>1. Pipeline!Status(request[c].route) \in {200, 201}
      BY DEF Pipeline!Status
    <3> QED
      BY <2>1, <3>1 DEF Answers
  <2>2. CASE pc[c] # "returned"
    <3>1. outcome[c] \in Known /\ a = Pipeline!Catch(outcome[c])
      BY <1>1, <1>2, <2>2
    <3> QED
      BY <3>1 DEF Answers
  <2> QED
    BY <2>1, <2>2
<1>4. (a.body.status = "SUCCESS") = (pc[c] = "returned")
  BY <1>1, AnswerStatus
<1>5. reqFaults = 0 => a = IF request[c].body = "Good" /\ request[c].route \in Pipeline!Routes
                           THEN Pipeline!Transform("", Pipeline!Status(request[c].route))
                           ELSE Pipeline!Catch(Due(request[c]))
  BY <1>1, <1>2 DEF Answered
<1> HIDE DEF a
<1>6. heard' = [heard EXCEPT ![c] = (pc[c] = "returned")]
  BY <1>1, <1>4
<1>7. RequestTypes'
  <2>1. heard' \in [Clients -> BOOLEAN]
    BY <1>6 DEF RequestIInv, RequestTypes
  <2>2. /\ pc' \in [Clients -> States] /\ outcome' \in [Clients -> Known \cup {Absent}]
        /\ answer' \in [Clients -> Answers \cup {Absent}]
    BY <1>1, <1>3 DEF RequestIInv, RequestTypes, States
  <2> QED
    BY <1>1, <2>1, <2>2 DEF RequestIInv, RequestTypes
<1>8. OnlyOf(c)
  BY <1>1 DEF OnlyOf, RequestIInv, RequestTypes
<1>9. Pipeline!OnlyCheckedAsked'
  BY <1>1, AskedStay
<1>10. /\ pc'[c] = "answered" /\ outcome'[c] = Absent /\ answer'[c] = a /\ (heard'[c] <=> pc[c] = "returned")
       /\ UNCHANGED <<request, tries, done, unheard, reqFaults>>
       /\ unheard[c] \in Nat /\ done[c] \in Nat
  <2>1. heard'[c] <=> pc[c] = "returned"
    BY <1>6 DEF RequestIInv, RequestTypes
  <2> QED
    BY <1>1, <2>1 DEF RequestIInv, RequestTypes
<1>11. Counted(c)'
  <2>1. CASE pc[c] = "returned"
    <3>1. heard'[c] /\ done[c] = unheard[c] + Effective(request[c]) /\ done[c] <= tries[c] /\ tries[c] <= MaxTries
      BY <1>2, <1>10, <2>1 DEF Counted
    <3>2. Effective(request'[c]) = Effective(request[c])
      BY <1>10
    <3> QED
      BY <1>10, <3>1, <3>2 DEF Counted
  <2>2. CASE pc[c] = "thrown"
    <3>1. ~heard'[c] /\ ~heard[c] /\ done[c] <= tries[c] /\ tries[c] <= MaxTries
      BY <1>2, <1>10, <2>2 DEF Counted
    <3>2. done[c] = unheard[c]
      BY <1>2, <1>10, <2>2, <3>1 DEF Counted
    <3> QED
      BY <1>10, <3>1, <3>2 DEF Counted
  <2> QED
    BY <1>1, <2>1, <2>2
<1>12. RequestOK(c)'
  <2>1. Answered(c)'
    BY <1>5, <1>10 DEF Answered
  <2>2. Checked(c)'
    BY <1>10 DEF Checked
  <2> QED
    BY <1>11, <2>1, <2>2 DEF RequestOK
<1> QED
  BY <1>7, <1>8, <1>9, <1>12, OneClient

\* A crash drops the requests under way.  Its effects are those of the calls that were
\* under way and of the results that were not answered yet, and nobody hears of them.
LEMMA CrashStep ==
  ASSUME ServiceAssumption, RequestIInv, Pipeline!Crash
  PROVE  RequestIInv'
<1> DEFINE Open(c)   == pc[c] \notin {"idle", "answered", "dropped"}
           Call(c)   == pc[c] = "calling" /\ request[c].body # "Refused" /\ Pipeline!Effect(c) = 1
           Result(c) == pc[c] = "returned" /\ request[c].route \in Pipeline!Orders \cup Pipeline!Webhooks
<1>1. PICK late \in SUBSET Clients :
        /\ \A c \in late : Call(c)
        /\ done' = [c \in Clients |-> done[c] + (IF c \in late THEN 1 ELSE 0)]
        /\ unheard' = [c \in Clients |-> unheard[c] + (IF c \in late \/ Result(c) THEN 1 ELSE 0)]
        /\ pc' = [c \in Clients |-> IF Open(c) THEN "dropped" ELSE pc[c]]
        /\ outcome' = [c \in Clients |-> IF Open(c) THEN Absent ELSE outcome[c]]
        /\ reqFaults < MaxRequestFaults /\ reqFaults' = reqFaults + 1
        /\ UNCHANGED <<request, answer, tries, heard, asked>>
  <2> DEFINE open    == {c \in Clients : pc[c] \notin {"idle", "answered", "dropped"}}
             calls   == {c \in open : pc[c] = "calling" /\ Pipeline!Body(c) # "Refused" /\ Pipeline!Effect(c) = 1}
             results == {c \in open : pc[c] = "returned" /\ Pipeline!Route(c) \in Pipeline!Orders \cup Pipeline!Webhooks}
  <2>1. PICK late \in SUBSET calls :
          /\ done' = [c \in Clients |-> done[c] + (IF c \in late THEN 1 ELSE 0)]
          /\ unheard' = [c \in Clients |-> unheard[c] + (IF c \in late \cup results THEN 1 ELSE 0)]
          /\ pc' = [c \in Clients |-> IF c \in open THEN "dropped" ELSE pc[c]]
          /\ outcome' = [c \in Clients |-> IF c \in open THEN Absent ELSE outcome[c]]
          /\ reqFaults < MaxRequestFaults /\ reqFaults' = reqFaults + 1
          /\ UNCHANGED <<request, answer, tries, heard, asked>>
    BY DEF Pipeline!Crash, Pipeline!client
  <2>2. late \in SUBSET Clients /\ \A c \in late : Call(c)
    BY DEF Pipeline!Body
  <2>3. \A c \in Clients : (c \in open <=> Open(c)) /\ (c \in results <=> Result(c))
    BY DEF Pipeline!Route
  <2> HIDE DEF open, calls, results, Open, Call, Result
  <2>4. [c \in Clients |-> unheard[c] + (IF c \in late \cup results THEN 1 ELSE 0)]
          = [c \in Clients |-> unheard[c] + (IF c \in late \/ Result(c) THEN 1 ELSE 0)]
    BY <2>3
  <2>5. [c \in Clients |-> IF c \in open THEN "dropped" ELSE pc[c]]
          = [c \in Clients |-> IF Open(c) THEN "dropped" ELSE pc[c]]
    BY <2>3
  <2>6. [c \in Clients |-> IF c \in open THEN Absent ELSE outcome[c]]
          = [c \in Clients |-> IF Open(c) THEN Absent ELSE outcome[c]]
    BY <2>3
  <2> QED
    BY <2>1, <2>2, <2>4, <2>5, <2>6
<1>2. RequestTypes'
  <2>1. done' \in [Clients -> Nat] /\ unheard' \in [Clients -> Nat]
    BY <1>1 DEF RequestIInv, RequestTypes
  <2>2. pc' \in [Clients -> States] /\ outcome' \in [Clients -> Known \cup {Absent}]
    BY <1>1 DEF RequestIInv, RequestTypes, States
  <2>3. reqFaults' \in Nat /\ reqFaults' <= MaxRequestFaults
    BY <1>1, ServiceAssumption DEF RequestIInv, RequestTypes, Pipeline!PipelineAssumption
  <2> QED
    BY <1>1, <2>1, <2>2, <2>3 DEF RequestIInv, RequestTypes
<1>3. Pipeline!OnlyCheckedAsked'
  BY <1>1, AskedStay
<1>4. ASSUME NEW c \in Clients PROVE RequestOK(c)'
  <2>1. /\ RequestOK(c) /\ Checked(c) /\ Counted(c) /\ Answered(c) /\ reqFaults' # 0
        /\ done[c] \in Nat /\ unheard[c] \in Nat /\ tries[c] \in Nat /\ heard[c] \in BOOLEAN
        /\ pc[c] \in States /\ UNCHANGED <<request, answer, tries, heard>>
    BY <1>1 DEF RequestIInv, RequestTypes, RequestOK
  <2>2. CASE ~Open(c)
    <3>1. /\ pc'[c] = pc[c] /\ outcome'[c] = outcome[c] /\ done'[c] = done[c] /\ unheard'[c] = unheard[c]
      <4>1. c \notin late /\ ~Result(c)
        BY <1>1, <2>2
      <4> QED
        BY <1>1, <2>1, <2>2, <4>1
    <3> QED
      BY <2>1, <3>1 DEF RequestOK, Checked, Counted, Answered
  <2>3. CASE Open(c)
    <3>1. pc'[c] = "dropped" /\ outcome'[c] = Absent
      BY <1>1, <2>3
    <3>2. heard[c] = FALSE
      BY <2>1, <2>3 DEF Counted
    <3>3. done'[c] = unheard'[c] /\ done'[c] <= tries[c]
      <4>1. CASE c \in late
        <5>1. done'[c] = done[c] + 1 /\ unheard'[c] = unheard[c] + 1 /\ pc[c] = "calling"
          BY <1>1, <4>1
        <5> QED
          BY <2>1, <3>2, <5>1 DEF Counted
      <4>2. CASE c \notin late /\ Result(c)
        <5>1. done'[c] = done[c] /\ unheard'[c] = unheard[c] + 1 /\ Effective(request[c]) = 1
          BY <1>1, <2>1, <4>2 DEF Effective
        <5> QED
          BY <2>1, <4>2, <5>1 DEF Counted
      <4>3. CASE c \notin late /\ ~Result(c)
        <5>1. done'[c] = done[c] /\ unheard'[c] = unheard[c]
          BY <1>1, <2>1, <4>3
        <5>2. pc[c] = "returned" => Effective(request[c]) = 0
          BY <4>3 DEF Effective
        <5> QED
          BY <2>1, <3>2, <5>1, <5>2 DEF Counted
      <4> QED
        BY <4>1, <4>2, <4>3
    <3>4. Counted(c)'
      <4>1. tries[c] <= MaxTries
        BY <2>1 DEF Counted
      <4>2. unheard'[c] \in Nat
        BY <1>2 DEF RequestTypes
      <4> QED
        BY <2>1, <3>1, <3>2, <3>3, <4>1, <4>2 DEF Counted
    <3> QED
      BY <2>1, <3>1, <3>4 DEF RequestOK, Checked, Answered
  <2> QED
    BY <2>2, <2>3
<1> QED
  BY <1>2, <1>3, <1>4 DEF RequestIInv

LEMMA RequestStep ==
  ASSUME ServiceAssumption, RequestIInv, [Pipeline!Next]_requestVars
  PROVE  RequestIInv'
<1>1. CASE Pipeline!Crash
  BY <1>1, CrashStep
<1>2. ASSUME NEW c \in Clients, Pipeline!Send(c) \/ Pipeline!Serve(c) \/ Pipeline!CallFails(c)
      PROVE  RequestIInv'
  BY <1>2, SendStep, AcceptStep, PipeStep, HandleLocallyStep, HandleCallingStep, RespondStep,
     GatewayAnswersStep, GatewayRefusesStep, CallFailsStep
  DEF Pipeline!Serve
<1>3. CASE UNCHANGED requestVars
  BY <1>3 DEF requestVars, RequestIInv, RequestTypes, RequestOK, Checked, Counted, Answered, Pipeline!OnlyCheckedAsked
<1> QED
  BY <1>1, <1>2, <1>3 DEF Pipeline!Next

\* The status of the answers to the errors that can be due.
LEMMA StatusOfErrors ==
  /\ Pipeline!Catch(Pipeline!BadRequest).http = 400 /\ Pipeline!Catch(Pipeline!NotFound).http = 404
  /\ Pipeline!Catch(Pipeline!InternalServerError).http = 500 /\ Pipeline!Catch(Pipeline!PlainError).http = 500
<1>1. /\ Pipeline!Ancestors["BadRequestException"] = {"BadRequestException", "HttpException", "Error"}
      /\ Pipeline!Ancestors["NotFoundException"] = {"NotFoundException", "HttpException", "Error"}
      /\ Pipeline!Ancestors["HttpException"] = {"HttpException", "Error"}
      /\ Pipeline!Ancestors["Error"] = {"Error"}
  BY DEF Pipeline!Ancestors
<1>2. /\ Pipeline!BadRequest.class = "BadRequestException" /\ Pipeline!BadRequest.status = 400
      /\ Pipeline!NotFound.class = "NotFoundException" /\ Pipeline!NotFound.status = 404
      /\ Pipeline!InternalServerError.class = "HttpException" /\ Pipeline!InternalServerError.status = 500
      /\ Pipeline!PlainError.class = "Error"
  BY DEF Pipeline!BadRequest, Pipeline!NotFound, Pipeline!InternalServerError, Pipeline!PlainError, Pipeline!Thrown
<1>3. \A e : Pipeline!Catch(e).http = IF Pipeline!InstanceOf(e, "HttpException") THEN e.status
                                      ELSE Pipeline!InternalServerError.status
  BY DEF Pipeline!Catch
<1> QED
  BY <1>1, <1>2, <1>3 DEF Pipeline!InstanceOf

\* What the requests promise follows from the invariant.
LEMMA RequestPromises ==
  ASSUME ServiceAssumption, RequestIInv
  PROVE  Pipeline!TypeOK /\ RequestsAccounted
<1>1. Pipeline!TypeOK
  <2>1. ASSUME NEW c \in Clients
        PROVE  done[c] <= MaxTries /\ tries[c] <= MaxTries /\ (pc[c] = "thrown" <=> outcome[c] # Absent)
    <3>1. Counted(c) /\ Answered(c) /\ done[c] \in Nat /\ tries[c] \in Nat
      BY DEF RequestIInv, RequestTypes, RequestOK
    <3>2. MaxTries \in Nat
      BY ServiceAssumption DEF Pipeline!PipelineAssumption
    <3>3. done[c] <= tries[c] /\ tries[c] <= MaxTries
      BY <3>1 DEF Counted
    <3>4. pc[c] = "thrown" <=> outcome[c] # Absent
      BY <3>1 DEF Answered
    <3> QED
      BY <3>1, <3>2, <3>3, <3>4
  <2>2. tries \in [Clients -> 0 .. MaxTries] /\ done \in [Clients -> 0 .. MaxTries]
    BY <2>1, ServiceAssumption DEF RequestIInv, RequestTypes, Pipeline!PipelineAssumption
  <2>3. reqFaults \in 0 .. MaxRequestFaults
    BY ServiceAssumption DEF RequestIInv, RequestTypes, Pipeline!PipelineAssumption
  <2> QED
    BY <2>1, <2>2, <2>3 DEF RequestIInv, RequestTypes, States, Pipeline!TypeOK
<1>2. Pipeline!EffectsExplained
  <2> SUFFICES ASSUME NEW c \in Clients, pc[c] # "returned"
               PROVE  done[c] = unheard[c] + (IF heard[c] /\ request[c].route \in Pipeline!Orders \cup Pipeline!Webhooks
                                              THEN 1 ELSE 0)
    BY DEF Pipeline!EffectsExplained, Pipeline!Route
  <2> QED
    BY DEF RequestIInv, RequestOK, Counted, Effective
<1>3. Pipeline!StatusExplained
  <2> SUFFICES ASSUME NEW c \in Clients, pc[c] = "answered", reqFaults = 0
               PROVE  /\ answer[c].http < 400 <=> request[c].body = "Good" /\ request[c].route \in Pipeline!Routes
                      /\ answer[c].http = 404 <=> request[c].route \notin Pipeline!Routes
                      /\ answer[c].http = 500 <=>
                           /\ request[c].body = "Refused"
                           /\ request[c].route \in {"cashfree/order-status", "razorpay/webhook"}
    BY DEF Pipeline!StatusExplained, Pipeline!Route, Pipeline!Body
  <2> DEFINE r == request[c]
  <2>1. r \in Pipeline!Requests
    BY DEF RequestIInv, RequestTypes
  <2>2. answer[c] = IF r.body = "Good" /\ r.route \in Pipeline!Routes
                    THEN Pipeline!Transform("", Pipeline!Status(r.route)) ELSE Pipeline!Catch(Due(r))
    BY DEF RequestIInv, RequestOK, Answered
  <2> HIDE DEF r
  <2>3. CASE r.body = "Good" /\ r.route \in Pipeline!Routes
    <3>1. answer[c].http \in {200, 201}
      BY <2>2, <2>3 DEF Pipeline!Transform, Pipeline!Status
    <3> QED
      BY <2>3, <3>1 DEF r
  <2>4. CASE r.route \notin Pipeline!Routes
    <3>1. answer[c].http = 404 /\ r.body = "Good"
      BY <2>1, <2>2, <2>4, StatusOfErrors, RequestShapes, RouteSets DEF Due
    <3> QED
      BY <2>4, <3>1 DEF r
  <2>5. CASE r.route \in Pipeline!Routes /\ r.body \in {"Malformed", "Invalid"}
    <3>0. answer[c] = Pipeline!Catch(Pipeline!BadRequest)
      <4>1. Due(r) = Pipeline!BadRequest /\ r.body # "Good"
        BY <2>5 DEF Due
      <4> QED
        BY <2>2, <4>1
    <3>1. answer[c].http = 400
      BY <3>0, StatusOfErrors
    <3> QED
      BY <2>5, <3>1 DEF r
  <2>6. CASE r.route \in Pipeline!Routes /\ r.body = "Refused"
    <3>1. answer[c] = Pipeline!Catch(Pipeline!Mapped(r.route))
      BY <2>2, <2>6 DEF Due
    <3>2. r.route \in Pipeline!Validated \cup {"razorpay/webhook", "cashfree/order-status"}
      BY <2>1, <2>6, RequestShapes, RouteSets
    <3>3. CASE r.route \in Pipeline!Validated
      <4>1. answer[c].http = 400 /\ r.route \notin {"cashfree/order-status", "razorpay/webhook"}
        BY <3>1, <3>3, MappedErrors, StatusOfErrors, RouteSets
      <4> QED
        BY <2>6, <4>1 DEF r
    <3>4. CASE r.route \in {"cashfree/order-status", "razorpay/webhook"}
      <4>1. answer[c].http = 500
        BY <3>1, <3>4, MappedErrors, StatusOfErrors
      <4> QED
        BY <2>6, <3>4, <4>1 DEF r
    <3> QED
      BY <3>2, <3>3, <3>4
  <2> QED
    BY <2>1, <2>3, <2>4, <2>5, <2>6, RequestShapes
<1> QED
  BY <1>1, <1>2, <1>3 DEF RequestsAccounted, RequestIInv

-----------------------------------------------------------------------------
(* The start. *)

Values(k) == {Absent} \cup {source[k] : source \in Boot!Sources}

\* What the service has in place by the time it comes to each step.
InPlace ==
  /\ step \in 7 .. 15 => "addSession" \in installed
  /\ step \in 10 .. 15 => "setGlobalPrefix" \in installed
  /\ step \in 11 .. 15 => "useGlobalPipes" \in installed
  /\ step \in 12 .. 15 => "enableCors" \in installed
  /\ step \in 13 .. 15 => "addGlobalFilters" \in installed
  /\ step \in 14 .. 15 => "addGlobalInterceptors" \in installed
  /\ step = 15 => "addSwagger" \in installed

\* Both gateways' credentials are there.
CredentialsSet == \A k \in Boot!Credentials : ~Boot!Missing(k)

LEMMA CredentialsStay == ASSUME env' = env PROVE CredentialsSet' = CredentialsSet
BY DEF CredentialsSet, Boot!Missing

\* The inductive invariant of the start: what is in place, known and listened for at
\* each step, and what it means that the start is over without a service.
StartIInv ==
  /\ real \in Reals /\ dot \in Dots /\ file \in Files
  /\ envFile \in Boot!Modes \cup {Absent, "none"}
  /\ step \in 1 .. 16 /\ handlers \in BOOLEAN /\ ended \in {"no", "crash", "quiet"}
  /\ installed \subseteq Boot!Layers
  /\ serving \in {"no", "picked"} \cup ({source["SERVICE_PORT"] : source \in Boot!Sources} \ {Absent, "junk"})
  /\ bootFaults \in Nat /\ bootFaults <= MaxFaults
  /\ \A k \in Boot!Keys : env[k] \in Values(k) /\ variables[k] \in Values(k)
  /\ InPlace
  /\ step >= 6 => CredentialsSet
  /\ handlers <=> step >= 8
  /\ serving # "no" => step = 16 /\ installed = Boot!Layers
  /\ step = 16 /\ serving = "no" => bootFaults > 0 \/ variables["SERVICE_PORT"] = "junk"
  /\ ended = "quiet" => step = 16 /\ serving = "no"

\* The numbers of the steps.
LEMMA StepNumbers ==
  ASSUME step \in 1 .. 16
  PROVE  /\ Len(Boot!Steps) = 16
         /\ Boot!Steps[step] = "create" => step = 5
         /\ Boot!Steps[step] \in {"importLogger", "dotenvConfig", "envFileName", "forRoot"} => step < 5
         /\ Boot!Steps[step] = "addSession" => step = 6
         /\ Boot!Steps[step] = "addProcessTitle" => step = 7
         /\ Boot!Steps[step] = "addMicroservices" => step = 8
         /\ Boot!Steps[step] = "setGlobalPrefix" => step = 9
         /\ Boot!Steps[step] = "useGlobalPipes" => step = 10
         /\ Boot!Steps[step] = "enableCors" => step = 11
         /\ Boot!Steps[step] = "addGlobalFilters" => step = 12
         /\ Boot!Steps[step] = "addGlobalInterceptors" => step = 13
         /\ Boot!Steps[step] = "addSwagger" => step = 14
         /\ Boot!Steps[step] = "listen" => step = 15
         /\ Boot!Steps[step] = "over" => step = 16
<1>1. /\ Boot!Steps[1] = "importLogger" /\ Boot!Steps[2] = "dotenvConfig" /\ Boot!Steps[3] = "envFileName"
      /\ Boot!Steps[4] = "forRoot" /\ Boot!Steps[5] = "create" /\ Boot!Steps[6] = "addSession"
      /\ Boot!Steps[7] = "addProcessTitle" /\ Boot!Steps[8] = "addMicroservices"
      /\ Boot!Steps[9] = "setGlobalPrefix" /\ Boot!Steps[10] = "useGlobalPipes" /\ Boot!Steps[11] = "enableCors"
      /\ Boot!Steps[12] = "addGlobalFilters" /\ Boot!Steps[13] = "addGlobalInterceptors"
      /\ Boot!Steps[14] = "addSwagger" /\ Boot!Steps[15] = "listen" /\ Boot!Steps[16] = "over"
      /\ Len(Boot!Steps) = 16
  BY DEF Boot!Steps
<1>2. step \in {1, 2, 3, 4, 5, 6, 7, 8, 9, 10, 11, 12, 13, 14, 15, 16}
  OBVIOUS
<1> QED
  BY <1>1, <1>2

\* Sources only have values of sources, and a service without a port of its own is no
\* port number.
LEMMA SourceValues ==
  ASSUME ServiceAssumption
  PROVE  /\ \A k \in Boot!Keys : Absent \in Values(k)
         /\ \A source \in Boot!Sources, k \in Boot!Keys : source[k] \in Values(k)
         /\ \A v \in Values("SERVICE_PORT") : v # Absent => v # "no"
         /\ Reals \subseteq Boot!Sources /\ Dots \subseteq Boot!Sources /\ Files \subseteq Boot!Sources
         /\ "SERVICE_PORT" \in Boot!Keys /\ MaxFaults \in Nat
         /\ "NODE_ENV" \in Boot!Keys
<1>1. \A source \in Boot!Sources : source["SERVICE_PORT"] # "no"
  BY ServiceAssumption DEF Boot!BootAssumption, Boot!Sources
<1> QED
  BY <1>1, ServiceAssumption DEF Boot!BootAssumption, Boot!Sources, Boot!Keys, Values

LEMMA StartInit == ServiceAssumption /\ Boot!Init => StartIInv
<1> SUFFICES ASSUME ServiceAssumption, Boot!Init PROVE StartIInv
  OBVIOUS
<1>1. /\ real \in Reals /\ dot \in Dots /\ file \in Files /\ env = real /\ envFile = Absent
      /\ variables = Boot!Nothing /\ step = 1 /\ handlers = FALSE /\ installed = {} /\ serving = "no"
      /\ ended = "no" /\ bootFaults = 0
  BY DEF Boot!Init
<1>2. \A k \in Boot!Keys : env[k] \in Values(k) /\ variables[k] \in Values(k)
  BY <1>1, SourceValues DEF Boot!Nothing
<1> QED
  <2>1. InPlace /\ step \in 1 .. 16 /\ ~(step >= 6) /\ ~(step >= 8) /\ step # 16
    BY <1>1 DEF InPlace
  <2>2. handlers \in BOOLEAN /\ ~handlers /\ bootFaults \in Nat /\ bootFaults <= MaxFaults
    <3>1. handlers \in BOOLEAN /\ ~handlers
      BY <1>1
    <3>2. 0 <= MaxFaults
      BY SourceValues
    <3> QED
      BY <1>1, <3>1, <3>2
  <2>3. installed \subseteq Boot!Layers /\ serving = "no" /\ ended = "no" /\ envFile = Absent
    BY <1>1
  <2> QED
    BY <1>1, <1>2, <2>1, <2>2, <2>3 DEF StartIInv

\* The steps of the start that change nothing but the configuration.
LEMMA LoadStep ==
  ASSUME ServiceAssumption, StartIInv, step < 5, step' = step + 1,
         UNCHANGED <<real, dot, file, handlers, installed, serving, ended, bootFaults>>,
         \A k \in Boot!Keys : env'[k] \in Values(k), variables' = variables,
         envFile' \in Boot!Modes \cup {Absent, "none"}
  PROVE  StartIInv'
<1>1. InPlace' /\ step' \in 1 .. 16 /\ ~(step' >= 6) /\ ~(step' >= 8) /\ step' # 16
  BY DEF StartIInv, InPlace
<1> QED
  BY <1>1 DEF StartIInv

\* The steps of bootstrap() after `create'.
LEMMA BuildStep ==
  ASSUME ServiceAssumption, StartIInv, step \in 6 .. 14, step' = step + 1,
         UNCHANGED <<real, dot, file, env, envFile, variables, serving, ended, bootFaults>>,
         InPlace', installed' \subseteq Boot!Layers, handlers' \in BOOLEAN, handlers' <=> step' >= 8
  PROVE  StartIInv'
<1>1. step' \in 1 .. 16 /\ step' # 16 /\ step >= 6
  OBVIOUS
<1>2. serving = "no" /\ ended # "quiet"
  BY DEF StartIInv
<1> QED
  BY <1>1, <1>2, CredentialsStay DEF StartIInv

\* An exception nobody catches.
LEMMA UncaughtStep ==
  ASSUME ServiceAssumption, StartIInv, Boot!Uncaught, ended = "no",
         UNCHANGED <<real, dot, file, env, envFile, variables, handlers, installed, serving>>,
         bootFaults' \in Nat, bootFaults' <= MaxFaults, bootFaults <= bootFaults',
         bootFaults' > 0 \/ variables["SERVICE_PORT"] = "junk"
  PROVE  StartIInv'
<1>1. CASE handlers
  <2>1. step' = 16 /\ ended' = ended /\ step >= 8
    BY <1>1, StepNumbers DEF Boot!Uncaught, StartIInv
  <2>2. InPlace'
    BY <2>1 DEF InPlace
  <2> QED
    BY <1>1, <2>1, <2>2, CredentialsStay DEF StartIInv
<1>2. CASE ~handlers
  <2>1. step' = step /\ ended' = "crash" /\ step # 16
    BY <1>2 DEF Boot!Uncaught, StartIInv
  <2>2. InPlace'
    BY <2>1 DEF InPlace, StartIInv
  <2> QED
    BY <1>2, <2>1, <2>2, CredentialsStay DEF StartIInv
<1> QED
  BY <1>1, <1>2

LEMMA StartStep ==
  ASSUME ServiceAssumption, StartIInv, [Boot!Next]_startVars
  PROVE  StartIInv'
<1>0. /\ step \in 1 .. 16 /\ step \in Nat /\ bootFaults \in Nat /\ MaxFaults \in Nat
      /\ (handlers <=> step >= 8) /\ handlers \in BOOLEAN
  BY SourceValues DEF StartIInv
<1>1. CASE Boot!ImportLogger
  <2>1. step < 5
    BY <1>0, <1>1, StepNumbers DEF Boot!ImportLogger, Boot!At
  <2> QED
    BY <1>1, <2>1, LoadStep DEF Boot!ImportLogger, Boot!Go, Boot!sources, StartIInv
<1>2. CASE Boot!DotenvConfig
  <2>1. step < 5
    BY <1>0, <1>2, StepNumbers DEF Boot!DotenvConfig, Boot!At
  <2>2. \A k \in Boot!Keys : env'[k] \in Values(k)
    BY <1>2, SourceValues DEF Boot!DotenvConfig, Boot!Under, StartIInv
  <2> QED
    BY <1>2, <2>1, <2>2, LoadStep DEF Boot!DotenvConfig, Boot!Go, Boot!sources, StartIInv
<1>3. CASE Boot!EnvFileName
  <2>1. step < 5
    BY <1>0, <1>3, StepNumbers DEF Boot!EnvFileName, Boot!At
  <2>2. envFile' \in Boot!Modes \cup {Absent, "none"}
    BY <1>3 DEF Boot!EnvFileName
  <2> QED
    BY <1>3, <2>1, <2>2, LoadStep DEF Boot!EnvFileName, Boot!Go, Boot!sources, StartIInv
<1>4. CASE Boot!ForRoot
  <2>1. step < 5
    BY <1>0, <1>4, StepNumbers DEF Boot!ForRoot, Boot!At
  <2>2. \A k \in Boot!Keys : env'[k] \in Values(k)
    <3> DEFINE added == IF envFile = "none" THEN dot ELSE file
    <3>1. added \in Boot!Sources
      BY SourceValues DEF StartIInv
    <3>2. env' = [k \in Boot!Keys |-> IF env[k] # Absent THEN env[k] ELSE added[k]]
      BY <1>4 DEF Boot!ForRoot, Boot!Under
    <3> HIDE DEF added
    <3> QED
      BY <3>1, <3>2, SourceValues DEF StartIInv
  <2> QED
    BY <1>4, <2>1, <2>2, LoadStep DEF Boot!ForRoot, Boot!Go, Boot!sources, StartIInv
<1>5. CASE Boot!Create
  <2>1. /\ step = 5 /\ step' = 6 /\ env' = env
        /\ variables' = [k \in Boot!Keys |-> IF k \in Boot!Read THEN env[k] ELSE Absent]
        /\ \A k \in Boot!Credentials : ~Boot!Missing(k)
        /\ UNCHANGED <<real, dot, file, envFile, handlers, installed, serving, ended, bootFaults>>
    BY <1>0, <1>5, StepNumbers DEF Boot!Create, Boot!Created, Boot!At, Boot!Go, Boot!sources
  <2>a. CredentialsSet'
    BY <2>1, CredentialsStay DEF CredentialsSet
  <2>b. \A k \in Boot!Keys : env'[k] \in Values(k) /\ variables'[k] \in Values(k)
    <3>1. \A k \in Boot!Keys : env[k] \in Values(k) /\ Absent \in Values(k)
      BY SourceValues DEF StartIInv
    <3> QED
      BY <2>1, <3>1
  <2>2. InPlace' /\ step' \in 1 .. 16 /\ step' # 16 /\ ~(step' >= 8)
    BY <2>1 DEF InPlace
  <2>3. ~handlers /\ serving = "no" /\ ended # "quiet"
    BY <1>0, <2>1 DEF StartIInv
  <2> QED
    BY <2>1, <2>a, <2>b, <2>2, <2>3 DEF StartIInv
<1>6. CASE Boot!CreateFails
  <2>1. /\ step = 5 /\ step' = step /\ ended' = "crash"
        /\ UNCHANGED <<real, dot, file, env, envFile, variables, handlers, installed, serving, bootFaults>>
    BY <1>0, <1>6, StepNumbers DEF Boot!CreateFails, Boot!At, Boot!sources, Boot!config
  <2>2. InPlace'
    BY <2>1 DEF InPlace
  <2> QED
    BY <2>1, <2>2 DEF StartIInv
<1>7. ASSUME NEW s \in Boot!Layers, Boot!Install(s) PROVE StartIInv'
  <2>1. /\ Boot!Steps[step] = s /\ step' = step + 1 /\ installed' = installed \cup {s}
        /\ UNCHANGED <<real, dot, file, env, envFile, variables, handlers, serving, ended, bootFaults>>
    BY <1>7 DEF Boot!Install, Boot!At, Boot!Go, Boot!sources, Boot!config
  <2>2. step \in 6 .. 14 /\ step # 7 /\ step # 8
    BY <1>0, <2>1, StepNumbers DEF Boot!Layers
  <2>3. InPlace'
    <3>1. InPlace
      BY DEF StartIInv
    <3>2. /\ step = 6 => s = "addSession"
          /\ step = 9 => s = "setGlobalPrefix"
          /\ step = 10 => s = "useGlobalPipes"
          /\ step = 11 => s = "enableCors"
          /\ step = 12 => s = "addGlobalFilters"
          /\ step = 13 => s = "addGlobalInterceptors"
          /\ step = 14 => s = "addSwagger"
      BY <1>0, <2>1, StepNumbers DEF Boot!Layers
    <3> QED
      BY <2>1, <2>2, <3>1, <3>2 DEF InPlace
  <2>4. installed' \subseteq Boot!Layers /\ handlers' \in BOOLEAN /\ (handlers' <=> step' >= 8)
    BY <1>0, <2>1, <2>2 DEF StartIInv
  <2> QED
    BY <2>1, <2>2, <2>3, <2>4, BuildStep
<1>8. CASE Boot!AddProcessTitle
  <2>1. /\ step = 7 /\ step' = step + 1 /\ handlers' = TRUE
        /\ UNCHANGED <<real, dot, file, env, envFile, variables, installed, serving, ended, bootFaults>>
    BY <1>0, <1>8, StepNumbers DEF Boot!AddProcessTitle, Boot!At, Boot!Go, Boot!sources, Boot!config
  <2>2. InPlace' /\ installed' \subseteq Boot!Layers
    BY <2>1 DEF InPlace, StartIInv
  <2> QED
    BY <2>1, <2>2, BuildStep
<1>9. CASE Boot!AddMicroservices
  <2>1. /\ step = 8 /\ step' = step + 1
        /\ UNCHANGED <<real, dot, file, env, envFile, variables, handlers, installed, serving, ended, bootFaults>>
    BY <1>0, <1>9, StepNumbers DEF Boot!AddMicroservices, Boot!At, Boot!Go, Boot!sources, Boot!config
  <2>2. InPlace' /\ installed' \subseteq Boot!Layers /\ (handlers' <=> step' >= 8) /\ handlers' \in BOOLEAN
    BY <1>0, <2>1 DEF InPlace, StartIInv
  <2> QED
    BY <2>1, <2>2, BuildStep
<1>10. CASE Boot!Listen
  <2>1. /\ step = 15 /\ step' = 16 /\ serving' = Boot!Port /\ Boot!Port # "junk" /\ ended = "no"
        /\ UNCHANGED <<real, dot, file, env, envFile, variables, handlers, installed, ended, bootFaults>>
    BY <1>0, <1>10, StepNumbers DEF Boot!Listen, Boot!At, Boot!Go, Boot!sources, Boot!config
  <2>2. installed = Boot!Layers
    <3>1. {"addSession", "setGlobalPrefix", "useGlobalPipes", "enableCors", "addGlobalFilters",
           "addGlobalInterceptors", "addSwagger"} \subseteq installed
      BY <2>1 DEF StartIInv, InPlace
    <3>2. installed \subseteq Boot!Layers
      BY DEF StartIInv
    <3> QED
      BY <3>1, <3>2 DEF Boot!Layers
  <2>3. serving' # "no" /\ serving' \in {"picked"} \cup ({source["SERVICE_PORT"] : source \in Boot!Sources} \ {Absent, "junk"})
    <3>1. variables["SERVICE_PORT"] \in Values("SERVICE_PORT")
      BY SourceValues DEF StartIInv
    <3>2. CASE variables["SERVICE_PORT"] = Absent
      BY <2>1, <3>2 DEF Boot!Port
    <3>3. CASE variables["SERVICE_PORT"] # Absent
      <4>1. serving' = variables["SERVICE_PORT"] /\ serving' \in Values("SERVICE_PORT") /\ serving' # Absent
        BY <2>1, <3>1, <3>3 DEF Boot!Port
      <4> QED
        BY <2>1, <4>1, SourceValues DEF Values
    <3> QED
      BY <3>2, <3>3
  <2>4. InPlace' /\ step' \in 1 .. 16 /\ step' >= 8 /\ handlers
    BY <1>0, <2>1 DEF InPlace
  <2> QED
    BY <2>1, <2>2, <2>3, <2>4, CredentialsStay DEF StartIInv
<1>11. CASE Boot!ListenFails
  <2>1. /\ step = 15 /\ ended = "no" /\ Boot!Uncaught
        /\ UNCHANGED <<real, dot, file, env, envFile, variables, handlers, installed, serving>>
        /\ IF Boot!Port = "junk" THEN bootFaults' = bootFaults
           ELSE bootFaults < MaxFaults /\ bootFaults' = bootFaults + 1
    BY <1>0, <1>11, StepNumbers DEF Boot!ListenFails, Boot!At, Boot!sources, Boot!config
  <2>2. Boot!Port = "junk" => variables["SERVICE_PORT"] = "junk"
    BY DEF Boot!Port
  <2>3. /\ bootFaults' \in Nat /\ bootFaults' <= MaxFaults /\ bootFaults <= bootFaults'
        /\ bootFaults' > 0 \/ variables["SERVICE_PORT"] = "junk"
    BY <1>0, <2>1, <2>2 DEF StartIInv
  <2> QED
    BY <2>1, <2>3, UncaughtStep
<1>12. CASE Boot!Throws
  <2>1. /\ ended = "no" /\ Boot!Uncaught /\ bootFaults < MaxFaults /\ bootFaults' = bootFaults + 1
        /\ UNCHANGED <<real, dot, file, env, envFile, variables, handlers, installed, serving>>
    BY <1>12 DEF Boot!Throws, Boot!sources, Boot!config
  <2>2. bootFaults' \in Nat /\ bootFaults' <= MaxFaults /\ bootFaults <= bootFaults' /\ bootFaults' > 0
    BY <1>0, <2>1
  <2> QED
    BY <2>1, <2>2, UncaughtStep
<1>13. CASE Boot!EndQuietly
  <2>1. /\ step = 16 /\ step' = step /\ serving = "no" /\ ended' = "quiet"
        /\ UNCHANGED <<real, dot, file, env, envFile, variables, handlers, installed, serving, bootFaults>>
    BY <1>0, <1>13, StepNumbers DEF Boot!EndQuietly, Boot!At, Boot!sources, Boot!config
  <2>2. InPlace'
    BY <2>1 DEF InPlace
  <2> QED
    BY <2>1, <2>2, CredentialsStay DEF StartIInv
<1>14. CASE Boot!Restart
  <2>1. /\ env' = real' /\ envFile' = Absent /\ variables' = Boot!Nothing /\ step' = 1 /\ handlers' = FALSE
        /\ installed' = {} /\ serving' = "no" /\ ended' = "no" /\ UNCHANGED <<real, dot, file, bootFaults>>
    BY <1>14 DEF Boot!Restart, Boot!Fresh, Boot!sources
  <2>2. \A k \in Boot!Keys : env'[k] \in Values(k) /\ variables'[k] \in Values(k)
    BY <2>1, SourceValues DEF Boot!Nothing, StartIInv
  <2>3. InPlace' /\ step' \in 1 .. 16 /\ ~(step' >= 6) /\ ~(step' >= 8) /\ step' # 16
    BY <2>1 DEF InPlace
  <2>4. handlers' \in BOOLEAN /\ ~handlers' /\ installed' \subseteq Boot!Layers
    BY <2>1
  <2> QED
    BY <2>1, <2>2, <2>3, <2>4 DEF StartIInv
<1>15. CASE UNCHANGED startVars
  BY <1>15, CredentialsStay DEF startVars, StartIInv, InPlace
<1> QED
  BY <1>1, <1>2, <1>3, <1>4, <1>5, <1>6, <1>7, <1>8, <1>9, <1>10, <1>11, <1>12, <1>13, <1>14, <1>15
  DEF Boot!Next, Boot!Boot

\* What the start promises follows from the invariant.
LEMMA StartPromises ==
  ASSUME ServiceAssumption, StartIInv
  PROVE  Boot!TypeOK /\ Boot!ServedWhole /\ Boot!QuietEndExplained
<1>1. Boot!ServedWhole /\ Boot!QuietEndExplained
  BY DEF StartIInv, CredentialsSet, Boot!ServedWhole, Boot!QuietEndExplained
<1>2. Len(Boot!Steps) = 16 /\ bootFaults \in 0 .. MaxFaults
  BY StepNumbers, SourceValues DEF StartIInv
<1>3. \A k \in Boot!Keys : {env[k], variables[k]} \subseteq {Absent} \cup {source[k] : source \in Boot!Sources}
  BY DEF StartIInv, Values
<1> QED
  BY <1>1, <1>2, <1>3 DEF StartIInv, Boot!TypeOK

\* No step takes a service that serves down.
LEMMA ServingStays ==
  ASSUME ServiceAssumption, StartIInv, [Boot!Next]_startVars, serving # "no", ended = "no"
  PROVE  ended' = "no" /\ serving' = serving
<1>1. step = 16 /\ handlers /\ step \in 1 .. 16
  BY DEF StartIInv
<1>2. /\ Boot!Steps[step] = "over"
      /\ \A s \in Boot!Layers : Boot!Steps[step] # s
  BY <1>1 DEF Boot!Steps, Boot!Layers
<1>3. CASE Boot!Throws
  BY <1>1, <1>3 DEF Boot!Throws, Boot!Uncaught
<1>4. CASE UNCHANGED startVars
  BY <1>4 DEF startVars
<1>5. ~Boot!Boot
  BY <1>2 DEF Boot!Boot, Boot!At, Boot!ImportLogger, Boot!DotenvConfig, Boot!EnvFileName, Boot!ForRoot, Boot!Create, Boot!Created,
         Boot!CreateFails, Boot!Install, Boot!AddProcessTitle, Boot!AddMicroservices, Boot!Listen, Boot!ListenFails
<1> QED
  BY <1>3, <1>4, <1>5 DEF Boot!Next, Boot!EndQuietly, Boot!Restart

-----------------------------------------------------------------------------
(* Mails. *)

CallStates ==
  {Mail!Idle} \cup [at : {"sending", "taken"}, mail : Mail!Requests]
  \cup [at : {"returned"}, mail : Mail!Requests, answer : BOOLEAN]

\* What holds of one call: the mail it was asked for has been taken once at most, has
\* been if the caller is told so, and cannot have been if it was never composed.
MailOK(c) ==
  /\ call[c].at \in {"idle", "sending"} => outbox[c] = <<>>
  /\ call[c].at \in {"sending", "taken"} => Mail!Composable(call[c].mail)
  /\ call[c].at = "taken" => outbox[c] = <<Mail!Message(call[c].mail)>>
  /\ call[c].at = "returned" =>
       /\ outbox[c] = <<>> \/ (outbox[c] = <<Mail!Message(call[c].mail)>> /\ Mail!Composable(call[c].mail))
       /\ call[c].answer => outbox[c] # <<>>
       /\ ~Mail!Composable(call[c].mail) => ~call[c].answer

\* The calls that failed although there was something to send.
Failed == {c \in Calls : call[c].at = "returned" /\ ~call[c].answer /\ Mail!Composable(call[c].mail)}

\* The inductive invariant of the mails.
MailsIInv ==
  /\ verified \in {"pending", "ok", "failed"}
  /\ call \in [Calls -> CallStates] /\ DOMAIN outbox = Calls
  /\ mailFaults \in Nat /\ mailFaults <= MaxFaults
  /\ \A c \in Calls : MailOK(c)
  /\ IsFiniteSet(Failed) /\ Cardinality(Failed) <= mailFaults

\* Counting does not depend on the instance it is done in.
LEMMA MailCounting ==
  \A S : Mail!IsFiniteSet(S) = IsFiniteSet(S) /\ Mail!Cardinality(S) = Cardinality(S)
BY DEF Mail!IsFiniteSet, IsFiniteSet, Mail!Cardinality, Cardinality

LEMMA CallShapes ==
  ASSUME NEW r \in CallStates
  PROVE  /\ r.at \in {"idle", "sending", "taken", "returned"}
         /\ r.at # "idle" => r.mail \in Mail!Requests
         /\ r.at = "returned" => r.answer \in BOOLEAN
BY DEF CallStates, Mail!Idle

LEMMA MailInit == ServiceAssumption /\ Mail!Init => MailsIInv
<1> SUFFICES ASSUME ServiceAssumption, Mail!Init PROVE MailsIInv
  OBVIOUS
<1>1. /\ verified = "pending" /\ call = [c \in Calls |-> Mail!Idle] /\ outbox = [c \in Calls |-> <<>>]
      /\ mailFaults = 0 /\ MaxFaults \in Nat
  BY ServiceAssumption DEF Mail!Init, Mail!MailerAssumption
<1>2. \A c \in Calls : call[c].at = "idle" /\ outbox[c] = <<>>
  BY <1>1 DEF Mail!Idle
<1>3. Failed = {}
  BY <1>2 DEF Failed
<1>4. IsFiniteSet(Failed) /\ Cardinality(Failed) = 0
  BY <1>3, FS_EmptySet
<1>5. call \in [Calls -> CallStates] /\ DOMAIN outbox = Calls
  BY <1>1 DEF CallStates
<1> QED
  BY <1>1, <1>2, <1>4, <1>5 DEF MailsIInv, MailOK

\* A step of one call that fails nothing.
LEMMA MailKept ==
  ASSUME ServiceAssumption, MailsIInv, NEW c \in Calls, NEW r \in CallStates,
         call' = [call EXCEPT ![c] = r], UNCHANGED <<verified, mailFaults>>,
         DOMAIN outbox' = Calls, \A d \in Calls \ {c} : outbox'[d] = outbox[d],
         MailOK(c)', call[c].at # "returned",
         r.at = "returned" => r.answer \/ ~Mail!Composable(r.mail)
  PROVE  MailsIInv'
<1>1. call' \in [Calls -> CallStates] /\ call'[c] = r /\ \A d \in Calls \ {c} : call'[d] = call[d]
  BY DEF MailsIInv
<1>2. \A d \in Calls \ {c} : MailOK(d)'
  BY <1>1 DEF MailsIInv, MailOK
<1>3. Failed' = Failed
  <2>1. c \notin Failed /\ c \notin Failed'
    BY <1>1 DEF Failed
  <2> QED
    BY <1>1, <2>1 DEF Failed
<1> QED
  BY <1>1, <1>2, <1>3 DEF MailsIInv

LEMMA MailStep ==
  ASSUME ServiceAssumption, MailsIInv, [Mail!Next]_mailVars
  PROVE  MailsIInv'
<1>0. DOMAIN call = Calls /\ DOMAIN outbox = Calls /\ mailFaults \in Nat /\ MaxFaults \in Nat
  BY ServiceAssumption DEF MailsIInv, Mail!MailerAssumption
<1>c. ASSUME NEW c \in Calls PROVE call[c] \in CallStates /\ MailOK(c)
  BY DEF MailsIInv
<1>1. CASE Mail!VerifyConnection
  <2>1. /\ verified' \in {"ok", "failed"} /\ UNCHANGED <<call, outbox>>
        /\ mailFaults' = mailFaults \/ (mailFaults < MaxFaults /\ mailFaults' = mailFaults + 1)
    BY <1>1 DEF Mail!VerifyConnection, Mail!Fault
  <2>2. Failed' = Failed /\ mailFaults' \in Nat /\ mailFaults' <= MaxFaults /\ mailFaults <= mailFaults'
    BY <1>0, <2>1 DEF Failed, MailsIInv
  <2>3. Cardinality(Failed) \in Nat
    BY FS_CardinalityType DEF MailsIInv
  <2>4. Cardinality(Failed) <= mailFaults'
    BY <1>0, <2>2, <2>3 DEF MailsIInv
  <2> QED
    BY <2>1, <2>2, <2>4 DEF MailsIInv, MailOK
<1>2. ASSUME NEW c \in Calls, NEW m \in Mail!Requests, Mail!SendEmail(c, m) PROVE MailsIInv'
  <2> DEFINE r == [at |-> "sending", mail |-> m]
  <2>1. r \in CallStates /\ r.at = "sending" /\ r.mail = m
    BY DEF CallStates
  <2>2. /\ call[c].at = "idle" /\ Mail!Composable(m) /\ call' = [call EXCEPT ![c] = r]
        /\ UNCHANGED <<verified, outbox, mailFaults>>
    BY <1>2 DEF Mail!SendEmail, Mail!Idle
  <2> HIDE DEF r
  <2>3. MailOK(c)'
    BY <1>0, <1>c, <2>1, <2>2 DEF MailOK
  <2> QED
    BY <1>0, <2>1, <2>2, <2>3, MailKept
<1>3. ASSUME NEW c \in Calls, NEW m \in Mail!Requests, Mail!SendEmailThrows(c, m) PROVE MailsIInv'
  <2> DEFINE r == [at |-> "returned", mail |-> m, answer |-> FALSE]
  <2>1. r \in CallStates /\ r.at = "returned" /\ r.mail = m /\ r.answer = FALSE
    BY DEF CallStates
  <2>2. /\ call[c].at = "idle" /\ ~Mail!Composable(m) /\ call' = [call EXCEPT ![c] = r]
        /\ UNCHANGED <<verified, outbox, mailFaults>>
    BY <1>3 DEF Mail!SendEmailThrows, Mail!Idle
  <2> HIDE DEF r
  <2>3. MailOK(c)'
    BY <1>0, <1>c, <2>1, <2>2 DEF MailOK
  <2> QED
    BY <1>0, <2>1, <2>2, <2>3, MailKept
<1>4. ASSUME NEW c \in Calls, Mail!Taken(c) PROVE MailsIInv'
  <2> DEFINE r == [call[c] EXCEPT !.at = "taken"]
  <2>1. call[c].at = "sending" /\ outbox[c] = <<>> /\ Mail!Composable(call[c].mail)
    BY <1>4, <1>c DEF Mail!Taken, MailOK
  <2>2. call[c] \in [at : {"sending", "taken"}, mail : Mail!Requests]
    BY <1>c, <2>1 DEF CallStates, Mail!Idle
  <2>3. r \in CallStates /\ r.at = "taken" /\ r.mail = call[c].mail
    BY <2>2 DEF CallStates
  <2>4. /\ call' = [call EXCEPT ![c] = r] /\ UNCHANGED <<verified, mailFaults>>
        /\ outbox' = [outbox EXCEPT ![c] = Append(@, Mail!Message(call[c].mail))]
    BY <1>4 DEF Mail!Taken
  <2> HIDE DEF r
  <2>5. DOMAIN outbox' = Calls /\ (\A d \in Calls \ {c} : outbox'[d] = outbox[d])
        /\ outbox'[c] = Append(<<>>, Mail!Message(call[c].mail))
    BY <1>0, <2>1, <2>4
  <2>6. outbox'[c] = <<Mail!Message(call[c].mail)>>
    BY <2>5
  <2>7. MailOK(c)'
    BY <1>0, <2>1, <2>3, <2>4, <2>6 DEF MailOK
  <2> QED
    BY <2>1, <2>3, <2>4, <2>5, <2>7, MailKept
<1>5. ASSUME NEW c \in Calls, Mail!Answer(c) PROVE MailsIInv'
  <2> DEFINE r == [at |-> "returned", mail |-> call[c].mail, answer |-> TRUE]
  <2>1. /\ call[c].at = "taken" /\ call' = [call EXCEPT ![c] = r]
        /\ UNCHANGED <<verified, outbox, mailFaults>>
    BY <1>5 DEF Mail!Answer, Mail!Returned
  <2>2. call[c].mail \in Mail!Requests
    BY <1>c, <2>1, CallShapes
  <2>3. r \in CallStates /\ r.at = "returned" /\ r.mail = call[c].mail /\ r.answer = TRUE
    BY <2>2 DEF CallStates
  <2> HIDE DEF r
  <2>4. outbox[c] = <<Mail!Message(call[c].mail)>> /\ Mail!Composable(call[c].mail)
    BY <1>c, <2>1 DEF MailOK
  <2>5. MailOK(c)'
    <3>1. outbox[c] # <<>>
      BY <2>4
    <3> QED
      BY <1>0, <2>1, <2>3, <2>4, <3>1 DEF MailOK
  <2> QED
    BY <1>0, <2>1, <2>3, <2>5, MailKept
<1>6. ASSUME NEW c \in Calls, Mail!Fails(c) PROVE MailsIInv'
  <2> DEFINE r == [at |-> "returned", mail |-> call[c].mail, answer |-> FALSE]
  <2>1. /\ call[c].at \in {"sending", "taken"} /\ call' = [call EXCEPT ![c] = r]
        /\ UNCHANGED <<verified, outbox>> /\ mailFaults < MaxFaults /\ mailFaults' = mailFaults + 1
    BY <1>6 DEF Mail!Fails, Mail!Returned, Mail!Fault
  <2>2. call[c].mail \in Mail!Requests
    BY <1>c, <2>1, CallShapes
  <2>3. r \in CallStates /\ r.at = "returned" /\ r.mail = call[c].mail /\ r.answer = FALSE
    BY <2>2 DEF CallStates
  <2> HIDE DEF r
  <2>4. /\ outbox[c] = <<>> \/ outbox[c] = <<Mail!Message(call[c].mail)>>
        /\ Mail!Composable(call[c].mail)
    BY <1>c, <2>1 DEF MailOK
  <2>5. call' \in [Calls -> CallStates] /\ call'[c] = r /\ \A d \in Calls \ {c} : call'[d] = call[d]
    BY <2>1, <2>3 DEF MailsIInv
  <2>6. \A d \in Calls : MailOK(d)'
    BY <1>c, <2>1, <2>3, <2>4, <2>5 DEF MailOK
  <2>7. c \notin Failed /\ Failed' = Failed \cup {c}
    <3>1. c \notin Failed
      BY <2>1 DEF Failed
    <3>2. ASSUME NEW d \in Calls \ {c} PROVE d \in Failed' <=> d \in Failed
      BY <2>5 DEF Failed
    <3>3. c \in Failed'
      BY <2>3, <2>4, <2>5 DEF Failed
    <3>4. Failed \subseteq Calls /\ Failed' \subseteq Calls
      BY DEF Failed
    <3> QED
      BY <3>1, <3>2, <3>3, <3>4
  <2>8. IsFiniteSet(Failed') /\ Cardinality(Failed') = Cardinality(Failed) + 1
    BY <2>7, FS_AddElement DEF MailsIInv
  <2>9. Cardinality(Failed) \in Nat /\ Cardinality(Failed) <= mailFaults
    BY FS_CardinalityType DEF MailsIInv
  <2>10. Cardinality(Failed') <= mailFaults' /\ mailFaults' \in Nat /\ mailFaults' <= MaxFaults
    BY <1>0, <2>1, <2>8, <2>9
  <2> QED
    BY <2>1, <2>5, <2>6, <2>8, <2>10 DEF MailsIInv
<1>7. CASE UNCHANGED mailVars
  BY <1>7 DEF mailVars, MailsIInv, MailOK, Failed
<1> QED
  BY <1>1, <1>2, <1>3, <1>4, <1>5, <1>6, <1>7 DEF Mail!Next

\* What a template shows of a field it prints, and of one it does not.
LEMMA ShownFields ==
  ASSUME NEW data, NEW fs, NEW mail, mail.html = Mail!Fields(data, fs), NEW f
  PROVE  Mail!Shown(mail, f) = IF f \in fs THEN {Mail!Field(data, f)[2]} ELSE {}
<1>1. \A g : Mail!Field(data, g)[1] = g
  BY DEF Mail!Field
<1> DEFINE part1 == {w \in mail.html : w[1] = f}
<1>2. part1 = IF f \in fs THEN {Mail!Field(data, f)} ELSE {}
  <2> HIDE DEF part1
  <2>1. \A w : w \in part1 <=> w \in Mail!Fields(data, fs) /\ w[1] = f
    BY DEF part1
  <2>2. \A w : w \in Mail!Fields(data, fs) <=> \E g \in fs : w = Mail!Field(data, g)
    BY DEF Mail!Fields
  <2>3. \A w : w \in part1 <=> f \in fs /\ w = Mail!Field(data, f)
    BY <1>1, <2>1, <2>2
  <2> QED
    BY <2>3
<1>3. Mail!Shown(mail, f) = {v[2] : v \in part1}
  BY DEF Mail!Shown
<1> HIDE DEF part1
<1> QED
  BY <1>2, <1>3

ConfirmationFields == {"name", "orderId", "transactionId", "product", "paymentDate", "currency", "amount"}

\* A confirmation as somebody asks for it, and the mails that are no confirmation.
ConfirmationOf(m, p) ==
  /\ m.type = "payment_confirmation" /\ m.to = p.email /\ m.subject \in {"", "Receipt"}
  /\ m.data = Mail!ConfirmationData(p)
WelcomeTo(m, c, url) == m.type = "welcome" /\ m.to = c /\ m.data = [name |-> c, email |-> c, loginUrl |-> url]
ResetOf(m, c) == /\ m.type = "password_reset" /\ m.to = c
                 /\ m.data = [name |-> c, resetUrl |-> <<"reset", c>>, expiresIn |-> "1 hour"]
CustomTo(m, c) == m.type = "custom" /\ m.to = c /\ m.data = [html |-> <<"html", c>>]

LEMMA MailKinds ==
  ASSUME NEW m \in Mail!Requests, Mail!Composable(m)
  PROVE  \/ \E p \in Payments : ConfirmationOf(m, p)
         \/ \E c \in Customers : \E url : WelcomeTo(m, c, url)
         \/ \E c \in Customers : ResetOf(m, c)
         \/ \E c \in Customers : CustomTo(m, c)
<1>1. ASSUME NEW p \in Payments, m = Mail!Confirmation(p) PROVE ConfirmationOf(m, p)
  BY <1>1 DEF Mail!Confirmation, Mail!Asked, ConfirmationOf
<1>2. ASSUME NEW p \in Payments, m \in Mail!Direct(p) PROVE ConfirmationOf(m, p)
  <2>1. m # Mail!Asked("newsletter", p.email, "", Mail!ConfirmationData(p))
    <3> SUFFICES ASSUME m = Mail!Asked("newsletter", p.email, "", Mail!ConfirmationData(p)) PROVE FALSE
      OBVIOUS
    <3>1. m.type = "newsletter"
      BY DEF Mail!Asked
    <3> QED
      BY <3>1 DEF Mail!Composable, Mail!Templates
  <2>2. m # Mail!Asked("payment_confirmation", p.email, "", Absent)
    <3> SUFFICES ASSUME m = Mail!Asked("payment_confirmation", p.email, "", Absent) PROVE FALSE
      OBVIOUS
    <3>1. m.type = "payment_confirmation" /\ m.data = Absent
      BY DEF Mail!Asked
    <3> QED
      BY <3>1 DEF Mail!Composable
  <2>3. m = Mail!Asked("payment_confirmation", p.email, "Receipt", Mail!ConfirmationData(p))
    BY <1>2, <2>1, <2>2 DEF Mail!Direct
  <2> QED
    BY <2>3 DEF Mail!Asked, ConfirmationOf
<1>3. ASSUME NEW c \in Customers, NEW url \in {Absent, "login"}, m = Mail!Welcome(c, url) PROVE WelcomeTo(m, c, url)
  BY <1>3 DEF Mail!Welcome, Mail!Asked, WelcomeTo
<1>4. ASSUME NEW c \in Customers, m = Mail!PasswordReset(c) PROVE ResetOf(m, c)
  BY <1>4 DEF Mail!PasswordReset, Mail!Asked, ResetOf
<1>5. ASSUME NEW c \in Customers, NEW subject \in {"", "News"}, m = Mail!Custom(c, subject) PROVE CustomTo(m, c)
  BY <1>5 DEF Mail!Custom, Mail!Asked, CustomTo
<1>6. \/ \E p \in Payments : m = Mail!Confirmation(p) \/ m \in Mail!Direct(p)
      \/ \E c \in Customers, url \in {Absent, "login"} : m = Mail!Welcome(c, url)
      \/ \E c \in Customers : m = Mail!PasswordReset(c)
      \/ \E c \in Customers, subject \in {"", "News"} : m = Mail!Custom(c, subject)
  <2>1. CASE \E p \in Payments : m \in {Mail!Confirmation(p)} \cup Mail!Direct(p)
    BY <2>1
  <2>2. CASE \E c \in Customers : m \in Mail!Personal(c)
    <3>1. PICK c \in Customers : m \in Mail!Personal(c)
      BY <2>2
    <3>2. \/ \E url \in {Absent, "login"} : m = Mail!Welcome(c, url)
          \/ m = Mail!PasswordReset(c)
          \/ \E subject \in {"", "News"} : m = Mail!Custom(c, subject)
      BY <3>1 DEF Mail!Personal
    <3> QED
      BY <3>2
  <2> QED
    BY <2>1, <2>2 DEF Mail!Requests
<1> QED
  BY <1>1, <1>2, <1>3, <1>4, <1>5, <1>6

\* What a confirmation shows of its payment.
LEMMA ConfirmationShows ==
  ASSUME ServiceAssumption, NEW p \in Payments
  PROVE  LET data == Mail!ConfirmationData(p) IN
         /\ Mail!Field(data, "orderId")[2] = p.order /\ Mail!Field(data, "transactionId")[2] = p.id
         /\ Mail!Field(data, "paymentDate")[2] = p.time /\ data.orderId = p.order
         /\ Mail!Field(data, "name")[2] = IF p.gateway = "cashfree" THEN p.name ELSE p.email
         /\ \A f \in ConfirmationFields \ {"name"} : Mail!Field(data, f)[2] # Absent
<1> DEFINE data == Mail!ConfirmationData(p)
<1>1. /\ DOMAIN data = ConfirmationFields
      /\ data.orderId = p.order /\ data.transactionId = p.id /\ data.paymentDate = p.time
      /\ data.name = IF p.gateway = "cashfree" THEN p.name ELSE p.email
      /\ data.product \in {"Product A", "dummy product"} /\ data.currency = "INR"
      /\ data.amount \in {100, 100 * p.rupees}
  <2>1. CASE p.gateway = "cashfree"
    BY <2>1 DEF Mail!ConfirmationData, Mail!CashfreeData, ConfirmationFields
  <2>2. CASE p.gateway # "cashfree"
    BY <2>2 DEF Mail!ConfirmationData, Mail!RazorpayData, ConfirmationFields
  <2> QED
    BY <2>1, <2>2
<1> HIDE DEF data
<1>2. /\ Mail!Field(data, "orderId")[2] = data.orderId /\ Mail!Field(data, "transactionId")[2] = data.transactionId
      /\ Mail!Field(data, "paymentDate")[2] = data.paymentDate /\ Mail!Field(data, "name")[2] = data.name
      /\ Mail!Field(data, "product")[2] = data.product /\ Mail!Field(data, "currency")[2] = data.currency
      /\ Mail!Field(data, "amount")[2] = data.amount
  BY <1>1 DEF Mail!Field, ConfirmationFields
<1>3. /\ p.rupees \in Nat /\ Absent \notin {p.order, p.id, p.email, p.time}
      /\ Absent \notin Nat /\ Absent \notin {"Product A", "dummy product", "INR"}
  BY ServiceAssumption DEF Mail!MailerAssumption
<1>4. data.amount \in Nat
  <2>1. \A n \in Nat : 100 * n \in Nat
    OBVIOUS
  <2>2. 100 * p.rupees \in Nat
    BY <1>3, <2>1
  <2>3. data.amount = 100 \/ data.amount = 100 * p.rupees
    BY <1>1
  <2> QED
    BY <2>2, <2>3
<1>5. data.amount # Absent /\ data.product # Absent /\ data.currency # Absent
  <2>1. data.amount # Absent
    BY <1>3, <1>4
  <2>2. data.product # Absent
    BY <1>1, <1>3
  <2>3. data.currency # Absent
    BY <1>1, <1>3
  <2> QED
    BY <2>1, <2>2, <2>3
<1>6. \A f \in ConfirmationFields \ {"name"} : Mail!Field(data, f)[2] # Absent
  <2>1. \A f \in {"orderId", "transactionId", "paymentDate"} : Mail!Field(data, f)[2] # Absent
    BY <1>1, <1>2, <1>3
  <2>2. \A f \in {"product", "currency", "amount"} : Mail!Field(data, f)[2] # Absent
    BY <1>2, <1>5
  <2>3. ConfirmationFields \ {"name"}
          \subseteq {"orderId", "transactionId", "paymentDate"} \cup {"product", "currency", "amount"}
    BY DEF ConfirmationFields
  <2> QED
    BY <2>1, <2>2, <2>3
<1> QED
  BY <1>1, <1>2, <1>6 DEF data

\* What the mails promise of one message.
OnePayment(message) ==
  Mail!Shown(message, "orderId") # {} =>
    \E p \in Payments :
      /\ message.to = p.email
      /\ Mail!Shown(message, "orderId") = {p.order}
      /\ Mail!Shown(message, "transactionId") = {p.id}
      /\ Mail!Shown(message, "paymentDate") = {p.time}
      /\ Mail!Shown(message, "name") \subseteq {p.name, p.email}
      /\ message.subject[2] \in {p.order, ""}

NameMissing(message) ==
  \A v \in message.html : v[2] = Absent =>
    v[1] = "name" /\ \E p \in Payments : p.gateway = "cashfree" /\ p.email = message.to

LEMMA Second == \A s, a, b : s = <<a, b>> => s[2] = b
OBVIOUS

LEMMA ResetFields ==
  \A d, c, url, time : d = [name |-> c, resetUrl |-> url, expiresIn |-> time] =>
    /\ "name" \in DOMAIN d /\ "resetUrl" \in DOMAIN d /\ "expiresIn" \in DOMAIN d
    /\ d["name"] = c /\ d["resetUrl"] = url /\ d["expiresIn"] = time
OBVIOUS

LEMMA AtMostOne == \A n : n = 0 \/ n = 1 => n <= 1
OBVIOUS

LEMMA FieldValue == \A d, g : g \in DOMAIN d => Mail!Field(d, g)[2] = d[g]
<1> TAKE d, g
<1>1. HAVE g \in DOMAIN d
<1>2. Mail!Field(d, g) = <<g, d[g]>>
  BY <1>1 DEF Mail!Field
<1> QED
  BY <1>2, Second

LEMMA ResetShows ==
  \A d, c, url, time : d = [name |-> c, resetUrl |-> url, expiresIn |-> time] =>
    /\ Mail!Field(d, "name")[2] = c /\ Mail!Field(d, "resetUrl")[2] = url
    /\ Mail!Field(d, "expiresIn")[2] = time
<1> TAKE d, c, url, time
<1>1. HAVE d = [name |-> c, resetUrl |-> url, expiresIn |-> time]
<1>2. /\ "name" \in DOMAIN d /\ "resetUrl" \in DOMAIN d /\ "expiresIn" \in DOMAIN d
      /\ d["name"] = c /\ d["resetUrl"] = url /\ d["expiresIn"] = time
  BY <1>1, ResetFields
<1> QED
  BY <1>2, FieldValue

LEMMA ConfirmationMessage ==
  ASSUME ServiceAssumption, NEW m, NEW p \in Payments, ConfirmationOf(m, p)
  PROVE  OnePayment(Mail!Message(m)) /\ NameMissing(Mail!Message(m))
<1> DEFINE message == Mail!Message(m)
           data == Mail!ConfirmationData(p)
<1>1. /\ message.to = p.email /\ message.html = Mail!Fields(data, ConfirmationFields)
      /\ message.subject = Mail!Subject(m)
  BY DEF ConfirmationOf, Mail!Message, Mail!GenerateHtml, Mail!PaymentConfirmationHtml, ConfirmationFields
<1>2. /\ Mail!Field(data, "orderId")[2] = p.order /\ Mail!Field(data, "transactionId")[2] = p.id
      /\ Mail!Field(data, "paymentDate")[2] = p.time /\ data.orderId = p.order
      /\ Mail!Field(data, "name")[2] = IF p.gateway = "cashfree" THEN p.name ELSE p.email
      /\ \A f \in ConfirmationFields \ {"name"} : Mail!Field(data, f)[2] # Absent
  BY ConfirmationShows
<1>3. message.subject[2] \in {p.order, ""}
  <2>1. CASE m.subject = ""
    <3>1. Mail!Subject(m) = <<"Payment Confirmation", data.orderId>>
      BY <2>1 DEF ConfirmationOf, Mail!Subject, Mail!GetSubject
    <3>2. message.subject = <<"Payment Confirmation", p.order>>
      BY <1>1, <1>2, <3>1
    <3> HIDE DEF message, data
    <3>3. message.subject[2] = p.order
      BY <3>2, Second
    <3> QED
      BY <3>3
  <2>2. CASE m.subject # ""
    <3>1. message.subject = <<m.subject, "">>
      BY <1>1, <2>2 DEF Mail!Subject
    <3> HIDE DEF message, data
    <3>2. message.subject[2] = ""
      BY <3>1, Second
    <3> QED
      BY <3>2
  <2> QED
    BY <2>1, <2>2
<1> HIDE DEF message, data
<1>4. /\ Mail!Shown(message, "orderId") = {p.order} /\ Mail!Shown(message, "transactionId") = {p.id}
      /\ Mail!Shown(message, "paymentDate") = {p.time} /\ Mail!Shown(message, "name") \subseteq {p.name, p.email}
  <2>1. \A f \in ConfirmationFields : Mail!Shown(message, f) = {Mail!Field(data, f)[2]}
    BY <1>1, ShownFields
  <2> QED
    BY <1>2, <2>1 DEF ConfirmationFields
<1>5. OnePayment(message)
  BY <1>1, <1>3, <1>4 DEF OnePayment
<1>6. NameMissing(message)
  <2> SUFFICES ASSUME NEW v \in message.html, v[2] = Absent
               PROVE  v[1] = "name" /\ \E q \in Payments : q.gateway = "cashfree" /\ q.email = message.to
    BY DEF NameMissing
  <2>1. PICK f \in ConfirmationFields : v = Mail!Field(data, f)
    BY <1>1 DEF Mail!Fields
  <2>2. f = "name"
    BY <1>2, <2>1
  <2>3. v[1] = "name"
    BY <2>1, <2>2 DEF Mail!Field
  <2>4. p.gateway = "cashfree"
    BY <1>2, <2>1, <2>2, ServiceAssumption DEF Mail!MailerAssumption
  <2> QED
    BY <1>1, <2>3, <2>4
<1> QED
  BY <1>5, <1>6 DEF message

\* A message that shows no order is about no payment.
LEMMA PersonalMessage ==
  ASSUME NEW message, NEW data, NEW fs, message.html = Mail!Fields(data, fs), "orderId" \notin fs,
         \A f \in fs : Mail!Field(data, f)[2] # Absent
  PROVE  OnePayment(message) /\ NameMissing(message)
<1>1. Mail!Shown(message, "orderId") = {}
  BY ShownFields
<1>2. \A v \in message.html : v[2] # Absent
  BY DEF Mail!Fields
<1> QED
  BY <1>1, <1>2 DEF OnePayment, NameMissing

LEMMA EveryMessage ==
  ASSUME ServiceAssumption, NEW m \in Mail!Requests, Mail!Composable(m)
  PROVE  OnePayment(Mail!Message(m)) /\ NameMissing(Mail!Message(m))
<1> DEFINE message == Mail!Message(m)
<1>0. /\ \A c \in Customers : Absent \notin {c, <<"reset", c>>, <<"html", c>>}
      /\ Absent # "1 hour"
  BY ServiceAssumption DEF Mail!MailerAssumption
<1>1. ASSUME NEW p \in Payments, ConfirmationOf(m, p) PROVE OnePayment(message) /\ NameMissing(message)
  BY <1>1, ConfirmationMessage
<1>2. ASSUME NEW c \in Customers, NEW url, WelcomeTo(m, c, url) PROVE OnePayment(message) /\ NameMissing(message)
  <2> DEFINE fs == {"name", "email"} \cup {f \in {"loginUrl"} : m.data.loginUrl # Absent}
  <2>1. message.html = Mail!Fields(m.data, fs)
    BY <1>2 DEF WelcomeTo, Mail!Message, Mail!GenerateHtml, Mail!WelcomeHtml
  <2>2. ASSUME NEW f \in fs PROVE Mail!Field(m.data, f)[2] # Absent
    <3>1. f \in {"name", "email", "loginUrl"} /\ (f = "loginUrl" => m.data.loginUrl # Absent)
      OBVIOUS
    <3>2. /\ Mail!Field(m.data, "name")[2] = c /\ Mail!Field(m.data, "email")[2] = c
          /\ Mail!Field(m.data, "loginUrl")[2] = m.data.loginUrl
      BY <1>2 DEF WelcomeTo, Mail!Field
    <3> QED
      BY <1>0, <3>1, <3>2
  <2>3. "orderId" \notin fs
    OBVIOUS
  <2> HIDE DEF fs, message
  <2> QED
    BY <2>1, <2>2, <2>3, PersonalMessage
<1>3. ASSUME NEW c \in Customers, ResetOf(m, c) PROVE OnePayment(message) /\ NameMissing(message)
  <2> DEFINE fs == {"name", "resetUrl", "expiresIn"}
  <2>1. message.html = Mail!Fields(m.data, fs)
    BY <1>3 DEF ResetOf, Mail!Message, Mail!GenerateHtml, Mail!PasswordResetHtml
  <2>2. ASSUME NEW f \in fs PROVE Mail!Field(m.data, f)[2] # Absent
    <3> HIDE DEF message
    <3>a. m.data = [name |-> c, resetUrl |-> <<"reset", c>>, expiresIn |-> "1 hour"]
      BY <1>3 DEF ResetOf
    <3>1. /\ Mail!Field(m.data, "name")[2] = c /\ Mail!Field(m.data, "resetUrl")[2] = <<"reset", c>>
          /\ Mail!Field(m.data, "expiresIn")[2] = "1 hour"
      <4> DEFINE url == <<"reset", c>>
                 time == "1 hour"
      <4>1. m.data = [name |-> c, resetUrl |-> url, expiresIn |-> time]
        BY <3>a
      <4> HIDE DEF url, time
      <4>2. /\ Mail!Field(m.data, "name")[2] = c /\ Mail!Field(m.data, "resetUrl")[2] = url
            /\ Mail!Field(m.data, "expiresIn")[2] = time
        BY <4>1, ResetShows
      <4> QED
        BY <4>2 DEF url, time
    <3>4. f = "name" \/ f = "resetUrl" \/ f = "expiresIn"
      OBVIOUS
    <3> HIDE DEF fs
    <3> QED
      BY <1>0, <3>1, <3>4
  <2>3. "orderId" \notin fs
    OBVIOUS
  <2> HIDE DEF fs, message
  <2> QED
    BY <2>1, <2>2, <2>3, PersonalMessage
<1>4. ASSUME NEW c \in Customers, CustomTo(m, c) PROVE OnePayment(message) /\ NameMissing(message)
  <2>1. message.html = Mail!Fields(m.data, {"html"})
    BY <1>4 DEF CustomTo, Mail!Message
  <2>2. Mail!Field(m.data, "html")[2] # Absent
    <3>1. Mail!Field(m.data, "html")[2] = <<"html", c>>
      BY <1>4 DEF CustomTo, Mail!Field
    <3> QED
      BY <1>0, <3>1
  <2> HIDE DEF message
  <2> QED
    BY <2>1, <2>2, PersonalMessage
<1> QED
  BY <1>1, <1>2, <1>3, <1>4, MailKinds

\* What the mails promise follows from the invariant.
LEMMA MailPromises ==
  ASSUME ServiceAssumption, MailsIInv
  PROVE  Mail!TypeOK /\ MailsAccounted
<1>1. ASSUME NEW c \in Calls
      PROVE  /\ call[c] \in CallStates /\ MailOK(c) /\ call[c].at \in {"idle", "sending", "taken", "returned"}
             /\ call[c].at # "idle" => call[c].mail \in Mail!Requests
             /\ call[c].at = "returned" => call[c].answer \in BOOLEAN
  BY CallShapes DEF MailsIInv
<1>2. Mail!TypeOK
  <2>1. mailFaults \in Nat /\ mailFaults <= MaxFaults /\ MaxFaults \in Nat
    BY ServiceAssumption DEF MailsIInv, Mail!MailerAssumption
  <2>2. mailFaults \in 0 .. MaxFaults
    BY <2>1
  <2>3. DOMAIN call = Calls
    BY DEF MailsIInv
  <2> QED
    BY <1>1, <2>2, <2>3 DEF MailsIInv, Mail!TypeOK
<1>3. ASSUME NEW e \in Mail!Mails
      PROVE  OnePayment(Mail!Mail(e)) /\ NameMissing(Mail!Mail(e))
  <2> DEFINE c == e[1]
             m == call[c].mail
  <2>1. c \in Calls /\ e[2] \in DOMAIN outbox[c] /\ Mail!Mail(e) = outbox[c][e[2]]
    BY DEF Mail!Mails, Mail!Mail
  <2> HIDE DEF c
  <2>2. outbox[c] # <<>>
    BY <2>1
  <2>3. outbox[c] = <<Mail!Message(m)>> /\ Mail!Composable(m) /\ m \in Mail!Requests
    BY <1>1, <2>1, <2>2 DEF MailOK
  <2>4. Mail!Mail(e) = Mail!Message(m)
    BY <2>1, <2>3
  <2> QED
    BY <2>3, <2>4, EveryMessage
<1>4. Mail!OnePaymentPerMail
  BY <1>3 DEF Mail!OnePaymentPerMail, OnePayment
<1>5. Mail!OnlyNamesMissing
  BY <1>3 DEF Mail!OnlyNamesMissing, NameMissing
<1>6. Mail!AnswersAccounted
  <2>1. ASSUME NEW c \in Calls
        PROVE  /\ Len(outbox[c]) <= 1
               /\ call[c].at = "returned" =>
                    /\ call[c].answer => Len(outbox[c]) = 1
                    /\ ~Mail!Composable(call[c].mail) => ~call[c].answer /\ outbox[c] = <<>>
    <3>1. outbox[c] = <<>> \/ outbox[c] = <<Mail!Message(call[c].mail)>>
      BY <1>1 DEF MailOK
    <3>2. outbox[c] = <<>> => Len(outbox[c]) = 0
      OBVIOUS
    <3>3. outbox[c] = <<Mail!Message(call[c].mail)>> => Len(outbox[c]) = 1
      OBVIOUS
    <3>4. ASSUME call[c].at = "returned"
          PROVE  /\ call[c].answer => outbox[c] = <<Mail!Message(call[c].mail)>>
                 /\ ~Mail!Composable(call[c].mail) => ~call[c].answer /\ outbox[c] = <<>>
      BY <1>1, <3>4 DEF MailOK
    <3>5. Len(outbox[c]) <= 1
      <4>1. Len(outbox[c]) = 0 \/ Len(outbox[c]) = 1
        BY <3>1, <3>2, <3>3, Zenon
      <4> QED
        BY <4>1, AtMostOne, Zenon
    <3>6. ASSUME call[c].at = "returned", call[c].answer PROVE Len(outbox[c]) = 1
      BY <3>3, <3>4, <3>6
    <3>7. ASSUME call[c].at = "returned", ~Mail!Composable(call[c].mail)
          PROVE  ~call[c].answer /\ outbox[c] = <<>>
      BY <3>4, <3>7
    <3> QED
      BY <3>5, <3>6, <3>7
  <2>2. Cardinality(Failed) <= mailFaults /\ Mail!Cardinality(Failed) = Cardinality(Failed)
    BY MailCounting DEF MailsIInv
  <2> QED
    BY <2>1, <2>2 DEF Mail!AnswersAccounted, Failed
<1> QED
  BY <1>2, <1>4, <1>5, <1>6 DEF MailsAccounted

-----------------------------------------------------------------------------
(* The theorems.  The components share no variable: the invariant is theirs,    *)
(* whichever of them is followed.                                            *)

IInv ==
  /\ part \in {"requests", "start", "mail", "chain"}
  /\ RequestIInv /\ StartIInv /\ MailsIInv /\ ChainIInv

LEMMA PartsStep == Next => /\ part' = part /\ [Pipeline!Next]_requestVars /\ [Boot!Next]_startVars
                           /\ [Mail!Next]_mailVars /\ [Chain!Next]_chainVars
BY DEF Next

LEMMA Inductive == Spec => [](IInv /\ ServiceAssumption)
<1>1. Init => IInv
  BY ServiceAssumption, RequestInit, StartInit, MailInit, ChainInit DEF Init, IInv
<1>2. IInv /\ [Next]_vars => IInv'
  <2> SUFFICES ASSUME IInv, [Next]_vars PROVE IInv'
    OBVIOUS
  <2>1. /\ part' = part /\ [Pipeline!Next]_requestVars /\ [Boot!Next]_startVars
        /\ [Mail!Next]_mailVars /\ [Chain!Next]_chainVars
    BY PartsStep DEF vars
  <2> QED
    BY <2>1, ServiceAssumption, RequestStep, StartStep, MailStep, ChainStep DEF IInv
<1> QED
  BY <1>1, <1>2, ServiceAssumption, PTL DEF Spec

\* A request has had its effect exactly as often as its client knows of and answers
\* were lost, gateways are only asked what was checked, and the status of an answer
\* tells whose turn it is (RequestPipeline): for any number of clients and requests.
THEOREM AccountedRequests == Spec => []RequestsAccounted
<1>1. IInv /\ ServiceAssumption => RequestsAccounted
  BY RequestPromises DEF IInv
<1> QED
  BY <1>1, Inductive, PTL

\* A mail is about one payment, sent once if its caller is told so, and shows nothing
\* undefined but a name (Mailer): for any number of mails under way at once.
THEOREM AccountedMails == Spec => []MailsAccounted
<1>1. IInv /\ ServiceAssumption => MailsAccounted
  BY MailPromises DEF IInv
<1> QED
  BY <1>1, Inductive, PTL

\* A service that takes requests is whole and is not taken down by an uncaught
\* exception, and a start that fails is reported as a success only once the listener
\* for uncaught exceptions is there (Bootstrap): for all sources of configuration.
THEOREM AccountedStart == Spec => StartAccounted
<1>1. IInv /\ ServiceAssumption => Boot!ServedWhole /\ Boot!QuietEndExplained
  BY StartPromises DEF IInv
<1>2. IInv /\ ServiceAssumption /\ [Next]_vars
        => [serving # "no" /\ ended = "no" => ended' = "no" /\ serving' = serving]_(Boot!vars)
  BY PartsStep, ServingStays DEF IInv, vars
<1> QED
  BY <1>1, <1>2, Inductive, PTL DEF Spec, StartAccounted, Boot!ServingSurvives

\* A chain of handlers loses its end only by a handler that joins the chain it is on,
\* hands an event to no handler twice before that, and keeps its links (HandlerChain):
\* for any set of handlers.
THEOREM AccountedChains == Spec => ChainsAccounted
<1>1. IInv /\ ServiceAssumption => Chain!EndlessOnlyByRejoining /\ Chain!HandledOnce
  BY ChainPromises DEF IInv
<1>2. IInv /\ ServiceAssumption /\ [Next]_vars
        => [\A n \in Handlers : next[n] # None => next'[n] = next[n]]_(Chain!vars)
  <2> SUFFICES ASSUME IInv, ServiceAssumption, [Next]_vars
               PROVE  \A n \in Handlers : next[n] # None => next'[n] = next[n]
    OBVIOUS
  <2>1. [Chain!Next]_chainVars
    BY PartsStep DEF vars
  <2>2. next \in Links
    BY DEF IInv, ChainIInv, Chain!TypeOK, Links
  <2> QED
    BY <2>1, <2>2, LinksStay
<1> QED
  BY <1>1, <1>2, Inductive, PTL DEF Spec, ChainsAccounted, Chain!NothingUnlinked

\* Every component keeps its variables in their types.
THEOREM TypeCorrect == Spec => []TypeOK
<1>1. IInv /\ ServiceAssumption => TypeOK
  <2> SUFFICES ASSUME IInv, ServiceAssumption PROVE TypeOK
    OBVIOUS
  <2>1. Pipeline!TypeOK /\ Boot!TypeOK /\ Mail!TypeOK /\ Chain!TypeOK
    BY RequestPromises, StartPromises, MailPromises DEF IInv, ChainIInv
  <2> QED
    BY <2>1 DEF IInv, TypeOK
<1> QED
  BY <1>1, Inductive, PTL
=============================================================================
