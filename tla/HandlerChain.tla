---------------------------- MODULE HandlerChain ----------------------------
(***************************************************************************)
(* Sequence (common/sequence.ts), the base of the socket event handlers    *)
(* (event.handler.sequence.ts, auto-disconnect.event.sequence.ts): a chain *)
(* of handlers linked by `next'.  addNext walks to the end of the chain    *)
(* and hooks the new handler there; execute hands the event from one       *)
(* handler to the next and ends after the last.                            *)
(*                                                                         *)
(* A handler that awaits before it passes the event on leaves the chain    *)
(* open to addNext meanwhile.                                              *)
(***************************************************************************)
EXTENDS Naturals, Sequences

CONSTANTS Handlers,  \* the handler objects
          None,      \* no next handler
          MaxVisits  \* bound: handlers one execution is followed through

ChainAssumption == None \notin Handlers /\ MaxVisits \in Nat \ {0}

VARIABLES
  next,      \* handler -> the handler linked behind it
  visited,   \* handlers the execution went through, in order
  running,   \* is an execution under way
  rejoined,  \* was a handler ever added to a chain it shares the end of
  overflow   \* was addNext called on a chain without an end

vars == <<next, visited, running, rejoined, overflow>>

Init ==
  /\ next = [n \in Handlers |-> None]
  /\ visited = <<>>
  /\ running = FALSE
  /\ rejoined = FALSE
  /\ overflow = FALSE

\* The handlers of the chain that starts at n.
Closed(s) == \A m \in s : next[m] = None \/ next[m] \in s
Chain(n)  == CHOOSE s \in SUBSET Handlers :
               n \in s /\ Closed(s) /\ \A r \in SUBSET s : n \in r /\ Closed(r) => r = s
Ends(n)   == {m \in Chain(n) : next[m] = None}
Cyclic(n) == Ends(n) = {}

\* Variant: the new handler is linked behind the one it is added to.
HookFirst(n) == n

\* The handler whose `next' is still free, at the end of the chain of n.
Hook(n) == CHOOSE m \in Ends(n) : TRUE

\* Variant: the new handler is also linked back to the chain it joins.
AddNextRing(n, m) ==
  /\ ~Cyclic(n)
  /\ next' = [next EXCEPT ![Hook(n)] = m, ![m] = n]
  /\ rejoined' = (rejoined \/ Ends(n) = Ends(m))
  /\ UNCHANGED <<visited, running, overflow>>

\* addNext(m) called on n: each handler hands the call on until one has no next.
AddNext(n, m) ==
  /\ ~Cyclic(n)
  /\ next' = [next EXCEPT ![Hook(n)] = m]
  /\ rejoined' = (rejoined \/ Ends(n) = Ends(m))
  /\ UNCHANGED <<visited, running, overflow>>

\* The walk never ends: the call stack overflows and nothing is linked.
AddNextOverflows(n) ==
  /\ Cyclic(n)
  /\ overflow' = TRUE
  /\ UNCHANGED <<next, visited, running, rejoined>>

\* Variant: execution begins behind the handler it was asked of.
ExecuteBehind(n) ==
  /\ ~running
  /\ running' = TRUE
  /\ visited' = <<next[n]>>
  /\ UNCHANGED <<next, rejoined, overflow>>

Execute(n) ==
  /\ ~running
  /\ running' = TRUE
  /\ visited' = <<n>>
  /\ UNCHANGED <<next, rejoined, overflow>>

Current == visited[Len(visited)]

\* this.next.execute(context, arg)
Pass ==
  /\ running
  /\ next[Current] # None
  /\ Len(visited) < MaxVisits
  /\ visited' = Append(visited, next[Current])
  /\ UNCHANGED <<next, running, rejoined, overflow>>

\* There is no next handler.
Return ==
  /\ running
  /\ next[Current] = None
  /\ running' = FALSE
  /\ UNCHANGED <<next, visited, rejoined, overflow>>

Next ==
  \/ \E n \in Handlers : AddNextOverflows(n) \/ Execute(n) \/ \E m \in Handlers : AddNext(n, m)
  \/ Pass \/ Return

Spec == Init /\ [][Next]_vars

\* Each handler passes the event on, or returns, in the end.
FairSpec == Spec /\ WF_vars(Pass) /\ WF_vars(Return)

-----------------------------------------------------------------------------
TypeOK ==
  /\ next \in [Handlers -> Handlers \cup {None}]
  /\ visited \in Seq(Handlers) /\ Len(visited) <= MaxVisits
  /\ running => visited # <<>>
  /\ rejoined \in BOOLEAN /\ overflow \in BOOLEAN

\* A chain loses its end, so that addNext on it overflows and an execution of it
\* goes round, only if some handler was added to a chain whose end its own chain
\* shares: adding the same handler twice is enough, adding it to two chains is not.
EndlessOnlyByRejoining ==
  (overflow \/ \E n \in Handlers : Cyclic(n)) => rejoined

\* No handler of a chain gets an event twice in one execution, although handlers
\* are added while it runs, unless one was added to a chain it shares the end of.
HandledOnce ==
  rejoined \/ \A i, j \in DOMAIN visited : visited[i] = visited[j] => i = j

\* No handler is ever taken out of a chain: what an execution would pass through
\* it still passes through after any addNext.
NothingUnlinked ==
  [][\A n \in Handlers : next[n] # None => next'[n] = next[n]]_vars

\* Every execution ends, unless a chain lost its end.
ExecutionsEnd == [](running => <>(~running \/ rejoined))
=============================================================================
