----------------------------- MODULE PushTokens -----------------------------
(***************************************************************************)
(* PushTokenSplitter.split (common/push_token_splitter.ts): a string of    *)
(* elements between commas, each of which may be labelled, becomes a group *)
(* of tokens, one per service.                                             *)
(*                                                                         *)
(* An element is the set of labels found in it and what is left of it      *)
(* without labels; the element between two commas, or behind the last one, *)
(* has none and is Empty.                                                  *)
(***************************************************************************)
EXTENDS Integers, SequencesExt

CONSTANTS Tokens,   \* what can stand behind a label; "true" and "1" are tokens too
          Empty,    \* the empty string
          MaxLength \* bound: elements of a string

TokensAssumption == {"true", "1"} \subseteq Tokens /\ Empty \notin Tokens /\ MaxLength \in Nat \ {0}

VARIABLES list,  \* the elements of the string
          i,     \* how many forEach has seen
          group  \* the PushTokenGroup

vars == <<list, i, group>>

Labels == {"IS_SAND_BOX", "APNS", "APN", "VOIP", "FCM"}

\* At most one label, or two: an element that was not separated from its neighbour.
Elements == [labels : {{l, m} : l, m \in Labels} \cup {{}}, rest : Tokens \cup {Empty}]

Nothing == [labels |-> {}, rest |-> Empty]

Init ==
  /\ list \in BoundedSeq(Elements, MaxLength) /\ list # <<>>
  /\ i = 0
  /\ group = [apns |-> Nothing, fcm |-> Nothing, voip |-> Nothing, isSandBox |-> FALSE]

-----------------------------------------------------------------------------
\* replace takes the label out and leaves others where they are.
Without(e, l) == [e EXCEPT !.labels = @ \ {l}]

\* The label that decides: the first of the tests that succeeds.
Label(e) ==
  CASE "IS_SAND_BOX" \in e.labels -> "IS_SAND_BOX"
    [] "IS_SAND_BOX" \notin e.labels /\ "APNS" \in e.labels -> "APNS"
    [] e.labels \cap {"IS_SAND_BOX", "APNS"} = {} /\ "APN" \in e.labels -> "APN"
    [] e.labels \cap {"IS_SAND_BOX", "APNS", "APN"} = {} /\ "VOIP" \in e.labels -> "VOIP"
    [] OTHER -> "FCM"

\* true or 1 behind IS_SAND_BOX, and no other label.
Flag(e) == e.labels = {} /\ e.rest \in {"true", "1"}

\* Variant of Slot: one label taken for its neighbour.
SlotMixed == [IS_SAND_BOX |-> "isSandBox", APNS |-> "apns", APN |-> "voip", VOIP |-> "voip", FCM |-> "fcm"]

Slot == [IS_SAND_BOX |-> "isSandBox", APNS |-> "apns", APN |-> "apns", VOIP |-> "voip", FCM |-> "fcm"]

\* Variant of Placed: a token does not replace another.
PlacedOnce(e) ==
  IF Label(e) = "IS_SAND_BOX" THEN [group EXCEPT !.isSandBox = Flag(Without(e, Label(e)))]
  ELSE IF group[Slot[Label(e)]] # Nothing THEN group
  ELSE [group EXCEPT ![Slot[Label(e)]] = Without(e, Label(e))]

\* The body of forEach.
Placed(e) ==
  IF Label(e) = "IS_SAND_BOX" THEN [group EXCEPT !.isSandBox = Flag(Without(e, Label(e)))]
  ELSE [group EXCEPT ![Slot[Label(e)]] = Without(e, Label(e))]

\* Variant of ForEach: the element behind the one just read is taken for part of it.
ForEachPair ==
  /\ i < Len(list)
  /\ i' = i + 2
  /\ group' = Placed(list[i + 1])
  /\ UNCHANGED list

ForEach ==
  /\ i < Len(list)
  /\ i' = i + 1
  /\ group' = Placed(list[i + 1])
  /\ UNCHANGED list

Next == ForEach

Spec == Init /\ [][Next]_vars

-----------------------------------------------------------------------------
TypeOK ==
  /\ i \in 0..Len(list)
  /\ group.isSandBox \in BOOLEAN
  /\ \A s \in {"apns", "fcm", "voip"} : group[s].rest \in Tokens \cup {Empty}

\* A labelled token is in the group unless a later element went to the same slot.
\* Elements without a label are FCM tokens, the empty one behind a comma at the end
\* as well, which is the one way to lose an FCM token nobody replaced.
LostTokensExplained ==
  i = Len(list) =>
    \A k \in 1..i, s \in {"APNS", "APN", "VOIP", "FCM"} :
      list[k].labels = {s} =>
        \/ group[Slot[s]] = [labels |-> {}, rest |-> list[k].rest]
        \/ \E l \in (k + 1)..i :
             \/ list[l].labels \cap {s, "APNS", "APN"} # {} /\ s \in {"APNS", "APN"}
             \/ s \in list[l].labels
             \/ s = "FCM" /\ list[l].labels = {}

\* No slot is filled with a token that did not stand in the string, or stood for
\* another service alone.
NothingInvented ==
  /\ group.apns # Nothing => \E k \in 1..i : list[k].labels \cap {"APNS", "APN"} # {} /\ list[k].rest = group.apns.rest
  /\ group.voip # Nothing => \E k \in 1..i : "VOIP" \in list[k].labels /\ list[k].rest = group.voip.rest
  /\ group.fcm # Nothing => \E k \in 1..i : list[k].labels \subseteq {"FCM"} /\ list[k].rest = group.fcm.rest
=============================================================================
