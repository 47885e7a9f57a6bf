------------------------------ MODULE LogLines ------------------------------
(***************************************************************************)
(* LoggerService (common/logger/logger.service.ts) with the helpers it     *)
(* uses (common/utils/utils.ts): a call gives a context, a message, a      *)
(* trace and parameters; the parameters go through stringifySafe and       *)
(* parseSafe one by one, the whole is stringified once more, and one line  *)
(* is printed.                                                             *)
(*                                                                         *)
(* Values are told apart by what the helpers do with them:                 *)
(*   Falsy      undefined, null, 0, "", false or NaN                       *)
(*   Scalar     a number that is not 0, or true                            *)
(*   Text       a string that is no JSON                                   *)
(*   Json       a string that is the JSON of an object                     *)
(*   Object     an object that can be stringified                          *)
(*   Cyclic     an object that refers to itself                            *)
(*   Bottomless an object no replacer makes a string of (it holds a        *)
(*              bigint, or its toJSON throws)                              *)
(*   Function                                                              *)
(* and printed as one of those or as                                       *)
(*   Null       JSON's null                                                *)
(*   NullText   the text null                                              *)
(*   Pruned     an object without its repeated references                  *)
(*   Blank      the empty string                                           *)
(*   Left_out   nothing at all                                             *)
(***************************************************************************)
EXTENDS Naturals, Sequences

CONSTANT MaxParams \* bound: parameters of a call

LogAssumption == MaxParams \in Nat

Values == {"Falsy", "Scalar", "Text", "Json", "Object", "Cyclic", "Bottomless", "Function"}
Printed == {"Scalar", "Text", "Json", "Object", "Null", "NullText", "Pruned", "Blank", "Left_out"}

VARIABLES call,  \* the call: level, context, message, trace and parameters
          i,     \* parameters formattParams has read
          param, \* the parameters it has formatted
          line   \* Unprinted, Garbled, or the members of the line

vars == <<call, i, param, line>>

Unprinted == [kind |-> "unprinted"]
Garbled   == [kind |-> "garbled"] \* "[object Object]"

Levels == {"log", "info", "error", "debug", "warn"}

\* Only error() takes a trace.
Init ==
  /\ call \in [level : Levels, context : {"Falsy", "Text", "Object"}, message : Values,
               trace : {"Falsy", "Object", "Cyclic"},
               params : UNION {[1..n -> Values] : n \in 0..MaxParams}]
  /\ call.level # "error" => call.trace = "Falsy"
  /\ i = 0 /\ param = <<>> /\ line = Unprinted

-----------------------------------------------------------------------------
\* stringifySafe: a string for an object, with the repeated references left out if
\* it is cyclic; other values as they are.
StringifySafe(v) ==
  CASE v = "Falsy"    -> "NullText"
    [] v = "Object"   -> "Json"
    [] v = "Cyclic"   -> "PrunedJson"
    [] v = "Function" -> "Falsy"
    [] OTHER          -> v

\* parseSafe: JSON.parse, or the value itself where that fails.
ParseSafe(v) ==
  CASE v = "Falsy"      -> "NullText"
    [] v = "NullText"   -> "Null"
    [] v = "Json"       -> "Object"
    [] v = "PrunedJson" -> "Pruned"
    [] OTHER            -> v

\* classNameOf
ClassNameOf(c) == IF c = "Falsy" THEN "Blank" ELSE "Text"

\* Variant of Format: a cyclic object ends the loop, where the catch of
\* formattParams returns what it has.
FormatPlain ==
  /\ i < Len(call.params) /\ line = Unprinted
  /\ IF call.params[i + 1] = "Cyclic" THEN i' = Len(call.params) /\ UNCHANGED param
     ELSE i' = i + 1 /\ param' = Append(param, ParseSafe(StringifySafe(call.params[i + 1])))
  /\ UNCHANGED <<call, line>>

\* One round of formattParams.
Format ==
  /\ i < Len(call.params) /\ line = Unprinted
  /\ i' = i + 1
  /\ param' = Append(param, ParseSafe(StringifySafe(call.params[i + 1])))
  /\ UNCHANGED <<call, line>>

\* Variant of Member: values are left to JSON.stringify.
MemberRaw(v) == IF v = "Cyclic" THEN "Pruned" ELSE v

\* A member of the line as JSON.stringify, or its second attempt, prints it.
Member(v) ==
  CASE v = "Falsy"    -> "Blank"
    [] v = "Cyclic"   -> "Pruned"
    [] v = "Function" -> "Left_out"
    [] OTHER          -> v

\* Variant of Stringified: no second attempt is made.
StringifiedOnce ==
  IF "Bottomless" \in {call.message} \cup {param[k] : k \in DOMAIN param}
     \/ "Cyclic" \in {call.message, call.trace}
  THEN Garbled
  ELSE [kind |-> "line", level |-> call.level, context |-> ClassNameOf(call.context),
        message |-> Member(call.message), params |-> param, trace |-> Member(call.trace)]

\* stringifySafe of the whole: if even the second attempt fails, the object itself
\* goes into the template.
Stringified ==
  IF "Bottomless" \in {call.message} \cup {param[k] : k \in DOMAIN param} THEN Garbled
  ELSE [kind |-> "line", level |-> call.level, context |-> ClassNameOf(call.context),
        message |-> Member(call.message), params |-> param, trace |-> Member(call.trace)]

PrintLine ==
  /\ i = Len(call.params) /\ line = Unprinted
  /\ line' = Stringified
  /\ UNCHANGED <<call, i, param>>

Next == Format \/ PrintLine

Spec == Init /\ [][Next]_vars

-----------------------------------------------------------------------------
TypeOK ==
  /\ i \in 0..Len(call.params)
  /\ line.kind = "line" => {line.params[k] : k \in DOMAIN line.params} \subseteq Printed
  /\ line.kind = "line" => {line.message, line.trace, line.context} \subseteq Printed

\* A line is lost only to a value nothing can make a string of: one such parameter
\* or message takes all the others with it, a cycle takes nothing.
LossExplained ==
  line.kind = "garbled" =>
    "Bottomless" \in {call.message} \cup {call.params[k] : k \in DOMAIN call.params}

\* Every parameter is printed, at its own place, and tells what it was, except that
\* a JSON string looks like its object and a missing value like every other
\* falsy one.
ParamsReadBack ==
  line.kind = "line" =>
    /\ DOMAIN line.params = DOMAIN call.params
    /\ \A k, l \in DOMAIN call.params :
         line.params[k] = line.params[l] <=>
           call.params[k] = call.params[l] \/ {call.params[k], call.params[l]} = {"Json", "Object"}
=============================================================================
