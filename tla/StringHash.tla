----------------------------- MODULE StringHash -----------------------------
(***************************************************************************)
(* HashCodeGenerator.gernerate (common/utils/hash-code.generator.ts), step *)
(* by step: JavaScript's << and | make signed integers of their operands,  *)
(* from -Half up to Half - 1 (2^31 in the program), - and + do not.        *)
(***************************************************************************)
EXTENDS Integers, SequencesExt

CONSTANTS Codes,     \* character codes that occur
          Blank,     \* the code of a space
          Half,      \* how many integers are not negative
          MaxLength  \* bound: length of a string

HashAssumption ==
  /\ Codes \subseteq Nat /\ Blank \in Nat \ Codes /\ MaxLength \in Nat
  /\ Half \in Nat \ {0, 1}

VARIABLES string, \* the argument
          pc,     \* start, loop or done
          i, hash \* the loop's index and the value returned in the end

vars == <<string, pc, i, hash>>

Init == string \in BoundedSeq(Codes \cup {Blank}, MaxLength) /\ pc = "start" /\ i = 0 /\ hash = 0

\* The signed integer a number is cut to.
ToInt(n) == LET m == n % (2 * Half) IN IF m >= Half THEN m - 2 * Half ELSE m

\* Variants of Mix: never cut, and a factor of 33.
MixUncut(h, chr) == h * 32 - h + chr
MixPlus(h, chr)  == ToInt(ToInt(h * 32) + h + chr)

\* hash = (hash << 5) - hash + chr; hash |= 0
Mix(h, chr) == ToInt(ToInt(h * 32) - h + chr)

\* String.trim
Trim(s) ==
  LET solid == {k \in DOMAIN s : s[k] # Blank} IN
  IF solid = {} THEN <<>>
  ELSE SubSeq(s, CHOOSE k \in solid : \A j \in solid : k <= j, CHOOSE k \in solid : \A j \in solid : j <= k)

-----------------------------------------------------------------------------
\* An empty string is 0, a blank one 1; the loop runs over the trimmed string.
Start ==
  /\ pc = "start"
  /\ pc' = IF Trim(string) = <<>> THEN "done" ELSE "loop"
  /\ hash' = IF string # <<>> /\ Trim(string) = <<>> THEN 1 ELSE 0
  /\ UNCHANGED <<string, i>>

Step ==
  /\ pc = "loop" /\ i < Len(Trim(string))
  /\ hash' = Mix(hash, Trim(string)[i + 1])
  /\ i' = i + 1
  /\ UNCHANGED <<string, pc>>

Return ==
  /\ pc = "loop" /\ i = Len(Trim(string))
  /\ pc' = "done"
  /\ UNCHANGED <<string, i, hash>>

Next == Start \/ Step \/ Return

Spec == Init /\ [][Next]_vars

-----------------------------------------------------------------------------
TypeOK ==
  /\ i \in 0..Len(string)
  /\ hash \in -Half..(Half - 1)

\* Cutting at every step does no harm: the hash is the polynomial of the trimmed
\* string at 31, cut once.
IsPolynomial ==
  pc = "done" /\ Trim(string) # <<>> =>
    LET s == Trim(string) n == Len(s)
    IN hash = ToInt(FoldFunction(+, 0, [k \in 1..n |-> s[k] * 31^(n - k)]))
=============================================================================
