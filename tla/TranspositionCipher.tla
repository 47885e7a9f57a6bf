------------------------- MODULE TranspositionCipher -------------------------
(***************************************************************************)
(* EncryptionDecryption (common/encryption-decryption.ts): a text is       *)
(* written into a grid row by row and read column by column, and back.     *)
(* The sides of the grid are computed from the length of the text, by      *)
(* encryption and, from what it made, once more by decryption.  A caller   *)
(* applies the two in any order, also several times in a row.              *)
(***************************************************************************)
EXTENDS Integers, SequencesExt

CONSTANTS Letters, Blank,
          MaxLength, \* bound: length of the text to begin with
          MaxCalls   \* bound: calls

CipherAssumption == Blank \notin Letters /\ {MaxLength, MaxCalls} \subseteq Nat

VARIABLES text,  \* what the caller has
          under, \* the texts it encrypted and has not decrypted yet, the last one first
          calls

vars == <<text, under, calls>>

Texts == BoundedSeq(Letters \cup {Blank}, MaxLength)

Init == text \in Texts /\ under = <<>> /\ calls = 0

-----------------------------------------------------------------------------
\* Square roots, rounded down and up.
FloorSqrt(n) == CHOOSE r \in 0..n : r * r <= n /\ (r + 1) * (r + 1) > n
CeilSqrt(n)  == LET r == FloorSqrt(n) IN IF r * r = n THEN r ELSE r + 1

\* Variants of EncryptionRows: the grid is never enlarged, and always.
EncryptionRowsFloor(n) == FloorSqrt(n)
EncryptionRowsMore(n)  == FloorSqrt(n) + 1

\* The rows of the grid of encryption; it has CeilSqrt(n) columns.  A grid that is
\* too small always has fewer rows than columns, so it is a row that is added.
EncryptionRows(n) ==
  IF FloorSqrt(n) * CeilSqrt(n) < n THEN FloorSqrt(n) + 1 ELSE FloorSqrt(n)

Encryption(s) ==
  LET n == Len(s) a == EncryptionRows(n) b == CeilSqrt(n)
      cell(i, j) == IF i * b + j < n THEN s[i * b + j + 1] ELSE Blank
  IN [k \in 1..(a * b) |-> cell((k - 1) % a, (k - 1) \div a)]

\* Where the letters of s are.
Solid(s) == {i \in DOMAIN s : s[i] # Blank}

\* String.trim
Trim(s) ==
  IF Solid(s) = {} THEN <<>>
  ELSE SubSeq(s, CHOOSE i \in Solid(s) : \A j \in Solid(s) : i <= j,
                 CHOOSE i \in Solid(s) : \A j \in Solid(s) : j <= i)

\* Where the k-th cell of decryption's grid, row by row, was filled from in a text
\* of n characters.
Place(n, k) == ((k - 1) % CeilSqrt(n)) * FloorSqrt(n) + (k - 1) \div CeilSqrt(n) + 1

\* The numbers of T in ascending order.
Ascending(T) == [j \in 1..Cardinality(T) |-> CHOOSE k \in T : Cardinality({m \in T : m <= k}) = j]

\* Variant of Filled: the last letter counts as behind the end.
FilledShort(n) == {k \in 1..(FloorSqrt(n) * CeilSqrt(n)) : Place(n, k) < n}

\* The cells that were filled.  Those behind the end of the text stay empty and add
\* nothing when the grid is read.
Filled(n) == {k \in 1..(FloorSqrt(n) * CeilSqrt(n)) : Place(n, k) <= n}

Decryption(e) ==
  LET cells == Ascending(Filled(Len(e)))
  IN Trim([j \in DOMAIN cells |-> e[Place(Len(e), cells[j])]])

-----------------------------------------------------------------------------
Encrypt ==
  /\ calls < MaxCalls
  /\ calls' = calls + 1
  /\ text' = Encryption(text)
  /\ under' = <<text>> \o under

Decrypt ==
  /\ under # <<>>
  /\ text' = Decryption(text)
  /\ under' = Tail(under)
  /\ UNCHANGED calls

Next == Encrypt \/ Decrypt

Spec == Init /\ [][Next]_vars

-----------------------------------------------------------------------------
TypeOK ==
  /\ ToSet(text) \subseteq Letters \cup {Blank}
  /\ Len(text) <= CeilSqrt(MaxLength) * CeilSqrt(MaxLength)
  /\ Len(under) <= calls

\* Decrypting what encryption made gives the text back, without the blanks around
\* it: the grid found from the length of the encrypted text is the one it was
\* written into.
RoundTrip == [][Decrypt /\ text = Encryption(Head(under)) => text' = Trim(Head(under))]_vars

\* Decryption of anything else may lose letters, but only when its length fits no
\* grid: a text encrypted twice, whose padding the first decryption trims.
LossExplained ==
  [][Decrypt /\ Cardinality(Solid(text')) < Cardinality(Solid(text))
       => FloorSqrt(Len(text)) * CeilSqrt(Len(text)) < Len(text)
          /\ text # Encryption(Head(under))]_vars
=============================================================================
