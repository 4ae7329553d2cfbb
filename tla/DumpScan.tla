------------------------------ MODULE DumpScan -------------------------------
(***************************************************************************)
(* The scan of a dump for one marker (count_needle_in_file): the file is   *)
(* read piece by piece into a buffer, each read returning as many bytes as *)
(* it likes, and the end of what was read is kept at the front of the      *)
(* buffer so that a marker across two pieces is found.                     *)
(***************************************************************************)
EXTENDS Naturals, FiniteSets

CONSTANTS
  Byte,       \* what a byte may be
  CHUNK,      \* room for new bytes in the buffer beside the kept ones
  MaxFile,    \* bound: bytes in the file
  MaxNeedle   \* bound: bytes in the marker

ASSUME ScanAssumption ==
  /\ CHUNK \in Nat \ {0}
  /\ MaxFile \in Nat /\ MaxNeedle \in Nat

VARIABLES
  size, text,     \* the file: its length and its bytes
  length, needle, \* the marker: its length and its bytes
  at,             \* bytes read so far
  carry, kept,    \* the kept bytes: how many, and which
  count           \* occurrences counted so far

scanVars == <<size, text, length, needle, at, carry, kept, count>>

Strings(n) == [1 .. n -> Byte]

ScanInit ==
  /\ size \in 0 .. MaxFile /\ text \in Strings(size)
  /\ length \in 1 .. MaxNeedle /\ needle \in Strings(length)
  /\ at = 0
  /\ carry = 0 /\ kept \in Strings(0)
  /\ count = 0

(* count_occurrences: overlapping occurrences count each. An occurrence is  *)
(* the place it starts at, in a piece of n bytes.                           *)
Occurrences(n, hay) ==
  {i \in 1 .. n : i + length <= n + 1 /\ \A k \in 1 .. length : hay[i + k - 1] = needle[k]}

(* What the buffer holds after a read of n bytes.                           *)
Filled(n) ==
  [j \in 1 .. carry + n |-> IF j <= carry THEN kept[j] ELSE text[at + j - carry]]

Least(a, b) == IF a <= b THEN a ELSE b

(* One byte less than a marker is kept, or all there is if that is less.    *)
WholeMarker(filled) == Least(filled, length)
Overlap(filled) == Least(filled, length - 1)

Read(n) ==
  /\ n <= size - at
  /\ n <= length - 1 + CHUNK - carry
  /\ at' = at + n
  /\ count' = count + Cardinality(Occurrences(carry + n, Filled(n)))
  /\ carry' = Overlap(carry + n)
  /\ kept' = [j \in 1 .. carry' |-> Filled(n)[carry + n - carry' + j]]
  /\ UNCHANGED <<size, text, length, needle>>

ScanNext == \E n \in 1 .. size : Read(n)

ScanSpec == ScanInit /\ [][ScanNext]_scanVars

(* Wherever the pieces begin and end, the count is that of the bytes read   *)
(* so far: no occurrence is missed at the edge of a piece, and none that    *)
(* lies in the kept bytes counts twice.                                     *)
CountsEachOnce == count = Cardinality(Occurrences(at, text))

=============================================================================
