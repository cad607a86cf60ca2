------------------------------ MODULE KeyOrder ------------------------------
(***************************************************************************)
(* Rows and gallery sort "<category>N.png" and "codiSetN.jpeg" as strings: *)
(* rows in ascending order of files 0 to n-1, the gallery in descending    *)
(* order of files 1 to n.  Numbers below 100 show where this stops being   *)
(* the order of the numbers.                                               *)
(***************************************************************************)
EXTENDS Integers, TLAPS

\* The order of two such keys of one category: the full stop that follows the
\* number comes before the digits, so "1" < "10" < "2".
DecimalBefore(i, j) ==
  CASE i < 10 /\ j >= 10 -> i <= j \div 10
    [] i >= 10 /\ j < 10 -> i \div 10 < j
    [] OTHER -> i < j

Numerical(S) == \A i, j \in S : DecimalBefore(i, j) <=> i < j

\* A row shows its photos in the order they were added exactly as long as there
\* are at most ten (fetchImageFromFirebase's sorted(by:)).
ASSUME RowOrder == \A n \in 0 .. 24 : Numerical(0 .. n - 1) <=> n <= 10

\* The gallery shows the newest set first exactly as long as there are at most
\* nine (configureCell's sorted(by:)).
ASSUME GalleryOrder == \A n \in 0 .. 24 : Numerical(1 .. n) <=> n <= 9

\* Sorting loses and repeats no photo: the keys are strictly and totally
\* ordered, which ClosetItemsProofs asks of KeyBefore.
THEOREM KeysAreOrdered ==
  \A i, j, k \in 0 .. 99 :
    /\ ~ DecimalBefore(i, i)
    /\ DecimalBefore(i, j) /\ DecimalBefore(j, k) => DecimalBefore(i, k)
    /\ i = j \/ DecimalBefore(i, j) \/ DecimalBefore(j, i)
<1> SUFFICES ASSUME NEW i \in 0 .. 99, NEW j \in 0 .. 99, NEW k \in 0 .. 99
    PROVE  /\ ~ DecimalBefore(i, i)
           /\ DecimalBefore(i, j) /\ DecimalBefore(j, k) => DecimalBefore(i, k)
           /\ i = j \/ DecimalBefore(i, j) \/ DecimalBefore(j, i)
  OBVIOUS
<1>1. ~ DecimalBefore(i, i)
  BY DEF DecimalBefore
<1>2. i = j \/ DecimalBefore(i, j) \/ DecimalBefore(j, i)
  BY DEF DecimalBefore
<1>3. ASSUME DecimalBefore(i, j), DecimalBefore(j, k) PROVE DecimalBefore(i, k)
  BY <1>3 DEF DecimalBefore
<1> QED
  BY <1>1, <1>2, <1>3

\* The keys numbered below 10 are in the order of the numbers, which
\* PatientRowsAreCurrent asks of KeyBefore up to the highest number in use.
THEOREM TenAreNumerical == Numerical(0 .. 9)
BY DEF Numerical, DecimalBefore
=============================================================================
