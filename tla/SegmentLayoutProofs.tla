------------------------ MODULE SegmentLayoutProofs ------------------------
(***************************************************************************)
(* Proofs about the layout of segment files, for all sizes.                *)
(***************************************************************************)
EXTENDS SegmentLayout, Integers, TLAPS

(* Division with remainder.                                                *)
LEMMA DivMod ==
  ASSUME NEW m \in Nat, NEW s \in Nat \ {0},
         NEW q \in Nat, NEW r \in Nat, q = m \div s, r = m % s
  PROVE  m = s * q + r /\ r < s
OBVIOUS

(* The segments a write session announces hold the media, and with one     *)
(* less of them they would not: a write that stays within the media size   *)
(* never needs the segment that libsmraw_filename.c:122 names beyond the   *)
(* announced number.                                                       *)
THEOREM SegmentsHoldTheMedia ==
  ASSUME NEW m \in Nat \ {0}, NEW s \in Nat \ {0}
  PROVE  /\ m <= s * NumberOfSegments(m, s)
         /\ s * (NumberOfSegments(m, s) - 1) < m
<1> DEFINE q == m \div s
           r == m % s
<1>1. q \in Nat /\ r \in Nat /\ q = m \div s /\ r = m % s
  OBVIOUS
<1>2. NumberOfSegments(m, s) = q + (IF r # 0 THEN 1 ELSE 0)
  BY DEF NumberOfSegments
<1> HIDE DEF q, r
<1>3. m = s * q + r /\ r < s
  BY <1>1, DivMod
<1>4. s * (q + 1) = s * q + s /\ s * (q - 1) = s * q - s
  BY <1>1
<1>5. CASE r = 0
  BY <1>1, <1>2, <1>3, <1>4, <1>5
<1>6. CASE r # 0
  BY <1>1, <1>2, <1>3, <1>4, <1>6
<1> QED
  BY <1>5, <1>6

(* What is counted up from '0' has a character of its own, as long as it   *)
(* fits in 8 bits.                                                         *)
LEMMA DigitsDiffer ==
  ASSUME NEW d \in 0 .. 207, NEW e \in 0 .. 207, Char(d) = Char(e)
  PROVE  d = e
<1>1. (48 + d) % 256 = 48 + d /\ (48 + e) % 256 = 48 + e
  OBVIOUS
<1>2. 48 + d = 48 + e
  BY <1>1 DEF Char
<1> QED
  BY <1>2

LEMMA SameDigit ==
  ASSUME NEW v \in Nat, NEW w \in Nat, NEW o \in Nat, NEW u \in Nat,
         o < 10, u < 10, 10 * v + o = 10 * w + u
  PROVE  o = u
<1>1. CASE v < w
  <2>1. 10 * v + 10 <= 10 * w
    BY <1>1
  <2> QED
    BY <2>1
<1>2. CASE w < v
  <2>1. 10 * w + 10 <= 10 * v
    BY <1>2
  <2> QED
    BY <2>1
<1>3. CASE v = w
  BY <1>3
<1> QED
  BY <1>1, <1>2, <1>3

(* The first index whose first character does not fit in 8 bits, the three *)
(* characters of an index, and the index again.                            *)
IndexLimit     == 20800
Hundreds(k)    == k \div 100
Tens(k)        == (k % 100) \div 10
Ones(k)        == k % 10
ThreeDigits(k) == /\ Hundreds(k) \in 0 .. 207 /\ Tens(k) \in 0 .. 9 /\ Ones(k) \in 0 .. 9
                  /\ k = 100 * Hundreds(k) + 10 * Tens(k) + Ones(k)

LEMMA IndexLimitType == IndexLimit \in Nat
BY DEF IndexLimit

LEMMA DecimalDigits ==
  ASSUME NEW k, k \in Nat, k < IndexLimit
  PROVE  ThreeDigits(k)
<1>0. k \in Nat
  OBVIOUS
<1>h. PICK h \in Nat, t \in Nat, o \in Nat :
        h = k \div 100 /\ t = (k % 100) \div 10 /\ o = k % 10
  BY ONLY <1>0
<1>1. k \in Nat /\ k <= 20799
  BY DEF IndexLimit
<1>2. PICK b \in Nat : b = k % 100
  BY <1>1
<1>3. k = 100 * h + b /\ b < 100
  BY <1>h, <1>1, <1>2, DivMod
<1>4. PICK u \in Nat : u = b % 10
  OBVIOUS
<1>5. b = 10 * t + u /\ u < 10
  BY <1>h, <1>2, <1>4, DivMod
<1>6. PICK v \in Nat : v = k \div 10
  BY <1>1
<1>7. k = 10 * v + o /\ o < 10
  BY <1>h, <1>1, <1>6, DivMod
<1>8. h <= 207 /\ t <= 9
  BY ONLY <1>1, <1>3, <1>5, h \in Nat, t \in Nat, b \in Nat, u \in Nat
<1>9. 10 * v + o = 10 * (10 * h + t) + u
  BY ONLY <1>3, <1>5, <1>7, h \in Nat, t \in Nat, b \in Nat, u \in Nat, o \in Nat, v \in Nat
<1>10. PICK w \in Nat : w = 10 * h + t
  OBVIOUS
<1>11. 10 * v + o = 10 * w + u
  BY ONLY <1>9, <1>10
<1>12. u = o
  BY ONLY <1>5, <1>7, <1>11, o \in Nat, u \in Nat, v \in Nat, w \in Nat, SameDigit
<1>13. k = 100 * h + 10 * t + o
  BY ONLY <1>3, <1>5, <1>12, h \in Nat, t \in Nat, b \in Nat, u \in Nat, o \in Nat
<1>14. h \in 0 .. 207 /\ t \in 0 .. 9 /\ o \in 0 .. 9
  BY ONLY <1>7, <1>8, h \in Nat, t \in Nat, o \in Nat
<1> QED
  BY ONLY <1>h, <1>13, <1>14 DEF Hundreds, Tens, Ones, ThreeDigits

(* Two segments of a numbered set never get the same name, as long as the  *)
(* first of the three characters, which is counted up past '9' when there  *)
(* are more than 1000 segments (libsmraw_filename.c:197), fits in 8 bits.  *)
(* The index after that has the end of the string for a character.         *)
THEOREM SuffixesDiffer ==
  ASSUME NEW n, NEW i, NEW j, n \in Nat \ {1},
         i \in Nat, j \in Nat, i < IndexLimit, j < IndexLimit,
         SegmentSuffix(n, i) = SegmentSuffix(n, j)
  PROVE  i = j
<1>1. << Char(Hundreds(i)), Char(Tens(i)), Char(Ones(i)) >>
      = << Char(Hundreds(j)), Char(Tens(j)), Char(Ones(j)) >>
  BY DEF SegmentSuffix, Hundreds, Tens, Ones
<1>2. /\ Char(Hundreds(i)) = Char(Hundreds(j))
      /\ Char(Tens(i)) = Char(Tens(j))
      /\ Char(Ones(i)) = Char(Ones(j))
  BY ONLY <1>1
<1>3. ThreeDigits(i) /\ ThreeDigits(j)
  BY ONLY i \in Nat, j \in Nat, i < IndexLimit, j < IndexLimit, DecimalDigits
<1>5. Tens(i) \in 0 .. 207 /\ Ones(i) \in 0 .. 207 /\ Tens(j) \in 0 .. 207 /\ Ones(j) \in 0 .. 207
  BY ONLY <1>3, SMTT(30) DEF ThreeDigits
<1>4. Hundreds(i) = Hundreds(j) /\ Tens(i) = Tens(j) /\ Ones(i) = Ones(j)
  BY ONLY <1>2, <1>3, <1>5, DigitsDiffer DEF ThreeDigits
<1> QED
  BY ONLY <1>3, <1>4 DEF ThreeDigits
=============================================================================
