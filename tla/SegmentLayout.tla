--------------------------- MODULE SegmentLayout ---------------------------
(***************************************************************************)
(* How libsmraw lays the media out over segment files: how many segments a *)
(* write session announces, and which file name each segment gets.  Pure   *)
(* operators, used by the handle and by the segments stream.               *)
(***************************************************************************)
LOCAL INSTANCE Integers

CONSTANT NameLimit  \* 1000: sets of this many segments or more have no names

ASSUME NameLimitAssumption == NameLimit \in Nat \ {0}

(* The number of segments a write session is going to need, from the media *)
(* size and the maximum segment size.  0 stands for "not known": the media *)
(* size is not known and the segment size is limited.                      *)
NumberOfSegments(mediaSize, maxSegmentSize) ==
  IF maxSegmentSize = 0 THEN 1
  ELSE IF mediaSize = 0 THEN 0
  ELSE (mediaSize \div maxSegmentSize)
       + (IF mediaSize % maxSegmentSize # 0 THEN 1 ELSE 0)

(* The library refuses to name segments of a set that is too large, and a  *)
(* segment whose index lies beyond the announced number.  An index equal   *)
(* to the number is accepted, although the last one is one less.           *)
CanNameSegment(numberOfSegments, index) ==
  /\ numberOfSegments >= 0
  /\ numberOfSegments < NameLimit
  /\ numberOfSegments > 0 => index >= 0 /\ index <= numberOfSegments

(* What follows "<basename>.raw" in the name of a segment file: nothing    *)
(* for the only segment of a set, else a dot and three characters counted  *)
(* up from '0' (48), each stored in 8 bits.                                *)
Char(n) == (48 + n) % 256

SegmentSuffix(numberOfSegments, index) ==
  IF numberOfSegments = 1
  THEN <<>>
  ELSE << Char(index \div 100), Char((index % 100) \div 10), Char(index % 10) >>
=============================================================================
