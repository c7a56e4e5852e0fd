------------------------ MODULE SegmentStreamProofs ------------------------
(***************************************************************************)
(* Proofs about the segment files of a session, for all bytes, sizes of    *)
(* media, segments and calls, and failures: no two segments share a file,  *)
(* there are no more segments than were announced, only the last one has   *)
(* room left, reads are exact, and a handle that writes an image and opens *)
(* it again implements LinearMedia, one sequence of bytes with a position. *)
(*                                                                         *)
(* IInv lays the segments in a row; MediaInv adds what the bytes in their  *)
(* files make up.  That a row of files, put one after the other, holds the *)
(* byte i of the file k at (k - 1) * SegmentSize + i rests on FoldLemmas.  *)
(***************************************************************************)
EXTENDS SegmentStream, SegmentLayoutProofs, SequenceTheorems, FoldLemmas

(* The bounds are numbers.                                                 *)
LEMMA Bounds == MaxMedia \in Nat /\ MaxCall \in Nat
BY StreamAssumptions DEF StreamAssumptions

(* The number of segments is one, whatever the sizes.                      *)
LEMMA NumberOfSegmentsType ==
  ASSUME NEW m \in Nat, NEW s \in Nat
  PROVE  NumberOfSegments(m, s) \in Nat
BY DEF NumberOfSegments

(* The suffix of a segment file is of characters.                          *)
LEMMA SuffixType ==
  ASSUME NEW n \in Nat, NEW i \in Nat
  PROVE  SegmentSuffix(n, i) \in FileNames
<1>1. ASSUME NEW c \in Nat PROVE Char(c) \in 0 .. 255
  BY <1>1 DEF Char
<1>2. i \div 100 \in Nat /\ (i % 100) \div 10 \in Nat /\ i % 10 \in Nat
  OBVIOUS
<1> QED
  BY <1>1, <1>2 DEF SegmentSuffix, FileNames

(* Writing over a sequence, from no further than its end.                  *)
LEMMA OverwriteLength ==
  ASSUME NEW seq \in Seq(Bytes), NEW bytes \in Seq(Bytes), NEW at \in 0 .. Len(seq)
  PROVE  /\ Linear!Overwrite(seq, at, bytes) \in Seq(Bytes)
         /\ Len(Linear!Overwrite(seq, at, bytes)) =
              (IF at + Len(bytes) > Len(seq) THEN at + Len(bytes) ELSE Len(seq))
<1> DEFINE n == IF at + Len(bytes) > Len(seq) THEN at + Len(bytes) ELSE Len(seq)
           over == [i \in 1 .. n |-> IF i \in at + 1 .. at + Len(bytes)
                                     THEN bytes[i - at] ELSE seq[i]]
<1>1. n \in Nat
  OBVIOUS
<1>2. \A i \in 1 .. n : (IF i \in at + 1 .. at + Len(bytes)
                         THEN bytes[i - at] ELSE seq[i]) \in Bytes
  OBVIOUS
<1>3. over \in Seq(Bytes) /\ Len(over) = n
  <2> HIDE DEF n
  <2> QED
    BY <1>1, <1>2
<1>4. Linear!Overwrite(seq, at, bytes) = over
  BY DEF Linear!Overwrite
<1> QED
  BY <1>3, <1>4

-----------------------------------------------------------------------------
(* The size every segment of a session that writes is made with.           *)
SegmentSize == IF io.maxSegSize = 0 THEN Unlimited ELSE io.maxSegSize

WriteTypes ==
  /\ io \in [mediaSize : Sizes, maxSegSize : Sizes, numSegs : Nat]
  /\ segments \in Seq([file : Nat \ {0}, start : Nat, size : 0 .. Unlimited])
  /\ \A k \in 1 .. Len(segments) : segments[k].file \in 1 .. Len(pool)
  /\ offset \in Nat
  /\ pool \in Seq(FileNames)
  /\ disk = [f \in DOMAIN disk |-> disk[f]]
  /\ \A f \in DOMAIN disk : disk[f] \in Seq(Bytes)
  /\ call \in [op : {"none", "write"}, start : Nat, left : 0 .. MaxCall, data : Seq(Bytes)]

(* The segments lie in a row, and each has the file named after its index. *)
SegmentsInRow ==
  \A k \in 1 .. Len(segments) :
    /\ segments[k].size = SegmentSize
    /\ segments[k].start = (k - 1) * SegmentSize
    /\ FileOf(k) = SegmentSuffix(io.numSegs, k - 1)

(* The files on the disk are those of the segments.                        *)
FilesOnDisk ==
  DOMAIN disk = {SegmentSuffix(io.numSegs, k - 1) : k \in 1 .. Len(segments)}

(* The number of segments is fixed before there is one, and not exceeded.  *)
NumberFixed ==
  /\ ~writeInit => segments = << >> /\ call.op = "none"
  /\ writeInit => io.numSegs = NumberOfSegments(io.mediaSize, io.maxSegSize)
  /\ Len(segments) <= MaxMedia
  /\ io.numSegs > 0 => Len(segments) <= io.numSegs

(* A write in progress stays within the media.                             *)
CallFits ==
  call.op = "write" =>
    /\ call.left > 0
    /\ offset + call.left <= MaxMedia
    /\ io.mediaSize > 0 => offset + call.left <= io.mediaSize
    /\ call.start <= offset
    /\ Len(call.data) = offset - call.start + call.left

(* All segments are full but for the last, and no more is in that than     *)
(* fits; the offset is not beyond the data.                                *)
Filled ==
  /\ \A k \in 1 .. Len(segments) :
       /\ Len(disk[FileOf(k)]) <= segments[k].size
       /\ k < Len(segments) => Len(disk[FileOf(k)]) = segments[k].size
  /\ offset <= DataEnd

WriteInv ==
  /\ WriteTypes
  /\ SegmentsInRow
  /\ FilesOnDisk
  /\ NumberFixed
  /\ CallFits
  /\ Filled

(* Once the image is opened again, each segment is its file, and nothing   *)
(* is written any more.                                                    *)
ReadInv ==
  /\ call = [op |-> call.op, start |-> call.start, left |-> call.left,
             data |-> call.data]
  /\ call.op # "write"
  /\ \A k \in 1 .. Len(segments) : Len(disk[FileOf(k)]) = segments[k].size

IInv ==
  /\ session \in {"write", "read"}
  /\ session = "write" => WriteInv
  /\ session = "read" => ReadInv

-----------------------------------------------------------------------------
(* Facts about numbers.                                                    *)
LEMMA Products ==
  ASSUME NEW a \in Nat, NEW b \in Nat, NEW z \in Nat \ {0}
  PROVE  /\ a <= b => a * z <= b * z
         /\ a * z < b * z => a < b
         /\ a <= a * z
         /\ (a + 1) * z = a * z + z
         /\ a * z \in Nat
<1>1. (a + 1) * z = a * z + z
  OBVIOUS
<1>2. a <= b => a * z <= b * z
  OBVIOUS
<1>3. b <= a => b * z <= a * z
  OBVIOUS
<1>4. a <= a * z
  OBVIOUS
<1>5. a * z \in Nat /\ b * z \in Nat
  OBVIOUS
<1> QED
  BY <1>1, <1>2, <1>3, <1>4, <1>5

(* An offset lies in one of n parts of the same size, unless it is beyond. *)
LEMMA PartOfOffset ==
  ASSUME NEW o \in Nat, NEW z \in Nat \ {0}, NEW n \in Nat, o < n * z
  PROVE  \E q \in Nat : q < n /\ q * z <= o /\ o < (q + 1) * z
<1>1. o \div z \in Nat /\ o % z \in Nat
  OBVIOUS
<1>2. PICK q \in Nat, r \in Nat : q = o \div z /\ r = o % z
  BY <1>1
<1>3. o = z * q + r /\ r < z
  BY <1>2, DivMod
<1>4. (q + 1) * z = q * z + z /\ z * q = q * z /\ q * z \in Nat /\ n * z \in Nat
  BY Products
<1>5. q * z <= o /\ o < (q + 1) * z
  BY <1>2, <1>3, <1>4
<1>6. q * z < n * z
  BY <1>4, <1>5
<1>7. q < n
  BY <1>6, Products
<1> QED
  BY <1>5, <1>7

-----------------------------------------------------------------------------
(* Parts in a row: each is as large as z, but for the last, which may have *)
(* room left.                                                              *)
InRow(parts, z) ==
  \A k \in 1 .. Len(parts) :
    /\ Len(parts[k]) <= z
    /\ k < Len(parts) => Len(parts[k]) = z

RowStart(k, z) == (k - 1) * z

RowEnd(parts, z) ==
  IF Len(parts) = 0 THEN 0 ELSE RowStart(Len(parts), z) + Len(parts[Len(parts)])

(* The starts of the parts, all of them, when they are put together.        *)
AreRowStarts(starts, parts, z) ==
  /\ AreStarts(starts, SizesOf(parts))
  /\ \A k \in 1 .. Len(parts) : starts[k] = RowStart(k, z)
  /\ starts[Len(parts) + 1] = RowEnd(parts, z)

(* Each part starts where the one before it ends when that is full.        *)
LEMMA RowStartFacts ==
  ASSUME NEW z \in Nat \ {0}
  PROVE  /\ RowStart(1, z) = 0
         /\ \A k \in Nat \ {0} :
              /\ RowStart(k, z) \in Nat
              /\ RowStart(k + 1, z) = RowStart(k, z) + z
              /\ \A j \in Nat \ {0} : j < k => RowStart(j, z) + z <= RowStart(k, z)
<1>1. RowStart(1, z) = 0
  BY DEF RowStart
<1>2. ASSUME NEW k \in Nat \ {0}
      PROVE  RowStart(k, z) \in Nat /\ RowStart(k + 1, z) = RowStart(k, z) + z
  <2>1. PICK a \in Nat : k = a + 1 /\ k - 1 = a /\ (k + 1) - 1 = a + 1
    <3>1. k - 1 \in Nat
      OBVIOUS
    <3> QED
      BY <3>1
  <2>2. a * z \in Nat /\ (a + 1) * z = a * z + z
    BY Products
  <2>3. RowStart(k, z) = a * z /\ RowStart(k + 1, z) = (a + 1) * z
    BY <2>1 DEF RowStart
  <2> QED
    BY <2>2, <2>3
<1>3. ASSUME NEW k \in Nat \ {0}, NEW j \in Nat \ {0}, j < k
      PROVE  RowStart(j, z) + z <= RowStart(k, z)
  <2>1. k - 1 \in Nat /\ j <= k - 1 /\ (j + 1) - 1 = j
    BY <1>3
  <2>2. j * z <= (k - 1) * z
    BY <2>1, Products
  <2>3. RowStart(j + 1, z) = j * z /\ RowStart(k, z) = (k - 1) * z
    BY <2>1 DEF RowStart
  <2>4. RowStart(j + 1, z) <= RowStart(k, z)
    BY <2>2, <2>3
  <2> QED
    BY <1>2, <2>4
<1> QED
  BY <1>1, <1>2, <1>3

(* A row has these starts.                                                  *)
LEMMA RowStarts ==
  ASSUME NEW B, NEW parts \in Seq(Seq(B)), NEW z \in Nat \ {0}, InRow(parts, z)
  PROVE  \E starts : AreRowStarts(starts, parts, z)
<1> DEFINE n == Len(parts)
           start(k) == IF k <= n THEN RowStart(k, z) ELSE RowEnd(parts, z)
           starts == [k \in 1 .. n + 1 |-> start(k)]
<1>1. /\ n \in Nat
      /\ \A k \in 1 .. n : /\ parts[k] \in Seq(B) /\ Len(parts[k]) \in Nat
                           /\ (k < n => Len(parts[k]) = z)
  BY DEF InRow
<1>2. Len(SizesOf(parts)) = n /\ \A k \in 1 .. n : SizesOf(parts)[k] = Len(parts[k])
  BY DEF SizesOf
<1>3. RowEnd(parts, z) = IF n = 0 THEN 0 ELSE RowStart(n, z) + Len(parts[n])
  BY DEF RowEnd
<1> HIDE DEF n
<1>4. RowEnd(parts, z) \in Nat
  <2>1. CASE n # 0
    <3>1. n \in 1 .. n /\ n \in Nat \ {0}
      BY <1>1, <2>1
    <3>2. RowStart(n, z) \in Nat /\ Len(parts[n]) \in Nat
      BY <1>1, <3>1, RowStartFacts
    <3> QED
      BY <1>3, <2>1, <3>2
  <2> QED
    BY <1>3, <2>1
<1>5. \A k \in 1 .. n + 1 : start(k) \in Nat
  <2> TAKE k \in 1 .. n + 1
  <2>1. k \in Nat \ {0}
    BY <1>1
  <2>2. RowStart(k, z) \in Nat
    BY <2>1, RowStartFacts
  <2> QED
    BY <1>4, <2>2
<1>6. start(1) = 0
  BY <1>1, <1>3, RowStartFacts
<1>7. ASSUME NEW k \in 1 .. n PROVE start(k + 1) = start(k) + Len(parts[k])
  <2>1. k \in Nat \ {0} /\ k <= n
    BY <1>1
  <2>2. RowStart(k + 1, z) = RowStart(k, z) + z
    BY <2>1, RowStartFacts
  <2>3. CASE k < n
    <3>1. k + 1 <= n /\ Len(parts[k]) = z
      BY <1>1, <2>3
    <3> QED
      BY <2>1, <2>2, <3>1
  <2>4. CASE k = n
    <3>1. ~(k + 1 <= n) /\ n # 0
      BY <1>1, <2>4
    <3> QED
      BY <1>3, <2>1, <2>4, <3>1
  <2> QED
    BY <1>1, <2>3, <2>4
<1>8. starts \in [1 .. n + 1 -> Nat] /\ starts[1] = 0
  <2>1. 1 \in 1 .. n + 1
    BY <1>1
  <2> HIDE DEF start
  <2> QED
    BY <1>5, <1>6, <2>1
<1>9. \A k \in 1 .. n : starts[k + 1] = starts[k] + Len(parts[k])
  <2> TAKE k \in 1 .. n
  <2>1. k \in 1 .. n + 1 /\ k + 1 \in 1 .. n + 1
    BY <1>1
  <2> HIDE DEF start
  <2> QED
    BY <1>7, <2>1
<1>10. \A k \in 1 .. n : starts[k] = RowStart(k, z)
  BY <1>1
<1>11. starts[n + 1] = RowEnd(parts, z)
  BY <1>1
<1> HIDE DEF starts
<1>12. AreStarts(starts, SizesOf(parts))
  BY <1>2, <1>8, <1>9 DEF AreStarts
<1>13. AreRowStarts(starts, parts, z)
  BY <1>10, <1>11, <1>12 DEF AreRowStarts, n
<1> QED
  BY <1>13

(* What parts in a row make up.                                            *)
LEMMA RowParts ==
  ASSUME NEW B, NEW parts \in Seq(Seq(B)), NEW z \in Nat \ {0}, InRow(parts, z)
  PROVE  /\ FlattenSeq(parts) \in Seq(B)
         /\ Len(FlattenSeq(parts)) = RowEnd(parts, z)
         /\ \A k \in 1 .. Len(parts) : \A i \in 1 .. Len(parts[k]) :
              FlattenSeq(parts)[RowStart(k, z) + i] = parts[k][i]
<1>1. PICK starts : AreRowStarts(starts, parts, z)
  BY RowStarts
<1>2. /\ AreStarts(starts, SizesOf(parts))
      /\ \A k \in 1 .. Len(parts) : starts[k] = RowStart(k, z)
      /\ starts[Len(parts) + 1] = RowEnd(parts, z)
  BY <1>1, Zenon DEF AreRowStarts
<1> DEFINE flat == FlattenSeq(parts)
<1>3. /\ flat \in Seq(B)
      /\ Len(flat) = starts[Len(parts) + 1]
      /\ \A k \in 1 .. Len(parts) : \A i \in 1 .. Len(parts[k]) :
           flat[starts[k] + i] = parts[k][i]
  BY <1>2, FlattenParts
<1> HIDE DEF flat
<1>4. \A k \in 1 .. Len(parts) : \A i \in 1 .. Len(parts[k]) :
        flat[RowStart(k, z) + i] = parts[k][i]
  BY <1>2, <1>3
<1> QED
  BY <1>2, <1>3, <1>4 DEF flat

(* Nothing else has the same parts in the same places.                      *)
LEMMA RowUnique ==
  ASSUME NEW B, NEW parts \in Seq(Seq(B)), NEW z \in Nat \ {0}, InRow(parts, z),
         NEW other \in Seq(B), Len(other) = RowEnd(parts, z),
         \A k \in 1 .. Len(parts) : \A i \in 1 .. Len(parts[k]) :
           other[RowStart(k, z) + i] = parts[k][i]
  PROVE  FlattenSeq(parts) = other
<1>1. PICK starts : AreRowStarts(starts, parts, z)
  BY RowStarts
<1>2. /\ AreStarts(starts, SizesOf(parts))
      /\ \A k \in 1 .. Len(parts) : starts[k] = RowStart(k, z)
      /\ starts[Len(parts) + 1] = RowEnd(parts, z)
  BY <1>1, Zenon DEF AreRowStarts
<1>3. \A k \in 1 .. Len(parts) : \A i \in 1 .. Len(parts[k]) :
        other[starts[k] + i] = parts[k][i]
  BY <1>2
<1>4. Len(other) = starts[Len(parts) + 1]
  BY <1>2
<1> QED
  BY ONLY parts \in Seq(Seq(B)), other \in Seq(B), <1>2, <1>3, <1>4, FlattenUnique, SMTT(30)

(* Another, empty, part at the end of a row that is full adds nothing.     *)
LEMMA RowGrows ==
  ASSUME NEW B, NEW parts \in Seq(Seq(B)), NEW z \in Nat \ {0}, InRow(parts, z),
         RowEnd(parts, z) = RowStart(Len(parts) + 1, z),
         NEW more \in Seq(Seq(B)), Len(more) = Len(parts) + 1,
         more[Len(parts) + 1] = << >>,
         \A k \in 1 .. Len(parts) : more[k] = parts[k]
  PROVE  FlattenSeq(more) = FlattenSeq(parts)
<1> DEFINE n == Len(parts)
           other == FlattenSeq(parts)
<1>1. /\ other \in Seq(B) /\ Len(other) = RowEnd(parts, z)
      /\ \A k \in 1 .. n : \A i \in 1 .. Len(parts[k]) : other[RowStart(k, z) + i] = parts[k][i]
  BY RowParts
<1>2. n \in Nat /\ \A k \in 1 .. n : Len(parts[k]) \in Nat
  BY SMTT(30)
<1>3. \A k \in 1 .. n + 1 : k \in 1 .. n \/ k = n + 1
  BY <1>2
<1>4. \A k \in 1 .. n : Len(parts[k]) = z
  <2> TAKE k \in 1 .. n
  <2>1. CASE k < n
    BY <2>1 DEF InRow
  <2>2. CASE k = n
    <3> DEFINE last == Len(parts[n])
    <3>1. n \in Nat \ {0} /\ n \in 1 .. n
      BY <1>2, <2>2
    <3>2. RowStart(n, z) + z = RowStart(n + 1, z) /\ RowStart(n, z) \in Nat
      BY <3>1, RowStartFacts
    <3>3. RowStart(n, z) + last = RowStart(n + 1, z) /\ last \in Nat
      BY <1>2, <3>1 DEF RowEnd
    <3> HIDE DEF last, n
    <3>4. last = z
      BY <3>2, <3>3
    <3> QED
      BY <2>2, <3>4 DEF last
  <2> QED
    BY <1>2, <2>1, <2>2
<1> HIDE DEF other
<1>5. InRow(more, z)
  <2> SUFFICES ASSUME NEW k \in 1 .. n + 1
               PROVE  Len(more[k]) <= z /\ (k < n + 1 => Len(more[k]) = z)
    BY DEF InRow
  <2>1. CASE k \in 1 .. n
    <3>1. more[k] = parts[k] /\ Len(parts[k]) = z
      BY <1>4, <2>1
    <3>2. z <= z
      OBVIOUS
    <3>3. Len(more[k]) = z
      BY <3>1, Zenon
    <3> QED
      BY ONLY <3>2, <3>3, Zenon
  <2>2. CASE k = n + 1
    <3>1. Len(more[k]) = 0 /\ ~(k < n + 1)
      BY <1>2, <2>2
    <3> QED
      BY <3>1
  <2> QED
    BY <1>3, <2>1, <2>2
<1>6. RowEnd(more, z) = RowStart(n + 1, z)
  <2>1. Len(more) # 0 /\ Len(more[n + 1]) = 0 /\ RowStart(n + 1, z) \in Nat
    BY <1>2, RowStartFacts
  <2> QED
    BY <2>1 DEF RowEnd
<1>7. \A k \in 1 .. n + 1 : \A i \in 1 .. Len(more[k]) : other[RowStart(k, z) + i] = more[k][i]
  <2> TAKE k \in 1 .. n + 1
  <2>1. CASE k \in 1 .. n
    BY <1>1, <2>1
  <2>2. CASE k = n + 1
    <3>1. 1 .. Len(more[k]) = {}
      BY <2>2
    <3> QED
      BY <3>1
  <2> QED
    BY <1>3, <2>1, <2>2
<1>8. FlattenSeq(more) = other
  BY <1>1, <1>5, <1>6, <1>7, RowUnique
<1> QED
  BY <1>8 DEF other

(* No part ends behind the end of the row.                                 *)
LEMMA RowPartEnds ==
  ASSUME NEW B, NEW parts \in Seq(Seq(B)), NEW z \in Nat \ {0}, InRow(parts, z),
         NEW k \in 1 .. Len(parts)
  PROVE  /\ RowStart(k, z) \in Nat /\ Len(parts[k]) \in Nat /\ RowEnd(parts, z) \in Nat
         /\ RowStart(k, z) + Len(parts[k]) <= RowEnd(parts, z)
<1> DEFINE n == Len(parts)
           l == Len(parts[k])
           last == Len(parts[n])
<1>1. n \in Nat \ {0} /\ k \in Nat \ {0} /\ k <= n /\ l \in Nat /\ last \in Nat
  <2>1. n \in 1 .. n
    OBVIOUS
  <2> QED
    BY <2>1
<1>2. RowStart(k, z) \in Nat /\ RowStart(n, z) \in Nat
      /\ (k < n => RowStart(k, z) + z <= RowStart(n, z))
  BY <1>1, RowStartFacts
<1>3. RowEnd(parts, z) = RowStart(n, z) + last
  BY <1>1 DEF RowEnd
<1>4. l <= z
  BY DEF InRow
<1>5. k = n => l = last
  OBVIOUS
<1> HIDE DEF n, l, last
<1>6. RowEnd(parts, z) \in Nat /\ RowStart(k, z) + l <= RowEnd(parts, z)
  BY <1>1, <1>2, <1>3, <1>4, <1>5, SMTT(30)
<1> QED
  BY <1>1, <1>2, <1>6 DEF l

(* What a sequence is that was written over.                               *)
Overwritten(over, seq, at, bytes) ==
  \A i \in 1 .. Len(over) :
    over[i] = IF i \in at + 1 .. at + Len(bytes) THEN bytes[i - at] ELSE seq[i]

(* Byte by byte, what was written is what is there, or what was there.      *)
LEMMA OverwriteBytes ==
  ASSUME NEW seq \in Seq(Bytes), NEW bytes \in Seq(Bytes), NEW at \in 0 .. Len(seq)
  PROVE  Overwritten(Linear!Overwrite(seq, at, bytes), seq, at, bytes)
<1> DEFINE n == IF at + Len(bytes) > Len(seq) THEN at + Len(bytes) ELSE Len(seq)
           over == Linear!Overwrite(seq, at, bytes)
<1>1. Len(over) = n
  BY OverwriteLength
<1> HIDE DEF n
<1>2. ASSUME NEW i \in 1 .. n
      PROVE  over[i] = IF i \in at + 1 .. at + Len(bytes) THEN bytes[i - at] ELSE seq[i]
  BY DEF Linear!Overwrite, n
<1> HIDE DEF over
<1>3. Overwritten(over, seq, at, bytes)
  BY <1>1, <1>2 DEF Overwritten
<1> QED
  BY <1>3 DEF over

(* One part of a row is written over.                                      *)
OverwritesPart(after, parts, z, k, at, chunk) ==
  /\ parts \in Seq(Seq(Bytes)) /\ z \in Nat \ {0} /\ InRow(parts, z)
  /\ k \in 1 .. Len(parts) /\ at \in 0 .. Len(parts[k])
  /\ chunk \in Seq(Bytes) /\ at + Len(chunk) <= z
  /\ after \in Seq(Seq(Bytes)) /\ Len(after) = Len(parts)
  /\ after[k] = Linear!Overwrite(parts[k], at, chunk)
  /\ \A j \in 1 .. Len(parts) : j # k => after[j] = parts[j]

(* What is written over one part is written over the media, at the place   *)
(* the part starts.                                                        *)
LEMMA RowOverwrite ==
  ASSUME NEW after, NEW parts, NEW z, NEW k, NEW at, NEW chunk,
         OverwritesPart(after, parts, z, k, at, chunk)
  PROVE  FlattenSeq(after) =
           Linear!Overwrite(FlattenSeq(parts), RowStart(k, z) + at, chunk)
<1>0. /\ parts \in Seq(Seq(Bytes)) /\ z \in Nat \ {0} /\ InRow(parts, z)
      /\ k \in 1 .. Len(parts) /\ at \in 0 .. Len(parts[k])
      /\ chunk \in Seq(Bytes) /\ at + Len(chunk) <= z
      /\ after \in Seq(Seq(Bytes)) /\ Len(after) = Len(parts)
      /\ after[k] = Linear!Overwrite(parts[k], at, chunk)
      /\ \A j \in 1 .. Len(parts) : j # k => after[j] = parts[j]
  BY Zenon DEF OverwritesPart
<1> USE <1>0
<1> DEFINE n == Len(parts)
           c == Len(chunk)
           l == Len(parts[k])
           b == RowStart(k, z)
           media == FlattenSeq(parts)
           end == RowEnd(parts, z)
           other == Linear!Overwrite(media, b + at, chunk)
<1>1. /\ media \in Seq(Bytes) /\ Len(media) = end
      /\ \A j \in 1 .. n : \A i \in 1 .. Len(parts[j]) :
           media[RowStart(j, z) + i] = parts[j][i]
  BY RowParts, ZenonT(40)
<1>2. n \in Nat \ {0} /\ c \in Nat /\ parts[k] \in Seq(Bytes) /\ l \in Nat
      /\ at \in Nat /\ at <= l /\ k \in Nat \ {0} /\ k <= n
  OBVIOUS
<1>3. b \in Nat /\ end \in Nat /\ b + l <= end
  BY RowPartEnds
<1>4. l <= z /\ (k < n => l = z)
  BY DEF InRow
<1>5. after[k] \in Seq(Bytes) /\ Len(after[k]) = IF at + c > l THEN at + c ELSE l
  BY <1>2, OverwriteLength
<1> HIDE DEF c, l, b, media, end, other, n
<1>6. b + at \in 0 .. Len(media)
  BY <1>1, <1>2, <1>3
<1>7. other \in Seq(Bytes) /\ Len(other) = IF (b + at) + c > end THEN (b + at) + c ELSE end
  BY <1>1, <1>6, OverwriteLength DEF other, c
<1>8. at + c <= z
  BY DEF c
<1>9. InRow(after, z)
  <2> SUFFICES ASSUME NEW j \in 1 .. n
               PROVE  Len(after[j]) <= z /\ (j < n => Len(after[j]) = z)
    BY DEF InRow, n
  <2>1. CASE j = k
    BY <1>2, <1>4, <1>5, <1>8, <2>1, SMTT(30)
  <2>2. CASE j # k
    <3>1. after[j] = parts[j] /\ Len(parts[j]) <= z /\ (j < n => Len(parts[j]) = z)
      BY <2>2 DEF InRow, n
    <3> QED
      BY <3>1
  <2> QED
    BY <2>1, <2>2
<1>10. Len(other) = RowEnd(after, z)
  <2>1. end = RowStart(n, z) + Len(parts[n]) /\ RowEnd(after, z) = RowStart(n, z) + Len(after[n])
    BY <1>2 DEF RowEnd, end, n
  <2>2. CASE k = n
    <3>1. end = b + l
      BY <2>1, <2>2 DEF b, l
    <3>2. RowEnd(after, z) = b + Len(after[k])
      BY <2>1, <2>2 DEF b
    <3> QED
      BY <1>2, <1>3, <1>5, <1>7, <3>1, <3>2
  <2>3. CASE k # n
    <3>1. k < n /\ n \in 1 .. n
      BY <1>2, <2>3
    <3>2. after[n] = parts[n]
      BY <2>3, <3>1 DEF n
    <3>3. RowEnd(after, z) = end
      BY <2>1, <3>2
    <3>4. at + c <= l
      BY <1>4, <1>8, <3>1
    <3> QED
      BY <1>2, <1>3, <1>7, <3>3, <3>4
  <2> QED
    BY <2>2, <2>3
<1>11. ASSUME NEW j \in 1 .. n, NEW i \in 1 .. Len(after[j])
       PROVE  other[RowStart(j, z) + i] = after[j][i]
  <2> DEFINE s == RowStart(j, z)
             x == s + i
             p == b + at
             l2 == Len(after[j])
  <2>1. s \in Nat /\ l2 \in Nat /\ RowEnd(after, z) \in Nat /\ s + l2 <= RowEnd(after, z)
    BY <1>9, RowPartEnds DEF n
  <2>2. x = s + i /\ p = b + at /\ p \in 0 .. Len(media) /\ i \in 1 .. l2
    BY <1>6
  <2> HIDE DEF s, x, p, l2
  <2>3. x \in 1 .. Len(other)
    BY <1>10, <2>1, <2>2
  <2>4. other[x] = IF x \in p + 1 .. p + c THEN chunk[x - p] ELSE media[x]
    <3>1. Overwritten(other, media, p, chunk)
      BY <1>1, <2>2, OverwriteBytes DEF other, p
    <3> QED
      BY <2>3, <3>1 DEF Overwritten, c
  <2>5. CASE j = k
    <3>1. x = b + i /\ s = b
      BY <2>2, <2>5 DEF b, s
    <3>2. i \in 1 .. Len(after[k])
      BY <2>5
    <3>3. after[k][i] = IF i \in at + 1 .. at + c THEN chunk[i - at] ELSE parts[k][i]
      <4>1. Overwritten(after[k], parts[k], at, chunk)
        BY <1>2, OverwriteBytes
      <4> QED
        BY <3>2, <4>1 DEF Overwritten, c
    <3>6. /\ b \in Nat /\ at \in Nat /\ c \in Nat /\ i \in Nat
          /\ x = b + i /\ p = b + at
      BY <1>2, <1>3, <2>1, <2>2, <3>1
    <3>4. CASE i \in at + 1 .. at + c
      <4>1. x \in p + 1 .. p + c /\ x - p = i - at
        BY ONLY <3>6, <3>4
      <4> QED
        BY <2>4, <2>5, <3>3, <3>4, <4>1 DEF x, s
    <3>5. CASE i \notin at + 1 .. at + c
      <4>1. x \notin p + 1 .. p + c
        BY ONLY <3>6, <3>5
      <4>2. i \in 1 .. l
        BY <1>2, <1>5, <2>2, <3>2, <3>5, SMTT(30)
      <4>3. media[x] = parts[k][i]
        BY <1>1, <2>5, <4>2 DEF l, x, s
      <4> QED
        BY <2>4, <2>5, <3>3, <3>5, <4>1, <4>3 DEF x, s
    <3> QED
      BY <3>4, <3>5
  <2>6. CASE j # k
    <3>1. after[j] = parts[j] /\ Len(parts[j]) <= z
      BY <2>6 DEF InRow, n
    <3>2. media[x] = parts[j][i]
      BY <1>1, <3>1 DEF x, s
    <3>3. j \in Nat \ {0} /\ (j < k \/ k < j)
      BY <1>2, <2>6, SMTT(30)
    <3>4. (j < k => s + z <= b) /\ (k < j => b + z <= s)
      BY <1>2, <3>3, RowStartFacts DEF b, s
    <3>5. l2 <= z
      BY <3>1 DEF l2
    <3>6. x \notin p + 1 .. p + c
      BY <1>2, <1>3, <1>8, <2>1, <2>2, <3>3, <3>4, <3>5, SMTT(30)
    <3> QED
      BY <2>4, <3>1, <3>2, <3>6 DEF x, s
  <2> QED
    BY <2>5, <2>6
<1>12. \A j \in 1 .. Len(after) : \A i \in 1 .. Len(after[j]) :
         other[RowStart(j, z) + i] = after[j][i]
  BY <1>11 DEF n
<1>13. FlattenSeq(after) = other
  BY <1>7, <1>9, <1>10, <1>12, RowUnique
<1> QED
  BY <1>9, <1>13 DEF other, media, b

-----------------------------------------------------------------------------
(* There are no more segments than three characters number.                *)
FewSegments == MaxMedia <= IndexLimit

(* The names of a set that is numbered, or has one file.                   *)
LEMMA NamesDiffer ==
  ASSUME NEW n, NEW m, NEW i, NEW j,
         n \in Nat, n <= IndexLimit, m \in Nat, m > 0 => n <= m,
         i \in Nat, j \in Nat, i < n, j < n, i # j
  PROVE  SegmentSuffix(m, i) # SegmentSuffix(m, j)
<1>1. i < IndexLimit /\ j < IndexLimit
  BY IndexLimitType
<1>2. m \in Nat \ {1}
  OBVIOUS
<1> QED
  BY ONLY <1>1, <1>2, i \in Nat, j \in Nat, i # j, SuffixesDiffer

(* No segment is made with room for nothing.                               *)
LEMMA SegmentSizeType ==
  ASSUME WriteTypes
  PROVE  SegmentSize \in Nat \ {0} /\ SegmentSize \in 0 .. Unlimited
<1>1. MaxMedia \in Nat /\ io.maxSegSize \in 0 .. MaxMedia
  BY Bounds DEF WriteTypes, Sizes
<1> QED
  BY <1>1 DEF SegmentSize, Unlimited

(* No two segments share a file.                                           *)
LEMMA FilesDiffer ==
  ASSUME FewSegments, WriteInv,
         NEW j \in 1 .. Len(segments), NEW k \in 1 .. Len(segments), j # k
  PROVE  FileOf(j) # FileOf(k)
<1> DEFINE n == Len(segments)
           m == io.numSegs
<1>1. m \in Nat /\ n \in Nat
  BY DEF WriteInv, WriteTypes
<1>2. n <= MaxMedia /\ (m > 0 => n <= m)
  BY DEF WriteInv, NumberFixed
<1>3. PICK a \in Nat, b \in Nat : a = j - 1 /\ b = k - 1
  BY <1>1
<1>4. FileOf(j) = SegmentSuffix(m, a) /\ FileOf(k) = SegmentSuffix(m, b)
  BY <1>3 DEF WriteInv, SegmentsInRow
<1>5. a < n /\ b < n /\ a # b
  BY <1>1, <1>3
<1> HIDE DEF n, m
<1>6. n <= IndexLimit
  BY ONLY FewSegments, Bounds, IndexLimitType, <1>1, <1>2 DEF FewSegments
<1>7. SegmentSuffix(m, a) # SegmentSuffix(m, b)
  BY ONLY <1>1, <1>2, <1>5, <1>6, a \in Nat, b \in Nat, NamesDiffer
<1> QED
  BY <1>4, <1>7

(* Where the segments of the row start and end.                            *)
LEMMA SegmentBounds ==
  ASSUME WriteInv, NEW k \in 1 .. Len(segments)
  PROVE  SegmentStart(k) = (k - 1) * SegmentSize /\ SegmentEnd(k) = k * SegmentSize
<1> DEFINE z == SegmentSize
<1>1. z \in Nat \ {0} /\ Len(segments) \in Nat
  BY SegmentSizeType, SMTT(30) DEF WriteInv, WriteTypes
<1>2. segments[k].start = (k - 1) * z /\ segments[k].size = z
  BY DEF WriteInv, SegmentsInRow
<1>3. k - 1 \in Nat /\ (k - 1) + 1 = k
  BY <1>1
<1> HIDE DEF z
<1>4. ((k - 1) + 1) * z = (k - 1) * z + z
  BY <1>1, <1>3, Products
<1> QED
  BY <1>2, <1>3, <1>4 DEF SegmentStart, SegmentEnd, z

(* Segments and the offsets that fall into them.                           *)
LEMMA SegmentOfOffset ==
  ASSUME WriteInv, NEW o \in Nat
  PROVE  /\ o < Len(segments) * SegmentSize =>
              /\ SegmentAt(o) \in 1 .. Len(segments)
              /\ SegmentStart(SegmentAt(o)) <= o /\ o < SegmentEnd(SegmentAt(o))
         /\ o >= Len(segments) * SegmentSize => SegmentAt(o) = Len(segments) + 1
<1> DEFINE z == SegmentSize
           n == Len(segments)
           In(k) == SegmentStart(k) <= o /\ o < SegmentEnd(k)
<1>1. z \in Nat \ {0} /\ n \in Nat
  BY SegmentSizeType DEF WriteInv, WriteTypes
<1>2. \A k \in 1 .. n : SegmentStart(k) = (k - 1) * z /\ SegmentEnd(k) = k * z
  BY SegmentBounds
<1>3. CASE o < n * z
  <2>1. PICK q \in Nat : q < n /\ q * z <= o /\ o < (q + 1) * z
    <3> HIDE DEF z, n
    <3> QED BY <1>1, <1>3, PartOfOffset
  <2>5. q + 1 \in 1 .. n /\ (q + 1) - 1 = q
    <3> HIDE DEF z, n
    <3> QED BY <1>1, <2>1
  <2>6. In(q + 1)
    BY <1>2, <2>1, <2>5
  <2>7. SegmentAt(o) = CHOOSE k \in 1 .. n : In(k)
    BY <2>5, <2>6 DEF SegmentAt
  <2>8. SegmentAt(o) \in 1 .. n /\ In(SegmentAt(o))
    <3> HIDE DEF In, n
    <3> QED BY <2>5, <2>6, <2>7
  <2> QED
    BY <1>1, <1>3, <2>8
<1>4. CASE o >= n * z
  <2>1. ASSUME NEW k \in 1 .. n PROVE ~(o < SegmentEnd(k))
    <3>1. SegmentEnd(k) = k * z
      BY <1>2, <2>1
    <3> HIDE DEF z, n
    <3>2. k \in Nat /\ k <= n /\ k * z \in Nat /\ n * z \in Nat
      BY <1>1, <2>1
    <3>3. k * z <= n * z
      BY <1>1, <3>2, Products
    <3> QED
      BY <1>4, <3>1, <3>2, <3>3
  <2>2. SegmentAt(o) = n + 1
    BY <2>1 DEF SegmentAt
  <2> HIDE DEF z, n
  <2>3. n * z \in Nat
    BY <1>1
  <2> QED
    BY <1>4, <2>2, <2>3 DEF z, n
<1> QED
  <2>1. n * z \in Nat
    BY <1>1
  <2> HIDE DEF z, n
  <2>2. o < n * z \/ o >= n * z
    BY <2>1
  <2> QED
    BY <2>2, <1>3, <1>4 DEF z, n

-----------------------------------------------------------------------------
(* The settings, the seek and the calls that only begin or end.            *)
LEMMA InitIInv == Init => IInv
<1> SUFFICES ASSUME Init PROVE IInv
  OBVIOUS
<1> USE DEF Init
<1>1. MaxMedia \in Nat /\ MaxCall \in Nat
  BY Bounds
<1>2. 0 \in Sizes /\ Len(segments) = 0 /\ 1 .. Len(segments) = {}
  BY <1>1 DEF Sizes
<1>3. WriteTypes
  <2>1. io \in [mediaSize : Sizes, maxSegSize : Sizes, numSegs : Nat]
    BY <1>2
  <2>2. disk = [f \in DOMAIN disk |-> disk[f]] /\ DOMAIN disk = {}
    OBVIOUS
  <2>3. call \in [op : {"none", "write"}, start : Nat, left : 0 .. MaxCall,
                  data : Seq(Bytes)]
    BY <1>1 DEF Idle
  <2> QED
    BY <1>2, <2>1, <2>2, <2>3 DEF WriteTypes
<1>4. SegmentsInRow /\ FilesOnDisk
  BY <1>2 DEF SegmentsInRow, FilesOnDisk
<1>5. NumberFixed /\ CallFits /\ Filled
  BY <1>1, <1>2 DEF NumberFixed, CallFits, Filled, Idle, DataEnd
<1> QED
  BY <1>3, <1>4, <1>5 DEF IInv, WriteInv

(* Before there are segments, the settings may change.                     *)
LEMMA SettingsStep ==
  ASSUME WriteInv, io' \in [mediaSize : Sizes, maxSegSize : Sizes, numSegs : Nat],
         ~writeInit, call.op = "none",
         UNCHANGED <<writeInit, segments, offset, pool, disk, call>>
  PROVE  WriteInv'
<1>1. segments = << >> /\ segments' = << >> /\ Len(segments) = 0 /\ Len(segments') = 0
  BY DEF WriteInv, NumberFixed
<1>2. 1 .. Len(segments) = {} /\ 1 .. Len(segments') = {}
  BY <1>1
<1>3. WriteTypes'
  BY DEF WriteInv, WriteTypes
<1>4. SegmentsInRow' /\ FilesOnDisk'
  BY <1>2 DEF WriteInv, SegmentsInRow, FilesOnDisk
<1>5. NumberFixed' /\ CallFits'
  <2>1. 0 <= MaxMedia /\ io'.numSegs \in Nat
    BY Bounds
  <2>2. ~writeInit' /\ call'.op = "none"
    OBVIOUS
  <2> QED
    BY <1>1, <2>1, <2>2 DEF NumberFixed, CallFits
<1>6. Filled'
  BY <1>1, <1>2 DEF WriteInv, Filled, DataEnd
<1> QED
  BY <1>3, <1>4, <1>5, <1>6 DEF WriteInv

(* A call that ends leaves everything in place, also when a file that      *)
(* cannot be opened stays in the pool.                                     *)
LEMMA CallEnds ==
  ASSUME WriteInv, pool' \in Seq(FileNames), Len(pool') >= Len(pool),
         \A i \in 1 .. Len(pool) : pool'[i] = pool[i],
         call' = Idle, UNCHANGED <<io, writeInit, segments, offset, disk>>
  PROVE  WriteInv'
<1>1. \A k \in 1 .. Len(segments) : FileOf(k)' = FileOf(k)
  BY DEF WriteInv, WriteTypes, FileOf
<1>2. WriteTypes'
  <2>1. Idle \in [op : {"none", "write"}, start : Nat, left : 0 .. MaxCall,
                  data : Seq(Bytes)]
    BY Bounds DEF Idle
  <2>2. \A k \in 1 .. Len(segments) : segments[k].file \in 1 .. Len(pool')
    <3> TAKE k \in 1 .. Len(segments)
    <3>1. segments[k].file \in 1 .. Len(pool) /\ Len(pool) \in Nat /\ Len(pool') \in Nat
      BY SMTT(30) DEF WriteInv, WriteTypes
    <3> QED
      BY <3>1
  <2> QED
    BY <2>1, <2>2 DEF WriteInv, WriteTypes
<1>3. SegmentsInRow' /\ FilesOnDisk'
  BY <1>1 DEF WriteInv, SegmentsInRow, FilesOnDisk, SegmentSize
<1>4. NumberFixed' /\ CallFits'
  BY DEF WriteInv, NumberFixed, CallFits, Idle
<1>5. DataEnd' = DataEnd
  <2>1. segments # << >> => Len(segments) \in 1 .. Len(segments)
    BY EmptySeq DEF WriteInv, WriteTypes
  <2> QED
    BY <1>1, <2>1 DEF DataEnd, SegmentStart
<1>6. Filled'
  BY <1>1, <1>5 DEF WriteInv, Filled
<1> QED
  BY <1>2, <1>3, <1>4, <1>5, <1>6 DEF WriteInv

(* A seek stays within the data.                                           *)
LEMMA SeekOffsetStep ==
  ASSUME WriteInv, NEW o \in Sizes, SeekOffset(o)
  PROVE  WriteInv'
<1> USE DEF SeekOffset
<1>1. \A k \in 1 .. Len(segments) : FileOf(k)' = FileOf(k)
  BY DEF FileOf
<1>2. DataEnd' = DataEnd
  BY DEF DataEnd, SegmentStart, FileOf
<1>3. WriteTypes'
  <2>1. offset' \in Nat
    BY Bounds DEF Sizes
  <2> QED
    BY <2>1 DEF WriteInv, WriteTypes
<1>4. SegmentsInRow' /\ FilesOnDisk' /\ NumberFixed'
  BY <1>1 DEF WriteInv, SegmentsInRow, FilesOnDisk, SegmentSize, NumberFixed
<1>5. CallFits'
  BY DEF CallFits
<1>6. Filled'
  BY <1>1, <1>2 DEF WriteInv, Filled
<1> QED
  BY <1>3, <1>4, <1>5, <1>6 DEF WriteInv

(* What a write is cut off to fits the media.                              *)
LEMMA RoomFits ==
  ASSUME io.mediaSize \in Nat, offset \in Nat, NEW n \in Nat
  PROVE  /\ WriteRoom(n) \in 0 .. n
         /\ WriteRoom(n) > 0 /\ io.mediaSize > 0 => offset + WriteRoom(n) <= io.mediaSize
BY DEF WriteRoom

(* The first write fixes the number of segments, before there is one.      *)
LEMMA BeginWriteStep ==
  ASSUME WriteInv, NEW bytes \in Chunks, BeginWrite(bytes)
  PROVE  WriteInv'
<1> DEFINE room == WriteRoom(Len(bytes))
<1>1. bytes \in Seq(Bytes) /\ Len(bytes) \in 0 .. MaxCall
  <2>1. PICK n \in 1 .. MaxCall : bytes \in [1 .. n -> Bytes]
    BY DEF Chunks
  <2> QED
    BY <2>1, Bounds
<1>2. io.mediaSize \in Nat /\ io.maxSegSize \in Nat /\ offset \in Nat
  BY Bounds DEF WriteInv, WriteTypes, Sizes
<1>3. /\ room \in 0 .. Len(bytes)
      /\ room > 0 /\ io.mediaSize > 0 => offset + room <= io.mediaSize
  BY <1>1, <1>2, RoomFits
<1>4. /\ offset + Len(bytes) <= MaxMedia
      /\ writeInit' = TRUE
      /\ io' = IF writeInit THEN io
               ELSE [io EXCEPT !.numSegs = NumberOfSegments(io.mediaSize, io.maxSegSize)]
      /\ call' = IF room = 0 THEN call
                 ELSE [op |-> "write", start |-> offset, left |-> room,
                       data |-> SubSeq(bytes, 1, room)]
      /\ call.op = "none"
      /\ UNCHANGED <<segments, offset, pool, disk>>
  BY DEF BeginWrite
<1>5. SubSeq(bytes, 1, room) \in Seq(Bytes) /\ Len(SubSeq(bytes, 1, room)) = room
  <2>1. \A i \in 1 .. room : bytes[i] \in Bytes
    <3> TAKE i \in 1 .. room
    <3>1. i \in 1 .. Len(bytes)
      BY <1>1, <1>3
    <3> QED
      BY <1>1, <3>1, ElementOfSeq
  <2> HIDE DEF room
  <2>2. 1 \in Int /\ room \in Int
    BY <1>1, <1>3
  <2>3. /\ SubSeq(bytes, 1, room) \in Seq(Bytes)
        /\ Len(SubSeq(bytes, 1, room)) = IF 1 <= room THEN room - 1 + 1 ELSE 0
    BY <2>1, <2>2, SubSeqProperties
  <2> QED
    BY <1>1, <1>3, <2>3
<1> HIDE DEF room
<1>6. io' = io \/ (segments = << >> /\ Len(segments) = 0)
  BY <1>4 DEF WriteInv, NumberFixed
<1>7. /\ io'.mediaSize = io.mediaSize /\ io'.maxSegSize = io.maxSegSize
      /\ io'.numSegs = NumberOfSegments(io.mediaSize, io.maxSegSize)
      /\ io' \in [mediaSize : Sizes, maxSegSize : Sizes, numSegs : Nat]
  BY <1>2, <1>4, NumberOfSegmentsType DEF WriteInv, WriteTypes, NumberFixed
<1>8. WriteTypes'
  <2>1. call' \in [op : {"none", "write"}, start : Nat, left : 0 .. MaxCall,
                   data : Seq(Bytes)]
    <3>1. room \in 0 .. MaxCall
      BY <1>1, <1>3, Bounds
    <3> QED
      BY <1>2, <1>4, <1>5, <3>1 DEF WriteInv, WriteTypes
  <2> QED
    BY <1>4, <1>7, <2>1 DEF WriteInv, WriteTypes
<1>9. SegmentsInRow' /\ FilesOnDisk'
  <2>1. CASE io' = io
    <3>1. SegmentSize' = SegmentSize /\ \A k \in 1 .. Len(segments) : FileOf(k)' = FileOf(k)
      BY <1>4, <2>1 DEF SegmentSize, FileOf
    <3>2. segments' = segments /\ disk' = disk /\ io' = io
      BY <1>4, <2>1
    <3> HIDE <1>4, <2>1
    <3>3. SegmentsInRow'
      BY <3>1, <3>2 DEF WriteInv, SegmentsInRow
    <3>4. FilesOnDisk'
      BY <3>2 DEF WriteInv, FilesOnDisk
    <3> QED
      BY <3>3, <3>4
  <2>2. CASE Len(segments) = 0
    <3>1. 1 .. Len(segments) = {} /\ 1 .. Len(segments') = {}
      BY <1>4, <2>2
    <3> QED
      BY <1>4, <3>1 DEF WriteInv, SegmentsInRow, FilesOnDisk
  <2> QED
    BY <1>6, <2>1, <2>2
<1>10. NumberFixed'
  <2>1. Len(segments) <= MaxMedia /\ (io'.numSegs > 0 => Len(segments) <= io'.numSegs)
    BY <1>6, <1>7, Bounds DEF WriteInv, NumberFixed
  <2> QED
    BY <1>4, <1>7, <2>1 DEF NumberFixed
<1>11. CallFits'
  <2>1. CASE room = 0
    BY <1>4, <2>1 DEF CallFits
  <2>2. CASE room # 0
    <3>1. room > 0 /\ offset + room <= MaxMedia
      BY <1>1, <1>2, <1>3, <1>4, <2>2, Bounds
    <3>2. /\ call'.left = room /\ call'.start = offset
          /\ Len(call'.data) = room
      BY <1>4, <1>5, <2>2
    <3>3. room = offset - offset + room
      BY <1>1, <1>2, <1>3
    <3> QED
      BY <1>2, <1>3, <1>4, <1>7, <3>1, <3>2, <3>3 DEF CallFits
  <2> QED
    BY <2>1, <2>2
<1>12. Filled'
  BY <1>4 DEF WriteInv, Filled, DataEnd, FileOf, SegmentStart
<1> QED
  BY <1>8, <1>9, <1>10, <1>11, <1>12 DEF WriteInv

(* A segment that is not created leaves at most an entry in the pool.      *)
LEMMA CreateSegmentFailsStep ==
  ASSUME WriteInv, CreateSegmentFails
  PROVE  WriteInv'
<1>1. /\ call' = Idle /\ UNCHANGED <<io, writeInit, segments, offset, disk>>
      /\ pool' = pool \/ pool' = Append(pool, NameOfNext)
  BY DEF CreateSegmentFails
<1>2. pool \in Seq(FileNames) /\ NameOfNext \in FileNames
  <2>1. io.numSegs \in Nat /\ Len(segments) \in Nat
    BY DEF WriteInv, WriteTypes
  <2> QED
    BY <2>1, SuffixType DEF WriteInv, WriteTypes, NameOfNext
<1>3. CASE pool' = pool
  <2>1. Len(pool) \in Nat
    BY <1>2
  <2> QED
    BY <1>1, <1>2, <1>3, <2>1, CallEnds
<1>4. CASE pool' = Append(pool, NameOfNext)
  <2>1. /\ pool' \in Seq(FileNames) /\ Len(pool') >= Len(pool)
        /\ \A i \in 1 .. Len(pool) : pool'[i] = pool[i]
    BY <1>2, <1>4, AppendProperties
  <2> QED
    BY <1>1, <2>1, CallEnds
<1> QED
  BY <1>1, <1>3, <1>4

(* A write that fails ends the call.                                       *)
LEMMA WriteSegmentDataFailsStep ==
  ASSUME WriteInv, WriteSegmentDataFails
  PROVE  WriteInv'
<1>1. /\ pool' = pool /\ pool \in Seq(FileNames)
      /\ call' = Idle /\ UNCHANGED <<io, writeInit, segments, offset, disk>>
  BY DEF WriteSegmentDataFails, WriteInv, WriteTypes
<1>2. Len(pool) \in Nat
  BY <1>1
<1> QED
  BY <1>1, <1>2, CallEnds

(* Where the data and the segments end.                                    *)
LEMMA Ends ==
  ASSUME WriteInv
  PROVE  /\ NextStart = Len(segments) * SegmentSize
         /\ Len(segments) = 0 => DataEnd = 0
         /\ Len(segments) # 0 =>
              DataEnd = (Len(segments) - 1) * SegmentSize + Len(disk[FileOf(Len(segments))])
<1>1. Len(segments) \in Nat /\ SegmentSize \in Nat
      /\ (segments = << >> <=> Len(segments) = 0)
  BY SegmentSizeType, EmptySeq DEF WriteInv, WriteTypes
<1>2. CASE Len(segments) = 0
  BY <1>1, <1>2 DEF NextStart, DataEnd
<1>3. CASE Len(segments) # 0
  <2>1. Len(segments) \in 1 .. Len(segments)
    BY <1>1, <1>3
  <2> QED
    BY <1>1, <1>3, <2>1, SegmentBounds DEF NextStart, DataEnd
<1> QED
  BY <1>2, <1>3

(* The file of a segment is on the disk, with no more than fits.           *)
LEMMA FileOfSegment ==
  ASSUME WriteInv, NEW k \in 1 .. Len(segments)
  PROVE  /\ FileOf(k) \in DOMAIN disk /\ disk[FileOf(k)] \in Seq(Bytes)
         /\ Len(disk[FileOf(k)]) \in Nat
         /\ Len(disk[FileOf(k)]) <= SegmentSize
         /\ k < Len(segments) => Len(disk[FileOf(k)]) = SegmentSize
<1>1. FileOf(k) \in DOMAIN disk
  BY DEF WriteInv, SegmentsInRow, FilesOnDisk
<1>2. disk[FileOf(k)] \in Seq(Bytes)
  BY <1>1 DEF WriteInv, WriteTypes
<1>3. segments[k].size = SegmentSize
  BY DEF WriteInv, SegmentsInRow
<1> QED
  BY <1>1, <1>2, <1>3 DEF WriteInv, Filled

(* A segment is created when those before it are full, and never one more  *)
(* than was announced.                                                     *)
LEMMA RoomForSegment ==
  ASSUME WriteInv, call.op = "write", SegmentAt(offset) = Len(segments) + 1
  PROVE  /\ offset = Len(segments) * SegmentSize
         /\ DataEnd = Len(segments) * SegmentSize
         /\ Len(segments) + 1 <= MaxMedia
         /\ io.numSegs > 0 => Len(segments) + 1 <= io.numSegs
<1> DEFINE n == Len(segments)
           z == SegmentSize
           m == io.mediaSize
           s == io.maxSegSize
           full == Len(disk[FileOf(n)])
<1>1. n \in Nat /\ z \in Nat \ {0} /\ offset \in Nat /\ io.numSegs \in Nat
      /\ m \in Nat /\ s \in Nat /\ MaxMedia \in Nat /\ call.left \in Nat
  BY SegmentSizeType, Bounds DEF WriteInv, WriteTypes, Sizes
<1>2. n * z \in Nat /\ n <= n * z
  <2> HIDE DEF n, z
  <2> QED BY <1>1, Products
<1>3. offset >= n * z
  <2>1. offset < n * z => SegmentAt(offset) \in 1 .. n
    BY <1>1, SegmentOfOffset
  <2> HIDE DEF z
  <2> QED
    BY <1>1, <1>2, <2>1
<1>4. DataEnd <= n * z /\ DataEnd \in Nat
  <2>1. CASE n = 0
    BY <1>1, <1>2, <2>1, Ends
  <2>2. CASE n # 0
    <3>1. DataEnd = (n - 1) * z + full
      BY <2>2, Ends
    <3>2. full \in Nat /\ full <= z
      <4>1. n \in 1 .. n
        BY <1>1, <2>2
      <4> QED
        BY <4>1, FileOfSegment
    <3>3. n - 1 \in Nat /\ (n - 1) + 1 = n
      BY <1>1, <2>2
    <3> HIDE DEF n, z, full
    <3>4. n * z = (n - 1) * z + z /\ (n - 1) * z \in Nat
      BY <1>1, <3>3, Products
    <3> QED
      BY <1>1, <3>1, <3>2, <3>4
  <2> QED
    BY <2>1, <2>2
<1>5. offset <= DataEnd
  BY DEF WriteInv, Filled
<1>6. offset = n * z /\ DataEnd = n * z
  <2> HIDE DEF n, z
  <2> QED BY <1>1, <1>2, <1>3, <1>4, <1>5
<1>7. /\ offset < MaxMedia
      /\ m > 0 => offset < m
  <2>1. /\ call.left > 0 /\ offset + call.left <= MaxMedia
        /\ m > 0 => offset + call.left <= m
    BY DEF WriteInv, CallFits
  <2> QED
    BY <1>1, <2>1
<1>8. n + 1 <= MaxMedia
  <2> HIDE DEF n, z
  <2> QED BY <1>1, <1>2, <1>6, <1>7
<1>9. io.numSegs > 0 => n + 1 <= io.numSegs
  <2>1. io.numSegs = NumberOfSegments(m, s)
    BY DEF WriteInv, NumberFixed
  <2>2. CASE s = 0
    <3>1. io.numSegs = 1 /\ z = MaxMedia + 1
      BY <2>1, <2>2 DEF NumberOfSegments, SegmentSize, Unlimited
    <3>2. n * z < 1 * z
      BY <1>1, <1>6, <1>7, <3>1
    <3> HIDE DEF n, z
    <3>3. n < 1
      BY <1>1, <3>2, Products
    <3> QED
      BY <1>1, <3>1, <3>3
  <2>3. CASE s # 0 /\ m = 0
    BY <2>1, <2>3 DEF NumberOfSegments
  <2>4. CASE s # 0 /\ m # 0
    <3>1. z = s
      BY <2>4 DEF SegmentSize
    <3>2. m <= s * io.numSegs
      BY <1>1, <2>1, <2>4, SegmentsHoldTheMedia
    <3>3. offset < m
      BY <1>1, <1>7, <2>4
    <3> HIDE DEF n, z, m, s
    <3>4. s * io.numSegs = io.numSegs * z /\ io.numSegs * z \in Nat
      BY <1>1, <3>1
    <3>5. n * z < io.numSegs * z
      BY <1>1, <1>2, <1>6, <3>2, <3>3, <3>4
    <3>6. n < io.numSegs
      BY <1>1, <3>5, Products
    <3> QED
      BY <1>1, <3>6
  <2> QED
    BY <2>2, <2>3, <2>4
<1> QED
  BY <1>6, <1>8, <1>9

(* The name of the segment to be created is that of no other.              *)
LEMMA NameIsNew ==
  ASSUME FewSegments, WriteInv, call.op = "write", SegmentAt(offset) = Len(segments) + 1,
         NEW k \in 1 .. Len(segments)
  PROVE  FileOf(k) # NameOfNext
<1>1. PICK n \in Nat, a \in Nat, count \in Nat :
        n = Len(segments) /\ a = k - 1 /\ count = n + 1
  <2>1. Len(segments) \in Nat
    BY DEF WriteInv, WriteTypes
  <2> QED
    BY <2>1
<1>2. io.numSegs \in Nat
  BY DEF WriteInv, WriteTypes
<1>3. FileOf(k) = SegmentSuffix(io.numSegs, a) /\ NameOfNext = SegmentSuffix(io.numSegs, n)
  BY <1>1 DEF WriteInv, SegmentsInRow, NameOfNext
<1>4. count <= MaxMedia /\ (io.numSegs > 0 => count <= io.numSegs)
  BY <1>1, RoomForSegment
<1>5. count <= IndexLimit
  BY ONLY FewSegments, Bounds, IndexLimitType, count \in Nat, <1>4 DEF FewSegments
<1>6. a < count /\ n < count /\ a # n
  BY <1>1
<1>7. SegmentSuffix(io.numSegs, a) # SegmentSuffix(io.numSegs, n)
  BY ONLY <1>2, <1>4, <1>5, <1>6, a \in Nat, n \in Nat, count \in Nat, NamesDiffer
<1> QED
  BY <1>3, <1>7

(* A new segment has a file of its own, and starts where the last one ends.*)
LEMMA CreateSegmentStep ==
  ASSUME FewSegments, WriteInv, CreateSegment,
         NEW n \in Nat, n = Len(segments)
  PROVE  WriteInv'
<1> DEFINE name == NameOfNext
<1>1. /\ call.op = "write" /\ SegmentAt(offset) = n + 1
      /\ pool' = Append(pool, name)
      /\ disk' = [f \in DOMAIN disk \cup {name} |-> IF f = name THEN << >> ELSE disk[f]]
      /\ segments' = Append(segments, NewSegment)
      /\ UNCHANGED <<session, io, writeInit, offset, call>>
  BY DEF CreateSegment, WritingTo
<1>2. /\ offset = n * SegmentSize /\ DataEnd = n * SegmentSize
      /\ n + 1 <= MaxMedia /\ (io.numSegs > 0 => n + 1 <= io.numSegs)
      /\ NextStart = n * SegmentSize
  BY <1>1, RoomForSegment, Ends
<1>3. /\ n \in Nat /\ Len(pool) \in Nat /\ io.numSegs \in Nat /\ offset \in Nat
      /\ SegmentSize \in 0 .. Unlimited
  BY SegmentSizeType DEF WriteInv, WriteTypes
<1>4. name = SegmentSuffix(io.numSegs, n) /\ name \in FileNames
  BY <1>3, SuffixType DEF NameOfNext
<1>5. /\ pool' \in Seq(FileNames) /\ Len(pool') = Len(pool) + 1
      /\ \A i \in 1 .. Len(pool) : pool'[i] = pool[i]
      /\ pool'[Len(pool) + 1] = name
  BY <1>1, <1>4, AppendProperties DEF WriteInv, WriteTypes
<1>6. NewSegment = [file |-> Len(pool) + 1, start |-> n * SegmentSize, size |-> SegmentSize]
  BY <1>2 DEF NewSegment, SegmentSize
<1>7. NewSegment \in [file : Nat \ {0}, start : Nat, size : 0 .. Unlimited]
  <2>1. Len(pool) + 1 \in Nat \ {0} /\ n * SegmentSize \in Nat
    BY <1>2, <1>3
  <2> QED
    BY <1>3, <1>6, <2>1
<1>8. /\ segments' \in Seq([file : Nat \ {0}, start : Nat, size : 0 .. Unlimited])
      /\ Len(segments') = n + 1
      /\ \A k \in 1 .. n : segments'[k] = segments[k]
      /\ segments'[n + 1] = NewSegment
  BY <1>1, <1>7, AppendProperties DEF WriteInv, WriteTypes
<1>9. \A k \in 1 .. n : segments[k].file \in 1 .. Len(pool)
  BY DEF WriteInv, WriteTypes
<1>10. \A k \in 1 .. n : FileOf(k)' = FileOf(k)
  BY <1>5, <1>8, <1>9 DEF FileOf
<1>11. FileOf(n + 1)' = name
  <2>1. segments'[n + 1].file = Len(pool) + 1
    BY <1>6, <1>8
  <2> HIDE DEF name
  <2> QED
    BY <1>5, <2>1 DEF FileOf
<1>12. \A k \in 1 .. n + 1 : k \in 1 .. n \/ k = n + 1
  BY <1>3
<1>13. \A k \in 1 .. n : FileOf(k) # name
  BY <1>1, NameIsNew
<1>14. WriteTypes'
  <2>1. \A k \in 1 .. Len(segments') : segments'[k].file \in 1 .. Len(pool')
    <3> TAKE k \in 1 .. Len(segments')
    <3>1. CASE k \in 1 .. n
      <4>1. segments'[k].file \in 1 .. Len(pool)
        BY <1>8, <1>9, <3>1
      <4> QED
        BY <1>3, <1>5, <4>1
    <3>2. CASE k = n + 1
      <4>1. segments'[k].file = Len(pool) + 1
        BY <1>6, <1>8, <3>2
      <4> QED
        BY <1>3, <1>5, <4>1
    <3> QED
      BY <1>8, <1>12, <3>1, <3>2
  <2>2. disk' = [f \in DOMAIN disk' |-> disk'[f]] /\ \A f \in DOMAIN disk' : disk'[f] \in Seq(Bytes)
    BY <1>1 DEF WriteInv, WriteTypes
  <2> QED
    BY <1>1, <1>5, <1>8, <2>1, <2>2 DEF WriteInv, WriteTypes
<1>15. SegmentsInRow'
  <2>1. SegmentSize' = SegmentSize /\ io' = io
    BY <1>1 DEF SegmentSize
  <2>2. ASSUME NEW k \in 1 .. n
        PROVE  /\ segments'[k].size = SegmentSize
               /\ segments'[k].start = (k - 1) * SegmentSize
               /\ FileOf(k)' = SegmentSuffix(io.numSegs, k - 1)
    <3>1. /\ segments[k].size = SegmentSize
          /\ segments[k].start = (k - 1) * SegmentSize
          /\ FileOf(k) = SegmentSuffix(io.numSegs, k - 1)
      BY DEF WriteInv, SegmentsInRow
    <3>2. segments'[k] = segments[k] /\ FileOf(k)' = FileOf(k)
      BY <1>8, <1>10
    <3> QED
      BY <3>1, <3>2
  <2>3. /\ segments'[n + 1].size = SegmentSize
        /\ segments'[n + 1].start = ((n + 1) - 1) * SegmentSize
        /\ FileOf(n + 1)' = SegmentSuffix(io.numSegs, (n + 1) - 1)
    <3>1. (n + 1) - 1 = n
      BY <1>3
    <3> QED
      BY <1>4, <1>6, <1>8, <1>11, <3>1
  <2> DEFINE Row(k) == /\ segments'[k].size = SegmentSize
                       /\ segments'[k].start = (k - 1) * SegmentSize
                       /\ FileOf(k)' = SegmentSuffix(io.numSegs, k - 1)
  <2>4. \A k \in 1 .. n + 1 : Row(k)
    <3>1. (\A k \in 1 .. n : Row(k)) /\ Row(n + 1)
      BY <2>2, <2>3
    <3> HIDE DEF Row
    <3> QED
      BY <1>12, <3>1
  <2>5. \A k \in 1 .. Len(segments') : Row(k)
    BY <1>8, <2>4
  <2> QED
    BY <2>1, <2>5 DEF SegmentsInRow
<1>16. FilesOnDisk'
  <2>1. DOMAIN disk' = {SegmentSuffix(io.numSegs, k - 1) : k \in 1 .. n} \cup {name}
    BY <1>1 DEF WriteInv, FilesOnDisk
  <2>2. name = SegmentSuffix(io.numSegs, (n + 1) - 1)
    <3>1. (n + 1) - 1 = n
      BY <1>3
    <3> QED
      BY <1>4, <3>1
  <2>3. 1 .. n + 1 = 1 .. n \cup {n + 1}
    BY <1>3
  <2>4. Len(segments') = n + 1 /\ io' = io
    BY <1>1, <1>8
  <2> DEFINE Nth(k) == SegmentSuffix(io.numSegs, k - 1)
  <2>5. DOMAIN disk' = {Nth(k) : k \in 1 .. n} \cup {Nth(n + 1)}
    BY <2>1, <2>2
  <2>6. FilesOnDisk' = (DOMAIN disk' = {Nth(k) : k \in 1 .. n + 1})
    BY <2>4 DEF FilesOnDisk
  <2> HIDE DEF name, Nth
  <2> QED
    BY ONLY <2>3, <2>5, <2>6
<1>17. NumberFixed'
  <2>1. writeInit
    BY <1>1 DEF WriteInv, NumberFixed
  <2> QED
    BY <1>1, <1>2, <1>8, <2>1 DEF WriteInv, NumberFixed
<1>18. CallFits'
  BY <1>1 DEF WriteInv, CallFits
<1>19. Filled'
  <2>1. ASSUME NEW k \in 1 .. n
        PROVE  Len(disk'[FileOf(k)']) = SegmentSize /\ segments'[k].size = SegmentSize
    <3>1. disk'[FileOf(k)'] = disk[FileOf(k)]
      BY <1>1, <1>10, <1>13, FileOfSegment
    <3>2. Len(disk[FileOf(k)]) = SegmentSize
      <4>1. CASE k < n
        BY <4>1, FileOfSegment
      <4>2. CASE k = n
        <5>1. n # 0
          BY <1>3, <4>2
        <5>2. DataEnd = (n - 1) * SegmentSize + Len(disk[FileOf(n)])
          BY <5>1, Ends
        <5>3. Len(disk[FileOf(n)]) \in Nat
          <6>1. n \in 1 .. n
            BY <4>2
          <6> QED
            BY <6>1, FileOfSegment
        <5>4. n - 1 \in Nat /\ (n - 1) + 1 = n /\ SegmentSize \in Nat \ {0}
          BY <1>3, <5>1, SegmentSizeType DEF WriteInv
        <5>5. n * SegmentSize = (n - 1) * SegmentSize + SegmentSize
              /\ (n - 1) * SegmentSize \in Nat
          BY <5>4, Products
        <5>6. DataEnd = n * SegmentSize
          BY <1>2
        <5>7. Len(disk[FileOf(n)]) = SegmentSize
          <6> DEFINE full == Len(disk[FileOf(n)])
          <6> HIDE DEF full
          <6>1. full \in Nat /\ DataEnd = (n - 1) * SegmentSize + full
            BY <5>2, <5>3 DEF full
          <6>2. full = SegmentSize
            BY <5>4, <5>5, <5>6, <6>1
          <6> QED
            BY <6>2 DEF full
        <5> QED
          BY <4>2, <5>7
      <4> QED
        BY <1>3, <4>1, <4>2
    <3>3. segments'[k].size = SegmentSize
      <4>1. segments[k].size = SegmentSize
        BY DEF WriteInv, SegmentsInRow
      <4> QED
        BY <1>8, <4>1
    <3> QED
      BY <3>1, <3>2, <3>3
  <2>2. disk'[FileOf(n + 1)'] = << >> /\ segments'[n + 1].size \in Nat
    BY <1>1, <1>3, <1>6, <1>8, <1>11
  <2>3. DataEnd' = n * SegmentSize
    <3>1. segments' # << >>
      BY <1>3, <1>8
    <3>2. SegmentStart(n + 1)' = n * SegmentSize
      <4>1. segments'[n + 1].start = n * SegmentSize
        BY <1>6, <1>8
      <4> QED
        BY <4>1 DEF SegmentStart
    <3>3. n * SegmentSize \in Nat
      BY <1>2, <1>3
    <3>4. Len(disk'[FileOf(n + 1)']) = 0
      BY <2>2
    <3>5. DataEnd' = SegmentStart(n + 1)' + Len(disk'[FileOf(n + 1)'])
      BY <1>8, <3>1 DEF DataEnd
    <3> QED
      BY <3>2, <3>3, <3>4, <3>5
  <2>4. ASSUME NEW k \in 1 .. n + 1
        PROVE  /\ Len(disk'[FileOf(k)']) <= segments'[k].size
               /\ k < n + 1 => Len(disk'[FileOf(k)']) = segments'[k].size
    <3>1. CASE k \in 1 .. n
      BY <1>3, <2>1, <3>1
    <3>2. CASE k = n + 1
      <4>1. Len(disk'[FileOf(k)']) = 0 /\ segments'[k].size \in Nat /\ ~(k < n + 1)
        BY <1>3, <2>2, <3>2
      <4> QED
        BY <4>1
    <3> QED
      BY <1>12, <3>1, <3>2
  <2>5. offset' <= DataEnd'
    BY <1>1, <1>2, <1>3, <2>3
  <2> HIDE DEF name
  <2> QED
    BY <1>8, <2>4, <2>5 DEF Filled
<1> QED
  BY <1>14, <1>15, <1>16, <1>17, <1>18, <1>19 DEF WriteInv

(* An offset lies in the segment the stream takes for it.                  *)
LEMMA OffsetInSegment ==
  ASSUME WriteInv, NEW k \in 1 .. Len(segments), k = SegmentAt(offset)
  PROVE  SegmentStart(k) <= offset /\ offset < SegmentEnd(k)
<1>1. SegmentSize \in Nat \ {0}
  BY SegmentSizeType DEF WriteInv
<1>2. offset \in Nat /\ Len(segments) \in Nat
  BY DEF WriteInv, WriteTypes
<1>3. PICK all \in Nat : all = Len(segments) * SegmentSize
  BY <1>1, <1>2
<1>4. offset < all => SegmentStart(k) <= offset /\ offset < SegmentEnd(k)
  BY <1>2, <1>3, SegmentOfOffset
<1>5. offset >= all => k = Len(segments) + 1
  BY <1>2, <1>3, SegmentOfOffset
<1>6. k # Len(segments) + 1
  BY <1>2
<1>7. offset < all \/ offset >= all
  BY <1>2, <1>3
<1> QED
  BY <1>4, <1>5, <1>6, <1>7

(* What is written to a segment ends where the segment does, and leaves no *)
(* gap between the data and its start.                                     *)
LEMMA WriteFitsSegment ==
  ASSUME WriteInv, NEW k \in 1 .. Len(segments), k = SegmentAt(offset),
         call.op = "write",
         NEW c \in Nat, c > 0, c <= Smaller(call.left, segments[k].size - SegmentOffset(k))
  PROVE  /\ SegmentOffset(k) \in 0 .. Len(disk[FileOf(k)])
         /\ SegmentOffset(k) + c <= SegmentSize
         /\ offset = (k - 1) * SegmentSize + SegmentOffset(k)
         /\ c <= call.left
<1> DEFINE at == SegmentOffset(k)
           full == Len(disk[FileOf(k)])
<1>1. /\ SegmentSize \in Nat \ {0} /\ offset \in Nat /\ call.left \in Nat
      /\ Len(segments) \in Nat
  <2>1. SegmentSize \in Nat \ {0}
    BY SegmentSizeType DEF WriteInv
  <2>2. offset \in Nat /\ Len(segments) \in Nat /\ call.left \in 0 .. MaxCall
    BY DEF WriteInv, WriteTypes
  <2> QED
    BY <2>1, <2>2, Bounds
<1>2. k - 1 \in Nat /\ (k - 1) + 1 = k /\ k \in Nat
  BY <1>1
<1>3. PICK z \in Nat \ {0}, b \in Nat : z = SegmentSize /\ b = (k - 1) * SegmentSize
  BY <1>1, <1>2, Products
<1>4. SegmentStart(k) = b /\ SegmentEnd(k) = b + z
  <2>1. ((k - 1) + 1) * z = (k - 1) * z + z
    BY <1>2, <1>3, Products
  <2> QED
    BY <1>2, <1>3, <2>1, SegmentBounds
<1>5. b <= offset /\ offset < b + z
  BY <1>4, OffsetInSegment
<1>6. at = offset - b /\ segments[k].size = z
  BY <1>3, <1>4 DEF SegmentOffset, WriteInv, SegmentsInRow
<1>7. at \in 0 .. z - 1 /\ offset = b + at
  <2> HIDE DEF at
  <2> QED BY <1>1, <1>5, <1>6
<1>8. c <= call.left /\ c <= z - at
  <2>1. c <= Smaller(call.left, z - at)
    BY <1>6
  <2> HIDE DEF at
  <2> QED BY <1>1, <1>7, <2>1 DEF Smaller
<1>9. full \in Nat /\ at <= full
  <2>1. full \in Nat /\ (k < Len(segments) => full = z)
    BY <1>3, FileOfSegment
  <2>2. CASE k < Len(segments)
    <3>1. full = z
      BY <2>1, <2>2
    <3> HIDE DEF at, full
    <3> QED BY <1>7, <2>1, <3>1
  <2>3. CASE k = Len(segments)
    <3>1. DataEnd = b + full
      <4>1. Len(segments) = k /\ Len(segments) # 0
        BY <1>2, <2>3
      <4> QED
        BY <1>3, <4>1, Ends
    <3>2. offset <= DataEnd
      BY DEF WriteInv, Filled
    <3> HIDE DEF at, full
    <3> QED BY <1>7, <2>1, <3>1, <3>2
  <2> QED
    BY <1>1, <2>2, <2>3
<1> HIDE DEF at, full
<1>10. at \in 0 .. full /\ at + c <= z
  BY <1>3, <1>7, <1>8, <1>9
<1> QED
  BY <1>3, <1>7, <1>8, <1>10 DEF at, full

(* What a step that writes to a segment does: the next bytes of the call,  *)
(* c of them, go to the file of segment k, where the offset falls into it. *)
ChunkOf(c) == SubSeq(call.data, offset - call.start + 1, offset - call.start + c)

WritesChunk(k, c) ==
  /\ call.op = "write" /\ k = SegmentAt(offset)
  /\ c > 0 /\ c <= call.left
  /\ SegmentOffset(k) \in 0 .. Len(disk[FileOf(k)])
  /\ SegmentOffset(k) + c <= SegmentSize
  /\ offset = (k - 1) * SegmentSize + SegmentOffset(k)
  /\ ChunkOf(c) \in Seq(Bytes) /\ Len(ChunkOf(c)) = c
  /\ disk' = [disk EXCEPT ![FileOf(k)] = Linear!Overwrite(@, SegmentOffset(k), ChunkOf(c))]
  /\ offset' = offset + c
  /\ call' = AfterChunk(c, Smaller(call.left, segments[k].size - SegmentOffset(k)))
  /\ UNCHANGED <<session, io, writeInit, segments, pool>>

(* Every step that writes to a segment does that.                          *)
LEMMA ChunkWritten ==
  ASSUME WriteInv, WriteSegmentData
  PROVE  \E k \in 1 .. Len(segments), c \in Nat : WritesChunk(k, c)
<1>1. PICK k \in 1 .. Len(segments) :
        /\ WritingTo(k)
        /\ \E c \in IF "short write" \in Faults
                    THEN 1 .. Smaller(call.left, segments[k].size - SegmentOffset(k))
                    ELSE {Smaller(call.left, segments[k].size - SegmentOffset(k))} :
             /\ disk' = [disk EXCEPT ![FileOf(k)] =
                           Linear!Overwrite(@, SegmentOffset(k),
                             SubSeq(call.data, offset - call.start + 1,
                                    offset - call.start + c))]
             /\ offset' = offset + c
             /\ call' = AfterChunk(c, Smaller(call.left, segments[k].size - SegmentOffset(k)))
        /\ UNCHANGED <<session, io, writeInit, segments, pool>>
  BY DEF WriteSegmentData
<1>2. call.op = "write" /\ k = SegmentAt(offset)
  BY <1>1 DEF WritingTo
<1> DEFINE fits == Smaller(call.left, segments[k].size - SegmentOffset(k))
<1>3. fits \in Nat /\ fits > 0
  <2>1. call.left \in 0 .. MaxCall /\ call.left > 0 /\ offset \in Nat
    BY <1>2 DEF WriteInv, WriteTypes, CallFits
  <2>2. SegmentSize \in Nat \ {0}
    BY SegmentSizeType DEF WriteInv
  <2>3. segments[k].size = SegmentSize /\ SegmentStart(k) \in Nat
    <3>1. segments[k] \in [file : Nat \ {0}, start : Nat, size : 0 .. Unlimited]
      BY ElementOfSeq DEF WriteInv, WriteTypes
    <3> QED
      BY <3>1 DEF WriteInv, SegmentsInRow, SegmentStart
  <2>4. PICK b \in Nat, z \in Nat : b = SegmentStart(k) /\ z = segments[k].size
    BY <2>2, <2>3
  <2>5. b <= offset /\ offset < b + z
    BY <1>2, <2>4, OffsetInSegment DEF SegmentEnd, SegmentStart
  <2>6. fits = Smaller(call.left, z - (offset - b))
    BY <2>4 DEF SegmentOffset
  <2>7. z - (offset - b) \in Nat /\ z - (offset - b) > 0
    BY <2>1, <2>4, <2>5
  <2> HIDE DEF fits
  <2> QED
    BY <2>1, <2>6, <2>7, Bounds DEF Smaller
<1>4. PICK c \in Nat :
        /\ c > 0 /\ c <= fits
        /\ disk' = [disk EXCEPT ![FileOf(k)] =
                      Linear!Overwrite(@, SegmentOffset(k),
                        SubSeq(call.data, offset - call.start + 1,
                               offset - call.start + c))]
        /\ offset' = offset + c
        /\ call' = AfterChunk(c, fits)
  <2> HIDE DEF fits
  <2>1. \A c \in IF "short write" \in Faults THEN 1 .. fits ELSE {fits} :
          c \in Nat /\ c > 0 /\ c <= fits
    <3>1. (\A c \in 1 .. fits : c \in Nat /\ c > 0 /\ c <= fits)
          /\ (\A c \in {fits} : c \in Nat /\ c > 0 /\ c <= fits)
      BY <1>3
    <3> QED
      BY <3>1
  <2> QED
    BY <1>1, <2>1 DEF fits
<1>5. UNCHANGED <<session, io, writeInit, segments, pool>>
  BY <1>1
<1>count. c > 0 /\ offset' = offset + c
  BY <1>4
<1> DEFINE z == SegmentSize
           at == SegmentOffset(k)
           old == disk[FileOf(k)]
<1>6. /\ at \in 0 .. Len(old) /\ at + c <= z
      /\ offset = (k - 1) * z + at /\ c <= call.left
  BY <1>2, <1>4, WriteFitsSegment
<1>left. c <= call.left
  BY <1>6
<1>7. /\ z \in Nat \ {0} /\ offset \in Nat /\ call.left \in Nat /\ call.start \in Nat
      /\ call.data \in Seq(Bytes) /\ call.left <= MaxCall
      /\ call.start <= offset /\ Len(call.data) = offset - call.start + call.left
      /\ MaxMedia \in Nat /\ MaxCall \in Nat
  <2>1. /\ offset \in Nat /\ call.left \in 0 .. MaxCall /\ call.start \in Nat
        /\ call.data \in Seq(Bytes)
    BY DEF WriteInv, WriteTypes
  <2>2. call.start <= offset /\ Len(call.data) = offset - call.start + call.left
    BY <1>2 DEF WriteInv, CallFits
  <2>3. z \in Nat \ {0}
    BY SegmentSizeType DEF WriteInv
  <2> QED
    BY <2>1, <2>2, <2>3, Bounds
<1>numbers. /\ offset \in Nat /\ call.left \in Nat /\ call.start \in Nat
            /\ call.start <= offset /\ call.left <= MaxCall
            /\ MaxMedia \in Nat /\ MaxCall \in Nat
  BY <1>7
<1>8. ChunkOf(c) \in Seq(Bytes) /\ Len(ChunkOf(c)) = c
  <2> DEFINE a == offset - call.start
  <2>1. a \in Nat /\ Len(call.data) = a + call.left /\ Len(call.data) \in Nat
        /\ a + c <= Len(call.data)
    <3>1. a \in Nat /\ a + c <= a + call.left
      BY <1>left, <1>numbers
    <3> HIDE DEF a
    <3>2. Len(call.data) = a + call.left
      BY <1>7 DEF a
    <3> QED
      BY <1>numbers, <3>1, <3>2
  <2>2. \A i \in a + 1 .. a + c : call.data[i] \in Bytes
    <3> TAKE i \in a + 1 .. a + c
    <3>1. i \in 1 .. Len(call.data)
      <4> HIDE DEF a
      <4> QED
        BY <2>1
    <3> QED
      BY <1>7, <3>1, ElementOfSeq
  <2> HIDE DEF a
  <2>3. a + 1 \in Int /\ a + c \in Int /\ a + 1 <= a + c /\ (a + c) - (a + 1) + 1 = c
    BY <1>count, <2>1
  <2>4. /\ SubSeq(call.data, a + 1, a + c) \in Seq(Bytes)
        /\ Len(SubSeq(call.data, a + 1, a + c)) = c
    BY <2>2, <2>3, SubSeqProperties
  <2> QED
    BY <2>4 DEF a, ChunkOf
<1>9. WritesChunk(k, c)
  BY <1>2, <1>4, <1>5, <1>6, <1>8 DEF WritesChunk, ChunkOf
<1> QED
  BY <1>9

(* Data that is written fills the segment it is written to, or is the last.*)
LEMMA WriteSegmentDataStep ==
  ASSUME FewSegments, WriteInv, WriteSegmentData,
         NEW n \in Nat, n = Len(segments)
  PROVE  WriteInv'
<1>1. PICK k \in 1 .. Len(segments), c \in Nat : WritesChunk(k, c)
  BY ChunkWritten
<1> DEFINE fits == Smaller(call.left, segments[k].size - SegmentOffset(k))
           z == SegmentSize
           at == SegmentOffset(k)
           old == disk[FileOf(k)]
           new == disk'[FileOf(k)]
           chunk == ChunkOf(c)
<1>2. call.op = "write" /\ k = SegmentAt(offset)
  BY <1>1 DEF WritesChunk
<1>4. /\ c > 0
      /\ disk' = [disk EXCEPT ![FileOf(k)] = Linear!Overwrite(@, at, chunk)]
      /\ offset' = offset + c
      /\ call' = AfterChunk(c, fits)
  BY <1>1 DEF WritesChunk
<1>5. UNCHANGED <<session, io, writeInit, segments, pool>>
  BY <1>1 DEF WritesChunk
<1>count. c > 0 /\ offset' = offset + c
  BY <1>4
<1>6. /\ at \in 0 .. Len(old) /\ at + c <= z
      /\ offset = (k - 1) * z + at /\ c <= call.left
  BY <1>1 DEF WritesChunk
<1>left. c <= call.left
  BY <1>6
<1>7. /\ z \in Nat \ {0} /\ offset \in Nat /\ call.left \in Nat /\ call.start \in Nat
      /\ call.data \in Seq(Bytes) /\ call.left <= MaxCall
      /\ call.start <= offset /\ Len(call.data) = offset - call.start + call.left
      /\ MaxMedia \in Nat /\ MaxCall \in Nat
  <2>1. /\ offset \in Nat /\ call.left \in 0 .. MaxCall /\ call.start \in Nat
        /\ call.data \in Seq(Bytes)
    BY DEF WriteInv, WriteTypes
  <2>2. call.start <= offset /\ Len(call.data) = offset - call.start + call.left
    BY <1>2 DEF WriteInv, CallFits
  <2>3. z \in Nat \ {0}
    BY SegmentSizeType DEF WriteInv
  <2> QED
    BY <2>1, <2>2, <2>3, Bounds
<1>size. z \in Nat \ {0}
  BY <1>7
<1>numbers. /\ offset \in Nat /\ call.left \in Nat /\ call.start \in Nat
            /\ call.start <= offset /\ call.left <= MaxCall
            /\ MaxMedia \in Nat /\ MaxCall \in Nat
  BY <1>7
<1>8. FileOf(k) \in DOMAIN disk /\ old \in Seq(Bytes) /\ Len(old) \in Nat /\ Len(old) <= z
  BY FileOfSegment
<1>9. chunk \in Seq(Bytes) /\ Len(chunk) = c
  BY <1>1 DEF WritesChunk
<1>10. /\ new = Linear!Overwrite(old, at, chunk)
       /\ DOMAIN disk' = DOMAIN disk
       /\ disk' = [f \in DOMAIN disk' |-> disk'[f]]
       /\ \A f \in DOMAIN disk : f # FileOf(k) => disk'[f] = disk[f]
  <2>1. disk = [f \in DOMAIN disk |-> disk[f]]
    BY DEF WriteInv, WriteTypes
  <2> QED
    BY <1>4, <1>8, <2>1
<1> HIDE DEF chunk, at, old, new, z
<1>11. /\ new \in Seq(Bytes)
       /\ Len(new) = IF at + c > Len(old) THEN at + c ELSE Len(old)
  BY <1>6, <1>8, <1>9, <1>10, OverwriteLength
<1>12. \A j \in 1 .. n : FileOf(j)' = FileOf(j)
  BY <1>5 DEF FileOf
<1>13. \A j \in 1 .. n : j # k => disk'[FileOf(j)] = disk[FileOf(j)]
  BY <1>10, FileOfSegment, FilesDiffer
<1>14. WriteTypes'
  <2>1. \A f \in DOMAIN disk' : disk'[f] \in Seq(Bytes)
    BY <1>8, <1>10, <1>11 DEF WriteInv, WriteTypes, new
  <2>2. call' \in [op : {"none", "write"}, start : Nat, left : 0 .. MaxCall, data : Seq(Bytes)]
    <3>1. call \in [op : {"none", "write"}, start : Nat, left : 0 .. MaxCall, data : Seq(Bytes)]
      BY DEF WriteInv, WriteTypes
    <3>2. Idle \in [op : {"none", "write"}, start : Nat, left : 0 .. MaxCall, data : Seq(Bytes)]
      BY <1>7 DEF Idle
    <3>3. call' = Idle \/ call' = [call EXCEPT !.left = call.left - c]
      BY <1>4 DEF AfterChunk
    <3>4. call.left - c \in 0 .. MaxCall
      BY <1>4, <1>6, <1>7, SMTT(30)
    <3> QED
      BY <3>1, <3>2, <3>3, <3>4, SMTT(30)
  <2>3. offset' \in Nat
    BY <1>4, <1>7
  <2> QED
    BY <1>5, <1>10, <2>1, <2>2, <2>3 DEF WriteInv, WriteTypes
<1>15. SegmentsInRow' /\ FilesOnDisk'
  <2>1. SegmentSize' = SegmentSize
    BY <1>5 DEF SegmentSize
  <2> QED
    BY <1>5, <1>10, <1>12, <2>1 DEF WriteInv, SegmentsInRow, FilesOnDisk
<1>16. NumberFixed'
  <2>1. writeInit
    BY <1>2 DEF WriteInv, NumberFixed
  <2> QED
    BY <1>5, <2>1 DEF WriteInv, NumberFixed
<1>17. CallFits'
  <2>1. CASE call' = Idle
    BY <2>1 DEF CallFits, Idle
  <2>2. CASE call' # Idle
    <3>1. call' = [call EXCEPT !.left = call.left - c] /\ c # call.left
      BY <1>4, <2>2 DEF AfterChunk
    <3>2. call'.left = call.left - c /\ call'.start = call.start /\ call'.data = call.data
      BY <3>1 DEF WriteInv, WriteTypes
    <3>3. call.left - c > 0 /\ (offset + c) + (call.left - c) = offset + call.left
          /\ call.start <= offset + c
          /\ offset - call.start + call.left = (offset + c) - call.start + (call.left - c)
      <4> DEFINE l == call.left
                 b == call.start
      <4>1. l \in Nat /\ b \in Nat /\ b <= offset /\ c <= l /\ c # l /\ offset \in Nat
        BY <1>left, <1>numbers, <3>1
      <4> HIDE DEF l, b
      <4>2. l - c > 0 /\ (offset + c) + (l - c) = offset + l /\ b <= offset + c
            /\ offset - b + l = (offset + c) - b + (l - c)
        BY <1>count, <4>1
      <4> QED
        BY <4>2 DEF l, b
    <3>4. /\ offset + call.left <= MaxMedia
          /\ io.mediaSize > 0 => offset + call.left <= io.mediaSize
      BY <1>2 DEF WriteInv, CallFits
    <3>5. Len(call.data) = offset - call.start + call.left
      BY <1>7
    <3> QED
      BY <1>5, <1>count, <3>2, <3>3, <3>4, <3>5 DEF CallFits
  <2> QED
    BY <2>1, <2>2
<1>18. Filled'
  <2>1. \A j \in 1 .. n : segments[j].size = z
    BY DEF WriteInv, SegmentsInRow, z
  <2>2. Len(new) \in Nat /\ Len(old) <= Len(new) /\ at + c <= Len(new) /\ Len(new) <= z
    BY <1>4, <1>6, <1>8, <1>11
  <2>3. ASSUME NEW j \in 1 .. n
        PROVE  /\ Len(disk'[FileOf(j)]) <= z
               /\ j < n => Len(disk'[FileOf(j)]) = z
    <3>1. CASE j = k
      <4>1. j < n => Len(old) = z
        BY <3>1, FileOfSegment DEF old, z
      <4> QED
        BY <1>7, <1>8, <2>2, <3>1, <4>1 DEF new
    <3>2. CASE j # k
      BY <1>13, <3>2, FileOfSegment DEF z
    <3> QED
      BY <3>1, <3>2
  <2>4. offset' <= DataEnd'
    <3>1. n # 0 /\ n \in 1 .. n /\ k \in 1 .. n /\ segments # << >>
      BY EmptySeq DEF WriteInv, WriteTypes
    <3>2. k \in Nat /\ k - 1 \in Nat /\ n - 1 \in Nat /\ (k - 1) + 1 = k
      BY <3>1
    <3>3. PICK b \in Nat, l \in Nat, d \in Nat :
            b = (k - 1) * z /\ l = (n - 1) * z /\ d = Len(disk'[FileOf(n)])
      <4>1. Len(disk'[FileOf(n)]) \in Nat
        BY <1>13, <2>2, <3>1, FileOfSegment DEF new
      <4> QED
        BY <1>7, <3>2, <4>1, Products
    <3>4. DataEnd' = l + d
      <4>1. SegmentStart(n) = l
        BY <3>1, <3>3, SegmentBounds DEF z
      <4>2. DataEnd' = SegmentStart(n) + Len(disk'[FileOf(n)])
        BY <1>5, <1>12, <3>1 DEF DataEnd, SegmentStart
      <4> QED
        BY <3>3, <4>1, <4>2
    <3>5. offset = b + at /\ at \in Nat
      BY <1>6, <1>8, <3>3
    <3>6. CASE k = n
      <4>1. d = Len(new) /\ l = b
        BY <3>3, <3>6 DEF new
      <4> QED
        BY <1>count, <2>2, <3>4, <3>5, <4>1
    <3>7. CASE k # n
      <4>1. k <= n - 1
        BY <3>1, <3>7
      <4>2. k * z <= l /\ k * z = b + z
        BY <1>size, <3>2, <3>3, <4>1, Products
      <4>3. at + c <= z /\ z \in Nat
        BY <1>6, <1>7
      <4> QED
        BY <1>count, <3>4, <3>5, <4>2, <4>3
    <3> QED
      BY <3>6, <3>7
  <2> QED
    BY <1>5, <1>12, <2>1, <2>3, <2>4 DEF Filled
<1> QED
  BY <1>14, <1>15, <1>16, <1>17, <1>18 DEF WriteInv

-----------------------------------------------------------------------------
(* The files of a session are found again in their order, and no other.    *)
LEMMA FoundInRow ==
  ASSUME FewSegments, WriteInv, NEW n \in Nat, n = Len(segments)
  PROVE  Found = [k \in 1 .. n |-> FileOf(k)]
<1> DEFINE Numbered == {q \in 1 .. MaxMedia :
                          \A i \in 0 .. q - 1 : SegmentSuffix(0, i) \in DOMAIN disk}
<1>0. \A k \in 1 .. n : FileOf(k) = SegmentSuffix(io.numSegs, k - 1)
  BY DEF WriteInv, SegmentsInRow
<1>1. CASE SegmentSuffix(1, 0) \in DOMAIN disk
  <2>1. PICK k \in 1 .. n : SegmentSuffix(1, 0) = SegmentSuffix(io.numSegs, k - 1)
    BY <1>1 DEF WriteInv, FilesOnDisk
  <2>2. io.numSegs = 1
    <3>1. SegmentSuffix(1, 0) = << >>
      BY DEF SegmentSuffix
    <3>2. io.numSegs # 1 => SegmentSuffix(io.numSegs, k - 1) # << >>
      BY DEF SegmentSuffix
    <3> QED
      BY <2>1, <3>1, <3>2
  <2>3. n = 1
    <3>1. n <= 1
      BY <2>2 DEF WriteInv, NumberFixed
    <3> QED
      BY <3>1
  <2>4. FileOf(1) = SegmentSuffix(1, 0)
    <3>1. 1 \in 1 .. n /\ 1 - 1 = 0
      BY <2>3
    <3>2. FileOf(1) = SegmentSuffix(io.numSegs, 1 - 1)
      BY <1>0, <3>1
    <3> QED
      BY <2>2, <3>1, <3>2
  <2>5. Found = << FileOf(1) >>
    BY <1>1, <2>4 DEF Found
  <2> QED
    BY <2>3, <2>5
<1>2. CASE SegmentSuffix(1, 0) \notin DOMAIN disk
  <2>1. DOMAIN Found = Numbered
    BY <1>2 DEF Found
  <2>2. DOMAIN disk = {SegmentSuffix(io.numSegs, k - 1) : k \in 1 .. n}
    BY DEF WriteInv, FilesOnDisk
  <2>3. n <= MaxMedia
    BY DEF WriteInv, NumberFixed
  <2>4. ASSUME NEW k \in 1 .. n PROVE io.numSegs # 1
    <3>1. CASE io.numSegs = 1
      <4>1. k = 1
        BY <3>1, <2>4 DEF WriteInv, NumberFixed
      <4>2. SegmentSuffix(1, 0) \in DOMAIN disk
        <5>1. k - 1 = 0
          BY <4>1
        <5> QED
          BY <2>2, <3>1, <5>1
      <4> QED
        BY <1>2, <4>2
    <3> QED
      BY <3>1
  <2>5. ASSUME NEW i, io.numSegs # 1
        PROVE  SegmentSuffix(io.numSegs, i) = SegmentSuffix(0, i)
    BY <2>5 DEF SegmentSuffix
  <2>6. ASSUME NEW q \in 1 .. n PROVE q \in Numbered
    <3>1. ASSUME NEW i \in 0 .. q - 1 PROVE SegmentSuffix(0, i) \in DOMAIN disk
      <4>1. i + 1 \in 1 .. n /\ (i + 1) - 1 = i
        BY <2>6, <3>1
      <4>2. SegmentSuffix(io.numSegs, (i + 1) - 1) \in DOMAIN disk
        BY <2>2, <4>1
      <4> QED
        BY <2>4, <2>5, <4>1, <4>2
    <3>2. q \in 1 .. MaxMedia
      BY <2>3, <2>6, Bounds
    <3> QED
      BY <3>1, <3>2
  <2>7. ASSUME NEW q \in Numbered PROVE q \in 1 .. n
    <3>1. q \in 1 .. MaxMedia
      OBVIOUS
    <3>2. CASE q > n
      <4>1. q \in Nat /\ n <= q - 1 /\ n < IndexLimit
        <5> HIDE DEF Numbered
        <5>1. PICK x \in Nat : x = q /\ x <= MaxMedia
          BY <3>1
        <5>2. n <= x - 1 /\ n < IndexLimit
          BY ONLY FewSegments, Bounds, IndexLimitType, n \in Nat, x \in Nat, <3>2, <5>1
             DEF FewSegments
        <5> QED
          BY <5>1, <5>2
      <4>2. SegmentSuffix(0, n) \in DOMAIN disk
        <5>1. n \in 0 .. q - 1
          BY <4>1
        <5> QED
          BY <5>1
      <4>3. PICK k \in 1 .. n : SegmentSuffix(0, n) = SegmentSuffix(io.numSegs, k - 1)
        BY <2>2, <4>2
      <4>4. SegmentSuffix(0, n) = SegmentSuffix(0, k - 1)
        BY <2>4, <2>5, <4>3
      <4>5. PICK a \in Nat : a = k - 1
        OBVIOUS
      <4>6. a < n
        BY <4>5
      <4>7. PICK m \in Nat, up \in Nat : m = 0 /\ up = n + 1
        OBVIOUS
      <4>8. SegmentSuffix(m, n) = SegmentSuffix(m, a)
        BY <4>4, <4>5, <4>7
      <4>9. up <= IndexLimit /\ (m > 0 => up <= m)
        BY ONLY n \in Nat, m \in Nat, up \in Nat, IndexLimitType, <4>1, <4>7
      <4>10. n < up /\ a < up /\ n # a
        BY ONLY n \in Nat, a \in Nat, up \in Nat, <4>6, <4>7
      <4> QED
        BY ONLY n \in Nat, a \in Nat, m \in Nat, up \in Nat, <4>8, <4>9, <4>10, NamesDiffer
    <3> QED
      BY <3>1, <3>2
  <2>8. Numbered = 1 .. n
    BY <2>6, <2>7
  <2>9. \A k \in 1 .. n : SegmentSuffix(0, k - 1) = FileOf(k)
    BY <1>0, <2>4, <2>5
  <2>10. Found = [k \in Numbered |-> SegmentSuffix(0, k - 1)]
    BY <1>2 DEF Found
  <2> HIDE DEF Numbered
  <2> QED
    BY <2>8, <2>9, <2>10
<1> QED
  BY <1>1, <1>2

(* The segments of an image that is opened again are as large as their     *)
(* files.                                                                  *)
LEMMA ReopenStep ==
  ASSUME FewSegments, WriteInv, Reopen
  PROVE  ReadInv'
<1>1. Len(segments) \in Nat
  BY DEF WriteInv, WriteTypes
<1>2. PICK m \in Nat : DOMAIN Found = 1 .. m
  <2>1. PICK m \in Nat : m = Len(segments)
    BY <1>1
  <2>2. Found = [k \in 1 .. m |-> FileOf(k)]
    BY <2>1, FoundInRow
  <2> QED
    BY <2>2
<1> DEFINE sizes == [k \in DOMAIN Found |-> Len(disk[Found[k]])]
           start(k) == FoldLeft(+, 0, SubSeq(sizes, 1, k - 1))
<1>3. /\ pool' = Found
      /\ segments' = [k \in DOMAIN Found |->
                        [file |-> k, start |-> start(k), size |-> sizes[k]]]
      /\ call.op = "none" /\ UNCHANGED <<disk, call>>
  BY DEF Reopen
<1>4. \A k \in 1 .. m : sizes[k] = Len(disk[Found[k]])
  BY <1>2
<1> HIDE DEF sizes, start
<1>5. \A k \in 1 .. m : segments'[k].file = k /\ segments'[k].size = sizes[k]
  BY <1>2, <1>3
<1>6. Len(segments') = m
  BY <1>2, <1>3
<1>7. \A k \in 1 .. m : FileOf(k)' = Found[k]
  BY <1>3, <1>5 DEF FileOf
<1>8. call' = [op |-> call'.op, start |-> call'.start, left |-> call'.left,
               data |-> call'.data]
  BY <1>3 DEF WriteInv, WriteTypes
<1>9. call'.op # "write"
  BY <1>3
<1>10. \A k \in 1 .. m : Len(disk'[FileOf(k)']) = segments'[k].size
  BY <1>3, <1>4, <1>5, <1>7
<1> QED
  BY <1>6, <1>8, <1>9, <1>10 DEF ReadInv

(* What is read does not change the segments, nor what is in their files.  *)
LEMMA ReadStep ==
  ASSUME ReadInv, session = "read", [Next]_vars
  PROVE  session' = "read" /\ ReadInv'
<1> DEFINE Kept == session' = session /\ UNCHANGED <<segments, pool, disk>>
           Call(op) == call' = [op |-> op, start |-> call'.start, left |-> call'.left,
                                data |-> call'.data]
<1>1. CASE \E size \in Sizes : SetMaximumSegmentSize(size) \/ SetMediaSize(size)
  BY <1>1 DEF SetMaximumSegmentSize, SetMediaSize, ReadInv, FileOf
<1>2. CASE \E o \in Sizes : SeekOffset(o)
  BY <1>2 DEF SeekOffset, ReadInv, FileOf
<1>3. CASE \/ \E bytes \in Chunks : BeginWrite(bytes)
           \/ Reopen
           \/ CreateSegment \/ CreateSegmentFails
           \/ WriteSegmentData \/ WriteSegmentDataFails
  BY <1>3 DEF BeginWrite, Reopen, CreateSegment, CreateSegmentFails, WriteSegmentData,
              WriteSegmentDataFails, WritingTo, ReadInv
<1>4. CASE \E n \in 1 .. MaxCall : BeginRead(n)
  <2>1. Kept /\ Call("read")
    BY <1>4 DEF BeginRead
  <2> QED
    BY <2>1 DEF ReadInv, FileOf
<1>5. CASE ReadSegmentData
  <2>1. Kept
    BY <1>5 DEF ReadSegmentData
  <2>2. PICK l, d : call' = [call EXCEPT !.left = l, !.data = d]
    BY <1>5 DEF ReadSegmentData
  <2>3. call = [op |-> call.op, start |-> call.start, left |-> call.left, data |-> call.data]
    BY DEF ReadInv
  <2>4. Call(call.op)
    BY <2>2, <2>3
  <2> QED
    BY <2>1, <2>4 DEF ReadInv, FileOf
<1>6. CASE ReadReturns \/ ReadSegmentDataFails
  <2>1. Kept /\ Call("none")
    BY <1>6 DEF ReadReturns, ReadSegmentDataFails, Idle
  <2> QED
    BY <2>1 DEF ReadInv, FileOf
<1>7. CASE UNCHANGED vars
  BY <1>7 DEF vars, ReadInv, FileOf
<1> QED
  BY <1>1, <1>2, <1>3, <1>4, <1>5, <1>6, <1>7 DEF Next, CallStep

-----------------------------------------------------------------------------
(* Every step of the handle keeps the invariant.                           *)
LEMMA NextIInv ==
  ASSUME FewSegments, IInv, [Next]_vars
  PROVE  IInv'
<1>1. CASE session = "read"
  BY <1>1, ReadStep DEF IInv
<1>2. CASE session = "write"
  <2>1. WriteInv
    BY <1>2 DEF IInv
  <2>2. SUFFICES (session' = session /\ WriteInv') \/ (session' = "read" /\ ReadInv')
    BY <1>2 DEF IInv
  <2>3. PICK n \in Nat : n = Len(segments)
    <3>1. Len(segments) \in Nat
      BY <2>1 DEF WriteInv, WriteTypes
    <3> QED
      BY <3>1
  <2>4. ASSUME NEW size \in Sizes, SetMaximumSegmentSize(size) \/ SetMediaSize(size)
        PROVE  session' = session /\ WriteInv'
    <3>1. io' \in [mediaSize : Sizes, maxSegSize : Sizes, numSegs : Nat]
      <4>1. io \in [mediaSize : Sizes, maxSegSize : Sizes, numSegs : Nat]
        BY <2>1 DEF WriteInv, WriteTypes
      <4>2. \/ io' = [io EXCEPT !.maxSegSize = size]
            \/ io' = [io EXCEPT !.mediaSize = size]
        BY <2>4 DEF SetMaximumSegmentSize, SetMediaSize
      <4> QED
        BY <4>1, <4>2
    <3>2. /\ ~writeInit /\ call.op = "none"
          /\ UNCHANGED <<session, writeInit, segments, offset, pool, disk, call>>
      BY <2>4 DEF SetMaximumSegmentSize, SetMediaSize
    <3> QED
      BY <2>1, <3>1, <3>2, SettingsStep
  <2>5. ASSUME NEW o \in Sizes, SeekOffset(o) PROVE session' = session /\ WriteInv'
    BY <2>1, <2>5, SeekOffsetStep DEF SeekOffset
  <2>6. ASSUME NEW bytes \in Chunks, BeginWrite(bytes) PROVE session' = session /\ WriteInv'
    BY <2>1, <2>6, BeginWriteStep DEF BeginWrite
  <2>7. CASE Reopen
    BY <2>1, <2>7, ReopenStep DEF Reopen
  <2>8. CASE \E c \in 1 .. MaxCall : BeginRead(c)
    BY <1>2, <2>8 DEF BeginRead
  <2>9. CASE CreateSegment
    BY <2>1, <2>3, <2>9, CreateSegmentStep DEF CreateSegment
  <2>10. CASE CreateSegmentFails
    BY <2>1, <2>10, CreateSegmentFailsStep DEF CreateSegmentFails
  <2>11. CASE WriteSegmentData
    BY <2>1, <2>3, <2>11, WriteSegmentDataStep DEF WriteSegmentData
  <2>12. CASE WriteSegmentDataFails
    BY <2>1, <2>12, WriteSegmentDataFailsStep DEF WriteSegmentDataFails
  <2>13. CASE ReadSegmentData \/ ReadReturns \/ ReadSegmentDataFails
    <3>1. call.op # "read"
      BY <2>1 DEF WriteInv, WriteTypes
    <3> QED
      BY <2>13, <3>1 DEF ReadSegmentData, ReadReturns, ReadSegmentDataFails, ReadingFrom
  <2>14. CASE UNCHANGED vars
    <3>1. UNCHANGED <<session, io, writeInit, segments, offset, pool, disk, call>>
      BY <2>14 DEF vars
    <3>2. (WriteTypes /\ NumberFixed /\ CallFits)' = (WriteTypes /\ NumberFixed /\ CallFits)
      BY <3>1 DEF WriteTypes, NumberFixed, CallFits
    <3>3. SegmentsInRow' = SegmentsInRow /\ FilesOnDisk' = FilesOnDisk
      BY <3>1 DEF SegmentsInRow, SegmentSize, FileOf, FilesOnDisk
    <3>4. Filled' = Filled
      BY <3>1 DEF Filled, FileOf, DataEnd, SegmentStart
    <3> QED
      BY <2>1, <3>1, <3>2, <3>3, <3>4 DEF WriteInv
  <2> QED
    BY <2>4, <2>5, <2>6, <2>7, <2>8, <2>9, <2>10, <2>11, <2>12, <2>13, <2>14
       DEF Next, CallStep
<1> QED
  BY <1>1, <1>2 DEF IInv

(* The invariant holds in every state.                                     *)
LEMMA IInvAlways ==
  ASSUME FewSegments
  PROVE  Spec => []IInv
<1>1. Init => IInv
  BY InitIInv
<1>2. IInv /\ [Next]_vars => IInv'
  BY NextIInv
<1> QED
  BY <1>1, <1>2, PTL DEF Spec

-----------------------------------------------------------------------------
(* What the segment files make up.                                         *)
Parts == [k \in 1 .. Len(segments) |-> disk[FileOf(k)]]

(* While an image is written its files are in a row.                       *)
LEMMA WriteParts ==
  ASSUME WriteInv
  PROVE  /\ Parts \in Seq(Seq(Bytes)) /\ Len(Parts) = Len(segments)
         /\ \A k \in 1 .. Len(segments) : Parts[k] = disk[FileOf(k)]
         /\ InRow(Parts, SegmentSize) /\ SegmentSize \in Nat \ {0}
         /\ RowEnd(Parts, SegmentSize) = DataEnd
         /\ FlattenSeq(Parts) = Media
<1>1. Len(segments) \in Nat /\ SegmentSize \in Nat \ {0}
  BY SegmentSizeType DEF WriteInv, WriteTypes
<1>2. \A k \in 1 .. Len(segments) : disk[FileOf(k)] \in Seq(Bytes)
  BY FileOfSegment
<1>3. Parts \in Seq(Seq(Bytes)) /\ Len(Parts) = Len(segments)
      /\ \A k \in 1 .. Len(segments) : Parts[k] = disk[FileOf(k)]
  BY <1>1, <1>2 DEF Parts
<1>4. InRow(Parts, SegmentSize)
  BY <1>3, FileOfSegment DEF InRow
<1>5. RowEnd(Parts, SegmentSize) = DataEnd
  <2>1. Len(segments) # 0 => Parts[Len(segments)] = disk[FileOf(Len(segments))]
    BY <1>1, <1>3
  <2>2. RowEnd(Parts, SegmentSize) =
          IF Len(segments) = 0 THEN 0
          ELSE (Len(segments) - 1) * SegmentSize + Len(disk[FileOf(Len(segments))])
    BY <1>3, <2>1 DEF RowEnd, RowStart
  <2> QED
    BY <2>2, Ends
<1>6. FlattenSeq(Parts) = Media
  BY Zenon DEF Media, Parts
<1> QED
  BY <1>1, <1>3, <1>4, <1>5, <1>6

(* The media is a sequence of bytes that ends where the data does.         *)
LEMMA WriteMediaType ==
  ASSUME WriteInv
  PROVE  Media \in Seq(Bytes) /\ Len(Media) = DataEnd /\ offset \in 0 .. Len(Media)
<1>1. /\ FlattenSeq(Parts) \in Seq(Bytes)
      /\ Len(FlattenSeq(Parts)) = RowEnd(Parts, SegmentSize)
  BY WriteParts, RowParts
<1>2. Media \in Seq(Bytes) /\ Len(Media) = DataEnd
  BY <1>1, WriteParts
<1>3. offset \in Nat /\ offset <= DataEnd /\ Len(Media) \in Nat
  BY <1>2 DEF WriteInv, WriteTypes, Filled
<1> QED
  BY <1>2, <1>3

(* The media changes only with the segments and what is in their files.    *)
LEMMA MediaKept ==
  ASSUME Len(segments') = Len(segments),
         \A k \in 1 .. Len(segments) : disk'[FileOf(k)'] = disk[FileOf(k)]
  PROVE  Parts' = Parts /\ Media' = Media
<1>1. Parts' = Parts
  BY DEF Parts
<1>2. Media = FlattenSeq(Parts) /\ Media' = FlattenSeq(Parts')
  BY Zenon DEF Media, Parts
<1> QED
  BY <1>1, <1>2, Zenon

(* A segment that is created holds nothing yet.                            *)
LEMMA CreateSegmentMedia ==
  ASSUME FewSegments, WriteInv, CreateSegment, NEW n \in Nat, n = Len(segments)
  PROVE  Media' = Media
<1> DEFINE name == NameOfNext
<1>1. /\ call.op = "write" /\ SegmentAt(offset) = n + 1
      /\ pool' = Append(pool, name)
      /\ disk' = [f \in DOMAIN disk \cup {name} |-> IF f = name THEN << >> ELSE disk[f]]
      /\ segments' = Append(segments, NewSegment)
  BY DEF CreateSegment, WritingTo
<1>2. n \in Nat /\ Len(pool) \in Nat /\ pool \in Seq(FileNames)
      /\ segments \in Seq([file : Nat \ {0}, start : Nat, size : 0 .. Unlimited])
  BY DEF WriteInv, WriteTypes
<1>3. /\ Len(segments') = n + 1
      /\ \A k \in 1 .. n : segments'[k] = segments[k]
      /\ segments'[n + 1] = NewSegment
  BY <1>1, <1>2
<1>4. \A k \in 1 .. n : FileOf(k)' = FileOf(k)
  <2> TAKE k \in 1 .. n
  <2>1. segments[k].file \in 1 .. Len(pool)
    BY DEF WriteInv, WriteTypes
  <2>2. pool'[segments[k].file] = pool[segments[k].file]
    BY <1>1, <1>2, <2>1
  <2> QED
    BY <1>3, <2>2 DEF FileOf
<1>5. FileOf(n + 1)' = name
  <2>1. segments'[n + 1].file = Len(pool) + 1
    BY <1>3 DEF NewSegment
  <2> HIDE DEF name
  <2>2. pool'[Len(pool) + 1] = name
    BY <1>1, <1>2
  <2> QED
    BY <2>1, <2>2 DEF FileOf
<1>6. \A k \in 1 .. n : disk'[FileOf(k)'] = disk[FileOf(k)]
  BY <1>1, <1>4, FileOfSegment, NameIsNew
<1>7. disk'[FileOf(n + 1)'] = << >>
  BY <1>1, <1>5
<1> HIDE DEF name
<1>8. Parts \in Seq(Seq(Bytes)) /\ Len(Parts) = n /\ \A k \in 1 .. n : Parts[k] = disk[FileOf(k)]
  BY WriteParts
<1>9. PICK more : more = Parts' /\ more = [k \in 1 .. n + 1 |-> disk'[FileOf(k)']]
  BY <1>3 DEF Parts
<1>10. /\ Len(more) = n + 1 /\ more[n + 1] = << >>
       /\ \A k \in 1 .. n : more[k] = Parts[k]
  BY <1>2, <1>6, <1>7, <1>8, <1>9
<1>11. more \in Seq(Seq(Bytes))
  <2>1. \A k \in 1 .. n + 1 : more[k] \in Seq(Bytes)
    <3> TAKE k \in 1 .. n + 1
    <3>1. CASE k \in 1 .. n
      BY <1>8, <1>10, <3>1
    <3>2. CASE k = n + 1
      <4>1. more[k] = << >> /\ << >> \in Seq(Bytes)
        BY <1>10, <3>2
      <4> QED
        BY <4>1
    <3> QED
      BY <1>2, <3>1, <3>2
  <2> QED
    BY <1>2, <1>9, <2>1
<1>12. RowEnd(Parts, SegmentSize) = RowStart(n + 1, SegmentSize)
  <2>1. RowEnd(Parts, SegmentSize) = n * SegmentSize
    BY <1>1, WriteParts, RoomForSegment
  <2>2. (n + 1) - 1 = n
    BY <1>2
  <2> QED
    BY <2>1, <2>2 DEF RowStart
<1>13. FlattenSeq(Parts') = FlattenSeq(Parts)
  <2>1. InRow(Parts, SegmentSize) /\ SegmentSize \in Nat \ {0}
    BY WriteParts
  <2>2. FlattenSeq(more) = FlattenSeq(Parts)
    BY <1>8, <1>10, <1>11, <1>12, <2>1, RowGrows
  <2> QED
    BY <1>9, <2>2
<1>14. Media = FlattenSeq(Parts) /\ Media' = FlattenSeq(Parts')
  BY Zenon DEF Media, Parts
<1> QED
  BY <1>13, <1>14

(* What is written to a segment is written over the media, at the offset.  *)
LEMMA WriteSegmentDataMedia ==
  ASSUME FewSegments, WriteInv, NEW k \in 1 .. Len(segments), NEW c \in Nat, WritesChunk(k, c)
  PROVE  Media' = Linear!Overwrite(Media, offset, ChunkOf(c))
<1> DEFINE n == Len(segments)
           at == SegmentOffset(k)
           chunk == ChunkOf(c)
<1>1. /\ disk' = [disk EXCEPT ![FileOf(k)] = Linear!Overwrite(@, at, chunk)]
      /\ at \in 0 .. Len(disk[FileOf(k)]) /\ at + Len(chunk) <= SegmentSize
      /\ offset = RowStart(k, SegmentSize) + at /\ chunk \in Seq(Bytes)
      /\ segments' = segments /\ pool' = pool
  BY DEF WritesChunk, RowStart
<1>2. \A j \in 1 .. n : FileOf(j)' = FileOf(j)
  BY <1>1 DEF FileOf
<1>3. \A j \in 1 .. n : FileOf(j) \in DOMAIN disk /\ (j # k => FileOf(j) # FileOf(k))
  BY FileOfSegment, FilesDiffer
<1> HIDE DEF at, chunk, n
<1>4. /\ Parts \in Seq(Seq(Bytes)) /\ Len(Parts) = n
      /\ \A j \in 1 .. n : Parts[j] = disk[FileOf(j)]
      /\ InRow(Parts, SegmentSize) /\ SegmentSize \in Nat \ {0} /\ n \in Nat
      /\ k \in 1 .. n
  BY WriteParts DEF n
<1>5. PICK after : after = Parts' /\ after = [j \in 1 .. n |-> disk'[FileOf(j)']]
  BY <1>1 DEF Parts, n
<1>6. Len(after) = n /\ after[k] = Linear!Overwrite(Parts[k], at, chunk)
  BY <1>1, <1>2, <1>3, <1>4, <1>5
<1>7. \A j \in 1 .. n : j # k => after[j] = Parts[j]
  BY <1>1, <1>2, <1>3, <1>4, <1>5
<1>8. after \in Seq(Seq(Bytes))
  <2>1. after[k] \in Seq(Bytes)
    <3>1. Parts[k] \in Seq(Bytes) /\ at \in 0 .. Len(Parts[k])
      BY <1>1, <1>4
    <3> QED
      BY <1>1, <1>6, <3>1, OverwriteLength
  <2>2. \A j \in 1 .. n : after[j] \in Seq(Bytes)
    BY <1>4, <1>7, <2>1
  <2> QED
    BY <1>4, <1>5, <2>2
<1>9. FlattenSeq(after) = Linear!Overwrite(FlattenSeq(Parts), offset, chunk)
  <2>1. OverwritesPart(after, Parts, SegmentSize, k, at, chunk)
    BY <1>1, <1>4, <1>6, <1>7, <1>8 DEF OverwritesPart
  <2>2. FlattenSeq(after) =
          Linear!Overwrite(FlattenSeq(Parts), RowStart(k, SegmentSize) + at, chunk)
    BY <2>1, RowOverwrite
  <2> QED
    BY <1>1, <2>2
<1>10. Media = FlattenSeq(Parts) /\ Media' = FlattenSeq(after)
  <2>1. Media = FlattenSeq(Parts) /\ Media' = FlattenSeq(Parts')
    BY Zenon DEF Media, Parts
  <2> QED
    BY <1>5, <2>1, Zenon
<1> QED
  BY <1>9, <1>10 DEF chunk

-----------------------------------------------------------------------------
(* The media of the session that reads.                                    *)

(* No file is in the pool that could not be opened: the segments have the  *)
(* files of the pool, in order.                                            *)
PoolOpens == "pool open" \notin Faults

PoolInOrder ==
  PoolOpens =>
    /\ Len(pool) = Len(segments)
    /\ \A k \in 1 .. Len(segments) : segments[k].file = k

ReadTypes ==
  /\ io \in [mediaSize : Sizes, maxSegSize : Sizes, numSegs : Nat]
  /\ segments \in Seq([file : Nat \ {0}, start : Nat, size : 0 .. Unlimited])
  /\ Len(pool) = Len(segments)
  /\ offset \in Nat
  /\ pool \in Seq(FileNames)
  /\ DOMAIN disk \subseteq FileNames
  /\ \A f \in DOMAIN disk : disk[f] \in Seq(Bytes)
  /\ call \in [op : {"none", "read"}, start : Nat, left : 0 .. MaxCall, data : Seq(Bytes)]

(* Segment k holds the bytes of the media from its start on.               *)
HoldsMedia(k) ==
  /\ segments[k].file = k
  /\ FileOf(k) \in DOMAIN disk
  /\ segments[k].size = Len(disk[FileOf(k)])
  /\ SegmentEnd(k) <= Len(Media)
  /\ \A i \in 1 .. Len(disk[FileOf(k)]) : Media[SegmentStart(k) + i] = disk[FileOf(k)][i]

SegmentsHoldMedia ==
  /\ Media \in Seq(Bytes) /\ io.mediaSize = Len(Media)
  /\ \A k \in 1 .. Len(segments) : HoldsMedia(k)
  /\ \A o \in 0 .. Len(Media) - 1 :
       \E k \in 1 .. Len(segments) : SegmentStart(k) <= o /\ o < SegmentEnd(k)

MediaInv ==
  /\ writeInit \in BOOLEAN
  /\ session = "write" => Len(Media) <= MaxMedia /\ PoolInOrder
  /\ session = "read" =>
       /\ ReadTypes
       /\ SegmentsHoldMedia
       /\ ReadsAreExact
       /\ call.op = "read" => call.start <= offset

(* The sizes of n files, and where the segments start and end with them.    *)
SizesFit(sizes, n) ==
  /\ sizes = [k \in 1 .. n |-> Len(disk[FileOf(k)])]
  /\ sizes \in Seq(Nat) /\ Len(sizes) = n
  /\ \A k \in 1 .. n : SumOf(SubSeq(sizes, 1, k - 1)) = RowStart(k, SegmentSize)
  /\ SumOf(sizes) = Len(Media)
  /\ \A o \in 0 .. Len(Media) - 1 : \E k \in 1 .. n :
       RowStart(k, SegmentSize) <= o /\ o < RowStart(k, SegmentSize) + sizes[k]

(* Those of the files a glob finds do.                                     *)
LEMMA FoundSizes ==
  ASSUME FewSegments, WriteInv, NEW n \in Nat, n = Len(segments)
  PROVE  SizesFit([k \in DOMAIN Found |-> Len(disk[Found[k]])], n)
<1>0. PICK sizes : sizes = [k \in DOMAIN Found |-> Len(disk[Found[k]])]
  OBVIOUS
<1>1. Found = [k \in 1 .. n |-> FileOf(k)]
  BY FoundInRow
<1>2. \A k \in 1 .. n : Len(disk[FileOf(k)]) \in Nat
  BY FileOfSegment
<1>3. /\ sizes = [k \in 1 .. n |-> Len(disk[FileOf(k)])]
      /\ sizes \in Seq(Nat) /\ Len(sizes) = n
      /\ \A k \in 1 .. n : sizes[k] = Len(disk[FileOf(k)])
  <2>1. DOMAIN Found = 1 .. n /\ \A k \in 1 .. n : Found[k] = FileOf(k)
    BY <1>1
  <2>2. sizes = [k \in 1 .. n |-> Len(disk[FileOf(k)])]
    BY <1>0, <2>1
  <2> QED
    BY <1>2, <2>2
<1>4. sizes = SizesOf(Parts)
  <2>1. Len(Parts) = n /\ \A k \in 1 .. n : Parts[k] = disk[FileOf(k)]
    BY WriteParts
  <2>2. SizesOf(Parts) = [k \in 1 .. n |-> Len(disk[FileOf(k)])]
    BY <2>1 DEF SizesOf
  <2> QED
    BY <1>3, <2>2
<1>5. PICK starts : AreRowStarts(starts, Parts, SegmentSize)
  BY WriteParts, RowStarts
<1>6. /\ AreStarts(starts, sizes)
      /\ \A k \in 1 .. n : starts[k] = RowStart(k, SegmentSize)
      /\ starts[n + 1] = RowEnd(Parts, SegmentSize)
  BY <1>4, <1>5, WriteParts DEF AreRowStarts
<1>7. ASSUME NEW k \in 1 .. n
      PROVE  SumOf(SubSeq(sizes, 1, k - 1)) = RowStart(k, SegmentSize)
  <2>1. k \in 1 .. Len(sizes) + 1
    BY <1>3
  <2>2. SumOf(SubSeq(sizes, 1, k - 1)) = starts[k]
    BY <1>3, <1>6, <2>1, SumOfFirst
  <2> QED
    BY <1>6, <2>2
<1>8. SumOf(sizes) = Len(Media)
  <2>1. SumOf(sizes) = starts[n + 1]
    BY <1>3, <1>6, SumIsEnd
  <2> QED
    BY <1>6, <2>1, WriteParts, WriteMediaType
<1>9. ASSUME NEW o \in 0 .. Len(Media) - 1
      PROVE  \E k \in 1 .. n :
               RowStart(k, SegmentSize) <= o /\ o < RowStart(k, SegmentSize) + sizes[k]
  <2>1. Len(Media) \in Nat
    BY WriteMediaType
  <2>2. o \in Nat /\ o < Len(Media)
    BY <2>1
  <2>3. starts[Len(sizes) + 1] = Len(Media)
    BY <1>3, <1>6, <1>8, SumIsEnd
  <2>4. PICK k \in 1 .. Len(sizes) : starts[k] <= o /\ o < starts[k] + sizes[k]
    <3>1. o \in Nat /\ o < starts[Len(sizes) + 1] /\ AreStarts(starts, sizes)
          /\ sizes \in Seq(Nat)
      BY <1>3, <1>6, <2>2, <2>3
    <3> QED
      BY <3>1, PieceAt, Zenon
  <2> QED
    BY <1>3, <1>6, <2>4
<1>10. SizesFit(sizes, n)
  BY <1>3, <1>7, <1>8, <1>9 DEF SizesFit
<1> QED
  BY <1>0, <1>10

(* The files of an image that is opened again make up the same media.      *)
LEMMA ReopenMedia ==
  ASSUME FewSegments, WriteInv, Reopen
  PROVE  /\ Media' = Media /\ io'.mediaSize = Len(Media)
         /\ Len(Media) <= MaxMedia => ReadTypes' /\ SegmentsHoldMedia'
<1> DEFINE sizes == [k \in DOMAIN Found |-> Len(disk[Found[k]])]
<1>1. PICK n \in Nat : n = Len(segments)
  <2>1. Len(segments) \in Nat
    BY DEF WriteInv, WriteTypes
  <2> QED
    BY <2>1
<1>2. Found = [k \in 1 .. n |-> FileOf(k)]
  BY <1>1, FoundInRow
<1>3. PICK s : s = sizes
  OBVIOUS
<1>4. /\ s \in Seq(Nat) /\ Len(s) = n
      /\ \A k \in 1 .. n : s[k] = Len(disk[FileOf(k)])
      /\ \A k \in 1 .. n : SumOf(SubSeq(s, 1, k - 1)) = RowStart(k, SegmentSize)
      /\ SumOf(s) = Len(Media)
      /\ \A o \in 0 .. Len(Media) - 1 : \E k \in 1 .. n :
           RowStart(k, SegmentSize) <= o /\ o < RowStart(k, SegmentSize) + s[k]
  <2>1. SizesFit(s, n)
    BY <1>1, <1>3, FoundSizes
  <2> QED
    BY <2>1 DEF SizesFit
<1>5. /\ pool' = Found
      /\ segments' = [k \in DOMAIN Found |->
                        [file |-> k, start |-> SumOf(SubSeq(sizes, 1, k - 1)),
                         size |-> sizes[k]]]
      /\ io' = [mediaSize |-> SumOf(sizes),
                maxSegSize |-> CHOOSE x \in Range(sizes) : \A y \in Range(sizes) : y <= x,
                numSegs |-> 0]
      /\ offset' = 0 /\ disk' = disk /\ call' = call /\ call.op = "none" /\ Found # << >>
  BY Zenon DEF Reopen, SumOf, FoldLeft
<1> HIDE DEF sizes
<1>6. /\ io'.mediaSize = Len(Media) /\ io'.numSegs = 0
      /\ io' = [mediaSize |-> io'.mediaSize, maxSegSize |-> io'.maxSegSize,
                numSegs |-> io'.numSegs]
  BY <1>3, <1>4, <1>5
<1>max. io'.maxSegSize = CHOOSE x \in Range(s) : \A y \in Range(s) : y <= x
  BY <1>3, <1>5
<1>7. /\ pool' = [k \in 1 .. n |-> FileOf(k)]
      /\ segments' = [k \in 1 .. n |->
                        [file |-> k, start |-> RowStart(k, SegmentSize), size |-> s[k]]]
  <2>1. DOMAIN Found = 1 .. n
    BY <1>2
  <2>2. segments' = [k \in 1 .. n |->
                      [file |-> k, start |-> SumOf(SubSeq(s, 1, k - 1)), size |-> s[k]]]
    BY <1>3, <1>5, <2>1, Zenon
  <2>3. segments' = [k \in 1 .. n |->
                      [file |-> k, start |-> RowStart(k, SegmentSize), size |-> s[k]]]
    BY <1>4, <2>2
  <2> QED
    BY <1>2, <1>5, <2>3
<1>8. /\ Len(segments') = n /\ Len(pool') = n
      /\ \A k \in 1 .. n : /\ segments'[k].file = k /\ pool'[k] = FileOf(k)
                           /\ segments'[k].start = RowStart(k, SegmentSize)
                           /\ segments'[k].size = s[k]
  BY <1>7
<1>9. \A k \in 1 .. n : FileOf(k)' = FileOf(k)
  BY <1>8 DEF FileOf
<1>10. Media' = Media
  BY <1>1, <1>5, <1>8, <1>9, MediaKept
<1>11. n # 0
  <2>1. n = 0 => Found = << >>
    BY <1>2
  <2> QED
    BY <1>5, <2>1
<1>12. /\ Parts \in Seq(Seq(Bytes)) /\ Len(Parts) = n
       /\ \A k \in 1 .. n : Parts[k] = disk[FileOf(k)]
       /\ InRow(Parts, SegmentSize) /\ SegmentSize \in Nat \ {0}
       /\ RowEnd(Parts, SegmentSize) = Len(Media)
       /\ \A k \in 1 .. n : FileOf(k) \in DOMAIN disk
  BY <1>1, WriteParts, WriteMediaType, FileOfSegment
<1>13. \A k \in 1 .. n :
         /\ RowStart(k, SegmentSize) \in Nat /\ s[k] \in Nat /\ Len(Media) \in Nat
         /\ RowStart(k, SegmentSize) + s[k] <= Len(Media)
         /\ s[k] <= s[1]
  <2> TAKE k \in 1 .. n
  <2>1. /\ RowStart(k, SegmentSize) \in Nat /\ Len(Parts[k]) \in Nat /\ Len(Media) \in Nat
        /\ RowStart(k, SegmentSize) + Len(Parts[k]) <= Len(Media)
    BY <1>12, RowPartEnds
  <2>2. s[k] = Len(Parts[k])
    BY <1>4, <1>12
  <2>3. s[k] <= s[1]
    <3>1. 1 \in 1 .. n /\ (k = 1 \/ 1 < n)
      BY <1>11
    <3>2. s[1] = Len(Parts[1]) /\ s[1] \in Nat
      BY <1>4, <1>12, <3>1
    <3>3. 1 < n => Len(Parts[1]) = SegmentSize
      BY <1>12, <3>1 DEF InRow
    <3>4. Len(Parts[k]) <= SegmentSize
      BY <1>12 DEF InRow
    <3> QED
      BY <2>2, <3>1, <3>2, <3>3, <3>4
  <2> QED
    BY <2>1, <2>2, <2>3
<1>14. ASSUME Len(Media) <= MaxMedia PROVE ReadTypes'
  <2>1. \A k \in 1 .. n : s[k] \in Sizes /\ s[k] \in 0 .. Unlimited
    BY <1>13, <1>14, Bounds DEF Sizes, Unlimited
  <2>2. io'.maxSegSize \in Sizes
    <3>1. DOMAIN s = 1 .. n /\ 1 \in 1 .. n
      BY <1>4, <1>11
    <3>2. Range(s) = {s[k] : k \in 1 .. n}
      BY <3>1 DEF Range
    <3>3. s[1] \in Range(s) /\ \A y \in Range(s) : y <= s[1]
      BY <1>13, <3>1, <3>2
    <3>4. io'.maxSegSize \in Range(s)
      BY <1>max, <3>3, Zenon
    <3> QED
      BY <2>1, <3>2, <3>4
  <2>3. io' \in [mediaSize : Sizes, maxSegSize : Sizes, numSegs : Nat]
    <3>1. io'.mediaSize \in Sizes
      BY <1>6, <1>11, <1>13, <1>14, Bounds DEF Sizes
    <3>2. PICK a, b, c : io' = [mediaSize |-> a, maxSegSize |-> b, numSegs |-> c]
      BY <1>6
    <3>3. a \in Sizes /\ b \in Sizes /\ c \in Nat
      BY <1>6, <2>2, <3>1, <3>2
    <3> QED
      BY <3>2, <3>3
  <2>4. segments' \in Seq([file : Nat \ {0}, start : Nat, size : 0 .. Unlimited])
    BY <1>7, <1>13, <2>1
  <2>5. DOMAIN disk \subseteq FileNames
    <3>1. \A k \in 1 .. Len(segments) : SegmentSuffix(io.numSegs, k - 1) \in FileNames
      <4> TAKE k \in 1 .. Len(segments)
      <4>1. k - 1 \in Nat /\ io.numSegs \in Nat
        BY <1>1, SMTT(30) DEF WriteInv, WriteTypes
      <4> QED
        BY <4>1, SuffixType
    <3> QED
      BY <3>1 DEF WriteInv, FilesOnDisk
  <2>6. pool' \in Seq(FileNames)
    BY <1>7, <1>12, <2>5
  <2>7. call \in [op : {"none", "read"}, start : Nat, left : 0 .. MaxCall, data : Seq(Bytes)]
    BY <1>5 DEF WriteInv, WriteTypes
  <2>8. \A f \in DOMAIN disk : disk[f] \in Seq(Bytes)
    BY DEF WriteInv, WriteTypes
  <2> QED
    BY <1>5, <1>8, <2>3, <2>4, <2>5, <2>6, <2>7, <2>8 DEF ReadTypes
<1>15. SegmentsHoldMedia'
  <2>1. \A k \in 1 .. n : /\ SegmentStart(k)' = RowStart(k, SegmentSize)
                          /\ SegmentEnd(k)' = RowStart(k, SegmentSize) + s[k]
    BY <1>8 DEF SegmentStart, SegmentEnd
  <2>2. ASSUME NEW k \in 1 .. n PROVE HoldsMedia(k)'
    <3>1. SegmentEnd(k)' <= Len(Media)
      BY <1>13, <2>1
    <3>2. \A i \in 1 .. Len(disk[FileOf(k)]) :
            Media[RowStart(k, SegmentSize) + i] = disk[FileOf(k)][i]
      <4>1. \A i \in 1 .. Len(Parts[k]) :
              FlattenSeq(Parts)[RowStart(k, SegmentSize) + i] = Parts[k][i]
        BY <1>12, RowParts
      <4> QED
        BY <1>12, <4>1, WriteParts
    <3>3. /\ segments'[k].file = k /\ FileOf(k)' = FileOf(k) /\ disk' = disk
          /\ FileOf(k) \in DOMAIN disk
          /\ segments'[k].size = Len(disk[FileOf(k)])
          /\ SegmentStart(k)' = RowStart(k, SegmentSize)
      BY <1>4, <1>5, <1>8, <1>9, <1>12, <2>1
    <3>4. /\ Len(disk'[FileOf(k)']) = Len(disk[FileOf(k)])
          /\ disk'[FileOf(k)'] = disk[FileOf(k)]
          /\ FileOf(k)' \in DOMAIN disk'
      BY <3>3
    <3>5. \A i \in 1 .. Len(disk'[FileOf(k)']) :
            Media'[SegmentStart(k)' + i] = disk'[FileOf(k)'][i]
      BY <1>10, <3>2, <3>3, <3>4
    <3> QED
      BY <1>10, <3>1, <3>3, <3>4, <3>5 DEF HoldsMedia
  <2>3. \A o \in 0 .. Len(Media) - 1 :
          \E k \in 1 .. n : SegmentStart(k)' <= o /\ o < SegmentEnd(k)'
    BY <1>4, <2>1
  <2>4. Media \in Seq(Bytes)
    BY WriteMediaType
  <2> QED
    BY <1>6, <1>8, <1>10, <2>2, <2>3, <2>4 DEF SegmentsHoldMedia
<1> QED
  BY <1>6, <1>10, <1>14, <1>15

(* The smaller of two numbers of bytes that are left.                      *)
LEMMA FitsBoth ==
  ASSUME NEW l \in Nat, NEW r \in Nat, l > 0, r > 0
  PROVE  Smaller(l, r) \in Nat /\ Smaller(l, r) > 0 /\ Smaller(l, r) <= l /\ Smaller(l, r) <= r
BY DEF Smaller

(* A segment is read from only where it holds the offset.                  *)
LEMMA SegmentReadFrom ==
  ASSUME SegmentsHoldMedia, NEW o \in Nat, o < Len(Media)
  PROVE  /\ SegmentAt(o) \in 1 .. Len(segments)
         /\ SegmentStart(SegmentAt(o)) <= o /\ o < SegmentEnd(SegmentAt(o))
<1> DEFINE In(k) == SegmentStart(k) <= o /\ o < SegmentEnd(k)
<1>1. o \in 0 .. Len(Media) - 1
  <2>1. Len(Media) \in Nat
    BY DEF SegmentsHoldMedia
  <2> QED
    BY <2>1
<1>2. PICK j \in 1 .. Len(segments) : In(j)
  BY <1>1 DEF SegmentsHoldMedia
<1>3. SegmentAt(o) = CHOOSE k \in 1 .. Len(segments) : In(k)
  BY <1>2 DEF SegmentAt
<1> HIDE DEF In
<1>4. SegmentAt(o) \in 1 .. Len(segments) /\ In(SegmentAt(o))
  BY <1>2, <1>3
<1> QED
  BY <1>4 DEF In

(* What a step that reads from a segment does: the next c bytes of the     *)
(* media are appended to the result of the call.                           *)
ReadsChunk(c) ==
  /\ c > 0 /\ c <= call.left /\ offset + c <= Len(Media)
  /\ offset' = offset + c
  /\ call' = [call EXCEPT !.left = @ - c,
                          !.data = @ \o SubSeq(Media, offset + 1, offset + c)]
  /\ UNCHANGED <<session, io, writeInit, segments, pool, disk>>

(* Every step that reads from a segment does that.                         *)
LEMMA ChunkRead ==
  ASSUME ReadTypes, SegmentsHoldMedia, ReadsAreExact, ReadSegmentData
  PROVE  \E c \in Nat : ReadsChunk(c)
<1>1. PICK k \in 1 .. Len(segments) :
        /\ ReadingFrom(k) /\ call.left > 0
        /\ offset' = offset + Smaller(call.left, segments[k].size - SegmentOffset(k))
        /\ call' = [call EXCEPT
                      !.left = @ - Smaller(call.left, segments[k].size - SegmentOffset(k)),
                      !.data = @ \o SubSeq(disk[FileOf(k)], SegmentOffset(k) + 1,
                                 SegmentOffset(k)
                                 + Smaller(call.left, segments[k].size - SegmentOffset(k)))]
        /\ UNCHANGED <<session, io, writeInit, segments, pool, disk>>
  BY DEF ReadSegmentData
<1>2. PICK file : file = disk[FileOf(k)]
  OBVIOUS
<1>3. PICK size, b, l, at, c :
        /\ size = segments[k].size /\ b = segments[k].start /\ l = call.left
        /\ at = SegmentOffset(k) /\ c = Smaller(l, size - at)
  OBVIOUS
<1>4. /\ offset \in Nat /\ l \in Nat /\ l > 0 /\ Len(Media) \in Nat
      /\ offset + l <= Len(Media) /\ k = SegmentAt(offset) /\ b \in Nat
      /\ Media \in Seq(Bytes)
  <2>1. call.op = "read" /\ k = SegmentAt(offset)
    BY <1>1 DEF ReadingFrom
  <2>2. offset + call.left <= Len(Media) /\ Media \in Seq(Bytes)
    BY <2>1 DEF ReadsAreExact, SegmentsHoldMedia
  <2>3. offset \in Nat /\ call.left \in 0 .. MaxCall
    BY DEF ReadTypes
  <2>5. segments[k].start \in Nat
    <3>1. segments[k] \in [file : Nat \ {0}, start : Nat, size : 0 .. Unlimited]
      BY ElementOfSeq DEF ReadTypes
    <3> QED
      BY <3>1
  <2>4. Len(Media) \in Nat
    BY <2>2
  <2> QED
    BY <1>1, <1>3, <2>1, <2>2, <2>3, <2>4, <2>5, Bounds
<1>5. /\ size = Len(file) /\ file \in Seq(Bytes) /\ size \in Nat
      /\ \A i \in 1 .. size : Media[b + i] = file[i]
      /\ b + size <= Len(Media)
  <2>1. HoldsMedia(k)
    BY DEF SegmentsHoldMedia
  <2>2. file \in Seq(Bytes)
    BY <1>2, <2>1 DEF HoldsMedia, ReadTypes
  <2> QED
    BY <1>2, <1>3, <2>1, <2>2 DEF HoldsMedia, SegmentStart, SegmentEnd
<1>6. b <= offset /\ offset < b + size
  BY <1>3, <1>4, SegmentReadFrom DEF SegmentStart, SegmentEnd
<1>7. at = offset - b /\ at \in Nat /\ at < size
  <2>1. at = offset - b
    BY <1>3 DEF SegmentOffset, SegmentStart
  <2> QED
    BY <1>4, <1>5, <1>6, <2>1
<1>8. c \in Nat /\ c > 0 /\ c <= l /\ at + c <= size /\ offset + c <= Len(Media)
  <2>1. l \in Nat /\ size - at \in Nat /\ l > 0 /\ size - at > 0
    BY <1>4, <1>5, <1>7
  <2>2. c \in Nat /\ c > 0 /\ c <= l /\ c <= size - at
    <3>1. PICK r \in Nat : r = size - at
      BY <2>1
    <3> QED
      BY <1>3, <2>1, <3>1, FitsBoth
  <2>3. at + c <= size /\ offset + c <= Len(Media)
    BY <1>4, <1>5, <2>2, <1>7, SMTT(30)
  <2> QED
    BY <2>2, <2>3
<1>9. SubSeq(file, at + 1, at + c) = SubSeq(Media, offset + 1, offset + c)
  <2>1. PICK media, o, n : media = Media /\ o = offset /\ n = Len(Media)
    OBVIOUS
  <2>2. /\ media \in Seq(Bytes) /\ n = Len(media) /\ file \in Seq(Bytes) /\ size = Len(file)
        /\ at \in Nat /\ c \in Nat /\ o \in Nat /\ b \in Nat /\ n \in Nat /\ at = o - b
        /\ at + c <= size /\ o + c <= n /\ \A i \in 1 .. size : media[b + i] = file[i]
        /\ b <= o /\ size \in Nat
    BY <1>4, <1>5, <1>6, <1>7, <1>8, <2>1
  <2>3. SubSeq(file, at + 1, at + c) = SubSeq(media, o + 1, o + c)
    BY <2>2, SameStretch
  <2> QED
    BY <2>1, <2>3
<1>10. ReadsChunk(c)
  BY <1>1, <1>2, <1>3, <1>8, <1>9 DEF ReadsChunk
<1> QED
  BY <1>8, <1>10

-----------------------------------------------------------------------------
ReadMediaInv ==
  /\ ReadTypes
  /\ SegmentsHoldMedia
  /\ ReadsAreExact
  /\ call.op = "read" => call.start <= offset

(* What does not touch the segments and files leaves the media alone.      *)
LEMMA MediaUntouched ==
  ASSUME UNCHANGED <<segments, pool, disk>>
  PROVE  Media' = Media /\ \A k : FileOf(k)' = FileOf(k)
<1>1. \A k : FileOf(k)' = FileOf(k)
  BY DEF FileOf
<1> QED
  BY <1>1, MediaKept

(* Nor do the segments hold anything else then.                            *)
LEMMA HoldMediaKept ==
  ASSUME SegmentsHoldMedia, UNCHANGED <<segments, pool, disk>>, io'.mediaSize = io.mediaSize
  PROVE  SegmentsHoldMedia'
<1>1. Media' = Media /\ \A k : FileOf(k)' = FileOf(k)
  BY MediaUntouched
<1>2. \A k \in 1 .. Len(segments) : HoldsMedia(k)'
  BY <1>1 DEF SegmentsHoldMedia, HoldsMedia, SegmentStart, SegmentEnd
<1> QED
  BY <1>1, <1>2 DEF SegmentsHoldMedia, SegmentStart, SegmentEnd

(* In the session that reads, nothing moves but the offset and the call.   *)
LEMMA ReadMediaStep ==
  ASSUME ReadMediaInv, session = "read", writeInit \in BOOLEAN, [Next]_vars
  PROVE  session' = "read" /\ writeInit' \in BOOLEAN /\ ReadMediaInv'
<1> DEFINE Kept == session' = "read" /\ writeInit' \in BOOLEAN
                   /\ UNCHANGED <<segments, pool, disk>> /\ io'.mediaSize = io.mediaSize
                   /\ io' \in [mediaSize : Sizes, maxSegSize : Sizes, numSegs : Nat]
<1>0. /\ ReadTypes /\ SegmentsHoldMedia /\ ReadsAreExact
      /\ call.op = "read" => call.start <= offset
      /\ io \in [mediaSize : Sizes, maxSegSize : Sizes, numSegs : Nat] /\ call.op # "write"
  BY DEF ReadMediaInv, ReadTypes
<1>1. CASE \E size \in Sizes : SetMaximumSegmentSize(size) \/ SetMediaSize(size)
  <2>1. Kept /\ UNCHANGED <<offset, call>>
    BY <1>0, <1>1 DEF SetMaximumSegmentSize, SetMediaSize
  <2> QED
    BY <1>0, <2>1, MediaUntouched, HoldMediaKept DEF ReadTypes, ReadsAreExact, ReadMediaInv
<1>2. CASE \E o \in Sizes : SeekOffset(o)
  <2>1. Kept /\ call' = call /\ call.op = "none" /\ offset' \in Nat
    BY <1>0, <1>2, Bounds DEF SeekOffset, Sizes
  <2> QED
    BY <1>0, <2>1, HoldMediaKept DEF ReadTypes, ReadsAreExact, ReadMediaInv
<1>3. CASE \/ \E bytes \in Chunks : BeginWrite(bytes)
           \/ Reopen
           \/ CreateSegment \/ CreateSegmentFails
           \/ WriteSegmentData \/ WriteSegmentDataFails
  BY <1>0, <1>3 DEF BeginWrite, Reopen, CreateSegment, CreateSegmentFails, WriteSegmentData,
                    WriteSegmentDataFails, WritingTo
<1>4. ASSUME NEW n \in 1 .. MaxCall, BeginRead(n)
      PROVE  session' = "read" /\ writeInit' \in BOOLEAN /\ ReadMediaInv'
  <2>1. Kept /\ offset' = offset /\ offset \in Nat /\ io.mediaSize \in Nat
        /\ Media \in Seq(Bytes) /\ n \in Nat
    BY <1>0, <1>4, Bounds DEF BeginRead, ReadTypes, Sizes, SegmentsHoldMedia
  <2>2. PICK room : room = ReadRoom(n)
    OBVIOUS
  <2>3. room > 0 /\ call' = [op |-> "read", start |-> offset, left |-> room, data |-> << >>]
    BY <1>4, <2>2 DEF BeginRead
  <2>4. room \in 0 .. MaxCall /\ offset + room <= io.mediaSize
    BY <2>1, <2>2, <2>3, Bounds DEF ReadRoom, Smaller
  <2>5. << >> = SubSeq(Media, offset + 1, offset) /\ << >> \in Seq(Bytes)
    BY <2>1
  <2>6. call' \in [op : {"none", "read"}, start : Nat, left : 0 .. MaxCall, data : Seq(Bytes)]
    BY <2>1, <2>3, <2>4, <2>5
  <2>7. Media' = Media
    BY <2>1, MediaUntouched
  <2>8. ReadTypes' /\ SegmentsHoldMedia'
    BY <1>0, <2>1, <2>6, HoldMediaKept DEF ReadTypes
  <2>9. ReadsAreExact' /\ call'.start <= offset'
    BY <2>1, <2>3, <2>4, <2>5, <2>7 DEF ReadsAreExact
  <2> QED
    BY <2>1, <2>8, <2>9 DEF ReadMediaInv
<1>5. ASSUME ReadSegmentData
      PROVE  session' = "read" /\ writeInit' \in BOOLEAN /\ ReadMediaInv'
  <2>1. PICK c \in Nat : ReadsChunk(c)
    BY <1>0, <1>5, ChunkRead
  <2>2. call.op = "read"
    BY <1>5 DEF ReadSegmentData, ReadingFrom
  <2>3. PICK a, l, data, media, o, size :
          /\ a = call.start /\ l = call.left /\ data = call.data /\ media = Media
          /\ o = offset /\ size = io.mediaSize
    OBVIOUS
  <2>4. /\ a \in Nat /\ l \in 0 .. MaxCall /\ o \in Nat /\ a <= o
        /\ data = SubSeq(media, a + 1, o) /\ o + l <= size
        /\ media \in Seq(Bytes) /\ size \in Nat /\ MaxCall \in Nat
        /\ call = [op |-> "read", start |-> a, left |-> l, data |-> data]
    BY <1>0, <2>2, <2>3, Bounds, SMTT(30) DEF ReadTypes, ReadsAreExact, SegmentsHoldMedia, Sizes
  <2>5. PICK up, read : up = o + c /\ read = SubSeq(media, o + 1, up)
    OBVIOUS
  <2>6. /\ c > 0 /\ c <= l /\ up <= Len(media) /\ offset' = up /\ Kept
        /\ call' = [call EXCEPT !.left = l - c, !.data = data \o read]
    BY <1>0, <2>1, <2>3, <2>5 DEF ReadsChunk
  <2>7. call' = [op |-> "read", start |-> a, left |-> l - c, data |-> data \o read]
    BY <2>4, <2>6
  <2>8. up \in Nat /\ o <= up /\ l - c \in 0 .. MaxCall /\ up + (l - c) <= size /\ a <= up
    <3>1. /\ l \in Nat /\ l <= MaxCall /\ MaxCall \in Nat /\ c <= l /\ up = o + c
          /\ o \in Nat /\ o + l <= size /\ a \in Nat /\ a <= o /\ size \in Nat
      BY <2>4, <2>5, <2>6
    <3> QED
      BY <3>1
  <2>9. data \o read = SubSeq(media, a + 1, up)
    <3>1. /\ media \in Seq(Bytes) /\ a \in Nat /\ o \in Nat /\ up \in Nat
          /\ a <= o /\ o <= up /\ up <= Len(media)
      BY <2>4, <2>6, <2>8
    <3>2. SubSeq(media, a + 1, o) \o SubSeq(media, o + 1, up) = SubSeq(media, a + 1, up)
      BY <3>1, SubSeqContinued
    <3>3. data = SubSeq(media, a + 1, o)
      BY <2>4
    <3> QED
      BY <2>5, <3>2, <3>3
  <2>10. SubSeq(media, a + 1, up) \in Seq(Bytes)
    <3>1. /\ media \in Seq(Bytes) /\ a \in Nat /\ up \in Nat /\ up <= Len(media)
      BY <2>4, <2>6, <2>8
    <3> QED
      BY <3>1, SubSeqProperties
  <2>11. Media' = media
    BY <2>3, <2>6, MediaUntouched
  <2>12. /\ call' \in [op : {"none", "read"}, start : Nat, left : 0 .. MaxCall, data : Seq(Bytes)]
         /\ call'.start = a /\ call'.left = l - c /\ call'.data = SubSeq(media, a + 1, up)
    <3>1. PICK done : done = SubSeq(media, a + 1, up)
      OBVIOUS
    <3>2. call' = [op |-> "read", start |-> a, left |-> l - c, data |-> done]
      BY <2>7, <2>9, <3>1
    <3>3. done \in Seq(Bytes)
      BY <2>10, <3>1
    <3> QED
      BY <2>4, <2>8, <3>1, <3>2, <3>3
  <2>13. ReadTypes'
    BY <1>0, <2>6, <2>8, <2>12 DEF ReadTypes
  <2>14. SegmentsHoldMedia'
    BY <1>0, <2>6, HoldMediaKept
  <2>15. ReadsAreExact' /\ call'.start <= offset'
    BY <2>3, <2>6, <2>8, <2>11, <2>12 DEF ReadsAreExact
  <2> QED
    BY <2>6, <2>13, <2>14, <2>15 DEF ReadMediaInv
<1>6. CASE ReadReturns \/ ReadSegmentDataFails
  <2>1. Kept /\ offset' = offset /\ call' = Idle
    BY <1>0, <1>6 DEF ReadReturns, ReadSegmentDataFails
  <2>2. Idle \in [op : {"none", "read"}, start : Nat, left : 0 .. MaxCall, data : Seq(Bytes)]
    BY Bounds DEF Idle
  <2>3. call'.op = "none"
    BY <2>1 DEF Idle
  <2> QED
    BY <1>0, <2>1, <2>2, <2>3, HoldMediaKept DEF ReadTypes, ReadsAreExact, ReadMediaInv
<1>7. CASE UNCHANGED vars
  <2>1. Kept /\ UNCHANGED <<offset, call>>
    BY <1>0, <1>7 DEF vars
  <2> QED
    BY <1>0, <2>1, MediaUntouched, HoldMediaKept DEF ReadTypes, ReadsAreExact, ReadMediaInv
<1> QED
  BY <1>1, <1>2, <1>3, <1>4, <1>5, <1>6, <1>7 DEF Next, CallStep

-----------------------------------------------------------------------------
(* A step of the media that is one sequence of bytes, or none of its.      *)
LinearStep == [Linear!LinearNext]_<<Media, offset, io.mediaSize, session>>

(* A step that changes nothing the linear media has.                       *)
LEMMA StaysLinear ==
  ASSUME Media' = Media, UNCHANGED <<offset, session>>, io'.mediaSize = io.mediaSize
  PROVE  LinearStep
BY DEF LinearStep

(* The entries of a pool that grows stay those of the segments.            *)
LEMMA GrownPool ==
  ASSUME WriteInv, UNCHANGED <<segments, disk>>,
         pool' = pool \/ pool' = Append(pool, NameOfNext)
  PROVE  Media' = Media
<1>1. \A k \in 1 .. Len(segments) : FileOf(k)' = FileOf(k)
  <2> TAKE k \in 1 .. Len(segments)
  <2>1. segments[k].file \in 1 .. Len(pool) /\ pool \in Seq(FileNames)
    BY DEF WriteInv, WriteTypes
  <2>2. pool'[segments[k].file] = pool[segments[k].file]
    BY <2>1
  <2> QED
    BY <2>2 DEF FileOf
<1> QED
  BY <1>1, MediaKept

(* Before the first segment there is no media.                             *)
LEMMA NoMedia ==
  ASSUME WriteInv, ~writeInit
  PROVE  Media = << >>
<1>1. Len(segments) = 0
  BY DEF WriteInv, NumberFixed
<1>2. Len(Media) = 0 /\ Media \in Seq(Bytes)
  BY <1>1, WriteMediaType, Ends
<1> QED
  BY <1>2, EmptySeq

(* One step of what is written: what it does to the media, how large that  *)
(* gets, and what becomes of the pool.                                     *)
MediaStep ==
  /\ LinearStep
  /\ session' = "write" /\ writeInit' \in BOOLEAN
  /\ Len(Media') <= MaxMedia /\ PoolInOrder'

(* The size of the media is announced before there is any.                 *)
LEMMA SettingsMedia ==
  ASSUME WriteInv, MediaInv, session = "write", NEW size \in Sizes,
         SetMaximumSegmentSize(size) \/ SetMediaSize(size)
  PROVE  MediaStep
<1>1. /\ ~writeInit /\ UNCHANGED <<session, writeInit, segments, offset, pool, disk, call>>
      /\ io'.mediaSize = io.mediaSize \/ io'.mediaSize \in 0 .. MaxMedia
  <2>1. io \in [mediaSize : Sizes, maxSegSize : Sizes, numSegs : Nat]
    BY DEF WriteInv, WriteTypes
  <2> QED
    BY <2>1 DEF SetMaximumSegmentSize, SetMediaSize, Sizes
<1>2. Media' = Media /\ Media = << >>
  BY <1>1, MediaUntouched, NoMedia
<1>3. LinearStep
  BY <1>1, <1>2 DEF LinearStep, Linear!LinearNext, Linear!Announce
<1> QED
  BY <1>1, <1>2, <1>3 DEF MediaStep, MediaInv, PoolInOrder

(* A seek moves the position within the media.                             *)
LEMMA SeekMedia ==
  ASSUME WriteInv, MediaInv, session = "write", NEW o \in Sizes, SeekOffset(o)
  PROVE  MediaStep
<1>1. /\ UNCHANGED <<session, io, writeInit, segments, pool, disk, call>>
      /\ offset' = o /\ o <= DataEnd /\ o \in Nat
  BY Bounds DEF SeekOffset, Sizes
<1>2. Media' = Media
  BY <1>1, MediaUntouched
<1>3. offset' \in 0 .. Len(Media)
  <2>1. Len(Media) = DataEnd /\ Len(Media) \in Nat
    BY WriteMediaType
  <2> QED
    BY <1>1, <2>1
<1>4. LinearStep
  BY <1>1, <1>2, <1>3 DEF LinearStep, Linear!LinearNext, Linear!Move
<1> QED
  BY <1>1, <1>2, <1>4 DEF MediaStep, MediaInv, PoolInOrder

(* A write that begins has written nothing yet.                            *)
LEMMA BeginWriteMedia ==
  ASSUME WriteInv, MediaInv, session = "write", NEW bytes \in Chunks, BeginWrite(bytes)
  PROVE  MediaStep
<1>1. /\ UNCHANGED <<session, segments, offset, pool, disk>>
      /\ writeInit' = TRUE /\ io'.mediaSize = io.mediaSize
  <2>1. io \in [mediaSize : Sizes, maxSegSize : Sizes, numSegs : Nat]
    BY DEF WriteInv, WriteTypes
  <2> QED
    BY <2>1 DEF BeginWrite
<1>2. Media' = Media
  BY <1>1, MediaUntouched
<1> QED
  BY <1>1, <1>2, StaysLinear DEF MediaStep, MediaInv, PoolInOrder

(* A call that fails: a file that could not be opened may be in the pool.  *)
LEMMA FailedMedia ==
  ASSUME WriteInv, MediaInv, session = "write", CreateSegmentFails \/ WriteSegmentDataFails
  PROVE  MediaStep
<1>1. /\ UNCHANGED <<session, io, writeInit, segments, offset, disk>>
      /\ pool' = pool \/ (pool' = Append(pool, NameOfNext) /\ "pool open" \in Faults)
  BY DEF CreateSegmentFails, WriteSegmentDataFails
<1>2. Media' = Media
  BY <1>1, GrownPool
<1>3. PoolInOrder'
  BY <1>1 DEF MediaInv, PoolInOrder, PoolOpens
<1> QED
  BY <1>1, <1>2, <1>3, StaysLinear DEF MediaStep, MediaInv

(* A new segment adds nothing to the media, and takes the next file.       *)
LEMMA CreateMedia ==
  ASSUME FewSegments, WriteInv, MediaInv, session = "write", CreateSegment
  PROVE  MediaStep
<1>1. PICK n \in Nat : n = Len(segments)
  <2>1. Len(segments) \in Nat
    BY DEF WriteInv, WriteTypes
  <2> QED
    BY <2>1
<1>2. /\ UNCHANGED <<session, io, writeInit, offset>>
      /\ pool' = Append(pool, NameOfNext) /\ segments' = Append(segments, NewSegment)
      /\ NewSegment.file = Len(pool) + 1
  BY DEF CreateSegment, NewSegment
<1>3. Media' = Media
  BY <1>1, CreateSegmentMedia
<1>4. PoolInOrder'
  <2> SUFFICES ASSUME PoolOpens PROVE PoolInOrder'
    BY DEF PoolInOrder
  <2>1. /\ pool \in Seq(FileNames)
        /\ segments \in Seq([file : Nat \ {0}, start : Nat, size : 0 .. Unlimited])
    BY DEF WriteInv, WriteTypes
  <2>2. Len(pool) = n /\ \A k \in 1 .. n : segments[k].file = k
    BY <1>1 DEF MediaInv, PoolInOrder
  <2>3. Len(pool') = n + 1 /\ NewSegment.file = n + 1
    BY <1>2, <2>1, <2>2
  <2>4. PICK new : new = NewSegment
    OBVIOUS
  <2>5. segments' = Append(segments, new) /\ new.file = n + 1
    BY <1>2, <2>3, <2>4
  <2>6. /\ Len(segments') = n + 1 /\ segments'[n + 1] = new
        /\ \A k \in 1 .. n : segments'[k] = segments[k]
    BY <1>1, <2>1, <2>5
  <2>7. \A k \in 1 .. n + 1 : segments'[k].file = k
    <3> TAKE k \in 1 .. n + 1
    <3>1. k \in 1 .. n \/ k = n + 1
      OBVIOUS
    <3> QED
      BY <2>2, <2>5, <2>6, <3>1
  <2> QED
    BY <2>3, <2>6, <2>7 DEF PoolInOrder
<1> QED
  BY <1>2, <1>3, <1>4, StaysLinear DEF MediaStep, MediaInv

(* What is written to a segment is put into the media at the offset.       *)
LEMMA WriteMedia ==
  ASSUME FewSegments, WriteInv, MediaInv, session = "write", WriteSegmentData
  PROVE  MediaStep
<1>1. PICK k \in 1 .. Len(segments), c \in Nat : WritesChunk(k, c)
  BY ChunkWritten
<1>2. PICK bytes, over : bytes = ChunkOf(c) /\ over = Linear!Overwrite(Media, offset, bytes)
  OBVIOUS
<1>3. /\ bytes \in Seq(Bytes) /\ Len(bytes) = c /\ c > 0 /\ c <= call.left /\ call.op = "write"
      /\ offset' = offset + c
      /\ UNCHANGED <<session, io, writeInit, segments, pool>>
  BY <1>1, <1>2 DEF WritesChunk
<1>4. Media' = over
  BY <1>1, <1>2, WriteSegmentDataMedia
<1>5. /\ offset + c <= MaxMedia /\ c <= MaxMedia
      /\ io.mediaSize > 0 => offset + c <= io.mediaSize
  <2>1. /\ offset + call.left <= MaxMedia
        /\ io.mediaSize > 0 => offset + call.left <= io.mediaSize
    BY <1>3 DEF WriteInv, CallFits
  <2>2. offset \in Nat /\ call.left \in Nat /\ io.mediaSize \in Nat
    BY Bounds DEF WriteInv, WriteTypes, Sizes
  <2>3. c <= call.left
    BY <1>3
  <2> QED
    BY <2>1, <2>2, <2>3, Bounds
<1>6. bytes \in Linear!NonEmptySeqs(MaxMedia)
  <2>1. bytes \in [1 .. c -> Bytes] /\ c \in 1 .. MaxMedia
    BY <1>3, <1>5, Bounds
  <2> QED
    BY <2>1 DEF Linear!NonEmptySeqs
<1>7. LinearStep
  <2>1. Linear!Put
    BY <1>2, <1>3, <1>4, <1>5, <1>6 DEF Linear!Put
  <2> QED
    BY <2>1 DEF LinearStep, Linear!LinearNext
<1>8. Len(Media') <= MaxMedia
  <2>1. Media \in Seq(Bytes) /\ offset \in 0 .. Len(Media) /\ Len(Media) <= MaxMedia
    BY WriteMediaType DEF MediaInv
  <2>2. Len(over) = IF offset + Len(bytes) > Len(Media) THEN offset + Len(bytes) ELSE Len(Media)
    BY <1>2, <1>3, <2>1, OverwriteLength
  <2> QED
    BY <1>3, <1>4, <1>5, <2>1, <2>2
<1> QED
  BY <1>3, <1>7, <1>8 DEF MediaStep, MediaInv, PoolInOrder

(* The files of the image are the same media again.                        *)
LEMMA ReopenedMedia ==
  ASSUME FewSegments, WriteInv, MediaInv, session = "write", Reopen
  PROVE  LinearStep /\ session' = "read" /\ writeInit' \in BOOLEAN /\ ReadMediaInv'
<1>1. /\ session' = "read" /\ writeInit' = FALSE /\ offset' = 0
      /\ call' = call /\ call.op = "none"
  BY DEF Reopen
<1>2. Media' = Media /\ io'.mediaSize = Len(Media) /\ ReadTypes' /\ SegmentsHoldMedia'
  BY ReopenMedia DEF MediaInv
<1>3. LinearStep
  BY <1>1, <1>2 DEF LinearStep, Linear!LinearNext, Linear!OpenAgain
<1> QED
  BY <1>1, <1>2, <1>3 DEF ReadMediaInv, ReadsAreExact

(* In the session that reads only the position moves.                      *)
LEMMA ReadLinear ==
  ASSUME ReadMediaInv, session = "read", [Next]_vars
  PROVE  LinearStep
<1>0. /\ ReadTypes /\ SegmentsHoldMedia /\ ReadsAreExact /\ call.op # "write"
      /\ io \in [mediaSize : Sizes, maxSegSize : Sizes, numSegs : Nat]
  BY DEF ReadMediaInv, ReadTypes
<1>1. CASE \/ \E size \in Sizes : SetMaximumSegmentSize(size) \/ SetMediaSize(size)
           \/ \E n \in 1 .. MaxCall : BeginRead(n)
           \/ ReadReturns \/ ReadSegmentDataFails \/ UNCHANGED vars
  <2>1. UNCHANGED <<session, segments, offset, pool, disk>> /\ io'.mediaSize = io.mediaSize
    BY <1>0, <1>1 DEF SetMaximumSegmentSize, SetMediaSize, BeginRead, ReadReturns,
                      ReadSegmentDataFails, vars
  <2> QED
    BY <2>1, MediaUntouched, StaysLinear
<1>2. CASE \E o \in Sizes : SeekOffset(o)
  <2>1. PICK o \in Sizes : o <= DataEnd /\ offset' = o
                           /\ UNCHANGED <<session, io, segments, pool, disk>>
    BY <1>2 DEF SeekOffset
  <2>2. DataEnd <= Len(Media) /\ DataEnd \in Nat /\ Len(Media) \in Nat
    <3>1. Len(Media) \in Nat
      BY <1>0 DEF SegmentsHoldMedia
    <3>2. CASE segments = << >>
      BY <3>1, <3>2 DEF DataEnd
    <3>3. CASE segments # << >>
      <4>1. Len(segments) \in 1 .. Len(segments)
        BY <1>0, <3>3, EmptySeq DEF ReadTypes
      <4>2. PICK k : k = Len(segments)
        OBVIOUS
      <4>3. HoldsMedia(k)
        BY <1>0, <4>1, <4>2 DEF SegmentsHoldMedia
      <4>4. segments[k] \in [file : Nat \ {0}, start : Nat, size : 0 .. Unlimited]
        BY <1>0, <4>1, <4>2, ElementOfSeq DEF ReadTypes
      <4>5. DataEnd = segments[k].start + Len(disk[FileOf(k)])
        BY <3>3, <4>2 DEF DataEnd, SegmentStart
      <4>6. /\ segments[k].start \in Nat /\ Len(disk[FileOf(k)]) \in Nat
            /\ segments[k].start + Len(disk[FileOf(k)]) <= Len(Media)
        <5>1. disk[FileOf(k)] \in Seq(Bytes)
          BY <1>0, <4>3 DEF HoldsMedia, ReadTypes
        <5> QED
          BY <4>3, <4>4, <5>1 DEF HoldsMedia, SegmentEnd
      <4> QED
        BY <3>1, <4>5, <4>6
    <3> QED
      BY <3>2, <3>3
  <2>3. offset' \in 0 .. Len(Media)
    <3>1. o \in Nat
      BY Bounds DEF Sizes
    <3> QED
      BY <2>1, <2>2, <3>1
  <2>4. Media' = Media
    BY <2>1, MediaUntouched
  <2>5. Linear!Move
    BY <2>1, <2>3, <2>4 DEF Linear!Move
  <2> QED
    BY <2>5 DEF LinearStep, Linear!LinearNext
<1>3. CASE ReadSegmentData
  <2>1. PICK c \in Nat : ReadsChunk(c)
    BY <1>0, <1>3, ChunkRead
  <2>2. /\ c > 0 /\ offset + c <= Len(Media) /\ offset' = offset + c
        /\ UNCHANGED <<session, io, segments, pool, disk>>
    BY <2>1 DEF ReadsChunk
  <2>3. Media' = Media
    BY <2>2, MediaUntouched
  <2>4. offset' \in offset + 1 .. Len(Media)
    <3>1. offset \in Nat /\ Len(Media) \in Nat
      BY <1>0 DEF ReadTypes, SegmentsHoldMedia
    <3> QED
      BY <2>2, <3>1
  <2>5. Linear!Get
    BY <2>2, <2>3, <2>4 DEF Linear!Get
  <2> QED
    BY <2>5 DEF LinearStep, Linear!LinearNext
<1>4. CASE \/ \E bytes \in Chunks : BeginWrite(bytes)
           \/ Reopen
           \/ CreateSegment \/ CreateSegmentFails
           \/ WriteSegmentData \/ WriteSegmentDataFails
  BY <1>0, <1>4 DEF BeginWrite, Reopen, CreateSegment, CreateSegmentFails, WriteSegmentData,
                    WriteSegmentDataFails, WritingTo
<1> QED
  BY <1>1, <1>2, <1>3, <1>4 DEF Next, CallStep

-----------------------------------------------------------------------------
(* A handle starts with no media.                                          *)
LEMMA InitMedia == Init => MediaInv /\ Linear!LinearInit
<1> SUFFICES ASSUME Init PROVE MediaInv /\ Linear!LinearInit
  OBVIOUS
<1>1. WriteInv
  BY InitIInv DEF IInv, Init
<1>2. Media = << >>
  BY <1>1, NoMedia DEF Init
<1>3. PoolInOrder
  <2>1. Len(segments) = 0 /\ Len(pool) = 0 /\ 1 .. Len(segments) = {}
    BY DEF Init
  <2> QED
    BY <2>1 DEF PoolInOrder
<1>4. session = "write" /\ writeInit = FALSE /\ offset = 0 /\ io.mediaSize = 0
  BY DEF Init
<1>5. Len(Media) <= MaxMedia
  <2>1. Len(Media) = 0
    BY <1>2
  <2> QED
    BY <2>1, Bounds
<1> QED
  BY <1>2, <1>3, <1>4, <1>5 DEF MediaInv, Linear!LinearInit

(* Every step keeps that invariant too, and is one of the linear media.    *)
LEMMA NextMedia ==
  ASSUME FewSegments, IInv, MediaInv, [Next]_vars
  PROVE  MediaInv' /\ LinearStep
<1>1. CASE session = "read"
  <2>1. ReadMediaInv /\ writeInit \in BOOLEAN
    BY <1>1 DEF MediaInv, ReadMediaInv
  <2>2. session' = "read" /\ writeInit' \in BOOLEAN /\ ReadMediaInv'
    BY <1>1, <2>1, ReadMediaStep
  <2>3. LinearStep
    BY <1>1, <2>1, ReadLinear
  <2> QED
    BY <2>2, <2>3 DEF MediaInv, ReadMediaInv
<1>2. CASE session = "write"
  <2>1. WriteInv
    BY <1>2 DEF IInv
  <2>2. SUFFICES MediaStep \/ (LinearStep /\ session' = "read" /\ writeInit' \in BOOLEAN
                               /\ ReadMediaInv')
    BY DEF MediaStep, MediaInv, ReadMediaInv
  <2>3. CASE \E size \in Sizes : SetMaximumSegmentSize(size) \/ SetMediaSize(size)
    BY <1>2, <2>1, <2>3, SettingsMedia
  <2>4. CASE \E o \in Sizes : SeekOffset(o)
    BY <1>2, <2>1, <2>4, SeekMedia
  <2>5. CASE \E bytes \in Chunks : BeginWrite(bytes)
    BY <1>2, <2>1, <2>5, BeginWriteMedia
  <2>6. CASE Reopen
    BY <1>2, <2>1, <2>6, ReopenedMedia
  <2>7. CASE CreateSegment
    BY <1>2, <2>1, <2>7, CreateMedia
  <2>8. CASE CreateSegmentFails \/ WriteSegmentDataFails
    BY <1>2, <2>1, <2>8, FailedMedia
  <2>9. CASE WriteSegmentData
    BY <1>2, <2>1, <2>9, WriteMedia
  <2>10. CASE \/ \E n \in 1 .. MaxCall : BeginRead(n)
              \/ ReadSegmentData \/ ReadReturns \/ ReadSegmentDataFails
    <3>1. call.op # "read"
      BY <2>1 DEF WriteInv, WriteTypes
    <3> QED
      BY <1>2, <2>10, <3>1 DEF BeginRead, ReadSegmentData, ReadReturns, ReadSegmentDataFails,
                               ReadingFrom
  <2>11. CASE UNCHANGED vars
    <3>1. UNCHANGED <<session, io, writeInit, segments, offset, pool, disk, call>>
      BY <2>11 DEF vars
    <3> QED
      BY <1>2, <3>1, MediaUntouched, StaysLinear DEF MediaStep, MediaInv, PoolInOrder
  <2> QED
    BY <2>3, <2>4, <2>5, <2>6, <2>7, <2>8, <2>9, <2>10, <2>11 DEF Next, CallStep
<1> QED
  BY <1>1, <1>2 DEF IInv

(* Both invariants hold in every state.                                    *)
LEMMA MediaInvAlways ==
  ASSUME FewSegments
  PROVE  Spec => [](IInv /\ MediaInv)
<1>1. Init => IInv /\ MediaInv
  BY InitIInv, InitMedia
<1>2. (IInv /\ MediaInv) /\ [Next]_vars => (IInv /\ MediaInv)'
  BY NextIInv, NextMedia
<1> QED
  BY <1>1, <1>2, PTL DEF Spec

-----------------------------------------------------------------------------
(* In every session that writes, whatever the sizes, the splits of the     *)
(* writes and the failures: no two segments share a file, and there are no *)
(* more segments than libsmraw_handle_initialize_write_values announced,   *)
(* although libsmraw_filename.c:122 names one more.  The segments have to  *)
(* be so few that three characters number them.                            *)
THEOREM SegmentsHaveFilesAlways ==
  ASSUME FewSegments
  PROVE  Spec => []SegmentsHaveFiles
<1>1. IInv => SegmentsHaveFiles
  BY FilesDiffer DEF IInv, WriteInv, NumberFixed, SegmentsHaveFiles
<1> QED
  BY <1>1, IInvAlways, PTL

(* In the session that writes and in the one that reads the files back, a  *)
(* segment that another one follows is full: there is no gap in the media. *)
THEOREM FullButTheLastAlways ==
  ASSUME FewSegments
  PROVE  Spec => []FullButTheLast
<1>1. IInv => FullButTheLast
  <2> SUFFICES ASSUME IInv, NEW k \in 1 .. Len(segments) - 1
               PROVE  Len(disk[FileOf(k)]) = segments[k].size
    BY DEF FullButTheLast
  <2>1. CASE session = "write"
    <3>1. Len(segments) \in Nat
      BY <2>1 DEF IInv, WriteInv, WriteTypes
    <3>2. k \in 1 .. Len(segments) /\ k < Len(segments)
      BY <3>1
    <3> QED
      BY <2>1, <3>2 DEF IInv, WriteInv, Filled
  <2>2. CASE session = "read"
    BY <2>2 DEF IInv, ReadInv
  <2> QED
    BY <2>1, <2>2 DEF IInv
<1> QED
  BY <1>1, IInvAlways, PTL

(* The segment files of an image, whatever their sizes, the splits of the  *)
(* calls and the failures between them, are written and read as if they    *)
(* were one sequence of bytes, which they still are when the image is      *)
(* opened again on the files that libsmraw_glob finds: every step of the   *)
(* handle is a step of LinearMedia, or leaves the media alone.             *)
THEOREM MediaIsLinearAlways ==
  ASSUME FewSegments
  PROVE  Spec => MediaIsLinear
<1>1. Init => Linear!LinearInit
  BY InitMedia
<1>2. (IInv /\ MediaInv) /\ [Next]_vars
        => [Linear!LinearNext]_<<Media, offset, io.mediaSize, session>>
  BY NextMedia DEF LinearStep
<1> QED
  BY <1>1, <1>2, MediaInvAlways, PTL DEF Spec, MediaIsLinear, Linear!LinearSpec

(* A read delivers the bytes of the media from where it started, across    *)
(* the segments and in their order, and asks for none past the end.        *)
THEOREM ReadsAreExactAlways ==
  ASSUME FewSegments
  PROVE  Spec => []ReadsAreExact
<1>1. IInv /\ MediaInv => ReadsAreExact
  <2> SUFFICES ASSUME IInv, MediaInv PROVE ReadsAreExact
    OBVIOUS
  <2>1. CASE session = "read"
    BY <2>1 DEF MediaInv
  <2>2. CASE session = "write"
    BY <2>2 DEF IInv, WriteInv, WriteTypes, ReadsAreExact
  <2> QED
    BY <2>1, <2>2 DEF IInv
<1> QED
  BY <1>1, MediaInvAlways, PTL

(* As long as every file that is put into the pool can be opened, the file *)
(* that libsmraw_handle.c:3062 gives the name of is that of the segment at *)
(* the offset.  The run StreamFilename shows what happens otherwise.       *)
THEOREM FilenameOfOffsetAlways ==
  ASSUME FewSegments, PoolOpens
  PROVE  Spec => []FilenameOfOffset
<1>1. IInv /\ MediaInv => FilenameOfOffset
  <2> SUFFICES ASSUME IInv, MediaInv PROVE FilenameOfOffset
    OBVIOUS
  <2>1. \A k \in 1 .. Len(segments) : segments[k].file = k
    <3>1. CASE session = "write"
      BY <3>1 DEF MediaInv, PoolInOrder
    <3>2. CASE session = "read"
      BY <3>2 DEF MediaInv, SegmentsHoldMedia, HoldsMedia
    <3> QED
      BY <3>1, <3>2 DEF IInv
  <2>2. SegmentAt(offset) \in 1 .. Len(segments) \/ SegmentAt(offset) = Len(segments) + 1
    <3> DEFINE In(k) == SegmentStart(k) <= offset /\ offset < SegmentEnd(k)
    <3>1. CASE \E k \in 1 .. Len(segments) : In(k)
      <4>1. SegmentAt(offset) = CHOOSE k \in 1 .. Len(segments) : In(k)
        BY <3>1 DEF SegmentAt
      <4> HIDE DEF In
      <4> QED
        BY <3>1, <4>1
    <3>2. CASE ~\E k \in 1 .. Len(segments) : In(k)
      BY <3>2 DEF SegmentAt
    <3> QED
      BY <3>1, <3>2
  <2>3. Len(segments) \in Nat
    <3>1. session = "write" => Len(segments) \in Nat
      BY DEF IInv, WriteInv, WriteTypes
    <3>2. session = "read" => Len(segments) \in Nat
      BY DEF MediaInv, ReadTypes
    <3> QED
      BY <3>1, <3>2 DEF IInv
  <2>4. PICK k : k = SegmentAt(offset)
    OBVIOUS
  <2>5. k <= Len(segments) => pool[k] = FileOf(k)
    BY <2>1, <2>2, <2>3, <2>4 DEF FileOf
  <2> QED
    BY <2>4, <2>5 DEF FilenameOfOffset
<1> QED
  BY <1>1, MediaInvAlways, PTL

(* Every value stays what its C type, or the model's bound, says it is.    *)
THEOREM TypeOKAlways ==
  ASSUME FewSegments
  PROVE  Spec => []TypeOK
<1>1. IInv /\ MediaInv => TypeOK
  <2> SUFFICES ASSUME IInv, MediaInv PROVE TypeOK
    OBVIOUS
  <2>1. writeInit \in BOOLEAN /\ session \in {"write", "read"}
    BY DEF IInv, MediaInv
  <2>2. CASE session = "write"
    <3>1. WriteInv
      BY <2>2 DEF IInv
    <3>2. DOMAIN disk \subseteq FileNames
      <4>1. \A k \in 1 .. Len(segments) : SegmentSuffix(io.numSegs, k - 1) \in FileNames
        <5> TAKE k \in 1 .. Len(segments)
        <5>1. k - 1 \in Nat /\ io.numSegs \in Nat
          BY <3>1, SMTT(30) DEF WriteInv, WriteTypes
        <5> QED
          BY <5>1, SuffixType
      <4> QED
        BY <3>1, <4>1 DEF WriteInv, FilesOnDisk
    <3>3. call \in [op : {"none", "write", "read"}, start : Nat, left : 0 .. MaxCall,
                    data : Seq(Bytes)]
      BY <3>1 DEF WriteInv, WriteTypes
    <3> QED
      BY <2>1, <3>1, <3>2, <3>3 DEF WriteInv, WriteTypes, TypeOK
  <2>3. CASE session = "read"
    <3>1. ReadTypes /\ SegmentsHoldMedia
      BY <2>3 DEF MediaInv
    <3>2. \A k \in 1 .. Len(segments) : segments[k].file \in 1 .. Len(pool)
      BY <3>1 DEF ReadTypes, SegmentsHoldMedia, HoldsMedia
    <3>3. call \in [op : {"none", "write", "read"}, start : Nat, left : 0 .. MaxCall,
                    data : Seq(Bytes)]
      BY <3>1 DEF ReadTypes
    <3> QED
      BY <2>1, <3>1, <3>2, <3>3 DEF ReadTypes, TypeOK
  <2> QED
    BY <2>1, <2>2, <2>3
<1> QED
  BY <1>1, MediaInvAlways, PTL
=============================================================================
