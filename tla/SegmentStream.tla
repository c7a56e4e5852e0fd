--------------------------- MODULE SegmentStream ---------------------------
(***************************************************************************)
(* The media of a handle, spread over segment files: one session that      *)
(* writes an image, and one that reads it back.  A read or write of the    *)
(* handle is a sequence of steps, the callbacks the segments stream makes: *)
(* a segment file is created, then data is written to it, each of which    *)
(* may fail and end the call.                                              *)
(*                                                                         *)
(* The segments stream is libfdata's and the pool libbfio's; both are      *)
(* modelled by what the handle and its callbacks need of them.             *)
(***************************************************************************)
EXTENDS Naturals, Sequences, SequencesExt, SegmentLayout

CONSTANTS
  Bytes,        \* the values of a byte
  MaxMedia,     \* bound: no write goes beyond this offset
  MaxCall,      \* bound: the most bytes in a read or a write
  MaxUnopened,  \* bound: the most files of the pool that could not be opened
  Faults        \* the calls that may fail for reasons outside the library

ASSUME StreamAssumptions ==
  /\ MaxMedia \in Nat /\ MaxCall \in Nat /\ MaxUnopened \in Nat
  /\ Faults \subseteq {"pool open", "write", "short write", "read"}

VARIABLES
  session,    \* "write", then "read"
  io,         \* libsmraw_io_handle_t, but for the basename
  writeInit,  \* write_values_initialized
  segments,   \* the segments stream: for each segment its file, offset and size
  offset,     \* the offset of the segments stream
  pool,       \* the names of the files in the pool
  disk,       \* the segment files: their bytes, by name
  call        \* the read or write in progress

vars == <<session, io, writeInit, segments, offset, pool, disk, call>>

Sizes     == 0 .. MaxMedia
Chunks    == UNION {[1 .. n -> Bytes] : n \in 1 .. MaxCall}
Unlimited == MaxMedia + 1  \* INT64_MAX: a segment no media fills

Idle == [op |-> "none", start |-> 0, left |-> 0, data |-> << >>]
FileNames == {<< >>} \cup (0 .. 255) \X (0 .. 255) \X (0 .. 255)

TypeOK ==
  /\ session \in {"write", "read"}
  /\ io \in [mediaSize : Sizes, maxSegSize : Sizes, numSegs : Nat]
  /\ writeInit \in BOOLEAN
  /\ segments \in Seq([file : Nat \ {0}, start : Nat, size : 0 .. Unlimited])
  /\ \A k \in 1 .. Len(segments) : segments[k].file \in 1 .. Len(pool)
  /\ offset \in Nat
  /\ pool \in Seq(FileNames)
  /\ DOMAIN disk \subseteq FileNames
  /\ \A f \in DOMAIN disk : disk[f] \in Seq(Bytes)
  /\ call \in [op : {"none", "write", "read"}, start : Nat, left : 0 .. MaxCall,
               data : Seq(Bytes)]

-----------------------------------------------------------------------------
(* The segments stream.                                                    *)

SegmentStart(k) == segments[k].start
SegmentEnd(k)   == segments[k].start + segments[k].size

(* The offset at which the segment that comes next is going to start.      *)
NextStart == IF segments = << >> THEN 0 ELSE SegmentEnd(Len(segments))

(* Broken: a segment is left one byte before its end.                      *)
SegmentAtEarly(o) ==
  IF \E k \in 1 .. Len(segments) : o + 1 < SegmentEnd(k)
  THEN CHOOSE k \in 1 .. Len(segments) : /\ o + 1 < SegmentEnd(k)
                                         /\ SegmentStart(k) <= o + 1
  ELSE Len(segments) + 1

(* The segment that an offset falls into, or the one yet to be created.    *)
SegmentAt(o) ==
  IF \E k \in 1 .. Len(segments) : SegmentStart(k) <= o /\ o < SegmentEnd(k)
  THEN CHOOSE k \in 1 .. Len(segments) : SegmentStart(k) <= o /\ o < SegmentEnd(k)
  ELSE Len(segments) + 1

FileOf(k) == pool[segments[k].file]

(* The media: the segment files one after the other.                       *)
Media == FlattenSeq([k \in 1 .. Len(segments) |-> disk[FileOf(k)]])

(* The same media, as one sequence of bytes with a position.               *)
Linear == INSTANCE LinearMedia WITH
  media <- Media, pos <- offset, limit <- io.mediaSize, mode <- session

-----------------------------------------------------------------------------
(* The session that writes starts with no segments and no files.           *)
Init ==
  /\ session = "write"
  /\ \E size \in Sizes : io = [mediaSize |-> 0, maxSegSize |-> size, numSegs |-> 0]
  /\ writeInit = FALSE
  /\ segments = << >>
  /\ offset = 0
  /\ pool = << >>
  /\ disk = [f \in {} |-> << >>]
  /\ call = Idle

SetMaximumSegmentSize(size) ==
  /\ call.op = "none" /\ ~writeInit
  /\ io' = [io EXCEPT !.maxSegSize = size]
  /\ UNCHANGED <<session, writeInit, segments, offset, pool, disk, call>>

SetMediaSize(size) ==
  /\ call.op = "none" /\ ~writeInit /\ session # "read"
  /\ io' = [io EXCEPT !.mediaSize = size]
  /\ UNCHANGED <<session, writeInit, segments, offset, pool, disk, call>>

(* Where the data ends, in the last segment.                               *)
DataEnd ==
  IF segments = << >> THEN 0
  ELSE SegmentStart(Len(segments)) + Len(disk[FileOf(Len(segments))])

(* Bound: a program seeks no further than the data goes.                   *)
SeekOffset(o) ==
  /\ call.op = "none"
  /\ o <= DataEnd
  /\ offset' = o
  /\ UNCHANGED <<session, io, writeInit, segments, pool, disk, call>>

-----------------------------------------------------------------------------
(* Writing.                                                                *)

(* Broken: a write is not cut off at the size of the media.                *)
WriteRoomUnlimited(n) == IF io.mediaSize > 0 /\ offset >= io.mediaSize THEN 0 ELSE n

(* A write stops at the size of the media, when one is set.                *)
WriteRoom(n) ==
  IF io.mediaSize > 0 /\ offset + n >= io.mediaSize
  THEN IF offset >= io.mediaSize THEN 0 ELSE io.mediaSize - offset
  ELSE n

(* The first write fixes the number of segments.                           *)
BeginWrite(bytes) ==
  LET room == WriteRoom(Len(bytes)) IN
  /\ session = "write" /\ call.op = "none"
  /\ offset + Len(bytes) <= MaxMedia
  /\ writeInit' = TRUE
  /\ io' = IF writeInit THEN io
           ELSE [io EXCEPT !.numSegs = NumberOfSegments(io.mediaSize, io.maxSegSize)]
  /\ call' = IF room = 0 THEN call
             ELSE [op |-> "write", start |-> offset, left |-> room,
                   data |-> SubSeq(bytes, 1, room)]
  /\ UNCHANGED <<session, segments, offset, pool, disk>>

WritingTo(k) == call.op = "write" /\ k = SegmentAt(offset)

NameOfNext == SegmentSuffix(io.numSegs, Len(segments))

(* Broken: the index of the file is not passed on, or is one too small.    *)
NewSegmentFirstFile == [file |-> 1, start |-> NextStart, size |-> io.maxSegSize]
NewSegmentOffByOne  == [file |-> Len(pool), start |-> NextStart, size |-> io.maxSegSize]

NewSegment ==
  [file  |-> Len(pool) + 1,
   start |-> NextStart,
   size  |-> IF io.maxSegSize = 0 THEN Unlimited ELSE io.maxSegSize]

(* The file is appended to the pool, and then opened and truncated.        *)
CreateSegment ==
  /\ WritingTo(Len(segments) + 1)
  /\ CanNameSegment(io.numSegs, Len(segments))
  /\ pool' = Append(pool, NameOfNext)
  /\ disk' = [f \in DOMAIN disk \cup {NameOfNext} |->
                IF f = NameOfNext THEN << >> ELSE disk[f]]
  /\ segments' = Append(segments, NewSegment)
  /\ UNCHANGED <<session, io, writeInit, offset, call>>

(* There is no name for the file; or the file cannot be opened, and its    *)
(* entry in the pool stays.                                                *)
CreateSegmentFails ==
  /\ WritingTo(Len(segments) + 1)
  /\ \/ /\ ~CanNameSegment(io.numSegs, Len(segments))
        /\ UNCHANGED pool
     \/ /\ CanNameSegment(io.numSegs, Len(segments))
        /\ "pool open" \in Faults
        /\ Len(pool) - Len(segments) < MaxUnopened
        /\ pool' = Append(pool, NameOfNext)
  /\ call' = Idle
  /\ UNCHANGED <<session, io, writeInit, segments, offset, disk>>

Smaller(m, n) == IF m < n THEN m ELSE n

(* Broken: the file is not sought in, and the data goes to its end.        *)
SegmentOffsetAtEnd(k) == Len(disk[FileOf(k)])

SegmentOffset(k) == offset - SegmentStart(k)

(* Broken: a call goes on after its last byte.                             *)
AfterChunkOpenEnded(n, fits) == IF n < fits THEN Idle ELSE [call EXCEPT !.left = @ - n]

(* A write that was cut short ends the call, and so does its last one.     *)
AfterChunk(n, fits) ==
  IF n < fits \/ n = call.left THEN Idle ELSE [call EXCEPT !.left = @ - n]

(* The stream seeks in the file of the segment and writes what fits in the *)
(* segment.                                                                *)
WriteSegmentData ==
  \E k \in 1 .. Len(segments) :
    LET at   == SegmentOffset(k)
        fits == Smaller(call.left, segments[k].size - at)
    IN
    /\ WritingTo(k)
    /\ \E n \in IF "short write" \in Faults THEN 1 .. fits ELSE {fits} :
         /\ disk' = [disk EXCEPT ![FileOf(k)] =
                       Linear!Overwrite(@, at, SubSeq(call.data, offset - call.start + 1,
                                                          offset - call.start + n))]
         /\ offset' = offset + n
         /\ call' = AfterChunk(n, fits)
    /\ UNCHANGED <<session, io, writeInit, segments, pool>>

WriteSegmentDataFails ==
  /\ "write" \in Faults
  /\ \E k \in 1 .. Len(segments) : WritingTo(k)
  /\ call' = Idle
  /\ UNCHANGED <<session, io, writeInit, segments, offset, pool, disk>>

-----------------------------------------------------------------------------
(* Reading back what was written.                                          *)

(* The names a glob finds: the only file, or those counted up from 000 as  *)
(* long as there are any.                                                  *)
Found ==
  IF SegmentSuffix(1, 0) \in DOMAIN disk
  THEN << SegmentSuffix(1, 0) >>
  ELSE [k \in {n \in 1 .. MaxMedia :
                 \A i \in 0 .. n - 1 : SegmentSuffix(0, i) \in DOMAIN disk} |->
          SegmentSuffix(0, k - 1)]

(* The handle is closed, and opened for reading on the files there are.    *)
(* A segment is as large as its file.                                      *)
Reopen ==
  LET sizes == [k \in DOMAIN Found |-> Len(disk[Found[k]])] IN
  /\ session = "write" /\ call.op = "none"
  /\ Found # << >>
  /\ session' = "read"
  /\ pool' = Found
  /\ segments' = [k \in DOMAIN Found |->
                    [file  |-> k,
                     start |-> FoldLeft(+, 0, SubSeq(sizes, 1, k - 1)),
                     size  |-> sizes[k]]]
  /\ io' = [mediaSize  |-> FoldLeft(+, 0, sizes),
            maxSegSize |-> CHOOSE s \in Range(sizes) : \A t \in Range(sizes) : t <= s,
            numSegs    |-> 0]
  /\ offset' = 0
  /\ writeInit' = FALSE
  /\ UNCHANGED <<disk, call>>

(* Broken: a read is not cut off at the size of the media.                 *)
ReadRoomUnlimited(n) == IF offset >= io.mediaSize THEN 0 ELSE n

ReadRoom(n) ==
  IF offset >= io.mediaSize THEN 0 ELSE Smaller(n, io.mediaSize - offset)

BeginRead(n) ==
  LET room == ReadRoom(n) IN
  /\ session = "read" /\ call.op = "none"
  /\ room > 0
  /\ call' = [op |-> "read", start |-> offset, left |-> room, data |-> << >>]
  /\ UNCHANGED <<session, io, writeInit, segments, offset, pool, disk>>

ReadingFrom(k) == call.op = "read" /\ k = SegmentAt(offset)

(* The call ends with its last byte; the bytes it read are its result.     *)
ReadSegmentData ==
  \E k \in 1 .. Len(segments) :
    LET at   == SegmentOffset(k)
        fits == Smaller(call.left, segments[k].size - at)
    IN
    /\ ReadingFrom(k) /\ call.left > 0
    /\ offset' = offset + fits
    /\ call' = [call EXCEPT !.left = @ - fits,
                            !.data = @ \o SubSeq(disk[FileOf(k)], at + 1, at + fits)]
    /\ UNCHANGED <<session, io, writeInit, segments, pool, disk>>

ReadReturns ==
  /\ call.op = "read" /\ call.left = 0
  /\ call' = Idle
  /\ UNCHANGED <<session, io, writeInit, segments, offset, pool, disk>>

ReadSegmentDataFails ==
  /\ "read" \in Faults
  /\ call.op = "read" /\ call.left > 0
  /\ call' = Idle
  /\ UNCHANGED <<session, io, writeInit, segments, offset, pool, disk>>

-----------------------------------------------------------------------------
CallStep ==
  \/ CreateSegment
  \/ CreateSegmentFails
  \/ WriteSegmentData
  \/ WriteSegmentDataFails
  \/ ReadSegmentData
  \/ ReadReturns
  \/ ReadSegmentDataFails

Next ==
  \/ \E size \in Sizes : SetMaximumSegmentSize(size) \/ SetMediaSize(size)
  \/ \E o \in Sizes : SeekOffset(o)
  \/ \E bytes \in Chunks : BeginWrite(bytes)
  \/ Reopen
  \/ \E n \in 1 .. MaxCall : BeginRead(n)
  \/ CallStep

Spec == Init /\ [][Next]_vars

(* A call that was started runs on.                                        *)
FairSpec == Spec /\ WF_vars(CallStep)

-----------------------------------------------------------------------------
(* Whatever the sizes, the splits of the calls and the failures between    *)
(* them, the segment files hold what was written at the offsets it was     *)
(* written to, no write passes the size set for the media, and the files a *)
(* glob finds, in its order, make up the same media again.                 *)
MediaIsLinear == Linear!LinearSpec

(* No two segments share a file, for one would truncate the other, and     *)
(* there are never more of them than the number that went into their names *)
(* says, although a name is given out for one more than that.              *)
SegmentsHaveFiles ==
  session = "write" =>
    /\ \A j, k \in 1 .. Len(segments) : j # k => FileOf(j) # FileOf(k)
    /\ io.numSegs > 0 => Len(segments) <= io.numSegs

(* Only the last segment may have room left: with a gap before it, the     *)
(* data behind the gap would move when the image is opened again.          *)
FullButTheLast ==
  \A k \in 1 .. Len(segments) - 1 : Len(disk[FileOf(k)]) = segments[k].size

(* A read delivers the bytes of the media from where it started, across    *)
(* segments and in order, and never one too many.                          *)
ReadsAreExact ==
  call.op = "read" =>
    /\ call.data = SubSeq(Media, call.start + 1, offset)
    /\ offset + call.left <= io.mediaSize

(* A read or write that was started ends.                                  *)
CallsReturn == call.op # "none" ~> call.op = "none"

(* libsmraw_handle.c:3062 "Retrieves the filename of the segment file of   *)
(* the current offset": get_filename takes the entry of the pool with the  *)
(* index of the segment, which is the file of that segment.                *)
FilenameOfOffset ==
  LET k == SegmentAt(offset) IN
  call.op = "none" /\ k <= Len(segments) => pool[k] = FileOf(k)
=============================================================================
