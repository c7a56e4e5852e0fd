---------------------------- MODULE PythonHandle ----------------------------
(***************************************************************************)
(* One pysmraw handle that several Python threads share, opened on Python  *)
(* file objects.  A method gives up the interpreter lock (the GIL) while   *)
(* it is in the library; the library reads under the read/write lock of    *)
(* the handle, and takes the GIL again for every call of a file object.    *)
(*                                                                         *)
(* A byte is <<file, position>>.  What a thread does with the GIL held is  *)
(* one step; a seek in one thread may come between any two of another's.   *)
(***************************************************************************)
EXTENDS Naturals, Sequences, SequencesExt

CONSTANTS
  Threads,
  Files,      \* the sizes of the file objects, in order
  MaxRead,    \* bound: bytes asked for in one read
  MaxCalls,   \* bound: calls from one close to the next
  Nobody      \* no thread

(* The library opens no empty pool.                                        *)
ASSUME PythonHandleAssumptions ==
  /\ Files \in Seq(Nat) /\ Files # << >>
  /\ MaxRead \in Nat /\ MaxCalls \in Nat
  /\ Nobody \notin Threads

VARIABLES
  gil,       \* the thread that holds the interpreter lock
  lock,      \* the thread that holds read_write_lock, for writing
  pool,      \* the pool of file objects: "none", "live", or "freed" although
             \* the library still has it
  lib,       \* the libsmraw handle: whether it is open, its segments, offset
  position,  \* where each file object is
  thread,    \* the call each thread is in, and its locals
  calls,     \* how many calls were made since the last close
  crashed,   \* the library used a pool that was freed
  refused,   \* history: a second open_file_objects was refused
  sought,    \* history: some thread has sought in this session
  taken,     \* history: the bytes read in this session, in order, until a seek
  lost,      \* history: the places in taken of bytes that no thread was given
  raised     \* history: a file object raised in this session, until a seek

history == <<sought, taken, lost, raised>>

vars == <<gil, lock, pool, lib, position, thread, calls, crashed, refused, history>>

(* Asked for are size bytes, of which the media has room; short is a       *)
(* history: a file object gave less than it was asked for in this call.    *)
Idle == [call |-> "none", step |-> "none", size |-> 0, offset |-> 0, room |-> 0,
         segment |-> 0, within |-> 0, data |-> << >>, short |-> FALSE, failed |-> FALSE,
         moved |-> FALSE]

ClosedLib == [open |-> FALSE, sizes |-> << >>, offset |-> 0]

Total(sizes) == FoldLeft(LAMBDA a, b : a + b, 0, sizes)

(* The bytes of the media, by the sizes the library has of the segments.   *)
MediaBytes ==
  FlattenSeq([n \in 1 .. Len(lib.sizes) |-> [p \in 1 .. lib.sizes[n] |-> <<n, p>>]])

StartOf(n) == Total(SubSeq(lib.sizes, 1, n - 1))

At(t, step) == ~crashed /\ thread[t].step = step

(* Where a call goes on.                                                   *)
Goes(t, locals) == thread' = [thread EXCEPT ![t] = locals]

(* The offset changed under the calls of the other threads.                *)
GoesAndMoves(t, locals) ==
  thread' = [u \in Threads |->
               IF u = t THEN locals ELSE [thread[u] EXCEPT !.moved = TRUE]]

-----------------------------------------------------------------------------
(* Calls, from Python into the library.                                    *)

(* Broken: the interpreter lock is kept while in the library.              *)
EnterKeepingGil(t, locals) ==
  /\ ~crashed /\ thread[t] = Idle /\ gil = Nobody /\ calls < MaxCalls
  /\ Goes(t, locals)
  /\ gil' = t
  /\ calls' = calls + 1
  /\ UNCHANGED <<lock, pool, lib, position, crashed, refused, history>>

(* Py_BEGIN_ALLOW_THREADS: the lock is taken to run the method, and given  *)
(* up again before the library is called.                                  *)
Enter(t, locals) ==
  /\ ~crashed /\ thread[t] = Idle /\ gil = Nobody /\ calls < MaxCalls
  /\ Goes(t, locals)
  /\ calls' = calls + 1
  /\ UNCHANGED <<gil, lock, pool, lib, position, crashed, refused, history>>

PyReadBuffer(t) ==
  \E size \in 1 .. MaxRead :
    Enter(t, [Idle EXCEPT !.call = "read_buffer", !.step = "lock", !.size = size])

(* Broken: without Py_BEGIN_ALLOW_THREADS.                                 *)
PyReadBufferAtOffsetKeepingGil(t) ==
  \E size \in 1 .. MaxRead, offset \in 0 .. Total(Files) :
    EnterKeepingGil(t, [Idle EXCEPT !.call = "read_buffer_at_offset", !.step = "seek",
                                    !.size = size, !.offset = offset])

PyReadBufferAtOffset(t) ==
  \E size \in 1 .. MaxRead, offset \in 0 .. Total(Files) :
    Enter(t, [Idle EXCEPT !.call = "read_buffer_at_offset", !.step = "seek",
                          !.size = size, !.offset = offset])

PySeekOffset(t) ==
  \E offset \in 0 .. Total(Files) :
    Enter(t, [Idle EXCEPT !.call = "seek_offset", !.step = "seek", !.offset = offset])

(* Py_END_ALLOW_THREADS, and back in Python.                               *)
Return(t) ==
  /\ At(t, "return") /\ gil \in {Nobody, t}
  /\ gil' = Nobody
  /\ thread' = [thread EXCEPT ![t] = Idle]
  /\ UNCHANGED <<lock, pool, lib, position, calls, crashed, refused, history>>

-----------------------------------------------------------------------------
(* Opening and closing.  Bound: no thread closes a handle that another one *)
(* is using.                                                               *)

Quiet == ~crashed /\ \A t \in Threads : thread[t] = Idle

(* A pool is made of the file objects, unless there is one; on that error, *)
(* as on all others, the pool there is is freed, while the library may     *)
(* still have it.  Bound: no thread opens while another is in a call.      *)
PyOpenFileObjects(t) ==
  /\ Quiet /\ calls < MaxCalls
  /\ calls' = calls + 1
  /\ \/ /\ pool = "live" \/ lib.open
        /\ pool' = IF lib.open THEN "freed" ELSE "none"
        /\ refused' = lib.open
        /\ UNCHANGED thread
     \/ /\ pool = "none" /\ ~lib.open
        /\ pool' = "live"
        /\ Goes(t, [Idle EXCEPT !.call = "open_file_objects", !.step = "size", !.segment = 1])
        /\ UNCHANGED refused
  /\ UNCHANGED <<gil, lock, lib, position, crashed, history>>

UsesFreedPool ==
  /\ crashed' = TRUE
  /\ UNCHANGED <<gil, lock, pool, lib, position, thread, calls, refused, history>>

(* The size of a file object.  When it cannot be had, get_size returns as  *)
(* if it had been, and the library goes on with the size of the file       *)
(* before, or with none.                                                   *)
GetSize(t) ==
  /\ At(t, "size") /\ gil \in {Nobody, t}
  /\ \E size \in {Files[thread[t].segment], thread[t].within} :
       Goes(t, [thread[t] EXCEPT
         !.data = Append(@, size), !.within = size, !.segment = @ + 1,
         !.step = IF thread[t].segment = Len(Files) THEN "opened" ELSE "size"])
  /\ UNCHANGED <<gil, lock, pool, lib, position, calls, crashed, refused, history>>

OpenFileIoPool(t) ==
  /\ At(t, "opened")
  /\ lib' = [open |-> TRUE, sizes |-> thread[t].data, offset |-> 0]
  /\ sought' = FALSE /\ taken' = << >> /\ lost' = {} /\ raised' = FALSE
  /\ Goes(t, [thread[t] EXCEPT !.step = "return", !.data = << >>])
  /\ UNCHANGED <<gil, lock, pool, position, calls, crashed, refused>>

(* Broken: the pool goes first, whether or not the handle can be closed.   *)
PyClosePoolFirst ==
  /\ Quiet /\ lib.open
  /\ \/ lib' = ClosedLib /\ pool' = "none" /\ refused' = FALSE
     \/ pool' = "freed" /\ UNCHANGED <<lib, refused>>
  /\ calls' = 0
  /\ UNCHANGED <<gil, lock, position, thread, crashed, history>>

(* The library lets go of the pool, also when closing fails; then it is    *)
(* freed, unless closing failed.                                           *)
PyClose ==
  /\ Quiet /\ lib.open
  /\ lib' = ClosedLib
  /\ \/ pool' = "none"
     \/ pool = "live" /\ UNCHANGED pool
  /\ refused' = FALSE
  /\ calls' = 0
  /\ UNCHANGED <<gil, lock, position, thread, crashed, history>>

-----------------------------------------------------------------------------
(* In the library.                                                         *)

(* libsmraw_handle_seek_offset takes no lock.                              *)
SeekOffset(t) ==
  /\ At(t, "seek")
  /\ IF lib.open
     THEN /\ lib' = [lib EXCEPT !.offset = thread[t].offset]
          /\ GoesAndMoves(t, [thread[t] EXCEPT !.moved = FALSE,
               !.step = IF thread[t].call = "seek_offset" THEN "return" ELSE "lock"])
          /\ sought' = TRUE /\ taken' = << >> /\ lost' = {} /\ raised' = FALSE
     ELSE /\ Goes(t, [thread[t] EXCEPT !.step = "return", !.failed = TRUE])
          /\ UNCHANGED <<lib, history>>
  /\ UNCHANGED <<gil, lock, pool, position, calls, crashed, refused>>

ReadRefused(t) ==
  /\ At(t, "lock")
  /\ ~lib.open \/ Total(lib.sizes) = 0
  /\ Goes(t, [thread[t] EXCEPT !.step = "return", !.failed = ~lib.open])
  /\ UNCHANGED <<gil, lock, pool, lib, position, calls, crashed, refused, history>>

(* What is left of the size asked for before the end of the media.         *)
Clamped(size) ==
  LET rest == IF lib.offset >= Total(lib.sizes) THEN 0 ELSE Total(lib.sizes) - lib.offset
  IN  IF size > rest THEN rest ELSE size

(* Broken: the lock is only waited for.                                    *)
GrabLockNot(t) ==
  /\ At(t, "lock") /\ lock = Nobody
  /\ lib.open /\ Total(lib.sizes) > 0
  /\ Goes(t, [thread[t] EXCEPT !.step = "stream", !.room = Clamped(thread[t].size)])
  /\ UNCHANGED <<gil, lock, pool, lib, position, calls, crashed, refused, history>>

(* The lock is taken, and the size cut at the end of the media.            *)
GrabLock(t) ==
  /\ At(t, "lock") /\ lock = Nobody
  /\ lib.open /\ Total(lib.sizes) > 0
  /\ lock' = t
  /\ Goes(t, [thread[t] EXCEPT !.step = "stream", !.room = Clamped(thread[t].size)])
  /\ UNCHANGED <<gil, pool, lib, position, calls, crashed, refused, history>>

(* The segment at the offset: libfdata looks it up once for a read.        *)
FindSegment(t) ==
  /\ At(t, "stream")
  /\ IF thread[t].room = 0 \/ lib.offset >= Total(lib.sizes)
     THEN Goes(t, [thread[t] EXCEPT !.step = "unlock"])
     ELSE \E n \in 1 .. Len(lib.sizes) :
            /\ lib.offset \in StartOf(n) .. StartOf(n) + lib.sizes[n] - 1
            /\ Goes(t, [thread[t] EXCEPT !.step = "seek_segment", !.segment = n,
                                       !.within = lib.offset - StartOf(n)])
  /\ UNCHANGED <<gil, lock, pool, lib, position, calls, crashed, refused, history>>

(* Broken: a file object is read from where it is.                         *)
SeekSegmentOffsetNot(t) ==
  /\ At(t, "seek_segment") /\ gil \in {Nobody, t}
  /\ IF pool # "live" THEN UsesFreedPool
     ELSE /\ Goes(t, [thread[t] EXCEPT !.step = "read_segment"])
          /\ UNCHANGED <<gil, lock, pool, lib, position, calls, crashed, refused, history>>

SeekSegmentOffset(t) ==
  /\ At(t, "seek_segment") /\ gil \in {Nobody, t}
  /\ IF pool # "live" THEN UsesFreedPool
     ELSE /\ position' = [position EXCEPT ![thread[t].segment] = thread[t].within]
          /\ Goes(t, [thread[t] EXCEPT !.step = "read_segment"])
          /\ UNCHANGED <<gil, lock, pool, lib, calls, crashed, refused, history>>

(* What is to be read of the segment, and what its file object can give.   *)
Wanted(t) ==
  LET rest == lib.sizes[thread[t].segment] - thread[t].within
      more == thread[t].room - Len(thread[t].data)
  IN  IF more > rest THEN rest ELSE more

BytesOf(n, from, count) ==
  LET last == IF from + count > Files[n] THEN Files[n] ELSE from + count
  IN  [k \in 1 .. (IF last > from THEN last - from ELSE 0) |-> <<n, from + k>>]

NextSegments(n) == {m \in n + 1 .. Len(lib.sizes) : lib.sizes[m] > 0}

(* The file object gives some of what is wanted: the number of bytes its   *)
(* read returns is taken as it is (bound: no more than it was asked for).  *)
(* The read goes on in the next segment that is not empty, when this one   *)
(* gave all that was wanted and more is to be read.                        *)
ReadSegmentData(t) ==
  /\ At(t, "read_segment") /\ gil \in {Nobody, t}
  /\ IF pool # "live" THEN UsesFreedPool
     ELSE \E count \in 0 .. Wanted(t) :
       LET n     == thread[t].segment
           bytes == BytesOf(n, position[n], count)
           data  == thread[t].data \o bytes
           next  == NextSegments(n)
       IN  /\ position' = [position EXCEPT ![n] = @ + Len(bytes)]
           /\ lib' = [lib EXCEPT !.offset = @ + Len(bytes)]
           /\ GoesAndMoves(t,
                IF Len(bytes) = Wanted(t) /\ Len(data) < thread[t].room /\ next # {}
                THEN [thread[t] EXCEPT !.data = data, !.step = "seek_segment", !.within = 0,
                                       !.segment = Min(next)]
                ELSE [thread[t] EXCEPT !.data = data, !.step = "unlock",
                                       !.short = Len(bytes) < Wanted(t)])
           /\ UNCHANGED <<gil, lock, pool, calls, crashed, refused, history>>

(* A method of the file object raises an exception.                        *)
FileObjectRaises(t) ==
  /\ thread[t].step \in {"seek_segment", "read_segment"} /\ ~crashed
  /\ gil \in {Nobody, t} /\ pool = "live"
  /\ Goes(t, [thread[t] EXCEPT !.step = "unlock", !.failed = TRUE])
  /\ raised' = TRUE
  /\ UNCHANGED <<gil, lock, pool, lib, position, calls, crashed, refused, sought, taken, lost>>

(* The data goes to the caller, or is dropped when the read failed; the    *)
(* offset of the handle stays behind what was read of it.                  *)
ReleaseLock(t) ==
  /\ At(t, "unlock")
  /\ lock' = Nobody
  /\ IF sought THEN UNCHANGED <<taken, lost>>
     ELSE /\ taken' = taken \o thread[t].data
          /\ lost' = IF thread[t].failed THEN lost \cup (Len(taken) + 1 .. Len(taken')) ELSE lost
  /\ Goes(t, [thread[t] EXCEPT !.step = "return",
                               !.data = IF thread[t].failed THEN << >> ELSE @])
  /\ UNCHANGED <<gil, pool, lib, position, calls, crashed, refused, sought, raised>>

-----------------------------------------------------------------------------
Init ==
  /\ gil = Nobody /\ lock = Nobody /\ pool = "none" /\ lib = ClosedLib
  /\ position = [n \in 1 .. Len(Files) |-> 0]
  /\ thread = [t \in Threads |-> Idle]
  /\ calls = 0 /\ crashed = FALSE /\ refused = FALSE
  /\ sought = FALSE /\ taken = << >> /\ lost = {} /\ raised = FALSE

Library(t) ==
  \/ GetSize(t) \/ OpenFileIoPool(t) \/ SeekOffset(t) \/ ReadRefused(t) \/ GrabLock(t)
  \/ FindSegment(t) \/ SeekSegmentOffset(t) \/ ReadSegmentData(t) \/ FileObjectRaises(t)
  \/ ReleaseLock(t) \/ Return(t)

Program(t) ==
  \/ PyOpenFileObjects(t) \/ PyReadBuffer(t) \/ PyReadBufferAtOffset(t) \/ PySeekOffset(t)

Next == PyClose \/ \E t \in Threads : Program(t) \/ Library(t)

Spec == Init /\ [][Next]_vars

(* A call goes on by itself until it returns; nothing is assumed of which  *)
(* thread gets a lock that several wait for.                               *)
FairSpec == Spec /\ \A t \in Threads : WF_vars(Library(t))
-----------------------------------------------------------------------------
(* Properties.                                                             *)

Steps == {"none", "size", "opened", "seek", "lock", "stream", "seek_segment",
          "read_segment", "unlock", "return"}

(* Every variable has its type; the lock is held by a thread that reads,   *)
(* and the GIL by nobody between the steps (Py_BEGIN_ALLOW_THREADS).       *)
TypeOK ==
  /\ gil = Nobody /\ lock \in Threads \cup {Nobody}
  /\ pool \in {"none", "live", "freed"}
  /\ lib.open \in BOOLEAN /\ lib.sizes \in Seq(Nat) /\ lib.offset \in Nat
  /\ \A n \in DOMAIN position : position[n] \in Nat
  /\ \A t \in Threads :
       /\ DOMAIN thread[t] = DOMAIN Idle /\ thread[t].step \in Steps
       /\ lock = t <=> thread[t].step \in {"stream", "seek_segment", "read_segment", "unlock"}
  /\ calls \in 0 .. MaxCalls
  /\ {crashed, refused, sought, raised} \subseteq BOOLEAN

Reading(t) == thread[t].step \in {"stream", "seek_segment", "read_segment", "unlock"}

(* read_buffer_at_offset gives the bytes at its offset, whatever other     *)
(* threads do in between that does not move the offset of the handle; it   *)
(* gives less than asked for only before the end of the media, as the      *)
(* library has its sizes, or where a file object gave less than the        *)
(* library asked it for in this call: a short read is not tried again.     *)
ReadAtOffsetExact ==
  \A t \in Threads :
    LET c == thread[t] IN
    c.call = "read_buffer_at_offset" /\ c.step = "return" /\ ~c.failed /\ ~c.moved =>
      /\ c.data = SubSeq(MediaBytes, c.offset + 1, c.offset + Len(c.data))
      /\ \/ Len(c.data) = c.size
         \/ c.offset + Len(c.data) >= Total(lib.sizes)
         \/ c.short

(* Threads that only read_buffer share the media between them: every byte  *)
(* up to the offset of the handle was taken by one thread's read, once, in *)
(* order.  The thread was given it too, unless its read failed: what such  *)
(* a read took is lost, for the offset stays behind it; without a file     *)
(* object that raised nothing is.                                          *)
EachByteOnce ==
  lib.open /\ ~sought /\ (\A t \in Threads : ~Reading(t)) =>
    /\ IsPrefix(taken, MediaBytes) /\ Len(taken) = lib.offset
    /\ lost \subseteq DOMAIN taken
    /\ lost # {} => raised

(* The library uses the pool of a handle after it was freed only when      *)
(* open_file_objects was called on the open handle, and refused; under the *)
(* bounds of Quiet, that no thread closes, or opens, a handle that another *)
(* one is in: the code does not keep them from it.                         *)
PoolOutlivesItsUse == crashed => refused

(* Every call of a method returns: no thread waits for the GIL while it    *)
(* keeps the lock of the handle from one that has the GIL.  Threads that   *)
(* starve one by calling forever are left out by MaxCalls.                 *)
CallsReturn ==
  \A t \in Threads : thread[t].step # "none" ~> (thread[t].step = "none" \/ crashed)
=============================================================================
