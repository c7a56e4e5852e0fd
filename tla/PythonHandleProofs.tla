------------------------- MODULE PythonHandleProofs -------------------------
(***************************************************************************)
(* Proofs about PythonHandle, for any threads, file objects and sizes.     *)
(*                                                                         *)
(* IInv, of the locks and the pool, is inductive by itself; BytesInv, of   *)
(* what the calls have read, is inductive with it.  That a read under way  *)
(* is at the offset of the handle unless a seek came in between, and that  *)
(* the file object it reads is where it was put, hold only because the     *)
(* lock keeps other reads away from both.  LossInv, of what failed reads   *)
(* have lost, is inductive with the two.                                   *)
(***************************************************************************)
EXTENDS PythonHandle, FoldLemmas, TLAPS

Shaped ==
  /\ DOMAIN thread = Threads
  /\ \A t \in Threads : DOMAIN thread[t] = DOMAIN Idle /\ thread[t].step \in Steps
  /\ DOMAIN lib = DOMAIN ClosedLib /\ lib.open \in BOOLEAN
  /\ crashed \in BOOLEAN /\ refused \in BOOLEAN

(* The lock of the handle is held by the thread that reads, and the        *)
(* interpreter lock by no thread that is in the library.                   *)
LocksHeld ==
  /\ gil = Nobody
  /\ \A t \in Threads : lock = t <=> Reading(t)

(* The library has a pool that lives, unless it was freed by the error     *)
(* path of an open that was refused.                                       *)
PoolHeld ==
  /\ lib.open /\ ~refused => pool = "live"
  /\ \A t \in Threads : Reading(t) => lib.open
  /\ \A t \in Threads : thread[t].step \in {"size", "opened"} => pool = "live" \/ refused
  /\ crashed => refused

IInv == Shaped /\ LocksHeld /\ PoolHeld

-----------------------------------------------------------------------------
LEMMA InitIInv == Init => IInv
<1> SUFFICES ASSUME Init PROVE IInv
  OBVIOUS
<1>1. \A t \in Threads : thread[t] = Idle
  BY DEF Init
<1>2. Idle.step = "none"
  BY DEF Idle
<1>3. Shaped
  BY <1>1, <1>2 DEF Init, Shaped, ClosedLib, Steps
<1>4. LocksHeld
  BY <1>1, <1>2, PythonHandleAssumptions DEF Init, LocksHeld, Reading, PythonHandleAssumptions
<1>5. PoolHeld
  BY <1>1, <1>2 DEF Init, PoolHeld, Reading, ClosedLib
<1> QED
  BY <1>3, <1>4, <1>5 DEF IInv

-----------------------------------------------------------------------------
(* What the steps of a thread do to the locals of the threads.             *)

(* One thread goes on to one of some steps, and the others stay.           *)
Moves(t, steps) ==
  /\ DOMAIN thread' = Threads
  /\ \A u \in Threads : DOMAIN thread'[u] = DOMAIN Idle
  /\ \A u \in Threads \ {t} : thread'[u].step = thread[u].step
  /\ thread'[t].step \in steps

LEMMA GoesStep ==
  ASSUME Shaped, NEW t \in Threads, NEW steps,
         NEW locals, DOMAIN locals = DOMAIN Idle, locals.step \in steps,
         Goes(t, locals) \/ GoesAndMoves(t, locals)
  PROVE  Moves(t, steps)
<1>1. DOMAIN thread = Threads /\ \A u \in Threads : DOMAIN thread[u] = DOMAIN Idle
  BY DEF Shaped
<1>2. CASE Goes(t, locals)
  BY <1>1, <1>2 DEF Goes, Moves
<1>3. CASE GoesAndMoves(t, locals)
  <2>1. \A u \in Threads \ {t} : thread'[u] = [thread[u] EXCEPT !.moved = TRUE]
    BY <1>3 DEF GoesAndMoves
  <2>2. thread'[t] = locals /\ DOMAIN thread' = Threads
    BY <1>3 DEF GoesAndMoves
  <2>3. "step" \in DOMAIN Idle
    BY DEF Idle
  <2>4. \A u \in Threads \ {t} :
          DOMAIN thread'[u] = DOMAIN Idle /\ thread'[u].step = thread[u].step
    BY <1>1, <2>1, <2>3
  <2> QED
    BY <2>2, <2>4 DEF Moves
<1> QED
  BY <1>2, <1>3

(* A step that takes the lock, gives it up, or does neither.               *)
LEMMA LocksStep ==
  ASSUME IInv, NEW t \in Threads, NEW steps, Moves(t, steps), gil' = Nobody,
         \/ lock' = lock /\ (Reading(t)' <=> Reading(t))
         \/ lock = Nobody /\ lock' = t /\ Reading(t)'
         \/ Reading(t) /\ lock' = Nobody /\ ~Reading(t)'
  PROVE  LocksHeld'
<1>1. \A u \in Threads \ {t} : Reading(u)' <=> Reading(u)
  BY DEF Moves, Reading
<1>2. \A u \in Threads : lock = u <=> Reading(u)
  BY DEF IInv, LocksHeld
<1>3. Nobody \notin Threads
  BY PythonHandleAssumptions DEF PythonHandleAssumptions
<1>4. \A u \in Threads : lock' = u <=> Reading(u)'
  BY <1>1, <1>2, <1>3
<1> QED
  BY <1>4 DEF LocksHeld

(* A step of a thread that is not opening and uses no pool that was freed. *)
LEMMA PoolStep ==
  ASSUME IInv, NEW t \in Threads, NEW steps, Moves(t, steps),
         pool' = pool, refused' = refused, crashed' = crashed,
         lib'.open = lib.open \/ (thread[t].step = "opened" /\ lib'.open),
         Reading(t)' => lib.open,
         thread'[t].step \in {"size", "opened"} => thread[t].step = "size"
  PROVE  PoolHeld'
<1>1. PoolHeld
  BY DEF IInv
<1>2. lib.open => lib'.open
  OBVIOUS
<1>3. \A u \in Threads : Reading(u)' => lib'.open
  BY <1>1, <1>2 DEF PoolHeld, Moves, Reading
<1>4. \A u \in Threads : thread'[u].step \in {"size", "opened"} => pool' = "live" \/ refused'
  BY <1>1 DEF PoolHeld, Moves
<1>5. lib'.open /\ ~refused' => pool' = "live"
  BY <1>1 DEF PoolHeld
<1>6. crashed' => refused'
  BY <1>1 DEF PoolHeld
<1> QED
  BY <1>3, <1>4, <1>5, <1>6 DEF PoolHeld

(* What is not changed but by opening, closing and the error path.         *)
Kept ==
  pool' = pool /\ refused' = refused /\ crashed' = crashed /\ gil' = Nobody

LibKept == DOMAIN lib' = DOMAIN lib /\ lib'.open = lib.open

(* A thread goes on, and takes the lock, gives it up, or does neither.     *)
LEMMA PlainStep ==
  ASSUME IInv, NEW t \in Threads, NEW steps \in SUBSET (Steps \ {"size", "opened"}),
         Moves(t, steps), Kept, LibKept,
         \/ lock' = lock /\ (Reading(t)' <=> Reading(t))
         \/ lock = Nobody /\ lock' = t /\ Reading(t)' /\ lib.open
         \/ Reading(t) /\ lock' = Nobody /\ ~Reading(t)'
  PROVE  IInv'
<1>1. Shaped /\ PoolHeld
  BY DEF IInv
<1>2. Shaped'
  BY <1>1 DEF Shaped, Moves, Kept, LibKept
<1>3. LocksHeld'
  BY LocksStep DEF Kept
<1>4. Reading(t)' => lib.open
  BY <1>1 DEF PoolHeld
<1>5. thread'[t].step \notin {"size", "opened"}
  BY DEF Moves
<1>6. /\ pool' = pool /\ refused' = refused /\ crashed' = crashed
      /\ lib'.open = lib.open \/ (thread[t].step = "opened" /\ lib'.open)
  BY DEF Kept, LibKept
<1>7. PoolHeld'
  BY <1>4, <1>5, <1>6, PoolStep, Zenon
<1> QED
  BY <1>2, <1>3, <1>7 DEF IInv

-----------------------------------------------------------------------------
(* Calls that enter the library, and their steps there.                    *)

LEMMA EnterStep ==
  ASSUME IInv, NEW t \in Threads, NEW locals, DOMAIN locals = DOMAIN Idle,
         locals.step \in {"lock", "seek"}, Enter(t, locals)
  PROVE  IInv'
<1>1. Moves(t, {locals.step})
  BY GoesStep DEF Enter, IInv
<1>2. Kept /\ LibKept /\ lock' = lock
  BY DEF Enter, Kept, LibKept, IInv, LocksHeld
<1>3. ~Reading(t) /\ ~Reading(t)'
  BY <1>1 DEF Enter, Reading, Idle, Moves
<1>4. {locals.step} \in SUBSET (Steps \ {"size", "opened"})
  BY DEF Steps
<1> QED
  BY <1>1, <1>2, <1>3, <1>4, PlainStep

LEMMA CallStep ==
  ASSUME IInv, NEW t \in Threads, PyReadBuffer(t) \/ PyReadBufferAtOffset(t) \/ PySeekOffset(t)
  PROVE  IInv'
<1>1. ASSUME NEW size, NEW offset,
             NEW r \in {[Idle EXCEPT !.call = "read_buffer", !.step = "lock", !.size = size],
                        [Idle EXCEPT !.call = "read_buffer_at_offset", !.step = "seek",
                                     !.size = size, !.offset = offset],
                        [Idle EXCEPT !.call = "seek_offset", !.step = "seek",
                                     !.offset = offset]}
      PROVE  DOMAIN r = DOMAIN Idle /\ r.step \in {"lock", "seek"}
  BY DEF Idle
<1>2. CASE PyReadBuffer(t)
  <2>1. PICK size \in 1 .. MaxRead :
          Enter(t, [Idle EXCEPT !.call = "read_buffer", !.step = "lock", !.size = size])
    BY <1>2 DEF PyReadBuffer
  <2> QED
    BY <1>1, <2>1, EnterStep
<1>3. CASE PyReadBufferAtOffset(t)
  <2>1. PICK size \in 1 .. MaxRead, offset \in 0 .. Total(Files) :
          Enter(t, [Idle EXCEPT !.call = "read_buffer_at_offset", !.step = "seek",
                                !.size = size, !.offset = offset])
    BY <1>3 DEF PyReadBufferAtOffset
  <2> QED
    BY <1>1, <2>1, EnterStep
<1>4. CASE PySeekOffset(t)
  <2>1. PICK offset \in 0 .. Total(Files) :
          Enter(t, [Idle EXCEPT !.call = "seek_offset", !.step = "seek", !.offset = offset])
    BY <1>4 DEF PySeekOffset
  <2> QED
    BY <1>1, <2>1, EnterStep
<1> QED
  BY <1>2, <1>3, <1>4

LEMMA SeekStep ==
  ASSUME IInv, NEW t \in Threads, SeekOffset(t)
  PROVE  IInv'
<1>1. Shaped
  BY DEF IInv
<1>2. Kept /\ LibKept /\ lock' = lock
  BY <1>1 DEF Shaped, SeekOffset, Kept, LibKept, IInv, LocksHeld, ClosedLib
<1>3. DOMAIN thread[t] = DOMAIN Idle /\ "step" \in DOMAIN Idle
  BY <1>1 DEF Shaped, Idle
<1>4. Moves(t, {"return", "lock"})
  <2>1. CASE lib.open
    <3> DEFINE r == [thread[t] EXCEPT !.moved = FALSE,
                       !.step = IF thread[t].call = "seek_offset" THEN "return" ELSE "lock"]
    <3>1. GoesAndMoves(t, r)
      BY <2>1 DEF SeekOffset
    <3>2. DOMAIN r = DOMAIN Idle /\ r.step \in {"return", "lock"}
      BY <1>3
    <3> HIDE DEF r
    <3> QED
      BY <1>1, <3>1, <3>2, GoesStep DEF Moves
  <2>2. CASE ~lib.open
    <3> DEFINE r == [thread[t] EXCEPT !.step = "return", !.failed = TRUE]
    <3>1. Goes(t, r)
      BY <2>2 DEF SeekOffset
    <3>2. DOMAIN r = DOMAIN Idle /\ r.step \in {"return", "lock"}
      BY <1>3
    <3> HIDE DEF r
    <3> QED
      BY <1>1, <3>1, <3>2, GoesStep DEF Moves
  <2> QED
    BY <2>1, <2>2
<1>5. ~Reading(t) /\ ~Reading(t)'
  BY <1>4 DEF SeekOffset, At, Reading, Moves
<1> QED
  BY <1>2, <1>3, <1>4, <1>5, PlainStep DEF Steps

(* The lock is waited for and taken, or not needed.                        *)
LEMMA LockStep ==
  ASSUME IInv, NEW t \in Threads, ReadRefused(t) \/ GrabLock(t)
  PROVE  IInv'
<1>1. Shaped
  BY DEF IInv
<1>2. DOMAIN thread[t] = DOMAIN Idle /\ "step" \in DOMAIN Idle
  BY <1>1 DEF Shaped, Idle
<1>3. Kept /\ LibKept /\ ~Reading(t)
  BY DEF ReadRefused, GrabLock, Kept, LibKept, IInv, LocksHeld, At, Reading
<1>4. CASE ReadRefused(t)
  <2> DEFINE r == [thread[t] EXCEPT !.step = "return", !.failed = ~lib.open]
  <2>1. Goes(t, r)
    BY <1>4 DEF ReadRefused
  <2>2. DOMAIN r = DOMAIN Idle /\ r.step \in {"return"}
    BY <1>2
  <2> HIDE DEF r
  <2>3. Moves(t, {"return"})
    BY <1>1, <2>1, <2>2, GoesStep
  <2>4. lock' = lock /\ ~Reading(t)'
    BY <1>4, <2>3 DEF ReadRefused, Moves, Reading
  <2> QED
    BY <1>3, <2>3, <2>4, PlainStep DEF Steps
<1>5. CASE GrabLock(t)
  <2> DEFINE r == [thread[t] EXCEPT !.step = "stream", !.room = Clamped(thread[t].size)]
  <2>1. Goes(t, r)
    BY <1>5 DEF GrabLock
  <2>2. DOMAIN r = DOMAIN Idle /\ r.step \in {"stream"}
    BY <1>2
  <2> HIDE DEF r
  <2>3. Moves(t, {"stream"})
    BY <1>1, <2>1, <2>2, GoesStep
  <2>4. lock = Nobody /\ lock' = t /\ lib.open /\ Reading(t)'
    BY <1>5, <2>3 DEF GrabLock, Moves, Reading
  <2> QED
    BY <1>3, <2>3, <2>4, PlainStep DEF Steps
<1> QED
  BY <1>4, <1>5

(* What a read does with the lock held.                                    *)
LEMMA ReadingGoesOn ==
  ASSUME IInv, NEW t \in Threads, Reading(t), Kept, LibKept, lock' = lock,
         Moves(t, {"seek_segment", "read_segment", "unlock"})
  PROVE  IInv'
<1>1. Reading(t)'
  BY DEF Moves, Reading
<1> QED
  BY <1>1, PlainStep DEF Steps

LEMMA FindStep ==
  ASSUME IInv, NEW t \in Threads, FindSegment(t)
  PROVE  IInv'
<1>1. Shaped /\ DOMAIN thread[t] = DOMAIN Idle /\ "step" \in DOMAIN Idle
  BY DEF IInv, Shaped, Idle
<1>2. Reading(t) /\ Kept /\ LibKept /\ lock' = lock
  BY DEF FindSegment, At, Reading, Kept, LibKept, IInv, LocksHeld
<1>3. CASE Goes(t, [thread[t] EXCEPT !.step = "unlock"])
  <2> DEFINE r == [thread[t] EXCEPT !.step = "unlock"]
  <2>1. DOMAIN r = DOMAIN Idle /\ r.step \in {"seek_segment", "read_segment", "unlock"}
    BY <1>1
  <2> HIDE DEF r
  <2> QED
    BY <1>1, <1>2, <1>3, <2>1, GoesStep, ReadingGoesOn DEF r
<1>4. ASSUME NEW n,
             Goes(t, [thread[t] EXCEPT !.step = "seek_segment", !.segment = n,
                                       !.within = lib.offset - StartOf(n)])
      PROVE  IInv'
  <2> DEFINE r == [thread[t] EXCEPT !.step = "seek_segment", !.segment = n,
                                    !.within = lib.offset - StartOf(n)]
  <2>1. DOMAIN r = DOMAIN Idle /\ r.step \in {"seek_segment", "read_segment", "unlock"}
    BY <1>1
  <2>2. Goes(t, r)
    BY <1>4
  <2> HIDE DEF r
  <2> QED
    BY <1>1, <1>2, <2>1, <2>2, GoesStep, ReadingGoesOn
<1> QED
  BY <1>3, <1>4 DEF FindSegment

(* A pool that was freed is used only after an open that was refused.      *)
LEMMA CrashStep ==
  ASSUME IInv, NEW t \in Threads, Reading(t), UsesFreedPool, pool # "live"
  PROVE  IInv'
<1>1. Shaped /\ LocksHeld /\ PoolHeld
  BY DEF IInv
<1>2. Shaped'
  BY <1>1 DEF Shaped, UsesFreedPool
<1>3. LocksHeld'
  BY <1>1 DEF LocksHeld, Reading, UsesFreedPool
<1>4. refused
  BY <1>1 DEF PoolHeld, Shaped
<1>5. PoolHeld'
  BY <1>1, <1>4 DEF PoolHeld, Reading, UsesFreedPool
<1> QED
  BY <1>2, <1>3, <1>5 DEF IInv

LEMMA SegmentStep ==
  ASSUME IInv, NEW t \in Threads,
         SeekSegmentOffset(t) \/ ReadSegmentData(t) \/ FileObjectRaises(t)
  PROVE  IInv'
<1>1. Shaped /\ DOMAIN thread[t] = DOMAIN Idle /\ "step" \in DOMAIN Idle
  BY SMTT(30) DEF IInv, Shaped, Idle
<1>2. Reading(t)
  BY DEF SeekSegmentOffset, ReadSegmentData, FileObjectRaises, At, Reading
<1>3. CASE pool # "live"
  <2>1. UsesFreedPool
    BY <1>3 DEF SeekSegmentOffset, ReadSegmentData, FileObjectRaises
  <2> QED
    BY <1>2, <1>3, <2>1, CrashStep
<1>4. CASE pool = "live"
  <2>1. Kept /\ LibKept /\ lock' = lock
    BY <1>1, <1>4 DEF SeekSegmentOffset, ReadSegmentData, FileObjectRaises,
       Shaped, Kept, LibKept, IInv, LocksHeld, ClosedLib
  <2>2. CASE SeekSegmentOffset(t)
    <3> DEFINE r == [thread[t] EXCEPT !.step = "read_segment"]
    <3>1. DOMAIN r = DOMAIN Idle /\ r.step \in {"seek_segment", "read_segment", "unlock"}
      BY <1>1
    <3>2. Goes(t, r)
      BY <1>4, <2>2 DEF SeekSegmentOffset
    <3> HIDE DEF r
    <3> QED
      BY <1>1, <1>2, <2>1, <3>1, <3>2, GoesStep, ReadingGoesOn
  <2>3. CASE FileObjectRaises(t)
    <3> DEFINE r == [thread[t] EXCEPT !.step = "unlock", !.failed = TRUE]
    <3>1. DOMAIN r = DOMAIN Idle /\ r.step \in {"seek_segment", "read_segment", "unlock"}
      BY <1>1
    <3>2. Goes(t, r)
      BY <2>3 DEF FileObjectRaises
    <3> HIDE DEF r
    <3> QED
      BY <1>1, <1>2, <2>1, <3>1, <3>2, GoesStep, ReadingGoesOn
  <2>4. CASE ReadSegmentData(t)
    <3> DEFINE n == thread[t].segment
    <3>1. PICK count, bytes, data, next :
            /\ bytes = BytesOf(n, position[n], count)
            /\ data = thread[t].data \o bytes /\ next = NextSegments(n)
            /\ GoesAndMoves(t,
                 IF Len(bytes) = Wanted(t) /\ Len(data) < thread[t].room /\ next # {}
                 THEN [thread[t] EXCEPT !.data = data, !.step = "seek_segment", !.within = 0,
                                        !.segment = Min(next)]
                 ELSE [thread[t] EXCEPT !.data = data, !.step = "unlock",
                                        !.short = Len(bytes) < Wanted(t)])
      BY <1>4, <2>4 DEF ReadSegmentData
    <3> DEFINE r == IF Len(bytes) = Wanted(t) /\ Len(data) < thread[t].room /\ next # {}
                    THEN [thread[t] EXCEPT !.data = data, !.step = "seek_segment", !.within = 0,
                                           !.segment = Min(next)]
                    ELSE [thread[t] EXCEPT !.data = data, !.step = "unlock",
                                           !.short = Len(bytes) < Wanted(t)]
    <3>2. DOMAIN r = DOMAIN Idle /\ r.step \in {"seek_segment", "read_segment", "unlock"}
      BY <1>1
    <3>3. GoesAndMoves(t, r)
      BY <3>1
    <3> HIDE DEF r
    <3> QED
      BY <1>1, <1>2, <2>1, <3>2, <3>3, GoesStep, ReadingGoesOn, SMTT(30)
  <2> QED
    BY <2>2, <2>3, <2>4
<1> QED
  BY <1>3, <1>4

LEMMA UnlockStep ==
  ASSUME IInv, NEW t \in Threads, ReleaseLock(t)
  PROVE  IInv'
<1>1. Shaped /\ DOMAIN thread[t] = DOMAIN Idle /\ "step" \in DOMAIN Idle
  BY DEF IInv, Shaped, Idle
<1> DEFINE r == [thread[t] EXCEPT !.step = "return",
                                  !.data = IF thread[t].failed THEN << >> ELSE @]
<1>2. Goes(t, r) /\ Kept /\ LibKept /\ lock' = Nobody /\ Reading(t)
  BY DEF ReleaseLock, Kept, LibKept, IInv, LocksHeld, At, Reading
<1>3. DOMAIN r = DOMAIN Idle /\ r.step \in {"return"}
  BY <1>1
<1> HIDE DEF r
<1>4. Moves(t, {"return"})
  BY <1>1, <1>2, <1>3, GoesStep
<1>5. ~Reading(t)'
  BY <1>4 DEF Moves, Reading
<1> QED
  BY <1>2, <1>4, <1>5, PlainStep DEF Steps

LEMMA ReturnStep ==
  ASSUME IInv, NEW t \in Threads, Return(t)
  PROVE  IInv'
<1>1. Goes(t, Idle) /\ Kept /\ LibKept /\ lock' = lock /\ ~Reading(t)
  BY DEF Return, Goes, Kept, LibKept, At, Reading
<1>2. Moves(t, {"none"})
  BY <1>1, GoesStep DEF IInv, Idle
<1>3. ~Reading(t)'
  BY <1>2 DEF Moves, Reading
<1> QED
  BY <1>1, <1>2, <1>3, PlainStep DEF Steps

-----------------------------------------------------------------------------
(* Opening and closing.                                                    *)
(* An open that is refused frees the pool, and one that starts has its own.*)
LEMMA OpenStep ==
  ASSUME IInv, NEW t \in Threads, PyOpenFileObjects(t)
  PROVE  IInv'
<1>1. Shaped /\ LocksHeld /\ PoolHeld
  BY DEF IInv
<1>2. ~crashed /\ \A u \in Threads : thread[u] = Idle
  BY DEF PyOpenFileObjects, Quiet, history
<1>3. Idle.step = "none"
  BY DEF Idle
<1>4. gil' = gil /\ lock' = lock /\ lib' = lib /\ crashed' = crashed
  BY DEF PyOpenFileObjects
<1>5. CASE /\ pool = "live" \/ lib.open
           /\ pool' = IF lib.open THEN "freed" ELSE "none"
           /\ refused' = lib.open
           /\ UNCHANGED thread
  <2>1. Shaped'
    BY <1>1, <1>4, <1>5 DEF Shaped
  <2>2. LocksHeld'
    BY <1>1, <1>4, <1>5 DEF LocksHeld, Reading
  <2>3. PoolHeld'
    BY <1>1, <1>2, <1>3, <1>4, <1>5 DEF PoolHeld, Reading, Shaped
  <2> QED
    BY <2>1, <2>2, <2>3 DEF IInv
<1>6. CASE /\ pool = "none" /\ ~lib.open
           /\ pool' = "live"
           /\ Goes(t, [Idle EXCEPT !.call = "open_file_objects", !.step = "size", !.segment = 1])
           /\ UNCHANGED refused
  <2> DEFINE r == [Idle EXCEPT !.call = "open_file_objects", !.step = "size", !.segment = 1]
  <2>1. DOMAIN r = DOMAIN Idle /\ r.step \in {"size"} /\ Goes(t, r)
    BY <1>6 DEF Idle
  <2> HIDE DEF r
  <2>2. Moves(t, {"size"})
    BY <1>1, <2>1, GoesStep
  <2>3. Shaped'
    BY <1>1, <1>4, <1>6, <2>2 DEF Shaped, Moves, Steps
  <2>4. ~Reading(t) /\ ~Reading(t)'
    BY <1>2, <1>3, <2>2 DEF Reading, Moves
  <2>5. LocksHeld'
    BY <1>1, <1>4, <2>2, <2>4, LocksStep DEF LocksHeld
  <2>6. \A u \in Threads : ~Reading(u)'
    BY <1>2, <1>3, <2>2, <2>4 DEF Reading, Moves
  <2>7. PoolHeld'
    BY <1>2, <1>4, <1>6, <2>6 DEF PoolHeld
  <2> QED
    BY <2>3, <2>5, <2>7 DEF IInv
<1> QED
  BY <1>5, <1>6 DEF PyOpenFileObjects

(* Until the handle is open its pool lives.                                *)
LEMMA OpeningStep ==
  ASSUME IInv, NEW t \in Threads, GetSize(t) \/ OpenFileIoPool(t)
  PROVE  IInv'
<1>1. Shaped /\ LocksHeld /\ PoolHeld
  BY DEF IInv
<1>2. DOMAIN thread[t] = DOMAIN Idle /\ "step" \in DOMAIN Idle
  BY <1>1 DEF Shaped, Idle
<1>3. Kept /\ lock' = lock /\ ~Reading(t)
  BY <1>1 DEF GetSize, OpenFileIoPool, Kept, LocksHeld, At, Reading
<1>4. CASE GetSize(t)
  <2>1. PICK size :
          Goes(t, [thread[t] EXCEPT
            !.data = Append(@, size), !.within = size, !.segment = @ + 1,
            !.step = IF thread[t].segment = Len(Files) THEN "opened" ELSE "size"])
    BY <1>4 DEF GetSize
  <2> DEFINE r == [thread[t] EXCEPT
            !.data = Append(@, size), !.within = size, !.segment = @ + 1,
            !.step = IF thread[t].segment = Len(Files) THEN "opened" ELSE "size"]
  <2>2. DOMAIN r = DOMAIN Idle /\ r.step \in {"size", "opened"}
    BY <1>2
  <2>3. Goes(t, r)
    BY <2>1
  <2> HIDE DEF r
  <2>4. Moves(t, {"size", "opened"})
    BY <1>1, <2>2, <2>3, GoesStep
  <2>5. ~Reading(t)'
    BY <2>4 DEF Moves, Reading
  <2>6. lib' = lib /\ thread[t].step = "size"
    BY <1>4 DEF GetSize, At, history
  <2>7. Shaped'
    BY <1>1, <1>3, <2>4, <2>6 DEF Shaped, Moves, Kept, Steps
  <2>8. LocksHeld'
    BY <1>3, <2>4, <2>5, LocksStep DEF Kept
  <2>9. PoolHeld'
    BY <1>3, <2>4, <2>5, <2>6, PoolStep DEF Kept
  <2> QED
    BY <2>7, <2>8, <2>9 DEF IInv
<1>5. CASE OpenFileIoPool(t)
  <2> DEFINE r == [thread[t] EXCEPT !.step = "return", !.data = << >>]
  <2>1. Goes(t, r)
    BY <1>5 DEF OpenFileIoPool
  <2>2. DOMAIN r = DOMAIN Idle /\ r.step \in {"return"}
    BY <1>2
  <2> HIDE DEF r
  <2>3. Moves(t, {"return"})
    BY <1>1, <2>1, <2>2, GoesStep
  <2>4. ~Reading(t)' /\ thread'[t].step \notin {"size", "opened"}
    BY <2>3 DEF Moves, Reading
  <2>5. DOMAIN lib' = DOMAIN ClosedLib /\ lib'.open = TRUE /\ thread[t].step = "opened"
    BY <1>5 DEF OpenFileIoPool, ClosedLib, At
  <2>6. Shaped'
    BY <1>1, <1>3, <2>3, <2>5 DEF Shaped, Moves, Kept, Steps
  <2>7. LocksHeld'
    BY <1>3, <2>3, <2>4, LocksStep DEF Kept
  <2>8. PoolHeld'
    BY <1>3, <2>3, <2>4, <2>5, PoolStep DEF Kept
  <2> QED
    BY <2>6, <2>7, <2>8 DEF IInv
<1> QED
  BY <1>4, <1>5

(* A pool that was freed goes with the handle.                             *)
LEMMA CloseStep ==
  ASSUME IInv, PyClose
  PROVE  IInv'
<1>1. Shaped /\ LocksHeld /\ PoolHeld
  BY DEF IInv
<1>2. ~crashed /\ \A u \in Threads : thread[u] = Idle
  BY DEF PyClose, Quiet, history
<1>3. /\ gil' = gil /\ lock' = lock /\ thread' = thread /\ lib' = ClosedLib
      /\ crashed' = crashed /\ refused' = FALSE
  BY DEF PyClose
<1>4. Shaped'
  BY <1>1, <1>3 DEF Shaped, ClosedLib
<1>5. LocksHeld'
  BY <1>1, <1>3 DEF LocksHeld, Reading
<1>6. PoolHeld'
  BY <1>2, <1>3 DEF PoolHeld, Reading, ClosedLib, Idle
<1> QED
  BY <1>4, <1>5, <1>6 DEF IInv

-----------------------------------------------------------------------------
(* In every reachable state of any number of threads, whatever they call,  *)
(* the locks and the pool are as IInv says.                                *)
THEOREM SpecIInv == Spec => []IInv
<1>1. ASSUME IInv, [Next]_vars PROVE IInv'
  <2>1. CASE PyClose
    BY <1>1, <2>1, CloseStep
  <2>2. ASSUME NEW t \in Threads, Program(t) PROVE IInv'
    BY <1>1, <2>2, OpenStep, CallStep DEF Program
  <2>3. ASSUME NEW t \in Threads, Library(t) PROVE IInv'
    BY <1>1, <2>3, OpeningStep, SeekStep, LockStep, FindStep, SegmentStep, UnlockStep, ReturnStep
       DEF Library
  <2>4. CASE UNCHANGED vars
    <3>1. Shaped' /\ LocksHeld' /\ PoolHeld'
      BY <1>1, <2>4 DEF IInv, Shaped, LocksHeld, PoolHeld, Reading, vars
    <3> QED
      BY <3>1 DEF IInv
  <2> QED
    BY <1>1, <2>1, <2>2, <2>3, <2>4 DEF Next
<1> QED
  BY InitIInv, <1>1, PTL DEF Spec

(* The read/write lock of the handle keeps reads apart: no two threads are *)
(* between taking it and giving it up (libsmraw_handle_read_buffer), and   *)
(* no thread keeps the interpreter lock while it waits for that one.       *)
THEOREM ReadsExcludeEachOther ==
  Spec => [](gil = Nobody /\ \A t, u \in Threads : Reading(t) /\ Reading(u) => t = u)
<1>1. ASSUME IInv
      PROVE  gil = Nobody /\ \A t, u \in Threads : Reading(t) /\ Reading(u) => t = u
  BY <1>1 DEF IInv, LocksHeld
<1> QED
  BY SpecIInv, <1>1, PTL

(* Only an open_file_objects that was refused lets the library use a pool  *)
(* that was freed, for any threads and file objects, also when getting a   *)
(* size, reading or closing fails.                                         *)
THEOREM PoolAlwaysOutlivesItsUse == Spec => []PoolOutlivesItsUse
<1>1. ASSUME IInv PROVE PoolOutlivesItsUse
  BY <1>1 DEF IInv, PoolHeld, PoolOutlivesItsUse
<1> QED
  BY SpecIInv, <1>1, PTL

-----------------------------------------------------------------------------
(* The bytes of the media.                                                 *)
Pairs == Nat \X Nat

(* Where the segments of the handle start and end, and what is in them.    *)
MediaFits(sizes, n, total) ==
  /\ Len(sizes) = n /\ total \in Nat /\ Total(sizes) = total
  /\ MediaBytes \in Seq(Pairs) /\ Len(MediaBytes) = total
  /\ \A k \in 1 .. n :
       /\ StartOf(k) \in Nat /\ StartOf(k) + sizes[k] <= total
       /\ \A i \in 1 .. sizes[k] : MediaBytes[StartOf(k) + i] = <<k, i>>
       /\ (\A i \in k + 1 .. n : sizes[i] = 0) => total = StartOf(k) + sizes[k]
       /\ \A m \in k + 1 .. n :
            (\A i \in k + 1 .. m - 1 : sizes[i] = 0) => StartOf(m) = StartOf(k) + sizes[k]

(* The segments lie in the media one after the other, each with its bytes. *)
LEMMA MediaFacts ==
  ASSUME lib.sizes \in Seq(Nat)
  PROVE  MediaFits(lib.sizes, Len(lib.sizes), Total(lib.sizes))
<1>1. PICK sizes, n : sizes = lib.sizes /\ n = Len(sizes)
  OBVIOUS
<1>2. sizes \in Seq(Nat) /\ n \in Nat /\ \A k \in 1 .. n : sizes[k] \in Nat
  BY <1>1
<1>3. PICK parts : parts = [k \in 1 .. n |-> [p \in 1 .. sizes[k] |-> <<k, p>>]]
  OBVIOUS
<1>4. \A k \in 1 .. n : /\ parts[k] = [p \in 1 .. sizes[k] |-> <<k, p>>]
                        /\ parts[k] \in Seq(Pairs) /\ Len(parts[k]) = sizes[k]
  <2> TAKE k \in 1 .. n
  <2>1. parts[k] = [p \in 1 .. sizes[k] |-> <<k, p>>]
    BY <1>3
  <2>2. PICK m \in Nat : m = sizes[k]
    BY <1>2
  <2>3. \A p \in 1 .. m : <<k, p>> \in Pairs
    BY <1>2, <2>2 DEF Pairs
  <2>4. parts[k] = [p \in 1 .. m |-> <<k, p>>]
    BY <2>1, <2>2
  <2>5. parts[k] \in [1 .. m -> Pairs]
    BY <2>3, <2>4
  <2>6. parts[k] \in Seq(Pairs) /\ Len(parts[k]) = m
    BY <2>5
  <2> QED
    BY <2>1, <2>2, <2>6
<1>5. parts \in Seq(Seq(Pairs)) /\ Len(parts) = n
  BY <1>2, <1>3, <1>4
<1>6. SizesOf(parts) = sizes
  <2>1. SizesOf(parts) = [k \in 1 .. n |-> sizes[k]]
    BY <1>4, <1>5 DEF SizesOf
  <2> QED
    BY <1>1, <1>2, <2>1
<1>7. PICK starts : AreStarts(starts, sizes)
  BY <1>2, StartsExist
<1>8. /\ starts \in [1 .. n + 1 -> Nat] /\ starts[1] = 0
      /\ \A k \in 1 .. n : starts[k + 1] = starts[k] + sizes[k]
  BY <1>1, <1>7 DEF AreStarts
<1>9. \A k \in 1 .. n + 1 : SumOf(SubSeq(sizes, 1, k - 1)) = starts[k]
  BY <1>1, <1>2, <1>7, SumOfFirst
<1>10. Total(sizes) = starts[n + 1] /\ \A k \in 1 .. n : StartOf(k) = starts[k]
  <2>1. Total(sizes) = SumOf(sizes)
    BY DEF Total, SumOf
  <2>2. \A k : StartOf(k) = SumOf(SubSeq(sizes, 1, k - 1))
    BY <1>1 DEF StartOf, Total, SumOf
  <2> QED
    BY <1>1, <1>2, <1>7, <1>9, <2>1, <2>2, SumIsEnd
<1>11. MediaBytes = FlattenSeq(parts)
  BY <1>1, <1>3 DEF MediaBytes
<1>12. /\ MediaBytes \in Seq(Pairs) /\ Len(MediaBytes) = starts[n + 1]
       /\ \A k \in 1 .. n : \A i \in 1 .. sizes[k] : MediaBytes[starts[k] + i] = parts[k][i]
  <2>1. AreStarts(starts, SizesOf(parts))
    BY <1>6, <1>7
  <2>2. /\ FlattenSeq(parts) \in Seq(Pairs)
        /\ Len(FlattenSeq(parts)) = starts[n + 1]
        /\ \A k \in 1 .. n : \A i \in 1 .. Len(parts[k]) :
             FlattenSeq(parts)[starts[k] + i] = parts[k][i]
    <3>1. /\ FlattenSeq(parts) \in Seq(Pairs)
          /\ Len(FlattenSeq(parts)) = starts[Len(parts) + 1]
          /\ \A k \in 1 .. Len(parts) : \A i \in 1 .. Len(parts[k]) :
               FlattenSeq(parts)[starts[k] + i] = parts[k][i]
      <4>1. parts \in Seq(Seq(Pairs))
        BY <1>5
      <4> QED
        BY ONLY <4>1, <2>1, FlattenParts
    <3> QED
      BY <1>5, <3>1
  <2> QED
    BY <1>4, <1>11, <2>2
<1>13. ASSUME NEW k \in 1 .. n
       PROVE  /\ starts[k] \in Nat /\ starts[k + 1] \in Nat
              /\ starts[k + 1] = starts[k] + sizes[k] /\ starts[k + 1] <= starts[n + 1]
              /\ \A i \in 1 .. sizes[k] : parts[k][i] = <<k, i>>
  <2>1. k \in 1 .. n + 1 /\ k + 1 \in 1 .. n + 1 /\ k + 1 <= n + 1 /\ n + 1 \in 1 .. n + 1
    BY <1>2
  <2>2. starts[k + 1] <= starts[n + 1]
    BY <1>1, <1>2, <1>7, <2>1, StartsGrow
  <2> QED
    BY <1>4, <1>8, <2>1, <2>2, ZenonT(40)
<1>14. ASSUME NEW k \in 1 .. n, NEW m \in k + 1 .. n + 1, \A i \in k + 1 .. m - 1 : sizes[i] = 0
       PROVE  starts[m] = starts[k] + sizes[k]
  <2>1. k + 1 \in 1 .. n + 1
    BY <1>2
  <2>2. starts[m] = starts[k + 1]
    BY <1>1, <1>2, <1>7, <1>14, <2>1, StartsSkip
  <2> QED
    BY <1>13, <2>2
<1>15. ASSUME NEW k \in 1 .. n
       PROVE  /\ StartOf(k) \in Nat /\ StartOf(k) + sizes[k] <= starts[n + 1]
              /\ \A i \in 1 .. sizes[k] : MediaBytes[StartOf(k) + i] = <<k, i>>
              /\ (\A i \in k + 1 .. n : sizes[i] = 0) => starts[n + 1] = StartOf(k) + sizes[k]
              /\ \A m \in k + 1 .. n :
                   (\A i \in k + 1 .. m - 1 : sizes[i] = 0) => StartOf(m) = StartOf(k) + sizes[k]
  <2>1. StartOf(k) \in Nat /\ StartOf(k) + sizes[k] <= starts[n + 1]
    BY <1>10, <1>13
  <2>2. \A i \in 1 .. sizes[k] : MediaBytes[StartOf(k) + i] = <<k, i>>
    BY <1>10, <1>12, <1>13
  <2>3. ASSUME \A i \in k + 1 .. n : sizes[i] = 0 PROVE starts[n + 1] = StartOf(k) + sizes[k]
    <3>1. n + 1 \in k + 1 .. n + 1 /\ (n + 1) - 1 = n
      BY <1>2
    <3> QED
      BY <1>10, <1>14, <2>3, <3>1
  <2>4. ASSUME NEW m \in k + 1 .. n, \A i \in k + 1 .. m - 1 : sizes[i] = 0
        PROVE  StartOf(m) = StartOf(k) + sizes[k]
    <3>1. m \in k + 1 .. n + 1 /\ m \in 1 .. n
      BY <1>2
    <3> QED
      BY <1>10, <1>14, <2>4, <3>1
  <2> QED
    BY <2>1, <2>2, <2>3, <2>4
<1>16. starts[n + 1] \in Nat
  BY <1>2, <1>8
<1>17. MediaFits(sizes, n, Total(sizes))
  <2>1. PICK total : total = starts[n + 1]
    OBVIOUS
  <2>2. /\ Len(sizes) = n /\ total \in Nat /\ Total(sizes) = total
        /\ MediaBytes \in Seq(Pairs) /\ Len(MediaBytes) = total
    BY <1>1, <1>10, <1>12, <1>16, <2>1
  <2>3. \A k \in 1 .. n :
          /\ StartOf(k) \in Nat /\ StartOf(k) + sizes[k] <= total
          /\ \A i \in 1 .. sizes[k] : MediaBytes[StartOf(k) + i] = <<k, i>>
          /\ (\A i \in k + 1 .. n : sizes[i] = 0) => total = StartOf(k) + sizes[k]
          /\ \A m \in k + 1 .. n :
               (\A i \in k + 1 .. m - 1 : sizes[i] = 0) => StartOf(m) = StartOf(k) + sizes[k]
    BY <1>15, <2>1, Zenon
  <2>4. MediaFits(sizes, n, total)
    BY <2>2, <2>3, Zenon DEF MediaFits
  <2> QED
    BY <2>2, <2>4
<1> QED
  BY <1>1, <1>17

-----------------------------------------------------------------------------
(* What the threads have in hand, and how it fits what the library has.    *)

OpenSteps == {"size", "opened"}
ReadSteps == {"stream", "seek_segment", "read_segment", "unlock"}

LibFits ==
  /\ lib.sizes \in Seq(Nat) /\ lib.offset \in Nat
  /\ lib.open => Len(lib.sizes) = Len(Files)
  /\ position \in [1 .. Len(Files) -> Nat]
  /\ calls \in 0 .. MaxCalls
  /\ sought \in BOOLEAN

(* The locals c of a thread have their types.                              *)
LocalTypes(c) ==
  /\ c.size \in Nat /\ c.offset \in Nat /\ c.room \in Nat
  /\ c.segment \in Nat /\ c.within \in Nat
  /\ c.step \in {"none", "seek", "lock", "stream"} => c.data = << >> /\ ~c.failed

(* An open has the sizes of the file objects before the next one.          *)
OpeningFits(c) ==
  c.step \in OpenSteps =>
    /\ ~lib.open /\ c.call = "open_file_objects" /\ c.data \in Seq(Nat)
    /\ c.step = "size" => c.segment \in 1 .. Len(Files) /\ Len(c.data) = c.segment - 1
    /\ c.step = "opened" => Len(c.data) = Len(Files)

(* A read is in a segment, at the offset of the handle unless a seek has   *)
(* come in between, and has more to read.                                  *)
Placed(c) ==
  ~sought \/ ~c.moved => lib.offset = StartOf(c.segment) + c.within

ReadingFits(c) ==
  /\ c.step \in ReadSteps => c.data \in Seq(Pairs)
  /\ c.step \in {"seek_segment", "read_segment"} =>
       /\ c.segment \in 1 .. Len(lib.sizes)
       /\ c.within < lib.sizes[c.segment]
       /\ Len(c.data) < c.room
       /\ c.step = "read_segment" => position[c.segment] = c.within
       /\ Placed(c)

(* What read_buffer_at_offset has read, and has room for.                  *)
Complete(c) ==
  \/ Len(c.data) = c.size
  \/ c.offset + Len(c.data) >= Total(lib.sizes)
  \/ c.short

Roomy(c) == c.room = c.size \/ c.offset + c.room >= Total(lib.sizes)

Exact(c) ==
  /\ c.step # "return" => lib.offset = c.offset + Len(c.data)
  /\ c.step \in ReadSteps => Roomy(c)
  /\ c.data = SubSeq(MediaBytes, c.offset + 1, c.offset + Len(c.data))
  /\ c.step \in {"unlock", "return"} => Complete(c)

AtOffsetFits(c) ==
  c.call = "read_buffer_at_offset" /\ ~c.failed /\ c.step # "seek" =>
    /\ lib.open
    /\ ~c.moved => Exact(c)

Fits(c) == LocalTypes(c) /\ OpeningFits(c) /\ ReadingFits(c) /\ AtOffsetFits(c)

(* What was read since the open, in order, goes up to the offset.          *)
TakenFits ==
  lib.open /\ ~sought =>
    /\ lib.offset <= Total(lib.sizes) /\ taken \in Seq(Pairs)
    /\ (\A t \in Threads : ~Reading(t)) => taken = SubSeq(MediaBytes, 1, lib.offset)
    /\ \A t \in Threads :
         Reading(t) => taken \o thread[t].data = SubSeq(MediaBytes, 1, lib.offset)

OneOpens ==
  \A t, u \in Threads :
    thread[t].step \in OpenSteps /\ thread[u].step \in OpenSteps => t = u

BytesInv ==
  /\ LibFits
  /\ \A t \in Threads : Fits(thread[t])
  /\ TakenFits
  /\ OneOpens

-----------------------------------------------------------------------------
(* What is assumed of the constants.                                       *)
LEMMA Constants ==
  /\ Files \in Seq(Nat) /\ Len(Files) \in Nat \ {0}
  /\ MaxRead \in Nat /\ MaxCalls \in Nat /\ Nobody \notin Threads
<1>1. Files \in Seq(Nat) /\ Files # << >>
  BY PythonHandleAssumptions DEF PythonHandleAssumptions
<1>2. Len(Files) \in Nat \ {0}
  BY <1>1, EmptySeq
<1> QED
  BY <1>1, <1>2, PythonHandleAssumptions DEF PythonHandleAssumptions

(* The segments stay where they are while their sizes do.                  *)
LEMMA SizesKept ==
  ASSUME lib'.sizes = lib.sizes
  PROVE  /\ MediaBytes' = MediaBytes /\ Total(lib.sizes)' = Total(lib.sizes)
         /\ \A n : StartOf(n)' = StartOf(n)
<1>1. MediaBytes' = MediaBytes
  BY DEF MediaBytes
<1>2. Total(lib'.sizes) = Total(lib.sizes)
  OBVIOUS
<1>3. \A n : StartOf(n)' = StartOf(n)
  BY DEF StartOf
<1> QED
  BY <1>1, <1>2, <1>3

(* What fits still does when the library, the files and the history stay.  *)
LEMMA StillFits ==
  ASSUME NEW c, Fits(c), UNCHANGED <<lib, position, sought>>
  PROVE  Fits(c)'
<1>1. lib'.sizes = lib.sizes /\ lib' = lib
  OBVIOUS
<1>2. /\ MediaBytes' = MediaBytes /\ Total(lib'.sizes) = Total(lib.sizes)
      /\ \A n : StartOf(n)' = StartOf(n)
  BY <1>1, SizesKept
<1>3. LocalTypes(c)' /\ OpeningFits(c)'
  BY <1>1 DEF Fits, LocalTypes, OpeningFits
<1>4. ReadingFits(c)'
  BY <1>1, <1>2 DEF Fits, ReadingFits, Placed
<1>5. AtOffsetFits(c)'
  BY <1>1, <1>2 DEF Fits, AtOffsetFits, Exact, Complete, Roomy
<1> QED
  BY <1>3, <1>4, <1>5 DEF Fits

(* A thread that is in no call fits.                                       *)
LEMMA IdleFits == Fits(Idle)
<1>1. LocalTypes(Idle)
  BY DEF LocalTypes, Idle
<1>2. OpeningFits(Idle) /\ ReadingFits(Idle) /\ AtOffsetFits(Idle)
  BY DEF OpeningFits, ReadingFits, AtOffsetFits, Idle, OpenSteps, ReadSteps
<1> QED
  BY <1>1, <1>2 DEF Fits

(* Another thread, whose locals are marked when the offset moved.          *)
LEMMA OtherFits ==
  ASSUME NEW c, Fits(c), DOMAIN c = DOMAIN Idle,
         NEW d, d = [c EXCEPT !.moved = TRUE],
         lib'.sizes = lib.sizes, lib'.open = lib.open, 
         c.step \notin ReadSteps \/ (sought' /\ position' = position)
  PROVE  Fits(d)'
<1>1. /\ d.moved = TRUE /\ d.call = c.call /\ d.step = c.step /\ d.size = c.size
      /\ d.room = c.room
      /\ d.offset = c.offset /\ d.segment = c.segment /\ d.within = c.within
      /\ d.data = c.data /\ d.failed = c.failed
  BY DEF Idle
<1>2. LocalTypes(d)' /\ OpeningFits(d)'
  BY <1>1 DEF Fits, LocalTypes, OpeningFits
<1>3. ReadingFits(d)'
  BY <1>1 DEF Fits, ReadingFits, Placed, ReadSteps
<1>4. AtOffsetFits(d)'
  BY <1>1 DEF Fits, AtOffsetFits
<1> QED
  BY <1>2, <1>3, <1>4 DEF Fits

(* No two threads read, nor open, at the same time.                        *)
LEMMA OneReads ==
  ASSUME IInv, NEW t \in Threads, NEW u \in Threads, Reading(t), Reading(u)
  PROVE  t = u
BY DEF IInv, LocksHeld

(* The steps at which the thread goes on by itself, and the others are not *)
(* touched.                                                                *)
Alone(t, r) ==
  /\ DOMAIN r = DOMAIN Idle /\ Fits(r) /\ Goes(t, r)
  /\ UNCHANGED <<lib, position, sought>>
  /\ calls' \in 0 .. MaxCalls
  /\ r.step \in OpenSteps => thread[t].step \in OpenSteps \/ \A u \in Threads : thread[u] = Idle

Hands(t, r) ==
  \/ /\ taken' = taken /\ Reading(t) /\ r.step \in ReadSteps
     /\ r.data = thread[t].data
  \/ taken' = taken /\ ~Reading(t) /\ r.step \notin ReadSteps
  \/ taken' = taken /\ lock = Nobody /\ r.step \in ReadSteps /\ r.data = << >>
  \/ /\ taken' = IF sought THEN taken ELSE taken \o thread[t].data
     /\ Reading(t) /\ r.step \notin ReadSteps

(* A thread that goes on alone, and hands over what it has read or keeps it.*)
LEMMA AloneStep ==
  ASSUME IInv, BytesInv, NEW t \in Threads, NEW r, Alone(t, r), Hands(t, r)
  PROVE  BytesInv'
<1>1. DOMAIN thread = Threads
  BY DEF IInv, Shaped
<1>2. thread'[t] = r /\ \A u \in Threads \ {t} : thread'[u] = thread[u]
  BY <1>1 DEF Alone, Goes
<1>3. LibFits'
  BY DEF Alone, BytesInv, LibFits
<1>4. ASSUME NEW u \in Threads PROVE Fits(thread[u])'
  <2>1. PICK c : c = thread'[u]
    OBVIOUS
  <2>2. Fits(c)
    BY <1>2, <2>1 DEF Alone, BytesInv
  <2>3. Fits(c)'
    BY <2>2, StillFits DEF Alone
  <2> QED
    BY <2>1, <2>3
<1>5. OneOpens'
  <2>1. r.step \in OpenSteps => \A u \in Threads \ {t} : thread[u].step \notin OpenSteps
    BY DEF Alone, BytesInv, OneOpens, Idle, OpenSteps
  <2> QED
    BY <1>2, <2>1 DEF OneOpens, BytesInv
<1>6. TakenFits'
  <2>1. lib' = lib /\ sought' = sought /\ MediaBytes' = MediaBytes
        /\ Total(lib.sizes)' = Total(lib.sizes)
    BY SizesKept DEF Alone
  <2> SUFFICES ASSUME lib.open, ~sought
               PROVE  /\ lib.offset <= Total(lib.sizes) /\ taken' \in Seq(Pairs)
                      /\ (\A u \in Threads : ~Reading(u)') =>
                            taken' = SubSeq(MediaBytes, 1, lib.offset)
                      /\ \A u \in Threads : Reading(u)' =>
                            taken' \o thread'[u].data = SubSeq(MediaBytes, 1, lib.offset)
    BY <2>1 DEF TakenFits
  <2>2. /\ lib.offset <= Total(lib.sizes) /\ taken \in Seq(Pairs)
        /\ (\A u \in Threads : ~Reading(u)) => taken = SubSeq(MediaBytes, 1, lib.offset)
        /\ \A u \in Threads :
             Reading(u) => taken \o thread[u].data = SubSeq(MediaBytes, 1, lib.offset)
    BY DEF BytesInv, TakenFits
  <2>3. /\ Reading(t)' <=> r.step \in ReadSteps
        /\ \A u \in Threads \ {t} : Reading(u)' <=> Reading(u)
    BY <1>2 DEF Reading, ReadSteps
  <2>4. CASE taken' = taken /\ Reading(t) /\ r.step \in ReadSteps
             /\ r.data = thread[t].data
    BY <1>2, <2>2, <2>3, <2>4
  <2>5. CASE taken' = taken /\ ~Reading(t) /\ r.step \notin ReadSteps
    BY <1>2, <2>2, <2>3, <2>5
  <2>6. CASE taken' = taken /\ lock = Nobody /\ r.step \in ReadSteps /\ r.data = << >>
    <3>1. \A u \in Threads : ~Reading(u)
      BY <2>6, Constants DEF IInv, LocksHeld
    <3>2. taken = SubSeq(MediaBytes, 1, lib.offset)
      BY <2>2, <3>1
    <3>4. taken \o << >> = taken
      BY <2>2, ConcatEmptySeq
    <3> QED
      BY <1>2, <2>2, <2>3, <2>6, <3>1, <3>2, <3>4
  <2>7. CASE /\ taken' = IF sought THEN taken ELSE taken \o thread[t].data
             /\ Reading(t) /\ r.step \notin ReadSteps
    <3>1. \A u \in Threads : ~Reading(u)'
      BY <2>3, <2>7, OneReads
    <3>2. thread[t].data \in Seq(Pairs)
      BY <2>7 DEF BytesInv, Fits, ReadingFits, Reading, ReadSteps
    <3>3. taken \o thread[t].data \in Seq(Pairs)
      BY <2>2, <3>2
    <3> QED
      BY <2>2, <2>7, <3>1, <3>3
  <2> QED
    BY <2>4, <2>5, <2>6, <2>7 DEF Hands
<1> QED
  BY <1>3, <1>4, <1>5, <1>6 DEF BytesInv

-----------------------------------------------------------------------------
(* A call that enters the library has nothing in hand.                     *)
LEMMA TotalIsNat ==
  ASSUME NEW sizes \in Seq(Nat)
  PROVE  Total(sizes) \in Nat
<1>1. PICK starts : AreStarts(starts, sizes)
  BY StartsExist
<1>2. Total(sizes) = starts[Len(sizes) + 1]
  BY <1>1, SumIsEnd DEF Total, SumOf
<1> QED
  BY <1>1, <1>2 DEF AreStarts

(* What is known of a thread.                                              *)
LEMMA Known ==
  ASSUME IInv, BytesInv, NEW t \in Threads
  PROVE  /\ DOMAIN thread[t] = DOMAIN Idle
         /\ LocalTypes(thread[t]) /\ OpeningFits(thread[t]) /\ ReadingFits(thread[t])
         /\ AtOffsetFits(thread[t])
         /\ LibFits /\ calls \in 0 .. MaxCalls
BY DEF IInv, Shaped, BytesInv, Fits, LibFits

(* A call that enters the library, with nothing read.                      *)
LEMMA EnterBytes ==
  ASSUME IInv, BytesInv, NEW t \in Threads, NEW r,
         DOMAIN r = DOMAIN Idle, LocalTypes(r),
         r.step = "seek" \/ (r.step = "lock" /\ r.call = "read_buffer"),
         Enter(t, r)
  PROVE  BytesInv'
<1>1. /\ Goes(t, r) /\ UNCHANGED <<lib, position, sought, taken>> /\ thread[t] = Idle
      /\ calls' = calls + 1 /\ calls < MaxCalls
  BY DEF Enter, history
<1>2. calls' \in 0 .. MaxCalls
  BY <1>1, Known, Constants
<1>3. r.step \notin OpenSteps /\ r.step \notin ReadSteps
  BY DEF OpenSteps, ReadSteps
<1>4. Fits(r)
  BY <1>3 DEF Fits, OpeningFits, ReadingFits, AtOffsetFits, ReadSteps
<1>5. Alone(t, r)
  BY <1>1, <1>2, <1>3, <1>4 DEF Alone
<1>6. ~Reading(t)
  BY <1>1 DEF Reading, Idle
<1>7. Hands(t, r)
  BY <1>1, <1>3, <1>6 DEF Hands
<1> QED
  BY <1>5, <1>7, AloneStep

(* The three calls that read or seek.                                      *)
LEMMA CallBytes ==
  ASSUME IInv, BytesInv, NEW t \in Threads,
         PyReadBuffer(t) \/ PyReadBufferAtOffset(t) \/ PySeekOffset(t)
  PROVE  BytesInv'
<1>1. \A size \in 1 .. MaxRead, offset \in 0 .. Total(Files) : size \in Nat /\ offset \in Nat
  BY Constants, TotalIsNat
<1>2. CASE PyReadBuffer(t)
  <2>1. PICK size \in 1 .. MaxRead :
          Enter(t, [Idle EXCEPT !.call = "read_buffer", !.step = "lock", !.size = size])
    BY <1>2 DEF PyReadBuffer
  <2>2. PICK r : r = [Idle EXCEPT !.call = "read_buffer", !.step = "lock", !.size = size]
    OBVIOUS
  <2>3. size \in Nat
    BY Constants
  <2>4. /\ DOMAIN r = DOMAIN Idle /\ r.step = "lock" /\ r.call = "read_buffer"
        /\ r.size = size /\ r.data = << >> /\ r.failed = FALSE
        /\ r.offset = 0 /\ r.room = 0 /\ r.segment = 0 /\ r.within = 0
    BY <2>2 DEF Idle
  <2>5. LocalTypes(r)
    BY <2>3, <2>4 DEF LocalTypes
  <2>6. Enter(t, r)
    BY <2>1, <2>2
  <2> QED
    BY <2>4, <2>5, <2>6, EnterBytes
<1>3. CASE PyReadBufferAtOffset(t)
  <2>1. PICK size \in 1 .. MaxRead, offset \in 0 .. Total(Files) :
          Enter(t, [Idle EXCEPT !.call = "read_buffer_at_offset", !.step = "seek",
                                !.size = size, !.offset = offset])
    BY <1>3 DEF PyReadBufferAtOffset
  <2>2. PICK r : r = [Idle EXCEPT !.call = "read_buffer_at_offset", !.step = "seek",
                                  !.size = size, !.offset = offset]
    OBVIOUS
  <2>3. size \in Nat /\ offset \in Nat
    BY <1>1
  <2>4. /\ DOMAIN r = DOMAIN Idle /\ r.step = "seek"
        /\ r.size = size /\ r.data = << >> /\ r.failed = FALSE /\ r.offset = offset
        /\ r.room = 0 /\ r.segment = 0 /\ r.within = 0
    BY <2>2 DEF Idle
  <2>5. LocalTypes(r)
    BY <2>3, <2>4 DEF LocalTypes
  <2>6. Enter(t, r)
    BY <2>1, <2>2
  <2> QED
    BY <2>4, <2>5, <2>6, EnterBytes
<1>4. CASE PySeekOffset(t)
  <2>1. PICK offset \in 0 .. Total(Files) :
          Enter(t, [Idle EXCEPT !.call = "seek_offset", !.step = "seek", !.offset = offset])
    BY <1>4 DEF PySeekOffset
  <2>2. PICK r : r = [Idle EXCEPT !.call = "seek_offset", !.step = "seek", !.offset = offset]
    OBVIOUS
  <2>3. offset \in Nat
    BY Constants, TotalIsNat
  <2>4. /\ DOMAIN r = DOMAIN Idle /\ r.step = "seek"
        /\ r.size = 0 /\ r.data = << >> /\ r.failed = FALSE /\ r.offset = offset
        /\ r.room = 0 /\ r.segment = 0 /\ r.within = 0
    BY <2>2 DEF Idle
  <2>5. LocalTypes(r)
    BY <2>3, <2>4 DEF LocalTypes
  <2>6. Enter(t, r)
    BY <2>1, <2>2
  <2> QED
    BY <2>4, <2>5, <2>6, EnterBytes
<1> QED
  BY <1>2, <1>3, <1>4

-----------------------------------------------------------------------------
(* The steps of a thread that touch nothing of another, nor the library.   *)

(* The fields of the locals of a thread that goes on to some step.         *)
SameBut(r, c, step) ==
  /\ DOMAIN r = DOMAIN Idle /\ r.step = step
  /\ r.call = c.call /\ r.offset = c.offset /\ r.moved = c.moved

(* A call that returns to Python.                                          *)
LEMMA ReturnBytes ==
  ASSUME IInv, BytesInv, NEW t \in Threads, Return(t)
  PROVE  BytesInv'
<1>1. Goes(t, Idle) /\ UNCHANGED <<lib, position, sought, taken, calls>> /\ ~Reading(t)
  BY DEF Return, Goes, At, Reading, history
<1>2. Alone(t, Idle)
  BY <1>1, IdleFits, Known DEF Alone, Idle, OpenSteps
<1>3. Hands(t, Idle)
  BY <1>1 DEF Hands, Idle, ReadSteps
<1> QED
  BY <1>2, <1>3, AloneStep

(* A read that is refused, or has an empty media, has read nothing.        *)
LEMMA RefusedBytes ==
  ASSUME IInv, BytesInv, NEW t \in Threads, ReadRefused(t)
  PROVE  BytesInv'
<1>1. PICK c, r : c = thread[t] /\ r = [c EXCEPT !.step = "return", !.failed = ~lib.open]
  OBVIOUS
<1>2. /\ Goes(t, r) /\ UNCHANGED <<lib, position, sought, taken, calls>>
      /\ c.step = "lock" /\ (~lib.open \/ Total(lib.sizes) = 0)
  BY <1>1 DEF ReadRefused, At, history
<1>3. /\ DOMAIN c = DOMAIN Idle /\ LocalTypes(c) /\ AtOffsetFits(c)
      /\ LibFits /\ calls \in 0 .. MaxCalls
  BY <1>1, Known
<1>4. /\ SameBut(r, c, "return") /\ r.failed = ~lib.open
      /\ r.size = c.size /\ r.room = c.room
      /\ r.segment = c.segment /\ r.within = c.within /\ r.data = c.data
  BY <1>1, <1>3 DEF Idle, SameBut
<1>5. r.data = << >> /\ r.offset \in Nat
  BY <1>2, <1>3, <1>4 DEF LocalTypes, SameBut
<1>6. LocalTypes(r) /\ OpeningFits(r) /\ ReadingFits(r)
  BY <1>3, <1>4, <1>5 DEF LocalTypes, OpeningFits, ReadingFits, SameBut, OpenSteps, ReadSteps
<1>7. AtOffsetFits(r)
  <2>1. ASSUME r.call = "read_buffer_at_offset", ~r.failed
        PROVE  lib.open /\ (~r.moved => Exact(r))
    <3>0. ~c.failed
      BY <1>2, <1>3 DEF LocalTypes
    <3>1. lib.open /\ (~c.moved => Exact(c))
      BY <1>2, <1>3, <1>4, <2>1, <3>0 DEF AtOffsetFits, SameBut
    <3>2. Total(lib.sizes) = 0
      BY <1>2, <3>1
    <3>3. Complete(r)
      BY <1>5, <3>2 DEF Complete
    <3>4. r.data = SubSeq(MediaBytes, r.offset + 1, r.offset + Len(r.data))
      <4>1. MediaBytes \in Seq(Pairs)
        BY <1>3, MediaFacts DEF MediaFits, LibFits
      <4> QED
        BY <1>5, <4>1, SubSeqEmpty
    <3> QED
      BY <1>4, <3>1, <3>3, <3>4 DEF Exact, SameBut, ReadSteps
  <2> QED
    BY <2>1 DEF AtOffsetFits
<1>8. Alone(t, r)
  BY <1>2, <1>3, <1>4, <1>6, <1>7 DEF Alone, Fits, OpenSteps, SameBut
<1>9. Hands(t, r)
  BY <1>1, <1>2, <1>4 DEF Hands, SameBut, ReadSteps, Reading
<1> QED
  BY <1>8, <1>9, AloneStep

-----------------------------------------------------------------------------
(* The lock is taken for what is left of the media.                        *)
LEMMA GrabBytes ==
  ASSUME IInv, BytesInv, NEW t \in Threads, GrabLock(t)
  PROVE  BytesInv'
<1>1. PICK c, r : c = thread[t] /\ r = [c EXCEPT !.step = "stream", !.room = Clamped(c.size)]
  OBVIOUS
<1>2. /\ Goes(t, r) /\ UNCHANGED <<lib, position, sought, taken, calls>>
      /\ c.step = "lock" /\ lock = Nobody /\ lib.open
  BY <1>1 DEF GrabLock, At, history
<1>3. /\ DOMAIN c = DOMAIN Idle /\ LocalTypes(c) /\ AtOffsetFits(c)
      /\ LibFits /\ calls \in 0 .. MaxCalls
  BY <1>1, Known
<1>4. /\ SameBut(r, c, "stream") /\ r.failed = c.failed /\ r.size = c.size
      /\ r.room = Clamped(c.size)
      /\ r.segment = c.segment /\ r.within = c.within /\ r.data = c.data
  BY <1>1, <1>3 DEF Idle, SameBut
<1>5. /\ Clamped(c.size) \in Nat
      /\ Clamped(c.size) = c.size \/ lib.offset + Clamped(c.size) >= Total(lib.sizes)
  <2>1. PICK size, o, total : size = c.size /\ o = lib.offset /\ total = Total(lib.sizes)
    OBVIOUS
  <2>2. size \in Nat /\ o \in Nat /\ total \in Nat
    BY <1>3, <2>1, TotalIsNat DEF LocalTypes, LibFits
  <2>3. Clamped(c.size) = LET rest == IF o >= total THEN 0 ELSE total - o
                          IN  IF size > rest THEN rest ELSE size
    BY <2>1 DEF Clamped
  <2>4. PICK room : room = Clamped(c.size)
    OBVIOUS
  <2>5. room \in Nat /\ (room = size \/ o + room >= total)
    BY <2>2, <2>3, <2>4
  <2> QED
    BY <2>1, <2>4, <2>5
<1>6. r.data = << >> /\ ~c.failed /\ LocalTypes(r)
  BY <1>2, <1>3, <1>4, <1>5 DEF LocalTypes, SameBut
<1>7. OpeningFits(r)
  BY <1>4 DEF OpeningFits, SameBut, OpenSteps
<1>8. ReadingFits(r)
  <2>1. << >> \in Seq(Pairs)
    OBVIOUS
  <2> QED
    BY <1>4, <1>6, <2>1 DEF ReadingFits, SameBut
<1>9. AtOffsetFits(r)
  <2>1. ASSUME Exact(c) PROVE Exact(r)
    <3>1. lib.offset = c.offset + Len(c.data) /\ Len(c.data) = 0 /\ c.offset \in Nat
      BY <1>2, <1>3, <1>4, <1>6, <2>1 DEF Exact, LocalTypes
    <3>2. lib.offset = c.offset
      BY <3>1
    <3>3. Roomy(r)
      BY <1>4, <1>5, <3>2 DEF Roomy, SameBut
    <3> QED
      BY <1>2, <1>4, <2>1, <3>3 DEF Exact, SameBut
  <2> QED
    BY <1>2, <1>3, <1>4, <1>6, <2>1 DEF AtOffsetFits, SameBut
<1>10. Alone(t, r)
  BY <1>2, <1>3, <1>4, <1>6, <1>7, <1>8, <1>9 DEF Alone, Fits, OpenSteps, SameBut
<1>11. Hands(t, r)
  BY <1>2, <1>4, <1>6 DEF Hands, SameBut, ReadSteps
<1> QED
  BY <1>10, <1>11, AloneStep

(* The read has its segment, or there is nothing to read.                  *)
LEMMA FindBytes ==
  ASSUME IInv, BytesInv, NEW t \in Threads, FindSegment(t)
  PROVE  BytesInv'
<1>1. PICK c : c = thread[t]
  OBVIOUS
<1>2. /\ UNCHANGED <<lib, position, sought, taken, calls>>
      /\ c.step = "stream"
  BY <1>1 DEF FindSegment, At, history
<1>3. /\ DOMAIN c = DOMAIN Idle /\ LocalTypes(c) /\ AtOffsetFits(c)
      /\ LibFits /\ calls \in 0 .. MaxCalls
  BY <1>1, Known
<1>4. c.data = << >> /\ ~c.failed /\ << >> \in Seq(Pairs)
  BY <1>2, <1>3 DEF LocalTypes
<1>5. Reading(t)
  BY <1>1, <1>2 DEF Reading
<1>6. CASE /\ c.room = 0 \/ lib.offset >= Total(lib.sizes)
           /\ Goes(t, [c EXCEPT !.step = "unlock"])
  <2>1. PICK r : r = [c EXCEPT !.step = "unlock"]
    OBVIOUS
  <2>2. /\ SameBut(r, c, "unlock") /\ r.failed = c.failed /\ r.size = c.size /\ r.room = c.room
        /\ r.segment = c.segment /\ r.within = c.within /\ r.data = c.data
    BY <1>3, <2>1 DEF Idle, SameBut
  <2>3. LocalTypes(r) /\ OpeningFits(r) /\ ReadingFits(r)
    BY <1>3, <1>4, <2>2 DEF LocalTypes, SameBut, OpeningFits, ReadingFits, OpenSteps
  <2>4. AtOffsetFits(r)
    <3>1. ASSUME r.call = "read_buffer_at_offset" PROVE lib.open /\ (~c.moved => Exact(c))
      BY <1>2, <1>3, <1>4, <2>2, <3>1 DEF AtOffsetFits, SameBut
    <3>2. ASSUME Exact(c) PROVE Exact(r)
      <4>1. Complete(c)
        <5>1. /\ lib.offset = c.offset + Len(c.data) /\ Len(c.data) = 0
              /\ c.room = c.size \/ c.offset + c.room >= Total(lib.sizes)
          BY <1>2, <1>4, <3>2 DEF Exact, ReadSteps, Roomy
        <5> QED
          BY <1>6, <5>1 DEF Complete
      <4>2. Complete(r) /\ Roomy(r)
        <5>1. Roomy(c)
          BY <1>2, <3>2 DEF Exact, ReadSteps
        <5> QED
          BY <1>2, <1>4, <2>1, <1>3, <2>2, <4>1, <5>1 DEF Complete, Roomy, SameBut, Idle
      <4> QED
        BY <1>2, <2>2, <3>2, <4>2 DEF Exact, SameBut
    <3> QED
      BY <2>2, <3>1, <3>2 DEF AtOffsetFits, SameBut
  <2>5. Alone(t, r)
    BY <1>2, <1>3, <1>6, <2>1, <2>2, <2>3, <2>4 DEF Alone, Fits, SameBut, OpenSteps
  <2>6. Hands(t, r)
    BY <1>1, <1>2, <1>5, <2>2 DEF Hands, SameBut, ReadSteps
  <2> QED
    BY <2>5, <2>6, AloneStep
<1>7. ASSUME c.room # 0, NEW n \in 1 .. Len(lib.sizes),
             lib.offset \in StartOf(n) .. StartOf(n) + lib.sizes[n] - 1,
             Goes(t, [c EXCEPT !.step = "seek_segment", !.segment = n,
                               !.within = lib.offset - StartOf(n)])
      PROVE  BytesInv'
  <2>1. PICK r : r = [c EXCEPT !.step = "seek_segment", !.segment = n,
                               !.within = lib.offset - StartOf(n)]
    OBVIOUS
  <2>2. /\ SameBut(r, c, "seek_segment") /\ r.failed = c.failed /\ r.size = c.size /\ r.room = c.room
        /\ r.segment = n /\ r.within = lib.offset - StartOf(n) /\ r.data = c.data
    BY <1>3, <2>1 DEF Idle, SameBut
  <2>3. /\ n \in Nat /\ lib.offset - StartOf(n) \in Nat
        /\ lib.offset - StartOf(n) < lib.sizes[n]
        /\ lib.offset = StartOf(n) + (lib.offset - StartOf(n))
    <3>1. PICK o, s, z : o = lib.offset /\ s = StartOf(n) /\ z = lib.sizes[n]
      OBVIOUS
    <3>2. o \in Nat /\ s \in Nat /\ z \in Nat
      BY <1>3, <3>1, MediaFacts, SMTT(30) DEF MediaFits, LibFits
    <3>3. o \in s .. s + z - 1
      BY <1>7, <3>1
    <3>4. o - s \in Nat /\ o - s < z /\ o = s + (o - s)
      BY <3>2, <3>3
    <3> QED
      BY <3>1, <3>4
  <2>4. LocalTypes(r)
    BY <1>3, <1>4, <2>2, <2>3 DEF LocalTypes, SameBut
  <2>5. OpeningFits(r)
    BY <2>2 DEF OpeningFits, SameBut, OpenSteps
  <2>6. ReadingFits(r)
    <3>1. Len(c.data) < c.room
      BY <1>3, <1>4, <1>7 DEF LocalTypes
    <3>2. Placed(r)
      BY <2>2, <2>3 DEF Placed
    <3> QED
      BY <1>4, <2>2, <2>3, <3>1, <3>2 DEF ReadingFits, SameBut
  <2>7. AtOffsetFits(r)
    BY <1>2, <1>3, <1>4, <2>2 DEF AtOffsetFits, Exact, Roomy, SameBut, ReadSteps
  <2>8. Alone(t, r)
    BY <1>2, <1>3, <1>7, <2>1, <2>2, <2>4, <2>5, <2>6, <2>7 DEF Alone, Fits, SameBut, OpenSteps
  <2>9. Hands(t, r)
    BY <1>1, <1>2, <1>5, <2>2 DEF Hands, SameBut, ReadSteps
  <2> QED
    BY <2>8, <2>9, AloneStep
<1> QED
  BY <1>1, <1>6, <1>7 DEF FindSegment

(* A read that fails keeps what it has read.                               *)
LEMMA RaisesBytes ==
  ASSUME IInv, BytesInv, NEW t \in Threads, FileObjectRaises(t)
  PROVE  BytesInv'
<1>1. PICK c, r : c = thread[t] /\ r = [c EXCEPT !.step = "unlock", !.failed = TRUE]
  OBVIOUS
<1>2. /\ Goes(t, r) /\ UNCHANGED <<lib, position, sought, taken, calls>>
      /\ c.step \in {"seek_segment", "read_segment"}
  BY <1>1 DEF FileObjectRaises
<1>3. /\ DOMAIN c = DOMAIN Idle /\ LocalTypes(c) /\ ReadingFits(c)
      /\ LibFits /\ calls \in 0 .. MaxCalls
  BY <1>1, Known
<1>4. /\ SameBut(r, c, "unlock") /\ r.failed /\ r.size = c.size /\ r.room = c.room
      /\ r.segment = c.segment /\ r.within = c.within /\ r.data = c.data
  BY <1>1, <1>3 DEF Idle, SameBut
<1>5. c.data \in Seq(Pairs)
  BY <1>2, <1>3 DEF ReadingFits, ReadSteps
<1>6. Fits(r)
  BY <1>3, <1>4, <1>5 DEF Fits, LocalTypes, OpeningFits, ReadingFits, AtOffsetFits, SameBut,
     OpenSteps
<1>7. Alone(t, r)
  BY <1>2, <1>3, <1>4, <1>6 DEF Alone, SameBut, OpenSteps
<1>8. Hands(t, r)
  BY <1>1, <1>2, <1>4 DEF Hands, SameBut, ReadSteps, Reading
<1> QED
  BY <1>7, <1>8, AloneStep

(* A read hands over what it has read, and gives up the lock.              *)
LEMMA ReleaseBytes ==
  ASSUME IInv, BytesInv, NEW t \in Threads, ReleaseLock(t)
  PROVE  BytesInv'
<1>1. PICK c, r : /\ c = thread[t]
               /\ r = [c EXCEPT !.step = "return",
                                !.data = IF c.failed THEN << >> ELSE @]
  OBVIOUS
<1>2. /\ Goes(t, r) /\ UNCHANGED <<lib, position, sought, calls>>
      /\ taken' = IF sought THEN taken ELSE taken \o thread[t].data
      /\ c.step = "unlock"
  BY <1>1 DEF ReleaseLock, At
<1>3. /\ DOMAIN c = DOMAIN Idle /\ LocalTypes(c) /\ AtOffsetFits(c)
      /\ LibFits /\ calls \in 0 .. MaxCalls
  BY <1>1, Known
<1>4. /\ SameBut(r, c, "return") /\ r.failed = c.failed /\ r.size = c.size /\ r.room = c.room
      /\ r.segment = c.segment /\ r.within = c.within /\ r.short = c.short
      /\ ~c.failed => r.data = c.data
  BY <1>1, <1>3 DEF Idle, SameBut
<1>5. LocalTypes(r) /\ OpeningFits(r) /\ ReadingFits(r)
  BY <1>3, <1>4 DEF LocalTypes, OpeningFits, ReadingFits, SameBut, OpenSteps, ReadSteps
<1>6. AtOffsetFits(r)
  <2>1. ~c.failed /\ Complete(c) => Complete(r)
    BY <1>4 DEF Complete, SameBut
  <2>2. ~c.failed /\ Exact(c) => Exact(r)
    BY <1>2, <1>4, <2>1 DEF Exact, SameBut, ReadSteps
  <2> QED
    BY <1>2, <1>3, <1>4, <2>2 DEF AtOffsetFits, SameBut
<1>7. Alone(t, r)
  BY <1>2, <1>3, <1>4, <1>5, <1>6 DEF Alone, Fits, SameBut, OpenSteps
<1>8. Hands(t, r)
  BY <1>1, <1>2, <1>4 DEF Hands, SameBut, ReadSteps, Reading
<1> QED
  BY <1>7, <1>8, AloneStep

(* The sizes are collected, in the order of the file objects.              *)
LEMMA SizeBytes ==
  ASSUME IInv, BytesInv, NEW t \in Threads, GetSize(t)
  PROVE  BytesInv'
<1>1. PICK c : c = thread[t]
  OBVIOUS
<1>2. PICK size \in {Files[c.segment], c.within} :
        Goes(t, [c EXCEPT !.data = Append(@, size), !.within = size, !.segment = @ + 1,
                          !.step = IF c.segment = Len(Files) THEN "opened" ELSE "size"])
  BY <1>1 DEF GetSize
<1>3. UNCHANGED <<lib, position, sought, taken, calls>> /\ c.step = "size"
  BY <1>1 DEF GetSize, At, history
<1>4. /\ DOMAIN c = DOMAIN Idle /\ LocalTypes(c) /\ OpeningFits(c)
      /\ LibFits /\ calls \in 0 .. MaxCalls
  BY <1>1, Known
<1>5. PICK step, r :
        /\ step = IF c.segment = Len(Files) THEN "opened" ELSE "size"
        /\ r = [c EXCEPT !.data = Append(@, size), !.within = size, !.segment = @ + 1,
                         !.step = IF c.segment = Len(Files) THEN "opened" ELSE "size"]
  OBVIOUS
<1>6. /\ SameBut(r, c, step) /\ r.failed = c.failed /\ r.size = c.size /\ r.room = c.room
      /\ r.segment = c.segment + 1 /\ r.within = size /\ r.data = Append(c.data, size)
  BY <1>4, <1>5 DEF Idle, SameBut
<1>7. /\ ~lib.open /\ c.call = "open_file_objects" /\ c.data \in Seq(Nat)
      /\ c.segment \in 1 .. Len(Files) /\ Len(c.data) = c.segment - 1
  BY <1>3, <1>4 DEF OpeningFits, OpenSteps
<1>8. size \in Nat
  <2>1. c.within \in Nat
    BY <1>4 DEF LocalTypes
  <2>2. Files[c.segment] \in Nat
    BY <1>7, Constants
  <2> QED
    BY <2>1, <2>2
<1>9. Append(c.data, size) \in Seq(Nat) /\ Len(Append(c.data, size)) = c.segment
  <2>1. PICK data, n : data = c.data /\ n = c.segment
    OBVIOUS
  <2>2. data \in Seq(Nat) /\ Len(data) = n - 1 /\ n \in Nat
    BY <1>4, <1>7, <2>1 DEF LocalTypes
  <2>3. Append(data, size) \in Seq(Nat) /\ Len(Append(data, size)) = n
    BY <1>8, <2>2
  <2> QED
    BY <2>1, <2>3
<1>10. step \in {"opened", "size"}
  BY <1>5
<1>11. LocalTypes(r)
  BY <1>4, <1>6, <1>8, <1>10 DEF LocalTypes, SameBut
<1>12. OpeningFits(r)
  <2>1. step = "opened" => c.segment = Len(Files)
    BY <1>5
  <2>2. step = "size" => c.segment + 1 \in 1 .. Len(Files) /\ (c.segment + 1) - 1 = c.segment
    <3>1. step = "size" => c.segment # Len(Files)
      BY <1>5
    <3>2. PICK n, m : n = c.segment /\ m = Len(Files)
      OBVIOUS
    <3>3. n \in 1 .. m /\ m \in Nat
      BY <1>7, <3>2, Constants
    <3>4. n # m => n + 1 \in 1 .. m /\ (n + 1) - 1 = n
      BY <3>3
    <3> QED
      BY <3>1, <3>2, <3>4
  <2> QED
    BY <1>6, <1>7, <1>9, <2>1, <2>2 DEF OpeningFits, SameBut
<1>13. ReadingFits(r) /\ AtOffsetFits(r)
  BY <1>6, <1>7, <1>10 DEF ReadingFits, AtOffsetFits, SameBut, ReadSteps
<1>14. Alone(t, r)
  BY <1>1, <1>2, <1>3, <1>4, <1>5, <1>6, <1>11, <1>12, <1>13 DEF Alone, Fits, SameBut, OpenSteps
<1>15. Hands(t, r)
  BY <1>1, <1>3, <1>6, <1>10 DEF Hands, SameBut, ReadSteps, Reading
<1> QED
  BY <1>14, <1>15, AloneStep

(* A seek of a handle that is closed is refused.                           *)
LEMMA SeekClosedBytes ==
  ASSUME IInv, BytesInv, NEW t \in Threads, SeekOffset(t), ~lib.open
  PROVE  BytesInv'
<1>1. PICK c, r : c = thread[t] /\ r = [c EXCEPT !.step = "return", !.failed = TRUE]
  OBVIOUS
<1>2. /\ Goes(t, r) /\ UNCHANGED <<lib, position, sought, taken, calls>> /\ c.step = "seek"
  BY <1>1 DEF SeekOffset, At, history
<1>3. DOMAIN c = DOMAIN Idle /\ LocalTypes(c) /\ LibFits /\ calls \in 0 .. MaxCalls
  BY <1>1, Known
<1>4. /\ SameBut(r, c, "return") /\ r.failed /\ r.size = c.size /\ r.room = c.room
      /\ r.segment = c.segment /\ r.within = c.within /\ r.data = c.data
  BY <1>1, <1>3 DEF Idle, SameBut
<1>5. Fits(r)
  BY <1>3, <1>4 DEF Fits, LocalTypes, OpeningFits, ReadingFits, AtOffsetFits, SameBut,
     OpenSteps, ReadSteps
<1>6. Alone(t, r)
  BY <1>2, <1>3, <1>4, <1>5 DEF Alone, SameBut, OpenSteps
<1>7. Hands(t, r)
  BY <1>1, <1>2, <1>4 DEF Hands, SameBut, ReadSteps, Reading
<1> QED
  BY <1>6, <1>7, AloneStep

(* Nothing but what the library makes of a freed pool.                     *)
LEMMA NothingMoves ==
  ASSUME BytesInv, UNCHANGED <<lib, position, thread, sought, taken>>, calls' \in 0 .. MaxCalls
  PROVE  BytesInv'
<1>1. LibFits' /\ OneOpens'
  BY DEF BytesInv, LibFits, OneOpens
<1>2. ASSUME NEW u \in Threads PROVE Fits(thread[u])'
  <2>1. PICK c : c = thread[u] /\ c = thread'[u]
    OBVIOUS
  <2>2. Fits(c)'
    BY <2>1, StillFits DEF BytesInv
  <2> QED
    BY <2>1, <2>2
<1>3. TakenFits'
  <2>1. MediaBytes' = MediaBytes /\ Total(lib.sizes)' = Total(lib.sizes)
    BY SizesKept
  <2> QED
    BY <2>1 DEF BytesInv, TakenFits, Reading
<1> QED
  BY <1>1, <1>2, <1>3 DEF BytesInv

-----------------------------------------------------------------------------
(* The steps that move the offset of the handle, or a file object.         *)

(* The other threads, when the offset moves and no other reads.            *)
LEMMA OthersMove ==
  ASSUME IInv, BytesInv, NEW t \in Threads, NEW r, GoesAndMoves(t, r), Fits(r)',
         r.step \notin OpenSteps,
         lib'.sizes = lib.sizes, lib'.open = lib.open, sought' \/ Reading(t),
         sought' => position' = position \/ Reading(t)
  PROVE  /\ \A u \in Threads : Fits(thread[u])'
         /\ OneOpens'
         /\ thread'[t] = r
         /\ \A u \in Threads \ {t} : /\ Reading(u)' <=> Reading(u)
                                     /\ thread'[u].data = thread[u].data
<1>1. /\ thread'[t] = r
      /\ \A u \in Threads \ {t} : thread'[u] = [thread[u] EXCEPT !.moved = TRUE]
  BY DEF GoesAndMoves
<1>2. ASSUME NEW u \in Threads \ {t}
      PROVE  /\ Fits(thread[u])'
             /\ thread'[u].step = thread[u].step /\ thread'[u].data = thread[u].data
  <2>1. PICK c, d : c = thread[u] /\ d = thread'[u]
    OBVIOUS
  <2>2. d = [c EXCEPT !.moved = TRUE] /\ DOMAIN c = DOMAIN Idle /\ Fits(c)
    BY <1>1, <2>1, Known DEF BytesInv
  <2>3. c.step \notin ReadSteps \/ (sought' /\ position' = position)
    BY <2>1, OneReads DEF Reading, ReadSteps
  <2>4. Fits(d)'
    BY <2>2, <2>3, OtherFits
  <2>5. d.step = c.step /\ d.data = c.data
    BY <2>2 DEF Idle
  <2> QED
    BY <2>1, <2>4, <2>5
<1>3. \A u \in Threads : Fits(thread[u])'
  BY <1>1, <1>2
<1>4. OneOpens'
  BY <1>1, <1>2 DEF OneOpens, BytesInv
<1> QED
  BY <1>1, <1>2, <1>3, <1>4 DEF Reading

(* A seek ends the history of what was read, and marks the other calls.    *)
LEMMA SeekOpenBytes ==
  ASSUME IInv, BytesInv, NEW t \in Threads, SeekOffset(t), lib.open
  PROVE  BytesInv'
<1>1. PICK c, step, r :
        /\ c = thread[t]
        /\ step = IF c.call = "seek_offset" THEN "return" ELSE "lock"
        /\ r = [c EXCEPT !.moved = FALSE,
                         !.step = IF c.call = "seek_offset" THEN "return" ELSE "lock"]
  OBVIOUS
<1>2. /\ GoesAndMoves(t, r) /\ lib' = [lib EXCEPT !.offset = c.offset] /\ sought' = TRUE
      /\ UNCHANGED <<position, calls>> /\ c.step = "seek"
  BY <1>1 DEF SeekOffset, At
<1>3. DOMAIN c = DOMAIN Idle /\ LocalTypes(c) /\ LibFits /\ calls \in 0 .. MaxCalls
  BY <1>1, Known
<1>4. /\ r.step = step /\ r.moved = FALSE /\ r.call = c.call /\ r.failed = c.failed
      /\ r.size = c.size /\ r.room = c.room /\ r.offset = c.offset
      /\ r.segment = c.segment /\ r.within = c.within /\ r.data = c.data
  BY <1>1, <1>3 DEF Idle
<1>5. c.data = << >> /\ ~c.failed /\ c.offset \in Nat /\ step \in {"return", "lock"}
  BY <1>1, <1>2, <1>3 DEF LocalTypes
<1>6. lib'.sizes = lib.sizes /\ lib'.open = lib.open /\ lib'.offset = c.offset
  BY <1>2 DEF IInv, Shaped, ClosedLib
<1>7. LibFits'
  BY <1>2, <1>3, <1>5, <1>6 DEF LibFits
<1>8. Fits(r)'
  <2>1. LocalTypes(r)' /\ OpeningFits(r)' /\ ReadingFits(r)'
    BY <1>3, <1>4, <1>5 DEF LocalTypes, OpeningFits, ReadingFits, OpenSteps, ReadSteps
  <2>2. r.call = "read_buffer_at_offset" => r.step = "lock"
    BY <1>1, <1>4
  <2>3. c.offset = c.offset + Len(c.data)
    BY <1>5
  <2>4. c.data = SubSeq(MediaBytes', c.offset + 1, c.offset + Len(c.data))
    BY <1>5, <2>3, SubSeqEmpty
  <2>5. r.step = "lock" => Exact(r)'
    BY <1>4, <1>6, <2>3, <2>4 DEF Exact, ReadSteps
  <2>6. AtOffsetFits(r)'
    BY <1>6, <2>2, <2>5 DEF AtOffsetFits
  <2> QED
    BY <2>1, <2>6 DEF Fits
<1>9. r.step \notin OpenSteps
  BY <1>4, <1>5 DEF OpenSteps
<1>10. (\A u \in Threads : Fits(thread[u])') /\ OneOpens'
  BY <1>2, <1>6, <1>8, <1>9, OthersMove
<1>11. TakenFits'
  BY <1>2 DEF TakenFits
<1> QED
  BY <1>7, <1>10, <1>11 DEF BytesInv

(* Only the file object of the thread that reads is moved.                 *)
LEMMA SeekSegmentBytes ==
  ASSUME IInv, BytesInv, NEW t \in Threads, SeekSegmentOffset(t), pool = "live"
  PROVE  BytesInv'
<1>1. PICK c, r : c = thread[t] /\ r = [c EXCEPT !.step = "read_segment"]
  OBVIOUS
<1>2. /\ Goes(t, r) /\ UNCHANGED <<lib, sought, taken, calls>> /\ c.step = "seek_segment"
      /\ position' = [position EXCEPT ![c.segment] = c.within]
  BY <1>1 DEF SeekSegmentOffset, At, history
<1>3. /\ DOMAIN c = DOMAIN Idle /\ LocalTypes(c) /\ ReadingFits(c) /\ AtOffsetFits(c)
      /\ LibFits /\ calls \in 0 .. MaxCalls
  BY <1>1, Known
<1>4. /\ SameBut(r, c, "read_segment") /\ r.failed = c.failed /\ r.size = c.size /\ r.room = c.room
      /\ r.segment = c.segment /\ r.within = c.within /\ r.data = c.data
  BY <1>1, <1>3 DEF Idle, SameBut
<1>5. Reading(t) /\ lib.open
  BY <1>1, <1>2 DEF Reading, IInv, PoolHeld
<1>6. /\ c.segment \in 1 .. Len(Files) /\ c.segment \in 1 .. Len(lib.sizes)
      /\ c.within \in Nat /\ c.within < lib.sizes[c.segment]
      /\ Len(c.data) < c.room /\ Placed(c) /\ c.data \in Seq(Pairs)
  BY <1>2, <1>3, <1>5 DEF ReadingFits, LibFits, LocalTypes, ReadSteps
<1>7. position' \in [1 .. Len(Files) -> Nat] /\ position'[c.segment] = c.within
  BY <1>2, <1>3, <1>6 DEF LibFits
<1>8. LibFits'
  BY <1>2, <1>3, <1>7 DEF LibFits
<1>9. lib' = lib /\ MediaBytes' = MediaBytes /\ Total(lib.sizes)' = Total(lib.sizes)
      /\ \A n : StartOf(n)' = StartOf(n)
  BY <1>2, SizesKept
<1>10. Fits(r)'
  <2>1. LocalTypes(r)' /\ OpeningFits(r)'
    BY <1>3, <1>4 DEF LocalTypes, OpeningFits, SameBut, OpenSteps
  <2>2. Placed(r)'
    BY <1>2, <1>4, <1>6, <1>9 DEF Placed, SameBut
  <2>3. ReadingFits(r)'
    BY <1>4, <1>6, <1>7, <1>9, <2>2 DEF ReadingFits, SameBut
  <2>4. AtOffsetFits(r)'
    BY <1>2, <1>3, <1>4, <1>9 DEF AtOffsetFits, Exact, Roomy, SameBut, ReadSteps
  <2> QED
    BY <2>1, <2>3, <2>4 DEF Fits
<1>11. thread'[t] = r /\ \A u \in Threads \ {t} : thread'[u] = thread[u]
  BY <1>2 DEF Goes, IInv, Shaped
<1>12. ASSUME NEW u \in Threads PROVE Fits(thread[u])'
  <2>1. CASE u = t
    BY <1>10, <1>11, <2>1
  <2>2. CASE u # t
    <3>1. PICK d : d = thread[u] /\ d = thread'[u]
      BY <1>11, <2>2
    <3>2. Fits(d) /\ d.step \notin ReadSteps
      BY <1>5, <2>2, <3>1, OneReads DEF BytesInv, Reading, ReadSteps
    <3>3. LocalTypes(d)' /\ OpeningFits(d)' /\ ReadingFits(d)'
      BY <1>9, <3>2 DEF Fits, LocalTypes, OpeningFits, ReadingFits, ReadSteps
    <3>4. AtOffsetFits(d)'
      BY <1>9, <3>2 DEF Fits, AtOffsetFits, Exact, Complete, Roomy
    <3> QED
      BY <3>1, <3>3, <3>4 DEF Fits
  <2> QED
    BY <2>1, <2>2
<1>13. OneOpens'
  BY <1>4, <1>11 DEF OneOpens, BytesInv, SameBut, OpenSteps
<1>14. TakenFits'
  <2>1. \A u \in Threads : (Reading(u)' <=> Reading(u)) /\ thread'[u].data = thread[u].data
    BY <1>1, <1>4, <1>5, <1>11, ZenonT(40) DEF Reading, SameBut
  <2> QED
    BY <1>2, <1>9, <2>1 DEF TakenFits, BytesInv
<1> QED
  BY <1>8, <1>12, <1>13, <1>14 DEF BytesInv

-----------------------------------------------------------------------------
(* Reading of a segment.                                                   *)

(* What a file object gives, of what is wanted.                            *)
GivesOf(bytes, n, from, count) ==
  /\ bytes \in Seq(Pairs) /\ Len(bytes) <= count
  /\ \A k \in 1 .. Len(bytes) : bytes[k] = <<n, from + k>>

(* BytesOf gives no more bytes than wanted, from where the file object is. *)
LEMMA BytesGiven ==
  ASSUME NEW n \in 1 .. Len(Files), NEW from \in Nat, NEW wanted \in Nat,
         NEW count \in 0 .. wanted
  PROVE  GivesOf(BytesOf(n, from, count), n, from, wanted)
<1>1. PICK size : size = Files[n]
  OBVIOUS
<1>2. size \in Nat /\ n \in Nat
  BY <1>1, Constants
<1>3. PICK last : last = IF from + count > size THEN size ELSE from + count
  OBVIOUS
<1>4. PICK length : length = IF last > from THEN last - from ELSE 0
  OBVIOUS
<1>5. length \in Nat /\ length <= wanted
  BY <1>2, <1>3, <1>4
<1>6. BytesOf(n, from, count) = [k \in 1 .. length |-> <<n, from + k>>]
  BY <1>1, <1>3, <1>4 DEF BytesOf
<1>7. \A k \in 1 .. length : <<n, from + k>> \in Pairs
  BY <1>2 DEF Pairs
<1>8. PICK bytes : bytes = [k \in 1 .. length |-> <<n, from + k>>]
  OBVIOUS
<1>9. bytes \in [1 .. length -> Pairs]
  BY <1>7, <1>8
<1>10. bytes \in Seq(Pairs) /\ Len(bytes) = length
  BY <1>5, <1>9
<1>11. \A k \in 1 .. length : bytes[k] = <<n, from + k>>
  BY <1>8
<1>12. GivesOf(bytes, n, from, wanted)
  BY <1>5, <1>10, <1>11 DEF GivesOf
<1> QED
  BY <1>6, <1>8, <1>12

(* What a thread wants of its segment: some of it, and no more than there  *)
(* is and than was asked for.                                              *)
WantsOf(count, rest, more) ==
  count \in Nat \ {0} /\ count <= rest /\ count <= more /\ (count = rest \/ count = more)

(* Wanted is the lesser of what is left of the two.                        *)
LEMMA SomeWanted ==
  ASSUME NEW t \in Threads, NEW rest, NEW more,
         rest = lib.sizes[thread[t].segment] - thread[t].within,
         more = thread[t].room - Len(thread[t].data),
         rest \in Nat \ {0}, more \in Nat \ {0}
  PROVE  WantsOf(Wanted(t), rest, more)
BY DEF WantsOf, Wanted

(* The offset is in a segment, and its bytes are read from there.          *)
LEMMA ReadsMedia ==
  ASSUME LibFits, NEW n \in 1 .. Len(lib.sizes), NEW from \in Nat, NEW count \in Nat,
         from + count <= lib.sizes[n], lib.offset = StartOf(n) + from,
         NEW bytes, GivesOf(bytes, n, from, count)
  PROVE  /\ bytes = SubSeq(MediaBytes, lib.offset + 1, lib.offset + Len(bytes))
         /\ lib.offset + Len(bytes) <= Total(lib.sizes)
<1>1. PICK media, total, o, s, z, l :
        /\ media = MediaBytes /\ total = Total(lib.sizes) /\ o = lib.offset /\ s = StartOf(n)
        /\ z = lib.sizes[n] /\ l = Len(bytes)
  OBVIOUS
<1>2. /\ media \in Seq(Pairs) /\ Len(media) = total /\ total \in Nat
      /\ s \in Nat /\ s + z <= total /\ \A i \in 1 .. z : media[s + i] = <<n, i>>
  BY <1>1, MediaFacts DEF MediaFits, LibFits
<1>3. o \in Nat /\ z \in Nat /\ o = s + from /\ from + count <= z
  BY <1>1, SMTT(30) DEF LibFits
<1>4. bytes \in Seq(Pairs) /\ l <= count /\ \A k \in 1 .. l : bytes[k] = <<n, from + k>>
  BY <1>1 DEF GivesOf
<1>5. l \in Nat
  BY <1>1, <1>4
<1>6. o + l <= total
  BY <1>2, <1>3, <1>4, <1>5
<1>7. \A k \in 1 .. l : media[o + k] = bytes[k]
  <2> TAKE k \in 1 .. l
  <2>1. from + k \in 1 .. z /\ s + (from + k) = o + k
    BY <1>2, <1>3, <1>4, <1>5
  <2> QED
    BY <1>2, <1>4, <2>1
<1>8. SubSeq(media, o + 1, o + l) = [k \in 1 .. l |-> media[o + k]]
  BY ONLY <1>2, <1>3, <1>5, <1>6, Stretch
<1>9. bytes = [k \in 1 .. l |-> bytes[k]]
  BY <1>1, <1>4
<1> QED
  BY <1>1, <1>6, <1>7, <1>8, <1>9

(* What is read goes on where what was read before ends.                   *)
LEMMA ReadsOn ==
  ASSUME LibFits, NEW before \in Seq(Pairs), NEW bytes \in Seq(Pairs), NEW a \in Nat,
         a <= lib.offset, before = SubSeq(MediaBytes, a + 1, lib.offset),
         bytes = SubSeq(MediaBytes, lib.offset + 1, lib.offset + Len(bytes)),
         lib.offset + Len(bytes) <= Total(lib.sizes)
  PROVE  before \o bytes = SubSeq(MediaBytes, a + 1, lib.offset + Len(bytes))
<1>1. PICK media, total, o, e :
        /\ media = MediaBytes /\ total = Total(lib.sizes) /\ o = lib.offset
        /\ e = lib.offset + Len(bytes)
  OBVIOUS
<1>2. media \in Seq(Pairs) /\ Len(media) = total /\ total \in Nat
  BY <1>1, MediaFacts DEF MediaFits, LibFits
<1>3. o \in Nat /\ e \in Nat /\ a <= o /\ o <= e /\ e <= Len(media)
  <2>1. o \in Nat /\ Len(bytes) \in Nat /\ e = o + Len(bytes) /\ a <= o /\ e <= total
    BY <1>1 DEF LibFits
  <2> QED
    BY <1>2, <2>1
<1>4. SubSeq(media, a + 1, o) \o SubSeq(media, o + 1, e) = SubSeq(media, a + 1, e)
  BY ONLY <1>2, <1>3, a \in Nat, SubSeqContinued
<1> QED
  BY <1>1, <1>4

(* The segment after this one that is not empty starts where this one ends,*)
(* and when there is none the media ends there.                            *)
LEMMA NextSegment ==
  ASSUME LibFits, NEW n \in 1 .. Len(lib.sizes)
  PROVE  /\ NextSegments(n) = {} => Total(lib.sizes) = StartOf(n) + lib.sizes[n]
         /\ NextSegments(n) # {} =>
              /\ Min(NextSegments(n)) \in n + 1 .. Len(lib.sizes)
              /\ lib.sizes[Min(NextSegments(n))] > 0
              /\ StartOf(Min(NextSegments(n))) = StartOf(n) + lib.sizes[n]
<1>1. PICK sizes, count, next :
        sizes = lib.sizes /\ count = Len(lib.sizes) /\ next = NextSegments(n)
  OBVIOUS
<1>2. /\ sizes \in Seq(Nat) /\ count = Len(sizes) /\ count \in Nat /\ n \in Nat
      /\ \A k \in 1 .. count : sizes[k] \in Nat
  BY <1>1, SMTT(30) DEF LibFits
<1>3. next = {m \in n + 1 .. count : sizes[m] > 0}
  BY <1>1 DEF NextSegments
<1>4. /\ (\A i \in n + 1 .. count : sizes[i] = 0) => Total(sizes) = StartOf(n) + sizes[n]
      /\ \A m \in n + 1 .. count :
           (\A i \in n + 1 .. m - 1 : sizes[i] = 0) => StartOf(m) = StartOf(n) + sizes[n]
  BY <1>1, MediaFacts DEF MediaFits, LibFits
<1>5. CASE next = {}
  <2>1. \A i \in n + 1 .. count : sizes[i] = 0
    BY <1>2, <1>3, <1>5, SMTT(30)
  <2> QED
    BY <1>1, <1>4, <1>5, <2>1
<1>6. CASE next # {}
  <2>1. PICK m : m = Min(next)
    OBVIOUS
  <2>2. next \in SUBSET Nat
    BY <1>2, <1>3
  <2>3. m \in next /\ \A y \in next : m <= y
    BY <1>6, <2>1, <2>2, MinOfSome
  <2>4. m \in n + 1 .. count /\ sizes[m] > 0
    BY <1>3, <2>3
  <2>5. \A i \in n + 1 .. m - 1 : sizes[i] = 0
    <3> TAKE i \in n + 1 .. m - 1
    <3>1. i \in n + 1 .. count /\ ~ (m <= i) /\ sizes[i] \in Nat
      BY <1>2, <2>4
    <3>2. i \notin next
      BY <2>3, <3>1
    <3> QED
      BY <1>3, <3>1, <3>2
  <2>6. StartOf(m) = StartOf(n) + sizes[n]
    BY <1>4, <2>4, <2>5
  <2> QED
    BY <1>1, <1>6, <2>1, <2>4, <2>6
<1> QED
  BY <1>5, <1>6

-----------------------------------------------------------------------------
(* Where a thread that reads a segment is, with what it has read of it.    *)
ReadOf(t, c, bytes, l, data) ==
  /\ c = thread[t] /\ l = Len(bytes) /\ data = c.data \o bytes
  /\ \E count \in 0 .. Wanted(t) : bytes = BytesOf(c.segment, position[c.segment], count)
  /\ c.step = "read_segment" /\ Reading(t) /\ lib.open
  /\ UNCHANGED <<calls, sought, taken>>
  /\ position' = [position EXCEPT ![c.segment] = @ + l]
  /\ lib'.sizes = lib.sizes /\ lib'.open = lib.open /\ lib'.offset = lib.offset + l

(* The state after the segment was read, but for what the read does next.  *)
LEMMA ReadAgrees ==
  ASSUME IInv, BytesInv, NEW t \in Threads, NEW c, NEW bytes, NEW l, NEW data,
         ReadOf(t, c, bytes, l, data)
  PROVE  /\ DOMAIN c = DOMAIN Idle /\ LocalTypes(c) /\ AtOffsetFits(c)
         /\ LibFits /\ LibFits'
         /\ c.segment \in 1 .. Len(lib.sizes) /\ c.segment \in 1 .. Len(Files) /\ Placed(c)
         /\ c.data \in Seq(Pairs) /\ bytes \in Seq(Pairs) /\ data \in Seq(Pairs)
         /\ l \in Nat /\ Len(data) = Len(c.data) + l
         /\ WantsOf(Wanted(t), lib.sizes[c.segment] - c.within, c.room - Len(c.data))
         /\ GivesOf(bytes, c.segment, c.within, Wanted(t))
         /\ lib.sizes[c.segment] \in Nat
<1>1. /\ DOMAIN c = DOMAIN Idle /\ LocalTypes(c) /\ ReadingFits(c) /\ AtOffsetFits(c)
      /\ LibFits /\ calls \in 0 .. MaxCalls
  BY Known DEF ReadOf
<1>2. /\ c.segment \in 1 .. Len(lib.sizes) /\ c.segment \in 1 .. Len(Files)
      /\ c.within < lib.sizes[c.segment] /\ Len(c.data) < c.room
      /\ position[c.segment] = c.within /\ Placed(c) /\ c.data \in Seq(Pairs)
  BY <1>1 DEF ReadOf, ReadingFits, LibFits, ReadSteps
<1>3. PICK rest, more : /\ rest = lib.sizes[c.segment] - c.within
                        /\ more = c.room - Len(c.data)
  OBVIOUS
<1>4. rest \in Nat \ {0} /\ more \in Nat \ {0} /\ lib.sizes[c.segment] \in Nat
  <2>1. PICK z, w, s, k : z = lib.sizes[c.segment] /\ w = c.within /\ s = c.room
                          /\ k = Len(c.data)
    OBVIOUS
  <2>2. z \in Nat /\ w \in Nat /\ s \in Nat /\ k \in Nat /\ w < z /\ k < s
    <3>1. z \in Nat
      BY <1>1, <1>2, <2>1 DEF LibFits
    <3>2. w \in Nat /\ s \in Nat
      BY <1>1, <2>1 DEF LocalTypes
    <3>3. k \in Nat
      BY <1>2, <2>1, LenProperties
    <3> QED
      BY <1>2, <2>1, <3>1, <3>2, <3>3
  <2>3. z - w \in Nat \ {0} /\ s - k \in Nat \ {0}
    BY <2>2
  <2> QED
    BY <1>3, <2>1, <2>2, <2>3
<1>5. WantsOf(Wanted(t), rest, more)
  BY <1>3, <1>4, SomeWanted DEF ReadOf
<1>6. c.within \in Nat /\ Wanted(t) \in Nat
  BY <1>1, <1>5 DEF LocalTypes, WantsOf
<1>7. GivesOf(bytes, c.segment, c.within, Wanted(t))
  BY <1>2, <1>6, BytesGiven DEF ReadOf
<1>8. bytes \in Seq(Pairs)
  BY <1>7 DEF GivesOf
<1>9. l \in Nat /\ data \in Seq(Pairs) /\ Len(data) = Len(c.data) + l
  <2>1. PICK s : s = c.data
    OBVIOUS
  <2>2. s \o bytes \in Seq(Pairs) /\ Len(s \o bytes) = Len(s) + Len(bytes) /\ Len(bytes) \in Nat
    BY <1>2, <1>8, <2>1
  <2> QED
    BY <2>1, <2>2 DEF ReadOf
<1>10. LibFits'
  <2>1. position' \in [1 .. Len(Files) -> Nat]
    BY <1>1, <1>2, <1>9, SMTT(30) DEF ReadOf, LibFits
  <2>2. lib'.offset \in Nat
    BY <1>1, <1>9 DEF ReadOf, LibFits
  <2> QED
    BY <1>1, <2>1, <2>2 DEF ReadOf, LibFits
<1> QED
  BY <1>1, <1>2, <1>3, <1>4, <1>5, <1>7, <1>8, <1>9, <1>10

(* No seek has come in between, as far as the history or the call knows.   *)
NotMoved(c) == ~sought \/ ~c.moved

(* Where the read and the history are then.                                *)
ReadsExactly(c, l, data) ==
  /\ lib.offset = StartOf(c.segment) + c.within
  /\ lib.offset + l <= Total(lib.sizes)
  /\ \A a \in Nat :
       a <= lib.offset /\ c.data = SubSeq(MediaBytes, a + 1, lib.offset) =>
         data = SubSeq(MediaBytes, a + 1, lib.offset + l)
  /\ ~sought => /\ taken \in Seq(Pairs)
                /\ taken \o data = SubSeq(MediaBytes, 1, lib.offset + l)

(* A read that is in place gives the bytes of the media at the offset.     *)
LEMMA ReadExactly ==
  ASSUME IInv, BytesInv, NEW t \in Threads, NEW c, NEW bytes, NEW l, NEW data,
         ReadOf(t, c, bytes, l, data), NotMoved(c)
  PROVE  ReadsExactly(c, l, data)
<1>1. /\ LibFits /\ c.segment \in 1 .. Len(lib.sizes) /\ Placed(c) /\ LocalTypes(c)
      /\ c.data \in Seq(Pairs) /\ bytes \in Seq(Pairs) /\ lib.sizes[c.segment] \in Nat
      /\ WantsOf(Wanted(t), lib.sizes[c.segment] - c.within, c.room - Len(c.data))
      /\ GivesOf(bytes, c.segment, c.within, Wanted(t))
  BY ReadAgrees
<1>2. lib.offset = StartOf(c.segment) + c.within
  BY <1>1 DEF Placed, NotMoved
<1>3. c.within \in Nat /\ Wanted(t) \in Nat /\ c.within + Wanted(t) <= lib.sizes[c.segment]
  <2>1. PICK z, w, k : z = lib.sizes[c.segment] /\ w = c.within /\ k = Wanted(t)
    OBVIOUS
  <2>2. z \in Nat /\ w \in Nat /\ k \in Nat /\ k <= z - w
    BY <1>1, <2>1 DEF LocalTypes, WantsOf
  <2>3. w + k <= z
    BY <2>2
  <2> QED
    BY <2>1, <2>2, <2>3
<1>4. PICK n, from, count : n = c.segment /\ from = c.within /\ count = Wanted(t)
  OBVIOUS
<1>5. /\ n \in 1 .. Len(lib.sizes) /\ from \in Nat /\ count \in Nat
      /\ from + count <= lib.sizes[n] /\ lib.offset = StartOf(n) + from
      /\ GivesOf(bytes, n, from, count)
  BY <1>1, <1>2, <1>3, <1>4
<1>6. /\ bytes = SubSeq(MediaBytes, lib.offset + 1, lib.offset + Len(bytes))
      /\ lib.offset + Len(bytes) <= Total(lib.sizes)
  BY ONLY <1>1, <1>5, ReadsMedia
<1>7. ASSUME NEW a \in Nat, a <= lib.offset, NEW before \in Seq(Pairs),
             before = SubSeq(MediaBytes, a + 1, lib.offset)
      PROVE  before \o bytes = SubSeq(MediaBytes, a + 1, lib.offset + Len(bytes))
  BY ONLY <1>1, <1>6, <1>7, ReadsOn
<1>8. ASSUME ~sought
      PROVE  taken \in Seq(Pairs)
             /\ taken \o data = SubSeq(MediaBytes, 1, lib.offset + l)
  <2>1. /\ taken \in Seq(Pairs)
        /\ taken \o c.data = SubSeq(MediaBytes, 1, lib.offset)
    BY <1>8 DEF BytesInv, TakenFits, ReadOf
  <2>2. PICK s, before : s = c.data /\ before = taken \o s
    OBVIOUS
  <2>3. before \in Seq(Pairs) /\ before \o bytes = taken \o (s \o bytes)
    <3>1. taken \in Seq(Pairs) /\ s \in Seq(Pairs) /\ bytes \in Seq(Pairs)
      BY <1>1, <2>1, <2>2
    <3>2. (taken \o s) \o bytes = taken \o (s \o bytes)
      BY ONLY <3>1, ConcatAssociative, SMTT(30)
    <3>3. taken \o s \in Seq(Pairs)
      BY <3>1
    <3> QED
      BY <2>2, <3>2, <3>3
  <2>4. 0 \in Nat /\ 0 <= lib.offset /\ 0 + 1 = 1
    BY <1>1 DEF LibFits
  <2>5. before = SubSeq(MediaBytes, 0 + 1, lib.offset)
    BY <2>1, <2>2, <2>4
  <2>6. before \o bytes = SubSeq(MediaBytes, 0 + 1, lib.offset + Len(bytes))
    BY <1>7, <2>3, <2>4, <2>5
  <2> QED
    BY <2>1, <2>2, <2>3, <2>4, <2>6 DEF ReadOf
<1> QED
  BY <1>1, <1>2, <1>6, <1>7, <1>8 DEF ReadOf, ReadsExactly

(* The parts of the invariant that are of all threads, when the read of    *)
(* one goes on with r.                                                     *)
LEMMA ReadGoesOn ==
  ASSUME IInv, BytesInv, NEW t \in Threads, NEW c, NEW bytes, NEW l, NEW data,
         ReadOf(t, c, bytes, l, data), NEW r, GoesAndMoves(t, r), Fits(r)',
         r.step \in ReadSteps, r.data = data
  PROVE  BytesInv'
<1>1. LibFits' /\ Reading(t)
  BY ReadAgrees DEF ReadOf
<1>2. r.step \notin OpenSteps
  BY DEF ReadSteps, OpenSteps
<1>3. /\ \A u \in Threads : Fits(thread[u])'
      /\ OneOpens'
      /\ thread'[t] = r
      /\ \A u \in Threads \ {t} : Reading(u)' <=> Reading(u)
  BY <1>1, <1>2, OthersMove DEF ReadOf
<1>4. TakenFits'
  <2>1. MediaBytes' = MediaBytes /\ Total(lib.sizes)' = Total(lib.sizes)
    BY SizesKept DEF ReadOf
  <2>2. Reading(t)' /\ \A u \in Threads : Reading(u)' => u = t
    BY <1>1, <1>3, OneReads DEF Reading, ReadSteps
  <2>3. ASSUME ~sought
        PROVE  /\ lib.offset + l <= Total(lib.sizes) /\ taken \in Seq(Pairs)
               /\ taken \o data = SubSeq(MediaBytes, 1, lib.offset + l)
    <3>1. NotMoved(c)
      BY <2>3 DEF NotMoved
    <3>2. ReadsExactly(c, l, data)
      BY <3>1, ReadExactly
    <3> QED
      BY <2>3, <3>2 DEF ReadsExactly
  <2> QED
    BY <1>3, <2>1, <2>2, <2>3 DEF TakenFits, ReadOf
<1> QED
  BY <1>1, <1>3, <1>4 DEF BytesInv

-----------------------------------------------------------------------------
(* The read goes on with r: at the start of a segment, or at its end.      *)
ReadOn(t, c, data, r, step) ==
  /\ SameBut(r, c, step) /\ r.failed = c.failed /\ r.data = data
  /\ r.size = c.size /\ r.room = c.room
  /\ GoesAndMoves(t, r)

(* What read_buffer_at_offset has read is exact as far as it goes.         *)
LEMMA ReadStaysExact ==
  ASSUME IInv, BytesInv, NEW t \in Threads, NEW c, NEW bytes, NEW l, NEW data,
         ReadOf(t, c, bytes, l, data), NEW r, NEW step \in {"seek_segment", "unlock"},
         ReadOn(t, c, data, r, step),
         step = "unlock" /\ lib'.offset = c.offset + Len(data) /\ Roomy(c) => Complete(r)'
  PROVE  AtOffsetFits(r)'
<1>1. /\ LocalTypes(c) /\ AtOffsetFits(c) /\ LibFits /\ c.data \in Seq(Pairs) /\ l \in Nat
      /\ Len(data) = Len(c.data) + l
  BY ReadAgrees
<1>2. MediaBytes' = MediaBytes /\ Total(lib.sizes)' = Total(lib.sizes)
  BY SizesKept DEF ReadOf
<1>3. lib'.open /\ lib'.offset = lib.offset + l /\ c.step = "read_segment"
  BY DEF ReadOf
<1>4. ASSUME r.call = "read_buffer_at_offset", ~r.failed, ~r.moved PROVE Exact(r)'
  <2>1. lib.offset = c.offset + Len(c.data)
        /\ c.data = SubSeq(MediaBytes, c.offset + 1, c.offset + Len(c.data))
        /\ Roomy(c)
    BY <1>1, <1>3, <1>4 DEF AtOffsetFits, Exact, ReadOn, SameBut, ReadSteps
  <2>2. NotMoved(c)
    BY <1>4 DEF NotMoved, ReadOn, SameBut
  <2>3. ReadsExactly(c, l, data)
    BY <2>2, ReadExactly
  <2>4. c.offset \in Nat /\ c.offset <= lib.offset /\ lib.offset + l = c.offset + Len(data)
    <3>1. PICK o, a, k, m : o = lib.offset /\ a = c.offset /\ k = Len(c.data) /\ m = Len(data)
      OBVIOUS
    <3>2. o \in Nat /\ a \in Nat /\ k \in Nat /\ o = a + k /\ m = k + l
      BY <1>1, <2>1, <3>1 DEF LibFits, LocalTypes
    <3>3. a <= o /\ o + l = a + m
      BY <1>1, <3>2
    <3> QED
      BY <3>1, <3>2, <3>3
  <2>5. data = SubSeq(MediaBytes, c.offset + 1, lib.offset + l)
    BY <2>1, <2>3, <2>4 DEF ReadsExactly
  <2>6. r.step = "unlock" => Complete(r)'
    BY <1>3, <2>1, <2>4 DEF ReadOn, SameBut
  <2>7. r.step \in {"seek_segment", "unlock"} /\ r.offset = c.offset /\ r.data = data
    BY DEF ReadOn, SameBut
  <2>8. Roomy(r)'
    BY <1>2, <2>1, <2>7 DEF Roomy, ReadOn
  <2> QED
    BY <1>2, <1>3, <2>4, <2>5, <2>6, <2>7, <2>8 DEF Exact
<1> QED
  BY <1>3, <1>4 DEF AtOffsetFits

(* The read goes on in the next segment.                                   *)
LEMMA ReadNextBytes ==
  ASSUME IInv, BytesInv, NEW t \in Threads, NEW c, NEW bytes, NEW l, NEW data,
         ReadOf(t, c, bytes, l, data), NEW r, ReadOn(t, c, data, r, "seek_segment"),
         l = Wanted(t), Len(data) < c.room, NextSegments(c.segment) # {},
         r.segment = Min(NextSegments(c.segment)), r.within = 0
  PROVE  BytesInv'
<1>1. /\ LocalTypes(c) /\ LibFits /\ c.data \in Seq(Pairs) /\ data \in Seq(Pairs) /\ l \in Nat
      /\ Len(data) = Len(c.data) + l /\ c.segment \in 1 .. Len(lib.sizes)
      /\ WantsOf(Wanted(t), lib.sizes[c.segment] - c.within, c.room - Len(c.data))
      /\ lib.sizes[c.segment] \in Nat
  BY ReadAgrees
<1>2. PICK n, m : n = c.segment /\ m = r.segment
  OBVIOUS
<1>3. n \in 1 .. Len(lib.sizes) /\ NextSegments(n) # {} /\ m = Min(NextSegments(n))
  BY <1>1, <1>2
<1>4. /\ m \in n + 1 .. Len(lib.sizes) /\ lib.sizes[m] > 0
      /\ StartOf(m) = StartOf(n) + lib.sizes[n]
  BY ONLY <1>1, <1>3, NextSegment
<1>5. m \in 1 .. Len(lib.sizes) /\ m \in Nat
  <2>1. Len(lib.sizes) \in Nat /\ n \in 1 .. Len(lib.sizes)
    BY <1>1, <1>3 DEF LibFits
  <2> QED
    BY <1>4, <2>1
<1>6. l = lib.sizes[n] - c.within
  <2>1. PICK z, w, s, k, d : /\ z = lib.sizes[n] /\ w = c.within /\ s = c.room
                             /\ k = Len(c.data) /\ d = Len(data)
    OBVIOUS
  <2>2. z \in Nat /\ w \in Nat /\ s \in Nat /\ k \in Nat /\ d = k + l /\ d < s
        /\ (l = z - w \/ l = s - k)
    BY <1>1, <1>2, <2>1 DEF LocalTypes, WantsOf
  <2>3. l = z - w
    BY <1>1, <2>2
  <2> QED
    BY <2>1, <2>3
<1>7. lib'.sizes = lib.sizes /\ (\A k : StartOf(k)' = StartOf(k)) /\ lib'.offset = lib.offset + l
      /\ sought' = sought
  BY SizesKept DEF ReadOf
<1>8. Placed(r)'
  <2>1. ASSUME NotMoved(c) PROVE lib.offset + l = StartOf(m) + 0
    <3>1. lib.offset = StartOf(n) + c.within
      BY <1>2, <2>1, ReadExactly DEF ReadsExactly
    <3>2. PICK o, s, z, w : o = lib.offset /\ s = StartOf(n) /\ z = lib.sizes[n] /\ w = c.within
      OBVIOUS
    <3>3. o \in Nat /\ s \in Nat /\ z \in Nat /\ w \in Nat /\ l = z - w /\ o = s + w
      BY <1>1, <1>2, <1>3, <1>6, <3>1, <3>2, MediaFacts DEF LibFits, LocalTypes, MediaFits
    <3>4. o + l = s + z /\ s + z = (s + z) + 0
      BY <1>1, <3>3
    <3> QED
      BY <1>4, <3>2, <3>4
  <2>2. r.moved = c.moved /\ r.segment = m /\ r.within = 0
    BY <1>2 DEF ReadOn, SameBut
  <2> QED
    BY <1>7, <2>1, <2>2 DEF Placed, NotMoved
<1>9. LocalTypes(r)' /\ OpeningFits(r)'
  BY <1>1, <1>2, <1>5 DEF LocalTypes, OpeningFits, ReadOn, SameBut, OpenSteps
<1>10. ReadingFits(r)'
  BY <1>1, <1>2, <1>4, <1>5, <1>7, <1>8 DEF ReadingFits, ReadOn, SameBut
<1>11. AtOffsetFits(r)'
  BY ReadStaysExact
<1>12. Fits(r)' /\ r.step \in ReadSteps /\ r.data = data /\ GoesAndMoves(t, r)
  BY <1>9, <1>10, <1>11 DEF Fits, ReadOn, SameBut, ReadSteps
<1> QED
  BY <1>12, ReadGoesOn

(* The read ends: it has all of it, or the media ends, or it is short.     *)
LEMMA ReadEndsBytes ==
  ASSUME IInv, BytesInv, NEW t \in Threads, NEW c, NEW bytes, NEW l, NEW data,
         ReadOf(t, c, bytes, l, data), NEW r, ReadOn(t, c, data, r, "unlock"),
         r.segment = c.segment, r.within = c.within, l # Wanted(t) => r.short,
         l # Wanted(t) \/ ~ (Len(data) < c.room) \/ NextSegments(c.segment) = {}
  PROVE  BytesInv'
<1>1. /\ LocalTypes(c) /\ LibFits /\ c.data \in Seq(Pairs) /\ data \in Seq(Pairs) /\ l \in Nat
      /\ Len(data) = Len(c.data) + l
      /\ c.segment \in 1 .. Len(lib.sizes) /\ c.segment \in 1 .. Len(Files)
      /\ WantsOf(Wanted(t), lib.sizes[c.segment] - c.within, c.room - Len(c.data))
      /\ GivesOf(bytes, c.segment, c.within, Wanted(t)) /\ lib.sizes[c.segment] \in Nat
  BY ReadAgrees
<1>2. lib'.sizes = lib.sizes /\ Total(lib.sizes)' = Total(lib.sizes)
      /\ lib'.offset = lib.offset + l
  BY SizesKept DEF ReadOf
<1>3. PICK n, z, w, s, k, d, wanted :
        /\ n = c.segment /\ z = lib.sizes[n] /\ w = c.within /\ s = c.room
        /\ k = Len(c.data) /\ d = Len(data) /\ wanted = Wanted(t)
  OBVIOUS
<1>4. /\ z \in Nat /\ w \in Nat /\ s \in Nat /\ k \in Nat /\ d = k + l
      /\ wanted \in Nat /\ wanted <= z - w /\ wanted <= s - k
      /\ wanted = z - w \/ wanted = s - k
  BY <1>1, <1>3 DEF LocalTypes, WantsOf
<1>5. n \in 1 .. Len(lib.sizes)
  BY <1>1, <1>3
<1>6. l <= wanted /\ (l # wanted => r.short)
  BY <1>3, <1>1 DEF GivesOf, ReadOf
<1>7. \/ r.short
      \/ d = s
      \/ l = z - w /\ NextSegments(n) = {}
  <2>1. CASE l # wanted
    BY <1>4, <1>5, <1>6, <2>1
  <2>2. CASE l = wanted /\ ~ (d < s)
    BY <1>1, <1>4, <2>2
  <2>3. CASE l = wanted /\ d < s
    BY <1>1, <1>3, <1>4, <2>3
  <2> QED
    BY <2>1, <2>2, <2>3
<1>8. r.call = "read_buffer_at_offset" /\ ~r.failed /\ ~r.moved => lib.open
  BY DEF ReadOf
<1>9. ASSUME lib'.offset = c.offset + Len(data), NotMoved(c), Roomy(c) PROVE Complete(r)'
  <2>1. r.size = c.size /\ r.data = data /\ r.offset = c.offset
    BY <1>3 DEF ReadOn, SameBut
  <2>2. CASE r.short
    BY <2>2 DEF Complete
  <2>3. CASE d = s
    BY <1>2, <1>3, <1>9, <2>1, <2>3 DEF Complete, Roomy
  <2>4. CASE l = z - w /\ NextSegments(n) = {}
    <3>1. lib.offset = StartOf(n) + w
      BY <1>3, <1>9, ReadExactly DEF ReadsExactly
    <3>2. Total(lib.sizes) = StartOf(n) + z
      BY <1>1, <1>3, <1>5, <2>4, NextSegment
    <3>3. PICK o, b, total : o = lib.offset /\ b = StartOf(n) /\ total = Total(lib.sizes)
      OBVIOUS
    <3>4. o \in Nat /\ b \in Nat /\ o = b + w /\ total = b + z
      BY <1>1, <1>5, <3>1, <3>2, <3>3, MediaFacts DEF LibFits, MediaFits
    <3>5. o + l >= total
      <4>1. l \in Nat /\ z \in Nat /\ w \in Nat /\ l = z - w
        BY <1>1, <1>4, <2>4
      <4> QED
        BY ONLY <3>4, <4>1
    <3>6. r.offset + Len(r.data) >= Total(lib'.sizes)
      BY <1>2, <1>9, <2>1, <3>3, <3>5
    <3> QED
      BY <3>6 DEF Complete
  <2> QED
    BY <1>7, <2>2, <2>3, <2>4
<1>10. LocalTypes(r)' /\ OpeningFits(r)' /\ ReadingFits(r)'
  BY <1>1 DEF LocalTypes, OpeningFits, ReadingFits, ReadOn, SameBut, OpenSteps
<1>11. AtOffsetFits(r)'
  <2>1. CASE r.moved
    BY <2>1 DEF AtOffsetFits, ReadOf
  <2>2. CASE ~r.moved
    <3>1. NotMoved(c)
      BY <2>2 DEF NotMoved, ReadOn, SameBut
    <3> QED
      BY <1>9, <3>1, ReadStaysExact
  <2> QED
    BY <2>1, <2>2
<1>12. Fits(r)' /\ r.step \in ReadSteps /\ r.data = data /\ GoesAndMoves(t, r)
  BY <1>10, <1>11 DEF Fits, ReadOn, SameBut, ReadSteps
<1> QED
  BY <1>12, ReadGoesOn

-----------------------------------------------------------------------------
(* The segment is read, and the read goes on or ends.                      *)
LEMMA ReadDataBytes ==
  ASSUME IInv, BytesInv, NEW t \in Threads, ReadSegmentData(t), pool = "live"
  PROVE  BytesInv'
<1>1. PICK c, n, count, bytes, data, next, l :
        /\ c = thread[t] /\ n = c.segment /\ count \in 0 .. Wanted(t)
        /\ bytes = BytesOf(n, position[n], count)
        /\ data = c.data \o bytes /\ next = NextSegments(n) /\ l = Len(bytes)
        /\ position' = [position EXCEPT ![n] = @ + Len(bytes)]
        /\ lib' = [lib EXCEPT !.offset = @ + Len(bytes)]
        /\ GoesAndMoves(t,
             IF Len(bytes) = Wanted(t) /\ Len(data) < c.room /\ next # {}
             THEN [c EXCEPT !.data = data, !.step = "seek_segment", !.within = 0,
                            !.segment = Min(next)]
             ELSE [c EXCEPT !.data = data, !.step = "unlock", !.short = Len(bytes) < Wanted(t)])
        /\ UNCHANGED <<calls, history>>
  BY ZenonT(60) DEF ReadSegmentData
<1>2. /\ c.step = "read_segment"
      /\ position' = [position EXCEPT ![n] = @ + Len(bytes)]
      /\ lib' = [lib EXCEPT !.offset = @ + Len(bytes)]
      /\ GoesAndMoves(t,
           IF Len(bytes) = Wanted(t) /\ Len(data) < c.room /\ next # {}
           THEN [c EXCEPT !.data = data, !.step = "seek_segment", !.within = 0,
                          !.segment = Min(next)]
           ELSE [c EXCEPT !.data = data, !.step = "unlock", !.short = Len(bytes) < Wanted(t)])
      /\ UNCHANGED <<calls, sought, taken>>
  BY <1>1, Zenon DEF ReadSegmentData, At, history
<1>3. Reading(t) /\ lib.open /\ DOMAIN lib = DOMAIN ClosedLib /\ DOMAIN c = DOMAIN Idle
  BY <1>1, <1>2 DEF Reading, IInv, PoolHeld, Shaped
<1>4. lib'.sizes = lib.sizes /\ lib'.open = lib.open /\ lib'.offset = lib.offset + l
  BY <1>1, <1>2, <1>3 DEF ClosedLib
<1>5. ReadOf(t, c, bytes, l, data)
  BY <1>1, <1>2, <1>3, <1>4 DEF ReadOf
<1>6. CASE Len(bytes) = Wanted(t) /\ Len(data) < c.room /\ next # {}
  <2>1. PICK r : r = [c EXCEPT !.data = data, !.step = "seek_segment", !.within = 0,
                               !.segment = Min(next)]
    OBVIOUS
  <2>2. GoesAndMoves(t, r)
    BY <1>2, <1>6, <2>1
  <2>3. ReadOn(t, c, data, r, "seek_segment") /\ r.segment = Min(next) /\ r.within = 0
    BY <1>3, <2>1, <2>2 DEF ReadOn, SameBut, Idle
  <2> QED
    BY <1>1, <1>5, <1>6, <2>3, ReadNextBytes
<1>7. CASE ~ (Len(bytes) = Wanted(t) /\ Len(data) < c.room /\ next # {})
  <2>1. PICK r : r = [c EXCEPT !.data = data, !.step = "unlock",
                               !.short = Len(bytes) < Wanted(t)]
    OBVIOUS
  <2>2. GoesAndMoves(t, r)
    BY <1>2, <1>7, <2>1
  <2>3. ReadOn(t, c, data, r, "unlock") /\ r.segment = c.segment /\ r.within = c.within
        /\ r.short = (Len(bytes) < Wanted(t))
    BY <1>3, <2>1, <2>2 DEF ReadOn, SameBut, Idle
  <2>4. l # Wanted(t) => r.short
    <3>1. l \in Nat /\ Wanted(t) \in Nat /\ l <= Wanted(t)
      BY <1>1, <1>5, ReadAgrees, SMTT(30) DEF WantsOf, GivesOf
    <3>2. l # Wanted(t) => Len(bytes) < Wanted(t)
      BY <1>1, <3>1
    <3> QED
      BY <2>3, <3>2, Zenon
  <2> QED
    BY <1>1, <1>5, <1>7, <2>3, <2>4, ReadEndsBytes, ZenonT(40)
<1> QED
  BY <1>6, <1>7

(* A segment is sought and read, unless the pool was freed.                *)
LEMMA SegmentBytes ==
  ASSUME IInv, BytesInv, NEW t \in Threads,
         SeekSegmentOffset(t) \/ ReadSegmentData(t) \/ FileObjectRaises(t)
  PROVE  BytesInv'
<1>1. CASE FileObjectRaises(t)
  BY <1>1, RaisesBytes
<1>2. CASE pool = "live" /\ (SeekSegmentOffset(t) \/ ReadSegmentData(t))
  BY <1>2, SeekSegmentBytes, ReadDataBytes
<1>3. CASE pool # "live" /\ (SeekSegmentOffset(t) \/ ReadSegmentData(t))
  <2>1. UsesFreedPool
    BY <1>3 DEF SeekSegmentOffset, ReadSegmentData
  <2>2. UNCHANGED <<lib, position, thread, sought, taken>> /\ calls' \in 0 .. MaxCalls
    BY <2>1 DEF UsesFreedPool, BytesInv, LibFits, history
  <2> QED
    BY <2>2, NothingMoves
<1> QED
  BY <1>1, <1>2, <1>3

-----------------------------------------------------------------------------
(* Opening and closing.                                                    *)

(* An open starts with no sizes, or is refused and changes no byte.        *)
LEMMA OpenBytes ==
  ASSUME IInv, BytesInv, NEW t \in Threads, PyOpenFileObjects(t)
  PROVE  BytesInv'
<1>1. /\ \A u \in Threads : thread[u] = Idle
      /\ UNCHANGED <<lib, position, sought, taken>>
      /\ calls' = calls + 1 /\ calls < MaxCalls
  BY DEF PyOpenFileObjects, Quiet, history
<1>2. calls' \in 0 .. MaxCalls
  BY <1>1, Known, Constants
<1>3. CASE UNCHANGED thread
  BY <1>1, <1>2, <1>3, NothingMoves
<1>4. CASE /\ ~lib.open
           /\ Goes(t, [Idle EXCEPT !.call = "open_file_objects", !.step = "size", !.segment = 1])
  <2>1. PICK r : r = [Idle EXCEPT !.call = "open_file_objects", !.step = "size", !.segment = 1]
    OBVIOUS
  <2>2. /\ DOMAIN r = DOMAIN Idle /\ r.call = "open_file_objects" /\ r.step = "size"
        /\ r.segment = 1 /\ r.size = 0 /\ r.offset = 0 /\ r.room = 0 /\ r.within = 0 /\ r.data = << >>
    BY <2>1 DEF Idle
  <2>3. r.data \in Seq(Nat) /\ 1 \in 1 .. Len(Files) /\ Len(r.data) = r.segment - 1
    BY <2>2, Constants
  <2>4. LocalTypes(r) /\ OpeningFits(r) /\ ReadingFits(r) /\ AtOffsetFits(r)
    BY <1>4, <2>2, <2>3 DEF LocalTypes, OpeningFits, ReadingFits, AtOffsetFits, ReadSteps
  <2>5. Alone(t, r)
    BY <1>1, <1>2, <1>4, <2>1, <2>2, <2>4 DEF Alone, Fits
  <2>6. Hands(t, r)
    BY <1>1, <2>2 DEF Hands, ReadSteps, Reading, Idle
  <2> QED
    BY <2>5, <2>6, AloneStep
<1> QED
  BY <1>3, <1>4 DEF PyOpenFileObjects

(* The handle is open, with the sizes that were collected, and from its    *)
(* start.                                                                  *)
LEMMA OpenedBytes ==
  ASSUME IInv, BytesInv, NEW t \in Threads, OpenFileIoPool(t)
  PROVE  BytesInv'
<1>1. PICK c, r : c = thread[t] /\ r = [c EXCEPT !.step = "return", !.data = << >>]
  OBVIOUS
<1>2. /\ Goes(t, r) /\ lib' = [open |-> TRUE, sizes |-> c.data, offset |-> 0]
      /\ taken' = << >> /\ sought' = FALSE /\ UNCHANGED <<position, calls>>
      /\ c.step = "opened"
  BY <1>1 DEF OpenFileIoPool, At
<1>3. DOMAIN c = DOMAIN Idle /\ LocalTypes(c) /\ OpeningFits(c) /\ LibFits
  BY <1>1, Known
<1>4. ~lib.open /\ c.call = "open_file_objects" /\ c.data \in Seq(Nat)
      /\ Len(c.data) = Len(Files)
  BY <1>2, <1>3 DEF OpeningFits, OpenSteps
<1>5. /\ SameBut(r, c, "return") /\ r.size = c.size /\ r.room = c.room
      /\ r.segment = c.segment /\ r.within = c.within
  BY <1>1, <1>3 DEF Idle, SameBut
<1>6. LibFits'
  BY <1>2, <1>3, <1>4 DEF LibFits
<1>7. Fits(r)'
  BY <1>3, <1>4, <1>5 DEF Fits, LocalTypes, OpeningFits, ReadingFits, AtOffsetFits, SameBut,
     OpenSteps, ReadSteps
<1>8. thread'[t] = r /\ \A u \in Threads \ {t} : thread'[u] = thread[u]
  BY <1>2 DEF Goes, IInv, Shaped
<1>9. ASSUME NEW u \in Threads \ {t} PROVE Fits(thread[u])' /\ ~Reading(u)'
  <2>1. PICK d : d = thread[u] /\ d = thread'[u]
    BY <1>8
  <2>2. Fits(d) /\ d.step \notin ReadSteps
    BY <1>4, <2>1 DEF BytesInv, IInv, PoolHeld, Reading, ReadSteps
  <2>3. d.step \notin OpenSteps
    BY <1>1, <1>2, <2>1 DEF BytesInv, OneOpens, OpenSteps
  <2>4. Fits(d)'
    BY <1>4, <2>2, <2>3 DEF Fits, LocalTypes, OpeningFits, ReadingFits, AtOffsetFits, ReadSteps
  <2> QED
    BY <2>1, <2>2, <2>4 DEF Reading, ReadSteps
<1>10. \A u \in Threads : Fits(thread[u])' /\ ~Reading(u)'
  BY <1>5, <1>7, <1>8, <1>9 DEF Reading, SameBut
<1>11. OneOpens'
  BY <1>5, <1>8 DEF OneOpens, BytesInv, SameBut, OpenSteps
<1>12. TakenFits'
  <2>1. lib'.offset = 0 /\ taken' = << >> /\ << >> \in Seq(Pairs)
    BY <1>2
  <2>2. Total(lib'.sizes) \in Nat
    BY <1>2, <1>4, TotalIsNat
  <2>3. SubSeq(MediaBytes', 1, 0) = << >>
    BY SubSeqEmpty
  <2> QED
    BY <1>10, <2>1, <2>2, <2>3 DEF TakenFits
<1> QED
  BY <1>6, <1>10, <1>11, <1>12 DEF BytesInv

(* Closing forgets the segments.                                           *)
LEMMA CloseBytes ==
  ASSUME IInv, BytesInv, PyClose
  PROVE  BytesInv'
<1>1. /\ \A u \in Threads : thread[u] = Idle
      /\ UNCHANGED <<position, thread, sought>>
      /\ lib' = ClosedLib /\ calls' = 0
  BY DEF PyClose, Quiet, history
<1>2. LibFits'
  BY <1>1, Constants DEF BytesInv, LibFits, ClosedLib
<1>3. LocalTypes(Idle)' /\ OpeningFits(Idle)' /\ ReadingFits(Idle)' /\ AtOffsetFits(Idle)'
  BY DEF LocalTypes, OpeningFits, ReadingFits, AtOffsetFits, Idle, OpenSteps, ReadSteps
<1>4. \A u \in Threads : Fits(thread[u])'
  BY <1>1, <1>3 DEF Fits
<1>5. TakenFits' /\ OneOpens'
  BY <1>1 DEF TakenFits, OneOpens, BytesInv, ClosedLib
<1> QED
  BY <1>2, <1>4, <1>5 DEF BytesInv

(* Nothing was opened or read yet.                                         *)
LEMMA InitBytes == Init => BytesInv
<1> SUFFICES ASSUME Init PROVE BytesInv
  OBVIOUS
<1>1. /\ \A u \in Threads : thread[u] = Idle
      /\ lib = ClosedLib /\ calls = 0 /\ sought = FALSE
      /\ position = [n \in 1 .. Len(Files) |-> 0]
  BY DEF Init
<1>2. LibFits
  <2>1. lib.open = FALSE /\ lib.sizes = << >> /\ lib.offset = 0
    BY <1>1 DEF ClosedLib
  <2>2. position \in [1 .. Len(Files) -> Nat]
    BY <1>1
  <2>3. calls \in 0 .. MaxCalls
    BY <1>1, Constants
  <2>4. lib.sizes \in Seq(Nat) /\ lib.offset \in Nat /\ ~lib.open /\ sought \in BOOLEAN
    <3>1. << >> \in Seq(Nat) /\ 0 \in Nat
      OBVIOUS
    <3> QED
      BY <1>1, <2>1, <3>1
  <2> QED
    BY <2>2, <2>3, <2>4, Zenon DEF LibFits
<1>3. TakenFits /\ OneOpens
  BY <1>1 DEF TakenFits, OneOpens, Idle, OpenSteps, ClosedLib
<1> QED
  BY <1>1, <1>2, <1>3, IdleFits DEF BytesInv

-----------------------------------------------------------------------------
(* In every reachable state, of any threads and file objects, what was     *)
(* read is as BytesInv says.                                               *)
THEOREM BytesInvAlways == Spec => []BytesInv
<1>1. ASSUME IInv, BytesInv, [Next]_vars PROVE BytesInv'
  <2>1. CASE PyClose
    BY <1>1, <2>1, CloseBytes
  <2>2. ASSUME NEW t \in Threads, Program(t) PROVE BytesInv'
    BY <1>1, <2>2, OpenBytes, CallBytes DEF Program
  <2>3. ASSUME NEW t \in Threads, SeekOffset(t) PROVE BytesInv'
    BY <1>1, <2>3, SeekOpenBytes, SeekClosedBytes
  <2>4. ASSUME NEW t \in Threads, Library(t) PROVE BytesInv'
    BY <1>1, <2>3, <2>4, SizeBytes, OpenedBytes, RefusedBytes, GrabBytes, FindBytes,
       SegmentBytes, ReleaseBytes, ReturnBytes DEF Library
  <2>5. CASE UNCHANGED vars
    <3>1. UNCHANGED <<lib, position, thread, sought, taken>> /\ calls' \in 0 .. MaxCalls
      BY <1>1, <2>5 DEF vars, BytesInv, LibFits, history
    <3> QED
      BY <1>1, <3>1, NothingMoves
  <2> QED
    BY <1>1, <2>1, <2>2, <2>4, <2>5 DEF Next
<1> QED
  BY SpecIInv, InitBytes, <1>1, PTL DEF Spec

(* read_buffer_at_offset gives the bytes at its offset, for any number of  *)
(* threads, file objects and sizes, whatever the other threads do that     *)
(* does not move the offset between its seek and its read, and whatever a  *)
(* file object gives of what it is asked for; it gives less than was asked *)
(* for only at the end of the media or after a file object gave less.      *)
THEOREM ReadAtOffsetIsExact == Spec => []ReadAtOffsetExact
<1>1. ASSUME BytesInv PROVE ReadAtOffsetExact
  <2>1. ASSUME NEW t \in Threads, NEW c, c = thread[t],
               c.call = "read_buffer_at_offset", c.step = "return", ~c.failed, ~c.moved
        PROVE  /\ c.data = SubSeq(MediaBytes, c.offset + 1, c.offset + Len(c.data))
               /\ Complete(c)
    BY <1>1, <2>1 DEF BytesInv, Fits, AtOffsetFits, Exact
  <2> QED
    BY <2>1 DEF ReadAtOffsetExact, Complete
<1> QED
  BY BytesInvAlways, <1>1, PTL

-----------------------------------------------------------------------------
(* What of it the threads were not given.                                  *)
LossInv ==
  lib.open /\ ~sought =>
    /\ lost \subseteq DOMAIN taken
    /\ lost # {} => raised
    /\ \A t \in Threads : Reading(t) /\ thread[t].failed => raised

(* A step that neither fails a read nor ends one, but of a thread that     *)
(* does not read.                                                          *)
LEMMA LossKept ==
  ASSUME IInv, LossInv, NEW t \in Threads, NEW r, DOMAIN r = DOMAIN Idle,
         Goes(t, r) \/ GoesAndMoves(t, r),
         lib'.open = lib.open, UNCHANGED history,
         r.step \in ReadSteps /\ r.failed => Reading(t) /\ thread[t].failed
  PROVE  LossInv'
<1>1. DOMAIN thread = Threads /\ \A u \in Threads : DOMAIN thread[u] = DOMAIN Idle
  BY DEF IInv, Shaped
<1>2. /\ thread'[t] = r
      /\ \A u \in Threads \ {t} :
           thread'[u].step = thread[u].step /\ thread'[u].failed = thread[u].failed
  <2>1. CASE Goes(t, r)
    BY <1>1, <2>1 DEF Goes
  <2>2. CASE GoesAndMoves(t, r)
    <3>1. /\ thread'[t] = r
          /\ \A u \in Threads \ {t} : thread'[u] = [thread[u] EXCEPT !.moved = TRUE]
      BY <2>2 DEF GoesAndMoves
    <3> QED
      BY <1>1, <3>1 DEF Idle
  <2> QED
    BY <2>1, <2>2
<1>3. sought' = sought /\ taken' = taken /\ lost' = lost /\ raised' = raised
  BY DEF history
<1>4. \A u \in Threads :
        Reading(u)' /\ thread'[u].failed => Reading(u) /\ thread[u].failed
  BY <1>2 DEF Reading, ReadSteps
<1> QED
  BY <1>3, <1>4 DEF LossInv

(* Calls that enter the library, or go on to a step that reads nothing yet.*)
LEMMA LossOfOthers ==
  ASSUME IInv, BytesInv, LossInv, NEW t \in Threads,
         \/ Program(t) \/ GetSize(t) \/ ReadRefused(t) \/ GrabLock(t) \/ FindSegment(t)
         \/ SeekSegmentOffset(t) \/ ReadSegmentData(t) \/ Return(t)
  PROVE  LossInv'
<1>1. DOMAIN thread[t] = DOMAIN Idle /\ LocalTypes(thread[t]) /\ DOMAIN lib = DOMAIN ClosedLib
  BY Known DEF IInv, Shaped
<1>2. ASSUME UNCHANGED <<lib, thread, history>> PROVE LossInv'
  BY <1>2 DEF LossInv, Reading, history
<1>4. CASE PyOpenFileObjects(t)
  <2>1. CASE UNCHANGED thread
    BY <1>2, <1>4, <2>1 DEF PyOpenFileObjects
  <2>2. CASE Goes(t, [Idle EXCEPT !.call = "open_file_objects", !.step = "size", !.segment = 1])
    <3>1. PICK r : r = [Idle EXCEPT !.call = "open_file_objects", !.step = "size", !.segment = 1]
      OBVIOUS
    <3>2. DOMAIN r = DOMAIN Idle /\ r.step \notin ReadSteps
      BY <3>1 DEF Idle, ReadSteps
    <3> QED
      BY <1>4, <2>2, <3>1, <3>2, LossKept DEF PyOpenFileObjects
  <2> QED
    BY <1>4, <2>1, <2>2 DEF PyOpenFileObjects
<1>5. CASE PyReadBuffer(t) \/ PyReadBufferAtOffset(t) \/ PySeekOffset(t)
  <2>1. ASSUME NEW r, DOMAIN r = DOMAIN Idle, r.step \notin ReadSteps, Enter(t, r)
        PROVE  LossInv'
    BY <2>1, LossKept DEF Enter
  <2>2. ASSUME NEW size, NEW offset,
               NEW r \in {[Idle EXCEPT !.call = "read_buffer", !.step = "lock", !.size = size],
                          [Idle EXCEPT !.call = "read_buffer_at_offset", !.step = "seek",
                                       !.size = size, !.offset = offset],
                          [Idle EXCEPT !.call = "seek_offset", !.step = "seek",
                                       !.offset = offset]}
        PROVE  DOMAIN r = DOMAIN Idle /\ r.step \notin ReadSteps
    BY DEF Idle, ReadSteps
  <2> QED
    BY <1>5, <2>1, <2>2 DEF PyReadBuffer, PyReadBufferAtOffset, PySeekOffset
<1>6. CASE GetSize(t)
  <2>1. PICK size :
          Goes(t, [thread[t] EXCEPT
            !.data = Append(@, size), !.within = size, !.segment = @ + 1,
            !.step = IF thread[t].segment = Len(Files) THEN "opened" ELSE "size"])
    BY <1>6 DEF GetSize
  <2>2. PICK r : r = [thread[t] EXCEPT
            !.data = Append(@, size), !.within = size, !.segment = @ + 1,
            !.step = IF thread[t].segment = Len(Files) THEN "opened" ELSE "size"]
    OBVIOUS
  <2>3. DOMAIN r = DOMAIN Idle /\ r.step \notin ReadSteps
    BY <1>1, <2>2 DEF Idle, ReadSteps
  <2> QED
    BY <1>6, <2>1, <2>2, <2>3, LossKept DEF GetSize
<1>7. CASE ReadRefused(t)
  <2>1. PICK r : r = [thread[t] EXCEPT !.step = "return", !.failed = ~lib.open]
    OBVIOUS
  <2>2. DOMAIN r = DOMAIN Idle /\ r.step \notin ReadSteps
    BY <1>1, <2>1 DEF Idle, ReadSteps
  <2> QED
    BY <1>7, <2>1, <2>2, LossKept DEF ReadRefused
<1>8. CASE GrabLock(t)
  <2>1. PICK r : r = [thread[t] EXCEPT !.step = "stream", !.room = Clamped(thread[t].size)]
    OBVIOUS
  <2>2. DOMAIN r = DOMAIN Idle /\ r.failed = thread[t].failed
    BY <1>1, <2>1 DEF Idle
  <2>3. ~thread[t].failed
    BY <1>1, <1>8 DEF GrabLock, At, LocalTypes
  <2> QED
    BY <1>8, <2>1, <2>2, <2>3, LossKept DEF GrabLock
<1>9. ASSUME NEW r, DOMAIN r = DOMAIN Idle, r.failed = thread[t].failed, Reading(t),
             Goes(t, r) \/ GoesAndMoves(t, r), lib'.open = lib.open, UNCHANGED history
      PROVE  LossInv'
  BY <1>9, LossKept
<1>10. CASE FindSegment(t)
  <2>1. PICK r : r = [thread[t] EXCEPT !.step = "unlock"]
    OBVIOUS
  <2>2. DOMAIN r = DOMAIN Idle /\ r.failed = thread[t].failed
    BY <1>1, <2>1 DEF Idle
  <2>3. ASSUME NEW n, Goes(t, [thread[t] EXCEPT !.step = "seek_segment", !.segment = n,
                                                !.within = lib.offset - StartOf(n)])
        PROVE  LossInv'
    <3>1. PICK d : d = [thread[t] EXCEPT !.step = "seek_segment", !.segment = n,
                                         !.within = lib.offset - StartOf(n)]
      OBVIOUS
    <3>2. DOMAIN d = DOMAIN Idle /\ d.failed = thread[t].failed
      BY <1>1, <3>1 DEF Idle
    <3> QED
      BY <1>9, <1>10, <2>3, <3>1, <3>2 DEF FindSegment, At, Reading
  <2>4. ASSUME Goes(t, [thread[t] EXCEPT !.step = "unlock"]) PROVE LossInv'
    BY <1>9, <1>10, <2>1, <2>2, <2>4 DEF FindSegment, At, Reading
  <2> QED
    BY <1>10, <2>3, <2>4 DEF FindSegment
<1>11. ASSUME UsesFreedPool PROVE LossInv'
  BY <1>2, <1>11 DEF UsesFreedPool
<1>12. CASE SeekSegmentOffset(t)
  <2>1. PICK r : r = [thread[t] EXCEPT !.step = "read_segment"]
    OBVIOUS
  <2>2. DOMAIN r = DOMAIN Idle /\ r.failed = thread[t].failed
    BY <1>1, <2>1 DEF Idle
  <2> QED
    BY <1>9, <1>11, <1>12, <2>1, <2>2 DEF SeekSegmentOffset, At, Reading
<1>13. CASE ReadSegmentData(t)
  <2>1. CASE pool # "live"
    BY <1>11, <1>13, <2>1 DEF ReadSegmentData
  <2>2. CASE pool = "live"
    <3>1. PICK bytes, data, next :
            /\ lib' = [lib EXCEPT !.offset = @ + Len(bytes)]
            /\ GoesAndMoves(t,
                 IF Len(bytes) = Wanted(t) /\ Len(data) < thread[t].room /\ next # {}
                 THEN [thread[t] EXCEPT !.data = data, !.step = "seek_segment", !.within = 0,
                                        !.segment = Min(next)]
                 ELSE [thread[t] EXCEPT !.data = data, !.step = "unlock",
                                        !.short = Len(bytes) < Wanted(t)])
            /\ UNCHANGED history
      BY <1>13, <2>2, ZenonT(40) DEF ReadSegmentData
    <3>2. PICK r : r = IF Len(bytes) = Wanted(t) /\ Len(data) < thread[t].room /\ next # {}
                 THEN [thread[t] EXCEPT !.data = data, !.step = "seek_segment", !.within = 0,
                                        !.segment = Min(next)]
                 ELSE [thread[t] EXCEPT !.data = data, !.step = "unlock",
                                        !.short = Len(bytes) < Wanted(t)]
      OBVIOUS
    <3>3. DOMAIN r = DOMAIN Idle /\ r.failed = thread[t].failed
      BY <1>1, <3>2, SMTT(30) DEF Idle
    <3>4. GoesAndMoves(t, r) /\ lib'.open = lib.open /\ Reading(t)
      BY <1>1, <1>13, <3>1, <3>2 DEF ReadSegmentData, At, Reading, ClosedLib
    <3> QED
      BY <1>9, <3>1, <3>3, <3>4, SMTT(30)
  <2> QED
    BY <2>1, <2>2
<1>14. CASE Return(t)
  <2>1. Goes(t, Idle) /\ Idle.step \notin ReadSteps
    BY <1>14 DEF Return, Goes, Idle, ReadSteps
  <2> QED
    BY <1>14, <2>1, LossKept DEF Return
<1> QED
  BY <1>4, <1>5, <1>6, <1>7, <1>8, <1>10, <1>12, <1>13, <1>14 DEF Program

(* A read that raised, and one that ends: what it took is lost if it failed.*)
LEMMA LossOfRead ==
  ASSUME IInv, BytesInv, LossInv, NEW t \in Threads, FileObjectRaises(t) \/ ReleaseLock(t)
  PROVE  LossInv'
<1>1. DOMAIN thread = Threads /\ DOMAIN thread[t] = DOMAIN Idle
  BY DEF IInv, Shaped
<1>2. CASE FileObjectRaises(t)
  BY <1>2 DEF FileObjectRaises, LossInv
<1>3. CASE ReleaseLock(t)
  <2>1. PICK r : r = [thread[t] EXCEPT !.step = "return",
                                       !.data = IF thread[t].failed THEN << >> ELSE @]
    OBVIOUS
  <2>2. r.step = "return"
    BY <1>1, <2>1 DEF Idle
  <2>3. /\ thread'[t] = r /\ \A u \in Threads \ {t} : thread'[u] = thread[u]
        /\ UNCHANGED <<lib, sought, raised>> /\ Reading(t)
    BY <1>1, <1>3, <2>1 DEF ReleaseLock, Goes, At, Reading
  <2>4. \A u \in Threads :
          Reading(u)' /\ thread'[u].failed => Reading(u) /\ thread[u].failed
    BY <2>2, <2>3 DEF Reading
  <2> SUFFICES ASSUME lib.open, ~sought
               PROVE  lost' \subseteq DOMAIN taken' /\ (lost' # {} => raised)
    BY <2>3, <2>4 DEF LossInv
  <2>5. /\ taken' = taken \o thread[t].data
        /\ lost' = IF thread[t].failed THEN lost \cup (Len(taken) + 1 .. Len(taken')) ELSE lost
    BY <1>3 DEF ReleaseLock
  <2>6. taken \in Seq(Pairs) /\ thread[t].data \in Seq(Pairs)
    BY <2>3 DEF BytesInv, TakenFits, Fits, ReadingFits, Reading, ReadSteps
  <2>7. PICK before, data, after : before = taken /\ data = thread[t].data /\ after = taken'
    OBVIOUS
  <2>8. /\ DOMAIN before = 1 .. Len(before) /\ DOMAIN after = 1 .. Len(after)
        /\ Len(before) \in Nat /\ Len(after) \in Nat /\ Len(before) <= Len(after)
    BY <2>5, <2>6, <2>7
  <2>9. lost \subseteq DOMAIN before /\ (lost # {} => raised) /\ (thread[t].failed => raised)
    BY <2>3, <2>7 DEF LossInv
  <2>10. DOMAIN before \subseteq DOMAIN after
         /\ (Len(before) + 1 .. Len(after)) \subseteq DOMAIN after
    BY <2>8
  <2> QED
    BY <2>5, <2>7, <2>9, <2>10
<1> QED
  BY <1>2, <1>3

(* Opening and seeking start over, and closing ends the session.           *)
LEMMA LossOfSession ==
  ASSUME IInv, BytesInv, LossInv, NEW t \in Threads,
         OpenFileIoPool(t) \/ SeekOffset(t) \/ PyClose
  PROVE  LossInv'
<1>1. DOMAIN thread = Threads /\ DOMAIN thread[t] = DOMAIN Idle
  BY DEF IInv, Shaped
<1>2. CASE PyClose
  BY <1>2 DEF PyClose, ClosedLib, LossInv
<1>3. CASE SeekOffset(t)
  <2>1. CASE lib.open
    BY <1>3, <2>1 DEF SeekOffset, LossInv
  <2>2. CASE ~lib.open
    BY <1>3, <2>2 DEF SeekOffset, LossInv
  <2> QED
    BY <2>1, <2>2
<1>4. CASE OpenFileIoPool(t)
  <2>1. lost' = {} /\ ~lib.open
    BY <1>4, Known DEF OpenFileIoPool, At, OpeningFits, OpenSteps
  <2>2. \A u \in Threads : ~Reading(u)
    BY <2>1 DEF IInv, PoolHeld
  <2>3. \A u \in Threads : ~Reading(u)'
    <3>1. PICK r : r = [thread[t] EXCEPT !.step = "return", !.data = << >>]
      OBVIOUS
    <3>2. r.step = "return"
      BY <1>1, <3>1 DEF Idle
    <3>3. thread'[t] = r /\ \A u \in Threads \ {t} : thread'[u] = thread[u]
      BY <1>1, <1>4, <3>1 DEF OpenFileIoPool, Goes
    <3> QED
      BY <2>2, <3>2, <3>3 DEF Reading
  <2> QED
    BY <2>1, <2>3 DEF LossInv
<1> QED
  BY <1>2, <1>3, <1>4

(* In every reachable state only reads that raised have lost bytes.        *)
LEMMA LossInvAlways == Spec => []LossInv
<1>1. Init => LossInv
  BY DEF Init, LossInv, ClosedLib
<1>2. ASSUME IInv, BytesInv, LossInv, [Next]_vars PROVE LossInv'
  <2>1. ASSUME NEW t \in Threads, Program(t) PROVE LossInv'
    BY <1>2, <2>1, LossOfOthers
  <2>2. ASSUME NEW t \in Threads, Library(t) PROVE LossInv'
    BY <1>2, <2>2, LossOfOthers, LossOfRead, LossOfSession DEF Library
  <2>3. CASE PyClose
    BY <2>3 DEF PyClose, ClosedLib, LossInv
  <2>4. CASE UNCHANGED vars
    BY <1>2, <2>4 DEF vars, history, LossInv, Reading
  <2> QED
    BY <1>2, <2>1, <2>2, <2>3, <2>4 DEF Next
<1> QED
  BY SpecIInv, BytesInvAlways, <1>1, <1>2, PTL DEF Spec

(* Threads that only read_buffer take every byte up to the offset of the   *)
(* handle once and in order, for any number of threads, file objects and   *)
(* sizes, and lose some of them only when a file object raised.            *)
THEOREM EachByteIsReadOnce == Spec => []EachByteOnce
<1>1. ASSUME BytesInv, LossInv PROVE EachByteOnce
  <2> SUFFICES ASSUME lib.open, ~sought, \A t \in Threads : ~Reading(t)
               PROVE  IsPrefix(taken, MediaBytes) /\ Len(taken) = lib.offset
    BY <1>1 DEF EachByteOnce, LossInv
  <2>1. lib.offset <= Total(lib.sizes) /\ taken = SubSeq(MediaBytes, 1, lib.offset)
    BY <1>1 DEF BytesInv, TakenFits
  <2>2. PICK media, o, all : media = MediaBytes /\ o = lib.offset /\ all = taken
    OBVIOUS
  <2>3. media \in Seq(Pairs) /\ Len(media) \in Nat /\ o \in Nat /\ o <= Len(media)
    <3>1. LibFits
      BY <1>1 DEF BytesInv
    <3> QED
      BY <2>1, <2>2, <3>1, MediaFacts DEF MediaFits, LibFits
  <2>4. all = SubSeq(media, 1, o)
    BY <2>1, <2>2
  <2>5. Len(all) = o /\ all \in Seq(Pairs)
    BY <2>3, <2>4
  <2>6. SubSeq(all, 1, Len(all)) = all
    BY <2>5, SubSeqFull
  <2>7. IsPrefix(all, media)
    BY <2>3, <2>4, <2>5, <2>6 DEF IsPrefix
  <2> QED
    BY <2>2, <2>5, <2>7
<1> QED
  BY BytesInvAlways, LossInvAlways, <1>1, PTL

(* The lock is held by a thread or by nobody, the pool is as it can be,    *)
(* and raised is known.                                                    *)
LockAndPool ==
  /\ lock \in Threads \cup {Nobody} /\ pool \in {"none", "live", "freed"}
  /\ raised \in BOOLEAN

(* No step makes another lock or pool of them.                             *)
LEMMA LockAndPoolAlways == Spec => []LockAndPool
<1>1. Init => LockAndPool
  BY DEF Init, LockAndPool
<1>2. ASSUME LockAndPool, [Next]_vars PROVE LockAndPool'
  <2>1. CASE PyClose
    BY <1>2, <2>1 DEF PyClose, LockAndPool, history
  <2>2. ASSUME NEW t \in Threads, Program(t) PROVE LockAndPool'
    BY <1>2, <2>2, ZenonT(40) DEF Program, PyOpenFileObjects, PyReadBuffer, PyReadBufferAtOffset,
       PySeekOffset, Enter, LockAndPool, history
  <2>3. ASSUME NEW t \in Threads, Library(t) PROVE LockAndPool'
    <3>1. CASE SeekSegmentOffset(t) \/ ReadSegmentData(t) \/ FileObjectRaises(t)
      BY <1>2, <3>1 DEF SeekSegmentOffset, ReadSegmentData, FileObjectRaises, UsesFreedPool,
         LockAndPool, history
    <3>2. CASE \/ GetSize(t) \/ OpenFileIoPool(t) \/ SeekOffset(t) \/ ReadRefused(t)
               \/ FindSegment(t) \/ Return(t)
      BY <1>2, <3>2 DEF GetSize, OpenFileIoPool, SeekOffset, ReadRefused, FindSegment, Return,
         LockAndPool, history
    <3>3. CASE GrabLock(t) \/ ReleaseLock(t)
      BY <1>2, <3>3 DEF GrabLock, ReleaseLock, LockAndPool, history
    <3> QED
      BY <2>3, <3>1, <3>2, <3>3, SMTT(30) DEF Library
  <2>4. CASE UNCHANGED vars
    BY <1>2, <2>4 DEF vars, LockAndPool, history
  <2> QED
    BY <1>2, <2>1, <2>2, <2>3, <2>4 DEF Next
<1> QED
  BY <1>1, <1>2, PTL DEF Spec

(* Every variable keeps its type, and the lock of the handle is held by    *)
(* the thread that reads, for any threads and file objects.                *)
THEOREM TypeOKAlways == Spec => []TypeOK
<1>1. ASSUME IInv, BytesInv, LockAndPool PROVE TypeOK
  <2>1. lib.sizes \in Seq(Nat) /\ lib.offset \in Nat /\ calls \in 0 .. MaxCalls /\ sought \in BOOLEAN
    BY <1>1 DEF BytesInv, LibFits
  <2>2. \A n \in DOMAIN position : position[n] \in Nat
    BY <1>1 DEF BytesInv, LibFits
  <2>3. gil = Nobody /\ lib.open \in BOOLEAN /\ crashed \in BOOLEAN /\ refused \in BOOLEAN
    BY <1>1 DEF IInv, Shaped, LocksHeld
  <2>4. \A t \in Threads :
          /\ DOMAIN thread[t] = DOMAIN Idle /\ thread[t].step \in Steps
          /\ lock = t <=> thread[t].step \in {"stream", "seek_segment", "read_segment", "unlock"}
    BY <1>1 DEF IInv, Shaped, LocksHeld, Reading
  <2>5. {crashed, refused, sought, raised} \subseteq BOOLEAN
    BY <1>1, <2>1, <2>3 DEF LockAndPool
  <2> QED
    BY <1>1, <2>1, <2>2, <2>3, <2>4, <2>5 DEF TypeOK, LockAndPool
<1> QED
  BY SpecIInv, BytesInvAlways, LockAndPoolAlways, <1>1, PTL
=============================================================================
