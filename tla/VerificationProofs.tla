------------------------- MODULE VerificationProofs -------------------------
(***************************************************************************)
(* Proofs about Verification, for all directories, arguments, sizes of the *)
(* buffer and of the media, and hashes.                                    *)
(*                                                                         *)
(* IInv, below, is inductive.  It says for each step of main what has been *)
(* read, hashed and printed by then, and what is still held.  The second   *)
(* part is about the files that glob finds, for any base to count in.      *)
(***************************************************************************)
EXTENDS Verification, FoldLemmas

OpenSteps  == {"attach", "open", "open_log"}
HashSteps  == {"initialize_hash", "read", "update", "check", "finalize", "print", "print_log"}
EndSteps   == {"close_log", "detach", "close", "free", "forget", "exit"}
ErrorSteps == {"error_close_log", "error_close", "error_free", "error_forget"}
Steps      == OpenSteps \cup HashSteps \cup EndSteps \cup ErrorSteps \cup {"exited"}

Bytes == Seq(input.directory)

(* The records have their fields.                                          *)
InputTyped ==
  input \in [directory : Directories, arguments : Asked(input.directory),
             size : ProcessBufferSizes, digests : SUBSET DigestTypes, log : BOOLEAN]

ProgramTyped ==
  program \in [step : Steps, result : {-1, 0, 1},
               exit : {"none", "success", "failure", "aborted"},
               handle : {"live", "freed", "none"}, logOpen : BOOLEAN,
               printed : Bytes \cup {Nothing}, logged : Bytes \cup {Nothing},
               failed : BOOLEAN]

VerifyTyped ==
  verify \in [filenames : Bytes, count : Nat, buffer : Bytes,
              contexts : SUBSET Digests, hashed : Bytes, readsLate : Nat]

ToldTyped ==
  told \in [attached : BOOLEAN, kept : BOOLEAN, abort : BOOLEAN, handleAbort : BOOLEAN,
            dangling : BOOLEAN]

Typed == InputTyped /\ ProgramTyped /\ VerifyTyped /\ ToldTyped

(* What was hashed, and what is in the buffer to be hashed, are the bytes  *)
(* that were counted.                                                      *)
HashedIsCounted ==
  /\ verify.count <= MediaSize
  /\ verify.hashed \o verify.buffer = SubSeq(verify.filenames, 1, verify.count)
  /\ program.step \in OpenSteps =>
       verify.count = 0 /\ verify.hashed = << >> /\ verify.buffer = << >>
  /\ program.step \in HashSteps \ {"update"} => verify.buffer = << >>

(* Hashes are finalized at the end of the media or after an abort.         *)
FinalizedAtEnd ==
  program.step \in {"finalize", "print", "print_log"} =>
    verify.count = MediaSize \/ told.handleAbort

NothingPrintedYet ==
  /\ program.step \in OpenSteps => program.printed = Nothing
  /\ program.step \in OpenSteps \cup HashSteps => program.logged = Nothing
  /\ program.step = "print_log" =>
       program.printed = verify.filenames /\ verify.hashed = verify.filenames

(* A verification that went well printed the hashes, or was aborted.       *)
ResultTold ==
  /\ told.handleAbort => told.abort
  /\ program.step = "open_log" => input.log
  /\ program.step \in HashSteps => program.logOpen = input.log
  /\ program.result = 1 =>
       \/ told.handleAbort
       \/ program.printed # Nothing /\ (input.log => program.logged # Nothing)
  /\ program.exit = "success" => program.result = 1 /\ ~told.abort

(* What is held at the end.                                                *)
Held ==
  /\ program.step \in {"forget", "error_forget", "exit", "exited"} => verify.contexts = {}
  /\ program.logOpen => program.step \in HashSteps \cup {"close_log", "error_close_log"}
  /\ program.handle = "freed" <=> program.step \in {"forget", "error_forget"}
  /\ program.step \in {"exit", "exited"} => program.handle = "none"
  /\ program.exit # "none" => program.step = "exited"
  /\ program.step \in ErrorSteps => program.failed
  /\ program.step \in {"close", "free", "forget"} => ~told.attached \/ told.kept
  /\ told.kept => program.step \in {"close", "free", "forget", "exit", "exited"} \cup ErrorSteps

(* A buffer is read after the abort only if it came while the loop was     *)
(* about to read it.                                                       *)
LateReads ==
  /\ verify.readsLate <= 1
  /\ verify.readsLate > 0 =>
       told.handleAbort /\ program.step \notin OpenSteps \cup {"initialize_hash", "read"}

IInv ==
  /\ Typed /\ HashedIsCounted /\ FinalizedAtEnd /\ NothingPrintedYet
  /\ PrintedIsWhole /\ ResultTold /\ Held /\ HandlerFindsHandle /\ LateReads

-----------------------------------------------------------------------------
LEMMA InitIInv == Init => IInv
<1> SUFFICES ASSUME Init PROVE IInv
  OBVIOUS
<1>1. Typed
  BY DEF Init, Typed, InputTyped, ProgramTyped, VerifyTyped, ToldTyped, Steps, OpenSteps, Bytes
<1>2. HashedIsCounted
  BY DEF Init, HashedIsCounted, MediaSize, HashSteps, OpenSteps
<1> QED
  BY <1>1, <1>2 DEF Init, IInv, FinalizedAtEnd, NothingPrintedYet, PrintedIsWhole, ResultTold,
     Held, HandlerFindsHandle, LateReads, HashSteps, OpenSteps, EndSteps, ErrorSteps

-----------------------------------------------------------------------------
(* The bytes there are.                                                    *)
LEMMA BytesTyped ==
  ASSUME Typed
  PROVE  /\ verify.filenames \in Bytes /\ verify.hashed \in Bytes /\ verify.buffer \in Bytes
         /\ verify.count \in Nat /\ verify.readsLate \in Nat /\ MediaSize \in Nat
         /\ verify.contexts \subseteq Digests
         /\ input.size \in Nat /\ Nothing \notin Bytes
<1>1. verify.filenames \in Bytes /\ verify.hashed \in Bytes /\ verify.buffer \in Bytes
  BY DEF Typed, VerifyTyped
<1>2. verify.count \in Nat /\ verify.readsLate \in Nat /\ verify.contexts \subseteq Digests
  BY DEF Typed, VerifyTyped
<1>3. MediaSize \in Nat
  BY <1>1 DEF MediaSize, Bytes
<1>4. input.size \in ProcessBufferSizes /\ input.directory \in Directories
  BY DEF Typed, InputTyped
<1> QED
  BY <1>1, <1>2, <1>3, <1>4, VerificationAssumptions DEF VerificationAssumptions, Bytes

(* A read stays in the media, and the bytes read follow those before them. *)
LEMMA ReadFits ==
  ASSUME Typed, HashedIsCounted, NEW count \in 1 .. ReadSize
  PROVE  /\ count \in Nat /\ verify.count + count \in Nat /\ verify.count + count <= MediaSize
         /\ SubSeq(verify.filenames, verify.count + 1, verify.count + count) \in Bytes
         /\ SubSeq(verify.filenames, 1, verify.count)
              \o SubSeq(verify.filenames, verify.count + 1, verify.count + count)
              = SubSeq(verify.filenames, 1, verify.count + count)
<1> DEFINE from == verify.count  files == verify.filenames
<1>1. from \in Nat /\ MediaSize \in Nat /\ from <= MediaSize /\ input.size \in Nat
  BY BytesTyped DEF HashedIsCounted
<1>2. files \in Seq(input.directory) /\ MediaSize = Len(files)
  BY BytesTyped DEF Bytes, MediaSize
<1>3. ReadSize <= MediaSize - from /\ ReadSize \in Int
  BY <1>1, VerificationAssumptions DEF VerificationAssumptions, ReadSize
<1> HIDE DEF from, files
<1>4. count \in Nat /\ count >= 1 /\ from + count <= MediaSize
  BY <1>1, <1>3
<1>5. \A i \in from + 1 .. from + count : files[i] \in input.directory
  BY <1>1, <1>2, <1>4
<1>6. SubSeq(files, from + 1, from + count) \in Seq(input.directory)
  <2>1. from + 1 \in Int /\ from + count \in Int
    BY <1>1, <1>4
  <2> QED
    BY <2>1, <1>5, SubSeqProperties
<1>7. SubSeq(files, 1, from) \o SubSeq(files, from + 1, from + count)
        = SubSeq(files, 1, from + count)
  <2>1. 1 \in 1 .. Len(files) + 1 /\ from \in 1 - 1 .. Len(files)
        /\ from + count \in from .. Len(files)
    BY <1>1, <1>2, <1>4
  <2> QED
    BY <2>1, <1>2, ConcatAdjacentSubSeq
<1>8. from + count \in Nat
  BY <1>1, <1>4
<1> QED
  BY <1>4, <1>6, <1>7, <1>8, Zenon DEF from, files, Bytes

(* No step changes the input.                                              *)
LEMMA StepInput ==
  ASSUME [Next]_vars
  PROVE  input' = input
BY DEF Next, Main, vars, SignalAttach, OpenInput, OpenLog, InitializeIntegrityHash,
   ReadBuffer, Reads, UpdateIntegrityHash, CheckAbort, FinalizeIntegrityHash, PrintHashes,
   PrintHashesInLog, VerifyFails, CloseLog, SignalDetach, Close, Free, Forget, Exit, Fails,
   SignalHandler

(* The locals of verify_input.                                             *)
Locals == [filenames : Bytes, count : Nat, buffer : Bytes, contexts : SUBSET Digests,
           hashed : Bytes, readsLate : Nat]

LEMMA LocalsUpdated ==
  ASSUME verify \in Locals, NEW bytes \in Bytes, NEW count \in Nat, NEW late \in Nat
  PROVE  /\ [verify EXCEPT !.buffer = bytes, !.count = count, !.readsLate = late] \in Locals
         /\ [verify EXCEPT !.hashed = bytes, !.buffer = << >>] \in Locals
<1> << >> \in Bytes
  BY DEF Bytes
<1> QED
  BY DEF Locals

LEMMA StepTyped ==
  ASSUME IInv, [Next]_vars
  PROVE  Typed'
<1>1. InputTyped /\ ProgramTyped /\ VerifyTyped /\ ToldTyped /\ input' = input
  BY StepInput DEF IInv, Typed
<1>2. [Next]_vars
  OBVIOUS
<1>3. ProgramTyped'
  <2>1. CASE SignalAttach
    BY <2>1, <1>1 DEF SignalAttach, ProgramTyped, Bytes, At, GoesTo, Steps, OpenSteps,
       HashSteps, EndSteps, ErrorSteps
  <2>2. CASE OpenInput
    BY <2>2, <1>1 DEF OpenInput, ProgramTyped, Bytes, At, GoesTo, Steps, OpenSteps,
       HashSteps, EndSteps, ErrorSteps
  <2>3. CASE OpenLog
    BY <2>3, <1>1 DEF OpenLog, ProgramTyped, Bytes, At, GoesTo, Steps, OpenSteps,
       HashSteps, EndSteps, ErrorSteps
  <2>4. CASE InitializeIntegrityHash
    BY <2>4, <1>1 DEF InitializeIntegrityHash, ProgramTyped, Bytes, At, GoesTo, Steps,
       OpenSteps, HashSteps, EndSteps, ErrorSteps
  <2>5. CASE ReadBuffer
    BY <2>5, <1>1 DEF ReadBuffer, Reads, ProgramTyped, Bytes, At, GoesTo, Steps,
       OpenSteps, HashSteps, EndSteps, ErrorSteps
  <2>6. CASE UpdateIntegrityHash
    BY <2>6, <1>1 DEF UpdateIntegrityHash, ProgramTyped, Bytes, At, GoesTo, Steps,
       OpenSteps, HashSteps, EndSteps, ErrorSteps
  <2>7. CASE CheckAbort
    BY <2>7, <1>1 DEF CheckAbort, ProgramTyped, Bytes, At, GoesTo, Steps, OpenSteps,
       HashSteps, EndSteps, ErrorSteps
  <2>8. CASE FinalizeIntegrityHash
    BY <2>8, <1>1 DEF FinalizeIntegrityHash, ProgramTyped, Bytes, At, GoesTo, Steps,
       OpenSteps, HashSteps, EndSteps, ErrorSteps
  <2>9. CASE PrintHashes
    BY <2>9, <1>1 DEF PrintHashes, ProgramTyped, Bytes, At, GoesTo, Steps, OpenSteps,
       HashSteps, EndSteps, ErrorSteps, VerifyTyped, AfterVerify
  <2>10. CASE PrintHashesInLog
    BY <2>10, <1>1 DEF PrintHashesInLog, ProgramTyped, Bytes, At, GoesTo, Steps,
       OpenSteps, HashSteps, EndSteps, ErrorSteps, VerifyTyped, AfterVerify
  <2>11. CASE VerifyFails
    BY <2>11, <1>1, ZenonT(40) DEF VerifyFails, ProgramTyped, Bytes, At, GoesTo, Steps, OpenSteps,
       HashSteps, EndSteps, ErrorSteps, AfterVerify
  <2>12. CASE CloseLog
    BY <2>12, <1>1, ZenonT(40) DEF CloseLog, ProgramTyped, Bytes, At, GoesTo, Steps, OpenSteps,
       HashSteps, EndSteps, ErrorSteps
  <2>13. CASE SignalDetach
    BY <2>13, <1>1 DEF SignalDetach, ProgramTyped, Bytes, At, GoesTo, Steps, OpenSteps,
       HashSteps, EndSteps, ErrorSteps
  <2>14. CASE Close
    BY <2>14, <1>1 DEF Close, ProgramTyped, Bytes, At, GoesTo, Steps, OpenSteps,
       HashSteps, EndSteps, ErrorSteps
  <2>15. CASE Free
    BY <2>15, <1>1 DEF Free, ProgramTyped, Bytes, At, GoesTo, Steps, OpenSteps, HashSteps,
       EndSteps, ErrorSteps
  <2>16. CASE Forget
    BY <2>16, <1>1, ZenonT(40) DEF Forget, ProgramTyped, Bytes, At, GoesTo, Steps, OpenSteps,
       HashSteps, EndSteps, ErrorSteps
  <2>17. CASE Exit
    BY <2>17, <1>1, ZenonT(40) DEF Exit, ProgramTyped, Bytes, At, GoesTo, Steps, OpenSteps, HashSteps,
       EndSteps, ErrorSteps
  <2>18. CASE Fails
    BY <2>18, <1>1 DEF Fails, ProgramTyped, Bytes, At, GoesTo, Steps, OpenSteps,
       HashSteps, EndSteps, ErrorSteps
  <2>19. CASE UNCHANGED program
    BY <2>19, <1>1 DEF ProgramTyped, Bytes, At, GoesTo, Steps, OpenSteps, HashSteps,
       EndSteps, ErrorSteps
  <2> QED
    BY <1>2, <2>1, <2>2, <2>3, <2>4, <2>5, <2>6, <2>7, <2>8, <2>9, <2>10, <2>11, <2>12,
       <2>13, <2>14, <2>15, <2>16, <2>17, <2>18, <2>19 DEF Next, Main, vars, SignalHandler
<1>4. VerifyTyped'
  <2>0. verify \in Locals /\ Locals' = Locals /\ (VerifyTyped' <=> verify' \in Locals')
    BY <1>1 DEF VerifyTyped, Locals, Bytes, Digests
  <2>1. CASE OpenInput
    BY <2>1, <1>1 DEF OpenInput, VerifyTyped, Bytes, Digests
  <2>2. CASE InitializeIntegrityHash
    BY <2>2, <1>1 DEF InitializeIntegrityHash, VerifyTyped, Bytes, Digests
  <2>3. CASE ReadBuffer
    <3>1. PICK count \in 1 .. ReadSize : Reads(count, count)
      BY <2>3 DEF ReadBuffer
    <3> DEFINE bytes == SubSeq(verify.filenames, verify.count + 1, verify.count + count)
               late  == IF told.handleAbort THEN verify.readsLate + 1 ELSE verify.readsLate
    <3>2. bytes \in Bytes /\ verify.count + count \in Nat
      BY ReadFits DEF IInv
    <3>3. late \in Nat
      BY BytesTyped DEF IInv
    <3>4. [verify EXCEPT !.buffer = bytes, !.count = verify.count + count, !.readsLate = late]
            \in Locals
      <4> HIDE DEF bytes, late
      <4> QED
        BY <2>0, <3>2, <3>3, LocalsUpdated
    <3> QED
      BY <2>0, <3>1, <3>4 DEF Reads
  <2>4. CASE UpdateIntegrityHash
    <3>1. verify.hashed \in Bytes /\ verify.buffer \in Bytes
      BY BytesTyped DEF IInv
    <3>2. verify.hashed \o verify.buffer \in Bytes
      BY <3>1, ConcatProperties DEF Bytes
    <3>3. [verify EXCEPT !.hashed = verify.hashed \o verify.buffer, !.buffer = << >>] \in Locals
      BY <2>0, <3>2, LocalsUpdated, BytesTyped DEF IInv
    <3> QED
      BY <2>0, <2>4, <3>3 DEF UpdateIntegrityHash
  <2>5. CASE FinalizeIntegrityHash
    BY <2>5, <1>1 DEF FinalizeIntegrityHash, VerifyTyped, Bytes, Digests
  <2>6. CASE VerifyFails
    BY <2>6, <1>1 DEF VerifyFails, VerifyTyped, Bytes, Digests
  <2>7. CASE Free
    BY <2>7, <1>1 DEF Free, VerifyTyped, Bytes, Digests
  <2>8. CASE UNCHANGED verify
    BY <2>8, <1>1 DEF VerifyTyped, Bytes, Digests
  <2> QED
    BY <1>2, <2>1, <2>2, <2>3, <2>4, <2>5, <2>6, <2>7, <2>8 DEF Next, Main, vars,
       SignalAttach, OpenLog, CheckAbort, PrintHashes, PrintHashesInLog, CloseLog,
       SignalDetach, Close, Forget, Exit, Fails, SignalHandler
<1>5. ToldTyped'
  <2>1. CASE SignalAttach
    BY <2>1, <1>1 DEF SignalAttach, ToldTyped
  <2>2. CASE SignalDetach
    BY <2>2, <1>1 DEF SignalDetach, ToldTyped
  <2>3. CASE SignalHandler
    BY <2>3, <1>1 DEF SignalHandler, ToldTyped
  <2>4. CASE UNCHANGED told
    BY <2>4, <1>1 DEF ToldTyped
  <2> QED
    BY <1>2, <2>1, <2>2, <2>3, <2>4 DEF Next, Main, vars, OpenInput, OpenLog,
       InitializeIntegrityHash, ReadBuffer, Reads, UpdateIntegrityHash, CheckAbort,
       FinalizeIntegrityHash, PrintHashes, PrintHashesInLog, VerifyFails, CloseLog, Close,
       Free, Forget, Exit, Fails
<1> QED
  BY <1>1, <1>3, <1>4, <1>5 DEF Typed, InputTyped

-----------------------------------------------------------------------------
(* What is hashed stays what is counted.                                   *)
LEMMA StepHashed ==
  ASSUME IInv, [Next]_vars
  PROVE  HashedIsCounted'
<1>1. Typed /\ HashedIsCounted
  BY DEF IInv
<1>2. CASE OpenInput
  <2>1. /\ verify.count = 0 /\ verify.hashed = << >> /\ verify.buffer = << >>
        /\ verify'.count = 0 /\ verify'.hashed = << >> /\ verify'.buffer = << >>
    BY <1>1, <1>2 DEF OpenInput, At, HashedIsCounted, OpenSteps, Typed, VerifyTyped
  <2>2. MediaSize' \in Nat
    BY <1>1, <1>2 DEF OpenInput, MediaSize, Typed, VerifyTyped
  <2>3. SubSeq(verify'.filenames, 1, verify'.count) = << >>
    BY <2>1, SubSeqEmpty
  <2>4. << >> \o << >> = << >>
    BY ConcatEmptySeq, << >> \in Seq({})
  <2> QED
    BY <2>1, <2>2, <2>3, <2>4 DEF HashedIsCounted
<1>3. CASE ReadBuffer
  <2>1. PICK count \in 1 .. ReadSize : Reads(count, count)
    BY <1>3 DEF ReadBuffer
  <2> DEFINE bytes == SubSeq(verify.filenames, verify.count + 1, verify.count + count)
  <2>2. /\ verify'.filenames = verify.filenames /\ verify'.hashed = verify.hashed
        /\ verify'.buffer = bytes /\ verify'.count = verify.count + count
    BY <2>1, <1>1 DEF Reads, Typed, VerifyTyped
  <2>3. verify.buffer = << >> /\ program.step = "read"
    BY <2>1, <1>1 DEF Reads, At, HashedIsCounted, HashSteps
  <2>4. verify.hashed = SubSeq(verify.filenames, 1, verify.count)
    BY <2>3, <1>1, BytesTyped, ConcatEmptySeq DEF HashedIsCounted, Bytes
  <2>5. program'.step = "update"
    BY <2>1, <1>1 DEF Reads, GoesTo, Typed, ProgramTyped
  <2>6. /\ verify.count + count <= MediaSize
        /\ verify.hashed \o bytes = SubSeq(verify.filenames, 1, verify.count + count)
    BY <1>1, <2>4, ReadFits
  <2> HIDE DEF bytes
  <2> QED
    BY <2>2, <2>5, <2>6 DEF HashedIsCounted, MediaSize, OpenSteps
<1>4. CASE UpdateIntegrityHash
  <2>1. verify.hashed \o verify.buffer \in Bytes
    BY <1>1, BytesTyped, ConcatProperties DEF Bytes
  <2>2. /\ verify'.hashed = verify.hashed \o verify.buffer /\ verify'.buffer = << >>
        /\ verify'.count = verify.count /\ verify'.filenames = verify.filenames
    BY <1>1, <1>4 DEF UpdateIntegrityHash, Typed, VerifyTyped
  <2>3. verify'.hashed \o verify'.buffer = verify.hashed \o verify.buffer
    BY <2>1, <2>2, ConcatEmptySeq DEF Bytes
  <2>4. program'.step = "check"
    BY <1>1, <1>4 DEF UpdateIntegrityHash, GoesTo, Typed, ProgramTyped
  <2> QED
    BY <1>1, <2>2, <2>3, <2>4 DEF HashedIsCounted, MediaSize, OpenSteps
<1>5. CASE /\ ~OpenInput /\ ~ReadBuffer /\ ~UpdateIntegrityHash
  <2>1. /\ verify'.filenames = verify.filenames /\ verify'.hashed = verify.hashed
        /\ verify'.buffer = verify.buffer /\ verify'.count = verify.count
    BY <1>1, <1>5 DEF Typed, VerifyTyped, Next, Main, vars, SignalAttach, OpenLog,
       InitializeIntegrityHash, CheckAbort, FinalizeIntegrityHash, PrintHashes,
       PrintHashesInLog, VerifyFails, CloseLog, SignalDetach, Close, Free, Forget, Exit,
       Fails, SignalHandler
  <2>2. /\ program'.step \in OpenSteps => program.step \in OpenSteps
        /\ program'.step \in HashSteps \ {"update"} =>
             \/ program.step \in OpenSteps
             \/ program.step \in HashSteps \ {"update"}
    <3>1. CASE SignalAttach \/ OpenLog \/ InitializeIntegrityHash \/ CheckAbort
      BY <1>1, <3>1, ZenonT(40) DEF Typed, ProgramTyped, SignalAttach, OpenLog,
         InitializeIntegrityHash, CheckAbort, At, GoesTo, OpenSteps, HashSteps
    <3>2. CASE FinalizeIntegrityHash \/ PrintHashes \/ PrintHashesInLog \/ VerifyFails
      BY <1>1, <3>2, ZenonT(40) DEF Typed, ProgramTyped, FinalizeIntegrityHash, PrintHashes,
         PrintHashesInLog, VerifyFails, At, GoesTo, AfterVerify, OpenSteps, HashSteps
    <3>3. CASE CloseLog \/ SignalDetach \/ Close \/ Free \/ Forget \/ Exit \/ Fails
      BY <1>1, <3>3, ZenonT(40) DEF Typed, ProgramTyped, CloseLog, SignalDetach, Close, Free, Forget,
         Exit, Fails, At, GoesTo, OpenSteps, HashSteps
    <3>4. CASE SignalHandler \/ UNCHANGED vars
      BY <3>4 DEF SignalHandler, vars
    <3> QED
      BY <1>5, <3>1, <3>2, <3>3, <3>4 DEF Next, Main
  <2> QED
    BY <1>1, <2>1, <2>2 DEF HashedIsCounted, MediaSize
<1> QED
  BY <1>2, <1>3, <1>4, <1>5

(* All of the media is hashed when hashes are finalized without an abort.  *)
LEMMA WholeIsHashed ==
  ASSUME Typed, HashedIsCounted, program.step \in {"print", "print_log"},
         verify.count = MediaSize
  PROVE  verify.hashed = verify.filenames
<1>1. verify.buffer = << >>
  BY SMTT(30) DEF HashedIsCounted, HashSteps
<1> QED
  BY <1>1, BytesTyped, ConcatEmptySeq, SubSeqFull DEF HashedIsCounted, MediaSize, Bytes

-----------------------------------------------------------------------------
(* What the invariant says of the order of main's steps.                   *)
Order == FinalizedAtEnd /\ NothingPrintedYet /\ PrintedIsWhole /\ ResultTold /\ Held
         /\ HandlerFindsHandle /\ LateReads

LEMMA StepOrder ==
  ASSUME IInv, [Next]_vars
  PROVE  Order'
<1>1. InputTyped /\ ProgramTyped /\ VerifyTyped /\ ToldTyped
  BY DEF IInv, Typed
<1>2. /\ FinalizedAtEnd /\ NothingPrintedYet /\ PrintedIsWhole /\ ResultTold /\ Held
      /\ HandlerFindsHandle /\ LateReads
  BY DEF IInv
<1>3. verify.count \in Nat /\ MediaSize \in Nat /\ verify.count <= MediaSize
      /\ verify.filenames # Nothing /\ verify.readsLate \in Nat
      /\ input' = input /\ input.log \in BOOLEAN
  BY BytesTyped, StepInput DEF IInv, HashedIsCounted, Typed, InputTyped
<1>4. At({"print", "print_log"}) /\ verify.count = MediaSize =>
        verify.hashed = verify.filenames
  BY WholeIsHashed DEF IInv, At
<1> USE DEF FinalizedAtEnd, NothingPrintedYet, PrintedIsWhole, ResultTold, Held,
       HandlerFindsHandle, LateReads, Order, At, GoesTo, OpenSteps, HashSteps, EndSteps, ErrorSteps,
       ProgramTyped, VerifyTyped, ToldTyped
<1>5. CASE SignalAttach
  BY <1>5, <1>1, <1>2, <1>3, <1>4 DEF SignalAttach
<1>6. CASE OpenInput
  BY <1>6, <1>1, <1>2, <1>3, <1>4 DEF OpenInput, MediaSize
<1>7. CASE OpenLog
  BY <1>7, <1>1, <1>2, <1>3, <1>4 DEF OpenLog
<1>8. CASE InitializeIntegrityHash
  BY <1>8, <1>1, <1>2, <1>3, <1>4 DEF InitializeIntegrityHash, MediaSize
<1>9. CASE ReadBuffer
  BY <1>9, <1>1, <1>2, <1>3, <1>4 DEF ReadBuffer, Reads, MediaSize
<1>10. CASE UpdateIntegrityHash
  BY <1>10, <1>1, <1>2, <1>3, <1>4 DEF UpdateIntegrityHash
<1>11. CASE CheckAbort
  BY <1>11, <1>1, <1>2, <1>3, <1>4 DEF CheckAbort, MediaSize
<1>12. CASE FinalizeIntegrityHash
  BY <1>12, <1>1, <1>2, <1>3, <1>4 DEF FinalizeIntegrityHash, MediaSize
<1>13. CASE PrintHashes
  BY <1>13, <1>1, <1>2, <1>3, <1>4 DEF PrintHashes, AfterVerify, MediaSize
<1>14. CASE PrintHashesInLog
  BY <1>14, <1>1, <1>2, <1>3, <1>4 DEF PrintHashesInLog, AfterVerify
<1>15. CASE VerifyFails
  BY <1>15, <1>1, <1>2, <1>3, <1>4 DEF VerifyFails, AfterVerify, VerifySteps
<1>16. CASE CloseLog
  BY <1>16, <1>1, <1>2, <1>3, <1>4 DEF CloseLog
<1>17. CASE SignalDetach
  BY <1>17, <1>1, <1>2, <1>3, <1>4 DEF SignalDetach
<1>18. CASE Close
  BY <1>18, <1>1, <1>2, <1>3, <1>4 DEF Close
<1>19. CASE Free
  BY <1>19, <1>1, <1>2, <1>3, <1>4 DEF Free
<1>20. CASE Forget
  BY <1>20, <1>1, <1>2, <1>3, <1>4 DEF Forget
<1>21. CASE Exit
  BY <1>21, <1>1, <1>2, <1>3, <1>4 DEF Exit
<1>22. CASE Fails
  BY <1>22, <1>1, <1>2, <1>3, <1>4 DEF Fails
<1>23. CASE SignalHandler
  BY <1>23, <1>1, <1>2, <1>3, <1>4 DEF SignalHandler, MediaSize
<1>24. CASE UNCHANGED vars
  BY <1>24, <1>1, <1>2, <1>3 DEF vars, MediaSize
<1> QED
  BY <1>5, <1>6, <1>7, <1>8, <1>9, <1>10, <1>11, <1>12, <1>13, <1>14, <1>15, <1>16, <1>17,
     <1>18, <1>19, <1>20, <1>21, <1>22, <1>23, <1>24 DEF Next, Main

-----------------------------------------------------------------------------
(* Every state of smrawverify is as IInv says.                             *)
THEOREM SpecIInv == Spec => []IInv
<1>1. ASSUME IInv, [Next]_vars PROVE IInv'
  BY <1>1, StepTyped, StepHashed, StepOrder DEF IInv, Order
<1> QED
  BY InitIInv, <1>1, PTL DEF Spec

LEMMA TypeInvariant ==
  ASSUME IInv
  PROVE  TypeOK
<1>1. InputTyped /\ ProgramTyped /\ VerifyTyped /\ ToldTyped
  BY DEF IInv, Typed
<1>2. Len(verify.hashed) + Len(verify.buffer) = verify.count
  <2> DEFINE files == verify.filenames  count == verify.count
  <2>1. Len(verify.hashed \o verify.buffer) = Len(verify.hashed) + Len(verify.buffer)
    BY BytesTyped, ConcatProperties DEF IInv, Bytes
  <2>2. count \in Nat /\ count <= Len(files) /\ files \in Seq(input.directory)
    BY BytesTyped DEF IInv, HashedIsCounted, MediaSize, Bytes
  <2> HIDE DEF files, count
  <2>3. Len(SubSeq(files, 1, count)) = count
    <3>1. \A i \in 1 .. count : files[i] \in input.directory
      BY <2>2
    <3> QED
      BY <2>2, <3>1, SubSeqProperties
  <2> QED
    BY <2>1, <2>3 DEF IInv, HashedIsCounted, files, count
<1>3. verify.count \in 0 .. MediaSize /\ verify.contexts \subseteq Digests
  BY BytesTyped DEF IInv, HashedIsCounted
<1>4. \A flag \in DOMAIN told : told[flag] \in BOOLEAN
  BY <1>1 DEF ToldTyped
<1> QED
  BY <1>1, <1>2, <1>3, <1>4 DEF TypeOK, ProgramTyped, Steps, OpenSteps, HashSteps, EndSteps,
     ErrorSteps, VerifySteps

(* Every variable always has its type, and what is counted is what was     *)
(* read, however large the buffer and whatever a read gives.               *)
THEOREM TypeIsInvariant == Spec => []TypeOK
<1>1. IInv => TypeOK
  BY TypeInvariant
<1> QED
  BY SpecIInv, <1>1, PTL

(* The hashes smrawverify prints or logs are of each byte of the media,    *)
(* once and in order, for every directory and size of the buffer.          *)
THEOREM PrintedIsAlwaysWhole == Spec => []PrintedIsWhole
<1>1. IInv => PrintedIsWhole
  BY DEF IInv
<1> QED
  BY SpecIInv, <1>1, PTL

(* smrawverify ends with success only after printing and logging hashes,   *)
(* with no signal handled.                                                 *)
THEOREM SuccessAlwaysMeansVerified == Spec => []SuccessMeansVerified
<1>1. IInv => SuccessMeansVerified
  BY Zenon DEF IInv, ResultTold, SuccessMeansVerified
<1> QED
  BY SpecIInv, <1>1, PTL

(* On every way out of main nothing is held: no context, no handle, no log.*)
THEOREM NothingIsEverLeft == Spec => []NothingLeft
<1>1. IInv => NothingLeft
  BY DEF IInv, Held, NothingLeft, HashSteps
<1> QED
  BY SpecIInv, <1>1, PTL

(* The signal handler finds a freed handle only after an error, or when it *)
(* could not be detached.                                                  *)
THEOREM HandlerAlwaysFindsHandle == Spec => []HandlerFindsHandle
<1>1. IInv => HandlerFindsHandle
  BY DEF IInv
<1> QED
  BY SpecIInv, <1>1, PTL

(* At most one buffer is read after the handle is told to abort, however   *)
(* many there are left.                                                    *)
THEOREM AbortIsAlwaysPrompt == Spec => []AbortIsPrompt
<1>1. IInv => AbortIsPrompt
  BY DEF IInv, LateReads, AbortIsPrompt
<1> QED
  BY SpecIInv, <1>1, PTL
-----------------------------------------------------------------------------
(* Finding the files of an image.                                          *)
IsPower(p, base, digits) ==
  p = [n \in 0 .. digits |-> IF n = 0 THEN 1 ELSE base * p[n - 1]]

ArePowers(p, base, digits) ==
  /\ p \in [0 .. digits -> Nat \ {0}]
  /\ p[0] = 1
  /\ \A n \in 1 .. digits : p[n] = base * p[n - 1]

(* A power multiplies up from one.                                         *)
LEMMA PowerSteps ==
  ASSUME NEW base \in Nat \ {0}, NEW digits \in Nat
  PROVE  \E p : ArePowers(p, base, digits) /\ Power(base, digits) = p[digits]
<1> DEFINE Positive == Nat \ {0}
           step == [q \in (1 .. digits) \X Positive |-> base * q[2]]
<1>1. \A m \in Positive : base * m \in Positive
  OBVIOUS
<1>2. step \in [(1 .. digits) \X Positive -> Positive]
  BY <1>1
<1>3. \A n \in 1 .. digits, m \in Positive : step[<<n, m>>] = base * m
  OBVIOUS
<1>4. 1 \in Positive
  OBVIOUS
<1> HIDE DEF step, Positive
<1>5. PICK g : AreSteps(g, digits, Positive, 1, step)
  BY <1>2, <1>4, StepsExist
<1>6. /\ g \in [0 .. digits -> Positive] /\ g[0] = 1
      /\ \A n \in 1 .. digits : g[n] = base * g[n - 1]
  <2>1. ASSUME NEW n \in 1 .. digits PROVE g[n] = base * g[n - 1]
    <3>1. n - 1 \in 0 .. digits /\ g[n - 1] \in Positive
      BY <1>5 DEF AreSteps
    <3> QED
      BY <1>3, <1>5, <3>1 DEF AreSteps
  <2> QED
    BY <1>5, <2>1 DEF AreSteps
<1>7. IsPower(g, base, digits)
  <2>1. \A n \in 0 .. digits : g[n] = IF n = 0 THEN 1 ELSE base * g[n - 1]
    BY <1>6
  <2>2. g = [n \in 0 .. digits |-> g[n]]
    BY <1>6
  <2> QED
    BY <2>1, <2>2 DEF IsPower
<1> DEFINE p == CHOOSE f : IsPower(f, base, digits)
<1>8. IsPower(p, base, digits)
  BY <1>7
<1>9. Power(base, digits) = p[digits]
  BY Zenon DEF Power, IsPower
<1> HIDE DEF p
<1>10. \A n \in 0 .. digits : p[n] = IF n = 0 THEN 1 ELSE base * p[n - 1]
  BY <1>8 DEF IsPower
<1> DEFINE H == {n \in Nat : n <= digits => p[n] = g[n]}
<1>11. 0 \in H
  BY <1>6, <1>10
<1>12. ASSUME NEW n \in H PROVE n + 1 \in H
  <2>1. SUFFICES ASSUME n + 1 <= digits PROVE p[n + 1] = g[n + 1]
    OBVIOUS
  <2>2. n \in Nat /\ n + 1 \in 0 .. digits /\ n + 1 \in 1 .. digits /\ n + 1 # 0 /\ (n + 1) - 1 = n
    BY <2>1
  <2>3. p[n] = g[n]
    BY <2>1, <2>2
  <2>4. p[n + 1] = base * p[n]
    BY <1>10, <2>2
  <2>5. g[n + 1] = base * g[n]
    BY <1>6, <2>2
  <2> QED
    BY <2>3, <2>4, <2>5
<1>13. H = Nat
  <2>1. H \in SUBSET Nat
    OBVIOUS
  <2> HIDE DEF H
  <2> QED
    BY <1>11, <1>12, <2>1, Induction
<1>14. p[digits] = g[digits]
  BY <1>13
<1> QED
  BY <1>6, <1>9, <1>14 DEF Positive, ArePowers

(* The first powers.                                                       *)
LEMMA Powers ==
  ASSUME NEW base \in Nat \ {0}
  PROVE  /\ Power(base, 1) = base /\ Power(base, 2) = base * base
         /\ Power(base, 3) = base * (base * base)
         /\ \A l \in Nat \ {0} : Power(base, l) \in Nat /\ Power(base, l) >= base
<1>1. Power(base, 1) = base
  <2>0. PICK p : ArePowers(p, base, 1) /\ Power(base, 1) = p[1]
    <3>1. 1 \in Nat
      OBVIOUS
    <3> QED
      BY <3>1, PowerSteps, Zenon
  <2>1. /\ p \in [0 .. 1 -> Nat \ {0}] /\ Power(base, 1) = p[1] /\ p[0] = 1
        /\ \A n \in 1 .. 1 : p[n] = base * p[n - 1]
    BY <2>0 DEF ArePowers
  <2>2. p[1] = base * p[1 - 1]
    BY <2>1
  <2> QED
    BY <2>1, <2>2
<1>2. Power(base, 2) = base * base
  <2>0. PICK p : ArePowers(p, base, 2) /\ Power(base, 2) = p[2]
    <3>1. 2 \in Nat
      OBVIOUS
    <3> QED
      BY <3>1, PowerSteps, Zenon
  <2>1. /\ p \in [0 .. 2 -> Nat \ {0}] /\ Power(base, 2) = p[2] /\ p[0] = 1
        /\ \A n \in 1 .. 2 : p[n] = base * p[n - 1]
    BY <2>0 DEF ArePowers
  <2>2. p[1] = base * p[1 - 1] /\ p[2] = base * p[2 - 1]
    BY <2>1
  <2>3. p[1] = base /\ p[2] = base * p[1]
    BY <2>1, <2>2
  <2> QED
    BY <2>1, <2>3
<1>3. Power(base, 3) = base * (base * base)
  <2>0. PICK p : ArePowers(p, base, 3) /\ Power(base, 3) = p[3]
    <3>1. 3 \in Nat
      OBVIOUS
    <3> QED
      BY <3>1, PowerSteps, Zenon
  <2>1. /\ p \in [0 .. 3 -> Nat \ {0}] /\ Power(base, 3) = p[3] /\ p[0] = 1
        /\ \A n \in 1 .. 3 : p[n] = base * p[n - 1]
    BY <2>0 DEF ArePowers
  <2>2. p[1] = base * p[1 - 1] /\ p[2] = base * p[2 - 1] /\ p[3] = base * p[3 - 1]
    BY <2>1
  <2>3. p[1] = base /\ p[2] = base * p[1] /\ p[3] = base * p[2]
    BY <2>1, <2>2
  <2> QED
    BY <2>1, <2>3
<1>4. ASSUME NEW l \in Nat \ {0} PROVE Power(base, l) \in Nat /\ Power(base, l) >= base
  <2>0. PICK p : ArePowers(p, base, l) /\ Power(base, l) = p[l]
    <3>1. l \in Nat
      OBVIOUS
    <3> QED
      BY <3>1, PowerSteps, Zenon
  <2>1. /\ p \in [0 .. l -> Nat \ {0}] /\ Power(base, l) = p[l] /\ p[0] = 1
        /\ \A n \in 1 .. l : p[n] = base * p[n - 1]
    BY <2>0 DEF ArePowers
  <2>2. l \in 1 .. l /\ l - 1 \in 0 .. l /\ l \in 0 .. l
    OBVIOUS
  <2>3. p[l] = base * p[l - 1] /\ p[l - 1] \in Nat \ {0} /\ p[l] \in Nat
    BY <2>1, <2>2
  <2>4. \A m \in Nat \ {0} : base * m >= base
    OBVIOUS
  <2> QED
    BY <2>1, <2>3, <2>4
<1> QED
  BY <1>1, <1>2, <1>3, <1>4

(* The numbers of one, two and three digits.                               *)
R2 == Power(Radix, 2)
R3 == Power(Radix, 3)

LEMMA Limits ==
  /\ Radix \in Nat /\ R2 \in Nat /\ R3 \in Nat
  /\ Radix >= 3 /\ R2 >= 3 * Radix /\ R3 >= 3 * R2
  /\ Power(Radix, 1) = Radix
  /\ (Radix - 1) * Radix = R2 - Radix /\ (R2 - Radix) * Radix = R3 - R2
<1>1. Radix \in Nat \ {0} /\ Radix >= 3 /\ Radix \in Int
  BY SegmentGlobAssumptions DEF SegmentGlobAssumptions
<1>2. Power(Radix, 1) = Radix /\ R2 = Radix * Radix /\ R3 = Radix * (Radix * Radix)
  BY <1>1, Powers DEF R2, R3
<1>3. R2 = Radix * Radix /\ R3 = Radix * R2 /\ R2 \in Nat
  BY <1>1, <1>2
<1>4. R3 \in Nat
  BY <1>1, <1>3
<1>5. \A m \in Nat : Radix * m >= 3 * m
  BY <1>1
<1>6. (Radix - 1) * Radix = R2 - Radix
  BY <1>1, <1>3
<1>7. (R2 - Radix) * Radix = R3 - R2
  BY <1>1, <1>3
<1> QED
  BY <1>1, <1>2, <1>3, <1>4, <1>5, <1>6, <1>7

LEMMA Modulo ==
  ASSUME NEW d \in Nat, NEW i \in Nat, i < d
  PROVE  i % d = i
OBVIOUS

(* How many digits they take.                                              *)
LEMMA DigitsOf ==
  ASSUME NEW id \in Nat, id < R3
  PROVE  Digits(id) = IF id < Radix THEN 1 ELSE IF id < R2 THEN 2 ELSE 3
<1> DEFINE d == IF id < Radix THEN 1 ELSE IF id < R2 THEN 2 ELSE 3
           Fits(l) == id < Power(Radix, l) /\ \A m \in 1 .. l - 1 : id >= Power(Radix, m)
<1>1. Power(Radix, 1) = Radix /\ Power(Radix, 2) = R2 /\ Power(Radix, 3) = R3
  BY Limits DEF R2, R3
<1>2. d \in 1 .. id + 1
  BY Limits
<1>3. Fits(d)
  <2>1. CASE id < Radix
    BY <1>1, <2>1
  <2>2. CASE id >= Radix /\ id < R2
    <3>1. d = 2 /\ \A m \in 1 .. 2 - 1 : m = 1
      BY <2>2, Limits
    <3> QED
      BY <1>1, <2>2, <3>1
  <2>3. CASE id >= Radix /\ id >= R2
    <3>1. d = 3 /\ \A m \in 1 .. 3 - 1 : m = 1 \/ m = 2
      BY <2>3, Limits
    <3> QED
      BY <1>1, <2>3, <3>1
  <2> QED
    BY <2>1, <2>2, <2>3, Limits
<1>4. ASSUME NEW l \in 1 .. id + 1, Fits(l) PROVE l = d
  <2>1. CASE l = 1
    BY <1>1, <1>4, <2>1
  <2>2. CASE l = 2
    <3>1. 1 \in 1 .. l - 1
      BY <2>2
    <3> QED
      BY <1>1, <1>4, <2>2, <3>1, Limits
  <2>3. CASE l = 3
    <3>1. 1 \in 1 .. l - 1 /\ 2 \in 1 .. l - 1
      BY <2>3
    <3> QED
      BY <1>1, <1>4, <2>3, <3>1, Limits
  <2>4. CASE l > 3
    <3>1. 3 \in 1 .. l - 1
      BY <2>4
    <3> QED
      BY <1>1, <1>4, <3>1, Limits
  <2> QED
    BY <2>1, <2>2, <2>3, <2>4
<1> HIDE DEF d
<1>5. Digits(id) = d
  <2>1. Digits(id) = CHOOSE l \in 1 .. id + 1 : Fits(l)
    BY Zenon DEF Digits
  <2> HIDE DEF Fits
  <2> QED
    BY <1>2, <1>3, <1>4, <2>1
<1> QED
  BY <1>5 DEF d

(* The name of the first file of a set.                                    *)
StartsSet(first) ==
  /\ Numbered(first) /\ first.number \in {0, 1}
  /\ first.schema = "split" => first.number = 0

Grows(first) == first.schema # "split" /\ first.length = 1

(* Names are typed.                                                        *)
LEMMA NumberedTyped ==
  ASSUME NEW first, Numbered(first)
  PROVE  /\ first.schema \in {"numeric", "split", "x_of_n"}
         /\ first.length \in Nat \ {0} /\ first.number \in Nat
         /\ first.schema = "x_of_n" => first.of \in Nat
BY DEF Numbered, NumericNames, SplitNames, XOfNNames

LEMMA Renumbered ==
  ASSUME NEW first, Numbered(first), NEW l, NEW n
  PROVE  /\ [first EXCEPT !.length = l, !.number = n] = [first EXCEPT !.number = n, !.length = l]
         /\ [first EXCEPT !.number = first.number, !.length = first.length] = first
<1>1. CASE first \in NumericNames
  BY <1>1 DEF NumericNames
<1>2. CASE first \in SplitNames
  BY <1>2 DEF SplitNames
<1>3. CASE first \in XOfNNames
  BY <1>3 DEF XOfNNames
<1> QED
  BY <1>1, <1>2, <1>3 DEF Numbered

(* How many digits the number of a file of the set is given.               *)
LengthOf(first, id) == IF Grows(first) THEN Digits(id) ELSE first.length

LEMMA MemberIs ==
  ASSUME NEW first, Numbered(first), NEW id
  PROVE  Member(first, id) = [first EXCEPT !.length = LengthOf(first, id), !.number = id]
<1>1. Member(first, id) = [first EXCEPT !.number = id, !.length = LengthOf(first, id)]
  <2>1. CASE first \in NumericNames
    BY <2>1 DEF NumericNames, Member, LengthOf, Grows
  <2>2. CASE first \in SplitNames
    BY <2>2 DEF SplitNames, Member, LengthOf, Grows
  <2>3. CASE first \in XOfNNames
    BY <2>3 DEF XOfNNames, Member, LengthOf, Grows
  <2> QED
    BY <2>1, <2>2, <2>3 DEF Numbered
<1> QED
  BY <1>1, Renumbered

(* The set starts with the first.                                          *)
LEMMA FirstMember ==
  ASSUME NEW first, StartsSet(first)
  PROVE  LengthOf(first, first.number) = first.length /\ Member(first, first.number) = first
<1>1. Numbered(first) /\ first.number \in {0, 1}
  BY DEF StartsSet
<1>2. LengthOf(first, first.number) = first.length
  <2>1. first.number \in Nat /\ first.number < Radix /\ first.number < R3
    BY <1>1, Limits
  <2>2. Digits(first.number) = 1
    BY <2>1, DigitsOf
  <2> QED
    BY <2>2 DEF LengthOf, Grows
<1>3. Member(first, first.number) = [first EXCEPT !.length = first.length, !.number = first.number]
  BY <1>1, <1>2, MemberIs
<1> QED
  BY <1>1, <1>2, <1>3, Renumbered

(* What counting stops at, of the numbers up to a capacity.                *)
LEMMA CapacityTyped ==
  ASSUME NEW first, StartsSet(first)
  PROVE  /\ Capacity(first) \in Nat
         /\ Grows(first) => Capacity(first) < R3
         /\ ~ Grows(first) => Capacity(first) < Power(Base(first.schema), first.length)
         /\ ~ Grows(first) => MaximumSegmentFileIdentifier(first) = Capacity(first)
         /\ first.schema = "x_of_n" => MaximumSegmentFileIdentifier(first) = Capacity(first)
         /\ first.schema = "numeric" /\ Grows(first) =>
              Capacity(first) = R3 - R2 /\ MaximumSegmentFileIdentifier(first) = Radix - 1
         /\ MaximumSegmentFileIdentifier(first) \in Nat
         /\ first.schema # "x_of_n" => first.number <= Capacity(first)
<1>1. Numbered(first) /\ first.number \in {0, 1}
  BY DEF StartsSet
<1>2. first.length \in Nat \ {0} /\ first.schema \in {"numeric", "split", "x_of_n"}
  BY <1>1, NumberedTyped
<1>3. Letters \in Nat \ {0} /\ Letters >= 2 /\ Radix \in Nat \ {0}
  BY SegmentGlobAssumptions DEF SegmentGlobAssumptions
<1>4. /\ Power(Radix, first.length) \in Nat /\ Power(Radix, first.length) >= Radix
      /\ Power(Letters, first.length) \in Nat /\ Power(Letters, first.length) >= Letters
  BY <1>2, <1>3, Powers
<1>5. CASE first.schema = "split"
  <2>1. /\ Capacity(first) = Power(Letters, first.length) - 1 /\ ~ Grows(first)
        /\ MaximumSegmentFileIdentifier(first) = Power(Letters, first.length) - 1
        /\ Base(first.schema) = Letters
    BY <1>5 DEF Capacity, MaximumSegmentFileIdentifier, Base, Grows
  <2> QED
    BY <1>1, <1>3, <1>4, <1>5, <2>1
<1>6. CASE first.schema = "numeric" /\ first.length = 1
  <2>1. /\ Capacity(first) = R3 - R2 /\ Grows(first)
        /\ MaximumSegmentFileIdentifier(first) = Radix - 1
    BY <1>6, Limits DEF Capacity, MaximumSegmentFileIdentifier, Grows, R2, R3
  <2> QED
    BY <1>1, <1>6, <2>1, Limits
<1>7. CASE first.schema = "numeric" /\ first.length # 1
  <2>1. /\ Capacity(first) = Power(Radix, first.length) - 1 /\ ~ Grows(first)
        /\ MaximumSegmentFileIdentifier(first) = Power(Radix, first.length) - 1
        /\ Base(first.schema) = Radix
    BY <1>7 DEF Capacity, MaximumSegmentFileIdentifier, Base, Grows
  <2> QED
    BY <1>1, <1>4, <1>7, <2>1, Limits
<1>8. CASE first.schema = "x_of_n"
  <2>1. first.of \in Nat /\ first.of < Power(Radix, IF first.length = 1 THEN 3 ELSE first.length)
    BY <1>1, <1>8 DEF Numbered, NumericNames, SplitNames, XOfNNames
  <2>2. /\ Capacity(first) = first.of /\ MaximumSegmentFileIdentifier(first) = first.of
        /\ Base(first.schema) = Radix /\ (Grows(first) <=> first.length = 1)
    BY <1>8 DEF Capacity, MaximumSegmentFileIdentifier, Base, Grows
  <2> QED
    BY <1>8, <2>1, <2>2 DEF R3
<1> QED
  BY <1>2, <1>5, <1>6, <1>7, <1>8

(* The files of a set up to a number, and what counting knows when it has  *)
(* found them.                                                             *)
FilesTo(first, id) ==
  [k \in 1 .. id - first.number + 1 |-> Member(first, first.number + k - 1)]

MaximumAt(first, id) ==
  IF first.schema = "numeric" /\ Grows(first)
  THEN IF id < Radix THEN Radix - 1 ELSE IF id < R2 THEN R2 - Radix ELSE R3 - R2
  ELSE Capacity(first)

CountedTo(st, first, id) ==
  /\ st.id = id /\ st.length = LengthOf(first, id) /\ st.maximum = MaximumAt(first, id)
  /\ st.expandable <=> Grows(first)
  /\ Grows(first) => st.expansions = 3 - Digits(id)
  /\ st.expand <=> Grows(first) /\ id + 1 \in {Radix, R2, R3}
  /\ ~ st.done

(* Where counting is past the last number there may be.                    *)
LEMMA LimitReached ==
  ASSUME NEW first, StartsSet(first), NEW st,
         NEW id \in Nat, id <= Capacity(first) \/ first.schema = "x_of_n",
         CountedTo(st, first, id)
  PROVE  AtLimit(st, first.schema) <=> id + 1 > Capacity(first)
<1>1. /\ st.id = id /\ st.maximum = MaximumAt(first, id)
      /\ st.expandable <=> Grows(first)
      /\ Grows(first) => st.expansions = 3 - Digits(id)
  BY DEF CountedTo
<1>2. Capacity(first) \in Nat /\ first.schema \in {"numeric", "split", "x_of_n"}
  BY CapacityTyped, NumberedTyped DEF StartsSet
<1>3. CASE ~ Grows(first) \/ first.schema = "x_of_n"
  <2>1. st.maximum = Capacity(first)
    BY <1>1, <1>3 DEF MaximumAt
  <2> QED
    BY <1>1, <1>3, <2>1 DEF AtLimit
<1>4. CASE Grows(first) /\ first.schema = "numeric"
  <2>1. Capacity(first) = R3 - R2 /\ id <= R3 - R2 /\ id < R3
    BY <1>4, CapacityTyped, Limits
  <2>2. Digits(id) = IF id < Radix THEN 1 ELSE IF id < R2 THEN 2 ELSE 3
    BY <2>1, DigitsOf
  <2>3. st.maximum = IF id < Radix THEN Radix - 1 ELSE IF id < R2 THEN R2 - Radix ELSE R3 - R2
    BY <1>1, <1>4 DEF MaximumAt
  <2>4. AtLimit(st, first.schema) <=> id + 1 > st.maximum /\ 3 - Digits(id) = 0
    BY <1>1, <1>4 DEF AtLimit
  <2>5. CASE id < R2
    BY <2>1, <2>2, <2>4, <2>5, Limits
  <2>6. CASE id >= R2
    <3>1. Digits(id) = 3 /\ st.maximum = R3 - R2
      BY <2>2, <2>3, <2>6, Limits
    <3> QED
      BY <2>1, <2>4, <3>1
  <2> QED
    BY <2>5, <2>6, Limits
<1> QED
  BY <1>2, <1>3, <1>4 DEF Grows

(* A number of the set that is below the capacity is written as it is.     *)
LEMMA FitsDigits ==
  ASSUME NEW first, StartsSet(first), NEW id \in Nat, id <= Capacity(first)
  PROVE  /\ LengthOf(first, id) \in Nat \ {0}
         /\ Power(Base(first.schema), LengthOf(first, id)) \in Nat
         /\ id < Power(Base(first.schema), LengthOf(first, id))
         /\ id % Power(Base(first.schema), LengthOf(first, id)) = id
         /\ Grows(first) =>
              (id = Power(Base(first.schema), LengthOf(first, id)) - 1
                 <=> id + 1 \in {Radix, R2, R3})
<1> DEFINE d == Power(Base(first.schema), LengthOf(first, id))
<1>1. Capacity(first) \in Nat /\ first.length \in Nat \ {0}
      /\ first.schema \in {"numeric", "split", "x_of_n"}
  BY CapacityTyped, NumberedTyped DEF StartsSet
<1>2. /\ LengthOf(first, id) \in Nat \ {0} /\ d \in Nat /\ id < d
      /\ Grows(first) => (id = d - 1 <=> id + 1 \in {Radix, R2, R3})
  <2>1. CASE Grows(first)
    <3>1. id < R3 /\ Base(first.schema) = Radix /\ LengthOf(first, id) = Digits(id)
      BY <1>1, <2>1, CapacityTyped, Limits DEF Grows, Base, LengthOf
    <3>2. Digits(id) = IF id < Radix THEN 1 ELSE IF id < R2 THEN 2 ELSE 3
      BY <3>1, DigitsOf
    <3>3. d = IF id < Radix THEN Radix ELSE IF id < R2 THEN R2 ELSE R3
      <4>1. d = Power(Radix, Digits(id))
        BY <3>1
      <4> HIDE DEF d
      <4> QED
        BY <3>2, <4>1, Limits DEF R2, R3
    <3> HIDE DEF d
    <3> QED
      BY <2>1, <3>1, <3>2, <3>3, Limits
  <2>2. CASE ~ Grows(first)
    <3>1. d = Power(Base(first.schema), first.length) /\ LengthOf(first, id) = first.length
      BY <2>2 DEF LengthOf
    <3>2. Capacity(first) < Power(Base(first.schema), first.length)
      BY <2>2, CapacityTyped
    <3>3. Base(first.schema) \in Nat \ {0}
      BY SegmentGlobAssumptions DEF SegmentGlobAssumptions, Base
    <3>4. Power(Base(first.schema), first.length) \in Nat
      BY <1>1, <3>3, Powers
    <3> QED
      BY <1>1, <2>2, <3>1, <3>2, <3>4
  <2> QED
    BY <2>1, <2>2
<1> HIDE DEF d
<1>3. id % d = id
  BY <1>2, Modulo
<1> QED
  BY <1>2, <1>3 DEF d

(* When a digit is added.                                                  *)
LEMMA NextExpanded ==
  ASSUME NEW first, StartsSet(first), NEW directory, NEW st \in CountingIn(directory),
         NEW id \in Nat, id + 1 <= Capacity(first), CountedTo(st, first, id),
         NEW grown, grown = Expanded([st EXCEPT !.id = @ + 1], first.schema)
  PROVE  /\ grown \in CountingIn(directory)
         /\ grown.id = id + 1 /\ grown.length = LengthOf(first, id + 1)
         /\ grown.maximum = MaximumAt(first, id + 1)
         /\ grown.expandable <=> Grows(first)
         /\ Grows(first) => grown.expansions = 3 - Digits(id + 1)
         /\ ~ grown.expand /\ grown.found = st.found /\ ~ grown.done
<1> DEFINE next == [st EXCEPT !.id = @ + 1]
<1>1. Capacity(first) \in Nat /\ first.length \in Nat \ {0}
      /\ first.schema \in {"numeric", "split", "x_of_n"}
  BY CapacityTyped, NumberedTyped DEF StartsSet
<1>2. /\ next \in CountingIn(directory) /\ next.id = id + 1
      /\ next.length = LengthOf(first, id) /\ next.maximum = MaximumAt(first, id)
      /\ next.expandable <=> Grows(first)
      /\ Grows(first) => next.expansions = 3 - Digits(id)
      /\ next.expand <=> Grows(first) /\ id + 1 \in {Radix, R2, R3}
      /\ next.found = st.found /\ ~ next.done
  BY DEF CountingIn, CountedTo
<1>3. grown = Expanded(next, first.schema)
  OBVIOUS
<1> HIDE DEF next
<1>4. grown = IF ~ next.expand THEN next
         ELSE [next EXCEPT !.maximum = IF first.schema = "numeric" THEN next.maximum * Radix
                                       ELSE next.maximum,
                           !.length = next.length + 1, !.expansions = next.expansions - 1,
                           !.expand = FALSE]
  BY <1>3, Zenon DEF Expanded
<1>5. CASE ~ Grows(first)
  <2>1. /\ LengthOf(first, id + 1) = LengthOf(first, id)
        /\ MaximumAt(first, id + 1) = MaximumAt(first, id)
    BY <1>5 DEF LengthOf, MaximumAt
  <2>2. grown = next
    BY <1>2, <1>4, <1>5
  <2> QED
    BY <1>2, <1>5, <2>1, <2>2
<1>6. CASE Grows(first)
  <2>1. id + 1 < R3 /\ id < R3 /\ id + 1 \in Nat /\ first.schema \in {"numeric", "x_of_n"}
    BY <1>1, <1>6, CapacityTyped, Limits DEF Grows
  <2>2. /\ Digits(id) = IF id < Radix THEN 1 ELSE IF id < R2 THEN 2 ELSE 3
        /\ Digits(id + 1) = IF id + 1 < Radix THEN 1 ELSE IF id + 1 < R2 THEN 2 ELSE 3
    BY <2>1, DigitsOf
  <2>3. LengthOf(first, id) = Digits(id) /\ LengthOf(first, id + 1) = Digits(id + 1)
    BY <1>6 DEF LengthOf
  <2>4. CASE id + 1 \in {Radix, R2}
    <3>1. Digits(id + 1) = Digits(id) + 1 /\ Digits(id) \in Nat
      BY <2>1, <2>2, <2>4, Limits
    <3>2. next.expand
      BY <1>2, <1>6, <2>4
    <3>3. MaximumAt(first, id + 1)
            = IF first.schema = "numeric" THEN MaximumAt(first, id) * Radix ELSE MaximumAt(first, id)
      <4>1. CASE first.schema = "numeric"
        <5>1. id + 1 = Radix => MaximumAt(first, id) = Radix - 1 /\ MaximumAt(first, id + 1) = R2 - Radix
          BY <1>6, <4>1, Limits DEF MaximumAt
        <5>2. id + 1 = R2 => MaximumAt(first, id) = R2 - Radix /\ MaximumAt(first, id + 1) = R3 - R2
          BY <1>6, <4>1, Limits DEF MaximumAt
        <5> QED
          BY <2>4, <4>1, <5>1, <5>2, Limits
      <4>2. CASE first.schema = "x_of_n"
        BY <4>2 DEF MaximumAt
      <4> QED
        BY <2>1, <4>1, <4>2
    <3>4. (3 - Digits(id)) - 1 = 3 - Digits(id + 1)
      BY <3>1
    <3> DEFINE m == IF first.schema = "numeric" THEN next.maximum * Radix ELSE next.maximum
               l == next.length + 1
               x == next.expansions - 1
    <3>5. m = MaximumAt(first, id + 1) /\ l = LengthOf(first, id + 1) /\ x = 3 - Digits(id + 1)
      BY <1>2, <1>6, <2>3, <3>1, <3>3, <3>4
    <3>6. m \in Nat /\ l \in Nat /\ x \in Int
      <4>1. next.maximum \in Nat /\ next.length \in Nat /\ next.expansions \in Int /\ Radix \in Nat
        BY <1>2, Limits DEF CountingIn
      <4> QED
        BY <4>1
    <3>7. grown = [next EXCEPT !.maximum = m, !.length = l, !.expansions = x, !.expand = FALSE]
      BY <1>4, <3>2, Zenon
    <3> HIDE DEF m, l, x
    <3>8. /\ grown \in CountingIn(directory) /\ grown.id = next.id /\ grown.length = l
          /\ grown.maximum = m /\ grown.expandable = next.expandable /\ grown.expansions = x
          /\ grown.expand = FALSE /\ grown.found = next.found /\ grown.done = next.done
      BY <1>2, <3>6, <3>7 DEF CountingIn
    <3> QED
      BY <1>2, <3>5, <3>8
  <2>5. CASE id + 1 \notin {Radix, R2}
    <3>1. Digits(id + 1) = Digits(id) /\ MaximumAt(first, id + 1) = MaximumAt(first, id)
      BY <1>6, <2>1, <2>2, <2>5, Limits DEF MaximumAt
    <3>2. id + 1 \notin {Radix, R2, R3}
      BY <2>1, <2>5, Limits
    <3>3. grown = next
      BY <1>2, <1>4, <3>2
    <3> QED
      BY <1>2, <2>3, <3>1, <3>2, <3>3
  <2> QED
    BY <2>4, <2>5
<1> QED
  BY <1>5, <1>6

(* The files up to a number, and the next.                                 *)
LEMMA FilesToNext ==
  ASSUME NEW first, first.number \in Nat, NEW id \in Nat, first.number <= id
  PROVE  /\ Append(FilesTo(first, id), Member(first, id + 1)) = FilesTo(first, id + 1)
         /\ Len(FilesTo(first, id)) = id - first.number + 1
<1> DEFINE a == first.number  n == id - a + 1  files == FilesTo(first, id)
<1>1. a \in Nat /\ n \in Nat /\ (id + 1) - a + 1 = n + 1 /\ a + (n + 1) - 1 = id + 1
  OBVIOUS
<1>2. /\ files = [k \in 1 .. n |-> Member(first, a + k - 1)]
      /\ FilesTo(first, id + 1) = [k \in 1 .. n + 1 |-> Member(first, a + k - 1)]
  BY <1>1 DEF FilesTo
<1> HIDE DEF a, n, files
<1> DEFINE Values == {Member(first, a + k - 1) : k \in 1 .. n}
<1>3. files \in Seq(Values) /\ Len(files) = n
  <2>1. \A k \in 1 .. n : Member(first, a + k - 1) \in Values
    OBVIOUS
  <2> HIDE DEF Values
  <2>2. files \in [1 .. n -> Values]
    BY <1>2, <2>1
  <2> QED
    BY <1>1, <2>2
<1>4. \A k \in 1 .. n : files[k] = Member(first, a + k - 1)
  BY <1>2
<1> HIDE DEF Values
<1>5. Append(files, Member(first, id + 1))
        = [k \in 1 .. n + 1 |-> IF k = n + 1 THEN Member(first, id + 1) ELSE files[k]]
  BY <1>1, <1>3
<1>6. \A k \in 1 .. n + 1 : (IF k = n + 1 THEN Member(first, id + 1) ELSE files[k])
                             = Member(first, a + k - 1)
  BY <1>1, <1>4
<1> QED
  BY <1>2, <1>3, <1>5, <1>6 DEF a, n, files

(* What follows when the files up to a number were found: the next file of *)
(* the set, if it may be and is there.                                     *)
LEMMA NextFound ==
  ASSUME NEW first, StartsSet(first), NEW directory, NEW st \in CountingIn(directory),
         NEW id \in Nat, id <= Capacity(first) \/ first.schema = "x_of_n",
         CountedTo(st, first, id),
         NEW next, next = NextSegmentFile(directory, first, st)
  PROVE  IF id + 1 <= Capacity(first) /\ Member(first, id + 1) \in directory
         THEN /\ next \in CountingIn(directory) /\ CountedTo(next, first, id + 1)
              /\ next.found = Append(st.found, Member(first, id + 1))
         ELSE next = [st EXCEPT !.done = TRUE]
<1> DEFINE grown  == Expanded([st EXCEPT !.id = @ + 1], first.schema)
           digits == Power(Base(first.schema), grown.length)
           name   == [first EXCEPT !.length = grown.length, !.number = grown.id % digits]
<1>1. next = IF AtLimit(st, first.schema) THEN [st EXCEPT !.done = TRUE]
             ELSE IF name \notin directory THEN [st EXCEPT !.done = TRUE]
             ELSE [grown EXCEPT !.found = Append(grown.found, name),
                                !.expand = grown.expandable /\ grown.id % digits = digits - 1]
  BY Zenon DEF NextSegmentFile
<1>2. Capacity(first) \in Nat /\ Numbered(first)
  BY CapacityTyped DEF StartsSet
<1>3. AtLimit(st, first.schema) <=> id + 1 > Capacity(first)
  BY LimitReached
<1>4. CASE id + 1 > Capacity(first)
  BY <1>1, <1>2, <1>3, <1>4
<1>5. CASE id + 1 <= Capacity(first)
  <2>1. /\ grown \in CountingIn(directory)
        /\ grown.id = id + 1 /\ grown.length = LengthOf(first, id + 1)
        /\ grown.maximum = MaximumAt(first, id + 1)
        /\ grown.expandable <=> Grows(first)
        /\ Grows(first) => grown.expansions = 3 - Digits(id + 1)
        /\ ~ grown.expand /\ grown.found = st.found /\ ~ grown.done
    <3> HIDE DEF grown
    <3>1. grown = Expanded([st EXCEPT !.id = @ + 1], first.schema)
      BY Zenon DEF grown
    <3> QED
      BY <1>5, <3>1, NextExpanded
  <2> HIDE DEF grown
  <2>2. digits = Power(Base(first.schema), LengthOf(first, id + 1))
    BY <2>1
  <2> HIDE DEF digits
  <2>3. /\ digits \in Nat /\ (id + 1) % digits = id + 1
        /\ Grows(first) => (id + 1 = digits - 1 <=> (id + 1) + 1 \in {Radix, R2, R3})
    <3>1. id + 1 \in Nat
      OBVIOUS
    <3> QED
      BY <1>5, <2>2, <3>1, FitsDigits
  <2>4. name = Member(first, id + 1)
    <3>1. name = [first EXCEPT !.length = LengthOf(first, id + 1), !.number = id + 1]
      BY <2>1, <2>3
    <3> HIDE DEF name
    <3> QED
      BY <1>2, <3>1, MemberIs
  <2> HIDE DEF name
  <2>5. CASE Member(first, id + 1) \notin directory
    BY <1>1, <2>4, <2>5
  <2>6. CASE Member(first, id + 1) \in directory
    <3> DEFINE full  == grown.expandable /\ grown.id % digits = digits - 1
               found == Append(grown.found, name)
    <3>1. next = [grown EXCEPT !.found = found, !.expand = full]
      BY <1>1, <1>2, <1>3, <1>5, <2>4, <2>6
    <3>2. full \in BOOLEAN /\ (full <=> Grows(first) /\ (id + 1) + 1 \in {Radix, R2, R3})
      BY <2>1, <2>3
    <3>3. found \in Seq(directory) /\ found = Append(st.found, Member(first, id + 1))
      BY <2>1, <2>4, <2>6 DEF CountingIn
    <3> HIDE DEF full, found
    <3>4. /\ next \in CountingIn(directory) /\ next.id = grown.id /\ next.length = grown.length
          /\ next.maximum = grown.maximum /\ next.expandable = grown.expandable
          /\ next.expansions = grown.expansions /\ next.expand = full /\ next.found = found
          /\ next.done = grown.done
      BY <2>1, <3>1, <3>2, <3>3, ZenonT(40) DEF CountingIn
    <3>5. CountedTo(next, first, id + 1)
      BY <2>1, <3>2, <3>4 DEF CountedTo
    <3> QED
      BY <1>5, <2>6, <3>3, <3>4, <3>5
  <2> QED
    BY <2>5, <2>6
<1> QED
  BY <1>2, <1>4, <1>5

LEMMA AppendKeepsFirst ==
  ASSUME NEW S, NEW s \in Seq(S), NEW e \in S
  PROVE  /\ Append(s, e) \in Seq(S) /\ Append(s, e) # << >>
         /\ s # << >> => Append(s, e)[1] = s[1]
<1>1. Len(s) \in Nat /\ Len(Append(s, e)) = Len(s) + 1 /\ Append(s, e) \in Seq(S)
  OBVIOUS
<1>2. s # << >> => 1 \in 1 .. Len(s)
  OBVIOUS
<1> QED
  BY <1>1, <1>2, SMTT(30)

(* What counting knows is typed, and it keeps the first file it found.     *)
LEMMA NextTyped ==
  ASSUME NEW directory, NEW suffix, NEW st \in CountingIn(directory)
  PROVE  /\ NextSegmentFile(directory, suffix, st) \in CountingIn(directory)
         /\ st.found # << >> =>
              /\ NextSegmentFile(directory, suffix, st).found # << >>
              /\ NextSegmentFile(directory, suffix, st).found[1] = st.found[1]
<1> DEFINE next   == NextSegmentFile(directory, suffix, st)
           grown  == Expanded([st EXCEPT !.id = @ + 1], suffix.schema)
           digits == Power(Base(suffix.schema), grown.length)
           name   == [suffix EXCEPT !.length = grown.length, !.number = grown.id % digits]
<1>1. next = IF AtLimit(st, suffix.schema) THEN [st EXCEPT !.done = TRUE]
             ELSE IF name \notin directory THEN [st EXCEPT !.done = TRUE]
             ELSE [grown EXCEPT !.found = Append(grown.found, name),
                                !.expand = grown.expandable /\ grown.id % digits = digits - 1]
  BY Zenon DEF NextSegmentFile
<1>2. grown \in CountingIn(directory) /\ grown.found = st.found
  <2> DEFINE higher == [st EXCEPT !.id = @ + 1]
             m == IF suffix.schema = "numeric" THEN higher.maximum * Radix ELSE higher.maximum
             l == higher.length + 1
             x == higher.expansions - 1
  <2>1. higher \in CountingIn(directory) /\ higher.found = st.found
    BY DEF CountingIn
  <2> HIDE DEF higher
  <2>2. grown = IF ~ higher.expand THEN higher
                ELSE [higher EXCEPT !.maximum = m, !.length = l, !.expansions = x, !.expand = FALSE]
    BY Zenon DEF Expanded, higher
  <2>3. m \in Nat /\ l \in Nat /\ x \in Int
    <3>1. higher.maximum \in Nat /\ higher.length \in Nat /\ higher.expansions \in Int /\ Radix \in Nat
      BY <2>1, Limits DEF CountingIn
    <3> QED
      BY <3>1
  <2> HIDE DEF m, l, x, grown
  <2> QED
    BY <2>1, <2>2, <2>3 DEF CountingIn
<1> HIDE DEF grown, digits, name, next
<1>3. CASE next = [st EXCEPT !.done = TRUE]
  BY <1>3 DEF CountingIn, next
<1>4. CASE name \in directory
           /\ next = [grown EXCEPT !.found = Append(grown.found, name),
                                   !.expand = grown.expandable /\ grown.id % digits = digits - 1]
  <2> DEFINE full  == grown.expandable /\ grown.id % digits = digits - 1
             found == Append(grown.found, name)
  <2>1. next = [grown EXCEPT !.found = found, !.expand = full] /\ full \in BOOLEAN
    BY <1>4
  <2>2. found \in Seq(directory) /\ found # << >> /\ (st.found # << >> => found[1] = st.found[1])
    <3>1. st.found \in Seq(directory) /\ found = Append(st.found, name) /\ name \in directory
      BY <1>2, <1>4 DEF CountingIn
    <3> HIDE DEF found
    <3> QED
      BY <3>1, AppendKeepsFirst
  <2> HIDE DEF full, found
  <2>3. next \in CountingIn(directory) /\ next.found = found
    BY <1>2, <2>1, <2>2 DEF CountingIn
  <2> QED
    BY <2>2, <2>3 DEF next
<1> QED
  BY <1>1, <1>3, <1>4

(* Counting, for so many rounds at most.                                   *)
IsCounting(after, n, directory, suffix) ==
  /\ after \in [0 .. n -> [CountingIn(directory) -> CountingIn(directory)]]
  /\ \A rounds \in 0 .. n : \A st \in CountingIn(directory) :
       after[rounds][st] = IF rounds = 0 \/ st.done THEN st
                           ELSE after[rounds - 1][NextSegmentFile(directory, suffix, st)]

LEMMA CountingExists ==
  ASSUME NEW directory, NEW suffix, NEW n \in Nat
  PROVE  \E after : IsCounting(after, n, directory, suffix)
<1> DEFINE C == CountingIn(directory)
           G == [C -> C]
           next(st) == NextSegmentFile(directory, suffix, st)
           base == [st \in C |-> st]
           step == [q \in (1 .. n) \X G |-> [st \in C |-> IF st.done THEN st ELSE q[2][next(st)]]]
<1>1. \A st \in C : next(st) \in C
  BY NextTyped
<1> HIDE DEF C, next
<1>2. base \in G
  OBVIOUS
<1>3. step \in [(1 .. n) \X G -> G]
  <2>1. ASSUME NEW q \in (1 .. n) \X G
        PROVE  [st \in C |-> IF st.done THEN st ELSE q[2][next(st)]] \in G
    <3>1. q[2] \in [C -> C]
      OBVIOUS
    <3> QED
      BY <1>1, <3>1
  <2> HIDE DEF G
  <2> QED
    BY <2>1
<1>4. ASSUME NEW k \in 1 .. n, NEW g \in G, NEW st \in C
      PROVE  step[<<k, g>>][st] = IF st.done THEN st ELSE g[next(st)]
  <2>1. <<k, g>> \in (1 .. n) \X G
    OBVIOUS
  <2> QED
    BY <2>1
<1>5. PICK after : AreSteps(after, n, G, base, step)
  <2> HIDE DEF G, base, step
  <2> QED
    BY <1>2, <1>3, StepsExist
<1>6. ASSUME NEW k \in 0 .. n, NEW st \in C
      PROVE  after[k][st] = IF k = 0 \/ st.done THEN st ELSE after[k - 1][next(st)]
  <2> HIDE DEF step
  <2>1. CASE k = 0
    BY <1>5, <2>1 DEF AreSteps
  <2>2. CASE k # 0
    <3>1. k \in 1 .. n /\ k - 1 \in 0 .. n
      BY <2>2
    <3>2. after[k] = step[<<k, after[k - 1]>>] /\ after[k - 1] \in G
      BY <1>5, <3>1 DEF AreSteps
    <3> HIDE DEF G
    <3> QED
      BY <1>4, <2>2, <3>1, <3>2
  <2> QED
    BY <2>1, <2>2
<1>7. after \in [0 .. n -> [C -> C]]
  BY <1>5 DEF AreSteps
<1> QED
  BY <1>6, <1>7, Zenon DEF IsCounting, C, next

(* The number counting stops at is one.                                    *)
LEMMA RoundsTyped ==
  ASSUME NEW suffix, Numbered(suffix)
  PROVE  Rounds(suffix) \in Nat /\ MaximumSegmentFileIdentifier(suffix) \in Nat
         /\ Rounds(suffix) >= R3 /\ Rounds(suffix) = R3 + MaximumSegmentFileIdentifier(suffix)
<1>1. /\ suffix.schema \in {"numeric", "split", "x_of_n"} /\ suffix.length \in Nat \ {0}
      /\ suffix.schema = "x_of_n" => suffix.of \in Nat
  BY NumberedTyped
<1>2. Letters \in Nat \ {0} /\ Radix \in Nat \ {0}
  BY SegmentGlobAssumptions DEF SegmentGlobAssumptions
<1>3. /\ Power(Radix, suffix.length) \in Nat \ {0} /\ Power(Letters, suffix.length) \in Nat \ {0}
  <2>1. \A l \in Nat \ {0} : Power(Radix, l) \in Nat /\ Power(Radix, l) >= Radix
    BY <1>2, Powers
  <2>2. \A l \in Nat \ {0} : Power(Letters, l) \in Nat /\ Power(Letters, l) >= Letters
    BY <1>2, Powers
  <2> QED
    BY <1>1, <1>2, <2>1, <2>2
<1>4. MaximumSegmentFileIdentifier(suffix) \in Nat
  <2>1. CASE suffix.schema = "numeric"
    BY <1>3, <2>1 DEF MaximumSegmentFileIdentifier
  <2>2. CASE suffix.schema = "split"
    BY <1>3, <2>2 DEF MaximumSegmentFileIdentifier
  <2>3. CASE suffix.schema = "x_of_n"
    BY <1>1, <2>3 DEF MaximumSegmentFileIdentifier
  <2> QED
    BY <1>1, <2>1, <2>2, <2>3
<1> QED
  BY <1>4, Limits DEF Rounds, R3

LEMMA FirstTyped ==
  ASSUME NEW directory, NEW suffix \in directory, Numbered(suffix)
  PROVE  /\ FirstIdentifier(suffix) \in CountingIn(directory)
         /\ FirstIdentifier(suffix).found = <<suffix>>
         /\ FirstIdentifier(suffix).id = IF suffix.schema = "split" THEN 0 ELSE suffix.number % Radix
<1> DEFINE id == IF suffix.schema = "split" THEN 0 ELSE suffix.number % Radix
           able == suffix.schema # "split" /\ suffix.length = 1
<1>1. id \in Nat /\ suffix.length \in Nat /\ MaximumSegmentFileIdentifier(suffix) \in Nat
  <2>1. suffix.number \in Nat /\ suffix.length \in Nat
    BY NumberedTyped
  <2> QED
    BY <2>1, RoundsTyped, Limits
<1>2. able \in BOOLEAN /\ <<suffix>> \in Seq(directory) /\ 2 \in Int
  OBVIOUS
<1>3. FirstIdentifier(suffix)
        = [id |-> id, length |-> suffix.length, maximum |-> MaximumSegmentFileIdentifier(suffix),
           expandable |-> able, expansions |-> 2, expand |-> FALSE, found |-> <<suffix>>,
           done |-> FALSE]
  BY Zenon DEF FirstIdentifier
<1> HIDE DEF id, able
<1> QED
  BY <1>1, <1>2, <1>3 DEF CountingIn, id

(* What counting comes to.                                                 *)
LEMMA CountedUpIs ==
  ASSUME NEW directory, NEW suffix \in directory, Numbered(suffix)
  PROVE  \E after : /\ IsCounting(after, Rounds(suffix), directory, suffix)
                    /\ CountedUp(directory, suffix)
                         = after[Rounds(suffix)][FirstIdentifier(suffix)]
<1> DEFINE n == Rounds(suffix)
           C == CountingIn(directory)
           Is(f) == f = [rounds \in 0 .. n |->
                          [st \in C |->
                             IF rounds = 0 \/ st.done THEN st
                             ELSE f[rounds - 1][NextSegmentFile(directory, suffix, st)]]]
           after == CHOOSE f : Is(f)
<1>1. n \in Nat
  BY RoundsTyped
<1>2. CountedUp(directory, suffix) = after[n][FirstIdentifier(suffix)]
  BY DEF CountedUp
<1> HIDE DEF n, after
<1>3. PICK g : IsCounting(g, n, directory, suffix)
  BY <1>1, CountingExists, Zenon
<1> DEFINE value(f, k, st) == IF k = 0 \/ st.done THEN st
                              ELSE f[k - 1][NextSegmentFile(directory, suffix, st)]
<1>4. g \in [0 .. n -> [C -> C]] /\ \A k \in 0 .. n : \A st \in C : g[k][st] = value(g, k, st)
  BY <1>3, Zenon DEF IsCounting
<1> HIDE DEF C
<1>5. Is(g)
  <2>1. ASSUME NEW k \in 0 .. n PROVE g[k] = [st \in C |-> value(g, k, st)]
    <3>1. g[k] \in [C -> C]
      BY <1>4
    <3> QED
      BY <1>4, <3>1
  <2>2. g = [k \in 0 .. n |-> [st \in C |-> value(g, k, st)]]
    BY <1>4, <2>1
  <2> QED
    BY <2>2
<1>6. Is(after)
  BY <1>5, Zenon DEF after
<1>7. \A k \in 0 .. n : \A st \in C : after[k][st] = value(after, k, st)
  <2>1. ASSUME NEW k \in 0 .. n PROVE after[k] = [st \in C |-> value(after, k, st)]
    <3> HIDE DEF after
    <3> QED
      BY <1>6
  <2> QED
    BY <2>1, ZenonT(40)
<1> DEFINE H == {k \in Nat : k <= n => \A st \in C : after[k][st] = g[k][st]}
<1>8. 0 \in H
  BY <1>1, <1>4, <1>7
<1>9. ASSUME NEW k \in H PROVE k + 1 \in H
  <2>1. SUFFICES ASSUME k + 1 <= n, NEW st \in C PROVE after[k + 1][st] = g[k + 1][st]
    OBVIOUS
  <2>2. k \in Nat /\ k + 1 \in 0 .. n /\ k + 1 # 0 /\ (k + 1) - 1 = k /\ k <= n
    BY <1>1, <2>1
  <2>3. \A s \in C : after[k][s] = g[k][s]
    BY <2>2
  <2>4. NextSegmentFile(directory, suffix, st) \in C
    BY NextTyped DEF C
  <2>5. after[k + 1][st] = value(after, k + 1, st) /\ g[k + 1][st] = value(g, k + 1, st)
    BY <1>4, <1>7, <2>1, <2>2
  <2> QED
    BY <2>2, <2>3, <2>4, <2>5
<1>10. H = Nat
  <2>1. H \in SUBSET Nat
    OBVIOUS
  <2> HIDE DEF H
  <2> QED
    BY <1>8, <1>9, <2>1, Induction
<1>11. FirstIdentifier(suffix) \in C
  BY FirstTyped DEF C
<1>12. after[n][FirstIdentifier(suffix)] = g[n][FirstIdentifier(suffix)]
  <2>1. n \in H /\ n <= n
    BY <1>1, <1>10
  <2> QED
    BY <1>11, <2>1
<1> QED
  BY <1>2, <1>3, <1>12, Zenon DEF n

(* Counting finds the files up to one that is not there or that is past    *)
(* the capacity.                                                           *)
LEMMA CountsUpTo ==
  ASSUME NEW directory, NEW first \in directory, StartsSet(first),
         NEW stop \in Nat, first.number < stop,
         \A n \in first.number + 1 .. stop - 1 :
           n <= Capacity(first) /\ Member(first, n) \in directory,
         ~ (stop <= Capacity(first) /\ Member(first, stop) \in directory),
         stop <= Capacity(first) + 1 \/ (first.schema = "x_of_n" /\ stop = first.number + 1)
  PROVE  /\ CountedUp(directory, first).found = FilesTo(first, stop - 1)
         /\ CountedUp(directory, first).id = stop - 1
         /\ CountedUp(directory, first).maximum = MaximumAt(first, stop - 1)
<1> DEFINE a == first.number
           C == CountingIn(directory)
           rounds == Rounds(first)
           Reached(st) == /\ st.found = FilesTo(first, stop - 1) /\ st.id = stop - 1
                          /\ st.maximum = MaximumAt(first, stop - 1)
           On(st, id) == CountedTo(st, first, id) /\ st.found = FilesTo(first, id)
<1>1. /\ Numbered(first) /\ a \in Nat /\ a \in {0, 1} /\ Capacity(first) \in Nat
      /\ first.schema \in {"numeric", "split", "x_of_n"} /\ (first.schema = "split" => a = 0)
  BY CapacityTyped, NumberedTyped DEF StartsSet
<1>2. PICK after : /\ IsCounting(after, rounds, directory, first)
                   /\ CountedUp(directory, first) = after[rounds][FirstIdentifier(first)]
  BY <1>1, CountedUpIs, Zenon
<1>3. \A k \in 0 .. rounds : \A st \in C :
        after[k][st] = IF k = 0 \/ st.done THEN st
                       ELSE after[k - 1][NextSegmentFile(directory, first, st)]
  BY <1>2, Zenon DEF IsCounting
<1>4. FirstIdentifier(first) \in C /\ On(FirstIdentifier(first), a)
  <2> DEFINE st == FirstIdentifier(first)
             able == first.schema # "split" /\ first.length = 1
  <2>1. /\ st \in C /\ st.found = <<first>>
        /\ st.id = IF first.schema = "split" THEN 0 ELSE a % Radix
    BY <1>1, FirstTyped
  <2>2. a < Radix /\ a % Radix = a /\ a < R3
    BY <1>1, Limits, Modulo
  <2>3. st.id = a
    BY <1>1, <2>1, <2>2
  <2>4. /\ st.length = first.length /\ st.maximum = MaximumSegmentFileIdentifier(first)
        /\ st.expandable = able /\ st.expansions = 2 /\ st.expand = FALSE /\ st.done = FALSE
    BY DEF FirstIdentifier
  <2> HIDE DEF st
  <2>5. LengthOf(first, a) = first.length /\ Member(first, a) = first
    BY FirstMember
  <2>6. st.maximum = MaximumAt(first, a)
    BY <1>1, <2>2, <2>4, CapacityTyped DEF MaximumAt, Grows
  <2>7. Digits(a) = 1
    BY <1>1, <2>2, DigitsOf
  <2>8. a + 1 \notin {Radix, R2, R3}
    BY <1>1, Limits
  <2>9. st.expandable <=> Grows(first)
    BY <2>4 DEF Grows
  <2>10. CountedTo(st, first, a)
    BY <2>3, <2>4, <2>5, <2>6, <2>7, <2>8, <2>9 DEF CountedTo
  <2>11. FilesTo(first, a) = <<first>>
    <3>1. a - first.number + 1 = 1 /\ first.number + 1 - 1 = a
      BY <1>1
    <3>2. FilesTo(first, a) = [k \in 1 .. 1 |-> Member(first, first.number + k - 1)]
      BY <3>1 DEF FilesTo
    <3>3. FilesTo(first, a) = [k \in 1 .. 1 |-> first]
      BY <2>5, <3>1, <3>2
    <3> QED
      BY <3>3
  <2> QED
    BY <2>1, <2>10, <2>11 DEF st
<1>5. rounds \in Nat /\ stop - a <= rounds
  <2>1. rounds \in Nat /\ rounds >= R3 /\ rounds = R3 + MaximumSegmentFileIdentifier(first)
        /\ MaximumSegmentFileIdentifier(first) \in Nat
    BY <1>1, RoundsTyped
  <2>2. CASE Grows(first)
    BY <1>1, <2>1, <2>2, CapacityTyped, Limits
  <2>3. CASE ~ Grows(first)
    BY <1>1, <2>1, <2>3, CapacityTyped, Limits
  <2> QED
    BY <2>2, <2>3
<1> HIDE DEF C, rounds, a
<1> DEFINE H == {k \in Nat : k <= rounds =>
                   \A st \in C : \A id \in a .. stop - 1 :
                     On(st, id) /\ stop - id <= k => Reached(after[k][st])}
<1>6. 0 \in H
  <2>1. ASSUME NEW id \in a .. stop - 1 PROVE ~ (stop - id <= 0)
    BY <1>1 DEF a
  <2> QED
    BY <2>1
<1>7. ASSUME NEW k \in H PROVE k + 1 \in H
  <2>0. SUFFICES ASSUME k + 1 <= rounds
                 PROVE  \A st \in C : \A id \in a .. stop - 1 :
                          On(st, id) /\ stop - id <= k + 1 => Reached(after[k + 1][st])
    <3>1. k + 1 \in Nat
      OBVIOUS
    <3> HIDE DEF On, Reached
    <3> QED
      BY <3>1
  <2>1. SUFFICES ASSUME NEW st \in C, NEW id \in a .. stop - 1, On(st, id), stop - id <= k + 1
                 PROVE  Reached(after[k + 1][st])
    OBVIOUS
  <2> DEFINE next == NextSegmentFile(directory, first, st)
  <2>2. /\ k \in Nat /\ k <= rounds /\ k \in 0 .. rounds /\ k + 1 \in 0 .. rounds
        /\ k + 1 # 0 /\ (k + 1) - 1 = k /\ id \in Nat /\ a <= id
    BY <1>1, <1>5, <2>0, <2>1 DEF a
  <2>3. ~ st.done /\ CountedTo(st, first, id) /\ st.found = FilesTo(first, id)
        /\ st.id = id /\ st.maximum = MaximumAt(first, id)
    BY <2>1 DEF CountedTo
  <2>4. after[k + 1][st] = after[k][next]
    BY <1>3, <2>1, <2>2, <2>3
  <2>5. id <= Capacity(first) \/ first.schema = "x_of_n"
    BY <1>1, <2>1, <2>2
  <2>6. IF id + 1 <= Capacity(first) /\ Member(first, id + 1) \in directory
        THEN /\ next \in C /\ CountedTo(next, first, id + 1)
             /\ next.found = Append(st.found, Member(first, id + 1))
        ELSE next = [st EXCEPT !.done = TRUE]
    <3>1. next = NextSegmentFile(directory, first, st)
      OBVIOUS
    <3> HIDE DEF next
    <3>2. st \in CountingIn(directory)
      BY <2>1 DEF C
    <3> QED
      BY <2>2, <2>3, <2>5, <3>1, <3>2, NextFound, Zenon DEF C
  <2> HIDE DEF next
  <2>7. CASE id + 1 < stop
    <3>1. id + 1 \in first.number + 1 .. stop - 1 /\ id + 1 \in a .. stop - 1
      BY <1>1, <2>1, <2>2, <2>7 DEF a
    <3>2. id + 1 <= Capacity(first) /\ Member(first, id + 1) \in directory
      BY <3>1
    <3>3. FilesTo(first, id + 1) = Append(FilesTo(first, id), Member(first, id + 1))
      BY <1>1, <2>2, FilesToNext DEF a
    <3>4. next \in C /\ On(next, id + 1)
      BY <2>3, <2>6, <3>2, <3>3
    <3>5. stop - (id + 1) <= k
      BY <2>1, <2>2
    <3>6. \A s \in C : \A i \in a .. stop - 1 : On(s, i) /\ stop - i <= k => Reached(after[k][s])
      BY <2>2
    <3> HIDE DEF On, Reached
    <3>7. Reached(after[k][next])
      BY <3>1, <3>4, <3>5, <3>6
    <3> QED
      BY <2>4, <3>7
  <2>8. CASE ~ (id + 1 < stop)
    <3>1. id + 1 = stop /\ id = stop - 1
      BY <1>1, <2>1, <2>2, <2>8 DEF a
    <3>2. next = [st EXCEPT !.done = TRUE]
      BY <2>6, <3>1
    <3>3. next \in C /\ next.done /\ next.found = st.found /\ next.id = st.id
          /\ next.maximum = st.maximum
      BY <2>1, <3>2 DEF C, CountingIn
    <3>4. after[k][next] = next
      BY <1>3, <2>2, <3>3
    <3> QED
      BY <2>3, <2>4, <3>1, <3>3, <3>4
  <2> QED
    BY <2>7, <2>8
<1>8. H = Nat
  <2>1. H \in SUBSET Nat
    OBVIOUS
  <2> HIDE DEF H
  <2> QED
    BY <1>6, <1>7, <2>1, Induction
<1>9. Reached(after[rounds][FirstIdentifier(first)])
  <2>1. a \in a .. stop - 1 /\ rounds <= rounds
    BY <1>1, <1>5 DEF a
  <2>2. \A st \in C : \A id \in a .. stop - 1 :
          On(st, id) /\ stop - id <= rounds => Reached(after[rounds][st])
    <3>1. rounds \in H
      BY <1>5, <1>8
    <3> QED
      BY <2>1, <3>1
  <2> HIDE DEF On, Reached
  <2> QED
    BY <1>4, <1>5, <2>1, <2>2
<1> QED
  BY <1>2, <1>9

(* The first file found stays the first.                                   *)
LEMMA FirstIsKept ==
  ASSUME NEW directory, NEW suffix \in directory, Numbered(suffix)
  PROVE  /\ CountedUp(directory, suffix).found # << >>
         /\ CountedUp(directory, suffix).found[1] = suffix
<1> DEFINE C == CountingIn(directory)
           n == Rounds(suffix)
           Kept(st) == st.found # << >> /\ st.found[1] = suffix
<1>1. PICK after : /\ IsCounting(after, n, directory, suffix)
                   /\ CountedUp(directory, suffix) = after[n][FirstIdentifier(suffix)]
  BY CountedUpIs, Zenon
<1>2. \A k \in 0 .. n : \A st \in C :
        after[k][st] = IF k = 0 \/ st.done THEN st
                       ELSE after[k - 1][NextSegmentFile(directory, suffix, st)]
  BY <1>1, Zenon DEF IsCounting
<1>3. n \in Nat
  BY RoundsTyped
<1>4. FirstIdentifier(suffix) \in C /\ Kept(FirstIdentifier(suffix))
  <2>1. FirstIdentifier(suffix) \in C /\ FirstIdentifier(suffix).found = <<suffix>>
    BY FirstTyped
  <2>2. <<suffix>> # << >> /\ <<suffix>>[1] = suffix
    OBVIOUS
  <2> HIDE DEF C
  <2> QED
    BY <2>1, <2>2
<1>5. ASSUME NEW st \in C, Kept(st)
      PROVE  /\ NextSegmentFile(directory, suffix, st) \in C
             /\ Kept(NextSegmentFile(directory, suffix, st))
  BY <1>5, NextTyped
<1> HIDE DEF n, C, Kept
<1> DEFINE H == {k \in Nat : k <= n => \A st \in C : Kept(st) => Kept(after[k][st])}
<1>6. 0 \in H
  BY <1>2, <1>3
<1>7. ASSUME NEW k \in H PROVE k + 1 \in H
  <2>1. SUFFICES ASSUME k + 1 <= n, NEW st \in C, Kept(st) PROVE Kept(after[k + 1][st])
    OBVIOUS
  <2>2. k \in Nat /\ k + 1 \in 0 .. n /\ k + 1 # 0 /\ (k + 1) - 1 = k /\ k <= n
    BY <1>3, <2>1
  <2>3. \A s \in C : Kept(s) => Kept(after[k][s])
    BY <2>2
  <2>4. after[k + 1][st] = IF st.done THEN st ELSE after[k][NextSegmentFile(directory, suffix, st)]
    BY <1>2, <2>1, <2>2
  <2> QED
    BY <1>5, <2>1, <2>3, <2>4
<1>8. H = Nat
  <2>1. H \in SUBSET Nat
    OBVIOUS
  <2> HIDE DEF H
  <2> QED
    BY <1>6, <1>7, <2>1, Induction
<1>9. Kept(after[n][FirstIdentifier(suffix)])
  <2>1. n \in H /\ n <= n
    BY <1>3, <1>8
  <2> QED
    BY <1>4, <2>1
<1> QED
  BY <1>1, <1>9, Zenon DEF Kept

(* The set is the files up to the first that is missing.                   *)
LEMMA TheSetIs ==
  ASSUME NEW directory, NEW first \in directory, StartsSet(first), first.number <= Capacity(first)
  PROVE  \E stop \in Nat :
           /\ first.number < stop /\ stop <= Capacity(first) + 1
           /\ \A n \in first.number + 1 .. stop - 1 :
                n <= Capacity(first) /\ Member(first, n) \in directory
           /\ ~ (stop <= Capacity(first) /\ Member(first, stop) \in directory)
           /\ TheSet(directory, first) = FilesTo(first, stop - 1)
<1> DEFINE a == first.number  c == Capacity(first)
           missing == {n \in a .. c : Member(first, n) \notin directory}
           some == missing \cup {c + 1}
           stop == Min(some)
<1>1. a \in Nat /\ c \in Nat /\ a <= c
  BY CapacityTyped, NumberedTyped DEF StartsSet
<1> HIDE DEF c, a
<1>2. some \in SUBSET Nat /\ some # {}
  BY <1>1
<1>3. stop \in some /\ \A y \in some : stop <= y
  <2> HIDE DEF some
  <2> QED
    BY <1>2, MinOfSome
<1>4. TheSet(directory, first) = [k \in 1 .. stop - a |-> Member(first, a + k - 1)]
  BY Zenon DEF TheSet, a, c
<1> HIDE DEF stop
<1>5. stop \in Nat /\ a <= stop /\ stop <= c + 1
  BY <1>1, <1>3
<1>6. a # stop
  <2>1. Member(first, a) \in directory
    BY FirstMember DEF a
  <2> QED
    BY <1>1, <1>3, <2>1
<1>7. \A n \in a + 1 .. stop - 1 : n <= c /\ Member(first, n) \in directory
  <2> TAKE n \in a + 1 .. stop - 1
  <2>1. n \in a .. c /\ n \notin some
    BY <1>1, <1>3, <1>5
  <2> QED
    BY <1>1, <2>1
<1>8. ~ (stop <= c /\ Member(first, stop) \in directory)
  BY <1>1, <1>3, <1>5
<1>9. TheSet(directory, first) = FilesTo(first, stop - 1)
  <2>1. (stop - 1) - a + 1 = stop - a
    BY <1>1, <1>5
  <2> QED
    BY <1>4, <2>1 DEF FilesTo, a
<1> QED
  BY <1>1, <1>5, <1>6, <1>7, <1>8, <1>9 DEF a, c

(* What is found from the first file of a set is the set.                  *)
LEMMA FoundIsTheSet ==
  ASSUME NEW directory, NEW first \in directory, StartsSet(first),
         SegmentFilesFrom(directory, first).result = "ok"
  PROVE  /\ SegmentFilesFrom(directory, first).filenames = TheSet(directory, first)
         /\ first.schema = "x_of_n" =>
              Len(SegmentFilesFrom(directory, first).filenames) = first.of + 1 - first.number
<1> DEFINE last == CountedUp(directory, first)
<1>1. /\ first.schema \in {"numeric", "split", "x_of_n"} /\ first.number \in Nat
      /\ Capacity(first) \in Nat /\ (first.schema # "x_of_n" => first.number <= Capacity(first))
      /\ (first.schema = "x_of_n" => first.of = Capacity(first))
  BY CapacityTyped, NumberedTyped DEF StartsSet, Capacity
<1>2. SegmentFilesFrom(directory, first)
        = IF first.schema = "x_of_n" /\ last.id # last.maximum THEN Failed ELSE Found(last.found)
  BY <1>1 DEF SegmentFilesFrom
<1>3. /\ SegmentFilesFrom(directory, first).filenames = last.found
      /\ first.schema = "x_of_n" => last.id = last.maximum
  <2> HIDE DEF last
  <2> QED
    BY <1>2 DEF Failed, Found
<1>4. first.schema = "x_of_n" => \A id : MaximumAt(first, id) = Capacity(first)
  BY DEF MaximumAt
<1>5. CASE first.number > Capacity(first)
  <2> DEFINE stop == first.number + 1
  <2>1. first.schema = "x_of_n"
    BY <1>1, <1>5
  <2>2. /\ stop \in Nat /\ first.number < stop /\ ~ (stop <= Capacity(first))
        /\ stop = first.number + 1 /\ stop - 1 = first.number
        /\ \A n \in first.number + 1 .. stop - 1 : FALSE
    BY <1>1, <1>5
  <2> HIDE DEF stop
  <2>3. last.id = stop - 1 /\ last.maximum = MaximumAt(first, stop - 1)
    BY <2>1, <2>2, CountsUpTo
  <2> QED
    BY <1>1, <1>3, <1>4, <1>5, <2>1, <2>2, <2>3
<1>6. CASE first.number <= Capacity(first)
  <2>1. PICK stop \in Nat :
           /\ first.number < stop /\ stop <= Capacity(first) + 1
           /\ \A n \in first.number + 1 .. stop - 1 :
                n <= Capacity(first) /\ Member(first, n) \in directory
           /\ ~ (stop <= Capacity(first) /\ Member(first, stop) \in directory)
           /\ TheSet(directory, first) = FilesTo(first, stop - 1)
    BY <1>6, TheSetIs
  <2>2. /\ last.found = FilesTo(first, stop - 1) /\ last.id = stop - 1
        /\ last.maximum = MaximumAt(first, stop - 1)
    BY <2>1, CountsUpTo
  <2> HIDE DEF last
  <2>3. ASSUME first.schema = "x_of_n"
        PROVE  Len(last.found) = first.of + 1 - first.number
    <3>1. stop - 1 = Capacity(first) /\ first.of = Capacity(first)
      BY <1>1, <1>3, <1>4, <2>2, <2>3
    <3>2. stop - 1 \in Nat /\ first.number <= stop - 1
      BY <1>1, <2>1
    <3>3. Len(FilesTo(first, stop - 1)) = (stop - 1) - first.number + 1
      BY <1>1, <3>2, FilesToNext
    <3> QED
      BY <1>1, <2>2, <3>1, <3>3
  <2> QED
    BY <1>3, <2>1, <2>2, <2>3
<1> QED
  BY <1>1, <1>5, <1>6

(* The file a glob starts with is there.                                   *)
LEMMA ExistingIsThere ==
  ASSUME NEW directory, NEW suffix
  PROVE  LET first == ExistingSegmentFile(directory, suffix) IN
         first = << >> \/ \E s \in directory : first = <<s>>
<1> DEFINE there == {n \in DOMAIN SuffixesTried : SuffixesTried[n] \in directory}
<1>1. ExistingSegmentFile(directory, suffix)
        = IF suffix \in directory THEN <<suffix>>
          ELSE IF suffix # NoSuffix THEN << >>
          ELSE IF there = {} THEN << >> ELSE <<SuffixesTried[Min(there)]>>
  BY Zenon DEF ExistingSegmentFile
<1>2. there # {} => SuffixesTried[Min(there)] \in directory
  <2>1. there \in SUBSET Nat
    <3>1. DOMAIN SuffixesTried = 1 .. 14
      BY DEF SuffixesTried
    <3> QED
      BY <3>1
  <2>2. there # {} => Min(there) \in there
    <3> HIDE DEF there
    <3> QED
      BY <2>1, MinOfSome
  <2> QED
    BY <2>2
<1> HIDE DEF there
<1> QED
  BY <1>1, <1>2

(* What a glob that succeeds finds is the set of the first file.           *)
LEMMA GlobIsTheSet ==
  ASSUME NEW directory, WellNamed(directory), NEW suffix,
         NEW glob \in Glob(directory, suffix), glob.result = "ok", glob.filenames # << >>,
         NEW first, first = glob.filenames[1],
         NamingSchema(first) \in {"numeric", "split", "x_of_n"}, first.number \in {0, 1}
  PROVE  /\ glob.filenames = TheSet(directory, first)
         /\ first.schema = "x_of_n" => Len(glob.filenames) = first.of + 1 - first.number
<1> DEFINE there == ExistingSegmentFile(directory, suffix)
<1>1. Glob(directory, suffix)
        = IF there = << >> THEN {Found(<< >>)}
          ELSE IF NamingSchema(there[1]) = "unknown" THEN {Failed, Found(there)}
          ELSE {SegmentFilesFrom(directory, there[1])}
  BY Zenon DEF Glob
<1>2. there = << >> \/ \E s \in directory : there = <<s>>
  BY ExistingIsThere
<1> HIDE DEF there
<1>3. there # << >>
  BY <1>1 DEF Found
<1>4. PICK s \in directory : there = <<s>> /\ there[1] = s
  BY <1>2, <1>3
<1>5. NamingSchema(s) # "unknown"
  <2>1. ASSUME NamingSchema(s) = "unknown" PROVE FALSE
    <3>1. glob = Failed \/ glob = Found(there)
      BY <1>1, <1>3, <1>4, <2>1
    <3>2. glob.filenames = there
      BY <3>1 DEF Failed, Found
    <3> QED
      BY <1>4, <2>1, <3>2
  <2> QED
    BY <2>1
<1>6. glob = SegmentFilesFrom(directory, s)
  BY <1>1, <1>3, <1>4, <1>5
<1>7. s.schema # "single"
  <2>1. ASSUME s.schema = "single" PROVE FALSE
    <3>1. glob.filenames = <<s>>
      BY <1>6, <2>1 DEF SegmentFilesFrom, Found
    <3>2. NamingSchema(first) = "single"
      BY <2>1, <3>1 DEF NamingSchema
    <3> QED
      BY <3>2
  <2> QED
    BY <2>1
<1>8. s.schema \in {"numeric", "split", "x_of_n"} /\ (s.schema = "split" => s.number = 0)
  BY <1>5, <1>7 DEF NamingSchema
<1>9. Numbered(s)
  BY <1>8 DEF WellNamed
<1>10. first = s
  <2> DEFINE last == CountedUp(directory, s)
  <2>1. SegmentFilesFrom(directory, s)
          = IF s.schema = "x_of_n" /\ last.id # last.maximum THEN Failed ELSE Found(last.found)
    BY <1>7 DEF SegmentFilesFrom
  <2>2. last.found[1] = s
    BY <1>9, FirstIsKept
  <2> HIDE DEF last
  <2> QED
    BY <1>6, <2>1, <2>2 DEF Failed, Found
<1>11. StartsSet(s)
  BY <1>8, <1>9, <1>10 DEF StartsSet
<1> QED
  BY <1>6, <1>10, <1>11, FoundIsTheSet

(* What was opened is what a glob found.                                   *)
Opened ==
  At({"open_log", "initialize_hash"}) =>
    \E glob \in Globbed : glob.result = "ok" /\ glob.filenames # << >>
                          /\ verify.filenames = glob.filenames

LEMMA StepOpened ==
  ASSUME IInv, Opened, [Next]_vars
  PROVE  Opened'
<1>1. input' = input
  BY StepInput
<1>2. Globbed' = Globbed
  BY <1>1 DEF Globbed
<1>3. CASE OpenInput
  BY <1>2, <1>3 DEF OpenInput, Opened
<1>4. CASE OpenLog
  <2>1. verify' = verify /\ At({"open_log"})
    BY <1>4 DEF OpenLog
  <2> QED
    BY <1>2, <2>1 DEF Opened, At
<1>5. CASE SignalHandler \/ UNCHANGED vars
  <2>1. verify' = verify /\ program' = program
    BY <1>5 DEF SignalHandler, vars
  <2> QED
    BY <1>2, <2>1 DEF Opened, At
<1>6. CASE Main /\ ~ OpenInput /\ ~ OpenLog
  <2>1. ProgramTyped
    BY DEF IInv, Typed
  <2> USE DEF GoesTo, AfterVerify, ProgramTyped
  <2> DEFINE Past == program'.step \notin {"open_log", "initialize_hash"}
  <2>3. ASSUME SignalAttach PROVE Past
    BY <2>1, <2>3 DEF SignalAttach
  <2>4. ASSUME InitializeIntegrityHash PROVE Past
    BY <2>1, <2>4 DEF InitializeIntegrityHash
  <2>5. ASSUME ReadBuffer PROVE Past
    BY <2>1, <2>5 DEF ReadBuffer, Reads
  <2>6. ASSUME UpdateIntegrityHash PROVE Past
    BY <2>1, <2>6 DEF UpdateIntegrityHash
  <2>7. ASSUME CheckAbort PROVE Past
    BY <2>1, <2>7 DEF CheckAbort
  <2>8. ASSUME FinalizeIntegrityHash PROVE Past
    BY <2>1, <2>8 DEF FinalizeIntegrityHash
  <2>9. ASSUME PrintHashes PROVE Past
    BY <2>1, <2>9 DEF PrintHashes
  <2>10. ASSUME PrintHashesInLog PROVE Past
    BY <2>1, <2>10 DEF PrintHashesInLog
  <2>11. ASSUME VerifyFails PROVE Past
    BY <2>1, <2>11 DEF VerifyFails
  <2>12. ASSUME CloseLog PROVE Past
    BY <2>1, <2>12 DEF CloseLog
  <2>13. ASSUME SignalDetach PROVE Past
    BY <2>1, <2>13 DEF SignalDetach
  <2>14. ASSUME Close PROVE Past
    BY <2>1, <2>14 DEF Close
  <2>15. ASSUME Free PROVE Past
    BY <2>1, <2>15 DEF Free
  <2>16. ASSUME Forget PROVE Past
    BY <2>1, <2>16 DEF Forget
  <2>17. ASSUME Exit PROVE Past
    BY <2>1, <2>17 DEF Exit
  <2>18. ASSUME Fails PROVE Past
    BY <2>1, <2>18 DEF Fails
  <2>2. Past
    BY <1>6, <2>3, <2>4, <2>5, <2>6, <2>7, <2>8, <2>9, <2>10,
       <2>11, <2>12, <2>13, <2>14, <2>15, <2>16, <2>17, <2>18 DEF Main
  <2> QED
    BY <2>2 DEF Opened, At
<1> QED
  BY <1>3, <1>4, <1>5, <1>6 DEF Next

(* A name that starts a set, or the part before the suffix, finds the set, *)
(* with any base to count in, in every directory whose names are numbered  *)
(* within the digits there is room for.                                    *)
THEOREM GlobAlwaysFindsTheSet ==
  ASSUME WellNumbered
  PROVE  Spec => []GlobFindsTheSet
<1>1. Init => Opened
  BY DEF Init, Opened, At
<1>2. IInv /\ Opened => GlobFindsTheSet
  <2> SUFFICES ASSUME IInv, Opened, Len(input.arguments) = 1, At({"initialize_hash"}),
                      NEW first, first = verify.filenames[1],
                      NamingSchema(first) \in {"numeric", "split", "x_of_n"},
                      first.number \in {0, 1}
               PROVE  /\ verify.filenames = TheSet(input.directory, first)
                      /\ first.schema = "x_of_n" =>
                           Len(verify.filenames) = first.of + 1 - first.number
    BY Zenon DEF GlobFindsTheSet
  <2>1. PICK glob \in Globbed : glob.result = "ok" /\ glob.filenames # << >>
                                /\ verify.filenames = glob.filenames
    BY Zenon DEF Opened, At
  <2>2. glob \in Glob(input.directory, input.arguments[1])
    BY <2>1 DEF Globbed
  <2>3. WellNamed(input.directory)
    BY DEF IInv, Typed, InputTyped, WellNumbered
  <2> QED
    BY <2>1, <2>2, <2>3, GlobIsTheSet
<1>3. IInv /\ Opened /\ [Next]_vars => Opened'
  BY StepOpened
<1> QED
  BY SpecIInv, <1>1, <1>2, <1>3, PTL DEF Spec
=============================================================================
