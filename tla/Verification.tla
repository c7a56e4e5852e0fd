---------------------------- MODULE Verification ----------------------------
(***************************************************************************)
(* smrawverify: the files of an image are found and opened, the media is   *)
(* read to its end, and the hashes of what was read are printed.  A signal *)
(* may come at any time and asks for all of it to stop.                    *)
(*                                                                         *)
(* Every file holds one byte, which is its name.  A hash is the sequence   *)
(* of the bytes it was calculated over.                                    *)
(***************************************************************************)
EXTENDS SegmentGlob

CONSTANTS
  Directories,         \* the directories there may be, as sets of suffixes
  Asked(_),            \* the arguments the program may be given for one
  ProcessBufferSizes,  \* 0 for the default
  DefaultBufferSize,   \* 32768 in the code
  DigestTypes,         \* the types of hash besides the one always calculated
  Nothing              \* no hash was printed

ASSUME VerificationAssumptions ==
  /\ ProcessBufferSizes \subseteq Nat /\ DefaultBufferSize \in Nat \ {0}
  /\ \A directory \in Directories : Nothing \notin Seq(directory)

VARIABLES
  input,    \* the directory, the arguments and the options of the program
  program,  \* where main is, how the verification ended and the program, the
            \* verification handle ("live", "freed" but not yet forgotten, or
            \* "none"), whether the log is open, and what was printed in it and
            \* on the screen; history: an error ended main early
  verify,   \* the input handle and the locals of verify_input; history: the
            \* buffers read since the handle was told to abort
  told      \* whether signals are handled, smrawverify_abort, the abort of the
            \* handle; history: a signal found the handle freed

vars == <<input, program, verify, told>>

Digests == {"md5"} \cup input.digests

At(steps) == program.step \in steps

GoesTo(step) == program' = [program EXCEPT !.step = step]

VerifySteps == {"initialize_hash", "read", "update", "check", "finalize", "print", "print_log"}

-----------------------------------------------------------------------------
(* Opening the input.                                                      *)

(* Attaching may fail, and the program then goes on without.               *)
SignalAttach ==
  /\ At({"attach"})
  /\ GoesTo("open")
  /\ \E attached \in BOOLEAN : told' = [told EXCEPT !.attached = attached]
  /\ UNCHANGED <<input, verify>>

(* The files of one argument are looked for; several are taken as they     *)
(* come.                                                                   *)
Globbed ==
  IF Len(input.arguments) = 1 THEN Glob(input.directory, input.arguments[1])
  ELSE {Found(input.arguments)}

OpenInput ==
  /\ At({"open"})
  /\ \E glob \in Globbed :
       /\ glob.result = "ok" /\ glob.filenames # << >>
       /\ glob.filenames \in Seq(input.directory)
       /\ verify' = [verify EXCEPT !.filenames = glob.filenames]
  /\ GoesTo(IF input.log THEN "open_log" ELSE "initialize_hash")
  /\ UNCHANGED <<input, told>>

OpenLog ==
  /\ At({"open_log"})
  /\ program' = [program EXCEPT !.step = "initialize_hash", !.logOpen = TRUE]
  /\ UNCHANGED <<input, verify, told>>

-----------------------------------------------------------------------------
(* verification_handle_verify_input.                                       *)

MediaSize == Len(verify.filenames)

InitializeIntegrityHash ==
  /\ At({"initialize_hash"})
  /\ GoesTo(IF MediaSize > 0 THEN "read" ELSE "finalize")
  /\ verify' = [verify EXCEPT !.contexts = Digests]
  /\ UNCHANGED <<input, told>>

ReadSize ==
  LET size == IF input.size = 0 THEN DefaultBufferSize ELSE input.size
      rest == MediaSize - verify.count
  IN  IF rest < size THEN rest ELSE size

Reads(count, counted) ==
  /\ At({"read"})
  /\ GoesTo("update")
  /\ verify' = [verify EXCEPT
       !.buffer    = SubSeq(verify.filenames, verify.count + 1, verify.count + count),
       !.count     = @ + counted,
       !.readsLate = IF told.handleAbort THEN @ + 1 ELSE @]
  /\ UNCHANGED <<input, told>>

(* Broken: counts what was asked for, not what was read.                   *)
ReadBufferCountsAll == \E count \in 1 .. ReadSize : Reads(count, ReadSize)

(* Broken: a read that gives nothing is no error.                          *)
ReadBufferAcceptsNone == \E count \in 0 .. ReadSize : Reads(count, count)

(* A read may give less than was asked for (nothing at all is an error).   *)
ReadBuffer == \E count \in 1 .. ReadSize : Reads(count, count)

UpdateIntegrityHash ==
  /\ At({"update"})
  /\ GoesTo("check")
  /\ verify' = [verify EXCEPT !.hashed = @ \o verify.buffer, !.buffer = << >>]
  /\ UNCHANGED <<input, told>>

(* Broken: only the end of the media ends the loop.                        *)
CheckAbortNot ==
  /\ At({"check"})
  /\ GoesTo(IF verify.count >= MediaSize THEN "finalize" ELSE "read")
  /\ UNCHANGED <<input, verify, told>>

CheckAbort ==
  /\ At({"check"})
  /\ GoesTo(IF told.handleAbort \/ verify.count >= MediaSize THEN "finalize" ELSE "read")
  /\ UNCHANGED <<input, verify, told>>

(* The contexts are freed as their hashes are finalized.                   *)
FinalizeIntegrityHash ==
  /\ At({"finalize"})
  /\ GoesTo("print")
  /\ verify' = [verify EXCEPT !.contexts = {}]
  /\ UNCHANGED <<input, told>>

AfterVerify == IF program.logOpen THEN "close_log" ELSE "detach"

(* Broken: the hashes are printed of what was read until an abort, too.    *)
PrintHashesAlways ==
  /\ At({"print"})
  /\ program' = [program EXCEPT !.printed = verify.hashed, !.result = 1,
       !.step = IF program.logOpen THEN "print_log" ELSE AfterVerify]
  /\ UNCHANGED <<input, verify, told>>

(* Nothing is printed after an abort, and verifying has succeeded.         *)
PrintHashes ==
  /\ At({"print"})
  /\ program' = IF told.handleAbort
                THEN [program EXCEPT !.step = AfterVerify, !.result = 1]
                ELSE [program EXCEPT !.printed = verify.hashed,
                                     !.step = IF program.logOpen THEN "print_log" ELSE AfterVerify,
                                     !.result = IF program.logOpen THEN @ ELSE 1]
  /\ UNCHANGED <<input, verify, told>>

PrintHashesInLog ==
  /\ At({"print_log"})
  /\ program' = [program EXCEPT !.logged = verify.hashed, !.step = AfterVerify, !.result = 1]
  /\ UNCHANGED <<input, verify, told>>

(* Verifying fails at any of its steps, with some of the hashes finalized  *)
(* or none; main goes on.                                                  *)
VerifyFails ==
  /\ At(VerifySteps)
  /\ program' = [program EXCEPT !.step = AfterVerify, !.result = -1]
  /\ \E left \in SUBSET verify.contexts :
       /\ left = verify.contexts \/ At({"finalize"})
       /\ verify' = [verify EXCEPT !.contexts = left]
  /\ UNCHANGED <<input, told>>

-----------------------------------------------------------------------------
(* The end of main.                                                        *)

CloseLog ==
  /\ At({"close_log", "error_close_log"})
  /\ program' = [program EXCEPT !.logOpen = FALSE,
                                !.step = IF @ = "close_log" THEN "detach" ELSE "error_close"]
  /\ UNCHANGED <<input, verify, told>>

(* Broken: the handler stays.                                              *)
SignalDetachNot ==
  /\ At({"detach"})
  /\ GoesTo("close")
  /\ UNCHANGED <<input, verify, told>>

(* Detaching may fail, and the program goes on.                            *)
SignalDetach ==
  /\ At({"detach"})
  /\ GoesTo("close")
  /\ \/ told' = [told EXCEPT !.attached = FALSE]
     \/ told' = [told EXCEPT !.kept = told.attached]
  /\ UNCHANGED <<input, verify>>

Close ==
  /\ At({"close", "error_close"})
  /\ GoesTo(IF program.step = "close" THEN "free" ELSE "error_free")
  /\ UNCHANGED <<input, verify, told>>

(* Broken: the contexts of a verification that failed are left.            *)
FreeLeavesContexts ==
  /\ At({"free", "error_free"})
  /\ program' = [program EXCEPT !.handle = "freed",
                                !.step = IF @ = "free" THEN "forget" ELSE "error_forget"]
  /\ UNCHANGED <<input, verify, told>>

(* Freeing the handle frees the contexts of a verification that failed, and *)
(* all else also when a part of it cannot be freed: main then ends in error.*)
Free ==
  /\ At({"free", "error_free"})
  /\ \E fails \in BOOLEAN :
       program' = [program EXCEPT !.handle = "freed",
                     !.step = IF @ = "free" /\ ~fails THEN "forget" ELSE "error_forget",
                     !.failed = @ \/ (program.step = "free" /\ fails)]
  /\ verify' = [verify EXCEPT !.contexts = {}]
  /\ UNCHANGED <<input, told>>

(* smrawverify_verification_handle is set to NULL after it was freed.      *)
Forget ==
  /\ At({"forget", "error_forget"})
  /\ program' = [program EXCEPT !.handle = "none",
                                !.step = IF @ = "forget" THEN "exit" ELSE "exited",
                                !.exit = IF program.step = "forget" THEN @ ELSE "failure"]
  /\ UNCHANGED <<input, verify, told>>

(* Broken: does not look at how the verification ended.                    *)
ExitIgnoresResult ==
  /\ At({"exit"})
  /\ program' = [program EXCEPT !.step = "exited",
                                !.exit = IF told.abort THEN "aborted" ELSE "success"]
  /\ UNCHANGED <<input, verify, told>>

Exit ==
  /\ At({"exit"})
  /\ program' = [program EXCEPT !.step = "exited",
       !.exit = CASE told.abort           -> "aborted"
                  [] program.result # 1   -> "failure"
                  [] OTHER                -> "success"]
  /\ UNCHANGED <<input, verify, told>>

(* These steps of main may fail: all that there is is closed and freed.    *)
Fails ==
  /\ At({"open", "open_log", "close_log", "close"})
  /\ program' = [program EXCEPT !.step = "error_close_log", !.failed = TRUE]
  /\ UNCHANGED <<input, verify, told>>

(* The handler tells the handle, if main has not forgotten it; it may come *)
(* between any two steps of main.                                          *)
SignalHandler ==
  /\ told.attached /\ program.step # "exited"
  /\ \E reached \in {told.handleAbort, told.handleAbort \/ program.handle = "live"} :
       told' = [told EXCEPT !.abort = TRUE, !.handleAbort = reached,
                            !.dangling = @ \/ program.handle = "freed"]
  /\ UNCHANGED <<input, program, verify>>

-----------------------------------------------------------------------------
Init ==
  /\ \E directory \in Directories :
       input \in [directory : {directory}, arguments : Asked(directory),
                  size : ProcessBufferSizes, digests : SUBSET DigestTypes, log : BOOLEAN]
  /\ program = [step |-> "attach", result |-> 0, exit |-> "none", handle |-> "live",
                logOpen |-> FALSE, printed |-> Nothing, logged |-> Nothing, failed |-> FALSE]
  /\ verify = [filenames |-> << >>, count |-> 0, buffer |-> << >>, contexts |-> {},
               hashed |-> << >>, readsLate |-> 0]
  /\ told = [attached |-> FALSE, kept |-> FALSE, abort |-> FALSE, handleAbort |-> FALSE,
             dangling |-> FALSE]

Main ==
  \/ SignalAttach \/ OpenInput \/ OpenLog
  \/ InitializeIntegrityHash \/ ReadBuffer \/ UpdateIntegrityHash \/ CheckAbort
  \/ FinalizeIntegrityHash \/ PrintHashes \/ PrintHashesInLog \/ VerifyFails
  \/ CloseLog \/ SignalDetach \/ Close \/ Free \/ Forget \/ Exit \/ Fails

Next == Main \/ SignalHandler

Spec == Init /\ [][Next]_vars

(* The program runs on, whatever signals come.                             *)
FairSpec == Spec /\ WF_vars(Main)

-----------------------------------------------------------------------------
(* The files with numbers in their names are of sets that can be counted.  *)
WellNamed(directory) ==
  \A name \in directory : name.schema \in {"numeric", "split", "x_of_n"} => Numbered(name)

WellNumbered == \A directory \in Directories : WellNamed(directory)

-----------------------------------------------------------------------------
(* Properties.                                                             *)

(* Every variable has its type; the buffer holds bytes only on the way to  *)
(* the hashes, and what is counted is what was read.                       *)
TypeOK ==
  /\ program.step \in VerifySteps \cup
       {"attach", "open", "open_log", "close_log", "detach", "close", "free", "forget", "exit",
        "error_close_log", "error_close", "error_free", "error_forget", "exited"}
  /\ program.result \in {-1, 0, 1} /\ program.handle \in {"live", "freed", "none"}
  /\ program.exit \in {"none", "success", "failure", "aborted"}
  /\ {program.logOpen, program.failed} \subseteq BOOLEAN
  /\ verify.contexts \subseteq Digests
  /\ verify.count \in 0 .. MediaSize
  /\ Len(verify.hashed) + Len(verify.buffer) = verify.count
  /\ \A flag \in DOMAIN told : told[flag] \in BOOLEAN

(* A name that starts a set, or the part before the suffix, finds the set: *)
(* all of its files, in the order of their numbers, up to the first that   *)
(* is missing or that takes more digits than are allowed for.  Of x of n   *)
(* all n are found.                                                        *)
GlobFindsTheSet ==
  Len(input.arguments) = 1 /\ At({"initialize_hash"}) =>
    LET first == verify.filenames[1] IN
    NamingSchema(first) \in {"numeric", "split", "x_of_n"} /\ first.number \in {0, 1} =>
      /\ verify.filenames = TheSet(input.directory, first)
      /\ first.schema = "x_of_n" => Len(verify.filenames) = first.of + 1 - first.number

(* The hashes that are printed, and those in the log, are of all of the    *)
(* media: each byte once and in order, whatever a read gave; none are      *)
(* printed of a part, also when a signal comes at the last moment.         *)
PrintedIsWhole ==
  /\ program.printed \in {Nothing, verify.filenames}
  /\ program.logged # Nothing => program.logged = program.printed

(* The program ends with success only when it printed the hashes, in the   *)
(* log too if there is one, and no signal came before it stopped listening.*)
SuccessMeansVerified ==
  program.exit = "success" =>
    /\ program.printed # Nothing /\ ~told.abort
    /\ input.log => program.logged # Nothing

(* However the program ends, it has freed its handle and every hash        *)
(* context, and closed the log.                                            *)
NothingLeft ==
  program.exit # "none" => program.handle = "none" /\ verify.contexts = {} /\ ~program.logOpen

(* A signal finds a handle that was freed only after an error, or when the *)
(* handler could not be detached.                                          *)
HandlerFindsHandle == told.dangling => program.failed \/ told.kept

(* After the handle is told to abort at most one more buffer is read.      *)
AbortIsPrompt == verify.readsLate <= 1

(* The program ends, however short the reads are.                          *)
Ends == <>(program.step = "exited")
=============================================================================
