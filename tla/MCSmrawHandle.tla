--------------------------- MODULE MCSmrawHandle ---------------------------
(***************************************************************************)
(* Values of the constants of SmrawHandle for TLC.                         *)
(***************************************************************************)
EXTENDS SmrawHandle, TLC

(* A program that opens its handle in whatever mode, and a read-only one.  *)
AnyAndReader == {AccessModes, {"read"}}

(* The tools: a handle is opened for writing or for reading, never both.   *)
ReaderOrWriter == {{"read"}, {"write"}}

(* Everything that can fail outside the library may fail; or only what a   *)
(* program can try again.                                                  *)
AllFaults == FaultNames
Retryable == {"pool open", "info create"}

(* Which image is which makes no difference.                               *)
StemSymmetry == Permutations(Stems)
=============================================================================
