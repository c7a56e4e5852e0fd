---------------------------- MODULE MCVerification ----------------------------
(***************************************************************************)
(* Values of the constants of Verification for TLC: counting by threes,    *)
(* and by two letters, so that sets reach and pass every limit.            *)
(***************************************************************************)
EXTENDS Verification, Integers

NumericSet(length, numbers) ==
  {Member(Numeric(TRUE, length, 0), n) : n \in numbers}

(* Sets of every schema; up to the last number that is looked for, and one *)
(* beyond; with one missing; and a set beside the single file of another   *)
(* image.                                                                  *)
SomeDirectories ==
  {{}, {Single("dd")}, {NoSuffix}, {Unknown}}
  \cup {NumericSet(1, 0 .. n) : n \in {0, 2, 9, 19}}
  \cup {NumericSet(1, 1 .. n) : n \in {1, 4}}
  \cup {NumericSet(2, 0 .. 8), NumericSet(2, {0, 1, 3}), NumericSet(3, 1 .. 4)}
  \cup {{Split(FALSE, 2, n) : n \in 0 .. k} : k \in {0, 2, 3, 4}}
  \cup {{Member(XOfN(1, 1, m), n) : n \in 1 .. m} \ {Member(XOfN(1, 1, m), k)} :
          m \in {2, 4}, k \in {0, 1, 2, 4}}
  \cup {{Single("raw")} \cup NumericSet(3, 0 .. 2)}

(* The stem, any one file, or the first files in the wrong order.          *)
SomeArguments(directory) ==
  {<<NoSuffix>>}
  \cup {<<s>> : s \in {s \in directory : s.schema \in {"none", "unknown", "single"}
                                          \/ s.number \in {0, 1, 2}}}
  \cup {<<Numeric(TRUE, 1, 1), Numeric(TRUE, 1, 0)>>}

(* The hypothesis of the theorem about glob holds of these.                *)
ASSUME WellNumbered
===============================================================================
