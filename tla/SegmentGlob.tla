----------------------------- MODULE SegmentGlob -----------------------------
(***************************************************************************)
(* How the files of an image are found by the name of the first, or by     *)
(* the part of the names they share (libsmraw_glob).                       *)
(*                                                                         *)
(* The files of one image differ in their suffix.  A suffix is             *)
(*   [schema |-> "single",  word |-> w]                    .raw .dmg ...   *)
(*   [schema |-> "numeric", dot, length, number]           .000 .01 00 ... *)
(*   [schema |-> "split",   dot, length, number]           aa aaa          *)
(*   [schema |-> "x_of_n",  length, number, of]            .1of3           *)
(*   [schema |-> "none"]                                   no suffix       *)
(*   [schema |-> "unknown"]                                any other       *)
(* where length counts the digits or letters of the number.                *)
(***************************************************************************)
EXTENDS Integers, Sequences, FiniteSets, SequencesExt

CONSTANTS
  Radix,      \* digits to count with: 10 in the code
  Letters     \* letters to count with: 26 in the code

ASSUME SegmentGlobAssumptions == Radix \in Nat \ {0, 1, 2} /\ Letters \in Nat \ {0, 1}

Single(word) == [schema |-> "single", word |-> word]

Numeric(dot, length, number) ==
  [schema |-> "numeric", dot |-> dot, length |-> length, number |-> number]

Split(dot, length, number) ==
  [schema |-> "split", dot |-> dot, length |-> length, number |-> number]

XOfN(length, number, of) ==
  [schema |-> "x_of_n", length |-> length, number |-> number, of |-> of]

NoSuffix == [schema |-> "none"]
Unknown  == [schema |-> "unknown"]

(* The suffixes that are tried, in this order.                             *)
SuffixesTried ==
  <<Single("raw"), Single("dmg"), Single("img"), Single("dd"),
    Numeric(TRUE, 3, 0), Numeric(TRUE, 3, 1), Numeric(TRUE, 2, 0), Numeric(TRUE, 2, 1),
    Numeric(TRUE, 1, 0), Numeric(TRUE, 1, 1),
    Split(FALSE, 2, 0), Numeric(FALSE, 2, 0), Split(FALSE, 3, 0), Numeric(FALSE, 3, 0)>>

(* Which schema the name of an existing file is taken to follow: only the  *)
(* first number of a set is recognised, except of x of n.                  *)
NamingSchema(suffix) ==
  CASE suffix.schema \in {"single", "x_of_n"} -> suffix.schema
    [] suffix.schema = "numeric" /\ suffix.number \in {0, 1} -> "numeric"
    [] suffix.schema = "split"   /\ suffix.number = 0        -> "split"
    [] OTHER -> "unknown"

(* How many numbers there are of so many digits: multiplied up, a digit at *)
(* a time.                                                                 *)
Power(base, digits) ==
  LET power[n \in 0 .. digits] == IF n = 0 THEN 1 ELSE base * power[n - 1]
  IN  power[digits]

(* The number counting stops at.                                           *)
MaximumSegmentFileIdentifier(suffix) ==
  CASE suffix.schema = "numeric" -> Power(Radix, suffix.length) - 1
    [] suffix.schema = "split"   -> Power(Letters, suffix.length) - 1
    [] suffix.schema = "x_of_n"  -> suffix.of

(* Only a number of one digit may get more of them, twice.                 *)
FirstIdentifier(suffix) ==
  [id |-> IF suffix.schema = "split" THEN 0 ELSE suffix.number % Radix,
   length |-> suffix.length, maximum |-> MaximumSegmentFileIdentifier(suffix),
   expandable |-> suffix.schema # "split" /\ suffix.length = 1,
   expansions |-> 2, expand |-> FALSE, found |-> <<suffix>>, done |-> FALSE]

(* Broken: a number of one digit never gets a second.                      *)
AtLimitOfOneDigit(st, schema) == st.id + 1 > st.maximum

(* Another number is tried beyond the maximum while digits may be added;   *)
(* of x of n none is.                                                      *)
AtLimit(st, schema) ==
  /\ st.id + 1 > st.maximum
  /\ ~st.expandable \/ st.expansions = 0 \/ schema = "x_of_n"

(* A digit is added when all of the number before were the highest; the    *)
(* maximum becomes ten times what it was (90, then 900).                   *)
Expanded(st, schema) ==
  IF ~st.expand THEN st
  ELSE [st EXCEPT !.maximum = IF schema = "numeric" THEN @ * Radix ELSE @,
                  !.length = @ + 1, !.expansions = @ - 1, !.expand = FALSE]

Base(schema) == IF schema = "split" THEN Letters ELSE Radix

(* The next number of the set, and whether there is such a file.           *)
NextSegmentFile(directory, suffix, st) ==
  LET schema == suffix.schema
      grown  == Expanded([st EXCEPT !.id = @ + 1], schema)
      digits == Power(Base(schema), grown.length)
      name   == [suffix EXCEPT !.length = grown.length, !.number = grown.id % digits]
  IN  IF AtLimit(st, schema) THEN [st EXCEPT !.done = TRUE]
      ELSE IF name \notin directory THEN [st EXCEPT !.done = TRUE]
      ELSE [grown EXCEPT !.found = Append(@, name),
                         !.expand = grown.expandable /\ grown.id % digits = digits - 1]

CountingIn(directory) ==
  [id : Nat, length : Nat, maximum : Nat, expandable : BOOLEAN, expansions : Int,
   expand : BOOLEAN, found : Seq(directory), done : BOOLEAN]

(* Bound: no more than the numbers of three digits, which there is room    *)
(* for in the name, and those up to the maximum.                           *)
Rounds(suffix) == Power(Radix, 3) + MaximumSegmentFileIdentifier(suffix)

(* One number after the other, until there is no file of it.               *)
CountedUp(directory, suffix) ==
  LET after[rounds \in 0 .. Rounds(suffix)] ==
        [st \in CountingIn(directory) |->
           IF rounds = 0 \/ st.done THEN st
           ELSE after[rounds - 1][NextSegmentFile(directory, suffix, st)]]
  IN  after[Rounds(suffix)][FirstIdentifier(suffix)]

Failed == [result |-> "error", filenames |-> << >>]
Found(filenames) == [result |-> "ok", filenames |-> filenames]

(* The set that starts with a file that exists.  The last of x of n has to *)
(* be there.                                                               *)
SegmentFilesFrom(directory, suffix) ==
  IF suffix.schema = "single" THEN Found(<<suffix>>)
  ELSE LET last == CountedUp(directory, suffix)
       IN  IF suffix.schema = "x_of_n" /\ last.id # last.maximum THEN Failed
           ELSE Found(last.found)

(* The name itself if there is such a file, otherwise with the first of    *)
(* the suffixes that there is a file of.                                   *)
ExistingSegmentFile(directory, suffix) ==
  IF suffix \in directory THEN <<suffix>>
  ELSE IF suffix # NoSuffix THEN << >>
  ELSE LET there == {n \in DOMAIN SuffixesTried : SuffixesTried[n] \in directory}
       IN  IF there = {} THEN << >> ELSE <<SuffixesTried[Min(there)]>>

(* What may come of a name.  Of a name that follows no schema the stem is  *)
(* searched for a number or the letter a: there is none, or what is taken  *)
(* for one has no successor.  A stem that would is left out.               *)
Glob(directory, suffix) ==
  LET first == ExistingSegmentFile(directory, suffix)
  IN  IF first = << >> THEN {Found(<< >>)}
      ELSE IF NamingSchema(first[1]) = "unknown" THEN {Failed, Found(first)}
      ELSE {SegmentFilesFrom(directory, first[1])}

-----------------------------------------------------------------------------
(* What the names of a set mean, apart from how they are looked for.       *)

(* Names with a number have digits.  Of x of n the files are not more than *)
(* there is room to count to: three digits if x has one in the first name, *)
(* and as many as x has otherwise (01 of 100 would be followed by 00).     *)
NumericNames == [schema : {"numeric"}, dot : BOOLEAN, length : Nat \ {0}, number : Nat]
SplitNames   == [schema : {"split"}, dot : BOOLEAN, length : Nat \ {0}, number : Nat]
XOfNNames    == [schema : {"x_of_n"}, length : Nat \ {0}, number : Nat, of : Nat]

Numbered(name) ==
  \/ name \in NumericNames
  \/ name \in SplitNames
  \/ name \in XOfNNames /\ name.of < Power(Radix, IF name.length = 1 THEN 3 ELSE name.length)

(* How many digits a number takes: the fewest that it has room in.         *)
Digits(number) == CHOOSE l \in 1 .. number + 1 :
  number < Power(Radix, l) /\ \A m \in 1 .. l - 1 : number >= Power(Radix, m)

(* The file of a number, in the set of the file a glob starts with.        *)
Member(first, number) ==
  [first EXCEPT !.number = number,
                !.length = IF @ = 1 /\ first.schema # "split" THEN Digits(number) ELSE @]

(* How many numbers are looked for, at most.                               *)
Capacity(first) ==
  CASE first.schema = "split"   -> Power(Letters, first.length) - 1
    [] first.schema = "x_of_n"  -> first.of
    [] first.schema = "numeric" -> IF first.length = 1 THEN Power(Radix, 3) - Power(Radix, 2)
                                   ELSE Power(Radix, first.length) - 1

(* The files from the first on, up to one that is missing.                 *)
TheSet(directory, first) ==
  LET missing == {n \in first.number .. Capacity(first) : Member(first, n) \notin directory}
      end     == Min(missing \cup {Capacity(first) + 1})
  IN  [k \in 1 .. end - first.number |-> Member(first, first.number + k - 1)]
=============================================================================
