----------------------- MODULE InformationFileProofs -----------------------
(***************************************************************************)
(* Proofs about InformationFile, for all identifiers, texts, sizes of the  *)
(* line buffer and numbers of sessions: what was set last is found,        *)
(* nothing is read that was not being written, and what was kept is read.  *)
(*                                                                         *)
(* The second rests on what a file looks like when it was written to its   *)
(* end (Complete) or to any place (IsReadable): the tags of sections start *)
(* lines, and what opens a value within a section was written from the     *)
(* table of that section, to the end of its text or to where the file      *)
(* ends.  The parser, which is recursive over the lines, then gives only   *)
(* values of that table (SectionRead).                                     *)
(*                                                                         *)
(* The third goes the other way: in a whole file the section of a table    *)
(* holds the line of the last value of an identifier, on it the parser     *)
(* finds that value and behind it none of that identifier (LastIsRead), by *)
(* induction backwards over the lines (LineByLine).                        *)
(***************************************************************************)
EXTENDS InformationFile, FoldLemmas

-----------------------------------------------------------------------------
(* Tokens.                                                                 *)

FileTokens == Tokens \cup ({"open", "close"} \X Sections)
IsTag(t)   == t[1] \in {"open", "close", "bare"}

(* Tags are told apart by their names, and from blanks.                    *)
LEMMA TagFacts ==
  /\ \A a, b : Open(a) = Open(b) <=> a = b
  /\ \A a, b : Close(a) = Close(b) <=> a = b
  /\ \A a, b : Open(a) # Close(b)
  /\ \A a : /\ Open(a)[1] = "open" /\ Open(a)[2] = a /\ IsTag(Open(a))
            /\ Close(a)[1] = "close" /\ Close(a)[2] = a /\ IsTag(Close(a))
            /\ Open(a) \notin {Tab, NewLine} /\ Close(a) \notin {Tab, NewLine}
  /\ ~ IsTag(Tab) /\ ~ IsTag(NewLine)
BY DEF Open, Close, Tab, NewLine, IsTag

(* A tag in the file is that of a value or that of a section, never both.  *)
LEMMA TokenFacts ==
  /\ Tokens \in SUBSET FileTokens
  /\ Tab \in Tokens /\ NewLine \in Tokens
  /\ \A id \in Names : Open(id) \in Tokens /\ Close(id) \in Tokens
  /\ \A s \in Sections : Open(s) \in FileTokens /\ Close(s) \in FileTokens
  /\ \A t \in Tokens, s \in Sections : t # Open(s) /\ t # Close(s)
  /\ \A t \in FileTokens : ~ IsTag(t) => t \in Tokens
  /\ \A t \in FileTokens : t[1] = "open" => t = Open(t[2]) /\ t[2] \in Names \cup Sections
<1>1. /\ Tokens \in SUBSET FileTokens
      /\ Tab \in Tokens /\ NewLine \in Tokens
  BY DEF FileTokens, Tokens
<1>2. \A id \in Names : Open(id) \in Tokens /\ Close(id) \in Tokens
  BY DEF Tokens, Open, Close
<1>3. \A s \in Sections : Open(s) \in FileTokens /\ Close(s) \in FileTokens
  BY DEF FileTokens, Open, Close
<1>4. ASSUME NEW t \in Tokens, NEW s \in Sections PROVE t # Open(s) /\ t # Close(s)
  <2>1. s \notin Names
    BY InformationFileAssumptions
  <2> QED
    BY <2>1 DEF Tokens, Open, Close, Tab, NewLine, Bare
<1>5. \A t \in FileTokens : ~ IsTag(t) => t \in Tokens
  BY DEF FileTokens, IsTag
<1>6. \A t \in FileTokens : t[1] = "open" => t = Open(t[2]) /\ t[2] \in Names \cup Sections
  BY DEF FileTokens, Tokens, Open, Tab, NewLine, Bare
<1> QED
  BY <1>1, <1>2, <1>3, <1>4, <1>5, <1>6

-----------------------------------------------------------------------------
(* Lines.                                                                  *)

(* What the parser looks at from an offset on.                             *)
LineAt(text, at) == Stripped(SubSeq(text, at + 1, EndOfLine(text, at)))

(* The line from an offset ends behind it, and not before a newline, the   *)
(* size of the buffer or the end of the file.                              *)
LEMMA EndOfLineFacts ==
  ASSUME NEW B, NEW text \in Seq(B), NEW at \in 0 .. Len(text) - 1
  PROVE  /\ EndOfLine(text, at) \in at + 1 .. Len(text)
         /\ \/ text[EndOfLine(text, at)] = NewLine
            \/ EndOfLine(text, at) = at + LineSize
            \/ EndOfLine(text, at) = Len(text)
         /\ \A n \in at + 1 .. EndOfLine(text, at) - 1 :
              text[n] # NewLine /\ n # at + LineSize
<1> DEFINE ends == {n \in at + 1 .. Len(text) :
                      text[n] = NewLine \/ n \in {at + LineSize, Len(text)}}
<1>1. EndOfLine(text, at) = Min(ends)
  BY DEF EndOfLine
<1>2. ends \in SUBSET Nat /\ Len(text) \in ends
  OBVIOUS
<1>3. Min(ends) \in ends /\ \A y \in ends : Min(ends) <= y
  <2> HIDE DEF ends
  <2>1. ends # {}
    BY <1>2
  <2> QED
    BY <1>2, <2>1, MinOfSome
<1>4. ASSUME NEW n \in at + 1 .. Min(ends) - 1 PROVE text[n] # NewLine /\ n # at + LineSize
  <2>1. n \in at + 1 .. Len(text) /\ ~ (Min(ends) <= n)
    BY <1>3
  <2> QED
    BY <1>3, <2>1
<1> QED
  BY <1>1, <1>3, <1>4

(* The line is the text from the first token on that is not blank.         *)
IsLineFrom(line, text, p, e) ==
  /\ Len(line) = e - p + 1
  /\ \A i \in 1 .. e - p + 1 : line[i] = text[p + i - 1]

(* What the parser looks at is a line of the file, without its blanks.     *)
LEMMA LineFacts ==
  ASSUME NEW B, NEW text \in Seq(B), NEW at \in 0 .. Len(text) - 1, LineAt(text, at) # << >>
  PROVE  \E p \in at + 1 .. EndOfLine(text, at) :
           /\ LineAt(text, at) \in Seq(B)
           /\ IsLineFrom(LineAt(text, at), text, p, EndOfLine(text, at))
           /\ text[p] \notin {Tab, NewLine}
           /\ \A q \in at + 1 .. p - 1 : text[q] \in {Tab, NewLine}
<1> DEFINE e == EndOfLine(text, at)
           whole == SubSeq(text, at + 1, e)
           rest == {n \in 1 .. Len(whole) : whole[n] \notin {Tab, NewLine}}
<1>1. e \in at + 1 .. Len(text)
  BY EndOfLineFacts
<1>2. whole \in Seq(B) /\ Len(whole) = e - at /\ \A i \in 1 .. e - at : whole[i] = text[at + i]
  <2> HIDE DEF e
  <2> QED
    BY <1>1
<1>3. LineAt(text, at) = IF rest = {} THEN << >> ELSE SubSeq(whole, Min(rest), Len(whole))
  BY DEF LineAt, Stripped
<1>4. rest # {} /\ rest \in SUBSET Nat
  <2>1. rest \in SUBSET Nat
    OBVIOUS
  <2> HIDE DEF rest
  <2> QED
    BY <1>3, <2>1
<1>5. Min(rest) \in rest /\ \A y \in rest : Min(rest) <= y
  <2> HIDE DEF rest
  <2> QED
    BY <1>4, MinOfSome
<1> DEFINE m == Min(rest)
<1>6. m \in 1 .. e - at /\ text[at + m] \notin {Tab, NewLine}
  <2> HIDE DEF m, e, whole
  <2>1. m \in rest
    BY <1>5 DEF m
  <2> QED
    BY <1>2, <2>1
<1>7. \A q \in at + 1 .. at + m - 1 : text[q] \in {Tab, NewLine}
  <2> TAKE q \in at + 1 .. at + m - 1
  <2> HIDE DEF m, whole
  <2>1. q - at \in 1 .. e - at /\ ~ (m <= q - at) /\ at + (q - at) = q
    BY <1>1, <1>6
  <2>2. q - at \notin rest
    BY <1>5, <2>1 DEF m
  <2> QED
    BY <1>2, <2>1, <2>2
<1>8. LineAt(text, at) = SubSeq(whole, m, e - at)
  BY <1>2, <1>3, <1>4
<1> HIDE DEF rest, m, whole, e
<1>9. LineAt(text, at) \in Seq(B) /\ IsLineFrom(LineAt(text, at), text, at + m, e)
  <2>1. /\ SubSeq(whole, m, e - at) \in Seq(B)
        /\ Len(SubSeq(whole, m, e - at)) = (e - at) - m + 1
        /\ \A i \in 1 .. (e - at) - m + 1 : SubSeq(whole, m, e - at)[i] = whole[m + i - 1]
    BY <1>1, <1>2, <1>6
  <2>2. (e - at) - m + 1 = e - (at + m) + 1
    BY <1>1, <1>6
  <2>3. ASSUME NEW i \in 1 .. e - (at + m) + 1
        PROVE  whole[m + i - 1] = text[(at + m) + i - 1]
    <3>1. m + i - 1 \in 1 .. e - at /\ at + (m + i - 1) = (at + m) + i - 1
      BY <1>1, <1>6
    <3> QED
      BY <1>2, <3>1
  <2> QED
    BY <1>8, <2>1, <2>2, <2>3 DEF IsLineFrom
<1>10. at + m \in at + 1 .. e
  BY <1>1, <1>6
<1> QED
  BY <1>6, <1>7, <1>9, <1>10 DEF e

-----------------------------------------------------------------------------
(* The parser.                                                             *)

(* What it reads from an offset on, when it reads "from" from later ones.  *)
ReadsOn(text, name, from, at, inSection) ==
  IF at = Len(text) THEN << >>
  ELSE LET next == EndOfLine(text, at)
           line == Stripped(SubSeq(text, at + 1, next))
       IN  CASE ~inSection -> from[next][StartsWith(line, Open(name))]
             [] inSection /\ StartsWith(line, Close(name)) -> << >>
             [] inSection /\ ~StartsWith(line, Close(name)) /\ EndOfValue(line) # 0 ->
                  <<ValueOn(line)>> \o from[next][TRUE]
             [] OTHER -> from[next][TRUE]

IsReader(text, name, from, least) ==
  from = [at \in least .. Len(text) |-> [inSection \in BOOLEAN |->
            ReadsOn(text, name, from, at, inSection)]]

(* There is a function that is recursive in the way of the parser: reading *)
(* from an offset on asks for what is read from later ones.                *)
LEMMA ReaderExists ==
  ASSUME NEW B, NEW text \in Seq(B), NEW name
  PROVE  \E from : IsReader(text, name, from, 0)
<1> DEFINE n == Len(text)
           Exists(k) == k <= n => \E from : IsReader(text, name, from, n - k)
           H == {k \in Nat : Exists(k)}
<1>0. n \in Nat
  OBVIOUS
<1>1. Exists(0)
  <2> DEFINE from == [at \in n .. n |-> [inSection \in BOOLEAN |-> << >>]]
  <2>1. \A at \in n .. n, inSection \in BOOLEAN : ReadsOn(text, name, from, at, inSection) = << >>
    BY DEF ReadsOn
  <2> HIDE DEF n
  <2>2. from = [at \in n .. n |-> [inSection \in BOOLEAN |->
                  ReadsOn(text, name, from, at, inSection)]]
    BY <2>1
  <2> HIDE DEF from
  <2>3. IsReader(text, name, from, n - 0)
    BY <1>0, <2>2 DEF IsReader, n
  <2> QED
    BY <2>3
<1>2. ASSUME NEW k \in Nat, Exists(k) PROVE Exists(k + 1)
  <2>1. SUFFICES ASSUME k + 1 <= n PROVE \E from : IsReader(text, name, from, n - (k + 1))
    BY Zenon
  <2>2. PICK later : IsReader(text, name, later, n - k)
    <3>1. k <= n
      BY <1>0, <2>1
    <3> QED
      BY <1>2, <3>1, Zenon
  <2> DEFINE least == n - (k + 1)
             from == [at \in least .. n |->
                        IF at = least
                        THEN [inSection \in BOOLEAN |-> ReadsOn(text, name, later, at, inSection)]
                        ELSE later[at]]
  <2>3. least \in Nat /\ least < n /\ n - k = least + 1
    BY <1>0, <2>1
  <2>4. later = [at \in least + 1 .. n |-> [inSection \in BOOLEAN |->
                   ReadsOn(text, name, later, at, inSection)]]
    BY <2>2, <2>3, Zenon DEF IsReader, n
  <2>5. \A at \in least + 1 .. n : from[at] = later[at]
    <3> HIDE DEF n, least
    <3> QED
      BY <2>3
  <2>6. ASSUME NEW at \in least .. n, NEW inSection \in BOOLEAN
        PROVE  ReadsOn(text, name, from, at, inSection) = ReadsOn(text, name, later, at, inSection)
    <3>1. CASE at = n
      BY <3>1 DEF ReadsOn
    <3>2. CASE at # n
      <4>1. at \in 0 .. Len(text) - 1
        <5> HIDE DEF least
        <5> QED
          BY <1>0, <2>3, <3>2
      <4>2. EndOfLine(text, at) \in at + 1 .. n
        BY <4>1, EndOfLineFacts
      <4>3. EndOfLine(text, at) \in least + 1 .. n
        BY <2>3, <4>2
      <4>4. from[EndOfLine(text, at)] = later[EndOfLine(text, at)]
        BY <2>5, <4>3
      <4> HIDE DEF from, least
      <4> QED
        BY <4>4, Zenon DEF ReadsOn
    <3> QED
      BY <3>1, <3>2
  <2>7. \A at \in least .. n :
          from[at] = [inSection \in BOOLEAN |-> ReadsOn(text, name, from, at, inSection)]
    <3> TAKE at \in least .. n
    <3>1. from[at] = [inSection \in BOOLEAN |-> ReadsOn(text, name, later, at, inSection)]
      <4>1. CASE at = least
        BY <4>1
      <4>2. CASE at # least
        <5>1. at \in least + 1 .. n
          <6> HIDE DEF least
          <6> QED
            BY <1>0, <2>3, <4>2
        <5>2. later[at] = [inSection \in BOOLEAN |-> ReadsOn(text, name, later, at, inSection)]
          BY <2>4, <5>1
        <5> QED
          BY <2>5, <5>1, <5>2
      <4> QED
        BY <4>1, <4>2
    <3> HIDE DEF from, least, n
    <3> QED
      BY <2>6, <3>1
  <2>8. from = [at \in least .. n |-> from[at]]
    OBVIOUS
  <2> HIDE DEF from
  <2>9. IsReader(text, name, from, least)
    BY <2>7, <2>8 DEF IsReader, n
  <2> QED
    BY <2>9
<1>3. H = Nat
  <2> HIDE DEF Exists
  <2>1. H \in SUBSET Nat /\ 0 \in H /\ \A k \in H : k + 1 \in H
    BY <1>1, <1>2
  <2> HIDE DEF H
  <2> QED
    BY <2>1, Induction
<1>4. Exists(n)
  <2> HIDE DEF Exists
  <2> QED
    BY <1>0, <1>3
<1>5. n - n = 0 /\ n <= n
  BY <1>0
<1> HIDE DEF n
<1> QED
  BY <1>4, <1>5, Zenon

(* What ReadSection does, one line at a time.                              *)
LEMMA ReadSectionReads ==
  ASSUME NEW B, NEW text \in Seq(B), NEW name
  PROVE  \E from : /\ ReadSection(text, name) = from[0][FALSE]
                   /\ \A at \in 0 .. Len(text), inSection \in BOOLEAN :
                        from[at][inSection] = ReadsOn(text, name, from, at, inSection)
<1> DEFINE from == CHOOSE f : IsReader(text, name, f, 0)
<1>1. IsReader(text, name, from, 0)
  BY ReaderExists, Zenon
<1>2. ReadSection(text, name) = from[0][FALSE]
  BY Zenon DEF ReadSection, IsReader, ReadsOn
<1> HIDE DEF from
<1>3. \A at \in 0 .. Len(text), inSection \in BOOLEAN :
        from[at][inSection] = ReadsOn(text, name, from, at, inSection)
  BY <1>1 DEF IsReader
<1> QED
  BY <1>2, <1>3

(* What is read is what the lines give that the parser takes to be in the  *)
(* section: "inside" holds the offsets at which it may be there.           *)
LEMMA ReadSectionIn ==
  ASSUME NEW B, NEW text \in Seq(B), NEW name, NEW X, NEW inside,
         \A at \in 0 .. Len(text) - 1 :
           StartsWith(LineAt(text, at), Open(name)) => EndOfLine(text, at) \in inside,
         \A at \in 0 .. Len(text) - 1 :
           at \in inside /\ ~StartsWith(LineAt(text, at), Close(name)) =>
             /\ EndOfLine(text, at) \in inside
             /\ EndOfValue(LineAt(text, at)) # 0 => ValueOn(LineAt(text, at)) \in X
  PROVE  ReadSection(text, name) \in Seq(X)
<1>0. Len(text) \in Nat
  OBVIOUS
<1>1. PICK from : /\ ReadSection(text, name) = from[0][FALSE]
                  /\ \A at \in 0 .. Len(text), inSection \in BOOLEAN :
                       from[at][inSection] = ReadsOn(text, name, from, at, inSection)
  BY ReadSectionReads
<1> DEFINE Reads(at) == /\ from[at][FALSE] \in Seq(X)
                        /\ at \in inside => from[at][TRUE] \in Seq(X)
           H == {k \in Nat : \A at \in 0 .. Len(text) : Len(text) - at <= k => Reads(at)}
<1>2. Reads(Len(text))
  <2>1. << >> \in Seq(X)
    OBVIOUS
  <2>2. ReadsOn(text, name, from, Len(text), TRUE) = << >>
        /\ ReadsOn(text, name, from, Len(text), FALSE) = << >>
    BY Zenon DEF ReadsOn
  <2>3. Len(text) \in 0 .. Len(text)
    BY <1>0
  <2> QED
    BY <1>1, <2>1, <2>2, <2>3
<1>3. ASSUME NEW at \in 0 .. Len(text) - 1, Reads(EndOfLine(text, at))
      PROVE  Reads(at)
  <2> DEFINE next == EndOfLine(text, at)
             line == LineAt(text, at)
  <2>1. at # Len(text) /\ at \in 0 .. Len(text)
    BY <1>0
  <2>2. from[at][FALSE] = from[next][StartsWith(line, Open(name))]
    <3>1. ReadsOn(text, name, from, at, FALSE) = from[next][StartsWith(line, Open(name))]
      BY <2>1 DEF ReadsOn, LineAt
    <3> QED
      BY <1>1, <2>1, <3>1
  <2>3. from[at][TRUE] = IF StartsWith(line, Close(name)) THEN << >>
                         ELSE IF EndOfValue(line) # 0 THEN <<ValueOn(line)>> \o from[next][TRUE]
                         ELSE from[next][TRUE]
    <3>1. ReadsOn(text, name, from, at, TRUE)
            = IF StartsWith(line, Close(name)) THEN << >>
              ELSE IF EndOfValue(line) # 0 THEN <<ValueOn(line)>> \o from[next][TRUE]
              ELSE from[next][TRUE]
      BY <2>1 DEF ReadsOn, LineAt
    <3> QED
      BY <1>1, <2>1, <3>1
  <2>4. from[at][FALSE] \in Seq(X)
    <3>1. CASE StartsWith(line, Open(name))
      <4>1. StartsWith(line, Open(name)) = TRUE /\ next \in inside
        BY <3>1 DEF StartsWith
      <4> QED
        BY <1>3, <2>2, <4>1
    <3>2. CASE ~StartsWith(line, Open(name))
      <4>1. StartsWith(line, Open(name)) = FALSE
        BY <3>2 DEF StartsWith
      <4> QED
        BY <1>3, <2>2, <4>1
    <3> QED
      BY <3>1, <3>2
  <2>5. ASSUME at \in inside PROVE from[at][TRUE] \in Seq(X)
    <3>1. CASE StartsWith(line, Close(name))
      BY <2>3, <3>1
    <3>2. CASE ~StartsWith(line, Close(name))
      <4>1. from[next][TRUE] \in Seq(X)
        BY <1>3, <2>5, <3>2
      <4>2. EndOfValue(line) # 0 => ValueOn(line) \in X
        BY <2>5, <3>2
      <4> HIDE DEF next, line
      <4>3. CASE EndOfValue(line) = 0
        BY <2>3, <3>2, <4>1, <4>3
      <4>4. CASE EndOfValue(line) # 0
        <5>1. from[at][TRUE] = <<ValueOn(line)>> \o from[next][TRUE]
          BY <2>3, <3>2, <4>4
        <5>2. <<ValueOn(line)>> \in Seq(X)
          BY <4>2, <4>4
        <5> QED
          BY <4>1, <5>1, <5>2, Concatenation
      <4> QED
        BY <4>3, <4>4
    <3> QED
      BY <3>1, <3>2
  <2> QED
    BY <2>4, <2>5
<1>4. H = Nat
  <2> HIDE DEF Reads
  <2>1. 0 \in H
    <3>1. SUFFICES ASSUME NEW at \in 0 .. Len(text), Len(text) - at <= 0 PROVE Reads(at)
      OBVIOUS
    <3>2. at = Len(text)
      BY <1>0, <3>1
    <3> QED
      BY <1>2, <3>2
  <2>2. ASSUME NEW k \in H PROVE k + 1 \in H
    <3>1. SUFFICES ASSUME NEW at \in 0 .. Len(text), Len(text) - at <= k + 1 PROVE Reads(at)
      OBVIOUS
    <3>2. CASE at = Len(text)
      BY <1>2, <3>2
    <3>3. CASE at # Len(text)
      <4>1. at \in 0 .. Len(text) - 1
        BY <1>0, <3>3
      <4>2. EndOfLine(text, at) \in at + 1 .. Len(text)
        BY <4>1, EndOfLineFacts
      <4>3. EndOfLine(text, at) \in 0 .. Len(text) /\ Len(text) - EndOfLine(text, at) <= k
        BY <1>0, <3>1, <4>1, <4>2
      <4> QED
        BY <1>3, <4>1, <4>3
    <3> QED
      BY <3>2, <3>3
  <2>3. H \in SUBSET Nat
    OBVIOUS
  <2> HIDE DEF H
  <2> QED
    BY <2>1, <2>2, <2>3, Induction
<1>5. Reads(0)
  <2> HIDE DEF Reads
  <2>1. Len(text) \in H /\ 0 \in 0 .. Len(text) /\ Len(text) - 0 <= Len(text)
    BY <1>0, <1>4
  <2> QED
    BY <2>1
<1> QED
  BY <1>1, <1>5

-----------------------------------------------------------------------------
(* What the information file looks like, complete or not.                  *)

(* No text that is set, or that another program wrote, has an opening tag: *)
(* at the size of the line buffer it would begin a line, and a value.      *)
OpenFree(text) == \A i \in 1 .. Len(text) : text[i][1] # "open"
NoOpenTags ==
  /\ \A text \in Texts \cup HashTexts \cup MediaTexts : OpenFree(text)
  /\ \A ts \in FirstFiles : \A s \in Sections : \A n \in 1 .. Len(ts[s]) :
       OpenFree(ts[s][n].text)

AnyValue == [id : Names, text : Seq(Tokens), terminated : BOOLEAN]
Values   == {v \in AnyValue : NoOpenTags => OpenFree(v.text)}
Tables   == [Sections -> Seq(Values)]

(* A section's tag stands on a line of its own.                            *)
Structured(text) ==
  /\ text \in Seq(FileTokens)
  /\ \A p \in 1 .. Len(text), s \in Sections :
       text[p] \in {Open(s), Close(s)} => p = 1 \/ text[p - 1] = NewLine
  /\ \A p \in 1 .. Len(text), s \in Sections :
       text[p] = Open(s) => p = Len(text) \/ text[p + 1] = NewLine

(* Up to this place a section has begun and not ended.                     *)
Within(text, s, p) ==
  \E q \in 1 .. p : text[q] = Open(s) /\ \A r \in q .. p : text[r] # Close(s)

(* From this place on k tokens of the text of a value were written.        *)
Wrote(text, p, w, k) ==
  /\ text[p] = Open(w.id)
  /\ k \in 0 .. Len(w.text) /\ p + k <= Len(text)
  /\ \A i \in 1 .. k : text[p + i] = w.text[i]

(* The text of the value ends there, by its tag or with the line.          *)
Ended(text, p, w, k) ==
  /\ p + k < Len(text)
  /\ text[p + k + 1] = NewLine \/ (k = Len(w.text) /\ text[p + k + 1] = Close(w.id))

(* At this place a value of the table was written, to its end, or to where *)
(* the file ends.                                                          *)
WroteSome(text, p, table) ==
  \E m \in 1 .. Len(table), k \in Nat :
    Wrote(text, p, table[m], k) /\ Ended(text, p, table[m], k)
WroteSomeOf(text, p, table) ==
  \E m \in 1 .. Len(table), k \in Nat :
    Wrote(text, p, table[m], k) /\ (p + k = Len(text) \/ Ended(text, p, table[m], k))

OpensValue(text, p) == \E id \in Names : text[p] = Open(id)

(* What a section holds was written from the table of that section.        *)
Explained(text, ts) ==
  \A s \in Sections, p \in 1 .. Len(text) :
    Within(text, s, p) /\ OpensValue(text, p) => WroteSomeOf(text, p, ts[s])

(* A value that was read comes from the table, and has an identifier that  *)
(* the parser supports.                                                    *)
Comes(v, table) ==
  \E m \in 1 .. Len(table) :
    LET w == table[m]
    IN  w.id = v.id /\ (v.text = w.text \/ (~Plain(w) /\ IsPrefix(v.text, w.text)))

ReadValues(ts, s) ==
  {v \in Values : /\ v.terminated = FALSE /\ v.id \in Readable
                  /\ NoOpenTags => Comes(v, ts[s])}

-----------------------------------------------------------------------------
(* Where the parser is.                                                    *)

(* Where the line that starts with the tag of a section ends, the parser   *)
(* is in the section.                                                      *)
LEMMA SectionEntered ==
  ASSUME NEW text, Structured(text), NEW s \in Sections, NEW at \in 0 .. Len(text) - 1,
         StartsWith(LineAt(text, at), Open(s))
  PROVE  Within(text, s, EndOfLine(text, at))
<1> DEFINE e == EndOfLine(text, at)
<1>1. text \in Seq(FileTokens)
  BY DEF Structured
<1>2. PICK p \in at + 1 .. e : IsLineFrom(LineAt(text, at), text, p, e)
  BY <1>1, LineFacts DEF StartsWith
<1>3. e \in at + 1 .. Len(text) /\ \A n \in at + 1 .. e - 1 : text[n] # NewLine
  BY <1>1, EndOfLineFacts
<1> HIDE DEF e
<1>4. p \in 1 .. Len(text) /\ text[p] = Open(s)
  <2>1. 1 \in 1 .. e - p + 1 /\ p + 1 - 1 = p /\ p \in 1 .. Len(text)
    BY <1>2, <1>3
  <2>2. LineAt(text, at)[1] = text[p]
    BY <1>2, <2>1 DEF IsLineFrom
  <2> QED
    BY <2>1, <2>2 DEF StartsWith
<1>5. ASSUME NEW r \in p .. e PROVE text[r] # Close(s)
  <2>1. CASE r = p
    BY <1>4, <2>1, TagFacts
  <2>2. CASE r # p
    <3>1. p # Len(text)
      BY <1>2, <1>3, <2>2
    <3>2. text[p + 1] = NewLine
      BY <1>4, <3>1 DEF Structured
    <3>3. r = p + 1
      BY <1>2, <1>3, <2>2, <3>2
    <3> QED
      BY <3>2, <3>3, TagFacts
  <2> QED
    BY <2>1, <2>2
<1>6. p \in 1 .. e
  BY <1>2, <1>3
<1> QED
  BY <1>4, <1>5, <1>6 DEF Within, e

(* A line that starts with a token that is not blank is not empty.         *)
LEMMA LineStarts ==
  ASSUME NEW B, NEW text \in Seq(B), NEW at \in 0 .. Len(text) - 1,
         text[at + 1] \notin {Tab, NewLine}
  PROVE  StartsWith(LineAt(text, at), text[at + 1])
<1> DEFINE e == EndOfLine(text, at)
           whole == SubSeq(text, at + 1, e)
           rest == {n \in 1 .. Len(whole) : whole[n] \notin {Tab, NewLine}}
<1>1. e \in at + 1 .. Len(text)
  BY EndOfLineFacts
<1>2. whole \in Seq(B) /\ Len(whole) = e - at /\ \A i \in 1 .. e - at : whole[i] = text[at + i]
  <2> HIDE DEF e
  <2> QED
    BY <1>1
<1>3. LineAt(text, at) = IF rest = {} THEN << >> ELSE SubSeq(whole, Min(rest), Len(whole))
  BY DEF LineAt, Stripped
<1>4. 1 \in rest /\ 1 \in 1 .. Len(whole)
  <2> HIDE DEF e, whole
  <2>1. 1 \in 1 .. e - at /\ 1 \in 1 .. Len(whole)
    BY <1>1, <1>2
  <2>2. whole[1] = text[at + 1]
    BY <1>2, <2>1
  <2> QED
    BY <2>1, <2>2
<1>5. Min(rest) = 1
  <2>1. rest \in SUBSET Nat /\ \A n \in rest : n >= 1
    OBVIOUS
  <2> HIDE DEF rest
  <2>2. Min(rest) \in rest /\ \A y \in rest : Min(rest) <= y
    BY <1>4, <2>1, MinOfSome
  <2>3. Min(rest) \in Nat /\ Min(rest) >= 1 /\ Min(rest) <= 1
    BY <1>4, <2>1, <2>2
  <2> QED
    BY <2>3
<1>6. LineAt(text, at) = SubSeq(whole, 1, Len(whole))
  <2> HIDE DEF whole
  <2> QED
    BY <1>3, <1>4, <1>5
<1> HIDE DEF whole, e
<1>7. LineAt(text, at) = whole
  BY <1>2, <1>6
<1> QED
  <2>1. 1 \in 1 .. e - at
    BY <1>1
  <2> QED
    BY <1>2, <1>7, <2>1 DEF StartsWith

(* It leaves the section only at the section's end.                        *)
LEMMA SectionKept ==
  ASSUME NEW text, Structured(text), NEW s \in Sections, NEW at \in 0 .. Len(text) - 1,
         Within(text, s, at), ~StartsWith(LineAt(text, at), Close(s))
  PROVE  /\ \A r \in at + 1 .. EndOfLine(text, at) : text[r] # Close(s)
         /\ Within(text, s, EndOfLine(text, at))
<1> DEFINE e == EndOfLine(text, at)
<1>1. text \in Seq(FileTokens)
  BY DEF Structured
<1>2. e \in at + 1 .. Len(text) /\ \A n \in at + 1 .. e - 1 : text[n] # NewLine
  BY <1>1, EndOfLineFacts
<1> HIDE DEF e
<1>3. ASSUME NEW r \in at + 1 .. e, text[r] = Close(s) PROVE FALSE
  <2>1. r \in 1 .. Len(text)
    BY <1>2
  <2>2. r = 1 \/ text[r - 1] = NewLine
    BY <1>3, <2>1 DEF Structured
  <2>3. r = at + 1
    BY <1>2, <2>2
  <2>4. text[at + 1] \notin {Tab, NewLine}
    BY <1>3, <2>3, TagFacts
  <2>5. StartsWith(LineAt(text, at), text[at + 1])
    BY <1>1, <2>4, LineStarts
  <2> QED
    BY <1>3, <2>3, <2>5
<1>4. PICK q \in 1 .. at : text[q] = Open(s) /\ \A r \in q .. at : text[r] # Close(s)
  BY DEF Within
<1>5. q \in 1 .. e /\ \A r \in q .. e : r \in q .. at \/ r \in at + 1 .. e
  BY <1>2
<1>6. Within(text, s, e)
  BY <1>3, <1>4, <1>5 DEF Within
<1> QED
  BY <1>3, <1>6 DEF e

(* Where the text of a value ends.                                         *)
LEMMA EndOfValueFacts ==
  ASSUME NEW B, NEW line \in Seq(B), EndOfValue(line) # 0
  PROVE  /\ line[1][1] = "open" /\ line[1][2] \in Readable
         /\ EndOfValue(line) \in 2 .. Len(line)
         /\ line[EndOfValue(line)] = Close(line[1][2])
         /\ \A n \in 2 .. EndOfValue(line) - 1 : ~IsTag(line[n])
<1> DEFINE tags == {n \in 2 .. Len(line) : line[n][1] \in {"open", "close", "bare"}}
           end == EndOfValue(line)
<1>1. end = IF /\ line # << >> /\ line[1][1] = "open" /\ line[1][2] \in Readable
               /\ tags # {} /\ line[Min(tags)] = Close(line[1][2])
            THEN Min(tags) ELSE 0
  BY DEF EndOfValue
<1>2. /\ line[1][1] = "open" /\ line[1][2] \in Readable
      /\ tags # {} /\ line[Min(tags)] = Close(line[1][2])
      /\ end = Min(tags)
  <2> HIDE DEF tags
  <2> QED
    BY <1>1
<1>3. tags \in SUBSET Nat
  OBVIOUS
<1>4. Min(tags) \in tags /\ \A y \in tags : Min(tags) <= y
  <2> HIDE DEF tags
  <2> QED
    BY <1>2, <1>3, MinOfSome
<1>5. end \in 2 .. Len(line)
  BY <1>2, <1>4
<1>6. ASSUME NEW n \in 2 .. end - 1 PROVE ~IsTag(line[n])
  <2> HIDE DEF end
  <2>1. n \in 2 .. Len(line) /\ ~ (end <= n)
    BY <1>5
  <2>2. n \notin tags
    BY <1>2, <1>4, <2>1
  <2> QED
    BY <2>1, <2>2 DEF IsTag
<1> HIDE DEF tags
<1> QED
  BY <1>2, <1>5, <1>6

(* The first part of a sequence.                                           *)
LEMMA FirstPart ==
  ASSUME NEW B, NEW seq \in Seq(B), NEW c \in 0 .. Len(seq)
  PROVE  /\ SubSeq(seq, 1, c) \in Seq(B) /\ Len(SubSeq(seq, 1, c)) = c
         /\ \A i \in 1 .. c : SubSeq(seq, 1, c)[i] = seq[i]
OBVIOUS

(* Two sequences with the same elements are the same.                      *)
LEMMA SameElements ==
  ASSUME NEW B, NEW a \in Seq(B), NEW b \in Seq(B), Len(a) = Len(b),
         \A i \in 1 .. Len(a) : a[i] = b[i]
  PROVE  a = b
OBVIOUS

(* The value on a line of a section is one that the section's table had.   *)
LEMMA ValueRead ==
  ASSUME NEW text, Structured(text), NEW s \in Sections, NEW at \in 0 .. Len(text) - 1,
         Within(text, s, at), ~StartsWith(LineAt(text, at), Close(s)),
         EndOfValue(LineAt(text, at)) # 0,
         NEW ts \in Tables, NoOpenTags => Explained(text, ts)
  PROVE  ValueOn(LineAt(text, at)) \in ReadValues(ts, s)
<1> DEFINE e == EndOfLine(text, at)
           line == LineAt(text, at)
           end == EndOfValue(line)
<1>1. text \in Seq(FileTokens) /\ Len(text) \in Nat
  BY DEF Structured
<1>2. e \in at + 1 .. Len(text) /\ \A n \in at + 1 .. e - 1 : text[n] # NewLine
  BY <1>1, EndOfLineFacts
<1>3. line # << >>
  <2>1. \A l : EndOfValue(l) # 0 => l # << >>
    BY DEF EndOfValue
  <2> QED
    BY <2>1
<1>4. PICK p \in at + 1 .. e :
        /\ line \in Seq(FileTokens) /\ IsLineFrom(line, text, p, e)
        /\ text[p] \notin {Tab, NewLine}
        /\ \A q \in at + 1 .. p - 1 : text[q] \in {Tab, NewLine}
  BY <1>1, <1>3, LineFacts
<1>5. /\ line[1][1] = "open" /\ line[1][2] \in Readable /\ end \in 2 .. Len(line)
      /\ line[end] = Close(line[1][2])
      /\ \A n \in 2 .. end - 1 : ~IsTag(line[n])
  BY <1>4, EndOfValueFacts
<1>6. Within(text, s, e) /\ \A r \in at + 1 .. e : text[r] # Close(s)
  BY SectionKept
<1>v. ValueOn(line) = Value(line[1][2], SubSeq(line, 2, end - 1), FALSE)
  BY DEF ValueOn
<1> HIDE DEF e, line, end
<1>7. /\ Len(line) = e - p + 1
      /\ \A i \in 1 .. e - p + 1 : line[i] = text[p + i - 1]
  BY <1>4 DEF IsLineFrom
<1>8. p \in 1 .. Len(text) /\ p + end - 1 \in p + 1 .. e /\ end \in Nat /\ end >= 2
  BY <1>2, <1>5, <1>7
<1> DEFINE id == line[1][2]
           c == end - 2
<1>9. c \in Nat /\ p + c + 1 <= e /\ c = end - 2
  BY <1>8
<1>10. text[p] = Open(id) /\ id \in Names \cup Sections
  <2>1. 1 \in 1 .. e - p + 1 /\ p + 1 - 1 = p /\ p \in 1 .. Len(text)
    BY <1>2, <1>4
  <2>2. line[1] = text[p] /\ text[p] \in FileTokens
    BY <1>1, <1>7, <2>1
  <2> QED
    BY <1>5, <2>2, TokenFacts
<1>11. text[p + c + 1] = Close(id)
  <2>1. end \in 1 .. e - p + 1 /\ p + end - 1 = p + c + 1
    BY <1>5, <1>7, <1>8, <1>9
  <2> HIDE DEF c, id
  <2> QED
    BY <1>5, <1>7, <2>1 DEF id
<1>12. \A i \in 1 .. c : ~IsTag(text[p + i]) /\ text[p + i] = line[i + 1]
  <2> TAKE i \in 1 .. c
  <2>1. i + 1 \in 2 .. end - 1 /\ i + 1 \in 1 .. e - p + 1 /\ p + (i + 1) - 1 = p + i
    BY <1>5, <1>7, <1>8, <1>9
  <2> QED
    BY <1>5, <1>7, <2>1
<1> DEFINE read == SubSeq(line, 2, end - 1)
<1>13. read \in Seq(FileTokens) /\ Len(read) = c /\ \A i \in 1 .. c : read[i] = text[p + i]
  <2>1. /\ SubSeq(line, 2, end - 1) \in Seq(FileTokens)
        /\ Len(SubSeq(line, 2, end - 1)) = end - 2
        /\ \A i \in 1 .. end - 2 : SubSeq(line, 2, end - 1)[i] = line[i + 1]
    BY <1>4, <1>5
  <2> HIDE DEF read
  <2> QED
    BY <1>12, <2>1 DEF read
<1>r. id \in Readable
  BY <1>5
<1> HIDE DEF id, c, read
<1>14. id \in Names
  <2>1. SUFFICES ASSUME id \in Sections PROVE FALSE
    BY <1>10
  <2>2. p # Len(text)
    BY <1>2, <1>8, <1>9
  <2>3. text[p + 1] = NewLine
    BY <1>8, <1>10, <2>1, <2>2 DEF Structured
  <2>4. p + 1 = e /\ c = 0
    <3>1. p + 1 \notin at + 1 .. e - 1
      BY <1>2, <2>3
    <3>2. p \in Nat /\ e \in Nat /\ at \in Nat /\ at + 1 <= p
      BY <1>2
    <3>3. e <= p + 1
      <4>1. e - 1 \in Int /\ (p + 1 <= e - 1 => p + 1 \in at + 1 .. e - 1)
        BY <3>2
      <4>2. ~ (p + 1 <= e - 1)
        BY <3>1, <4>1
      <4> QED
        BY ONLY <3>2, <4>2
    <3>4. c \in Nat /\ p + c + 1 <= e
      BY <1>9
    <3> QED
      BY ONLY <3>2, <3>3, <3>4
  <2>5. p + c + 1 = p + 1
    BY <1>8, <2>4
  <2> QED
    BY <1>11, <2>3, <2>5, TagFacts
<1>15. read \in Seq(Tokens) /\ OpenFree(read)
  <2>1. \A i \in 1 .. c : ~IsTag(read[i]) /\ read[i] \in FileTokens
    BY <1>12, <1>13
  <2>2. \A i \in 1 .. c : read[i] \in Tokens /\ read[i][1] # "open"
    BY <2>1, TokenFacts DEF IsTag
  <2>3. OpenFree(read)
    BY <1>13, <2>2 DEF OpenFree
  <2>4. read = [i \in 1 .. c |-> read[i]]
    BY <1>13
  <2> QED
    BY <1>9, <2>2, <2>3, <2>4
<1> DEFINE v == Value(id, read, FALSE)
<1>16. v \in Values /\ v.terminated = FALSE /\ v.id = id /\ v.text = read
  BY <1>14, <1>15 DEF Value, Values, AnyValue
<1>17. ASSUME NoOpenTags PROVE Comes(v, ts[s])
  <2>1. PICK q \in 1 .. at : text[q] = Open(s) /\ \A r \in q .. at : text[r] # Close(s)
    BY DEF Within
  <2>2. Within(text, s, p)
    <3>1. q \in 1 .. p /\ \A r \in q .. p : r \in q .. at \/ r \in at + 1 .. e
      BY <1>2, <1>4, <2>1
    <3> QED
      BY <1>6, <2>1, <3>1 DEF Within
  <2>3. WroteSomeOf(text, p, ts[s])
    <3>1. OpensValue(text, p)
      BY <1>10, <1>14 DEF OpensValue
    <3> QED
      BY <1>8, <1>17, <2>2, <3>1 DEF Explained
  <2>4. PICK m \in 1 .. Len(ts[s]), k \in Nat :
          /\ Wrote(text, p, ts[s][m], k)
          /\ p + k = Len(text) \/ Ended(text, p, ts[s][m], k)
    BY <2>3 DEF WroteSomeOf
  <2> DEFINE w == ts[s][m]
  <2>5. w \in Values /\ w.text \in Seq(Tokens) /\ w \in AnyValue
    <3>1. ts[s] \in Seq(Values)
      BY DEF Tables
    <3>2. w \in Values
      BY <2>4, <3>1
    <3> QED
      BY <3>2 DEF Values, AnyValue
  <2> HIDE DEF w
  <2>6. /\ text[p] = Open(w.id) /\ k \in 0 .. Len(w.text) /\ p + k <= Len(text)
        /\ \A i \in 1 .. k : text[p + i] = w.text[i]
    BY <2>4, Zenon DEF Wrote, w
  <2>7. w.id = id
    BY <1>10, <2>6, TagFacts
  <2>8. CASE c < k
    <3>1. /\ c + 1 \in 1 .. Len(w.text) /\ c + 1 \in 1 .. k /\ p + (c + 1) = p + c + 1
          /\ \A i \in 1 .. c : i \in 1 .. k
      BY <1>8, <1>9, <2>4, <2>5, <2>6, <2>8
    <3>2. w.text[c + 1] = Close(id)
      BY <1>11, <2>6, <3>1
    <3>3. ~Plain(w)
      BY <3>1, <3>2, TagFacts DEF Plain, Close
    <3>4. IsPrefix(read, w.text)
      <4>1. \A i \in 1 .. c : read[i] = w.text[i]
        BY <1>13, <2>6, <3>1
      <4>2. Len(read) <= Len(w.text)
        BY <1>9, <1>13, <2>5, <3>1
      <4>3. SubSeq(w.text, 1, Len(read)) = read
        <5>1. c \in 0 .. Len(w.text)
          BY <1>9, <1>13, <2>5, <4>2
        <5>2. /\ SubSeq(w.text, 1, c) \in Seq(Tokens) /\ Len(SubSeq(w.text, 1, c)) = c
              /\ \A i \in 1 .. c : SubSeq(w.text, 1, c)[i] = w.text[i]
          BY ONLY <2>5, <5>1, FirstPart
        <5>3. \A i \in 1 .. Len(read) : SubSeq(w.text, 1, c)[i] = read[i]
          BY <1>13, <4>1, <5>2
        <5>4. SubSeq(w.text, 1, c) = read
          BY ONLY <1>13, <1>15, <5>2, <5>3, SameElements
        <5> QED
          BY <1>13, <5>4
      <4> QED
        BY <4>2, <4>3 DEF IsPrefix
    <3> QED
      BY <1>16, <2>4, <2>7, <3>3, <3>4 DEF Comes, w
  <2>9. CASE ~(c < k)
    <3>1. p + k # Len(text)
      BY <1>2, <1>8, <1>9, <2>4, <2>9
    <3>2. Ended(text, p, w, k)
      BY <2>4, <3>1 DEF w
    <3>3. text[p + k + 1] = NewLine \/ (k = Len(w.text) /\ text[p + k + 1] = Close(w.id))
      BY <3>2, Zenon DEF Ended
    <3>4. c = k
      <4>1. SUFFICES ASSUME k < c PROVE FALSE
        BY <1>9, <2>4, <2>9
      <4>2. k + 1 \in 1 .. c /\ p + (k + 1) = p + k + 1 /\ p + k + 1 \in at + 1 .. e - 1
        BY <1>2, <1>4, <1>8, <1>9, <2>4, <4>1
      <4>3. ~IsTag(text[p + k + 1]) /\ text[p + k + 1] # NewLine
        BY <1>2, <1>12, <4>2
      <4> QED
        BY <3>3, <4>3, TagFacts
    <3>5. k = Len(w.text)
      BY <1>11, <3>3, <3>4, TagFacts
    <3>6. read = w.text
      <4>1. \A i \in 1 .. c : read[i] = w.text[i]
        BY <1>13, <2>6, <3>4
      <4>2. Len(read) = Len(w.text) /\ \A i \in 1 .. Len(read) : read[i] = w.text[i]
        BY <1>13, <3>4, <3>5, <4>1
      <4> QED
        BY ONLY <1>15, <2>5, <4>2, SameElements
    <3> QED
      BY <1>16, <2>4, <2>7, <3>6 DEF Comes, w
  <2> QED
    BY <2>8, <2>9
<1>18. ValueOn(line) = v
  BY <1>v DEF id, read
<1>19. v \in ReadValues(ts, s)
  BY <1>r, <1>16, <1>17 DEF ReadValues
<1> QED
  BY <1>18, <1>19 DEF line

(* What is read from a section of the file.                                *)
LEMMA SectionRead ==
  ASSUME NEW text, Structured(text), NEW s \in Sections,
         NEW ts \in Tables, NoOpenTags => Explained(text, ts)
  PROVE  ReadSection(text, s) \in Seq(ReadValues(ts, s))
<1> DEFINE inside == {at \in 0 .. Len(text) : Within(text, s, at)}
<1>1. text \in Seq(FileTokens)
  BY DEF Structured
<1>2. \A at \in 0 .. Len(text) - 1 : EndOfLine(text, at) \in 0 .. Len(text)
  <2> TAKE at \in 0 .. Len(text) - 1
  <2>1. EndOfLine(text, at) \in at + 1 .. Len(text)
    BY <1>1, EndOfLineFacts
  <2> QED
    BY <2>1
<1>3. ASSUME NEW at \in 0 .. Len(text) - 1, StartsWith(LineAt(text, at), Open(s))
      PROVE  EndOfLine(text, at) \in inside
  BY <1>2, <1>3, SectionEntered
<1>4. ASSUME NEW at \in 0 .. Len(text) - 1, at \in inside,
             ~StartsWith(LineAt(text, at), Close(s))
      PROVE  /\ EndOfLine(text, at) \in inside
             /\ EndOfValue(LineAt(text, at)) # 0 =>
                  ValueOn(LineAt(text, at)) \in ReadValues(ts, s)
  <2>1. EndOfLine(text, at) \in inside
    BY <1>2, <1>4, SectionKept
  <2>2. ASSUME EndOfValue(LineAt(text, at)) # 0
        PROVE  ValueOn(LineAt(text, at)) \in ReadValues(ts, s)
    BY <1>4, <2>2, ValueRead
  <2> QED
    BY <2>1, <2>2
<1> HIDE DEF inside
<1>5. \A at \in 0 .. Len(text) - 1 :
        StartsWith(LineAt(text, at), Open(s)) => EndOfLine(text, at) \in inside
  BY <1>3, Zenon
<1>6. \A at \in 0 .. Len(text) - 1 :
        at \in inside /\ ~StartsWith(LineAt(text, at), Close(s)) =>
          /\ EndOfLine(text, at) \in inside
          /\ EndOfValue(LineAt(text, at)) # 0 =>
               ValueOn(LineAt(text, at)) \in ReadValues(ts, s)
  BY <1>4, Zenon
<1> QED
  BY <1>1, <1>5, <1>6, ReadSectionIn

-----------------------------------------------------------------------------
(* What is written.                                                        *)

(* What opens a value was written from the table.                          *)
Told(text, table) ==
  \A p \in 1 .. Len(text) : OpensValue(text, p) => WroteSome(text, p, table)

EndsLine(text) == Len(text) # 0 /\ text[Len(text)] = NewLine

(* A line of a section, and the lines of a section.                        *)
IsBodyLine(line, table) ==
  line \in Seq(Tokens) /\ EndsLine(line) /\ (NoOpenTags => Told(line, table))
IsBody(body, table) ==
  /\ body \in Seq(Tokens) /\ (Len(body) = 0 \/ EndsLine(body))
  /\ NoOpenTags => Told(body, table)

(* All values were written, cut or not, and all sections ended.            *)
ToldBySection(text, ts) ==
  \A s \in Sections, p \in 1 .. Len(text) :
    Within(text, s, p) /\ OpensValue(text, p) => WroteSome(text, p, ts[s])
Complete(text, ts) ==
  /\ Structured(text) /\ EndsLine(text)
  /\ \A s \in Sections : ~Within(text, s, Len(text))
  /\ NoOpenTags => ToldBySection(text, ts)

(* One text holds another.                                                 *)
Holds(text, d, part) ==
  d \in Nat /\ d + Len(part) <= Len(text) /\ \A i \in 1 .. Len(part) : text[d + i] = part[i]

(* What was written is written in what holds it.                           *)
LEMMA HeldIsWritten ==
  ASSUME NEW B, NEW part \in Seq(B), NEW text \in Seq(B), NEW d, Holds(text, d, part),
         NEW p \in 1 .. Len(part), NEW table \in Seq(Values), WroteSome(part, p, table)
  PROVE  WroteSome(text, d + p, table)
<1>1. PICK m \in 1 .. Len(table), k \in Nat :
        Wrote(part, p, table[m], k) /\ Ended(part, p, table[m], k)
  BY DEF WroteSome
<1> DEFINE w == table[m]
           l == Len(part)
<1>2. /\ part[p] = Open(w.id) /\ k \in 0 .. Len(w.text) /\ p + k <= l
      /\ \A i \in 1 .. k : part[p + i] = w.text[i]
  BY <1>1, Zenon DEF Wrote
<1>3. /\ p + k < l
      /\ part[p + k + 1] = NewLine \/ (k = Len(w.text) /\ part[p + k + 1] = Close(w.id))
  BY <1>1, Zenon DEF Ended
<1>4. d \in Nat /\ d + l <= Len(text) /\ (\A i \in 1 .. l : text[d + i] = part[i])
      /\ l \in Nat /\ Len(text) \in Nat /\ p \in 1 .. l
  BY DEF Holds
<1> HIDE DEF w, l
<1>5. text[d + p] = Open(w.id) /\ d + p + k <= Len(text)
  BY <1>2, <1>4
<1>6. \A i \in 1 .. k : text[d + p + i] = w.text[i]
  <2> TAKE i \in 1 .. k
  <2>1. p + i \in 1 .. l /\ d + (p + i) = d + p + i
    <3>1. p + k <= l /\ d \in Nat /\ l \in Nat /\ p \in 1 .. l
      BY <1>2, <1>4
    <3> QED
      BY ONLY <3>1, k \in Nat, i \in 1 .. k
  <2> QED
    BY <1>2, <1>4, <2>1
<1>7. d + p + k < Len(text) /\ text[d + p + k + 1] = part[p + k + 1]
  <2>1. p + k + 1 \in 1 .. l /\ d + (p + k + 1) = d + p + k + 1
    BY <1>3, <1>4
  <2>2. text[d + (p + k + 1)] = part[p + k + 1]
    BY <1>4, <2>1
  <2>3. d + p + k < Len(text)
    BY <1>3, <1>4
  <2> QED
    BY <2>1, <2>2, <2>3
<1>8. Wrote(text, d + p, w, k)
  BY <1>2, <1>5, <1>6, Zenon DEF Wrote
<1>9. Ended(text, d + p, w, k)
  BY <1>3, <1>7, Zenon DEF Ended
<1> QED
  BY <1>8, <1>9 DEF WroteSome, w

(* The line of a value, token by token.                                    *)
LEMMA LineTokens ==
  ASSUME NEW w \in Values
  PROVE  /\ Line(w) \in Seq(Tokens) /\ Len(Line(w)) = Len(w.text) + 4
         /\ w.text \in Seq(Tokens)
         /\ Line(w)[1] = Tab /\ Line(w)[2] = Open(w.id)
         /\ \A i \in 1 .. Len(w.text) : Line(w)[2 + i] = w.text[i]
         /\ Line(w)[Len(w.text) + 3] = Close(w.id)
         /\ Line(w)[Len(w.text) + 4] = NewLine
<1>1. w.id \in Names /\ w.text \in Seq(Tokens)
  BY DEF Values, AnyValue
<1> DEFINE t == w.text
           front == <<Tab, Open(w.id)>>
           back == <<Close(w.id), NewLine>>
<1>2. /\ front \in Seq(Tokens) /\ back \in Seq(Tokens) /\ Len(front) = 2 /\ Len(back) = 2
      /\ front[1] = Tab /\ front[2] = Open(w.id) /\ back[1] = Close(w.id) /\ back[2] = NewLine
  BY <1>1, TokenFacts
<1>3. t \in Seq(Tokens)
  BY <1>1
<1>4. Line(w) = (front \o t) \o back
  BY <1>1, <1>2 DEF Line
<1> HIDE DEF t, front, back
<1>5. /\ front \o t \in Seq(Tokens) /\ Len(front \o t) = Len(front) + Len(t)
      /\ \A i \in 1 .. Len(front) : (front \o t)[i] = front[i]
      /\ \A i \in 1 .. Len(t) : (front \o t)[Len(front) + i] = t[i]
  BY <1>2, <1>3, Concatenation
<1> DEFINE most == front \o t
<1>6. /\ most \o back \in Seq(Tokens) /\ Len(most \o back) = Len(most) + Len(back)
      /\ \A i \in 1 .. Len(most) : (most \o back)[i] = most[i]
      /\ \A i \in 1 .. Len(back) : (most \o back)[Len(most) + i] = back[i]
  <2> HIDE DEF most
  <2>1. most \in Seq(Tokens)
    BY <1>5 DEF most
  <2> QED
    BY <1>2, <2>1, Concatenation
<1>7. Line(w) = most \o back /\ Len(most) = 2 + Len(t) /\ Len(t) \in Nat
  BY <1>2, <1>3, <1>4, <1>5
<1>8. most[1] = Tab /\ most[2] = Open(w.id) /\ \A i \in 1 .. Len(t) : most[2 + i] = t[i]
  BY <1>2, <1>5
<1> HIDE DEF most
<1>9. Len(Line(w)) = Len(t) + 4 /\ Line(w) \in Seq(Tokens)
  BY <1>2, <1>6, <1>7
<1>10. Line(w)[1] = Tab /\ Line(w)[2] = Open(w.id)
  BY <1>6, <1>7, <1>8
<1>11. \A i \in 1 .. Len(t) : Line(w)[2 + i] = t[i]
  BY <1>6, <1>7, <1>8
<1>12. Line(w)[Len(t) + 3] = Close(w.id) /\ Line(w)[Len(t) + 4] = NewLine
  <2>1. /\ 1 \in 1 .. Len(back) /\ 2 \in 1 .. Len(back)
        /\ Len(most) + 1 = Len(t) + 3 /\ Len(most) + 2 = Len(t) + 4
    BY <1>2, <1>7
  <2> QED
    BY <1>2, <1>6, <1>7, <2>1
<1> QED
  BY <1>1, <1>9, <1>10, <1>11, <1>12 DEF t

(* A line that is ended early, or not.                                     *)
LEMMA LineIsTold ==
  ASSUME NEW table \in Seq(Values), NEW m \in 1 .. Len(table),
         NEW n \in 1 .. Len(Line(table[m])) - 1, NEW line \in Seq(Tokens), Len(line) = n + 1,
         \A i \in 1 .. n : line[i] = Line(table[m])[i], line[n + 1] = NewLine
  PROVE  IsBodyLine(line, table)
<1> DEFINE w == table[m]
           l == Len(w.text)
<1>0. w \in Values
  OBVIOUS
<1>1. n \in 1 .. l + 3 /\ l \in Nat
  BY <1>0, LineTokens
<1>2. Line(w)[1] = Tab /\ Line(w)[2] = Open(w.id)
      /\ (\A i \in 1 .. l : Line(w)[2 + i] = w.text[i])
      /\ Line(w)[l + 3] = Close(w.id)
  BY <1>0, LineTokens
<1>3. \A i \in 1 .. n : line[i] = Line(w)[i]
  OBVIOUS
<1>4. NoOpenTags => OpenFree(w.text)
  BY <1>0 DEF Values
<1> HIDE DEF w, l
<1>5. ASSUME NoOpenTags, NEW p \in 1 .. Len(line), OpensValue(line, p)
      PROVE  WroteSome(line, p, table)
  <2>1. PICK id \in Names : line[p] = Open(id)
    BY <1>5 DEF OpensValue
  <2>2. p # n + 1 /\ p \in 1 .. n
    <3>1. p # n + 1
      BY <2>1, TagFacts
    <3> QED
      BY <3>1
  <2>3. p = 2
    <3>1. line[p] = Line(w)[p]
      BY <1>3, <2>2
    <3>2. p # 1
      BY <1>2, <2>1, <3>1, TagFacts
    <3>3. ASSUME p \in 3 .. l + 2 PROVE FALSE
      <4>1. p - 2 \in 1 .. l /\ 2 + (p - 2) = p
        BY <1>1, <3>3
      <4>2. Line(w)[p] = w.text[p - 2]
        BY <1>2, <4>1
      <4>3. w.text[p - 2][1] # "open"
        BY <1>4, <1>5, <4>1 DEF OpenFree, l
      <4> QED
        <5>1. Open(id)[1] = "open"
          BY TagFacts
        <5> QED
          BY <2>1, <3>1, <4>2, <4>3, <5>1
    <3>4. p # l + 3
      <4>1. Open(id) # Close(w.id)
        BY TagFacts
      <4> QED
        BY <1>2, <2>1, <3>1, <4>1
    <3> QED
      BY <1>1, <2>2, <3>2, <3>3, <3>4
  <2> DEFINE k == IF n = l + 3 THEN l ELSE n - 2
  <2>4. k \in 0 .. l /\ 2 + k < n + 1 /\ n >= 2
    BY <1>1, <2>2, <2>3
  <2>5. line[2] = Open(w.id)
    BY <1>2, <1>3, <2>2, <2>3
  <2>6. \A i \in 1 .. k : line[2 + i] = w.text[i]
    <3> TAKE i \in 1 .. k
    <3>1. i \in 1 .. l /\ 2 + i \in 1 .. n
      BY <1>1, <2>4
    <3> QED
      BY <1>2, <1>3, <3>1
  <2>7. line[2 + k + 1] = NewLine \/ (k = l /\ line[2 + k + 1] = Close(w.id))
    <3>1. CASE n = l + 3
      <4>1. k = l /\ 2 + k + 1 = l + 3 /\ l + 3 \in 1 .. n
        BY <1>1, <3>1
      <4> QED
        BY <1>2, <1>3, <4>1
    <3>2. CASE n # l + 3
      <4>1. 2 + k + 1 = n + 1
        BY <3>2
      <4> QED
        BY <4>1
    <3> QED
      BY <3>1, <3>2
  <2> HIDE DEF k
  <2>8. Wrote(line, 2, w, k)
    <3>1. 2 + k <= Len(line)
      BY <2>4
    <3> QED
      BY <2>4, <2>5, <2>6, <3>1 DEF Wrote, l
  <2>9. Ended(line, 2, w, k)
    BY <2>4, <2>7 DEF Ended, l
  <2>10. k \in Nat
    BY <1>1, <2>4
  <2> QED
    BY <2>3, <2>8, <2>9, <2>10 DEF WroteSome, w
<1>6. EndsLine(line)
  BY DEF EndsLine
<1> QED
  BY <1>5, <1>6 DEF IsBodyLine, Told

(* Where a place among lines put one after the other comes from.           *)
LEMMA FlatPlace ==
  ASSUME NEW B, NEW lines \in Seq(Seq(B)), NEW p \in 1 .. Len(FlattenSeq(lines))
  PROVE  \E k \in 1 .. Len(lines), d \in Nat :
           /\ Holds(FlattenSeq(lines), d, lines[k]) /\ lines[k] \in Seq(B)
           /\ p - d \in 1 .. Len(lines[k])
<1>1. SizesOf(lines) \in Seq(Nat) /\ Len(SizesOf(lines)) = Len(lines)
  BY DEF SizesOf
<1>2. PICK starts : AreStarts(starts, SizesOf(lines))
  BY <1>1, StartsExist
<1> DEFINE flat == FlattenSeq(lines)
           n == Len(lines)
<1>3. /\ flat \in Seq(B) /\ Len(flat) = starts[n + 1]
      /\ \A k \in 1 .. n : \A i \in 1 .. Len(lines[k]) : flat[starts[k] + i] = lines[k][i]
  BY <1>2, FlattenParts
<1>4. /\ \A k \in 1 .. n :
           /\ SizesOf(lines)[k] = Len(lines[k]) /\ Len(lines[k]) \in Nat /\ lines[k] \in Seq(B)
           /\ starts[k + 1] = starts[k] + Len(lines[k])
      /\ \A k \in 1 .. n + 1 : starts[k] \in Nat
  BY <1>2, SizesFacts
<1>5. \A j, k \in 1 .. n + 1 : j <= k => starts[j] <= starts[k]
  BY <1>1, <1>2, StartsGrow
<1>6. p - 1 \in Nat /\ p - 1 < starts[Len(SizesOf(lines)) + 1] /\ n \in Nat
  BY <1>1, <1>3
<1>7. PICK k \in 1 .. n : starts[k] <= p - 1 /\ p - 1 < starts[k] + SizesOf(lines)[k]
  BY <1>1, <1>2, <1>6, PieceAt
<1>8. starts[k + 1] <= Len(flat) /\ starts[k] \in Nat
  <2>1. k \in 1 .. n + 1 /\ k + 1 \in 1 .. n + 1 /\ n + 1 \in 1 .. n + 1 /\ k + 1 <= n + 1
    BY <1>6, <1>7
  <2> HIDE DEF flat, n
  <2> QED
    BY <1>3, <1>4, <1>5, <2>1
<1> DEFINE d == starts[k]
           l == Len(lines[k])
<1>9. d \in Nat /\ l \in Nat /\ d <= p - 1 /\ p - 1 < d + l /\ d + l <= Len(flat) /\ p \in Nat
  BY <1>4, <1>6, <1>7, <1>8
<1>10. \A i \in 1 .. l : flat[d + i] = lines[k][i]
  BY <1>3
<1> HIDE DEF d, l
<1>11. p - d \in 1 .. l
  BY <1>9
<1> HIDE DEF flat
<1>12. Holds(flat, d, lines[k])
  BY <1>9, <1>10 DEF Holds, l
<1> QED
  BY <1>4, <1>9, <1>11, <1>12 DEF flat, l

(* The lines of a section, put one after the other.                        *)
LEMMA BodyOfLines ==
  ASSUME NEW table \in Seq(Values), NEW lines \in Seq(Seq(Tokens)),
         \A n \in 1 .. Len(lines) : IsBodyLine(lines[n], table)
  PROVE  IsBody(FlattenSeq(lines), table)
<1> DEFINE flat == FlattenSeq(lines)
<1>1. flat \in Seq(Tokens)
  <2>1. SizesOf(lines) \in Seq(Nat)
    BY DEF SizesOf
  <2>2. PICK starts : AreStarts(starts, SizesOf(lines))
    BY <2>1, StartsExist
  <2> QED
    BY <2>2, FlattenParts
<1>2. ASSUME Len(flat) # 0 PROVE EndsLine(flat)
  <2>1. Len(flat) \in 1 .. Len(flat)
    BY <1>1, <1>2
  <2>2. PICK k \in 1 .. Len(lines), d \in Nat :
          /\ Holds(flat, d, lines[k]) /\ lines[k] \in Seq(Tokens)
          /\ Len(flat) - d \in 1 .. Len(lines[k])
    BY <2>1, FlatPlace
  <2> HIDE DEF flat
  <2>3. Len(flat) - d = Len(lines[k])
    BY <1>1, <2>2 DEF Holds
  <2>4. flat[d + (Len(flat) - d)] = lines[k][Len(lines[k])]
    BY <2>2, <2>3 DEF Holds
  <2>5. d + (Len(flat) - d) = Len(flat)
    BY <1>1, <2>2
  <2>6. EndsLine(lines[k])
    BY <2>2 DEF IsBodyLine
  <2> QED
    BY <1>2, <2>4, <2>5, <2>6 DEF EndsLine
<1>3. ASSUME NoOpenTags, NEW p \in 1 .. Len(flat), OpensValue(flat, p)
      PROVE  WroteSome(flat, p, table)
  <2>1. PICK k \in 1 .. Len(lines), d \in Nat :
          /\ Holds(flat, d, lines[k]) /\ lines[k] \in Seq(Tokens)
          /\ p - d \in 1 .. Len(lines[k])
    BY FlatPlace
  <2> HIDE DEF flat
  <2>2. d + (p - d) = p
    BY <2>1
  <2>3. flat[d + (p - d)] = lines[k][p - d]
    BY <2>1 DEF Holds
  <2>4. OpensValue(lines[k], p - d)
    BY <1>3, <2>2, <2>3 DEF OpensValue
  <2>5. Told(lines[k], table)
    BY <1>3, <2>1 DEF IsBodyLine
  <2>6. WroteSome(lines[k], p - d, table)
    BY <2>1, <2>4, <2>5 DEF Told
  <2>7. WroteSome(flat, d + (p - d), table)
    BY <1>1, <2>1, <2>6, HeldIsWritten
  <2> QED
    BY <2>2, <2>7
<1> HIDE DEF flat
<1>4. IsBody(flat, table)
  BY <1>1, <1>2, <1>3 DEF IsBody, Told
<1> QED
  BY <1>4 DEF flat

(* The text of a section, token by token.                                  *)
LEMMA SectionTokens ==
  ASSUME NEW s \in Sections, NEW lines, FlattenSeq(lines) \in Seq(Tokens)
  PROVE  LET text == SectionText(s, lines)
             body == FlattenSeq(lines)
             b    == Len(body)
         IN  /\ text \in Seq(FileTokens) /\ Len(text) = b + 5
             /\ text[1] = Open(s) /\ text[2] = NewLine
             /\ Holds(text, 2, body)
             /\ text[b + 3] = Close(s) /\ text[b + 4] = NewLine /\ text[b + 5] = NewLine
<1> DEFINE body == FlattenSeq(lines)
           b == Len(body)
           front == <<Open(s), NewLine>>
           back == <<Close(s), NewLine, NewLine>>
           most == front \o body
           text == most \o back
<1>1. /\ front \in Seq(FileTokens) /\ back \in Seq(FileTokens) /\ Len(front) = 2 /\ Len(back) = 3
      /\ front[1] = Open(s) /\ front[2] = NewLine
      /\ back[1] = Close(s) /\ back[2] = NewLine /\ back[3] = NewLine
  BY TokenFacts
<1>2. body \in Seq(FileTokens) /\ b \in Nat
  BY TokenFacts
<1>3. SectionText(s, lines) = text
  BY DEF SectionText
<1> HIDE DEF front, back, body, b
<1>4. /\ front \o body \in Seq(FileTokens) /\ Len(front \o body) = Len(front) + Len(body)
      /\ \A i \in 1 .. Len(front) : (front \o body)[i] = front[i]
      /\ \A i \in 1 .. Len(body) : (front \o body)[Len(front) + i] = body[i]
  <2>1. front \in Seq(FileTokens) /\ body \in Seq(FileTokens)
    BY <1>1, <1>2
  <2> QED
    BY ONLY <2>1, Concatenation
<1>5. most \in Seq(FileTokens) /\ Len(most) = b + 2 /\ most[1] = Open(s) /\ most[2] = NewLine
      /\ \A i \in 1 .. b : most[2 + i] = body[i]
  BY <1>1, <1>2, <1>4 DEF b
<1> HIDE DEF most
<1>6. /\ most \o back \in Seq(FileTokens) /\ Len(most \o back) = Len(most) + Len(back)
      /\ \A i \in 1 .. Len(most) : (most \o back)[i] = most[i]
      /\ \A i \in 1 .. Len(back) : (most \o back)[Len(most) + i] = back[i]
  <2>1. most \in Seq(FileTokens) /\ back \in Seq(FileTokens)
    BY <1>1, <1>5
  <2> QED
    BY ONLY <2>1, Concatenation
<1>7. text \in Seq(FileTokens) /\ Len(text) = b + 5
      /\ \A i \in 1 .. b + 2 : text[i] = most[i]
  BY <1>1, <1>2, <1>5, <1>6
<1>8. text[b + 3] = Close(s) /\ text[b + 4] = NewLine /\ text[b + 5] = NewLine
  <2>1. /\ Len(most) + 1 = b + 3 /\ Len(most) + 2 = b + 4 /\ Len(most) + 3 = b + 5
        /\ 1 \in 1 .. Len(back) /\ 2 \in 1 .. Len(back) /\ 3 \in 1 .. Len(back)
    BY <1>1, <1>2, <1>5
  <2> QED
    BY <1>1, <1>6, <2>1
<1> HIDE DEF text
<1>9. text[1] = Open(s) /\ text[2] = NewLine
  BY <1>2, <1>5, <1>7
<1>10. Holds(text, 2, body)
  <2>1. \A i \in 1 .. b : text[2 + i] = body[i]
    BY <1>2, <1>5, <1>7
  <2> QED
    BY <1>2, <1>7, <2>1 DEF Holds, b
<1> QED
  BY <1>3, <1>7, <1>8, <1>9, <1>10 DEF body, b

(* A section is complete, and says nothing of others.                      *)
LEMMA SectionComplete ==
  ASSUME NEW s \in Sections, NEW lines, NEW ts \in Tables, IsBody(FlattenSeq(lines), ts[s])
  PROVE  Complete(SectionText(s, lines), ts)
<1> DEFINE text == SectionText(s, lines)
           body == FlattenSeq(lines)
           b == Len(body)
<1>1. body \in Seq(Tokens) /\ (b = 0 \/ EndsLine(body)) /\ (NoOpenTags => Told(body, ts[s]))
  BY DEF IsBody
<1>2. /\ text \in Seq(FileTokens) /\ Len(text) = b + 5
      /\ text[1] = Open(s) /\ text[2] = NewLine
      /\ Holds(text, 2, body)
      /\ text[b + 3] = Close(s) /\ text[b + 4] = NewLine /\ text[b + 5] = NewLine
  BY <1>1, SectionTokens
<1>3. b \in Nat
  BY <1>1
<1>4. \A i \in 1 .. b : text[2 + i] = body[i] /\ body[i] \in Tokens
  BY <1>1, <1>2 DEF Holds
<1> HIDE DEF text, body, b
<1>5. ASSUME NEW p \in 1 .. b + 5, p \in 3 .. b + 2
      PROVE  text[p] = body[p - 2] /\ text[p] \in Tokens /\ p - 2 \in 1 .. b
  <2>1. p - 2 \in 1 .. b /\ 2 + (p - 2) = p
    BY <1>3, <1>5
  <2> QED
    BY <1>4, <2>1
<1>6. \A p \in 1 .. b + 5 : \/ p = 1 \/ p = 2 \/ p \in 3 .. b + 2
                            \/ p = b + 3 \/ p = b + 4 \/ p = b + 5
  BY <1>3
<1>7. ASSUME NEW p \in 1 .. b + 5, NEW r \in Sections
      PROVE  /\ text[p] = Open(r) => p = 1 /\ r = s
             /\ text[p] = Close(r) => p = b + 3
  <2>1. CASE p \in 3 .. b + 2
    <3>1. text[p] \in Tokens
      BY <1>5, <2>1
    <3> QED
      BY <3>1, TokenFacts
  <2>2. Open(r) # Close(s) /\ Open(s) # Close(r) /\ Open(r) # NewLine /\ Close(r) # NewLine
        /\ (Open(s) = Open(r) => s = r)
    BY TagFacts
  <2>3. CASE p \notin 3 .. b + 2
    BY <1>2, <1>6, <2>2, <2>3
  <2> QED
    BY <2>1, <2>3
<1>8. Structured(text)
  <2>1. ASSUME NEW p \in 1 .. Len(text), NEW r \in Sections, text[p] \in {Open(r), Close(r)}
        PROVE  p = 1 \/ text[p - 1] = NewLine
    <3>1. p \in 1 .. b + 5
      BY <1>2
    <3>2. p = 1 \/ p = b + 3
      BY <1>7, <2>1, <3>1
    <3>3. CASE p = b + 3
      <4>1. p - 1 = b + 2
        BY <1>3, <3>3
      <4>2. CASE b = 0
        BY <1>2, <4>1, <4>2
      <4>3. CASE b # 0
        <5>1. body[b] = NewLine /\ b \in 1 .. b
          BY <1>1, <1>3, <4>3 DEF EndsLine, b
        <5>2. 2 + b = b + 2
          BY <1>3
        <5> QED
          BY <1>4, <4>1, <5>1, <5>2
      <4> QED
        BY <4>2, <4>3
    <3> QED
      BY <3>2, <3>3
  <2>2. ASSUME NEW p \in 1 .. Len(text), NEW r \in Sections, text[p] = Open(r)
        PROVE  p = Len(text) \/ text[p + 1] = NewLine
    <3>1. p \in 1 .. b + 5
      BY <1>2
    <3>2. p = 1
      BY <1>7, <2>2, <3>1
    <3>3. p + 1 = 2
      BY <3>2
    <3> QED
      BY <1>2, <3>3
  <2> QED
    BY <1>2, <2>1, <2>2 DEF Structured
<1>9. EndsLine(text)
  BY <1>2, <1>3 DEF EndsLine
<1>10. ASSUME NEW r \in Sections, NEW p \in 1 .. b + 5, Within(text, r, p) PROVE r = s /\ p < b + 3
  <2>1. PICK q \in 1 .. p : text[q] = Open(r) /\ \A i \in q .. p : text[i] # Close(r)
    BY <1>10 DEF Within
  <2>2. q \in 1 .. b + 5
    BY <1>3
  <2>3. q = 1 /\ r = s
    BY <1>7, <2>1, <2>2
  <2>4. b + 3 \notin q .. p
    BY <1>2, <2>1, <2>3
  <2> QED
    BY <1>3, <2>3, <2>4
<1>11. \A r \in Sections : ~Within(text, r, Len(text))
  <2> TAKE r \in Sections
  <2>1. Len(text) \in 1 .. b + 5 /\ ~ (Len(text) < b + 3)
    BY <1>2, <1>3
  <2> QED
    BY <1>10, <2>1
<1>12. ASSUME NoOpenTags, NEW r \in Sections, NEW p \in 1 .. Len(text),
              Within(text, r, p), OpensValue(text, p)
       PROVE  WroteSome(text, p, ts[r])
  <2>1. p \in 1 .. b + 5
    BY <1>2
  <2>2. r = s /\ p < b + 3
    BY <1>10, <1>12, <2>1
  <2>3. PICK id \in Names : text[p] = Open(id)
    BY <1>12 DEF OpensValue
  <2>4. p # 1
    <3>1. id # s
      BY InformationFileAssumptions
    <3>2. Open(id) # Open(s)
      BY <3>1, TagFacts
    <3> QED
      BY <1>2, <2>3, <3>2
  <2>5. p # 2
    BY <1>2, <2>3, TagFacts
  <2>6. p \in 3 .. b + 2
    BY <1>3, <2>1, <2>2, <2>4, <2>5
  <2>7. text[p] = body[p - 2] /\ p - 2 \in 1 .. b
    BY <1>5, <2>1, <2>6
  <2>8. WroteSome(body, p - 2, ts[s])
    <3>1. OpensValue(body, p - 2)
      BY <2>3, <2>7 DEF OpensValue
    <3> QED
      BY <1>1, <1>12, <2>7, <3>1 DEF Told, b
  <2>9. WroteSome(text, 2 + (p - 2), ts[s])
    <3>1. ts[s] \in Seq(Values) /\ body \in Seq(FileTokens)
      BY <1>1, TokenFacts DEF Tables
    <3> QED
      BY <1>2, <2>7, <2>8, <3>1, HeldIsWritten DEF b
  <2>10. 2 + (p - 2) = p
    BY <2>6
  <2> QED
    BY <2>2, <2>9, <2>10
<1>13. Complete(text, ts)
  BY <1>8, <1>9, <1>11, <1>12 DEF Complete, ToldBySection
<1> QED
  BY <1>13 DEF text

(* Whole texts, one after the other.                                       *)
LEMMA CompleteTogether ==
  ASSUME NEW ts \in Tables, NEW first, Complete(first, ts), NEW second, Complete(second, ts)
  PROVE  Complete(first \o second, ts)
<1> DEFINE text == first \o second
           n == Len(first)
           m == Len(second)
<1>1. /\ first \in Seq(FileTokens) /\ second \in Seq(FileTokens)
      /\ Structured(first) /\ Structured(second)
  BY DEF Complete, Structured
<1>2. n \in Nat \ {0} /\ m \in Nat \ {0} /\ first[n] = NewLine /\ second[m] = NewLine
  BY <1>1 DEF Complete, EndsLine
<1>3. /\ text \in Seq(FileTokens) /\ Len(text) = n + m
      /\ \A i \in 1 .. n : text[i] = first[i]
      /\ \A i \in 1 .. m : text[n + i] = second[i]
  BY ONLY <1>1, Concatenation
<1>4. Holds(text, 0, first) /\ Holds(text, n, second)
  <2> HIDE DEF text
  <2> QED
    BY <1>2, <1>3 DEF Holds
<1>d. \A s \in Sections : ~Within(first, s, n)
  BY DEF Complete
<1>e. \A s \in Sections : ~Within(second, s, m)
  BY DEF Complete
<1>f. /\ \A p \in 1 .. n, s \in Sections :
           first[p] \in {Open(s), Close(s)} => p = 1 \/ first[p - 1] = NewLine
      /\ \A p \in 1 .. n, s \in Sections :
           first[p] = Open(s) => p = n \/ first[p + 1] = NewLine
  BY <1>1 DEF Structured
<1>s. /\ \A p \in 1 .. m, s \in Sections :
           second[p] \in {Open(s), Close(s)} => p = 1 \/ second[p - 1] = NewLine
      /\ \A p \in 1 .. m, s \in Sections :
           second[p] = Open(s) => p = m \/ second[p + 1] = NewLine
  BY <1>1 DEF Structured
<1> HIDE DEF text, n, m
<1>5. ASSUME NEW p \in 1 .. n + m, ~ (p \in 1 .. n)
      PROVE  p - n \in 1 .. m /\ n + (p - n) = p /\ text[p] = second[p - n]
  <2>1. p - n \in 1 .. m /\ n + (p - n) = p
    BY <1>2, <1>5
  <2> QED
    BY <1>3, <2>1
<1>6. ASSUME NEW p \in 1 .. n + m, NEW s \in Sections, text[p] \in {Open(s), Close(s)}
      PROVE  p = 1 \/ text[p - 1] = NewLine
  <2>1. CASE p \in 1 .. n
    <3>1. text[p] = first[p] /\ (p # 1 => p - 1 \in 1 .. n)
      BY <1>2, <1>3, <2>1
    <3> QED
      BY <1>3, <1>6, <1>f, <2>1, <3>1
  <2>2. CASE ~ (p \in 1 .. n)
    <3>1. p - n \in 1 .. m /\ n + (p - n) = p /\ text[p] = second[p - n]
      BY <1>5, <2>2
    <3>2. CASE p - n = 1
      <4>1. p - 1 = n /\ n \in 1 .. n
        BY <1>2, <3>1, <3>2
      <4> QED
        BY <1>2, <1>3, <4>1
    <3>3. CASE p - n # 1
      <4>1. (p - n) - 1 \in 1 .. m /\ n + ((p - n) - 1) = p - 1
        BY <1>2, <3>1, <3>3
      <4>2. second[(p - n) - 1] = NewLine
        BY <1>6, <1>s, <3>1, <3>3
      <4> QED
        BY <1>3, <4>1, <4>2
    <3> QED
      BY <3>2, <3>3
  <2> QED
    BY <2>1, <2>2
<1>7. ASSUME NEW p \in 1 .. n + m, NEW s \in Sections, text[p] = Open(s)
      PROVE  p = n + m \/ text[p + 1] = NewLine
  <2>1. CASE p \in 1 .. n
    <3>1. text[p] = first[p]
      BY <1>3, <2>1
    <3>2. p # n
      BY <1>2, <1>7, <3>1, TagFacts
    <3>3. p + 1 \in 1 .. n
      BY <1>2, <2>1, <3>2
    <3>4. first[p + 1] = NewLine
      BY <1>7, <1>f, <2>1, <3>1, <3>2
    <3> QED
      BY <1>3, <3>3, <3>4
  <2>2. CASE ~ (p \in 1 .. n)
    <3>1. p - n \in 1 .. m /\ n + (p - n) = p /\ text[p] = second[p - n]
      BY <1>5, <2>2
    <3>2. CASE p - n = m
      BY <1>2, <3>1, <3>2
    <3>3. CASE p - n # m
      <4>1. (p - n) + 1 \in 1 .. m /\ n + ((p - n) + 1) = p + 1
        BY <1>2, <3>1, <3>3
      <4>2. second[(p - n) + 1] = NewLine
        BY <1>7, <1>s, <3>1, <3>3
      <4> QED
        BY <1>3, <4>1, <4>2
    <3> QED
      BY <3>2, <3>3
  <2> QED
    BY <2>1, <2>2
<1>8. Structured(text)
  BY <1>3, <1>6, <1>7 DEF Structured
<1>9. EndsLine(text)
  <2>1. m \in 1 .. m
    BY <1>2
  <2> QED
    BY <1>2, <1>3, <2>1 DEF EndsLine
<1>10. ASSUME NEW s \in Sections, NEW p \in 1 .. n + m, Within(text, s, p)
       PROVE  \/ p \in 1 .. n /\ Within(first, s, p)
              \/ ~ (p \in 1 .. n) /\ Within(second, s, p - n)
  <2>1. PICK q \in 1 .. p : text[q] = Open(s) /\ \A r \in q .. p : text[r] # Close(s)
    BY <1>10 DEF Within
  <2>2. CASE p \in 1 .. n
    <3>1. q \in 1 .. n /\ \A r \in q .. p : r \in 1 .. n
      BY <1>2, <2>2
    <3>2. first[q] = Open(s) /\ \A r \in q .. p : first[r] # Close(s)
      BY <1>3, <2>1, <3>1
    <3> QED
      BY <2>2, <3>2 DEF Within
  <2>3. CASE ~ (p \in 1 .. n)
    <3>1. p - n \in 1 .. m /\ n < p
      BY <1>2, <2>3
    <3>2. ~ (q \in 1 .. n)
      <4>1. SUFFICES ASSUME q \in 1 .. n PROVE FALSE
        OBVIOUS
      <4>2. \A r \in q .. n : r \in q .. p /\ r \in 1 .. n
        BY <1>2, <3>1, <4>1
      <4>3. first[q] = Open(s) /\ \A r \in q .. n : first[r] # Close(s)
        BY <1>3, <2>1, <4>1, <4>2
      <4>4. Within(first, s, n)
        BY <4>1, <4>3 DEF Within
      <4> QED
        BY <1>d, <4>4
    <3>3. q \in 1 .. n + m /\ q - n \in 1 .. p - n
      BY <1>2, <3>1, <3>2
    <3>4. second[q - n] = Open(s)
      BY <1>5, <2>1, <3>2, <3>3
    <3>5. ASSUME NEW r \in q - n .. p - n PROVE second[r] # Close(s)
      <4>1. n + r \in q .. p /\ r \in 1 .. m
        BY <1>2, <3>1, <3>3
      <4> QED
        BY <1>3, <2>1, <4>1
    <3> QED
      BY <2>3, <3>3, <3>4, <3>5 DEF Within
  <2> QED
    BY <2>2, <2>3
<1>11. \A s \in Sections : ~Within(text, s, Len(text))
  <2> TAKE s \in Sections
  <2>1. Len(text) = n + m /\ n + m \in 1 .. n + m /\ ~ (n + m \in 1 .. n) /\ (n + m) - n = m
    BY <1>2, <1>3
  <2>2. ~Within(second, s, m)
    BY <1>e
  <2> QED
    BY <1>10, <2>1, <2>2
<1>12. ASSUME NoOpenTags, NEW s \in Sections, NEW p \in 1 .. n + m,
              Within(text, s, p), OpensValue(text, p)
       PROVE  WroteSome(text, p, ts[s])
  <2>1. ToldBySection(first, ts) /\ ToldBySection(second, ts) /\ ts[s] \in Seq(Values)
    BY <1>12 DEF Complete, Tables
  <2>2. CASE p \in 1 .. n
    <3>1. Within(first, s, p) /\ OpensValue(first, p)
      BY <1>3, <1>10, <1>12, <2>2 DEF OpensValue
    <3>2. WroteSome(first, p, ts[s])
      BY <2>1, <2>2, <3>1 DEF ToldBySection, n
    <3>3. p \in 1 .. Len(first) /\ 0 + p = p
      BY <2>2 DEF n
    <3>4. WroteSome(text, 0 + p, ts[s])
      BY <1>1, <1>3, <1>4, <2>1, <3>2, <3>3, HeldIsWritten
    <3> QED
      BY <3>3, <3>4
  <2>3. CASE ~ (p \in 1 .. n)
    <3>1. p - n \in 1 .. m /\ n + (p - n) = p /\ text[p] = second[p - n]
      BY <1>5, <2>3
    <3>2. Within(second, s, p - n) /\ OpensValue(second, p - n)
      BY <1>10, <1>12, <2>3, <3>1 DEF OpensValue
    <3>3. WroteSome(second, p - n, ts[s])
      BY <2>1, <3>1, <3>2 DEF ToldBySection, m
    <3>4. p - n \in 1 .. Len(second)
      BY <3>1 DEF m
    <3>5. WroteSome(text, n + (p - n), ts[s])
      BY <1>1, <1>3, <1>4, <2>1, <3>3, <3>4, HeldIsWritten
    <3> QED
      BY <3>1, <3>5
  <2> QED
    BY <2>2, <2>3
<1>13. Complete(text, ts)
  BY <1>3, <1>8, <1>9, <1>11, <1>12 DEF Complete, ToldBySection
<1> QED
  BY <1>13 DEF text

(* What the parser may meet.                                               *)
IsReadable(text, ts) == Structured(text) /\ (NoOpenTags => Explained(text, ts))

(* A whole file can be read.                                               *)
LEMMA CompleteIsReadable ==
  ASSUME NEW text, NEW ts, Complete(text, ts)
  PROVE  IsReadable(text, ts)
<1>1. ASSUME NEW p, NEW table, WroteSome(text, p, table) PROVE WroteSomeOf(text, p, table)
  BY <1>1 DEF WroteSome, WroteSomeOf
<1> QED
  BY <1>1 DEF IsReadable, Complete, Explained, ToldBySection

(* The beginning of a file can be read as well.                            *)
LEMMA BeginningIsReadable ==
  ASSUME NEW ts \in Tables, NEW text, IsReadable(text, ts), NEW n \in 0 .. Len(text)
  PROVE  IsReadable(SubSeq(text, 1, n), ts)
<1> DEFINE part == SubSeq(text, 1, n)
<1>1. text \in Seq(FileTokens)
  BY DEF IsReadable, Structured
<1>2. part \in Seq(FileTokens) /\ Len(part) = n /\ \A i \in 1 .. n : part[i] = text[i]
  BY ONLY <1>1, n \in 0 .. Len(text), FirstPart
<1>3. /\ \A p \in 1 .. Len(text), s \in Sections :
           text[p] \in {Open(s), Close(s)} => p = 1 \/ text[p - 1] = NewLine
      /\ \A p \in 1 .. Len(text), s \in Sections :
           text[p] = Open(s) => p = Len(text) \/ text[p + 1] = NewLine
  BY DEF IsReadable, Structured
<1>4. Len(text) \in Nat /\ n \in Nat /\ n <= Len(text)
  BY <1>1
<1> HIDE DEF part
<1>5. ASSUME NEW p \in 1 .. n, NEW s \in Sections, part[p] \in {Open(s), Close(s)}
      PROVE  p = 1 \/ part[p - 1] = NewLine
  <2>1. p \in 1 .. Len(text) /\ part[p] = text[p] /\ (p # 1 => p - 1 \in 1 .. n)
    BY <1>2, <1>4
  <2> QED
    BY <1>2, <1>3, <1>5, <2>1
<1>6. ASSUME NEW p \in 1 .. n, NEW s \in Sections, part[p] = Open(s)
      PROVE  p = n \/ part[p + 1] = NewLine
  <2>1. /\ p \in 1 .. Len(text) /\ part[p] = text[p]
        /\ (p # n => p + 1 \in 1 .. n /\ p # Len(text))
    BY <1>2, <1>4
  <2> QED
    BY <1>2, <1>3, <1>6, <2>1
<1>7. Structured(part)
  BY <1>2, <1>5, <1>6 DEF Structured
<1>8. ASSUME NoOpenTags, NEW s \in Sections, NEW p \in 1 .. n,
             Within(part, s, p), OpensValue(part, p)
      PROVE  WroteSomeOf(part, p, ts[s])
  <2>1. p \in 1 .. Len(text) /\ part[p] = text[p]
    BY <1>2, <1>4
  <2>2. Within(text, s, p)
    <3>1. PICK q \in 1 .. p : part[q] = Open(s) /\ \A r \in q .. p : part[r] # Close(s)
      BY <1>8 DEF Within
    <3>2. q \in 1 .. n /\ \A r \in q .. p : r \in 1 .. n
      BY <1>4
    <3>3. text[q] = Open(s) /\ \A r \in q .. p : text[r] # Close(s)
      BY <1>2, <3>1, <3>2
    <3> QED
      BY <3>3 DEF Within
  <2>3. OpensValue(text, p)
    BY <1>8, <2>1 DEF OpensValue
  <2>4. WroteSomeOf(text, p, ts[s])
    BY <1>8, <2>1, <2>2, <2>3 DEF IsReadable, Explained
  <2>5. PICK m \in 1 .. Len(ts[s]), k \in Nat :
          /\ Wrote(text, p, ts[s][m], k)
          /\ p + k = Len(text) \/ Ended(text, p, ts[s][m], k)
    BY <2>4 DEF WroteSomeOf
  <2> DEFINE w == ts[s][m]
  <2>6. Len(w.text) \in Nat
    <3>1. ts[s] \in Seq(Values)
      BY DEF Tables
    <3>2. w \in Values
      BY <2>5, <3>1
    <3>3. w.text \in Seq(Tokens)
      BY <3>2 DEF Values, AnyValue
    <3> HIDE DEF w
    <3> QED
      BY <3>3
  <2>7. /\ text[p] = Open(w.id) /\ k \in 0 .. Len(w.text) /\ p + k <= Len(text)
        /\ \A i \in 1 .. k : text[p + i] = w.text[i]
    BY <2>5, Zenon DEF Wrote
  <2>8. p + k = Len(text) \/ Ended(text, p, w, k)
    BY <2>5
  <2> HIDE DEF w
  <2>9. CASE p + k < n
    <3>1. p + k # Len(text)
      BY <1>4, <2>9
    <3>2. /\ p + k < Len(text)
          /\ text[p + k + 1] = NewLine \/ (k = Len(w.text) /\ text[p + k + 1] = Close(w.id))
      BY <2>8, <3>1 DEF Ended
    <3>3. p + k + 1 \in 1 .. n /\ p + k <= n /\ \A i \in 1 .. k : p + i \in 1 .. n
      BY <1>4, <2>5, <2>9
    <3>4. Wrote(part, p, w, k)
      BY <1>2, <2>1, <2>7, <3>3 DEF Wrote
    <3>5. Ended(part, p, w, k)
      BY <1>2, <2>9, <3>2, <3>3 DEF Ended
    <3> QED
      BY <2>5, <3>4, <3>5 DEF WroteSomeOf, w
  <2>10. CASE ~ (p + k < n)
    <3> DEFINE j == n - p
    <3>1. /\ j \in Nat /\ j <= k /\ p + j = n /\ j \in 0 .. Len(w.text)
          /\ \A i \in 1 .. j : i \in 1 .. k /\ p + i \in 1 .. n
      BY <1>4, <2>5, <2>6, <2>7, <2>10
    <3> HIDE DEF j
    <3>2. Wrote(part, p, w, j)
      <4>1. p + j <= Len(part)
        BY <1>2, <1>4, <3>1
      <4>2. \A i \in 1 .. j : part[p + i] = w.text[i]
        BY <1>2, <2>7, <3>1
      <4> QED
        BY <2>1, <2>7, <3>1, <4>1, <4>2 DEF Wrote
    <3>3. p + j = Len(part)
      BY <1>2, <3>1
    <3> QED
      BY <2>5, <3>1, <3>2, <3>3 DEF WroteSomeOf, w
  <2> QED
    BY <2>9, <2>10
<1>9. IsReadable(part, ts)
  BY <1>2, <1>7, <1>8 DEF IsReadable, Explained
<1> QED
  BY <1>9 DEF part

(* The lines of a table are told by it.                                    *)
LEMMA LinesAreTold ==
  ASSUME NEW table \in Seq(Values)
  PROVE  /\ Lines(table) \in Seq(Seq(Tokens)) /\ Len(Lines(table)) = Len(table)
         /\ \A n \in 1 .. Len(table) :
              Lines(table)[n] = Line(table[n]) /\ IsBodyLine(Lines(table)[n], table)
<1>1. \A n \in 1 .. Len(table) : table[n] \in Values
  OBVIOUS
<1>2. ASSUME NEW n \in 1 .. Len(table)
      PROVE  Line(table[n]) \in Seq(Tokens) /\ IsBodyLine(Line(table[n]), table)
  <2> DEFINE line == Line(table[n])
             l == Len(table[n].text)
  <2>1. line \in Seq(Tokens) /\ Len(line) = l + 4 /\ l \in Nat /\ line[l + 4] = NewLine
    BY <1>1, LineTokens
  <2>2. l + 3 \in 1 .. Len(line) - 1 /\ Len(line) = (l + 3) + 1 /\ (l + 3) + 1 = l + 4
    <3> HIDE DEF l, line
    <3> QED
      BY <2>1
  <2>3. line[(l + 3) + 1] = NewLine /\ \A i \in 1 .. l + 3 : line[i] = line[i]
    BY <2>1, <2>2
  <2> HIDE DEF l
  <2>4. IsBodyLine(line, table)
    BY <2>1, <2>2, <2>3, LineIsTold
  <2> QED
    BY <2>1, <2>4
<1>3. \A n \in 1 .. Len(table) : Lines(table)[n] = Line(table[n])
  BY DEF Lines
<1>4. Lines(table) \in Seq(Seq(Tokens)) /\ Len(Lines(table)) = Len(table)
  BY <1>2 DEF Lines
<1> QED
  BY <1>2, <1>3, <1>4

(* So are they when one of them was cut.                                   *)
LEMMA CutLinesAreTold ==
  ASSUME NEW table \in Seq(Values), NEW lines \in WithCutLine(table)
  PROVE  /\ lines \in Seq(Seq(Tokens))
         /\ \A n \in 1 .. Len(lines) : IsBodyLine(lines[n], table)
<1>0. PICK n \in 1 .. Len(table) :
        \E m \in 1 .. Len(Line(table[n])) - 1 :
          lines = [Lines(table) EXCEPT ![n] = SubSeq(@, 1, m) \o <<NewLine>>]
  BY DEF WithCutLine
<1>1. PICK m \in 1 .. Len(Line(table[n])) - 1 :
        lines = [Lines(table) EXCEPT ![n] = SubSeq(@, 1, m) \o <<NewLine>>]
  BY <1>0
<1>2. /\ Lines(table) \in Seq(Seq(Tokens)) /\ Len(Lines(table)) = Len(table)
      /\ \A i \in 1 .. Len(table) :
           Lines(table)[i] = Line(table[i]) /\ IsBodyLine(Lines(table)[i], table)
  BY LinesAreTold
<1> DEFINE whole == Line(table[n])
           part == SubSeq(whole, 1, m)
           cut == part \o <<NewLine>>
<1>3. whole \in Seq(Tokens) /\ m \in 0 .. Len(whole) /\ m \in Nat
  <2>1. table[n] \in Values
    BY <1>1
  <2>2. whole \in Seq(Tokens)
    BY <2>1, LineTokens
  <2>3. m \in 1 .. Len(whole) - 1
    OBVIOUS
  <2> HIDE DEF whole
  <2> QED
    BY <2>2, <2>3
<1>4. part \in Seq(Tokens) /\ Len(part) = m /\ \A i \in 1 .. m : part[i] = whole[i]
  BY ONLY <1>3, FirstPart
<1>5. <<NewLine>> \in Seq(Tokens)
  BY TokenFacts
<1>c. /\ cut \in Seq(Tokens) /\ Len(cut) = m + 1 /\ cut[m + 1] = NewLine
      /\ \A i \in 1 .. m : cut[i] = whole[i]
  <2> HIDE DEF part
  <2>1. /\ part \o <<NewLine>> \in Seq(Tokens)
        /\ Len(part \o <<NewLine>>) = Len(part) + Len(<<NewLine>>)
        /\ \A i \in 1 .. Len(part) : (part \o <<NewLine>>)[i] = part[i]
        /\ \A i \in 1 .. Len(<<NewLine>>) : (part \o <<NewLine>>)[Len(part) + i] = <<NewLine>>[i]
    BY ONLY <1>4, <1>5, Concatenation
  <2>2. Len(<<NewLine>>) = 1 /\ <<NewLine>>[1] = NewLine
    OBVIOUS
  <2> QED
    BY <1>3, <1>4, <2>1, <2>2
<1> HIDE DEF cut
<1>6. IsBodyLine(cut, table)
  BY <1>1, <1>c, LineIsTold
<1>7. lines = [Lines(table) EXCEPT ![n] = cut]
  BY <1>1, <1>2 DEF cut
<1>8. lines \in Seq(Seq(Tokens)) /\ Len(lines) = Len(table)
  BY <1>1, <1>2, <1>7, <1>c
<1>9. \A i \in 1 .. Len(table) : IsBodyLine(lines[i], table)
  BY <1>2, <1>6, <1>7
<1> QED
  BY <1>8, <1>9

(* The tables of the sections that are written.                            *)
Kept(ts) == [ts EXCEPT !["media_values"] = << >>]

(* The tables a file is written from: all but the first.                   *)
LEMMA KeptFacts ==
  ASSUME NEW ts \in Tables
  PROVE  /\ Kept(ts) \in Tables
         /\ \A s \in Written : s \in Sections /\ Kept(ts)[s] = ts[s] /\ ts[s] \in Seq(Values)
<1>1. Sections = {"media_values", "information_values", "integrity_hash_values"}
  BY DEF Sections, SectionOrder
<1>2. << >> \in Seq(Values)
  OBVIOUS
<1> QED
  BY <1>1, <1>2 DEF Kept, Tables, Written

(* The sections that close writes, with lines that are told.               *)
LEMMA SectionWritten ==
  ASSUME NEW ts \in Tables, NEW s \in Written, NEW lines \in Seq(Seq(Tokens)),
         \A n \in 1 .. Len(lines) : IsBodyLine(lines[n], ts[s])
  PROVE  Complete(SectionText(s, lines), Kept(ts))
<1>1. Kept(ts) \in Tables /\ s \in Sections /\ Kept(ts)[s] = ts[s] /\ ts[s] \in Seq(Values)
  BY KeptFacts
<1>2. IsBody(FlattenSeq(lines), ts[s])
  BY <1>1, BodyOfLines
<1> QED
  BY <1>1, <1>2, SectionComplete

(* A section whose lines are those of its table.                           *)
LEMMA TableWritten ==
  ASSUME NEW ts \in Tables, NEW s \in Written
  PROVE  Complete(SectionText(s, Lines(ts[s])), Kept(ts))
<1>1. ts[s] \in Seq(Values)
  BY KeptFacts
<1> QED
  BY <1>1, LinesAreTold, SectionWritten

(* A section one of whose lines was cut short.                             *)
LEMMA CutTableWritten ==
  ASSUME NEW ts \in Tables, NEW s \in Written, NEW lines \in WithCutLine(ts[s])
  PROVE  Complete(SectionText(s, lines), Kept(ts))
<1>1. ts[s] \in Seq(Values)
  BY KeptFacts
<1>2. /\ lines \in Seq(Seq(Tokens))
      /\ \A n \in 1 .. Len(lines) : IsBodyLine(lines[n], ts[s])
  BY <1>1, CutLinesAreTold
<1> QED
  BY <1>2, SectionWritten

(* What close writes can be read, and so can what it writes when it fails. *)
LEMMA WrittenIsReadable ==
  ASSUME NEW ts \in Tables
  PROVE  /\ IsReadable(InformationText(ts), Kept(ts))
         /\ \A text \in FailedTexts(ts) : IsReadable(text, Kept(ts))
<1> DEFINE i == "information_values"
           g == "integrity_hash_values"
           first == SectionText(i, Lines(ts[i]))
           second == SectionText(g, Lines(ts[g]))
<1>1. Kept(ts) \in Tables /\ i \in Written /\ g \in Written
  BY KeptFacts DEF Written
<1>2. Complete(first, Kept(ts)) /\ Complete(second, Kept(ts))
  BY <1>1, TableWritten
<1>3. InformationText(ts) = first \o second
  BY DEF InformationText
<1>4. Complete(InformationText(ts), Kept(ts))
  <2> HIDE DEF first, second
  <2> QED
    BY <1>1, <1>2, <1>3, CompleteTogether
<1>5. IsReadable(InformationText(ts), Kept(ts))
  BY <1>4, CompleteIsReadable
<1>6. ASSUME NEW text \in FailedTexts(ts) PROVE IsReadable(text, Kept(ts))
  <2> DEFINE whole == InformationText(ts)
  <2>1. \/ text \in {SubSeq(whole, 1, n) : n \in 0 .. Len(whole) - 1}
        \/ text \in {SectionText(i, lines) : lines \in WithCutLine(ts[i])}
        \/ text \in {first \o SectionText(g, lines) : lines \in WithCutLine(ts[g])}
    BY DEF FailedTexts
  <2> HIDE DEF first, second, whole, i, g
  <2>2. CASE text \in {SubSeq(whole, 1, n) : n \in 0 .. Len(whole) - 1}
    <3>1. PICK n \in 0 .. Len(whole) - 1 : text = SubSeq(whole, 1, n)
      BY <2>2
    <3>2. n \in 0 .. Len(whole)
      <4>1. Len(whole) \in Nat
        BY <1>5 DEF whole, IsReadable, Structured
      <4> QED
        BY <4>1
    <3> QED
      BY <1>1, <1>5, <3>1, <3>2, BeginningIsReadable DEF whole
  <2>3. CASE text \in {SectionText(i, lines) : lines \in WithCutLine(ts[i])}
    <3>1. PICK lines \in WithCutLine(ts[i]) : text = SectionText(i, lines)
      BY <2>3
    <3> QED
      BY <1>1, <3>1, CutTableWritten, CompleteIsReadable
  <2>4. CASE text \in {first \o SectionText(g, lines) : lines \in WithCutLine(ts[g])}
    <3>1. PICK lines \in WithCutLine(ts[g]) : text = first \o SectionText(g, lines)
      BY <2>4
    <3>2. Complete(SectionText(g, lines), Kept(ts))
      BY <1>1, CutTableWritten
    <3>3. Complete(text, Kept(ts))
      BY <1>1, <1>2, <3>1, <3>2, CompleteTogether
    <3> QED
      BY <3>3, CompleteIsReadable
  <2> QED
    BY <2>1, <2>2, <2>3, <2>4
<1> QED
  BY <1>5, <1>6

(* What another program wrote can be read.                                 *)
FirstText(ts) == FlattenSeq([n \in 1 .. 3 |->
                   SectionText(SectionOrder[n], Lines(ts[SectionOrder[n]]))])

(* A file that another program wrote can be read.                          *)
LEMMA FirstFileIsReadable ==
  ASSUME NEW ts \in FirstFiles
  PROVE  ts \in Tables /\ IsReadable(FirstText(ts), ts)
<1>1. ts \in [Sections -> Seq(AnyValue)]
  BY InformationFileAssumptions DEF AnyValue
<1>2. ts \in Tables
  <2>1. ASSUME NEW s \in Sections PROVE ts[s] \in Seq(Values)
    <3>1. ts[s] \in Seq(AnyValue)
      BY <1>1
    <3>2. ASSUME NEW n \in 1 .. Len(ts[s]) PROVE ts[s][n] \in Values
      BY <3>1 DEF Values, NoOpenTags
    <3> DEFINE table == ts[s]
    <3>3. table \in Seq(AnyValue) /\ \A n \in 1 .. Len(table) : table[n] \in Values
      BY <3>1, <3>2
    <3> HIDE DEF table
    <3>4. table \in Seq(Values)
      BY <3>3
    <3> QED
      BY <3>4 DEF table
  <2> QED
    BY <1>1, <2>1 DEF Tables
<1>3. ASSUME NEW s \in Sections PROVE Complete(SectionText(s, Lines(ts[s])), ts)
  <2>1. ts[s] \in Seq(Values)
    BY <1>2 DEF Tables
  <2>2. IsBody(FlattenSeq(Lines(ts[s])), ts[s])
    BY <2>1, LinesAreTold, BodyOfLines
  <2> QED
    BY <1>2, <2>2, SectionComplete
<1>4. SectionOrder[1] \in Sections /\ SectionOrder[2] \in Sections /\ SectionOrder[3] \in Sections
  BY DEF Sections
<1> DEFINE Part(n) == SectionText(SectionOrder[n], Lines(ts[SectionOrder[n]]))
<1>5. Complete(Part(1), ts) /\ Complete(Part(2), ts) /\ Complete(Part(3), ts)
  BY <1>3, <1>4
<1> HIDE DEF Part
<1> DEFINE parts == [n \in 1 .. 3 |-> Part(n)]
           a == Part(1)
           b == Part(2)
           c == Part(3)
           both == a \o b
           all == both \o c
<1>6. a \in Seq(FileTokens) /\ b \in Seq(FileTokens) /\ c \in Seq(FileTokens)
  BY <1>5 DEF Complete, Structured
<1>7. Complete(both, ts)
  BY <1>2, <1>5, CompleteTogether
<1>8. Complete(all, ts)
  <2> HIDE DEF both
  <2> QED
    BY <1>2, <1>5, <1>7, CompleteTogether
<1>9. FlattenSeq(parts) = all
  <2>1. /\ parts \in Seq(Seq(FileTokens)) /\ Len(parts) = 3
        /\ parts[1] = a /\ parts[2] = b /\ parts[3] = c
    <3>1. ASSUME NEW n \in 1 .. 3 PROVE Part(n) \in Seq(FileTokens)
      <4>1. n = 1 \/ n = 2 \/ n = 3
        OBVIOUS
      <4> QED
        BY <1>6, <4>1
    <3> QED
      BY <3>1
  <2> HIDE DEF parts, a, b, c
  <2> QED
    BY <2>1, FlattenThree
<1>10. FirstText(ts) = FlattenSeq(parts)
  BY DEF FirstText, Part
<1>11. IsReadable(FirstText(ts), ts)
  BY <1>8, <1>9, <1>10, CompleteIsReadable
<1> QED
  BY <1>2, <1>11

-----------------------------------------------------------------------------
(* The tables.                                                             *)

Matches(table, id, terminated) ==
  {i \in 1 .. Len(table) : table[i].id = id /\ table[i].terminated = terminated}

(* The first value of an identifier.                                       *)
LEMMA IndexOfFacts ==
  ASSUME NEW V, NEW table \in Seq(V), NEW id, NEW terminated
  PROVE  /\ IndexOf(table, id, terminated)
              = IF Matches(table, id, terminated) = {} THEN 0
                ELSE Min(Matches(table, id, terminated))
         /\ Matches(table, id, terminated) # {} =>
              IndexOf(table, id, terminated) \in Matches(table, id, terminated)
         /\ IndexOf(table, id, terminated) \in 0 .. Len(table)
<1> DEFINE m == Matches(table, id, terminated)
           n == IndexOf(table, id, terminated)
<1>1. n = IF m = {} THEN 0 ELSE Min(m)
  <2>1. m = {i \in 1 .. Len(table) : table[i].id = id /\ table[i].terminated = terminated}
    BY DEF Matches
  <2>2. n = IF m # {} THEN Min(m) ELSE 0
    BY <2>1, Zenon DEF IndexOf, SelectInSeq
  <2> QED
    BY <2>2
<1>2. m \in SUBSET Nat /\ m \in SUBSET (1 .. Len(table)) /\ Len(table) \in Nat
  BY DEF Matches
<1> HIDE DEF m, n
<1>3. m # {} => n \in m
  BY <1>1, <1>2, MinOfSome
<1>4. n \in 0 .. Len(table)
  BY <1>1, <1>2, <1>3
<1> QED
  BY <1>1, <1>3, <1>4 DEF m, n

(* What Keeps does.                                                        *)
LEMMA KeepsIsPlaced ==
  ASSUME NEW V, NEW table \in Seq(V), NEW v \in V
  PROVE  /\ Keeps(table, v) \in Seq(V)
         /\ \E n \in 1 .. Len(table) + 1 :
              /\ Keeps(table, v)[n] = v
              /\ \A i \in 1 .. Len(table) : i # n => Keeps(table, v)[i] = table[i]
              /\ \/ Len(Keeps(table, v)) = Len(table) /\ n \in Matches(table, v.id, v.terminated)
                    /\ n = IndexOf(table, v.id, v.terminated)
                 \/ Len(Keeps(table, v)) = Len(table) + 1 /\ n = Len(table) + 1
                    /\ Matches(table, v.id, v.terminated) = {}
<1> DEFINE n == IndexOf(table, v.id, v.terminated)
           m == Matches(table, v.id, v.terminated)
<1>1. /\ m # {} => n \in m
      /\ m = {} => n = 0
      /\ m \in SUBSET (1 .. Len(table))
  <2>1. n = (IF m = {} THEN 0 ELSE Min(m)) /\ (m # {} => n \in m)
    BY IndexOfFacts
  <2>2. m \in SUBSET (1 .. Len(table))
    BY DEF Matches
  <2> HIDE DEF n, m
  <2> QED
    BY <2>1, <2>2
<1>2. Keeps(table, v) = IF n = 0 THEN Append(table, v) ELSE [table EXCEPT ![n] = v]
  BY DEF Keeps
<1> HIDE DEF n, m
<1>3. CASE m = {}
  <2>1. Keeps(table, v) = Append(table, v)
    BY <1>1, <1>2, <1>3
  <2>2. /\ Append(table, v) \in Seq(V) /\ Len(Append(table, v)) = Len(table) + 1
        /\ Append(table, v)[Len(table) + 1] = v
        /\ \A i \in 1 .. Len(table) : Append(table, v)[i] = table[i]
    OBVIOUS
  <2>3. Len(table) + 1 \in 1 .. Len(table) + 1
    OBVIOUS
  <2> QED
    BY <1>3, <2>1, <2>2, <2>3 DEF m
<1>4. CASE m # {}
  <2>1. n \in m /\ n \in 1 .. Len(table) /\ n # 0
    <3>1. n \in m
      BY <1>1, <1>4
    <3>2. n \in 1 .. Len(table)
      BY <1>1, <3>1, Zenon
    <3> QED
      BY <3>1, <3>2
  <2>2. Keeps(table, v) = [table EXCEPT ![n] = v]
    BY <1>2, <2>1
  <2>3. /\ Keeps(table, v) \in Seq(V) /\ Len(Keeps(table, v)) = Len(table)
        /\ Keeps(table, v)[n] = v
        /\ \A i \in 1 .. Len(table) : i # n => Keeps(table, v)[i] = table[i]
    BY <2>1, <2>2
  <2>4. n \in 1 .. Len(table) + 1
    BY <2>1
  <2> QED
    BY <2>1, <2>3, <2>4 DEF m, n
<1> QED
  BY <1>3, <1>4

(* The accessors find a text.                                              *)
Finds(table, id, text) ==
  /\ IndexOf(table, id, TRUE) \in 1 .. Len(table)
  /\ table[IndexOf(table, id, TRUE)].text = text
  /\ table[IndexOf(table, id, TRUE)].id = id

(* A value that was set is found.                                          *)
LEMMA SetIsFound ==
  ASSUME NEW table \in Seq(Values), NEW v \in Values, v.terminated = TRUE
  PROVE  Finds(Keeps(table, v), v.id, v.text)
<1> DEFINE after == Keeps(table, v)
<1>1. PICK n \in 1 .. Len(table) + 1 :
        /\ after[n] = v
        /\ \A i \in 1 .. Len(table) : i # n => after[i] = table[i]
        /\ \/ Len(after) = Len(table) /\ n \in Matches(table, v.id, v.terminated)
              /\ n = IndexOf(table, v.id, v.terminated)
           \/ Len(after) = Len(table) + 1 /\ n = Len(table) + 1
              /\ Matches(table, v.id, v.terminated) = {}
  BY KeepsIsPlaced
<1>2. after \in Seq(Values)
  BY KeepsIsPlaced
<1> DEFINE found == IndexOf(table, v.id, TRUE)
           now   == IndexOf(after, v.id, TRUE)
<1> HIDE DEF after
<1>3. n \in 1 .. Len(after)
  BY <1>1 DEF Matches
<1>4. n \in Matches(after, v.id, TRUE)
  BY <1>1, <1>3 DEF Matches
<1>5. now \in Matches(after, v.id, TRUE)
  BY <1>2, <1>4, IndexOfFacts
<1>6. now \in 1 .. Len(after) /\ after[now].id = v.id
  BY <1>5 DEF Matches
<1>7. now = n
  <2>1. CASE Matches(table, v.id, v.terminated) = {}
    <3>1. \A i \in 1 .. Len(after) : i # n => i \in 1 .. Len(table)
      BY <1>1 DEF Matches
    <3> HIDE DEF now
    <3>2. SUFFICES ASSUME now # n PROVE FALSE
      OBVIOUS
    <3>3. now \in 1 .. Len(table) /\ after[now] = table[now]
      BY <1>1, <1>6, <3>1, <3>2
    <3>4. now \in Matches(table, v.id, v.terminated)
      BY <1>5, <3>3 DEF Matches
    <3> QED
      BY <2>1, <3>4
  <2>2. CASE Matches(table, v.id, v.terminated) # {}
    <3>1. Len(after) = Len(table) /\ n \in Matches(table, v.id, TRUE)
      BY <1>1, <2>2
    <3>2. Matches(after, v.id, TRUE) = Matches(table, v.id, TRUE)
      <4>1. ASSUME NEW i \in 1 .. Len(table)
            PROVE  i \in Matches(after, v.id, TRUE) <=> i \in Matches(table, v.id, TRUE)
        <5>1. CASE i = n
          BY <1>4, <3>1, <5>1
        <5>2. CASE i # n
          BY <1>1, <3>1, <4>1, <5>2 DEF Matches
        <5> QED
          BY <5>1, <5>2
      <4> QED
        BY <3>1, <4>1 DEF Matches
    <3>3. now = IndexOf(table, v.id, TRUE)
      <4>1. now = IF Matches(after, v.id, TRUE) = {} THEN 0
                  ELSE Min(Matches(after, v.id, TRUE))
        BY <1>2, IndexOfFacts
      <4>2. IndexOf(table, v.id, TRUE) = IF Matches(table, v.id, TRUE) = {} THEN 0
                                         ELSE Min(Matches(table, v.id, TRUE))
        BY IndexOfFacts
      <4> HIDE DEF now
      <4> QED
        BY <3>2, <4>1, <4>2, Zenon
    <3>4. n = IndexOf(table, v.id, TRUE)
      BY <1>1, <2>2
    <3> QED
      BY <3>3, <3>4
  <2> QED
    BY <2>1, <2>2
<1>8. after[now].text = v.text
  BY <1>1, <1>7
<1>9. Finds(after, v.id, v.text)
  <2> HIDE DEF now
  <2> QED
    BY <1>6, <1>8 DEF Finds, now
<1> QED
  BY <1>9 DEF after

(* What was found is found still, after any other value was set.           *)
LEMMA OthersAreFound ==
  ASSUME NEW table \in Seq(Values), NEW v \in Values, NEW id, NEW text,
         v.terminated = FALSE \/ v.id # id, Finds(table, id, text)
  PROVE  Finds(Keeps(table, v), id, text)
<1> DEFINE after == Keeps(table, v)
           found == IndexOf(table, id, TRUE)
           now   == IndexOf(after, id, TRUE)
<1>1. PICK n \in 1 .. Len(table) + 1 :
        /\ after[n] = v
        /\ \A i \in 1 .. Len(table) : i # n => after[i] = table[i]
        /\ \/ Len(after) = Len(table) /\ n \in Matches(table, v.id, v.terminated)
              /\ n = IndexOf(table, v.id, v.terminated)
           \/ Len(after) = Len(table) + 1 /\ n = Len(table) + 1
              /\ Matches(table, v.id, v.terminated) = {}
  BY KeepsIsPlaced
<1>2. after \in Seq(Values)
  BY KeepsIsPlaced
<1> HIDE DEF after
<1>3. ASSUME NEW i, i \in Matches(after, id, TRUE) PROVE i \in Matches(table, id, TRUE) /\ i # n
  <2>1. i # n
    BY <1>1, <1>3 DEF Matches
  <2>2. i \in 1 .. Len(table)
    BY <1>1, <1>3, <2>1 DEF Matches
  <2> QED
    BY <1>1, <1>3, <2>1, <2>2 DEF Matches
<1>4. ASSUME NEW i, i \in Matches(table, id, TRUE) PROVE i \in Matches(after, id, TRUE) /\ i # n
  <2>1. i \in 1 .. Len(table) /\ i \in 1 .. Len(after)
    BY <1>1, <1>4 DEF Matches
  <2>2. i # n
    BY <1>1, <1>4, <2>1 DEF Matches
  <2> QED
    BY <1>1, <1>4, <2>1, <2>2 DEF Matches
<1>5. Matches(after, id, TRUE) = Matches(table, id, TRUE)
  BY <1>3, <1>4
<1>6. now = found
  <2>1. now = IF Matches(after, id, TRUE) = {} THEN 0 ELSE Min(Matches(after, id, TRUE))
    BY <1>2, IndexOfFacts
  <2>2. found = IF Matches(table, id, TRUE) = {} THEN 0 ELSE Min(Matches(table, id, TRUE))
    BY IndexOfFacts
  <2> HIDE DEF now, found
  <2> QED
    BY <1>5, <2>1, <2>2, Zenon
<1>7. found \in 1 .. Len(table) /\ table[found].text = text /\ table[found].id = id
  BY DEF Finds
<1>8. found \in Matches(table, id, TRUE)
  <2>1. IndexOf(table, id, TRUE)
              = (IF Matches(table, id, TRUE) = {} THEN 0 ELSE Min(Matches(table, id, TRUE)))
        /\ (Matches(table, id, TRUE) # {} => IndexOf(table, id, TRUE) \in Matches(table, id, TRUE))
    BY IndexOfFacts
  <2> HIDE DEF now, found
  <2>2. Len(table) \in Nat /\ found # 0
    BY <1>7
  <2>3. found = (IF Matches(table, id, TRUE) = {} THEN 0 ELSE Min(Matches(table, id, TRUE)))
        /\ (Matches(table, id, TRUE) # {} => found \in Matches(table, id, TRUE))
    BY <2>1, Zenon DEF found
  <2> QED
    BY <2>2, <2>3
<1> HIDE DEF now, found
<1>9. found \in Matches(after, id, TRUE) /\ found # n
  BY <1>4, <1>8
<1>10. now \in 1 .. Len(after) /\ after[now] = table[found]
  BY <1>1, <1>6, <1>7, <1>9 DEF Matches
<1>11. Finds(after, id, text)
  BY <1>7, <1>10 DEF Finds, now
<1> QED
  BY <1>11 DEF after

(* Keeping one value after the other.                                      *)
AreKept(g, table, values, V) ==
  /\ g \in [0 .. Len(values) -> Seq(V)]
  /\ g[0] = table
  /\ \A k \in 1 .. Len(values) : g[k] = Keeps(g[k - 1], values[k])

(* The fold over the values that were read, step by step.                  *)
LEMMA KeepsAllSteps ==
  ASSUME NEW V, NEW table \in Seq(V), NEW values \in Seq(V)
  PROVE  \E g : AreKept(g, table, values, V) /\ KeepsAll(table, values) = g[Len(values)]
<1> DEFINE n == Len(values)
           Recursive(it) == it = [s \in SUBSET (1 .. n) |->
                                    IF s = {} THEN table ELSE Keeps(it[s \ {Max(s)}], values[Max(s)])]
           all == CHOOSE it : Recursive(it)
           step == [p \in (1 .. n) \X Seq(V) |-> Keeps(p[2], values[p[1]])]
<1>0. \A k \in 1 .. n, t \in Seq(V) : Keeps(t, values[k]) \in Seq(V)
  <2>1. \A k \in 1 .. n : values[k] \in V
    OBVIOUS
  <2> QED
    BY <2>1, KeepsIsPlaced
<1>1. n \in Nat /\ DOMAIN values = 1 .. n /\ step \in [(1 .. n) \X Seq(V) -> Seq(V)]
  BY <1>0, SMTT(30)
<1>2. \A k \in 1 .. n, t \in Seq(V) : step[<<k, t>>] = Keeps(t, values[k])
  OBVIOUS
<1> HIDE DEF step
<1>3. KeepsAll(table, values) = all[1 .. n]
  BY <1>1, Zenon DEF KeepsAll, FoldLeft, MapThenFoldSet
<1> HIDE DEF n, all
<1>4. PICK it : IsFold(it, n, Seq(V), table, step)
  BY <1>1, FoldExists
<1>5. /\ it \in [SUBSET (1 .. n) -> Seq(V)]
      /\ \A s \in SUBSET (1 .. n) :
           it[s] = IF s = {} THEN table ELSE step[<<Max(s), it[s \ {Max(s)}]>>]
  BY <1>4, Zenon DEF IsFold
<1>6. \A s \in SUBSET (1 .. n) : s # {} => Max(s) \in 1 .. n /\ s \ {Max(s)} \in SUBSET (1 .. n)
  BY <1>1, MaxOfSome
<1>7. \A s \in SUBSET (1 .. n) :
        it[s] = IF s = {} THEN table ELSE Keeps(it[s \ {Max(s)}], values[Max(s)])
  <2> TAKE s \in SUBSET (1 .. n)
  <2>1. CASE s = {}
    BY <1>5, <2>1
  <2>2. CASE s # {}
    <3>1. it[s] = step[<<Max(s), it[s \ {Max(s)}]>>] /\ it[s \ {Max(s)}] \in Seq(V)
      BY <1>5, <1>6, <2>2
    <3> QED
      BY <1>2, <1>6, <2>2, <3>1
  <2> QED
    BY <2>1, <2>2
<1>8. Recursive(it)
  BY <1>5, <1>7
<1>9. Recursive(all)
  BY <1>8, Zenon DEF all
<1>10. /\ DOMAIN all = SUBSET (1 .. n)
       /\ \A s \in SUBSET (1 .. n) :
            all[s] = IF s = {} THEN table ELSE Keeps(all[s \ {Max(s)}], values[Max(s)])
  BY <1>9
<1> HIDE DEF Recursive
<1>11. all[1 .. 0] = table
  <2>1. 1 .. 0 = {} /\ {} \in SUBSET (1 .. n)
    OBVIOUS
  <2> QED
    BY <1>10, <2>1
<1>12. ASSUME NEW k \in 1 .. n PROVE all[1 .. k] = Keeps(all[1 .. k - 1], values[k])
  <2>1. k \in Nat \ {0} /\ k \in 1 .. k /\ 1 .. k \in SUBSET (1 .. n)
    BY <1>1
  <2>2. Max(1 .. k) = k /\ (1 .. k) \ {k} = 1 .. k - 1
    BY <2>1, MaxOfFirst
  <2> QED
    BY <1>10, <2>1, <2>2, Zenon
<1> DEFINE g == [k \in 0 .. n |-> all[1 .. k]]
           Kept1(k) == k \in 0 .. n => all[1 .. k] \in Seq(V)
           H == {k \in Nat : Kept1(k)}
<1>13. Kept1(0)
  BY <1>11
<1>14. ASSUME NEW k \in Nat, Kept1(k) PROVE Kept1(k + 1)
  <2>1. SUFFICES ASSUME k + 1 \in 0 .. n PROVE all[1 .. k + 1] \in Seq(V)
    OBVIOUS
  <2>2. k + 1 \in 1 .. n /\ k \in 0 .. n /\ (k + 1) - 1 = k
    BY <1>1, <2>1
  <2>3. all[1 .. k + 1] = Keeps(all[1 .. k], values[k + 1])
    BY <1>12, <2>2
  <2> QED
    BY <1>0, <1>14, <2>2, <2>3
<1>15. H = Nat
  <2> HIDE DEF Kept1
  <2>1. H \in SUBSET Nat /\ 0 \in H /\ \A k \in H : k + 1 \in H
    BY <1>13, <1>14
  <2> HIDE DEF H
  <2> QED
    BY <2>1, Induction
<1>16. \A k \in 0 .. n : all[1 .. k] \in Seq(V)
  <2> TAKE k \in 0 .. n
  <2>1. k \in H
    <3> HIDE DEF H
    <3> QED
      BY <1>1, <1>15
  <2> QED
    BY <2>1
<1>17. g \in [0 .. n -> Seq(V)]
  BY <1>16
<1>18. g[0] = table
  <2>1. 0 \in 0 .. n
    BY <1>1
  <2> QED
    BY <1>11, <2>1
<1>19. ASSUME NEW k \in 1 .. n PROVE g[k] = Keeps(g[k - 1], values[k])
  <2>1. k \in 0 .. n /\ k - 1 \in 0 .. n
    BY <1>1
  <2> QED
    BY <1>12, <2>1
<1>20. g[n] = all[1 .. n]
  BY <1>1
<1> HIDE DEF g
<1>21. AreKept(g, table, values, V)
  BY <1>17, <1>18, <1>19 DEF AreKept, n
<1> QED
  BY <1>3, <1>20, <1>21 DEF n

(* The values that were kept, and none lost that was set.                  *)
LEMMA KeepsAllFacts ==
  ASSUME NEW V \in SUBSET Values, NEW table \in Seq(V), NEW values \in Seq(V)
  PROVE  /\ KeepsAll(table, values) \in Seq(V)
         /\ (\A i \in 1 .. Len(values) : values[i].terminated = FALSE) =>
              \A id, text : Finds(table, id, text) => Finds(KeepsAll(table, values), id, text)
<1> DEFINE n == Len(values)
<1>1. PICK g : AreKept(g, table, values, V) /\ KeepsAll(table, values) = g[n]
  BY KeepsAllSteps
<1>2. n \in Nat /\ \A i \in 1 .. n : values[i] \in V
  OBVIOUS
<1>3. /\ g \in [0 .. n -> Seq(V)] /\ g[0] = table
      /\ \A k \in 1 .. n : g[k] = Keeps(g[k - 1], values[k])
  BY <1>1 DEF AreKept
<1> HIDE DEF n
<1>4. ASSUME \A i \in 1 .. n : values[i].terminated = FALSE, NEW id, NEW text,
             Finds(table, id, text)
      PROVE  Finds(g[n], id, text)
  <2> DEFINE Found(k) == k \in 0 .. n => Finds(g[k], id, text)
             H == {k \in Nat : Found(k)}
  <2>1. Found(0)
    BY <1>3, <1>4
  <2>2. ASSUME NEW k \in Nat, Found(k) PROVE Found(k + 1)
    <3>1. SUFFICES ASSUME k + 1 \in 0 .. n PROVE Finds(g[k + 1], id, text)
      OBVIOUS
    <3>2. k + 1 \in 1 .. n /\ k \in 0 .. n /\ (k + 1) - 1 = k
      BY <1>2, <3>1
    <3>3. g[k + 1] = Keeps(g[k], values[k + 1]) /\ values[k + 1] \in Values
      BY <1>2, <1>3, <3>2
    <3>4. g[k] \in Seq(Values)
      <4>1. g[k] \in Seq(V)
        BY <1>3, <3>2
      <4> QED
        BY <4>1
    <3>5. values[k + 1].terminated = FALSE /\ Finds(g[k], id, text)
      BY <1>4, <2>2, <3>2
    <3> QED
      BY <3>3, <3>4, <3>5, OthersAreFound
  <2>3. H = Nat
    <3> HIDE DEF Found
    <3>1. H \in SUBSET Nat /\ 0 \in H /\ \A k \in H : k + 1 \in H
      BY <2>1, <2>2
    <3> HIDE DEF H
    <3> QED
      BY <3>1, Induction
  <2>4. Found(n)
    <3> HIDE DEF Found
    <3> QED
      BY <1>2, <2>3
  <2> QED
    BY <1>2, <2>4
<1>5. g[n] \in Seq(V)
  BY <1>2, <1>3
<1> QED
  BY <1>1, <1>4, <1>5 DEF n

(* Reading changes the tables so.                                          *)
LEMMA TablesReadFacts ==
  ASSUME NEW texts, NEW ts \in Tables, tables \in Tables,
         \A s \in Sections : IsReadable(texts[s], ts)
  PROVE  /\ TablesRead(texts) \in Tables
         /\ \A s \in Sections : \A id, text :
              Finds(tables[s], id, text) => Finds(TablesRead(texts)[s], id, text)
         /\ tables = EmptyTables =>
              \A s \in Sections : TablesRead(texts)[s] \in Seq(ReadValues(ts, s))
<1>1. ASSUME NEW s \in Sections
      PROVE  /\ TablesRead(texts)[s] = KeepsAll(tables[s], ReadSection(texts[s], s))
             /\ ReadSection(texts[s], s) \in Seq(ReadValues(ts, s))
             /\ tables[s] \in Seq(Values)
  <2>1. ReadSection(texts[s], s) \in Seq(ReadValues(ts, s))
    BY SectionRead DEF IsReadable
  <2> QED
    BY <2>1 DEF TablesRead, Tables
<1>2. \A s \in Sections : ReadValues(ts, s) \in SUBSET Values
  BY DEF ReadValues
<1>3. ASSUME NEW s \in Sections
      PROVE  /\ TablesRead(texts)[s] \in Seq(Values)
             /\ \A id, text :
                  Finds(tables[s], id, text) => Finds(TablesRead(texts)[s], id, text)
  <2> DEFINE read == ReadSection(texts[s], s)
  <2>1. read \in Seq(ReadValues(ts, s)) /\ read \in Seq(Values)
    BY <1>1, <1>2
  <2>2. \A i \in 1 .. Len(read) : read[i] \in ReadValues(ts, s)
    <3> HIDE DEF read
    <3> QED
      BY <2>1
  <2>3. \A i \in 1 .. Len(read) : read[i].terminated = FALSE
    BY <2>2, Zenon DEF ReadValues
  <2> HIDE DEF read
  <2>4. KeepsAll(tables[s], read) \in Seq(Values)
        /\ \A id, text : Finds(tables[s], id, text) => Finds(KeepsAll(tables[s], read), id, text)
    BY <1>1, <2>1, <2>3, KeepsAllFacts
  <2> QED
    BY <1>1, <2>4 DEF read
<1>4. ASSUME tables = EmptyTables, NEW s \in Sections
      PROVE  TablesRead(texts)[s] \in Seq(ReadValues(ts, s))
  <2>1. tables[s] = << >>
    BY <1>4 DEF EmptyTables
  <2>2. tables[s] \in Seq(ReadValues(ts, s))
    BY <2>1
  <2> QED
    BY <1>1, <1>2, <2>2, KeepsAllFacts
<1>5. TablesRead(texts) \in Tables
  BY <1>3 DEF TablesRead, Tables
<1> QED
  BY <1>3, <1>4, <1>5

-----------------------------------------------------------------------------
(* The inductive invariant.                                                *)

(* The state has its type.                                                 *)
TypeInv ==
  /\ tables \in Tables
  /\ h \in [session : {"none", "read", "write"}, writeInfo : BOOLEAN, named : BOOLEAN,
            stuck : BOOLEAN, opened : 0 .. MaxSessions]
  /\ h.session = "none" => ~h.named /\ ~h.stuck
  /\ h.stuck => h.writeInfo
  /\ ~file.exists => file.text = << >>

(* What was set last is in the table, under an identifier with its end.    *)
IsFoundIn(set, table, id) == set # << >> => set = <<set[1]>> /\ Finds(table, id, set[1])
LatestInv ==
  /\ latest \in [Written -> [AllIdentifiers -> Seq(Seq(Tokens))]]
  /\ \A s \in Written, id \in AllIdentifiers : IsFoundIn(latest[s][id], tables[s], id)

(* The file holds what its tables explain.                                 *)
FileInv == kept.tables \in Tables /\ IsReadable(file.text, kept.tables)

(* What a handle that only read has, it read.                              *)
ReaderInv == reader => \A s \in Sections : tables[s] \in Seq(ReadValues(kept.tables, s))

IInv == TypeInv /\ LatestInv /\ FileInv /\ ReaderInv

(* The two tables that are written, and the third.                         *)
LEMMA SectionsAre ==
  /\ Sections = {"media_values", "information_values", "integrity_hash_values"}
  /\ Written \in SUBSET Sections
  /\ "media_values" \notin Written
BY DEF Sections, SectionOrder, Written

(* Tables without values, and a file without text.                         *)
LEMMA NothingYet ==
  /\ EmptyTables \in Tables
  /\ NothingSet \in [Written -> [AllIdentifiers -> Seq(Seq(Tokens))]]
  /\ \A s \in Written, id \in AllIdentifiers : NothingSet[s][id] = << >>
  /\ IsReadable(<< >>, EmptyTables)
<1>1. << >> \in Seq(Values) /\ << >> \in Seq(Seq(Tokens))
  OBVIOUS
<1>2. << >> \in Seq(FileTokens) /\ \A p : p \notin 1 .. Len(<< >>)
  OBVIOUS
<1>3. IsReadable(<< >>, EmptyTables)
  BY <1>2, Zenon DEF IsReadable, Structured, Explained
<1> QED
  BY <1>1, <1>3 DEF EmptyTables, Tables, NothingSet

(* The invariant holds at first, with and without a file.                  *)
LEMMA InitInv == Init => IInv
<1> SUFFICES ASSUME Init PROVE IInv
  OBVIOUS
<1>1. TypeInv
  <2>1. file.exists \/ file.text = << >>
    <3>1. \/ file = [exists |-> FALSE, text |-> << >>]
          \/ \E ts \in FirstFiles : file = [exists |-> TRUE, text |-> FirstText(ts)]
      BY Zenon DEF Init, FirstText
    <3> QED
      BY <3>1
  <2>2. tables \in Tables /\ h = ClosedHandle
    BY NothingYet DEF Init
  <2> QED
    BY <2>1, <2>2, InformationFileAssumptions DEF TypeInv, ClosedHandle
<1>2. LatestInv
  BY NothingYet DEF Init, LatestInv, IsFoundIn
<1>3. FileInv
  <2>1. CASE file = [exists |-> FALSE, text |-> << >>]
             /\ kept = [complete |-> FALSE, tables |-> EmptyTables]
    BY <2>1, NothingYet DEF FileInv
  <2>2. ASSUME NEW ts \in FirstFiles, file = [exists |-> TRUE, text |-> FirstText(ts)],
               kept = [complete |-> TRUE, tables |-> ts]
        PROVE  FileInv
    BY <2>2, FirstFileIsReadable DEF FileInv
  <2> QED
    BY <2>1, <2>2 DEF Init, FirstText
<1>4. ReaderInv
  BY DEF Init, ReaderInv
<1> QED
  BY <1>1, <1>2, <1>3, <1>4 DEF IInv

(* What the program may set has its type.                                  *)
LEMMA SetValues ==
  /\ \A id \in AllIdentifiers, text \in Texts \cup HashTexts :
       Value(id, text, TRUE) \in Values /\ text \in Seq(Tokens)
  /\ \A text \in MediaTexts : Value("media_type", text, FALSE) \in Values
<1>1. ASSUME NEW id \in Names, NEW text \in Texts \cup HashTexts \cup MediaTexts,
             NEW terminated \in BOOLEAN
      PROVE  Value(id, text, terminated) \in Values /\ text \in Seq(Tokens)
  <2>1. text \in Seq(Tokens)
    BY InformationFileAssumptions
  <2>2. Value(id, text, terminated) \in AnyValue /\ Value(id, text, terminated).text = text
    BY <2>1 DEF AnyValue, Value
  <2>3. NoOpenTags => OpenFree(text)
    BY DEF NoOpenTags
  <2> QED
    BY <2>1, <2>2, <2>3 DEF Values
<1> QED
  BY <1>1 DEF AllIdentifiers, Names

(* Setting a value: it is found, and so is what was set before.            *)
LEMMA SetValueInv ==
  ASSUME IInv, NEW s \in Written, NEW id \in AllIdentifiers,
         NEW text \in Texts \cup HashTexts, SetValue(s, id, text)
  PROVE  IInv'
<1> DEFINE v == Value(id, text, TRUE)
           table == tables[s]
<1>1. v \in Values /\ text \in Seq(Tokens) /\ v.id = id /\ v.text = text /\ v.terminated = TRUE
  BY SetValues DEF Value
<1>2. tables \in Tables /\ s \in Sections /\ table \in Seq(Values)
  BY SectionsAre DEF IInv, TypeInv, Tables
<1>3. /\ tables' = [tables EXCEPT ![s] = Keeps(table, v)]
      /\ latest' = [latest EXCEPT ![s][id] = <<text>>]
      /\ reader' = FALSE /\ UNCHANGED <<h, file, kept>>
  BY DEF SetValue
<1> HIDE DEF v, table
<1>4. Keeps(table, v) \in Seq(Values)
  BY <1>1, <1>2, KeepsIsPlaced
<1>5. /\ tables' \in Tables /\ tables'[s] = Keeps(table, v)
      /\ \A t \in Sections : t # s => tables'[t] = tables[t]
  BY <1>2, <1>3, <1>4 DEF Tables
<1>6. TypeInv'
  BY <1>3, <1>5 DEF IInv, TypeInv
<1>7. LatestInv'
  <2>1. latest \in [Written -> [AllIdentifiers -> Seq(Seq(Tokens))]]
    BY DEF IInv, LatestInv
  <2>2. <<text>> \in Seq(Seq(Tokens))
    BY <1>1
  <2>3. latest' \in [Written -> [AllIdentifiers -> Seq(Seq(Tokens))]]
    BY <1>3, <2>1, <2>2
  <2>4. ASSUME NEW t \in Written, NEW other \in AllIdentifiers
        PROVE  IsFoundIn(latest'[t][other], tables'[t], other)
    <3>1. IsFoundIn(latest[t][other], tables[t], other)
      BY DEF IInv, LatestInv
    <3>2. CASE t # s
      <4>1. latest'[t] = latest[t] /\ tables'[t] = tables[t]
        BY <1>3, <1>5, <2>1, <3>2, SectionsAre
      <4> QED
        BY <3>1, <4>1
    <3>3. CASE t = s /\ other # id
      <4>1. latest'[t][other] = latest[t][other]
        BY <1>3, <2>1, <3>3
      <4>2. \A x : Finds(table, other, x) => Finds(Keeps(table, v), other, x)
        BY <1>1, <1>2, <3>3, OthersAreFound
      <4> QED
        BY <1>5, <3>1, <3>3, <4>1, <4>2 DEF IsFoundIn, table
    <3>4. CASE t = s /\ other = id
      <4>1. latest'[t][other] = <<text>> /\ <<text>>[1] = text
        BY <1>3, <2>1, <3>4
      <4>2. Finds(Keeps(table, v), id, text)
        <5>1. Finds(Keeps(table, v), v.id, v.text)
          BY <1>1, <1>2, SetIsFound
        <5> QED
          BY <1>1, <5>1
      <4> QED
        BY <1>5, <3>4, <4>1, <4>2 DEF IsFoundIn
    <3> QED
      BY <3>2, <3>3, <3>4
  <2> QED
    BY <2>3, <2>4 DEF LatestInv
<1>8. FileInv' /\ ReaderInv'
  BY <1>3 DEF IInv, FileInv, ReaderInv
<1> QED
  BY <1>6, <1>7, <1>8 DEF IInv

(* Setting the type of the media touches no value that is written.         *)
LEMMA SetMediaTypeInv ==
  ASSUME IInv, NEW text \in MediaTexts, SetMediaType(text)
  PROVE  IInv'
<1> DEFINE s == "media_values"
           v == Value("media_type", text, FALSE)
<1>1. v \in Values
  BY SetValues
<1>2. tables \in Tables /\ s \in Sections /\ tables[s] \in Seq(Values)
  BY SectionsAre DEF IInv, TypeInv, Tables
<1>3. /\ tables' = [tables EXCEPT ![s] = Keeps(tables[s], v)]
      /\ reader' = FALSE /\ UNCHANGED <<h, file, latest, kept>>
  BY DEF SetMediaType
<1> HIDE DEF v
<1>4. Keeps(tables[s], v) \in Seq(Values)
  BY <1>1, <1>2, KeepsIsPlaced
<1>5. tables' \in Tables /\ \A t \in Written : tables'[t] = tables[t]
  BY <1>2, <1>3, <1>4, SectionsAre DEF Tables
<1>6. TypeInv'
  BY <1>3, <1>5 DEF IInv, TypeInv
<1>7. LatestInv'
  BY <1>3, <1>5 DEF IInv, LatestInv
<1>8. FileInv' /\ ReaderInv'
  BY <1>3 DEF IInv, FileInv, ReaderInv
<1> QED
  BY <1>6, <1>7, <1>8 DEF IInv

(* The setters.                                                            *)
LEMMA SetInv == IInv /\ Set => IInv'
<1> SUFFICES ASSUME IInv, Set PROVE IInv'
  OBVIOUS
<1>1. ASSUME NEW text \in MediaTexts, SetMediaType(text) PROVE IInv'
  BY <1>1, SetMediaTypeInv
<1>2. ASSUME NEW id \in Identifiers, NEW text \in Texts,
             SetUtf8InformationValue(id, text) \/ SetUtf16InformationValue(id, text)
      PROVE  IInv'
  <2>1. "information_values" \in Written /\ id \in AllIdentifiers /\ text \in Texts \cup HashTexts
    BY DEF Written, AllIdentifiers
  <2>2. SetValue("information_values", id, text)
    BY <1>2 DEF SetUtf8InformationValue, SetUtf16InformationValue
  <2> QED
    BY <2>1, <2>2, SetValueInv
<1>3. ASSUME NEW id \in HashIdentifiers, NEW text \in HashTexts,
             SetUtf8IntegrityHashValue(id, text) \/ SetUtf16IntegrityHashValue(id, text)
      PROVE  IInv'
  <2>1. "integrity_hash_values" \in Written /\ id \in AllIdentifiers
        /\ text \in Texts \cup HashTexts
    BY DEF Written, AllIdentifiers
  <2>2. SetValue("integrity_hash_values", id, text)
    BY <1>3 DEF SetUtf8IntegrityHashValue, SetUtf16IntegrityHashValue
  <2> QED
    BY <2>1, <2>2, SetValueInv
<1> QED
  BY <1>1, <1>2, <1>3 DEF Set

(* Reading any beginnings of the file.                                     *)
LEMMA ReadInv ==
  ASSUME IInv, NEW texts,
         \A s \in Sections : \E n \in 0 .. Len(file.text) : texts[s] = SubSeq(file.text, 1, n),
         tables' = TablesRead(texts), reader' = (tables = EmptyTables),
         UNCHANGED <<latest, kept, file>>
  PROVE  tables' \in Tables /\ LatestInv' /\ FileInv' /\ ReaderInv'
<1>1. kept.tables \in Tables /\ IsReadable(file.text, kept.tables) /\ tables \in Tables
  BY DEF IInv, FileInv, TypeInv
<1>2. \A s \in Sections : IsReadable(texts[s], kept.tables)
  BY <1>1, BeginningIsReadable
<1>3. /\ tables' \in Tables
      /\ \A s \in Sections : \A id, text :
           Finds(tables[s], id, text) => Finds(tables'[s], id, text)
      /\ reader' => \A s \in Sections : tables'[s] \in Seq(ReadValues(kept.tables, s))
  BY <1>1, <1>2, TablesReadFacts
<1>4. LatestInv'
  BY <1>3, SectionsAre DEF IInv, LatestInv, IsFoundIn
<1> QED
  BY <1>1, <1>3, <1>4 DEF FileInv, ReaderInv

(* Another session is within the bound.                                    *)
LEMMA OpensOnce ==
  ASSUME IInv, h.opened < MaxSessions
  PROVE  h.opened + 1 \in 0 .. MaxSessions
<1>1. MaxSessions \in Nat /\ h.opened \in 0 .. MaxSessions
  BY InformationFileAssumptions DEF IInv, TypeInv
<1> QED
  BY <1>1

(* A session that reads: all of the file.                                  *)
LEMMA OpenForReadingInv == IInv /\ OpenForReading => IInv'
<1> SUFFICES ASSUME IInv, OpenForReading PROVE IInv'
  OBVIOUS
<1> DEFINE texts == [s \in Sections |-> file.text]
<1>1. /\ tables' = TablesRead(texts) /\ reader' = (tables = EmptyTables)
      /\ UNCHANGED <<latest, kept, file>>
  BY DEF OpenForReading
<1>2. file.text \in Seq(FileTokens)
  BY DEF IInv, FileInv, IsReadable, Structured
<1>3. Len(file.text) \in 0 .. Len(file.text) /\ SubSeq(file.text, 1, Len(file.text)) = file.text
  BY <1>2
<1>4. \A s \in Sections : \E n \in 0 .. Len(file.text) : texts[s] = SubSeq(file.text, 1, n)
  BY <1>3
<1> HIDE DEF texts
<1>5. tables' \in Tables /\ LatestInv' /\ FileInv' /\ ReaderInv'
  BY <1>1, <1>4, ReadInv
<1>6. TypeInv'
  <2>1. h.opened + 1 \in 0 .. MaxSessions
    BY OpensOnce DEF OpenForReading
  <2>2. (~ file.exists) \in BOOLEAN
    OBVIOUS
  <2> QED
    BY <1>1, <1>5, <2>1, <2>2 DEF OpenForReading, IInv, TypeInv
<1> QED
  BY <1>5, <1>6 DEF IInv

(* Reading that failed: of each section a beginning of the file.           *)
LEMMA OpenForReadingFailsInv == IInv /\ OpenForReadingFails => IInv'
<1> SUFFICES ASSUME IInv, OpenForReadingFails PROVE IInv'
  OBVIOUS
<1>1. file.text \in Seq(FileTokens) /\ Len(file.text) \in Nat
  BY DEF IInv, FileInv, IsReadable, Structured
<1>2. PICK s \in 1 .. 3, n \in {0} \cup {m \in 1 .. Len(file.text) : file.text[m] = NewLine} :
       tables' = TablesRead([t \in Sections |->
                    CASE t = SectionOrder[s] -> SubSeq(file.text, 1, n)
                      [] \E m \in 1 .. s - 1 : t = SectionOrder[m] -> file.text
                      [] OTHER -> << >>])
  BY DEF OpenForReadingFails
<1> DEFINE texts == [t \in Sections |->
                    CASE t = SectionOrder[s] -> SubSeq(file.text, 1, n)
                      [] \E m \in 1 .. s - 1 : t = SectionOrder[m] -> file.text
                      [] OTHER -> << >>]
<1>3. \A t \in Sections : \E i \in 0 .. Len(file.text) : texts[t] = SubSeq(file.text, 1, i)
  <2> TAKE t \in Sections
  <2>1. /\ n \in 0 .. Len(file.text) /\ Len(file.text) \in 0 .. Len(file.text)
        /\ 0 \in 0 .. Len(file.text)
    BY <1>1
  <2>2. SubSeq(file.text, 1, Len(file.text)) = file.text /\ SubSeq(file.text, 1, 0) = << >>
    BY <1>1
  <2>3. texts[t] = SubSeq(file.text, 1, n) \/ texts[t] = file.text \/ texts[t] = << >>
    <3>1. CASE t = SectionOrder[s]
      BY <3>1
    <3>2. CASE t # SectionOrder[s] /\ \E m \in 1 .. s - 1 : t = SectionOrder[m]
      BY <3>2
    <3>3. CASE t # SectionOrder[s] /\ ~ \E m \in 1 .. s - 1 : t = SectionOrder[m]
      BY <3>3
    <3> QED
      BY <3>1, <3>2, <3>3
  <2> HIDE DEF texts
  <2> QED
    BY <2>1, <2>2, <2>3
<1>4. /\ tables' = TablesRead(texts) /\ reader' = (tables = EmptyTables)
      /\ UNCHANGED <<latest, kept, file>>
  BY <1>2 DEF OpenForReadingFails
<1> HIDE DEF texts
<1>5. tables' \in Tables /\ LatestInv' /\ FileInv' /\ ReaderInv'
  BY <1>3, <1>4, ReadInv
<1>6. TypeInv'
  <2>1. h.opened + 1 \in 0 .. MaxSessions
    BY OpensOnce DEF OpenForReadingFails
  <2> QED
    BY <1>4, <1>5, <2>1 DEF OpenForReadingFails, IInv, TypeInv
<1> QED
  BY <1>5, <1>6 DEF IInv

(* A session that writes starts with the tables as they are.               *)
LEMMA OpenForWritingInv == IInv /\ OpenForWriting => IInv'
<1> SUFFICES ASSUME IInv, OpenForWriting PROVE IInv'
  OBVIOUS
<1>1. TypeInv'
  <2>1. h.opened + 1 \in 0 .. MaxSessions
    BY OpensOnce DEF OpenForWriting
  <2> QED
    BY <2>1 DEF OpenForWriting, IInv, TypeInv
<1>2. LatestInv' /\ FileInv' /\ ReaderInv'
  BY DEF OpenForWriting, IInv, LatestInv, FileInv, ReaderInv
<1> QED
  BY <1>1, <1>2 DEF IInv

(* A close that does not write.                                            *)
LEMMA CloseQuietlyInv == IInv /\ CloseQuietly => IInv'
<1> SUFFICES ASSUME IInv, CloseQuietly PROVE IInv'
  OBVIOUS
<1>1. TypeInv'
  BY DEF CloseQuietly, AfterClose, IInv, TypeInv
<1>2. LatestInv' /\ FileInv' /\ ReaderInv'
  BY DEF CloseQuietly, IInv, LatestInv, FileInv, ReaderInv
<1> QED
  BY <1>1, <1>2 DEF IInv

(* A close that wrote all sections.                                        *)
LEMMA CloseWritesInv == IInv /\ CloseWrites => IInv'
<1> SUFFICES ASSUME IInv, CloseWrites PROVE IInv'
  OBVIOUS
<1>1. tables \in Tables
  BY DEF IInv, TypeInv
<1>2. TypeInv'
  BY DEF CloseWrites, ClosesIntoFile, AfterClose, IInv, TypeInv
<1>3. LatestInv' /\ ReaderInv'
  BY DEF CloseWrites, ClosesIntoFile, IInv, LatestInv, ReaderInv
<1>4. file'.text = InformationText(tables) /\ kept'.tables = Kept(tables)
  BY DEF CloseWrites, Kept
<1>5. FileInv'
  BY <1>1, <1>4, WrittenIsReadable, KeptFacts DEF FileInv
<1> QED
  BY <1>2, <1>3, <1>5 DEF IInv

(* A close that left a part of the file.                                   *)
LEMMA CloseFailsInv == IInv /\ CloseFails => IInv'
<1> SUFFICES ASSUME IInv, CloseFails PROVE IInv'
  OBVIOUS
<1>1. tables \in Tables
  BY DEF IInv, TypeInv
<1>2. PICK text \in FailedTexts(tables) : file' = [exists |-> TRUE, text |-> text]
  BY DEF CloseFails
<1>3. TypeInv'
  BY <1>2 DEF CloseFails, ClosesIntoFile, IInv, TypeInv
<1>4. LatestInv' /\ ReaderInv'
  BY DEF CloseFails, ClosesIntoFile, IInv, LatestInv, ReaderInv
<1>5. file'.text = text /\ kept'.tables = Kept(tables)
  BY <1>2 DEF CloseFails, Kept
<1>6. FileInv'
  BY <1>1, <1>5, WrittenIsReadable, KeptFacts DEF FileInv
<1> QED
  BY <1>3, <1>4, <1>6 DEF IInv

(* A close that ended the session with a part of the file, or all of it.   *)
LEMMA CloseUnflushedInv == IInv /\ CloseUnflushed => IInv'
<1> SUFFICES ASSUME IInv, CloseUnflushed PROVE IInv'
  OBVIOUS
<1> DEFINE whole == InformationText(tables)
<1>1. tables \in Tables
  BY DEF IInv, TypeInv
<1>2. PICK n \in 0 .. Len(whole) : file' = [exists |-> TRUE, text |-> SubSeq(whole, 1, n)]
  BY DEF CloseUnflushed
<1>3. TypeInv'
  BY <1>2 DEF CloseUnflushed, ClosesIntoFile, AfterClose, IInv, TypeInv
<1>4. LatestInv' /\ ReaderInv'
  BY DEF CloseUnflushed, ClosesIntoFile, IInv, LatestInv, ReaderInv
<1>5. file'.text = SubSeq(whole, 1, n) /\ kept'.tables = Kept(tables)
  BY <1>2 DEF CloseUnflushed, Kept
<1>6. FileInv'
  <2>1. IsReadable(whole, Kept(tables)) /\ Kept(tables) \in Tables
    BY <1>1, WrittenIsReadable, KeptFacts
  <2> HIDE DEF whole
  <2>2. IsReadable(SubSeq(whole, 1, n), Kept(tables))
    BY <1>2, <2>1, BeginningIsReadable
  <2> QED
    BY <1>5, <2>1, <2>2 DEF FileInv
<1> QED
  BY <1>3, <1>4, <1>6 DEF IInv

(* A new handle, and the file of the one before.                           *)
LEMMA NewHandleInv == IInv /\ NewHandle => IInv'
<1> SUFFICES ASSUME IInv, NewHandle PROVE IInv'
  OBVIOUS
<1>1. TypeInv'
  BY NothingYet, InformationFileAssumptions DEF NewHandle, ClosedHandle, IInv, TypeInv
<1>2. LatestInv'
  BY NothingYet DEF NewHandle, LatestInv, IsFoundIn
<1>3. FileInv' /\ ReaderInv'
  BY DEF NewHandle, IInv, FileInv, ReaderInv
<1> QED
  BY <1>1, <1>2, <1>3 DEF IInv

(* Every step keeps the invariant.                                         *)
LEMMA NextInv == IInv /\ [Next]_vars => IInv'
<1>1. IInv /\ UNCHANGED vars => IInv'
  BY DEF vars, IInv, TypeInv, LatestInv, FileInv, ReaderInv
<1> QED
  BY <1>1, SetInv, OpenForReadingInv, OpenForReadingFailsInv, OpenForWritingInv,
     CloseQuietlyInv, CloseWritesInv, CloseFailsInv, CloseUnflushedInv, NewHandleInv DEF Next

(* The invariant holds always.                                             *)
THEOREM Invariant == Spec => []IInv
BY InitInv, NextInv, PTL DEF Spec

-----------------------------------------------------------------------------
(* What the parser does not miss.                                          *)

(* The last value of an identifier, in what was read.                      *)
LastIs(values, id, text) ==
  \E n \in 1 .. Len(values) :
    /\ values[n].id = id /\ values[n].text = text
    /\ \A i \in n + 1 .. Len(values) : values[i].id # id
NoneIs(values, id) == \A n \in 1 .. Len(values) : values[n].id # id

(* Values that are read before others.                                     *)
LEMMA ReadBefore ==
  ASSUME NEW V, NEW v \in V, NEW values \in Seq(V), NEW id, NEW text
  PROVE  /\ <<v>> \o values \in Seq(V)
         /\ LastIs(values, id, text) => LastIs(<<v>> \o values, id, text)
         /\ NoneIs(values, id) /\ v.id = id /\ v.text = text => LastIs(<<v>> \o values, id, text)
         /\ NoneIs(values, id) /\ v.id # id => NoneIs(<<v>> \o values, id)
<1> DEFINE all == <<v>> \o values
           l == Len(values)
<1>1. <<v>> \in Seq(V) /\ Len(<<v>>) = 1 /\ <<v>>[1] = v /\ l \in Nat
  OBVIOUS
<1>2. all \in Seq(V) /\ Len(all) = 1 + l /\ all[1] = v /\ \A i \in 1 .. l : all[1 + i] = values[i]
  BY <1>1, Concatenation
<1>3. \A i \in 2 .. 1 + l : i - 1 \in 1 .. l /\ all[i] = values[i - 1]
  <2> TAKE i \in 2 .. 1 + l
  <2>1. i - 1 \in 1 .. l /\ 1 + (i - 1) = i
    BY <1>1
  <2> QED
    BY <1>2, <2>1
<1> HIDE DEF all
<1>4. ASSUME LastIs(values, id, text) PROVE LastIs(all, id, text)
  <2>1. PICK n \in 1 .. l : /\ values[n].id = id /\ values[n].text = text
                            /\ \A i \in n + 1 .. l : values[i].id # id
    BY <1>4 DEF LastIs
  <2>2. 1 + n \in 1 .. Len(all) /\ all[1 + n] = values[n]
    BY <1>1, <1>2
  <2>3. ASSUME NEW i \in (1 + n) + 1 .. Len(all) PROVE all[i].id # id
    <3>1. i \in 2 .. 1 + l /\ i - 1 \in n + 1 .. l
      BY <1>1, <1>2
    <3> QED
      BY <1>3, <2>1, <3>1
  <2> QED
    BY <2>1, <2>2, <2>3 DEF LastIs
<1>5. ASSUME NoneIs(values, id), v.id = id, v.text = text PROVE LastIs(all, id, text)
  <2>1. 1 \in 1 .. Len(all) /\ all[1].id = id /\ all[1].text = text
    BY <1>1, <1>2, <1>5
  <2>2. ASSUME NEW i \in 1 + 1 .. Len(all) PROVE all[i].id # id
    <3>1. i \in 2 .. 1 + l
      BY <1>1, <1>2
    <3> QED
      BY <1>3, <1>5, <3>1 DEF NoneIs
  <2> QED
    BY <2>1, <2>2 DEF LastIs
<1>6. ASSUME NoneIs(values, id), v.id # id PROVE NoneIs(all, id)
  <2>1. ASSUME NEW i \in 1 .. Len(all) PROVE all[i].id # id
    <3>1. CASE i = 1
      BY <1>2, <1>6, <3>1
    <3>2. CASE i # 1
      <4>1. i \in 2 .. 1 + l
        BY <1>1, <1>2, <3>2
      <4> QED
        BY <1>3, <1>6, <4>1 DEF NoneIs
    <3> QED
      BY <3>1, <3>2
  <2> QED
    BY <2>1 DEF NoneIs
<1> QED
  BY <1>2, <1>4, <1>5, <1>6 DEF all

(* A line that starts before the end of another does not go beyond it.     *)
LEMMA EndsWithLine ==
  ASSUME NEW B, NEW text \in Seq(B), NEW most \in 0 .. Len(text),
         most = Len(text) \/ text[most] = NewLine, NEW at \in 0 .. most - 1
  PROVE  EndOfLine(text, at) \in at + 1 .. most
<1>1. at \in 0 .. Len(text) - 1 /\ Len(text) \in Nat
  OBVIOUS
<1>2. EndOfLine(text, at) \in at + 1 .. Len(text)
      /\ \A n \in at + 1 .. EndOfLine(text, at) - 1 : text[n] # NewLine
  BY <1>1, EndOfLineFacts
<1> DEFINE e == EndOfLine(text, at)
<1> HIDE DEF e
<1>3. ASSUME most < e PROVE FALSE
  <2>1. most \in at + 1 .. e - 1 /\ most # Len(text)
    BY <1>1, <1>2, <1>3 DEF e
  <2> QED
    BY <1>2, <2>1 DEF e
<1> QED
  BY <1>1, <1>2, <1>3 DEF e

(* What holds at the end of a line, and at the start of a line when it     *)
(* holds where that line ends, holds wherever a line before it starts.     *)
LEMMA LineByLine ==
  ASSUME NEW B, NEW text \in Seq(B), NEW most \in 0 .. Len(text),
         most = Len(text) \/ text[most] = NewLine, NEW S, most \in S,
         \A at \in 0 .. most - 1 : EndOfLine(text, at) \in S => at \in S
  PROVE  \A at \in 0 .. most : at \in S
<1> DEFINE H == {k \in Nat : \A at \in 0 .. most : most - at <= k => at \in S}
<1>1. most \in Nat
  OBVIOUS
<1>2. 0 \in H
  <2>1. SUFFICES ASSUME NEW at \in 0 .. most, most - at <= 0 PROVE at \in S
    OBVIOUS
  <2>2. at = most
    BY <1>1, <2>1
  <2> QED
    BY <2>2
<1>3. ASSUME NEW k \in H PROVE k + 1 \in H
  <2>1. SUFFICES ASSUME NEW at \in 0 .. most, most - at <= k + 1 PROVE at \in S
    OBVIOUS
  <2>2. CASE at = most
    BY <2>2
  <2>3. CASE at # most
    <3>1. at \in 0 .. most - 1
      BY <1>1, <2>3
    <3>2. EndOfLine(text, at) \in at + 1 .. most
      BY <3>1, EndsWithLine
    <3>3. EndOfLine(text, at) \in 0 .. most /\ most - EndOfLine(text, at) <= k
      BY <1>1, <2>1, <3>1, <3>2
    <3> QED
      BY <3>1, <3>3
  <2> QED
    BY <2>2, <2>3
<1>4. H = Nat
  <2>1. H \in SUBSET Nat
    OBVIOUS
  <2> HIDE DEF H
  <2> QED
    BY <1>2, <1>3, <2>1, Induction
<1>5. most \in H
  <2> HIDE DEF H
  <2> QED
    BY <1>1, <1>4
<1> QED
  BY <1>1, <1>5

(* The parser, one line at a time.                                         *)
IsParser(from, text, s) ==
  \A at \in 0 .. Len(text) - 1 :
    /\ from[at][FALSE] = IF StartsWith(LineAt(text, at), Open(s))
                         THEN from[EndOfLine(text, at)][TRUE]
                         ELSE from[EndOfLine(text, at)][FALSE]
    /\ from[at][TRUE] = IF StartsWith(LineAt(text, at), Close(s)) THEN << >>
                        ELSE IF EndOfValue(LineAt(text, at)) # 0
                        THEN <<ValueOn(LineAt(text, at))>> \o from[EndOfLine(text, at)][TRUE]
                        ELSE from[EndOfLine(text, at)][TRUE]

ValuesOn(text) == {ValueOn(LineAt(text, at)) : at \in 0 .. Len(text) - 1}

LEMMA ParserExists ==
  ASSUME NEW B, NEW text \in Seq(B), NEW s
  PROVE  \E from : /\ ReadSection(text, s) = from[0][FALSE]
                   /\ IsParser(from, text, s)
                   /\ \A at \in 0 .. Len(text) : from[at][TRUE] \in Seq(ValuesOn(text))
<1>1. PICK from : /\ ReadSection(text, s) = from[0][FALSE]
                  /\ \A at \in 0 .. Len(text), inSection \in BOOLEAN :
                       from[at][inSection] = ReadsOn(text, s, from, at, inSection)
  BY ReadSectionReads
<1>2. Len(text) \in Nat
  OBVIOUS
<1>3. IsParser(from, text, s)
  <2>1. SUFFICES ASSUME NEW at \in 0 .. Len(text) - 1
                 PROVE /\ from[at][FALSE] = IF StartsWith(LineAt(text, at), Open(s))
                            THEN from[EndOfLine(text, at)][TRUE]
                            ELSE from[EndOfLine(text, at)][FALSE]
                       /\ from[at][TRUE] = IF StartsWith(LineAt(text, at), Close(s)) THEN << >>
                            ELSE IF EndOfValue(LineAt(text, at)) # 0
                            THEN <<ValueOn(LineAt(text, at))>> \o from[EndOfLine(text, at)][TRUE]
                            ELSE from[EndOfLine(text, at)][TRUE]
    BY Zenon DEF IsParser
  <2> DEFINE next == EndOfLine(text, at)
             line == LineAt(text, at)
  <2>2. at # Len(text) /\ at \in 0 .. Len(text)
    BY <1>2
  <2>3. from[at][FALSE] = from[next][StartsWith(line, Open(s))]
    <3>1. ReadsOn(text, s, from, at, FALSE) = from[next][StartsWith(line, Open(s))]
      BY <2>2 DEF ReadsOn, LineAt
    <3> QED
      BY <1>1, <2>2, <3>1
  <2>4. from[at][TRUE] = IF StartsWith(line, Close(s)) THEN << >>
                         ELSE IF EndOfValue(line) # 0 THEN <<ValueOn(line)>> \o from[next][TRUE]
                         ELSE from[next][TRUE]
    <3>1. ReadsOn(text, s, from, at, TRUE)
            = IF StartsWith(line, Close(s)) THEN << >>
              ELSE IF EndOfValue(line) # 0 THEN <<ValueOn(line)>> \o from[next][TRUE]
              ELSE from[next][TRUE]
      BY <2>2 DEF ReadsOn, LineAt
    <3> QED
      BY <1>1, <2>2, <3>1
  <2>5. from[at][FALSE] = IF StartsWith(line, Open(s)) THEN from[next][TRUE] ELSE from[next][FALSE]
    <3>1. CASE StartsWith(line, Open(s))
      <4>1. StartsWith(line, Open(s)) = TRUE
        BY <3>1 DEF StartsWith
      <4> QED
        BY <2>3, <4>1
    <3>2. CASE ~StartsWith(line, Open(s))
      <4>1. StartsWith(line, Open(s)) = FALSE
        BY <3>2 DEF StartsWith
      <4> QED
        BY <2>3, <4>1
    <3> QED
      BY <3>1, <3>2
  <2> QED
    BY <2>4, <2>5
<1>4. \A at \in 0 .. Len(text) : from[at][TRUE] \in Seq(ValuesOn(text))
  <2> DEFINE S == {at \in 0 .. Len(text) : from[at][TRUE] \in Seq(ValuesOn(text))}
  <2>1. Len(text) \in S
    <3>1. << >> \in Seq(ValuesOn(text)) /\ Len(text) \in 0 .. Len(text)
      BY <1>2
    <3>2. ReadsOn(text, s, from, Len(text), TRUE) = << >>
      BY Zenon DEF ReadsOn
    <3> QED
      BY <1>1, <3>1, <3>2
  <2>2. ASSUME NEW at \in 0 .. Len(text) - 1, EndOfLine(text, at) \in S PROVE at \in S
    <3>1. ValueOn(LineAt(text, at)) \in ValuesOn(text) /\ at \in 0 .. Len(text)
      BY <1>2 DEF ValuesOn
    <3>2. from[EndOfLine(text, at)][TRUE] \in Seq(ValuesOn(text))
      BY <2>2, Zenon
    <3>e. << >> \in Seq(ValuesOn(text))
      OBVIOUS
    <3> DEFINE value == ValueOn(LineAt(text, at))
               rest == from[EndOfLine(text, at)][TRUE]
    <3>3. <<value>> \o rest \in Seq(ValuesOn(text))
      <4>1. value \in ValuesOn(text) /\ rest \in Seq(ValuesOn(text))
        BY <3>1, <3>2, Zenon
      <4> HIDE DEF value, rest
      <4> QED
        BY ONLY <4>1, ReadBefore
    <3>4. \/ from[at][TRUE] = << >> \/ from[at][TRUE] = <<value>> \o rest
          \/ from[at][TRUE] = rest
      BY <1>3, Zenon DEF IsParser
    <3> HIDE DEF value
    <3> QED
      BY <3>1, <3>2, <3>e, <3>3, <3>4
  <2>3. Len(text) \in 0 .. Len(text)
    BY <1>2
  <2> HIDE DEF S
  <2>4. \A at \in 0 .. Len(text) : at \in S
    BY <2>1, <2>2, <2>3, LineByLine
  <2> QED
    BY <2>4 DEF S
<1> QED
  BY <1>1, <1>3, <1>4

(* A line that has a token that is not blank is not empty.                 *)
LEMMA LineNotEmpty ==
  ASSUME NEW B, NEW text \in Seq(B), NEW at \in 0 .. Len(text) - 1,
         NEW p \in at + 1 .. EndOfLine(text, at), text[p] \notin {Tab, NewLine}
  PROVE  LineAt(text, at) # << >>
<1> DEFINE e == EndOfLine(text, at)
           whole == SubSeq(text, at + 1, e)
           rest == {n \in 1 .. Len(whole) : whole[n] \notin {Tab, NewLine}}
<1>1. e \in at + 1 .. Len(text)
  BY EndOfLineFacts
<1>2. whole \in Seq(B) /\ Len(whole) = e - at /\ \A i \in 1 .. e - at : whole[i] = text[at + i]
  <2> HIDE DEF e
  <2> QED
    BY <1>1
<1>3. LineAt(text, at) = IF rest = {} THEN << >> ELSE SubSeq(whole, Min(rest), Len(whole))
  BY DEF LineAt, Stripped
<1>4. p - at \in rest
  <2> HIDE DEF whole
  <2>1. p - at \in 1 .. e - at /\ at + (p - at) = p
    BY <1>1
  <2> QED
    BY <1>2, <2>1
<1>5. Min(rest) \in rest
  <2>1. rest \in SUBSET Nat
    OBVIOUS
  <2> HIDE DEF rest
  <2> QED
    BY <1>4, <2>1, MinOfSome
<1>6. Min(rest) \in 1 .. Len(whole)
  <2> HIDE DEF whole
  <2>1. \A m \in rest : m \in 1 .. Len(whole)
    OBVIOUS
  <2> HIDE DEF rest
  <2> QED
    BY <1>5, <2>1
<1> HIDE DEF whole, rest, e
<1>7. Len(SubSeq(whole, Min(rest), Len(whole))) # 0
  BY <1>2, <1>6
<1>8. LineAt(text, at) = SubSeq(whole, Min(rest), Len(whole)) /\ Len(<< >>) = 0
  BY <1>3, <1>4
<1> QED
  BY ONLY <1>7, <1>8

(* The token a line starts with is in it.                                  *)
LEMMA StartIsThere ==
  ASSUME NEW B, NEW text \in Seq(B), NEW at \in 0 .. Len(text) - 1, LineAt(text, at) # << >>
  PROVE  \E p \in at + 1 .. EndOfLine(text, at) : LineAt(text, at)[1] = text[p]
<1>1. EndOfLine(text, at) \in at + 1 .. Len(text)
  BY EndOfLineFacts
<1>2. PICK p \in at + 1 .. EndOfLine(text, at) :
        IsLineFrom(LineAt(text, at), text, p, EndOfLine(text, at))
  BY LineFacts
<1>3. 1 \in 1 .. EndOfLine(text, at) - p + 1 /\ p + 1 - 1 = p
  BY <1>1, <1>2
<1> QED
  BY <1>2, <1>3 DEF IsLineFrom

(* Where the text of a value ends, if its line is whole.                   *)
LEMMA EndOfValueIs ==
  ASSUME NEW B, NEW line \in Seq(B), NEW id \in Readable, NEW m \in 2 .. Len(line),
         line[1] = Open(id), line[m] = Close(id), \A i \in 2 .. m - 1 : ~IsTag(line[i])
  PROVE  EndOfValue(line) = m
<1> DEFINE tags == {n \in 2 .. Len(line) : line[n][1] \in {"open", "close", "bare"}}
<1>1. line # << >> /\ line[1][1] = "open" /\ line[1][2] = id /\ line[1][2] \in Readable
  BY TagFacts
<1>2. m \in tags
  BY TagFacts DEF IsTag
<1>3. \A n \in tags : n \in Nat /\ n >= m
  <2> TAKE n \in tags
  <2>1. n \in 2 .. Len(line) /\ IsTag(line[n])
    BY DEF IsTag
  <2> QED
    BY <2>1
<1>4. Min(tags) = m
  <2>1. tags \in SUBSET Nat
    OBVIOUS
  <2> HIDE DEF tags
  <2>2. Min(tags) \in tags /\ Min(tags) <= m
    BY <1>2, <2>1, MinOfSome
  <2> QED
    BY <1>3, <2>2
<1>5. EndOfValue(line) = IF /\ line # << >> /\ line[1][1] = "open" /\ line[1][2] \in Readable
                            /\ tags # {} /\ line[Min(tags)] = Close(line[1][2])
                         THEN Min(tags) ELSE 0
  BY DEF EndOfValue
<1> HIDE DEF tags
<1> QED
  BY <1>1, <1>2, <1>4, <1>5

(* A line that was written whole, and that fits the buffer, is read.       *)
LEMMA LineIsRead ==
  ASSUME NEW text \in Seq(FileTokens), NEW o \in Nat, NEW w \in Values, Plain(w),
         w.id \in Readable, Holds(text, o, Line(w))
  PROVE  /\ o \in 0 .. Len(text) - 1
         /\ EndOfLine(text, o) \in o + Len(w.text) + 3 .. o + Len(w.text) + 4
         /\ EndOfValue(LineAt(text, o)) # 0
         /\ ValueOn(LineAt(text, o)) = Value(w.id, w.text, FALSE)
<1> DEFINE n == Len(w.text)
           e == EndOfLine(text, o)
           line == LineAt(text, o)
<1>1. /\ Line(w) \in Seq(Tokens) /\ Len(Line(w)) = n + 4 /\ n \in Nat /\ w.text \in Seq(Tokens)
      /\ Line(w)[1] = Tab /\ Line(w)[2] = Open(w.id)
      /\ \A i \in 1 .. n : Line(w)[2 + i] = w.text[i]
      /\ Line(w)[n + 3] = Close(w.id) /\ Line(w)[n + 4] = NewLine
  BY LineTokens DEF Values, AnyValue
<1>2. /\ n + 3 <= LineSize /\ LineSize \in Nat
      /\ \A i \in 1 .. n : w.text[i][1] = "text"
  BY <1>1, InformationFileAssumptions DEF Plain
<1>3. o + (n + 4) <= Len(text) /\ \A i \in 1 .. n + 4 : text[o + i] = Line(w)[i]
  BY <1>1 DEF Holds
<1> HIDE DEF n, e, line
<1>n. n \in Nat /\ o \in Nat
  BY <1>1
<1>4. /\ text[o + 1] = Tab /\ text[o + 2] = Open(w.id)
      /\ text[o + n + 3] = Close(w.id) /\ text[o + n + 4] = NewLine
  <2>1. 1 \in 1 .. n + 4 /\ 2 \in 1 .. n + 4 /\ n + 3 \in 1 .. n + 4 /\ n + 4 \in 1 .. n + 4
        /\ o + (n + 3) = o + n + 3 /\ o + (n + 4) = o + n + 4
    BY <1>1
  <2> QED
    BY <1>1, <1>3, <2>1
<1>5. \A i \in 1 .. n : text[o + 2 + i] = w.text[i]
  <2> TAKE i \in 1 .. n
  <2>1. 2 + i \in 1 .. n + 4 /\ o + (2 + i) = o + 2 + i
    BY ONLY <1>n, i \in 1 .. n
  <2> QED
    BY <1>1, <1>3, <2>1
<1>6. o \in 0 .. Len(text) - 1 /\ Len(text) \in Nat
  BY <1>1, <1>3
<1>7. /\ e \in o + 1 .. Len(text)
      /\ text[e] = NewLine \/ e = o + LineSize \/ e = Len(text)
      /\ \A i \in o + 1 .. e - 1 : text[i] # NewLine /\ i # o + LineSize
  BY <1>6, EndOfLineFacts DEF e
<1>8. ~ IsTag(NewLine) /\ \A i \in 1 .. n : w.text[i] # NewLine /\ ~ IsTag(w.text[i])
  BY <1>2 DEF NewLine, IsTag
<1>9. e <= o + n + 4
  <2>1. SUFFICES ASSUME o + n + 4 < e PROVE FALSE
    BY <1>1, <1>6, <1>7
  <2>2. o + n + 4 \in o + 1 .. e - 1
    BY <1>1, <1>6, <1>7, <2>1
  <2> QED
    BY <1>4, <1>7, <2>2
<1>10. o + n + 3 <= e
  <2>1. SUFFICES ASSUME e < o + n + 3 PROVE FALSE
    BY <1>1, <1>6, <1>7
  <2>2. e # o + LineSize /\ e # Len(text)
    BY <1>1, <1>2, <1>3, <1>6, <1>7, <2>1
  <2>3. text[e] = NewLine
    BY <1>7, <2>2
  <2>4. e = o + 1 \/ e = o + 2 \/ \E i \in 1 .. n : e = o + 2 + i
    <3>1. SUFFICES ASSUME e # o + 1, e # o + 2 PROVE e - (o + 2) \in 1 .. n /\ e = o + 2 + (e - (o + 2))
      BY Zenon
    <3>2. e \in Nat /\ o + 1 <= e
      BY <1>6, <1>7
    <3> QED
      BY ONLY <1>n, <2>1, <3>1, <3>2
  <2>5. Tab # NewLine /\ Open(w.id) # NewLine
    BY TagFacts DEF Tab, NewLine
  <2> QED
    BY <1>4, <1>5, <1>8, <2>3, <2>4, <2>5
<1>11. o + 2 \in o + 1 .. e /\ text[o + 2] \notin {Tab, NewLine}
  BY <1>1, <1>4, <1>6, <1>7, <1>10, TagFacts
<1>12. line # << >>
  BY <1>6, <1>11, LineNotEmpty DEF e, line
<1>13. PICK p \in o + 1 .. e :
         /\ line \in Seq(FileTokens) /\ IsLineFrom(line, text, p, e)
         /\ text[p] \notin {Tab, NewLine}
         /\ \A q \in o + 1 .. p - 1 : text[q] \in {Tab, NewLine}
  BY <1>6, <1>12, LineFacts DEF e, line
<1>14. p = o + 2
  <2>1. p # o + 1
    BY <1>4, <1>13
  <2>2. ~ (o + 2 < p)
    <3>1. SUFFICES ASSUME o + 2 < p PROVE FALSE
      OBVIOUS
    <3>2. o + 2 \in o + 1 .. p - 1
      BY <1>7, <1>13, <3>1
    <3> QED
      BY <1>11, <1>13, <3>2
  <2> QED
    BY <1>6, <1>7, <1>13, <2>1, <2>2
<1>15. /\ line \in Seq(FileTokens) /\ Len(line) = e - (o + 2) + 1
       /\ \A i \in 1 .. e - (o + 2) + 1 : line[i] = text[(o + 2) + i - 1]
  BY <1>13, <1>14 DEF IsLineFrom
<1>16. n + 2 \in 2 .. Len(line) /\ e \in Nat /\ Len(line) \in Nat
  BY <1>1, <1>6, <1>7, <1>10, <1>15
<1>17. line[1] = Open(w.id) /\ line[n + 2] = Close(w.id)
  <2>1. 1 \in 1 .. Len(line) /\ (o + 2) + 1 - 1 = o + 2
        /\ n + 2 \in 1 .. Len(line) /\ (o + 2) + (n + 2) - 1 = o + n + 3
    BY <1>1, <1>16
  <2> QED
    BY <1>4, <1>15, <2>1
<1>18. \A i \in 1 .. n : line[i + 1] = w.text[i]
  <2> TAKE i \in 1 .. n
  <2>1. i + 1 \in 1 .. Len(line) /\ (o + 2) + (i + 1) - 1 = o + 2 + i
    BY <1>1, <1>16
  <2> QED
    BY <1>5, <1>15, <2>1
<1>19. \A i \in 2 .. (n + 2) - 1 : ~ IsTag(line[i])
  <2> TAKE i \in 2 .. (n + 2) - 1
  <2>1. i - 1 \in 1 .. n /\ (i - 1) + 1 = i
    BY <1>1
  <2>2. line[i] = w.text[i - 1]
    BY <1>18, <2>1
  <2> QED
    BY <1>8, <2>1, <2>2
<1>20. EndOfValue(line) = n + 2
  BY ONLY w.id \in Readable, <1>15, <1>16, <1>17, <1>19, EndOfValueIs
<1>21. ValueOn(line) = Value(w.id, SubSeq(line, 2, (n + 2) - 1), FALSE)
  <2>1. line[1][2] = w.id
    BY <1>17, TagFacts
  <2> QED
    BY <1>20, <2>1 DEF ValueOn
<1>22. SubSeq(line, 2, (n + 2) - 1) = w.text
  <2>1. (n + 2) - 1 = n + 1 /\ n + 1 <= Len(line)
    BY <1>1, <1>16
  <2>2. /\ SubSeq(line, 2, n + 1) \in Seq(FileTokens)
        /\ Len(SubSeq(line, 2, n + 1)) = n
        /\ \A i \in 1 .. n : SubSeq(line, 2, n + 1)[i] = line[i + 1]
    BY <1>1, <1>15, <2>1
  <2>3. w.text \in Seq(FileTokens) /\ Len(w.text) = n
    BY <1>1, TokenFacts DEF n
  <2>4. \A i \in 1 .. n : SubSeq(line, 2, n + 1)[i] = w.text[i]
    BY <1>18, <2>2
  <2>5. SubSeq(line, 2, n + 1) = w.text
    BY ONLY <2>2, <2>3, <2>4, SameElements
  <2> QED
    BY <2>1, <2>5
<1>23. EndOfValue(line) # 0
  BY <1>1, <1>20
<1>24. e \in o + n + 3 .. o + n + 4
  BY <1>1, <1>6, <1>7, <1>9, <1>10
<1> QED
  BY <1>6, <1>21, <1>22, <1>23, <1>24 DEF n, e, line

(* A section, from its tag at q to its end at c, and the first of its name. *)
IsSection(text, s, q, c) ==
  /\ q \in 1 .. Len(text) /\ c \in q + 2 .. Len(text)
  /\ text[q] = Open(s) /\ text[q + 1] = NewLine /\ text[c] = Close(s)
  /\ \A r \in 1 .. q - 1 : text[r] # Open(s)
  /\ \A r \in q .. c - 1 : text[r] # Close(s)

(* The last value of an identifier that was written in a section, on a     *)
(* line that fits the buffer, is the last of it that is read.              *)
LEMMA LastIsRead ==
  ASSUME NEW text, Structured(text), NEW s \in Sections, NEW q, NEW c, IsSection(text, s, q, c),
         NEW w \in Values, Plain(w), w.id \in Readable,
         NEW o \in Nat, o >= q + 1, text[o] = NewLine,
         Holds(text, o, Line(w)), o + Len(w.text) + 4 < c,
         \A r \in o + Len(w.text) + 4 .. c - 1 : text[r] # Open(w.id)
  PROVE  LastIs(ReadSection(text, s), w.id, w.text)
<1> DEFINE n == Len(w.text)
           f == EndOfLine(text, o)
           V == ValuesOn(text)
<1>1. text \in Seq(FileTokens) /\ Len(text) \in Nat
  BY DEF Structured
<1>2. PICK from : /\ ReadSection(text, s) = from[0][FALSE]
                  /\ IsParser(from, text, s)
                  /\ \A at \in 0 .. Len(text) : from[at][TRUE] \in Seq(V)
  BY <1>1, ParserExists
<1>3. /\ q \in 1 .. Len(text) /\ c \in q + 2 .. Len(text)
      /\ text[q] = Open(s) /\ text[q + 1] = NewLine /\ text[c] = Close(s)
      /\ \A r \in 1 .. q - 1 : text[r] # Open(s)
      /\ \A r \in q .. c - 1 : text[r] # Close(s)
  BY Zenon DEF IsSection
<1>4. /\ o \in 0 .. Len(text) - 1 /\ f \in o + n + 3 .. o + n + 4
      /\ EndOfValue(LineAt(text, o)) # 0
      /\ ValueOn(LineAt(text, o)) = Value(w.id, w.text, FALSE)
  BY <1>1, LineIsRead
<1>5. n \in Nat /\ LineSize \in Nat /\ n + 3 <= LineSize
  BY InformationFileAssumptions DEF Plain, Values, AnyValue
<1>6. text[c - 1] = NewLine /\ (q = 1 \/ text[q - 1] = NewLine)
  BY <1>1, <1>3 DEF Structured
<1> HIDE DEF n, f, V
<1>7. /\ q \in Nat /\ c \in Nat /\ q >= 1 /\ q + 2 <= c /\ c <= Len(text)
      /\ o \in Nat /\ q + 1 <= o /\ f \in Nat /\ o + n + 3 <= f /\ f <= o + n + 4 /\ o + n + 4 < c
  BY <1>1, <1>3, <1>4, <1>5 DEF n
<1>8. ASSUME NEW at \in 0 .. Len(text) - 1
      PROVE  /\ from[at][FALSE] = IF StartsWith(LineAt(text, at), Open(s))
                                  THEN from[EndOfLine(text, at)][TRUE]
                                  ELSE from[EndOfLine(text, at)][FALSE]
             /\ from[at][TRUE] = IF StartsWith(LineAt(text, at), Close(s)) THEN << >>
                                 ELSE IF EndOfValue(LineAt(text, at)) # 0
                                 THEN <<ValueOn(LineAt(text, at))>> \o from[EndOfLine(text, at)][TRUE]
                                 ELSE from[EndOfLine(text, at)][TRUE]
             /\ EndOfLine(text, at) \in at + 1 .. Len(text)
             /\ from[EndOfLine(text, at)][TRUE] \in Seq(V)
             /\ ValueOn(LineAt(text, at)) \in V
  <2>1. EndOfLine(text, at) \in at + 1 .. Len(text)
    BY <1>1, EndOfLineFacts
  <2>2. EndOfLine(text, at) \in 0 .. Len(text)
    BY <1>1, <2>1
  <2>3. ValueOn(LineAt(text, at)) \in V
    BY DEF ValuesOn, V
  <2> QED
    BY <1>2, <2>1, <2>2, <2>3, Zenon DEF IsParser
(* The section ends at its tag. *)
<1>9. c - 1 \in 0 .. Len(text) - 1 /\ from[c - 1][TRUE] = << >>
  <2>1. c - 1 \in 0 .. Len(text) - 1 /\ (c - 1) + 1 = c
    BY <1>1, <1>7
  <2>2. StartsWith(LineAt(text, c - 1), Close(s))
    <3>1. text[(c - 1) + 1] \notin {Tab, NewLine} /\ text[(c - 1) + 1] = Close(s)
      BY <1>3, <2>1, TagFacts
    <3> QED
      BY <1>1, <2>1, <3>1, LineStarts
  <2> QED
    BY <1>8, <2>1, <2>2
(* Before that no line ends it. *)
<1>10. ASSUME NEW at \in q + 1 .. c - 2
       PROVE  /\ at \in 0 .. Len(text) - 1
              /\ EndOfLine(text, at) \in at + 1 .. c - 1
              /\ from[at][TRUE] = IF EndOfValue(LineAt(text, at)) # 0
                   THEN <<ValueOn(LineAt(text, at))>> \o from[EndOfLine(text, at)][TRUE]
                   ELSE from[EndOfLine(text, at)][TRUE]
  <2>1. at \in 0 .. Len(text) - 1 /\ c - 1 \in 0 .. Len(text) /\ at \in 0 .. (c - 1) - 1
    BY <1>1, <1>7
  <2>2. EndOfLine(text, at) \in at + 1 .. c - 1
    BY <1>1, <1>6, <2>1, EndsWithLine
  <2>3. ~ StartsWith(LineAt(text, at), Close(s))
    <3>1. SUFFICES ASSUME StartsWith(LineAt(text, at), Close(s)) PROVE FALSE
      OBVIOUS
    <3>2. PICK p \in at + 1 .. EndOfLine(text, at) : text[p] = Close(s)
      BY <1>1, <2>1, <3>1, StartIsThere DEF StartsWith
    <3>3. p \in q .. c - 1
      BY <1>7, <2>2
    <3> QED
      BY <1>3, <3>2, <3>3
  <2> QED
    BY <1>8, <2>1, <2>2, <2>3
(* Behind the line there is no other value of the identifier. *)
<1>11. NoneIs(from[f][TRUE], w.id)
  <2> DEFINE S == {at \in 0 .. c - 1 : at < f \/ NoneIs(from[at][TRUE], w.id)}
  <2>1. c - 1 \in S
    <3>1. NoneIs(<< >>, w.id)
      BY DEF NoneIs
    <3>2. c - 1 \in 0 .. c - 1
      BY <1>7
    <3> QED
      BY <1>9, <3>1, <3>2
  <2>2. ASSUME NEW at \in 0 .. (c - 1) - 1, EndOfLine(text, at) \in S PROVE at \in S
    <3>1. at \in 0 .. c - 1
      BY <1>7
    <3>2. SUFFICES ASSUME ~ (at < f) PROVE NoneIs(from[at][TRUE], w.id)
      BY <3>1
    <3>3. at \in q + 1 .. c - 2
      BY <1>5, <1>7, <3>2
    <3> DEFINE e == EndOfLine(text, at)
               line == LineAt(text, at)
    <3>4. e \in at + 1 .. c - 1 /\ at \in 0 .. Len(text) - 1
      BY <1>10, <3>3
    <3>5. NoneIs(from[e][TRUE], w.id)
      <4>1. ~ (e < f)
        <5> HIDE DEF e
        <5> QED
          BY <1>7, <3>2, <3>4
      <4> QED
        BY <2>2, <4>1
    <3>6. CASE EndOfValue(line) = 0
      BY <1>10, <3>3, <3>5, <3>6
    <3>7. CASE EndOfValue(line) # 0
      <4>1. from[at][TRUE] = <<ValueOn(line)>> \o from[e][TRUE]
        BY <1>10, <3>3, <3>7
      <4>2. line # << >> /\ line[1][1] = "open"
        BY <3>7 DEF EndOfValue
      <4>3. PICK p \in at + 1 .. e : line[1] = text[p]
        BY <1>1, <3>4, <4>2, StartIsThere
      <4>4. p \in 1 .. Len(text) /\ p \in o + n + 4 .. c - 1
        <5> HIDE DEF e
        <5> QED
          BY <1>1, <1>5, <1>7, <3>2, <3>4
      <4>5. text[p] = Open(text[p][2])
        <5>1. text[p] \in FileTokens
          BY <1>1, <4>4
        <5> QED
          BY <4>2, <4>3, <5>1, TokenFacts
      <4>6. text[p][2] # w.id
        BY <4>4, <4>5 DEF n
      <4>7. ValueOn(line).id # w.id
        BY <4>3, <4>6 DEF ValueOn, Value
      <4>8. ValueOn(line) \in V /\ from[e][TRUE] \in Seq(V)
        BY <1>8, <3>4
      <4> HIDE DEF line, e
      <4>9. NoneIs(<<ValueOn(line)>> \o from[e][TRUE], w.id)
        BY ONLY <3>5, <4>7, <4>8, ReadBefore
      <4> QED
        BY <4>1, <4>9
    <3> QED
      BY <3>6, <3>7
  <2>3. c - 1 \in 0 .. Len(text)
    BY <1>1, <1>7
  <2> HIDE DEF S
  <2>4. \A at \in 0 .. c - 1 : at \in S
    BY <1>1, <1>6, <2>1, <2>2, <2>3, LineByLine
  <2>5. f \in 0 .. c - 1 /\ ~ (f < f)
    BY <1>5, <1>7
  <2> QED
    BY <2>4, <2>5 DEF S
(* The line itself. *)
<1>12. LastIs(from[o][TRUE], w.id, w.text)
  <2>1. o \in q + 1 .. c - 2
    BY <1>5, <1>7
  <2>2. from[o][TRUE] = <<ValueOn(LineAt(text, o))>> \o from[f][TRUE]
    BY <1>4, <1>10, <2>1 DEF f
  <2>3. ValueOn(LineAt(text, o)) \in V /\ from[f][TRUE] \in Seq(V)
    BY <1>4, <1>8 DEF f
  <2>4. ValueOn(LineAt(text, o)).id = w.id /\ ValueOn(LineAt(text, o)).text = w.text
    BY <1>4 DEF Value
  <2> DEFINE v == ValueOn(LineAt(text, o))
             rest == from[f][TRUE]
  <2>5. v \in V /\ rest \in Seq(V) /\ v.id = w.id /\ v.text = w.text /\ NoneIs(rest, w.id)
    BY <1>11, <2>3, <2>4
  <2> HIDE DEF v, rest
  <2>6. LastIs(<<v>> \o rest, w.id, w.text)
    BY ONLY <2>5, ReadBefore
  <2> QED
    BY <2>2, <2>6 DEF v, rest
(* The lines before it, in the section. *)
<1>13. LastIs(from[q + 1][TRUE], w.id, w.text)
  <2> DEFINE S == {at \in 0 .. o : at < q + 1 \/ LastIs(from[at][TRUE], w.id, w.text)}
  <2>1. o \in S
    <3>1. o \in 0 .. o
      BY <1>7
    <3> QED
      BY <1>12, <3>1
  <2>2. ASSUME NEW at \in 0 .. o - 1, EndOfLine(text, at) \in S PROVE at \in S
    <3>1. at \in 0 .. o
      BY <1>7
    <3>2. SUFFICES ASSUME ~ (at < q + 1) PROVE LastIs(from[at][TRUE], w.id, w.text)
      BY <3>1
    <3>3. at \in q + 1 .. c - 2 /\ at \in 0 .. Len(text) - 1
      BY <1>1, <1>5, <1>7, <3>2
    <3> DEFINE e == EndOfLine(text, at)
               v == ValueOn(LineAt(text, at))
               rest == from[e][TRUE]
    <3>4. e \in at + 1 .. c - 1
      BY <1>10, <3>3
    <3>5. LastIs(rest, w.id, w.text)
      <4>1. ~ (e < q + 1)
        <5> HIDE DEF e
        <5> QED
          BY <1>7, <3>2, <3>4
      <4> QED
        BY <2>2, <4>1
    <3>6. v \in V /\ rest \in Seq(V)
      BY <1>8, <3>3
    <3>7. from[at][TRUE] = rest \/ from[at][TRUE] = <<v>> \o rest
      BY <1>10, <3>3
    <3> HIDE DEF v, rest
    <3>8. LastIs(<<v>> \o rest, w.id, w.text)
      BY ONLY <3>5, <3>6, ReadBefore
    <3> QED
      BY <3>5, <3>7, <3>8
  <2>3. o \in 0 .. Len(text)
    BY <1>4
  <2> HIDE DEF S
  <2>4. \A at \in 0 .. o : at \in S
    BY <1>1, <2>1, <2>2, <2>3, LineByLine
  <2>5. q + 1 \in 0 .. o /\ ~ (q + 1 < q + 1)
    BY <1>7
  <2> QED
    BY <2>4, <2>5 DEF S
(* The line of the section's tag. *)
<1>14. q - 1 \in 0 .. Len(text) - 1 /\ LastIs(from[q - 1][FALSE], w.id, w.text)
  <2> DEFINE e == EndOfLine(text, q - 1)
  <2>1. q - 1 \in 0 .. Len(text) - 1 /\ (q - 1) + 1 = q
    BY <1>1, <1>7
  <2>2. StartsWith(LineAt(text, q - 1), Open(s))
    <3>1. text[(q - 1) + 1] \notin {Tab, NewLine} /\ text[(q - 1) + 1] = Open(s)
      BY <1>3, <2>1, TagFacts
    <3> QED
      BY <1>1, <2>1, <3>1, LineStarts
  <2>3. /\ e \in q .. Len(text)
        /\ text[e] = NewLine \/ e = (q - 1) + LineSize \/ e = Len(text)
        /\ \A i \in q .. e - 1 : text[i] # NewLine
    <3>1. /\ e \in (q - 1) + 1 .. Len(text)
          /\ text[e] = NewLine \/ e = (q - 1) + LineSize \/ e = Len(text)
          /\ \A i \in (q - 1) + 1 .. e - 1 : text[i] # NewLine
      BY <1>1, <2>1, EndOfLineFacts
    <3> HIDE DEF e
    <3> QED
      BY <2>1, <3>1
  <2> HIDE DEF e
  <2>4. e = q + 1
    <3>1. e # q
      <4>1. q # (q - 1) + LineSize /\ q # Len(text)
        BY <1>5, <1>7
      <4>2. text[q] # NewLine
        BY <1>3, TagFacts
      <4> QED
        BY <2>3, <4>1, <4>2
    <3>2. ~ (q + 1 < e)
      <4>1. SUFFICES ASSUME q + 1 < e PROVE FALSE
        OBVIOUS
      <4>2. q + 1 \in q .. e - 1
        BY <1>7, <2>3, <4>1
      <4> QED
        BY <1>3, <2>3, <4>2
    <3> QED
      BY <1>7, <2>3, <3>1, <3>2
  <2>5. from[q - 1][FALSE] = from[q + 1][TRUE]
    BY <1>8, <2>1, <2>2, <2>4 DEF e
  <2> QED
    BY <1>13, <2>1, <2>5
(* The lines before the section. *)
<1>15. LastIs(from[0][FALSE], w.id, w.text)
  <2>1. CASE q = 1
    <3>1. q - 1 = 0
      BY <2>1
    <3> QED
      BY <1>14, <3>1
  <2>2. CASE q # 1
    <3> DEFINE S == {at \in 0 .. q - 1 : LastIs(from[at][FALSE], w.id, w.text)}
    <3>1. q - 1 \in S /\ q - 1 \in 0 .. Len(text) /\ text[q - 1] = NewLine
      <4>1. q - 1 \in 0 .. q - 1 /\ q - 1 \in 0 .. Len(text)
        BY <1>7
      <4> QED
        BY <1>6, <1>14, <2>2, <4>1
    <3>2. ASSUME NEW at \in 0 .. (q - 1) - 1, EndOfLine(text, at) \in S PROVE at \in S
      <4>1. at \in 0 .. Len(text) - 1 /\ at \in 0 .. q - 1
        BY <1>1, <1>7
      <4>2. EndOfLine(text, at) \in at + 1 .. q - 1
        BY <1>1, <3>1, EndsWithLine
      <4>3. ~ StartsWith(LineAt(text, at), Open(s))
        <5>1. SUFFICES ASSUME StartsWith(LineAt(text, at), Open(s)) PROVE FALSE
          OBVIOUS
        <5>2. PICK p \in at + 1 .. EndOfLine(text, at) : text[p] = Open(s)
          BY <1>1, <4>1, <5>1, StartIsThere DEF StartsWith
        <5>3. p \in 1 .. q - 1
          BY <1>7, <4>2
        <5> QED
          BY <1>3, <5>2, <5>3
      <4>4. from[at][FALSE] = from[EndOfLine(text, at)][FALSE]
        BY <1>8, <4>1, <4>3
      <4> QED
        BY <3>2, <4>1, <4>4
    <3> HIDE DEF S
    <3>3. \A at \in 0 .. q - 1 : at \in S
      BY <1>1, <3>1, <3>2, LineByLine
    <3>4. 0 \in 0 .. q - 1
      BY <1>7
    <3> QED
      BY <3>3, <3>4 DEF S
  <2> QED
    BY <2>1, <2>2
<1> QED
  BY <1>2, <1>15

(* A file has the section of a table, and none of its name before.         *)
SectionIn(text, s, table) ==
  \E d \in Nat : /\ Holds(text, d, SectionText(s, Lines(table)))
                 /\ \A r \in 1 .. d : text[r] # Open(s)

(* A token of a line of values that opens one is that value's.             *)
LEMMA OpensItsValue ==
  ASSUME NoOpenTags, NEW w \in Values, NEW j \in 1 .. Len(Line(w)), NEW id,
         Line(w)[j] = Open(id)
  PROVE  w.id = id
<1> DEFINE n == Len(w.text)
<1>1. /\ Line(w) \in Seq(Tokens) /\ Len(Line(w)) = n + 4 /\ n \in Nat
      /\ Line(w)[1] = Tab /\ Line(w)[2] = Open(w.id)
      /\ \A i \in 1 .. n : Line(w)[2 + i] = w.text[i]
      /\ Line(w)[n + 3] = Close(w.id) /\ Line(w)[n + 4] = NewLine
  BY LineTokens DEF Values, AnyValue
<1>2. \A i \in 1 .. n : w.text[i][1] # "open"
  BY NoOpenTags DEF Values, OpenFree
<1> HIDE DEF n
<1>3. n \in Nat /\ j \in 1 .. n + 4
  BY <1>1
<1>4. j = 1 \/ j = 2 \/ (j - 2 \in 1 .. n /\ 2 + (j - 2) = j) \/ j = n + 3 \/ j = n + 4
  BY ONLY <1>3
<1>5. /\ Tab # Open(id) /\ NewLine # Open(id) /\ Close(w.id) # Open(id) /\ Open(id)[1] = "open"
      /\ (Open(w.id) = Open(id) => w.id = id)
  BY TagFacts
<1>6. ~ (j - 2 \in 1 .. n /\ 2 + (j - 2) = j)
  <2>1. SUFFICES ASSUME j - 2 \in 1 .. n, 2 + (j - 2) = j PROVE FALSE
    OBVIOUS
  <2>2. Line(w)[j] = w.text[j - 2] /\ w.text[j - 2][1] # "open"
    BY <1>1, <1>2, <2>1
  <2> QED
    BY <1>5, <2>2
<1> QED
  BY <1>1, <1>4, <1>5, <1>6

(* Sequences put one after the other: where each starts, and which one a   *)
(* place is in.                                                            *)
AreLaid(starts, lines) ==
  /\ Len(FlattenSeq(lines)) = starts[Len(lines) + 1] /\ starts[1] = 0
  /\ \A k \in 1 .. Len(lines) + 1 : starts[k] \in Nat
  /\ \A k \in 1 .. Len(lines) : starts[k + 1] = starts[k] + Len(lines[k])
  /\ \A j, k \in 1 .. Len(lines) + 1 : j <= k => starts[j] <= starts[k]
  /\ \A k \in 1 .. Len(lines) : \A i \in 1 .. Len(lines[k]) :
       FlattenSeq(lines)[starts[k] + i] = lines[k][i]
  /\ \A i \in 1 .. Len(FlattenSeq(lines)) : \E k \in 1 .. Len(lines) :
       i - starts[k] \in 1 .. Len(lines[k])

LEMMA LaidOut ==
  ASSUME NEW B, NEW lines \in Seq(Seq(B))
  PROVE  /\ FlattenSeq(lines) \in Seq(B)
         /\ \E starts : AreLaid(starts, lines)
<1> DEFINE flat == FlattenSeq(lines)
           n == Len(lines)
<1>1. SizesOf(lines) \in Seq(Nat) /\ Len(SizesOf(lines)) = n
  BY DEF SizesOf
<1>2. PICK starts : AreStarts(starts, SizesOf(lines))
  BY <1>1, StartsExist
<1>3. /\ flat \in Seq(B) /\ Len(flat) = starts[n + 1]
      /\ \A k \in 1 .. n : \A i \in 1 .. Len(lines[k]) : flat[starts[k] + i] = lines[k][i]
  BY <1>2, FlattenParts
<1>4. /\ \A k \in 1 .. n :
           /\ SizesOf(lines)[k] = Len(lines[k]) /\ Len(lines[k]) \in Nat
           /\ starts[k + 1] = starts[k] + Len(lines[k])
      /\ starts[1] = 0
      /\ \A k \in 1 .. n + 1 : starts[k] \in Nat
  BY <1>2, SizesFacts
<1> HIDE DEF flat, n
<1>5. \A j, k \in 1 .. n + 1 : j <= k => starts[j] <= starts[k]
  BY <1>1, <1>2, StartsGrow
<1>6. ASSUME NEW i \in 1 .. Len(flat)
      PROVE  \E k \in 1 .. n : i - starts[k] \in 1 .. Len(lines[k])
  <2>1. Len(flat) \in Nat /\ n \in Nat
    BY <1>3 DEF n
  <2>2. i - 1 \in Nat /\ i - 1 < starts[Len(SizesOf(lines)) + 1]
    BY <1>1, <1>3, <2>1
  <2>3. PICK k \in 1 .. n : starts[k] <= i - 1 /\ i - 1 < starts[k] + SizesOf(lines)[k]
    BY <1>1, <1>2, <2>2, PieceAt
  <2>4. /\ starts[k] \in Nat /\ Len(lines[k]) \in Nat /\ i \in Nat
        /\ starts[k] <= i - 1 /\ i - 1 < starts[k] + Len(lines[k])
    <3>1. k \in 1 .. n + 1
      BY <2>1
    <3> QED
      BY <1>4, <2>1, <2>3, <3>1
  <2>5. i - starts[k] \in 1 .. Len(lines[k])
    BY ONLY <2>4
  <2> QED
    BY <2>5
<1>7. AreLaid(starts, lines)
  BY <1>3, <1>4, <1>5, <1>6, Zenon DEF AreLaid, flat, n
<1> QED
  BY <1>3, <1>7 DEF flat

(* Where the last value of an identifier was written.                      *)
LEMMA LastWrittenIsRead ==
  ASSUME NoOpenTags, NEW text, Structured(text), NEW s \in Sections,
         NEW table \in Seq(Values), SectionIn(text, s, table),
         NEW last \in 1 .. Len(table), Plain(table[last]), table[last].id \in Readable,
         \A k \in last + 1 .. Len(table) : table[k].id # table[last].id
  PROVE  LastIs(ReadSection(text, s), table[last].id, table[last].text)
<1> DEFINE lines == Lines(table)
           flat == FlattenSeq(lines)
           w == table[last]
           n == Len(w.text)
           m == Len(table)
           b == Len(flat)
<1>1. text \in Seq(FileTokens) /\ Len(text) \in Nat
  BY DEF Structured
<1>2. lines \in Seq(Seq(Tokens)) /\ Len(lines) = m /\ \A k \in 1 .. m : lines[k] = Line(table[k])
  BY LinesAreTold
<1>3. \A k \in 1 .. m : table[k] \in Values
  OBVIOUS
<1>4. \A k \in 1 .. m :
        /\ Len(Line(table[k])) = Len(table[k].text) + 4 /\ Len(table[k].text) \in Nat
        /\ Line(table[k])[Len(table[k].text) + 4] = NewLine
  <2> TAKE k \in 1 .. m
  <2>1. table[k] \in Values /\ table[k].text \in Seq(Tokens)
    BY <1>3 DEF Values, AnyValue
  <2> QED
    BY <2>1, LineTokens
<1>5. flat \in Seq(Tokens) /\ \E starts : AreLaid(starts, lines)
  <2>1. lines \in Seq(Seq(Tokens))
    BY <1>2
  <2> HIDE DEF lines
  <2> QED
    BY <2>1, LaidOut
<1>6. PICK starts : AreLaid(starts, lines)
  BY <1>5
<1>7. /\ flat \in Seq(Tokens) /\ b = starts[m + 1] /\ starts[1] = 0
      /\ \A k \in 1 .. m + 1 : starts[k] \in Nat
      /\ \A k \in 1 .. m : starts[k + 1] = starts[k] + Len(lines[k])
      /\ \A j, k \in 1 .. m + 1 : j <= k => starts[j] <= starts[k]
      /\ \A k \in 1 .. m : \A i \in 1 .. Len(lines[k]) : flat[starts[k] + i] = lines[k][i]
      /\ \A i \in 1 .. b : \E k \in 1 .. m : i - starts[k] \in 1 .. Len(lines[k])
  <2>1. Len(lines) = m
    BY <1>2
  <2> HIDE DEF lines, m
  <2> QED
    BY <1>5, <1>6, <2>1 DEF AreLaid
<1>10. PICK d \in Nat : /\ Holds(text, d, SectionText(s, lines))
                        /\ \A r \in 1 .. d : text[r] # Open(s)
  BY DEF SectionIn
<1> DEFINE part == SectionText(s, lines)
<1>11. /\ part \in Seq(FileTokens) /\ Len(part) = b + 5
       /\ part[1] = Open(s) /\ part[2] = NewLine
       /\ Holds(part, 2, flat)
       /\ part[b + 3] = Close(s)
  BY <1>7, SectionTokens
<1> HIDE DEF flat, b, lines, part, w, n, m
<1>12. m \in Nat /\ last \in 1 .. m /\ b \in Nat /\ d \in Nat
  BY <1>7 DEF m, b
<1>13. /\ w \in Values /\ Plain(w) /\ w.id \in Readable /\ n \in Nat /\ lines[last] = Line(w)
       /\ Len(lines[last]) = n + 4 /\ starts[last] \in Nat /\ starts[last + 1] = starts[last] + (n + 4)
       /\ starts[last + 1] <= b
  <2>1. last \in 1 .. m + 1 /\ last + 1 \in 1 .. m + 1 /\ m + 1 \in 1 .. m + 1 /\ last + 1 <= m + 1
    BY <1>12
  <2>2. starts[last + 1] <= b /\ starts[last] \in Nat
    BY <1>7, <1>7, <2>1
  <2>3. lines[last] = Line(w) /\ w \in Values /\ n \in Nat /\ Len(Line(w)) = n + 4
    BY <1>2, <1>3, <1>4, <1>12 DEF w, n
  <2>4. starts[last + 1] = starts[last] + Len(lines[last])
    BY <1>7, <1>12
  <2> QED
    BY <2>2, <2>3, <2>4 DEF w
<1>14. /\ d + (b + 5) <= Len(text) /\ \A i \in 1 .. b + 5 : text[d + i] = part[i]
       /\ \A i \in 1 .. b : part[2 + i] = flat[i]
  BY <1>10, <1>11 DEF Holds, part, b
<1>15. \A i \in 1 .. b : text[d + 2 + i] = flat[i] /\ flat[i] \in Tokens
  <2> TAKE i \in 1 .. b
  <2>1. 2 + i \in 1 .. b + 5 /\ d + (2 + i) = d + 2 + i
    BY ONLY <1>12, i \in 1 .. b
  <2>2. text[d + 2 + i] = part[2 + i]
    BY <1>14, <2>1
  <2>3. flat[i] \in Tokens
    BY <1>7 DEF b
  <2> QED
    BY <1>14, <2>2, <2>3
<1> DEFINE q == d + 1
           c == d + 2 + b + 1
           o == d + 2 + starts[last]
<1>16. text[q] = Open(s) /\ text[q + 1] = NewLine /\ text[c] = Close(s)
  <2>1. 1 \in 1 .. b + 5 /\ 2 \in 1 .. b + 5 /\ b + 3 \in 1 .. b + 5
        /\ q + 1 = d + 2 /\ c = d + (b + 3)
    BY <1>12
  <2> HIDE DEF c
  <2> QED
    BY <1>11, <1>14, <2>1
<1>17. IsSection(text, s, q, c)
  <2>1. q \in 1 .. Len(text) /\ c \in q + 2 .. Len(text)
    BY <1>1, <1>12, <1>14
  <2>2. \A r \in 1 .. q - 1 : text[r] # Open(s)
    <3>1. q - 1 = d
      BY <1>12
    <3> HIDE DEF q
    <3> QED
      BY <1>10, <3>1
  <2>3. ASSUME NEW r \in q .. c - 1 PROVE text[r] # Close(s)
    <3>1. r = q \/ r = q + 1 \/ (r - (d + 2) \in 1 .. b /\ d + 2 + (r - (d + 2)) = r)
      BY <1>12
    <3>2. ASSUME NEW i \in 1 .. b, r = d + 2 + i PROVE text[r] # Close(s)
      BY <1>15, <3>2, TokenFacts
    <3> HIDE DEF q, c
    <3> QED
      BY <1>16, <3>1, <3>2, TagFacts
  <2> HIDE DEF q, c
  <2> QED
    BY <1>16, <2>1, <2>2, <2>3 DEF IsSection
<1>18. o \in Nat /\ o >= q + 1 /\ o + n + 4 < c
  BY <1>12, <1>13, SMTT(30)
<1>19. text[o] = NewLine
  <2>1. CASE last = 1
    <3>1. starts[last] = 0 /\ o = q + 1
      BY <1>7, <1>12, <2>1
    <3> HIDE DEF o
    <3> QED
      BY <1>16, <3>1
  <2>2. CASE last # 1
    <3> DEFINE l == Len(lines[last - 1])
    <3>1. last - 1 \in 1 .. m /\ (last - 1) + 1 = last
      BY <1>12, <2>2
    <3>2. /\ starts[last] = starts[last - 1] + l /\ starts[last - 1] \in Nat
          /\ l \in Nat \ {0} /\ lines[last - 1][l] = NewLine
          /\ flat[starts[last - 1] + l] = lines[last - 1][l]
      <4>1. last - 1 \in 1 .. m + 1
        BY <1>12, <3>1
      <4>2. l = Len(table[last - 1].text) + 4 /\ l \in Nat \ {0} /\ lines[last - 1][l] = NewLine
        <5>1. lines[last - 1] = Line(table[last - 1])
          BY <1>2, <3>1
        <5>2. /\ Len(Line(table[last - 1])) = Len(table[last - 1].text) + 4
              /\ Len(table[last - 1].text) \in Nat
              /\ Line(table[last - 1])[Len(table[last - 1].text) + 4] = NewLine
          BY <1>4, <3>1
        <5> QED
          BY <5>1, <5>2
      <4>3. l \in 1 .. l
        BY <4>2
      <4> HIDE DEF l
      <4>4. starts[last] = starts[last - 1] + l
        BY <1>7, <3>1 DEF l
      <4>5. flat[starts[last - 1] + l] = lines[last - 1][l]
        BY <1>7, <3>1, <4>3 DEF l
      <4> QED
        BY <1>7, <4>1, <4>2, <4>4, <4>5
    <3> HIDE DEF l
    <3>3. starts[last] \in 1 .. b
      BY <1>12, <1>13, <3>2, SMTT(30)
    <3> QED
      BY <1>15, <3>2, <3>3
  <2> QED
    BY <2>1, <2>2
<1>20. Holds(text, o, Line(w))
  <2>1. o + (n + 4) <= Len(text)
    BY <1>1, <1>12, <1>13, <1>14, SMTT(30)
  <2>2. ASSUME NEW i \in 1 .. n + 4 PROVE text[o + i] = Line(w)[i]
    <3>1. starts[last] + i \in 1 .. b /\ d + 2 + (starts[last] + i) = o + i
      BY <1>12, <1>13, SMTT(30)
    <3>2. flat[starts[last] + i] = Line(w)[i]
      BY <1>7, <1>12, <1>13, ZenonT(40)
    <3> HIDE DEF o
    <3> QED
      BY <1>15, <3>1, <3>2
  <2> HIDE DEF o
  <2> QED
    BY <1>13, <1>18, <2>1, <2>2 DEF Holds, o
<1>21. ASSUME NEW r \in o + n + 4 .. c - 1 PROVE text[r] # Open(w.id)
  <2> DEFINE i == r - (d + 2)
  <2>1. i \in 1 .. b /\ d + 2 + i = r /\ starts[last + 1] <= i /\ i \in Nat \ {0}
    BY <1>12, <1>13, SMTT(30)
  <2> HIDE DEF i, o, c
  <2>2. text[r] = flat[i]
    <3>1. text[d + 2 + i] = flat[i]
      BY <1>15, <2>1
    <3> QED
      BY <2>1, <3>1
  <2>3. SUFFICES ASSUME flat[i] = Open(w.id) PROVE FALSE
    BY <2>2
  <2>5. PICK k \in 1 .. m : i - starts[k] \in 1 .. Len(lines[k])
    BY <1>7, <2>1
  <2>6. /\ starts[k + 1] = starts[k] + Len(lines[k])
        /\ starts[k] \in Nat /\ lines[k] = Line(table[k]) /\ table[k] \in Values
        /\ Len(lines[k]) \in Nat /\ Len(Line(table[k])) = Len(table[k].text) + 4
        /\ Len(table[k].text) \in Nat
    <3>1. k \in 1 .. m + 1
      BY <1>12
    <3> QED
      BY <1>2, <1>3, <1>4, <1>7, <3>1
  <2> DEFINE at == starts[k]
             l == Len(lines[k])
  <2>15. at \in Nat /\ l \in Nat /\ i \in Nat \ {0} /\ i - at \in 1 .. l
         /\ starts[k + 1] = at + l
    BY <2>1, <2>5, <2>6
  <2> HIDE DEF at, l
  <2>16. i - at \in 1 .. l /\ at + (i - at) = i
    BY ONLY <2>15
  <2>7. i - starts[k] \in 1 .. Len(lines[k]) /\ starts[k] + (i - starts[k]) = i
    BY ONLY <2>16 DEF at, l
  <2>8. Line(table[k])[i - starts[k]] = Open(w.id)
    <3>1. flat[starts[k] + (i - starts[k])] = lines[k][i - starts[k]]
      BY <1>7, <2>5, <2>7
    <3> QED
      BY <2>3, <2>6, <2>7, <3>1
  <2>9. table[k].id = w.id
    BY <2>6, <2>7, <2>8, OpensItsValue
  <2>10. k <= last
    <3>1. SUFFICES ASSUME last < k PROVE FALSE
      BY <1>12
    <3>2. k \in last + 1 .. Len(table)
      BY <1>12, <3>1 DEF m
    <3> QED
      BY <2>9, <3>2 DEF w
  <2>11. starts[k + 1] <= starts[last + 1]
    <3>1. k + 1 \in 1 .. m + 1 /\ last + 1 \in 1 .. m + 1 /\ k + 1 <= last + 1
      BY <1>12, <2>10
    <3> QED
      BY <1>7, <3>1
  <2>12. starts[last + 1] <= i /\ starts[last + 1] \in Nat
    <3>1. last + 1 \in 1 .. m + 1
      BY <1>12
    <3> QED
      BY <1>7, <2>1, <3>1
  <2>17. at + l <= i
    <3> DEFINE e == starts[last + 1]
    <3>1. e \in Nat /\ at + l <= e /\ e <= i
      BY <2>11, <2>12, <2>15
    <3> HIDE DEF e
    <3> QED
      BY ONLY <2>15, <3>1
  <2>18. i - at = l
    BY ONLY <2>15, <2>17
  <2>13. i - starts[k] = Len(lines[k])
    BY ONLY <2>18 DEF at, l
  <2>14. Line(table[k])[i - starts[k]] = NewLine
    BY <1>4, <2>6, <2>13
  <2> QED
    BY <2>8, <2>14, TagFacts
<1> HIDE DEF q, c, o
<1>22. LastIs(ReadSection(text, s), w.id, w.text)
  BY <1>13, <1>17, <1>18, <1>19, <1>20, <1>21, LastIsRead DEF n
<1> QED
  BY <1>22 DEF w

(* The sections of other names.                                            *)
Without(text, s) == \A r \in 1 .. Len(text) : text[r] # Open(s)

(* A section's text has that section, and no other.                        *)
LEMMA OwnSection ==
  ASSUME NEW s \in Sections, NEW table \in Seq(Values)
  PROVE  /\ SectionText(s, Lines(table)) \in Seq(FileTokens)
         /\ SectionIn(SectionText(s, Lines(table)), s, table)
         /\ \A t \in Sections : t # s => Without(SectionText(s, Lines(table)), t)
<1> DEFINE body == FlattenSeq(Lines(table))
           b == Len(body)
           part == SectionText(s, Lines(table))
<1>1. body \in Seq(Tokens) /\ b \in Nat
  <2>1. Lines(table) \in Seq(Seq(Tokens))
    BY LinesAreTold
  <2>2. body \in Seq(Tokens)
    BY <2>1, LaidOut
  <2> HIDE DEF body
  <2> QED
    BY <2>2
<1>2. /\ part \in Seq(FileTokens) /\ Len(part) = b + 5
      /\ part[1] = Open(s) /\ part[2] = NewLine
      /\ Holds(part, 2, body)
      /\ part[b + 3] = Close(s) /\ part[b + 4] = NewLine /\ part[b + 5] = NewLine
  BY <1>1, SectionTokens
<1>3. \A i \in 1 .. b : part[2 + i] = body[i] /\ body[i] \in Tokens
  BY <1>1, <1>2 DEF Holds
<1> HIDE DEF body, b, part
<1>4. SectionIn(part, s, table)
  <2>1. Holds(part, 0, part)
    <3>1. \A i \in 1 .. Len(part) : 0 + i = i
      BY <1>1, <1>2
    <3> QED
      BY <1>1, <1>2, <3>1 DEF Holds
  <2>2. \A r \in 1 .. 0 : part[r] # Open(s)
    OBVIOUS
  <2>3. 0 \in Nat
    OBVIOUS
  <2> QED
    BY <2>1, <2>2, <2>3, Zenon DEF SectionIn, part
<1>5. ASSUME NEW t \in Sections, t # s, NEW r \in 1 .. Len(part) PROVE part[r] # Open(t)
  <2>1. r \in 1 .. b + 5
    BY <1>2
  <2>2. r = 1 \/ r = 2 \/ (r - 2 \in 1 .. b /\ 2 + (r - 2) = r) \/ r = b + 3 \/ r = b + 4 \/ r = b + 5
    BY ONLY <1>1, <2>1
  <2>3. r - 2 \in 1 .. b /\ 2 + (r - 2) = r => part[r] # Open(t)
    <3>1. SUFFICES ASSUME r - 2 \in 1 .. b, 2 + (r - 2) = r PROVE part[r] # Open(t)
      OBVIOUS
    <3>2. part[r] \in Tokens
      BY <1>3, <3>1
    <3> QED
      BY <3>2, TokenFacts
  <2>4. Open(s) # Open(t) /\ NewLine # Open(t) /\ Close(s) # Open(t)
    BY <1>5, TagFacts
  <2> QED
    BY <1>2, <2>2, <2>3, <2>4
<1> QED
  BY <1>2, <1>4, <1>5 DEF Without, part

(* A section of a text is one of any that goes on, and of any that has no  *)
(* section of its name before.                                             *)
LEMMA SectionsTogether ==
  ASSUME NEW a \in Seq(FileTokens), NEW b \in Seq(FileTokens), NEW s \in Sections
  PROVE  /\ a \o b \in Seq(FileTokens)
         /\ Without(a, s) /\ Without(b, s) => Without(a \o b, s)
         /\ \A table \in Seq(Values) :
              SectionIn(a, s, table) \/ (Without(a, s) /\ SectionIn(b, s, table)) =>
                SectionIn(a \o b, s, table)
<1> DEFINE c == a \o b
           m == Len(a)
           n == Len(b)
<1>1. /\ a \o b \in Seq(FileTokens) /\ Len(a \o b) = Len(a) + Len(b)
      /\ \A i \in 1 .. Len(a) : (a \o b)[i] = a[i]
      /\ \A i \in 1 .. Len(b) : (a \o b)[Len(a) + i] = b[i]
  BY ONLY a \in Seq(FileTokens), b \in Seq(FileTokens), Concatenation
<1>2. /\ c \in Seq(FileTokens) /\ Len(c) = m + n /\ m \in Nat /\ n \in Nat
      /\ \A i \in 1 .. m : c[i] = a[i]
      /\ \A i \in 1 .. n : c[m + i] = b[i]
  BY <1>1
<1> HIDE DEF c, m, n
<1>3. ASSUME Without(a, s), Without(b, s) PROVE Without(c, s)
  <2>1. ASSUME NEW r \in 1 .. m + n PROVE c[r] # Open(s)
    <3>1. r \in 1 .. m \/ (r - m \in 1 .. n /\ m + (r - m) = r)
      BY <1>2
    <3>2. CASE r \in 1 .. m
      BY <1>2, <1>3, <3>2 DEF Without, m
    <3>3. CASE r - m \in 1 .. n /\ m + (r - m) = r
      <4>1. c[r] = b[r - m]
        BY <1>2, <3>3
      <4> QED
        BY <1>3, <3>3, <4>1 DEF Without, n
    <3> QED
      BY <3>1, <3>2, <3>3
  <2> QED
    BY <1>2, <2>1 DEF Without
<1>4. ASSUME NEW table \in Seq(Values), SectionIn(a, s, table) PROVE SectionIn(c, s, table)
  <2> DEFINE part == SectionText(s, Lines(table))
             l == Len(part)
  <2>1. l \in Nat
    BY OwnSection
  <2>2. PICK d \in Nat : Holds(a, d, part) /\ \A r \in 1 .. d : a[r] # Open(s)
    BY <1>4 DEF SectionIn
  <2>3. d + l <= m /\ \A i \in 1 .. l : a[d + i] = part[i]
    BY <2>2 DEF Holds, m
  <2> HIDE DEF part, l
  <2>4. d + l <= m + n
    BY <1>2, <2>1, <2>3
  <2>5. ASSUME NEW i \in 1 .. l PROVE c[d + i] = part[i]
    <3>1. d + i \in 1 .. m
      BY <1>2, <2>1, <2>3
    <3> QED
      BY <1>2, <2>3, <3>1
  <2>6. ASSUME NEW r \in 1 .. d PROVE c[r] # Open(s)
    <3>1. r \in 1 .. m
      BY <1>2, <2>1, <2>3
    <3> QED
      BY <1>2, <2>2, <3>1
  <2>7. Holds(c, d, part)
    BY <1>2, <2>4, <2>5 DEF Holds, l
  <2> QED
    BY <2>6, <2>7 DEF SectionIn, part
<1>5. ASSUME NEW table \in Seq(Values), Without(a, s), SectionIn(b, s, table)
      PROVE  SectionIn(c, s, table)
  <2> DEFINE part == SectionText(s, Lines(table))
             l == Len(part)
  <2>1. l \in Nat
    BY OwnSection
  <2>2. PICK d \in Nat : Holds(b, d, part) /\ \A r \in 1 .. d : b[r] # Open(s)
    BY <1>5 DEF SectionIn
  <2>3. d + l <= n /\ \A i \in 1 .. l : b[d + i] = part[i]
    BY <2>2 DEF Holds, n
  <2> HIDE DEF part, l
  <2>4. m + d \in Nat /\ (m + d) + l <= m + n
    BY <1>2, <2>1, <2>3
  <2>5. ASSUME NEW i \in 1 .. l PROVE c[(m + d) + i] = part[i]
    <3>1. d + i \in 1 .. n /\ m + (d + i) = (m + d) + i
      BY <1>2, <2>1, <2>3
    <3> QED
      BY <1>2, <2>3, <3>1
  <2>6. ASSUME NEW r \in 1 .. m + d PROVE c[r] # Open(s)
    <3>1. r \in 1 .. m \/ (r - m \in 1 .. d /\ r - m \in 1 .. n /\ m + (r - m) = r)
      BY <1>2, <2>1, <2>3
    <3>2. CASE r \in 1 .. m
      BY <1>2, <1>5, <3>2 DEF Without, m
    <3>3. CASE r - m \in 1 .. d /\ r - m \in 1 .. n /\ m + (r - m) = r
      <4>1. c[r] = b[r - m]
        BY <1>2, <3>3
      <4> QED
        BY <2>2, <3>3, <4>1
    <3> QED
      BY <3>1, <3>2, <3>3
  <2>7. Holds(c, m + d, part)
    BY <1>2, <2>4, <2>5 DEF Holds, l
  <2> QED
    BY <2>4, <2>6, <2>7 DEF SectionIn, part
<1> QED
  BY <1>1, <1>3, <1>4, <1>5 DEF c

(* What close writes has the two sections, from the tables as they are.    *)
LEMMA WrittenSections ==
  ASSUME NEW ts \in Tables, NEW s \in Written
  PROVE  SectionIn(InformationText(ts), s, ts[s])
<1> DEFINE i == "information_values"
           g == "integrity_hash_values"
           first == SectionText(i, Lines(ts[i]))
           second == SectionText(g, Lines(ts[g]))
<1>1. i \in Sections /\ g \in Sections /\ i # g /\ (s = i \/ s = g)
      /\ ts[i] \in Seq(Values) /\ ts[g] \in Seq(Values)
  BY KeptFacts DEF Written
<1>2. /\ first \in Seq(FileTokens) /\ second \in Seq(FileTokens)
      /\ SectionIn(first, i, ts[i]) /\ SectionIn(second, g, ts[g]) /\ Without(first, g)
  BY <1>1, OwnSection
<1>3. InformationText(ts) = first \o second
  BY DEF InformationText
<1> HIDE DEF first, second, i, g
<1> QED
  BY <1>1, <1>2, <1>3, SectionsTogether

(* What another program wrote has the three.                               *)
LEMMA FirstSections ==
  ASSUME NEW ts \in FirstFiles, NEW s \in Sections
  PROVE  SectionIn(FirstText(ts), s, ts[s])
<1> DEFINE x == SectionOrder[1]
           y == SectionOrder[2]
           z == SectionOrder[3]
           a == SectionText(x, Lines(ts[x]))
           b == SectionText(y, Lines(ts[y]))
           c == SectionText(z, Lines(ts[z]))
           both == a \o b
<1>1. ts \in Tables
  BY FirstFileIsReadable
<1>2. /\ x \in Sections /\ y \in Sections /\ z \in Sections
      /\ x # y /\ x # z /\ y # z /\ (s = x \/ s = y \/ s = z)
  BY DEF Sections, SectionOrder
<1>3. ts[x] \in Seq(Values) /\ ts[y] \in Seq(Values) /\ ts[z] \in Seq(Values)
  <2> HIDE DEF x, y, z
  <2> QED
    BY <1>1, <1>2 DEF Tables
<1>4. /\ a \in Seq(FileTokens) /\ b \in Seq(FileTokens) /\ c \in Seq(FileTokens)
      /\ SectionIn(a, x, ts[x]) /\ SectionIn(b, y, ts[y]) /\ SectionIn(c, z, ts[z])
      /\ Without(a, y) /\ Without(a, z) /\ Without(b, z)
  <2> HIDE DEF x, y, z
  <2> QED
    BY <1>2, <1>3, OwnSection
<1>5. FirstText(ts) = both \o c
  <2> DEFINE parts == [n \in 1 .. 3 |-> SectionText(SectionOrder[n], Lines(ts[SectionOrder[n]]))]
  <2>1. Len(parts) = 3 /\ parts[1] = a /\ parts[2] = b /\ parts[3] = c
    OBVIOUS
  <2>2. FirstText(ts) = FlattenSeq(parts)
    BY DEF FirstText
  <2>3. parts \in Seq(Seq(FileTokens))
    <3>1. ASSUME NEW n \in 1 .. 3
          PROVE  SectionText(SectionOrder[n], Lines(ts[SectionOrder[n]])) \in Seq(FileTokens)
      <4>1. n = 1 \/ n = 2 \/ n = 3
        OBVIOUS
      <4> QED
        BY <1>4, <4>1
    <3> QED
      BY <3>1
  <2> HIDE DEF parts, a, b, c
  <2> QED
    BY <2>1, <2>2, <2>3, FlattenThree
<1> HIDE DEF x, y, z, a, b, c
<1>6. /\ both \in Seq(FileTokens) /\ Without(both, z)
      /\ SectionIn(both, x, ts[x]) /\ SectionIn(both, y, ts[y])
  BY <1>2, <1>3, <1>4, SectionsTogether
<1> HIDE DEF both
<1>7. /\ SectionIn(both \o c, x, ts[x]) /\ SectionIn(both \o c, y, ts[y])
      /\ SectionIn(both \o c, z, ts[z])
  BY <1>2, <1>3, <1>4, <1>6, SectionsTogether
<1> QED
  BY <1>2, <1>5, <1>7

(* What is kept of values that are read into an empty table: one of each   *)
(* identifier, with the text of the last.                                  *)
OnceEach(table) == \A i, j \in 1 .. Len(table) : table[i].id = table[j].id => i = j
HasText(table, id, text) == \E n \in 1 .. Len(table) : table[n].id = id /\ table[n].text = text
LastOfFirst(values, i, k) ==
  i \in 1 .. k /\ \A j \in i + 1 .. k : values[j].id # values[i].id

LEMMA KeptOnce ==
  ASSUME NEW V, \A v \in V : v.terminated = FALSE, NEW values \in Seq(V)
  PROVE  /\ KeepsAll(<< >>, values) \in Seq(V)
         /\ OnceEach(KeepsAll(<< >>, values))
         /\ \A id, text : LastIs(values, id, text) => HasText(KeepsAll(<< >>, values), id, text)
<1> DEFINE n == Len(values)
<1>1. << >> \in Seq(V) /\ n \in Nat
  OBVIOUS
<1>2. PICK g : AreKept(g, << >>, values, V) /\ KeepsAll(<< >>, values) = g[Len(values)]
  <2>1. \E g : AreKept(g, << >>, values, V) /\ KeepsAll(<< >>, values) = g[Len(values)]
    BY <1>1, KeepsAllSteps
  <2> QED
    BY <2>1
<1>3. /\ \A k \in 0 .. n : g[k] \in Seq(V)
      /\ g[0] = << >>
      /\ \A k \in 1 .. n : g[k] = Keeps(g[k - 1], values[k]) /\ values[k] \in V
  <2>1. \A k \in 1 .. n : values[k] \in V
    OBVIOUS
  <2>2. /\ g \in [0 .. n -> Seq(V)] /\ g[0] = << >>
        /\ \A k \in 1 .. n : g[k] = Keeps(g[k - 1], values[k])
    BY <1>2, Zenon DEF AreKept
  <2> HIDE DEF n
  <2> QED
    BY <2>1, <2>2
<1> HIDE DEF n
<1> DEFINE LastsIn(k) == \A i \in 1 .. n : LastOfFirst(values, i, k) =>
                          HasText(g[k], values[i].id, values[i].text)
           Good(k) == k <= n => OnceEach(g[k]) /\ LastsIn(k)
           H == {k \in Nat : Good(k)}
<1>4. Good(0)
  <2>1. OnceEach(g[0])
    BY <1>3 DEF OnceEach
  <2>2. \A i : ~ LastOfFirst(values, i, 0)
    BY DEF LastOfFirst
  <2> QED
    BY <2>1, <2>2
<1>5. ASSUME NEW k \in Nat, Good(k) PROVE Good(k + 1)
  <2>1. SUFFICES ASSUME k + 1 <= n PROVE OnceEach(g[k + 1]) /\ LastsIn(k + 1)
    BY Zenon
  <2> DEFINE old == g[k]
             new == g[k + 1]
             v == values[k + 1]
             l == Len(old)
  <2>2. /\ old \in Seq(V) /\ l \in Nat /\ v \in V /\ new = Keeps(old, v)
        /\ OnceEach(old) /\ LastsIn(k) /\ v.terminated = FALSE
    <3>1. k \in 0 .. n /\ k + 1 \in 1 .. n /\ (k + 1) - 1 = k /\ k <= n
      BY <1>1, <2>1
    <3> QED
      BY <1>3, <1>5, <3>1
  <2> HIDE DEF old, new, v
  <2>3. PICK m \in 1 .. l + 1 :
          /\ new[m] = v
          /\ \A i \in 1 .. l : i # m => new[i] = old[i]
          /\ \/ Len(new) = l /\ m \in Matches(old, v.id, v.terminated)
             \/ Len(new) = l + 1 /\ m = l + 1 /\ Matches(old, v.id, v.terminated) = {}
    <3>1. old \in Seq(V) /\ v \in V /\ new = Keeps(old, v)
      BY <2>2
    <3>2. \E m \in 1 .. Len(old) + 1 :
            /\ Keeps(old, v)[m] = v
            /\ \A i \in 1 .. Len(old) : i # m => Keeps(old, v)[i] = old[i]
            /\ \/ Len(Keeps(old, v)) = Len(old) /\ m \in Matches(old, v.id, v.terminated)
                  /\ m = IndexOf(old, v.id, v.terminated)
               \/ Len(Keeps(old, v)) = Len(old) + 1 /\ m = Len(old) + 1
                  /\ Matches(old, v.id, v.terminated) = {}
      BY <3>1, KeepsIsPlaced, Zenon
    <3> QED
      BY <3>1, <3>2, Zenon DEF l
  <2>4. \A i \in 1 .. l : old[i].terminated = FALSE
    <3>1. \A i \in 1 .. l : old[i] \in V
      BY <2>2
    <3> QED
      BY <3>1
  <2>5. /\ Len(new) \in l .. l + 1 /\ m \in 1 .. Len(new) /\ new[m] = v
        /\ \A i \in 1 .. l : i # m => new[i] = old[i] /\ old[i].id # v.id
        /\ \A i \in 1 .. Len(new) : i # m => i \in 1 .. l
    <3> HIDE DEF l
    <3>1. CASE Len(new) = l /\ m \in Matches(old, v.id, v.terminated)
      <4>1. m \in 1 .. l /\ old[m].id = v.id
        BY <3>1 DEF Matches, l
      <4>2. ASSUME NEW i \in 1 .. l, i # m PROVE old[i].id # v.id
        BY <2>2, <4>1, <4>2 DEF OnceEach, l
      <4> QED
        BY <2>2, <2>3, <3>1, <4>1, <4>2
    <3>2. CASE Len(new) = l + 1 /\ m = l + 1 /\ Matches(old, v.id, v.terminated) = {}
      <4>1. ASSUME NEW i \in 1 .. l PROVE old[i].id # v.id
        BY <2>2, <2>4, <3>2 DEF Matches, l
      <4>2. \A i \in 1 .. l + 1 : i # l + 1 => i \in 1 .. l
        BY <2>2
      <4> QED
        BY <2>2, <2>3, <3>2, <4>1, <4>2
    <3> QED
      BY <2>3, <3>1, <3>2
  <2> HIDE DEF l
  <2>6. OnceEach(new)
    <3>1. SUFFICES ASSUME NEW i \in 1 .. Len(new), NEW j \in 1 .. Len(new), new[i].id = new[j].id
                   PROVE  i = j
      BY DEF OnceEach
    <3>2. CASE i = m
      BY <2>5, <3>1, <3>2
    <3>3. CASE j = m
      BY <2>5, <3>1, <3>3
    <3>4. CASE i # m /\ j # m
      <4>1. i \in 1 .. l /\ j \in 1 .. l /\ old[i].id = old[j].id
        BY <2>5, <3>1, <3>4
      <4> QED
        BY <2>2, <4>1 DEF OnceEach, l
    <3> QED
      BY <3>2, <3>3, <3>4
  <2>7. ASSUME NEW i \in 1 .. n, LastOfFirst(values, i, k + 1)
        PROVE  HasText(new, values[i].id, values[i].text)
    <3>1. i \in 1 .. k + 1 /\ \A j \in i + 1 .. k + 1 : values[j].id # values[i].id
      BY <2>7 DEF LastOfFirst
    <3>2. CASE i = k + 1
      BY <2>5, <3>2 DEF HasText, v
    <3>3. CASE i # k + 1
      <4>1. i \in 1 .. k /\ k + 1 \in i + 1 .. k + 1 /\ \A j \in i + 1 .. k : j \in i + 1 .. k + 1
        BY <3>1, <3>3
      <4>2. LastOfFirst(values, i, k) /\ v.id # values[i].id
        BY <3>1, <4>1 DEF LastOfFirst, v
      <4>3. HasText(old, values[i].id, values[i].text)
        BY <2>2, <4>2 DEF old
      <4>4. PICK e \in 1 .. l : old[e].id = values[i].id /\ old[e].text = values[i].text
        BY <4>3 DEF HasText, l
      <4>5. ~ (e = m /\ m \in Matches(old, v.id, v.terminated))
        BY <4>2, <4>4 DEF Matches
      <4>6. e # m
        BY <2>2, <2>3, <4>4, <4>5
      <4>7. e \in 1 .. Len(new) /\ new[e] = old[e]
        BY <2>2, <2>5, <4>6
      <4> QED
        BY <4>4, <4>7 DEF HasText
    <3> QED
      BY <3>2, <3>3
  <2> QED
    BY <2>6, <2>7 DEF new
<1>6. H = Nat
  <2> HIDE DEF Good
  <2>1. H \in SUBSET Nat /\ 0 \in H /\ \A k \in H : k + 1 \in H
    BY <1>4, <1>5
  <2> HIDE DEF H
  <2> QED
    BY <2>1, Induction
<1>7. Good(n)
  <2> HIDE DEF Good
  <2> QED
    BY <1>1, <1>6
<1>8. /\ g[n] \in Seq(V) /\ OnceEach(g[n]) /\ LastsIn(n) /\ KeepsAll(<< >>, values) = g[n]
  <2>1. n \in 0 .. n /\ n <= n
    BY <1>1
  <2>2. OnceEach(g[n]) /\ LastsIn(n)
    BY <1>7, <2>1, Zenon
  <2> HIDE DEF LastsIn
  <2> QED
    BY <1>2, <1>3, <2>1, <2>2 DEF n
<1>9. ASSUME NEW id, NEW text, LastIs(values, id, text) PROVE HasText(g[n], id, text)
  <2>1. PICK i \in 1 .. n : /\ values[i].id = id /\ values[i].text = text
                            /\ \A j \in i + 1 .. n : values[j].id # id
    BY <1>9 DEF LastIs, n
  <2>2. LastOfFirst(values, i, n)
    BY <2>1 DEF LastOfFirst
  <2> QED
    BY <1>8, <2>1, <2>2
<1> QED
  BY <1>8, <1>9

-----------------------------------------------------------------------------
(* What is read back.                                                      *)

(* A whole file has the sections of its tables: those that another program *)
(* wrote, or the two that close writes.                                    *)
WholeInv ==
  kept.complete => \A s \in Sections :
    kept.tables[s] = << >> \/ SectionIn(file.text, s, kept.tables[s])

(* A handle that read the file without an error read all of it.            *)
HasReadInv ==
  HasRead => \A s \in Sections : tables[s] = KeepsAll(<< >>, ReadSection(file.text, s))

(* At first nothing was read, and a file is another program's.             *)
LEMMA InitWhole == Init => WholeInv /\ HasReadInv
<1> SUFFICES ASSUME Init PROVE WholeInv /\ HasReadInv
  OBVIOUS
<1>1. HasReadInv
  BY DEF Init, HasReadInv, HasRead
<1>2. WholeInv
  <2>1. CASE kept = [complete |-> FALSE, tables |-> EmptyTables]
    BY <2>1 DEF WholeInv
  <2>2. ASSUME NEW ts \in FirstFiles,
               file = [exists |-> TRUE,
                       text |-> FlattenSeq([n \in 1 .. 3 |->
                         SectionText(SectionOrder[n], Lines(ts[SectionOrder[n]]))])],
               kept = [complete |-> TRUE, tables |-> ts]
        PROVE  WholeInv
    <3>1. file.text = FirstText(ts) /\ kept.tables = ts
      BY <2>2 DEF FirstText
    <3> QED
      BY <3>1, FirstSections DEF WholeInv
  <2> QED
    BY <2>1, <2>2, Zenon DEF Init
<1> QED
  BY <1>1, <1>2

(* Only a close that wrote everything says that a file is whole, and only  *)
(* opening for reading reads.                                              *)
LEMMA NextWhole == IInv /\ WholeInv /\ HasReadInv /\ [Next]_vars => WholeInv' /\ HasReadInv'
<1> SUFFICES ASSUME IInv, WholeInv, HasReadInv, [Next]_vars PROVE WholeInv' /\ HasReadInv'
  OBVIOUS
<1>1. CASE UNCHANGED vars
  BY <1>1 DEF vars, WholeInv, HasReadInv, HasRead
<1>2. CASE Set
  <2>1. reader' = FALSE /\ UNCHANGED <<file, kept>>
    BY <1>2 DEF Set, SetMediaType, SetUtf8InformationValue, SetUtf16InformationValue,
       SetUtf8IntegrityHashValue, SetUtf16IntegrityHashValue, SetValue
  <2> QED
    BY <2>1 DEF WholeInv, HasReadInv, HasRead
<1>3. CASE OpenForReading
  <2>1. UNCHANGED <<file, kept>> /\ reader' = (tables = EmptyTables)
        /\ tables' = TablesRead([s \in Sections |-> file.text])
    BY <1>3 DEF OpenForReading
  <2>2. ASSUME HasRead', NEW s \in Sections
        PROVE  tables'[s] = KeepsAll(<< >>, ReadSection(file'.text, s))
    <3>1. tables[s] = << >>
      BY <2>1, <2>2 DEF HasRead, EmptyTables
    <3>2. TablesRead([t \in Sections |-> file.text])[s] = KeepsAll(tables[s], ReadSection(file.text, s))
      BY DEF TablesRead
    <3> QED
      BY <2>1, <3>1, <3>2
  <2> QED
    BY <2>1, <2>2 DEF WholeInv, HasReadInv
<1>4. CASE OpenForReadingFails
  <2>1. UNCHANGED <<file, kept>> /\ h.session = "none" /\ h' = [h EXCEPT !.opened = @ + 1]
    BY <1>4 DEF OpenForReadingFails
  <2>2. h'.session = "none"
    BY <2>1 DEF IInv, TypeInv
  <2> QED
    BY <2>1, <2>2 DEF WholeInv, HasReadInv, HasRead
<1>5. CASE OpenForWriting \/ CloseQuietly \/ NewHandle
  BY <1>5 DEF OpenForWriting, CloseQuietly, NewHandle, WholeInv, HasReadInv, HasRead
<1>6. CASE CloseWrites
  <2>1. /\ reader' = FALSE /\ file'.text = InformationText(tables)
        /\ kept'.tables = Kept(tables)
    BY <1>6 DEF CloseWrites, ClosesIntoFile, Kept
  <2>2. tables \in Tables
    BY DEF IInv, TypeInv
  <2>3. ASSUME NEW s \in Sections
        PROVE  Kept(tables)[s] = << >> \/ SectionIn(InformationText(tables), s, Kept(tables)[s])
    <3>1. CASE s \in Written
      BY <2>2, <3>1, WrittenSections, KeptFacts
    <3>2. CASE s \notin Written
      <4>1. s = "media_values"
        BY <3>2, SectionsAre DEF Written
      <4> QED
        BY <2>2, <4>1 DEF Kept, Tables
    <3> QED
      BY <3>1, <3>2
  <2> QED
    BY <2>1, <2>3 DEF WholeInv, HasReadInv, HasRead
<1>7. CASE CloseFails \/ CloseUnflushed
  <2>1. reader' = FALSE /\ kept'.complete = FALSE
    BY <1>7 DEF CloseFails, CloseUnflushed, ClosesIntoFile
  <2> QED
    BY <2>1 DEF WholeInv, HasReadInv, HasRead
<1> QED
  BY <1>1, <1>2, <1>3, <1>4, <1>5, <1>6, <1>7 DEF Next

(* The handle that reads a whole file has of each identifier what the file *)
(* was last written from.                                                  *)
LEMMA WholeIsReadBack ==
  ASSUME NoOpenTags, IInv, WholeInv, HasReadInv, HasRead, kept.complete,
         NEW s \in Sections, NEW id \in Names,
         \A n \in Under(kept.tables[s], id) : Plain(kept.tables[s][n])
  PROVE  LET was  == Under(kept.tables[s], id)
             is   == Under(tables[s], id)
             last == kept.tables[s][Max(was)].text
         IN  /\ tables[s] \in Seq(ReadValues(kept.tables, s))
             /\ was = {} \/ id \notin Readable => is = {}
             /\ was # {} /\ id \in Readable => \E n \in is : is = {n} /\ tables[s][n].text = last
<1> DEFINE table == kept.tables[s]
           V == ReadValues(kept.tables, s)
           was == Under(table, id)
           is == Under(tables[s], id)
           last == Max(was)
           values == ReadSection(file.text, s)
<1>1. /\ table \in Seq(Values) /\ kept.tables \in Tables /\ Structured(file.text)
      /\ Explained(file.text, kept.tables) /\ tables[s] \in Seq(V)
  BY NoOpenTags DEF IInv, FileInv, ReaderInv, IsReadable, Tables, HasRead
<1>2. /\ was = {n \in 1 .. Len(table) : table[n].id = id} /\ Len(table) \in Nat
      /\ is = {n \in 1 .. Len(tables[s]) : tables[s][n].id = id}
  <2> HIDE DEF table, V
  <2> QED
    BY <1>1 DEF Under
<1>3. \A v \in V : v.terminated = FALSE /\ v.id \in Readable /\ Comes(v, table)
  BY NoOpenTags DEF ReadValues
<1> HIDE DEF table, V, was, is, last, values
<1>4. was = {} \/ id \notin Readable => is = {}
  <2>1. SUFFICES ASSUME NEW n \in is PROVE was # {} /\ id \in Readable
    OBVIOUS
  <2>2. n \in 1 .. Len(tables[s]) /\ tables[s][n].id = id
    BY <1>2, <2>1
  <2>3. tables[s][n] \in V
    BY <1>1, <2>2
  <2>4. PICK m \in 1 .. Len(table) : table[m].id = tables[s][n].id
    BY <1>3, <2>3 DEF Comes
  <2> QED
    BY <1>2, <1>3, <2>2, <2>3, <2>4
<1>5. ASSUME was # {}, id \in Readable PROVE \E n \in is : is = {n} /\ tables[s][n].text = table[last].text
  <2>1. was \in SUBSET (1 .. Len(table))
    BY <1>2
  <2>2. last \in was /\ \A y \in was : last >= y
    BY <1>2, <1>5, <2>1, MaxOfSome DEF last
  <2>3. last \in 1 .. Len(table) /\ table[last].id = id /\ Plain(table[last])
    BY <1>2, <2>2 DEF was, table
  <2>4. \A k \in last + 1 .. Len(table) : table[k].id # table[last].id
    <3> TAKE k \in last + 1 .. Len(table)
    <3>1. k \in 1 .. Len(table) /\ ~ (last >= k)
      BY <1>2, <2>3
    <3> QED
      BY <1>2, <2>2, <2>3, <3>1
  <2>5. SectionIn(file.text, s, table)
    <3>1. table # << >>
      BY <1>2, <2>3
    <3> QED
      BY <3>1 DEF WholeInv, table
  <2>6. LastIs(values, id, table[last].text)
    <3>1. LastIs(ReadSection(file.text, s), table[last].id, table[last].text)
      BY NoOpenTags, <1>1, <1>5, <2>3, <2>4, <2>5, LastWrittenIsRead
    <3> QED
      BY <2>3, <3>1 DEF values
  <2>7. values \in Seq(V)
    BY <1>1, SectionRead DEF values, V
  <2>8. OnceEach(KeepsAll(<< >>, values)) /\ HasText(KeepsAll(<< >>, values), id, table[last].text)
    BY <1>3, <2>6, <2>7, KeptOnce
  <2>9. tables[s] = KeepsAll(<< >>, values)
    BY DEF HasReadInv, values
  <2>10. PICK n \in 1 .. Len(tables[s]) : tables[s][n].id = id /\ tables[s][n].text = table[last].text
    BY <2>8, <2>9 DEF HasText
  <2>11. is = {n}
    BY <1>2, <2>8, <2>9, <2>10 DEF OnceEach
  <2> QED
    BY <2>10, <2>11
<1> QED
  BY <1>1, <1>4, <1>5 DEF table, V, was, is, last

-----------------------------------------------------------------------------
(* The properties.                                                         *)

(* The state has its type: a value that was set or read has a name that    *)
(* can be set, and between sessions no file has a name or is open still.   *)
THEOREM TypeOKAlways == Spec => []TypeOK
<1>1. ASSUME IInv PROVE TypeOK
  <2>1. tables \in Tables
    BY <1>1 DEF IInv, TypeInv
  <2>2. ASSUME NEW s \in Sections, NEW n \in DOMAIN tables[s]
        PROVE  tables[s][n].id \in Names /\ tables[s][n].terminated \in BOOLEAN
    <3>1. tables[s] \in Seq(Values)
      BY <2>1 DEF Tables
    <3>2. tables[s][n] \in Values
      BY <3>1
    <3> QED
      BY <3>2 DEF Values, AnyValue
  <2>3. DOMAIN tables = Sections
    BY <2>1 DEF Tables
  <2> QED
    BY <1>1, <2>2, <2>3 DEF TypeOK, IInv, TypeInv
<1> QED
  BY <1>1, Invariant, PTL

(* What the program set last is what the accessors give back, whatever was *)
(* read, written or failed in between, in either encoding, and its         *)
(* identifier is among those that are numbered.                            *)
THEOREM LastSetAlwaysFound == Spec => []LastSetIsFound
<1>1. ASSUME IInv PROVE LastSetIsFound
  <2>1. SUFFICES ASSUME h.session # "none" PROVE LastSetIsFound
    BY DEF LastSetIsFound
  <2>2. ASSUME NEW s \in Written, NEW id \in AllIdentifiers, latest[s][id] # << >>
        PROVE  /\ Lookup(s, id) = latest[s][id]
               /\ \E index \in 0 .. Len(tables[s]) - 1 : tables[s][index + 1].id = id
    <3> DEFINE n == IndexOf(tables[s], id, TRUE)
               text == latest[s][id][1]
    <3>1. latest[s][id] = <<text>> /\ Finds(tables[s], id, text)
      BY <1>1, <2>2, Zenon DEF IInv, LatestInv, IsFoundIn
    <3>2. tables[s] \in Seq(Values) /\ s # "media_values"
      BY <1>1, SectionsAre DEF IInv, TypeInv, Tables
    <3>3. n \in 1 .. Len(tables[s]) /\ tables[s][n].text = text /\ tables[s][n].id = id
      BY <3>1 DEF Finds
    <3>4. Lookup(s, id) = IF n = 0 \/ h.session = "none" THEN << >> ELSE <<tables[s][n].text>>
      <4>1. (s # "media_values") = TRUE
        BY <3>2
      <4> QED
        BY <4>1 DEF Lookup
    <3> HIDE DEF n, text
    <3>5. n - 1 \in 0 .. Len(tables[s]) - 1 /\ (n - 1) + 1 = n /\ n # 0
      BY <3>2, <3>3
    <3> QED
      BY <2>1, <3>1, <3>3, <3>4, <3>5
  <2>3. "information_values" \in Written /\ "integrity_hash_values" \in Written
    BY DEF Written
  <2> QED
    BY <2>2, <2>3 DEF LastSetIsFound, GetUtf8InformationValue, GetUtf16InformationValue,
       GetUtf8IntegrityHashValue, GetUtf16IntegrityHashValue, GetNumberOfInformationValues,
       GetNumberOfIntegrityHashValues, GetInformationValueIdentifier,
       GetIntegrityHashValueIdentifier
<1> QED
  BY <1>1, Invariant, PTL

(* When no text has an opening tag, a handle that only read has no value   *)
(* but those that were being written when the file was left, under their   *)
(* identifiers and in their sections, and whole where their texts are      *)
(* plain: also from a file that a failed close left anywhere in a line.    *)
THEOREM NothingIsInvented ==
  ASSUME NoOpenTags
  PROVE  Spec => []NothingInvented
<1>1. ASSUME IInv PROVE NothingInvented
  <2>1. SUFFICES ASSUME reader, NEW s \in Sections, NEW n \in DOMAIN tables[s]
                 PROVE  Comes(tables[s][n], kept.tables[s])
    <3>1. \A t \in Sections : kept.tables[t] \in Seq(Values)
      BY <1>1 DEF IInv, FileInv, Tables
    <3>2. \A t \in Sections : DOMAIN kept.tables[t] = 1 .. Len(kept.tables[t])
      BY <3>1
    <3> QED
      BY <2>1, <3>2, Zenon DEF NothingInvented, Comes
  <2>2. tables[s] \in Seq(ReadValues(kept.tables, s))
    BY <1>1, <2>1 DEF IInv, ReaderInv
  <2>3. tables[s][n] \in ReadValues(kept.tables, s)
    BY <2>2
  <2> QED
    BY <2>3, NoOpenTags, Zenon DEF ReadValues
<1> QED
  BY <1>1, Invariant, PTL

(* When no text has an opening tag, what one handle keeps the next one     *)
(* reads: after a close that returned without an error a new handle has,   *)
(* under each identifier whose lines are plain, one value with the text    *)
(* that was last in the tables, whatever the other values are, and the     *)
(* type of the media.                                                      *)
THEOREM KeptIsReadBack ==
  ASSUME NoOpenTags
  PROVE  Spec => []ReadBack
<1>1. ASSUME IInv, WholeInv, HasReadInv PROVE ReadBack
  <2>1. SUFFICES ASSUME HasRead, kept.complete, NEW s \in Sections, NEW id \in Names,
                        \A n \in Under(kept.tables[s], id) : Plain(kept.tables[s][n])
                 PROVE  LET was  == Under(kept.tables[s], id)
                            is   == Under(tables[s], id)
                            last == kept.tables[s][Max(was)].text
                        IN  /\ IF was = {} \/ id \notin Readable THEN is = {}
                               ELSE \E n \in is : is = {n} /\ tables[s][n].text = last
                            /\ s = "media_values" /\ id = "media_type" =>
                                 GetMediaType = IF was # {} /\ last \in MediaTexts
                                                THEN <<last>> ELSE << >>
    BY Zenon DEF ReadBack
  <2> DEFINE was == Under(kept.tables[s], id)
             is == Under(tables[s], id)
             last == kept.tables[s][Max(was)].text
             V == ReadValues(kept.tables, s)
  <2>2. /\ tables[s] \in Seq(V)
        /\ was = {} \/ id \notin Readable => is = {}
        /\ was # {} /\ id \in Readable => \E n \in is : is = {n} /\ tables[s][n].text = last
    BY NoOpenTags, <1>1, <2>1, WholeIsReadBack, Zenon
  <2> HIDE DEF was, is, last, V
  <2>3. ASSUME s = "media_values", id = "media_type"
        PROVE  GetMediaType = IF was # {} /\ last \in MediaTexts THEN <<last>> ELSE << >>
    <3> DEFINE i == IndexOf(tables[s], id, FALSE)
    <3>r. id \in Readable
      BY <2>3, InformationFileAssumptions
    <3>1. /\ Matches(tables[s], id, FALSE) # {} => i \in Matches(tables[s], id, FALSE)
          /\ Matches(tables[s], id, FALSE) = {} => i = 0
      BY <2>2, IndexOfFacts
    <3>2. Matches(tables[s], id, FALSE) = is
      <4>1. \A n \in 1 .. Len(tables[s]) : tables[s][n] \in V
        BY <2>2
      <4>2. \A n \in 1 .. Len(tables[s]) : tables[s][n].terminated = FALSE
        BY <4>1 DEF V, ReadValues
      <4>3. DOMAIN tables[s] = 1 .. Len(tables[s])
        BY <2>2
      <4> QED
        BY <4>2, <4>3 DEF is, Under, Matches
    <3>3. Lookup("media_values", "media_type") = IF i = 0 THEN << >> ELSE <<tables[s][i].text>>
      <4>1. h.session # "none" /\ ("media_values" # "media_values") = FALSE
        BY <2>1 DEF HasRead
      <4> QED
        BY <2>3, <4>1 DEF Lookup
    <3> HIDE DEF i
    <3>4. CASE was = {}
      <4>1. Lookup("media_values", "media_type") = << >>
        BY <2>2, <3>1, <3>2, <3>3, <3>4
      <4> QED
        BY <3>4, <4>1 DEF GetMediaType
    <3>5. CASE was # {}
      <4>1. PICK n \in is : is = {n} /\ tables[s][n].text = last
        BY <2>2, <3>r, <3>5
      <4>2. i = n /\ i # 0
        <5>1. i = n /\ i \in 1 .. Len(tables[s])
          BY <3>1, <3>2, <4>1 DEF Matches
        <5> QED
          BY <2>2, <5>1
      <4>3. Lookup("media_values", "media_type") = <<last>>
        BY <3>3, <4>1, <4>2
      <4>4. <<last>> # << >> /\ <<last>>[1] = last
        OBVIOUS
      <4> QED
        BY <3>5, <4>3, <4>4 DEF GetMediaType
    <3> QED
      BY <3>4, <3>5
  <2> QED
    BY <2>2, <2>3, Zenon DEF was, is, last
<1>2. Spec => [](WholeInv /\ HasReadInv)
  <2>1. IInv /\ (WholeInv /\ HasReadInv) /\ [Next]_vars => (WholeInv /\ HasReadInv)'
    BY NextWhole
  <2> QED
    BY InitWhole, <2>1, Invariant, PTL DEF Spec
<1> QED
  BY <1>1, <1>2, Invariant, PTL
=============================================================================
