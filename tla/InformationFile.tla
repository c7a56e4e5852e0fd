-------------------------- MODULE InformationFile --------------------------
(***************************************************************************)
(* The values of a handle and the information file they are kept in: the   *)
(* accessors of the value tables, the sections that closing a handle       *)
(* writes, and the line by line parser that reads them when an image is    *)
(* opened again, by this handle or by another.                             *)
(*                                                                         *)
(* Text is a sequence of tokens: the tags "<name>" and "</name>", a "<"    *)
(* that begins neither, a blank, and anything else.  A tag that fgets cuts *)
(* in two has the same effect as one that starts the next line.            *)
(***************************************************************************)
EXTENDS Naturals, Sequences, FiniteSetsExt, SequencesExt

CONSTANTS
  Identifiers,   \* identifiers of information values
  HashIdentifiers, \* identifiers of integrity hash values
  Readable,      \* the identifiers that have letters, digits and "_" only
  Texts,         \* the texts of an information value, sequences of tokens
  HashTexts,     \* those of an integrity hash value
  FirstFiles,    \* what other programs may have written: tables of values
  MediaTexts,    \* the texts that name a media type
  LineSize,      \* tokens that fit the line buffer (128 bytes in the code)
  MaxValues,     \* bound: values in the tables that a program adds to or
                 \* that are written
  MaxSessions    \* bound: how often one handle is opened

SectionOrder == <<"media_values", "information_values", "integrity_hash_values">>
Sections     == {SectionOrder[n] : n \in 1 .. 3}

(* The sections that are written when a handle is closed.                  *)
Written == {"information_values", "integrity_hash_values"}

Open(name)  == <<"open", name>>
Close(name) == <<"close", name>>
Tab         == <<"blank", "tab">>
NewLine     == <<"blank", "newline">>
Bare        == <<"bare", "<">>

(* The identifiers of values, and what their texts are made of.  Bound: an *)
(* identifier is not empty, has no "<", ">" or end of line, and does not   *)
(* begin with "/".                                                         *)
Names  == Identifiers \cup HashIdentifiers \cup {"media_type"}
Tokens == ({"open", "close"} \X Names) \cup {Tab, NewLine, Bare} \cup ({"text"} \X STRING)

(* The names of sections are left out, of the identifiers and of the texts: *)
(* the line of such a value would start the section.                       *)
ASSUME InformationFileAssumptions ==
  /\ Names \cap Sections = {} /\ Readable \subseteq Names /\ "media_type" \in Readable
  /\ (Texts \cup HashTexts \cup MediaTexts) \subseteq Seq(Tokens)
  /\ FirstFiles \subseteq
       [Sections -> Seq([id : Names, text : Seq(Tokens), terminated : BOOLEAN])]
  /\ LineSize \in Nat \ {0}
  /\ MaxValues \in Nat /\ MaxSessions \in Nat

(* Whether the end-of-string character is part of the stored identifier.   *)
Value(id, text, terminated) == [id |-> id, text |-> text, terminated |-> terminated]

VARIABLES
  tables,   \* the three tables of libsmraw_internal_handle_t
  h,        \* the session of the handle, as far as these files go
  file,     \* the information file: its tokens, and whether it exists
  latest,   \* history: the text the program set last for an identifier
  kept,     \* history: the tables the file was last written from, and whether
            \* all of them were
  reader    \* history: the tables are what this handle read, and no more

vars == <<tables, h, file, latest, kept, reader>>

EmptyTables == [s \in Sections |-> << >>]
ClosedHandle == [session |-> "none", writeInfo |-> FALSE, named |-> FALSE,
                 stuck |-> FALSE, opened |-> 0]
AllIdentifiers == Identifiers \cup HashIdentifiers
NothingSet     == [s \in Written |-> [id \in AllIdentifiers |-> << >>]]

-----------------------------------------------------------------------------
(* The tables, and the accessors.                                          *)

(* libfvalue compares identifiers with their sizes: one with its end of    *)
(* string is not the same as one without.                                  *)
IndexOf(table, id, terminated) ==
  SelectInSeq(table, LAMBDA v : v.id = id /\ v.terminated = terminated)

Keeps(table, value) ==
  LET n == IndexOf(table, value.id, value.terminated)
  IN  IF n = 0 THEN Append(table, value) ELSE [table EXCEPT ![n] = value]

(* What an accessor finds: the text in a sequence, empty when there is no  *)
(* such value and when the handle is not open.  The identifiers of media   *)
(* values are kept without their end.                                      *)
Lookup(section, id) ==
  LET n == IndexOf(tables[section], id, section # "media_values")
  IN  IF n = 0 \/ h.session = "none" THEN << >> ELSE <<tables[section][n].text>>

GetUtf8InformationValue(id)    == Lookup("information_values", id)
GetUtf16InformationValue(id)   == Lookup("information_values", id)
GetUtf8IntegrityHashValue(id)  == Lookup("integrity_hash_values", id)
GetUtf16IntegrityHashValue(id) == Lookup("integrity_hash_values", id)

GetMediaType ==
  LET found == Lookup("media_values", "media_type")
  IN  IF found # << >> /\ found[1] \in MediaTexts THEN found ELSE << >>

GetNumberOfInformationValues   == Len(tables["information_values"])
GetNumberOfIntegrityHashValues == Len(tables["integrity_hash_values"])

(* The values are numbered from 0.                                         *)
GetInformationValueIdentifier(index)   == tables["information_values"][index + 1].id
GetIntegrityHashValueIdentifier(index) == tables["integrity_hash_values"][index + 1].id

NumberOfValues == GetNumberOfInformationValues + GetNumberOfIntegrityHashValues
RoomForValue   == NumberOfValues < MaxValues

(* Broken: the identifier is stored without its end, as read_section does. *)
SetUnterminated(section, id, text) ==
  /\ h.session # "read"
  /\ RoomForValue
  /\ tables' = [tables EXCEPT ![section] = Keeps(@, Value(id, text, FALSE))]
  /\ latest' = [latest EXCEPT ![section][id] = <<text>>]
  /\ reader' = FALSE
  /\ UNCHANGED <<h, file, kept>>

(* The program may set values before it opens the handle, and between      *)
(* sessions; in one that reads it may not.                                 *)
SetValue(section, id, text) ==
  /\ h.session # "read"
  /\ RoomForValue \/ IndexOf(tables[section], id, TRUE) # 0
  /\ tables' = [tables EXCEPT ![section] = Keeps(@, Value(id, text, TRUE))]
  /\ latest' = [latest EXCEPT ![section][id] = <<text>>]
  /\ reader' = FALSE
  /\ UNCHANGED <<h, file, kept>>

SetUtf8InformationValue(id, text)   == SetValue("information_values", id, text)
SetUtf16InformationValueUnterminated(id, text) ==
  SetUnterminated("information_values", id, text)
SetUtf16InformationValue(id, text)  == SetValue("information_values", id, text)
SetUtf8IntegrityHashValue(id, text) == SetValue("integrity_hash_values", id, text)
SetUtf16IntegrityHashValue(id, text) == SetValue("integrity_hash_values", id, text)

(* Kept in the table, and not in the file.                                 *)
SetMediaType(text) ==
  /\ h.session # "read"
  /\ tables' = [tables EXCEPT !["media_values"] = Keeps(@, Value("media_type", text, FALSE))]
  /\ reader' = FALSE
  /\ UNCHANGED <<h, file, latest, kept>>

Set ==
  \/ \E text \in MediaTexts : SetMediaType(text)
  \/ \E id \in Identifiers, text \in Texts :
       SetUtf8InformationValue(id, text) \/ SetUtf16InformationValue(id, text)
  \/ \E id \in HashIdentifiers, text \in HashTexts :
       SetUtf8IntegrityHashValue(id, text) \/ SetUtf16IntegrityHashValue(id, text)

-----------------------------------------------------------------------------
(* The text of a section, and of the file.                                 *)

Line(value) == <<Tab, Open(value.id)>> \o value.text \o <<Close(value.id), NewLine>>

SectionText(s, lines) ==
  <<Open(s), NewLine>> \o FlattenSeq(lines) \o <<Close(s), NewLine, NewLine>>

Lines(table) == [n \in 1 .. Len(table) |-> Line(table[n])]

(* Broken: starts with what is left of the text before.                    *)
InformationTextUntruncated(ts) ==
  file.text \o SectionText("information_values", Lines(ts["information_values"]))
    \o SectionText("integrity_hash_values", Lines(ts["integrity_hash_values"]))

(* What close writes into the file that opening it has emptied.            *)
InformationText(ts) ==
  SectionText("information_values", Lines(ts["information_values"]))
    \o SectionText("integrity_hash_values", Lines(ts["integrity_hash_values"]))

(* A value whose write fails is cut short; its line is ended, and the      *)
(* values after it are written all the same.                               *)
WithCutLine(table) ==
  UNION {{[Lines(table) EXCEPT ![n] = SubSeq(@, 1, m) \o <<NewLine>>] :
            m \in 1 .. Len(Line(table[n])) - 1} : n \in 1 .. Len(table)}

(* What a close leaves in the file that could not write a value (which     *)
(* ends it after that section) or anything else (which ends it at once).   *)
FailedTexts(ts) ==
  LET whole == InformationText(ts)
      first == SectionText("information_values", Lines(ts["information_values"]))
  IN  {SubSeq(whole, 1, n) : n \in 0 .. Len(whole) - 1}
        \cup {SectionText("information_values", lines) :
                lines \in WithCutLine(ts["information_values"])}
        \cup {first \o SectionText("integrity_hash_values", lines) :
                lines \in WithCutLine(ts["integrity_hash_values"])}

-----------------------------------------------------------------------------
(* Reading a section, line by line.                                        *)

(* The offset after the line that fgets returns from an offset on.         *)
EndOfLine(text, at) ==
  Min({n \in at + 1 .. Len(text) :
         text[n] = NewLine \/ n \in {at + LineSize, Len(text)}})

Stripped(line) ==
  LET rest == {n \in 1 .. Len(line) : line[n] \notin {Tab, NewLine}}
  IN  IF rest = {} THEN << >> ELSE SubSeq(line, Min(rest), Len(line))

StartsWith(line, token) == line # << >> /\ line[1] = token

(* Where the text of the value that a line holds ends: at the first "<",   *)
(* if what follows is the end of the same tag; 0 when the line has none,   *)
(* and when the identifier has a character that none is supported to have. *)
EndOfValue(line) ==
  LET tags == {n \in 2 .. Len(line) : line[n][1] \in {"open", "close", "bare"}}
  IN  IF /\ line # << >> /\ line[1][1] = "open" /\ line[1][2] \in Readable
         /\ tags # {} /\ line[Min(tags)] = Close(line[1][2])
      THEN Min(tags) ELSE 0

ValueOn(line) == Value(line[1][2], SubSeq(line, 2, EndOfValue(line) - 1), FALSE)

(* Broken: a section that starts is not looked for.                        *)
ReadSectionAnywhere(text, name) ==
  LET from[at \in 0 .. Len(text)] ==
        IF at = Len(text) THEN << >>
        ELSE LET next == EndOfLine(text, at)
                 line == Stripped(SubSeq(text, at + 1, next))
             IN  CASE StartsWith(line, Close(name)) -> << >>
                   [] EndOfValue(line) # 0 -> <<ValueOn(line)>> \o from[next]
                   [] OTHER -> from[next]
  IN  from[0]

(* The values of a section, in order: those on the lines after its start,  *)
(* to its end or to that of the file.                                      *)
ReadSection(text, name) ==
  LET from[at \in 0 .. Len(text)] == [inSection \in BOOLEAN |->
        IF at = Len(text) THEN << >>
        ELSE LET next == EndOfLine(text, at)
                 line == Stripped(SubSeq(text, at + 1, next))
             IN  CASE ~inSection -> from[next][StartsWith(line, Open(name))]
                   [] inSection /\ StartsWith(line, Close(name)) -> << >>
                   [] inSection /\ ~StartsWith(line, Close(name)) /\ EndOfValue(line) # 0 ->
                        <<ValueOn(line)>> \o from[next][TRUE]
                   [] OTHER -> from[next][TRUE]]
  IN  from[0][FALSE]

KeepsAll(table, values) == FoldLeft(Keeps, table, values)

(* The tables after reading from each section what a text has of it.       *)
TablesRead(texts) ==
  [s \in Sections |-> KeepsAll(tables[s], ReadSection(texts[s], s))]

-----------------------------------------------------------------------------
(* The sessions of a handle.                                               *)

OpenForReading ==
  /\ h.session = "none" /\ h.opened < MaxSessions
  /\ h' = [h EXCEPT !.session = "read", !.named = ~file.exists, !.opened = @ + 1]
  /\ tables' = TablesRead([s \in Sections |-> file.text])
  /\ reader' = (tables = EmptyTables)
  /\ UNCHANGED <<file, latest, kept>>

(* A line cannot be read: the handle is not opened, and keeps the values   *)
(* read so far: of one section those up to some line, of the next none.    *)
OpenForReadingFails ==
  /\ h.session = "none" /\ h.opened < MaxSessions /\ file.exists
  /\ h' = [h EXCEPT !.opened = @ + 1]
  /\ \E s \in 1 .. 3, n \in {0} \cup {m \in 1 .. Len(file.text) : file.text[m] = NewLine} :
       tables' = TablesRead([t \in Sections |->
                    CASE t = SectionOrder[s] -> SubSeq(file.text, 1, n)
                      [] \E m \in 1 .. s - 1 : t = SectionOrder[m] -> file.text
                      [] OTHER -> << >>])
  /\ reader' = (tables = EmptyTables)
  /\ UNCHANGED <<file, latest, kept>>

OpenForWriting ==
  /\ h.session = "none" /\ h.opened < MaxSessions
  /\ h' = [h EXCEPT !.session = "write", !.writeInfo = TRUE, !.named = TRUE,
                    !.opened = @ + 1]
  /\ reader' = FALSE
  /\ UNCHANGED <<tables, file, latest, kept>>

(* Broken: the information file of the session is kept.                    *)
AfterCloseKeepsName == [h EXCEPT !.session = "none"]

AfterClose == [h EXCEPT !.session = "none", !.named = FALSE]

(* A session that only read closes without writing, unless the handle was  *)
(* opened for writing before.                                              *)
CloseQuietly ==
  /\ h.session # "none" /\ ~h.writeInfo
  /\ h' = AfterClose
  /\ reader' = FALSE
  /\ UNCHANGED <<tables, file, latest, kept>>

(* The file can be opened: it has a name (which reading it drops), and is  *)
(* not still open after a close that failed.                               *)
ClosesIntoFile ==
  /\ h.session # "none" /\ h.writeInfo /\ h.named /\ ~h.stuck
  /\ NumberOfValues <= MaxValues
  /\ reader' = FALSE
  /\ UNCHANGED <<tables, latest>>

CloseWrites ==
  /\ ClosesIntoFile
  /\ file' = [exists |-> TRUE, text |-> InformationText(tables)]
  /\ kept' = [complete |-> TRUE, tables |-> [tables EXCEPT !["media_values"] = << >>]]
  /\ h' = AfterClose

(* Close returns with the file open, and is refused from then on.          *)
CloseFails ==
  /\ ClosesIntoFile
  /\ \E text \in FailedTexts(tables) : file' = [exists |-> TRUE, text |-> text]
  /\ kept' = [complete |-> FALSE, tables |-> [tables EXCEPT !["media_values"] = << >>]]
  /\ h' = [h EXCEPT !.stuck = TRUE]

(* The library that writes the file fails to close it: what it had not     *)
(* written yet may be missing.  The session ends all the same.             *)
CloseUnflushed ==
  /\ ClosesIntoFile
  /\ \E n \in 0 .. Len(InformationText(tables)) :
       file' = [exists |-> TRUE, text |-> SubSeq(InformationText(tables), 1, n)]
  /\ kept' = [complete |-> FALSE, tables |-> [tables EXCEPT !["media_values"] = << >>]]
  /\ h' = AfterClose

(* The program frees its handle, or ends, and starts with a new one.       *)
NewHandle ==
  /\ h.opened > 0
  /\ tables' = EmptyTables /\ h' = ClosedHandle
  /\ latest' = NothingSet /\ reader' = FALSE
  /\ UNCHANGED <<file, kept>>

-----------------------------------------------------------------------------
Init ==
  /\ tables = EmptyTables /\ h = ClosedHandle
  /\ latest = NothingSet /\ reader = FALSE
  /\ \/ /\ file = [exists |-> FALSE, text |-> << >>]
        /\ kept = [complete |-> FALSE, tables |-> EmptyTables]
     \/ \E ts \in FirstFiles :
          /\ file = [exists |-> TRUE,
                     text |-> FlattenSeq([n \in 1 .. 3 |->
                       SectionText(SectionOrder[n], Lines(ts[SectionOrder[n]]))])]
          /\ kept = [complete |-> TRUE, tables |-> ts]

Next ==
  \/ Set \/ OpenForReading \/ OpenForReadingFails \/ OpenForWriting
  \/ CloseQuietly \/ CloseWrites \/ CloseFails \/ CloseUnflushed \/ NewHandle

Spec == Init /\ [][Next]_vars

-----------------------------------------------------------------------------
(* Properties.                                                             *)

(* The state has its type.                                                 *)
TypeOK ==
  /\ DOMAIN tables = Sections
  /\ \A s \in Sections : \A n \in DOMAIN tables[s] :
       /\ tables[s][n].id \in Names
       /\ tables[s][n].terminated \in BOOLEAN
  /\ h \in [session : {"none", "read", "write"}, writeInfo : BOOLEAN, named : BOOLEAN,
            stuck : BOOLEAN, opened : 0 .. MaxSessions]
  /\ h.session = "none" => ~h.named /\ ~h.stuck
  /\ ~file.exists => file.text = << >>

(* A value whose line fits the line buffer and has no "<" in its text.     *)
Plain(value) ==
  /\ 3 + Len(value.text) <= LineSize
  /\ \A n \in 1 .. Len(value.text) : value.text[n][1] = "text"

Under(table, id) == {n \in DOMAIN table : table[n].id = id}
HasRead       == reader /\ h.session = "read"

(* What one handle keeps, the next one reads: after a close that returned  *)
(* without an error, a new handle has under each identifier one value, the *)
(* text that was in the tables, the later one where they had two, provided *)
(* its lines are plain; whatever the other values are.  Of an identifier   *)
(* that the parser does not support it has none, though the text is in the *)
(* file.  The media type is that of the file, if it has one that is known. *)
ReadBack ==
  HasRead /\ kept.complete => \A s \in Sections, id \in Names :
    LET was  == Under(kept.tables[s], id)
        is   == Under(tables[s], id)
        last == kept.tables[s][Max(was)].text
    IN  (\A n \in was : Plain(kept.tables[s][n])) =>
          /\ IF was = {} \/ id \notin Readable THEN is = {}
             ELSE \E n \in is : is = {n} /\ tables[s][n].text = last
          /\ s = "media_values" /\ id = "media_type" =>
               GetMediaType = IF was # {} /\ last \in MediaTexts THEN <<last>> ELSE << >>

(* Nothing is invented, also not from a file whose close failed or never   *)
(* returned: each value read was being written under that identifier in    *)
(* that section, and is whole, or cut short where its text had a tag.      *)
NothingInvented ==
  reader => \A s \in Sections : \A n \in DOMAIN tables[s] :
    \E m \in DOMAIN kept.tables[s] :
      LET v == tables[s][n]   w == kept.tables[s][m]
      IN  /\ w.id = v.id
          /\ v.text = w.text \/ (~Plain(w) /\ IsPrefix(v.text, w.text))

(* The accessors of an open handle give back what the program set last, in *)
(* either encoding and by the identifier it was set with, whatever was     *)
(* read or written in between, and whatever failed; and the identifier is  *)
(* among those that are numbered.                                          *)
LastSetIsFound ==
  h.session # "none" => \A id \in AllIdentifiers :
    /\ latest["information_values"][id] # << >> =>
         /\ GetUtf8InformationValue(id)  = latest["information_values"][id]
         /\ GetUtf16InformationValue(id) = latest["information_values"][id]
         /\ \E index \in 0 .. GetNumberOfInformationValues - 1 :
              GetInformationValueIdentifier(index) = id
    /\ latest["integrity_hash_values"][id] # << >> =>
         /\ GetUtf8IntegrityHashValue(id)  = latest["integrity_hash_values"][id]
         /\ GetUtf16IntegrityHashValue(id) = latest["integrity_hash_values"][id]
         /\ \E index \in 0 .. GetNumberOfIntegrityHashValues - 1 :
              GetIntegrityHashValueIdentifier(index) = id
=============================================================================
