------------------------- MODULE SmrawHandleProofs -------------------------
(***************************************************************************)
(* Proofs about SmrawHandle, for all values of its constants.              *)
(*                                                                         *)
(* IInv, below, is inductive.  It adds to the properties of the handle     *)
(* that a freed handle has no session, that a session has one of the modes *)
(* of the program and starts with nothing chosen for the next, and that    *)
(* only a program that writes ever sets the flag that makes close write    *)
(* the information file.                                                   *)
(***************************************************************************)
EXTENDS SmrawHandle, TLAPS

(* The number of segments is a number.                                     *)
LEMMA NumberOfSegmentsType ==
  ASSUME NEW m \in Nat, NEW s \in Nat
  PROVE  NumberOfSegments(m, s) \in Nat
BY DEF NumberOfSegments

LEMMA SizesAreNumbers == Sizes \subseteq Nat /\ 0 \in Sizes /\ DefaultSize \in Sizes
BY HandleAssumptions DEF HandleAssumptions, Sizes

LEMMA ClosedType == Closed \in HandleFields
BY DEF Closed, HandleFields, NoInfoFile

LEMMA ClearedIoType == ClearedIo \in IoFields
BY SizesAreNumbers DEF ClearedIo, IoFields

LEMMA BasenameType ==
  ASSUME NEW i \in Images, NEW m
  PROVE  BasenameOf(i, m) \in Names
BY DEF BasenameOf, Images, Names

LEMMA LargestFileSizesType ==
  ASSUME TypeOK, NEW i \in Images
  PROVE  image[i] \in Sizes /\ LargestFileSizes(i) \subseteq Sizes
<1>1. image[i] \in 0 .. MaxMedia
  <2>1. image \in [Images -> Sizes]
    BY DEF TypeOK
  <2> QED
    BY <2>1 DEF Sizes
<1> QED
  BY <1>1, HandleAssumptions DEF LargestFileSizes, Sizes, HandleAssumptions

(* Tables that gain values from other tables, or a single value.           *)
LEMMA TablesGrow ==
  ASSUME NEW t \in Tables, NEW u \in Tables, NEW read
  PROVE  [s \in Sections |-> IF s \in read THEN t[s] \cup u[s] ELSE t[s]] \in Tables
<1>1. \A s \in Sections : t[s] \subseteq Values /\ u[s] \subseteq Values
  BY DEF Tables
<1> QED
  BY <1>1 DEF Tables

LEMMA TablesGrowByOne ==
  ASSUME NEW t \in Tables, NEW s \in Sections, NEW v \in Values
  PROVE  [t EXCEPT ![s] = @ \cup {v}] \in Tables
<1>1. \A r \in Sections : t[r] \subseteq Values
  BY DEF Tables
<1> QED
  BY <1>1 DEF Tables

(* The information file as written on close is well-formed.                *)
LEMMA InformationWrittenType ==
  ASSUME TypeOK, NEW sections, ~InformationFileBlocked
  PROVE  InformationWritten(sections) \in InformationFiles
<1>1. h.infoFile.name \in Names
  BY DEF TypeOK, HandleFields, InformationFileBlocked
<1>2. [s \in Sections |-> IF s \in sections THEN tables[s] ELSE {}] \in Tables
  BY DEF TypeOK, Tables
<1> QED
  BY <1>1, <1>2 DEF TypeOK, InformationFiles, InformationWritten

(***************************************************************************)
(* Every variable keeps its type.                                          *)
(***************************************************************************)
LEMMA InitType == Init => TypeOK
<1> SUFFICES ASSUME Init PROVE TypeOK
  OBVIOUS
<1>1. h \in HandleFields
  BY ClosedType DEF Init
<1>2. EmptyTables \in Tables
  BY DEF EmptyTables, Tables
<1>3. AbsentInfo \in [exists : BOOLEAN, sections : Tables]
  BY <1>2 DEF AbsentInfo
<1>4. StoredInfo \in [exists : BOOLEAN, sections : Tables]
  BY DEF StoredInfo, Tables
<1>5. info \in InformationFiles
  BY <1>3, <1>4 DEF Init, InformationFiles
<1>6. image \in [Images -> Sizes]
  BY HandleAssumptions DEF Init, Sizes, HandleAssumptions
<1> QED
  BY <1>1, <1>2, <1>5, <1>6, ClearedIoType DEF Init, TypeOK

(* A step to the next: what the actions leave alone keeps its type, and    *)
(* each action is looked at for what it changes.                           *)
LEMMA NextType == TypeOK /\ [Next]_vars => TypeOK'
<1> SUFFICES ASSUME TypeOK, [Next]_vars PROVE TypeOK'
  OBVIOUS
<1> USE SizesAreNumbers
<1>1. CASE Initialize
  <2>1. h' \in HandleFields /\ io' = ClearedIo /\ tables' \in Tables
    BY <1>1, ClosedType DEF Initialize, EmptyTables, Tables
  <2>2. modes' \in SUBSET AccessModes
    BY <1>1, HandleAssumptions DEF Initialize, HandleAssumptions
  <2> QED
    BY <1>1, <2>1, <2>2, ClearedIoType DEF Initialize, TypeOK, disk
<1>2. ASSUME NEW stem \in Stems, SetSegmentFilename(stem) PROVE TypeOK'
  <2>1. [stem |-> stem, ext |-> ""] \in Names
    BY DEF Names
  <2>2. io' \in IoFields /\ chosen' \in IoFields
    BY <1>2, <2>1 DEF SetSegmentFilename, ChosenForNext, TypeOK, IoFields
  <2> QED
    BY <1>2, <2>2 DEF SetSegmentFilename, ConfigurationOnly, disk, TypeOK
<1>3. ASSUME NEW size \in Sizes, SetMaximumSegmentSize(size) \/ SetMediaSize(size)
      PROVE  TypeOK'
  <2>1. io' \in IoFields /\ chosen' \in IoFields
    BY <1>3 DEF SetMaximumSegmentSize, SetMediaSize, ChosenForNext, TypeOK, IoFields
  <2> QED
    BY <1>3, <2>1
    DEF SetMaximumSegmentSize, SetMediaSize, ConfigurationOnly, disk, TypeOK
<1>4. ASSUME NEW v \in Values,
             SetMediaValue(v) \/ SetInformationValue(v) \/ SetIntegrityHashValue(v)
      PROVE  TypeOK'
  <2>1. tables' \in Tables
    <3>1. PICK s \in Sections : tables' = [tables EXCEPT ![s] = @ \cup {v}]
      BY <1>4 DEF SetMediaValue, SetInformationValue, SetIntegrityHashValue, Sections
    <3> QED
      BY <3>1, TablesGrowByOne DEF TypeOK
  <2> QED
    BY <1>4, <2>1
    DEF SetMediaValue, SetInformationValue, SetIntegrityHashValue, disk, past, TypeOK
<1>5. CASE OpenRefused
  BY <1>5 DEF OpenRefused, disk, past, TypeOK
<1>6. ASSUME NEW i \in Images, NEW m \in modes, OpenSegmentsFails(i, m)
      PROVE  TypeOK'
  <2>1. h' \in HandleFields
    BY <1>6 DEF OpenSegmentsFails, AfterFailedPoolOpen, TypeOK, HandleFields
  <2> QED
    BY <1>6, <2>1, ClearedIoType DEF OpenSegmentsFails, disk, TypeOK
<1>7. ASSUME NEW i \in Images, NEW m \in modes, OpenInformationFails(i, m)
      PROVE  TypeOK'
  <2> DEFINE name == BasenameOf(i, m)
  <2>1. name \in Names
    BY BasenameType
  <2>2. info[name].sections \in Tables
    BY <2>1 DEF TypeOK, InformationFiles
  <2>3. tables' \in Tables
    <3>1. CASE UNCHANGED tables
      BY <3>1 DEF TypeOK
    <3>2. CASE \E read : tables' = [s \in Sections |-> IF s \in read
                                     THEN tables[s] \cup info[name].sections[s]
                                     ELSE tables[s]]
      <4>1. tables \in Tables
        BY DEF TypeOK
      <4>2. PICK read : tables' = [s \in Sections |-> IF s \in read
                                     THEN tables[s] \cup info[name].sections[s]
                                     ELSE tables[s]]
        BY <3>2
      <4> HIDE DEF name
      <4>3. [s \in Sections |-> IF s \in read THEN tables[s] \cup info[name].sections[s]
                                ELSE tables[s]] \in Tables
        BY <2>2, <4>1, TablesGrow
      <4> QED
        BY <4>2, <4>3
    <3> QED
      BY <1>7, <3>1, <3>2 DEF OpenInformationFails
  <2>4. h' \in HandleFields
    <3>1. SegmentsOpened(m) \in HandleFields
      BY DEF SegmentsOpened, Reads, TypeOK, HandleFields
    <3>2. PICK n \in {name, NoName}, open \in BOOLEAN :
            h' = [SegmentsOpened(m) EXCEPT
                   !.infoFile = [exists |-> TRUE, name |-> n, stream |-> open]]
      BY <1>7 DEF OpenInformationFails
    <3>3. [exists |-> TRUE, name |-> n, stream |-> open] \in
            [exists : BOOLEAN, name : Names \cup {NoName}, stream : BOOLEAN]
      BY <2>1
    <3> QED
      BY <3>1, <3>2, <3>3 DEF HandleFields
  <2>5. /\ io' = ClearedIo /\ result' = "error" /\ chosen' = ClearedIo /\ unread' = TRUE
        /\ UNCHANGED <<handle, disk, modes, session, opened>>
    BY <1>7 DEF OpenInformationFails
  <2> QED
    BY <2>3, <2>4, <2>5, ClearedIoType DEF disk, TypeOK
<1>8. ASSUME NEW i \in Images, NEW m \in modes, Open(i, m)
      PROVE  TypeOK'
  <2> DEFINE name == BasenameOf(i, m)
  <2>1. name \in Names
    BY BasenameType
  <2>2. tables' \in Tables
    <3>1. info[name].sections \in Tables
      BY <2>1 DEF TypeOK, InformationFiles
    <3> QED
      BY <1>8, <3>1 DEF Open, TypeOK, Tables
  <2>3. h' \in HandleFields
    <3>1. SegmentsOpened(m) \in HandleFields
      BY DEF SegmentsOpened, Reads, TypeOK, HandleFields
    <3>2. PICK n \in {name, NoName} :
            h' = [SegmentsOpened(m) EXCEPT
                   !.pool = "library", !.createdInLibrary = TRUE,
                   !.writeInfo = @ \/ Writes(m),
                   !.infoFile = [exists |-> TRUE, stream |-> FALSE, name |-> n]]
      BY <1>8 DEF Open
    <3>3. n \in Names \cup {NoName} /\ Writes(m) \in BOOLEAN
      BY <2>1 DEF Writes
    <3> HIDE DEF name
    <3> QED
      BY <3>1, <3>2, <3>3 DEF HandleFields
  <2>4. io' \in IoFields
    <3>1. image[i] \in Sizes /\ LargestFileSizes(i) \subseteq Sizes
      BY LargestFileSizesType
    <3> QED
      BY <1>8, <2>1, <3>1 DEF Open, TypeOK, IoFields
  <2>5. m \in AccessModes
    BY DEF TypeOK
  <2>6. /\ session' = m /\ result' = "ok" /\ opened' = i /\ chosen' = ClearedIo
        /\ UNCHANGED <<handle, disk, modes, unread>>
    BY <1>8 DEF Open
  <2> QED
    BY <2>2, <2>3, <2>4, <2>5, <2>6, ClearedIoType DEF disk, TypeOK
<1>9. ASSUME NEW i \in Images, NEW m \in modes, OpenFileIoPool(i, m)
      PROVE  TypeOK'
  <2>1. image[i] \in Sizes /\ LargestFileSizes(i) \subseteq Sizes
    BY LargestFileSizesType
  <2>2. io' \in IoFields
    BY <1>9, <2>1 DEF OpenFileIoPool, TypeOK, IoFields
  <2>3. h' \in HandleFields
    BY <1>9 DEF OpenFileIoPool, SegmentsOpened, Reads, TypeOK, HandleFields
  <2>4. m \in AccessModes
    BY DEF TypeOK
  <2> QED
    BY <1>9, <2>2, <2>3, <2>4, ClearedIoType DEF OpenFileIoPool, disk, TypeOK
<1>10. ASSUME NEW i \in Images, NEW m \in modes, OpenFileIoPoolFails(i, m)
       PROVE  TypeOK'
  <2>1. LargestFileSizes(i) \subseteq Sizes
    BY LargestFileSizesType
  <2>2. io' \in IoFields /\ chosen' \in IoFields
    BY <1>10, <2>1 DEF OpenFileIoPoolFails, TypeOK, IoFields
  <2>3. h' \in HandleFields
    BY <1>10 DEF OpenFileIoPoolFails, AfterFailedPoolOpen, TypeOK, HandleFields
  <2> QED
    BY <1>10, <2>2, <2>3 DEF OpenFileIoPoolFails, disk, TypeOK
<1>11. CASE WriteBuffer
  <2>1. /\ h' \in HandleFields
        /\ io' \in IoFields
    <3>1. NumberOfSegments(io.mediaSize, io.maxSegSize) \in Nat
      BY NumberOfSegmentsType, SizesAreNumbers DEF TypeOK, IoFields
    <3>2. [h EXCEPT !.writeInit = TRUE] \in HandleFields
      BY DEF TypeOK, HandleFields
    <3>3. h \in HandleFields
      BY DEF TypeOK
    <3>4. CASE UNCHANGED <<h, io>>
      BY <3>3, <3>4 DEF TypeOK
    <3>5. CASE /\ h' = [h EXCEPT !.writeInit = TRUE]
               /\ io' = [io EXCEPT !.numSegs = NumberOfSegments(io.mediaSize, io.maxSegSize)]
      BY <3>1, <3>2, <3>5 DEF TypeOK, IoFields
    <3> QED
      BY <1>11, <3>4, <3>5 DEF WriteBuffer, InitializeWriteValues
  <2>2. image' \in [Images -> Sizes]
    BY <1>11 DEF WriteBuffer, TypeOK
  <2> QED
    BY <1>11, <2>1, <2>2 DEF WriteBuffer, past, TypeOK
<1>12. CASE CloseRefused \/ CloseCrashes
  BY <1>12 DEF CloseRefused, CloseCrashes, disk, past, TypeOK
<1>13. CASE CloseInformationFails
  <2>1. PICK stream \in BOOLEAN : /\ InformationNotWritten(stream)
                                  /\ h' = [h EXCEPT !.infoFile.stream = stream]
    BY <1>13 DEF CloseInformationFails
  <2>2. info' \in InformationFiles
    <3>1. CASE UNCHANGED info
      BY <3>1 DEF TypeOK
    <3>2. CASE /\ ~InformationFileBlocked
               /\ \E w \in InterruptedWrites : info' = InformationWritten(w)
      BY <3>2, InformationWrittenType
    <3> QED
      BY <2>1, <3>1, <3>2 DEF InformationNotWritten
  <2>3. h' \in HandleFields
    BY <2>1 DEF TypeOK, HandleFields
  <2> QED
    BY <1>13, <2>2, <2>3 DEF CloseInformationFails, past, TypeOK
<1>14. ASSUME ClosePastInformation
       PROVE  /\ info' \in InformationFiles
              /\ result' \in {"none", "ok", "error"}
  <2>1. CASE UNCHANGED info /\ result' \in CloseResults
    BY <2>1 DEF TypeOK, CloseResults
  <2>2. CASE /\ ~InformationFileBlocked
             /\ \E w : info' = InformationWritten(w)
             /\ result' \in CloseResults \/ result' = "error"
    BY <2>2, InformationWrittenType DEF CloseResults
  <2> QED
    BY <1>14, <2>1, <2>2 DEF ClosePastInformation
<1>15. CASE Close
  <2>1. h' \in HandleFields
    BY <1>15, ClosedType DEF Close, AfterClose, TypeOK, HandleFields
  <2> QED
    BY <1>14, <1>15, <2>1, ClearedIoType DEF Close, disk, TypeOK
<1>16. CASE Free
  <2>1. /\ info' \in InformationFiles
        /\ result' \in {"none", "ok", "error"}
    <3>1. CASE UNCHANGED info /\ result' = "ok"
      BY <3>1 DEF TypeOK
    <3>2. ASSUME NEW stream \in BOOLEAN, InformationNotWritten(stream), result' = "error"
          PROVE  info' \in InformationFiles
      <4>1. CASE UNCHANGED info
        BY <4>1 DEF TypeOK
      <4>2. CASE /\ ~InformationFileBlocked
                 /\ \E w \in InterruptedWrites : info' = InformationWritten(w)
        BY <4>2, InformationWrittenType
      <4> QED
        BY <3>2, <4>1, <4>2 DEF InformationNotWritten
    <3> QED
      BY <1>14, <1>16, <3>1, <3>2 DEF Free
  <2>2. h' \in HandleFields /\ tables' \in Tables
    BY <1>16, ClosedType DEF Free, EmptyTables, Tables
  <2> QED
    BY <1>16, <2>1, <2>2, ClearedIoType DEF Free, TypeOK
<1>17. CASE UNCHANGED vars
  <2>1. /\ handle' = handle /\ h' = h /\ io' = io /\ tables' = tables
        /\ image' = image /\ info' = info /\ modes' = modes /\ session' = session
        /\ result' = result /\ opened' = opened /\ chosen' = chosen
        /\ unread' = unread
    BY <1>17 DEF vars
  <2> QED
    BY <2>1 DEF TypeOK
<1> QED
  BY <1>1, <1>2, <1>3, <1>4, <1>5, <1>6, <1>7, <1>8, <1>9, <1>10, <1>11, <1>12,
     <1>13, <1>15, <1>16, <1>17 DEF Next

(* Whatever a program does with a handle and whatever fails, the state of  *)
(* the handle and the disk stays well-formed.                              *)
THEOREM TypeCorrect == Spec => []TypeOK
<1>1. Init => TypeOK
  BY InitType
<1>2. TypeOK /\ [Next]_vars => TypeOK'
  BY NextType
<1> QED
  BY <1>1, <1>2, PTL DEF Spec

(***************************************************************************)
(* The inductive invariant.                                                *)
(***************************************************************************)
FreedHasNoSession == handle = "null" => session = "none"

SessionClearsChoice == h.pool # "none" => chosen = ClearedIo

OnlyWritersWriteInformation ==
  /\ session \in modes \cup {"none"}
  /\ h.writeInfo => \E m \in modes : Writes(m)

IInv ==
  /\ TypeOK
  /\ SessionStateAgrees
  /\ ClosedIsClean
  /\ LayoutIsFrozen
  /\ InformationFileMatches
  /\ ClosedHandleCanOpen
  /\ SessionClearsChoice
  /\ FreedHasNoSession
  /\ OnlyWritersWriteInformation

LEMMA InitIInv == Init => IInv
<1> SUFFICES ASSUME Init PROVE IInv
  OBVIOUS
<1>1. TypeOK
  BY InitType
<1>2. h = Closed /\ ~h.writeInfo
  BY DEF Init, Closed
<1>3. h = [Closed EXCEPT !.writeInfo = h.writeInfo]
  BY <1>2 DEF Closed
<1>4. ClosedIsClean
  BY <1>2, <1>3 DEF Init, ClosedIsClean, Closed
<1> QED
  BY <1>1, <1>4
  DEF Init, IInv, SessionStateAgrees, LayoutIsFrozen, InformationFileMatches,
      ClosedHandleCanOpen, SessionClearsChoice, FreedHasNoSession,
      OnlyWritersWriteInformation, Closed, NoInfoFile

(* A session ends or has not begun: what is left is what close and the     *)
(* error path of open_file_io_pool make of the handle.                     *)
LEMMA StepSession ==
  ASSUME IInv, [Next]_vars
  PROVE  (SessionStateAgrees /\ LayoutIsFrozen /\ FreedHasNoSession
            /\ OnlyWritersWriteInformation)'
<1> DEFINE Rest == /\ SessionStateAgrees
                   /\ LayoutIsFrozen
                   /\ FreedHasNoSession
                   /\ OnlyWritersWriteInformation
<1>a. TypeOK /\ Rest /\ ClosedIsClean
  BY DEF IInv
<1> SUFFICES Rest'
  OBVIOUS
<1> HIDE DEF Rest
<1>1. CASE Initialize
  <2>1. session = "none"
    BY <1>1, <1>a DEF Rest, FreedHasNoSession, Initialize
  <2> QED
    BY <1>1, <2>1
    DEF Initialize, Rest, SessionStateAgrees, LayoutIsFrozen,
        FreedHasNoSession, OnlyWritersWriteInformation,
        Closed, NoInfoFile
<1>2. ASSUME NEW stem \in Stems, SetSegmentFilename(stem) PROVE Rest'
  <2>1. /\ UNCHANGED <<handle, h, modes, session>>
        /\ io'.mediaSize = io.mediaSize /\ io'.maxSegSize = io.maxSegSize
        /\ io'.numSegs = io.numSegs
    BY <1>2, <1>a
    DEF SetSegmentFilename, ConfigurationOnly, TypeOK, HandleFields, IoFields
  <2> QED
    BY <1>a, <2>1
    DEF Rest, SessionStateAgrees, LayoutIsFrozen,
        FreedHasNoSession, OnlyWritersWriteInformation
<1>3. ASSUME NEW size \in Sizes, SetMaximumSegmentSize(size) \/ SetMediaSize(size)
      PROVE  Rest'
  <2>1. /\ UNCHANGED <<handle, h, modes, session>> /\ ~h.writeInit
        /\ io'.basename = io.basename /\ io'.numSegs = io.numSegs
    BY <1>3, <1>a
    DEF SetMaximumSegmentSize, SetMediaSize, ConfigurationOnly, TypeOK,
        HandleFields, IoFields
  <2> QED
    BY <1>a, <2>1
    DEF Rest, SessionStateAgrees, LayoutIsFrozen,
        FreedHasNoSession, OnlyWritersWriteInformation
<1>4. CASE UNCHANGED <<handle, h, io, modes, session>>
  BY <1>a, <1>4
  DEF Rest, SessionStateAgrees, LayoutIsFrozen,
      FreedHasNoSession, OnlyWritersWriteInformation
<1>5. ASSUME NEW v \in Values,
             SetMediaValue(v) \/ SetInformationValue(v) \/ SetIntegrityHashValue(v)
      PROVE  Rest'
  BY <1>4, <1>5 DEF SetMediaValue, SetInformationValue, SetIntegrityHashValue
<1>6. ASSUME h.pool = "none", h' = AfterFailedPoolOpen,
             UNCHANGED <<handle, modes, session>>
      PROVE  Rest'
  <2>1. /\ h'.pool = "none" /\ ~h'.createdInLibrary /\ ~h'.stream /\ ~h'.readInit
        /\ ~h'.writeInit /\ h'.writeInfo = h.writeInfo /\ h'.infoFile = h.infoFile
    BY <1>6, <1>a
    DEF AfterFailedPoolOpen, TypeOK, HandleFields, IoFields, Rest,
        SessionStateAgrees, LayoutIsFrozen
  <2> QED
    BY <1>6, <1>a, <2>1
    DEF Rest, SessionStateAgrees, LayoutIsFrozen,
        FreedHasNoSession, OnlyWritersWriteInformation
<1>7. ASSUME NEW i \in Images, NEW m \in modes, OpenSegmentsFails(i, m) PROVE Rest'
  BY <1>6, <1>7 DEF OpenSegmentsFails
<1>8. ASSUME NEW i \in Images, NEW m \in modes, OpenFileIoPoolFails(i, m) PROVE Rest'
  BY <1>6, <1>8 DEF OpenFileIoPoolFails
<1>9. ASSUME NEW i \in Images, NEW m \in modes, OpenInformationFails(i, m) PROVE Rest'
  <2>1. /\ h'.pool = "none" /\ ~h'.createdInLibrary /\ h'.stream
        /\ ~h'.writeInit /\ h'.writeInfo = h.writeInfo /\ h'.infoFile.exists
    <3>1. ~h.createdInLibrary /\ ~h.writeInit /\ h.pool = "none"
      BY <1>9, <1>a DEF OpenInformationFails, Rest, SessionStateAgrees, LayoutIsFrozen
    <3>2. SegmentsOpened(m) = [h EXCEPT !.stream = TRUE, !.readInit = @ \/ Reads(m)]
      BY DEF SegmentsOpened
    <3>3. PICK n, open : h' = [SegmentsOpened(m) EXCEPT
                          !.infoFile = [exists |-> TRUE, name |-> n, stream |-> open]]
      BY <1>9 DEF OpenInformationFails
    <3> QED
      BY <1>a, <3>1, <3>2, <3>3 DEF TypeOK, HandleFields, IoFields
  <2>2. UNCHANGED <<handle, modes, session>> /\ h.pool = "none"
    BY <1>9 DEF OpenInformationFails
  <2> QED
    BY <1>a, <2>1, <2>2
    DEF Rest, SessionStateAgrees, LayoutIsFrozen,
        FreedHasNoSession, OnlyWritersWriteInformation
<1>10. ASSUME NEW i \in Images, NEW m \in modes, Open(i, m) PROVE Rest'
  <2>1. ~h.readInit /\ ~h.writeInit
    BY <1>10, <1>a DEF Open, ClosedIsClean, Closed
  <2>2. /\ h'.pool = "library" /\ h'.createdInLibrary /\ h'.stream /\ ~h'.writeInit
        /\ (h'.readInit <=> Reads(m)) /\ (h'.writeInfo <=> h.writeInfo \/ Writes(m))
        /\ h'.infoFile.exists
    BY <1>10, <1>a, <2>1
    DEF Open, SegmentsOpened, Reads, Writes, TypeOK, HandleFields, IoFields
  <2>4. handle = "live" /\ UNCHANGED <<handle, modes>> /\ session' = m
    BY <1>10 DEF Open
  <2>5. m \in AccessModes
    BY <1>a DEF TypeOK
  <2> QED
    BY <1>a, <2>2, <2>4, <2>5
    DEF Rest, SessionStateAgrees, LayoutIsFrozen,
        FreedHasNoSession, OnlyWritersWriteInformation, AccessModes
<1>11. ASSUME NEW i \in Images, NEW m \in modes, OpenFileIoPool(i, m) PROVE Rest'
  <2>1. ~h.readInit /\ ~h.writeInit /\ ~h.createdInLibrary
    BY <1>11, <1>a DEF OpenFileIoPool, Rest, SessionStateAgrees, LayoutIsFrozen
  <2>2. /\ h'.pool = "caller" /\ ~h'.createdInLibrary /\ h'.stream /\ ~h'.writeInit
        /\ (h'.readInit <=> Reads(m)) /\ h'.writeInfo = h.writeInfo
    BY <1>11, <1>a, <2>1
    DEF OpenFileIoPool, SegmentsOpened, Reads, TypeOK, HandleFields, IoFields
  <2>3. handle = "live" /\ UNCHANGED <<handle, modes>> /\ session' = m
    BY <1>11 DEF OpenFileIoPool
  <2>4. m \in AccessModes
    BY <1>a DEF TypeOK
  <2> QED
    BY <1>a, <2>2, <2>3, <2>4
    DEF Rest, SessionStateAgrees, LayoutIsFrozen,
        FreedHasNoSession, OnlyWritersWriteInformation, AccessModes
<1>12. CASE WriteBuffer
  <2>1. h.pool # "none" /\ UNCHANGED <<handle, modes, session>>
    BY <1>12 DEF WriteBuffer
  <2>2. CASE h.writeInit /\ UNCHANGED <<h, io>>
    BY <1>4, <2>1, <2>2
  <2>3. CASE /\ h' = [h EXCEPT !.writeInit = TRUE]
             /\ io' = [io EXCEPT !.numSegs = NumberOfSegments(io.mediaSize, io.maxSegSize)]
    <3>1. /\ h'.pool = h.pool /\ h'.createdInLibrary = h.createdInLibrary
          /\ h'.stream = h.stream /\ h'.readInit = h.readInit
          /\ h'.writeInfo = h.writeInfo /\ h'.infoFile = h.infoFile
      BY <1>a, <2>3 DEF TypeOK, HandleFields, IoFields
    <3>2. /\ io'.basename = io.basename
          /\ io'.numSegs = NumberOfSegments(io'.mediaSize, io'.maxSegSize)
      BY <1>a, <2>3 DEF TypeOK, HandleFields, IoFields
    <3> QED
      BY <1>a, <2>1, <3>1, <3>2
      DEF Rest, SessionStateAgrees, LayoutIsFrozen,
          FreedHasNoSession, OnlyWritersWriteInformation
  <2> QED
    BY <1>12, <2>2, <2>3 DEF WriteBuffer, InitializeWriteValues
<1>13. CASE OpenRefused \/ CloseRefused
  BY <1>4, <1>13 DEF OpenRefused, CloseRefused
<1>14. CASE CloseCrashes
  BY <1>a, <1>14
  DEF CloseCrashes, Rest, SessionStateAgrees, LayoutIsFrozen,
      FreedHasNoSession, OnlyWritersWriteInformation
<1>15. CASE CloseInformationFails
  <2>1. PICK stream \in BOOLEAN : h' = [h EXCEPT !.infoFile.stream = stream]
    BY <1>15 DEF CloseInformationFails
  <2>2. /\ h'.pool = h.pool /\ h'.createdInLibrary = h.createdInLibrary
        /\ h'.stream = h.stream /\ h'.readInit = h.readInit /\ h'.writeInit = h.writeInit
        /\ h'.writeInfo = h.writeInfo /\ h'.infoFile.exists = h.infoFile.exists
        /\ h'.infoFile.name = h.infoFile.name
    BY <1>a, <2>1 DEF TypeOK, HandleFields, IoFields
  <2>3. UNCHANGED <<handle, io, modes, session>>
    BY <1>15 DEF CloseInformationFails
  <2> QED
    BY <1>a, <2>2, <2>3
    DEF Rest, SessionStateAgrees, LayoutIsFrozen,
        FreedHasNoSession, OnlyWritersWriteInformation
<1>16. CASE Close
  <2>1. /\ h'.pool = "none" /\ ~h'.createdInLibrary /\ ~h'.stream /\ ~h'.readInit
        /\ ~h'.writeInit /\ h'.writeInfo = h.writeInfo
    BY <1>16 DEF Close, AfterClose, Closed
  <2>2. session' = "none" /\ handle = "live" /\ UNCHANGED <<handle, modes>>
    BY <1>16 DEF Close
  <2> QED
    BY <1>a, <2>1, <2>2
    DEF Rest, SessionStateAgrees, LayoutIsFrozen,
        FreedHasNoSession, OnlyWritersWriteInformation
<1>17. CASE Free
  BY <1>17
  DEF Free, Rest, SessionStateAgrees, LayoutIsFrozen,
      FreedHasNoSession, OnlyWritersWriteInformation,
      Closed, NoInfoFile
<1>18. CASE UNCHANGED vars
  BY <1>4, <1>18 DEF vars
<1> QED
  BY <1>1, <1>2, <1>3, <1>5, <1>7, <1>8, <1>9, <1>10, <1>11, <1>12, <1>13, <1>14,
     <1>15, <1>16, <1>17, <1>18 DEF Next

(* Without a session: the setters choose for the next one, a failed open   *)
(* and close clear what was chosen, and only an open that failed at its    *)
(* information file leaves a stream or the information file behind.        *)
LEMMA StepClosed ==
  ASSUME IInv, [Next]_vars
  PROVE  ClosedIsClean' /\ ClosedHandleCanOpen' /\ SessionClearsChoice'
<1> DEFINE Clean == ClosedIsClean /\ ClosedHandleCanOpen /\ SessionClearsChoice
<1>a. TypeOK /\ Clean /\ SessionStateAgrees
  BY DEF IInv
<1>b. OnlyWritersWriteInformation'
  BY StepSession
<1>c. h'.writeInfo => \E m \in modes' : Writes(m)
  BY <1>b DEF OnlyWritersWriteInformation
<1> SUFFICES Clean'
  OBVIOUS
<1>1. ASSUME h' = Closed, io' = chosen', unread' = FALSE PROVE Clean'
  BY <1>c, <1>1
  DEF ClosedIsClean, ClosedHandleCanOpen, SessionClearsChoice, Closed, NoInfoFile
<1>2. ASSUME UNCHANGED <<h, unread, modes>>,
             h.pool = "none" /\ io = chosen => io' = chosen',
             h.pool # "none" => chosen' = chosen
      PROVE  Clean'
  BY <1>a, <1>2 DEF ClosedIsClean, ClosedHandleCanOpen, SessionClearsChoice
<1>3. ASSUME h'.pool # "none", chosen' = ClearedIo PROVE Clean'
  BY <1>3 DEF ClosedIsClean, ClosedHandleCanOpen, SessionClearsChoice
<1>4. CASE Initialize
  BY <1>1, <1>4 DEF Initialize
<1>5. CASE \/ \E stem \in Stems : SetSegmentFilename(stem)
           \/ \E s \in Sizes : SetMaximumSegmentSize(s) \/ SetMediaSize(s)
  <2>1. /\ UNCHANGED <<h, unread, modes>>
        /\ h.pool = "none" /\ io = chosen => io' = chosen'
        /\ h.pool # "none" => chosen' = chosen
    BY <1>5 DEF SetSegmentFilename, SetMaximumSegmentSize, SetMediaSize,
                ConfigurationOnly, ChosenForNext
  <2> QED
    BY <1>2, <2>1
<1>6. CASE \/ \E v \in Values : \/ SetMediaValue(v)
                                \/ SetInformationValue(v)
                                \/ SetIntegrityHashValue(v)
           \/ OpenRefused \/ CloseRefused \/ CloseCrashes \/ UNCHANGED vars
  <2>1. UNCHANGED <<h, io, chosen, unread, modes>>
    BY <1>6 DEF SetMediaValue, SetInformationValue, SetIntegrityHashValue, OpenRefused,
                CloseRefused, CloseCrashes, past, vars
  <2> QED
    BY <1>2, <2>1
<1>7. ASSUME h.pool = "none", h' = AfterFailedPoolOpen, io' = chosen',
             UNCHANGED <<unread, modes>>
      PROVE  Clean'
  <2>1. /\ h'.pool = "none" /\ ~h'.stream /\ ~h'.readInit
        /\ h'.writeInit = h.writeInit /\ h'.createdInLibrary = h.createdInLibrary
        /\ h'.writeInfo = h.writeInfo /\ h'.infoFile = h.infoFile
    BY <1>7, <1>a DEF AfterFailedPoolOpen, TypeOK, HandleFields
  <2>2. ~h'.infoFile.exists => h' = [Closed EXCEPT !.writeInfo = h'.writeInfo]
    BY <1>7, <1>a, <2>1, ZenonT(40) DEF AfterFailedPoolOpen, ClosedIsClean, Closed
  <2> QED
    BY <1>7, <1>a, <1>c, <2>1, <2>2 DEF ClosedIsClean, ClosedHandleCanOpen, SessionClearsChoice
<1>8. ASSUME NEW i \in Images, NEW m \in modes, OpenSegmentsFails(i, m) PROVE Clean'
  BY <1>7, <1>8 DEF OpenSegmentsFails
<1>9. ASSUME NEW i \in Images, NEW m \in modes, OpenFileIoPoolFails(i, m) PROVE Clean'
  <2>1. io = chosen
    BY <1>9, <1>a DEF OpenFileIoPoolFails, ClosedIsClean
  <2> QED
    BY <1>7, <1>9, <2>1 DEF OpenFileIoPoolFails
<1>10. ASSUME NEW i \in Images, NEW m \in modes, OpenInformationFails(i, m) PROVE Clean'
  <2>1. h.pool = "none" /\ ~h.createdInLibrary /\ ~h.writeInit
    BY <1>10, <1>a DEF OpenInformationFails, ClosedIsClean
  <2>2. PICK n, open : h' = [SegmentsOpened(m) EXCEPT
                          !.infoFile = [exists |-> TRUE, name |-> n, stream |-> open]]
    BY <1>10 DEF OpenInformationFails
  <2>3. /\ h'.pool = "none" /\ h'.infoFile.exists
        /\ ~h'.createdInLibrary /\ ~h'.writeInit
    BY <1>a, <2>1, <2>2 DEF SegmentsOpened, TypeOK, HandleFields
  <2>4. io' = chosen' /\ unread' = TRUE
    BY <1>10 DEF OpenInformationFails
  <2> QED
    BY <1>c, <2>3, <2>4 DEF ClosedIsClean, ClosedHandleCanOpen, SessionClearsChoice
<1>11. ASSUME NEW i \in Images, NEW m \in modes, Open(i, m) \/ OpenFileIoPool(i, m)
       PROVE  Clean'
  <2>1. h'.pool # "none" /\ chosen' = ClearedIo
    BY <1>11, <1>a DEF Open, OpenFileIoPool, SegmentsOpened, TypeOK, HandleFields
  <2> QED
    BY <1>3, <2>1
<1>12. CASE WriteBuffer \/ CloseInformationFails
  <2>1. h.pool # "none" /\ h'.pool # "none"
    BY <1>12, <1>a DEF WriteBuffer, InitializeWriteValues, CloseInformationFails,
                       InformationNotWritten, TypeOK, HandleFields
  <2>2. chosen' = ClearedIo
    BY <1>12, <1>a, <2>1 DEF WriteBuffer, CloseInformationFails, past, SessionClearsChoice
  <2> QED
    BY <1>3, <2>1, <2>2
<1>13. CASE Close
  <2>1. chosen = ClearedIo
    BY <1>13, <1>a DEF Close, ClosePastInformation, SessionClearsChoice
  <2>2. /\ h' = [Closed EXCEPT !.writeInfo = h'.writeInfo]
        /\ h'.pool = "none" /\ ~h'.stream /\ ~h'.infoFile.exists
        /\ ~h'.writeInit /\ ~h'.createdInLibrary
    BY <1>13 DEF Close, AfterClose, Closed, NoInfoFile
  <2>3. io' = chosen' /\ unread' = FALSE
    BY <1>13, <2>1 DEF Close
  <2> QED
    BY <1>c, <2>2, <2>3 DEF ClosedIsClean, ClosedHandleCanOpen, SessionClearsChoice
<1>14. CASE Free
  BY <1>1, <1>14 DEF Free
<1> QED
  BY <1>4, <1>5, <1>6, <1>8, <1>9, <1>10, <1>11, <1>12, <1>13, <1>14 DEF Next

(* The basename and the information file of a session are set by the open  *)
(* that began it, and by nothing after that.                               *)
LEMMA StepInformation ==
  ASSUME IInv, [Next]_vars
  PROVE  InformationFileMatches'
<1>a. TypeOK /\ InformationFileMatches
  BY DEF IInv
<1>1. ASSUME h'.pool # "library" PROVE InformationFileMatches'
  BY <1>1 DEF InformationFileMatches
<1>2. ASSUME h'.pool = h.pool, h'.infoFile.name = h.infoFile.name,
             h.pool = "library" => io'.basename = io.basename,
             UNCHANGED <<session, opened>>
      PROVE  InformationFileMatches'
  BY <1>a, <1>2 DEF InformationFileMatches
<1>3. CASE Initialize \/ Free \/ Close
  BY <1>1, <1>3 DEF Initialize, Free, Close, AfterClose, Closed
<1>4. ASSUME NEW stem \in Stems, SetSegmentFilename(stem) PROVE InformationFileMatches'
  <2>1. h.pool # "library"
    BY <1>4, <1>a DEF SetSegmentFilename, InformationFileMatches
  <2> QED
    BY <1>1, <1>4, <2>1 DEF SetSegmentFilename, ConfigurationOnly
<1>5. CASE \/ \E s \in Sizes : SetMaximumSegmentSize(s) \/ SetMediaSize(s)
           \/ \E v \in Values : \/ SetMediaValue(v)
                                \/ SetInformationValue(v)
                                \/ SetIntegrityHashValue(v)
           \/ OpenRefused \/ CloseRefused \/ CloseCrashes \/ UNCHANGED vars
  <2>1. UNCHANGED <<h, session, opened>> /\ io'.basename = io.basename
    BY <1>5, <1>a
    DEF SetMaximumSegmentSize, SetMediaSize, ConfigurationOnly, SetMediaValue,
        SetInformationValue, SetIntegrityHashValue, OpenRefused, CloseRefused,
        CloseCrashes, past, vars, TypeOK, IoFields
  <2> QED
    BY <1>2, <2>1
<1>6. ASSUME NEW i \in Images, NEW m \in modes,
             \/ OpenSegmentsFails(i, m) \/ OpenInformationFails(i, m)
             \/ OpenFileIoPool(i, m) \/ OpenFileIoPoolFails(i, m)
      PROVE  InformationFileMatches'
  <2>1. h'.pool # "library"
    <3>1. CASE OpenInformationFails(i, m)
      <4>1. PICK n, open : h' = [SegmentsOpened(m) EXCEPT
                            !.infoFile = [exists |-> TRUE, name |-> n, stream |-> open]]
        BY <3>1 DEF OpenInformationFails
      <4> QED
        BY <1>a, <3>1, <4>1 DEF OpenInformationFails, SegmentsOpened, TypeOK, HandleFields
    <3> QED
      BY <1>6, <1>a, <3>1
      DEF OpenSegmentsFails, OpenFileIoPool, OpenFileIoPoolFails, AfterFailedPoolOpen,
          SegmentsOpened, TypeOK, HandleFields
  <2> QED
    BY <1>1, <2>1
<1>7. ASSUME NEW i \in Images, NEW m \in modes, Open(i, m) PROVE InformationFileMatches'
  <2> DEFINE name == BasenameOf(i, m)
  <2>1. name \in Names /\ name # NoName
    BY BasenameType, NoNameAssumption DEF NoNameAssumption
  <2>2. name.stem = i.stem /\ (name.ext # "" => Reads(m) /\ i.schema = "split")
    BY DEF BasenameOf
  <2>3. h'.infoFile.name \in {name, NoName}
    BY <1>7, <1>a DEF Open, SegmentsOpened, TypeOK, HandleFields
  <2>4. io'.basename = name /\ session' = m /\ opened' = i
    BY <1>7, <1>a DEF Open, TypeOK, IoFields
  <2> HIDE DEF name
  <2> QED
    BY <2>1, <2>2, <2>3, <2>4 DEF InformationFileMatches
<1>8. CASE WriteBuffer
  <2>1. /\ h'.pool = h.pool /\ h'.infoFile = h.infoFile /\ io'.basename = io.basename
        /\ UNCHANGED <<session, opened>>
    BY <1>8, <1>a DEF WriteBuffer, InitializeWriteValues, past, TypeOK, HandleFields, IoFields
  <2> QED
    BY <1>2, <2>1
<1>9. CASE CloseInformationFails
  <2>1. PICK stream \in BOOLEAN : h' = [h EXCEPT !.infoFile.stream = stream]
    BY <1>9 DEF CloseInformationFails
  <2>2. /\ h'.pool = h.pool /\ h'.infoFile.name = h.infoFile.name
        /\ UNCHANGED <<io, session, opened>>
    BY <1>9, <1>a, <2>1 DEF CloseInformationFails, past, TypeOK, HandleFields
  <2> QED
    BY <1>2, <2>2
<1> QED
  BY <1>3, <1>4, <1>5, <1>6, <1>7, <1>8, <1>9 DEF Next

LEMMA StepIInv == IInv /\ [Next]_vars => IInv'
BY NextType, StepSession, StepClosed, StepInformation DEF IInv

LEMMA InvariantIInv == Spec => []IInv
<1>1. Init => IInv
  BY InitIInv
<1>2. IInv /\ [Next]_vars => IInv'
  BY StepIInv
<1> QED
  BY <1>1, <1>2, PTL DEF Spec

(* The fields that open, close and their error paths keep by hand agree    *)
(* with the session there is, whatever a program does and whatever fails.  *)
THEOREM SessionStateCorrect == Spec => []SessionStateAgrees
<1>1. IInv => SessionStateAgrees
  BY DEF IInv
<1> QED
  BY <1>1, InvariantIInv, PTL

(* Between two sessions, the IO handle holds what the program set since    *)
(* the last session or failed open and nothing else, and the handle's own  *)
(* fields are those of a new one; excepted are the flag to write the       *)
(* information file and what an open that failed at its information file   *)
(* leaves.  The tables are not spoken of.                                  *)
THEOREM ClosedCorrect == Spec => []ClosedIsClean
<1>1. IInv => ClosedIsClean
  BY DEF IInv
<1> QED
  BY <1>1, InvariantIInv, PTL

(* Of all the ways in which an open or a close can fail, in any order and  *)
(* for any program, only one makes the handle refuse to be opened again:   *)
(* an open that failed at its information file.                            *)
THEOREM ClosedCanOpen == Spec => []ClosedHandleCanOpen
<1>1. IInv => ClosedHandleCanOpen
  BY DEF IInv
<1> QED
  BY <1>1, InvariantIInv, PTL

(* No setter, open or close changes the sizes under a session that has     *)
(* begun to write, for any sizes.                                          *)
THEOREM LayoutCorrect == Spec => []LayoutIsFrozen
<1>1. IInv => LayoutIsFrozen
  BY DEF IInv
<1> QED
  BY <1>1, InvariantIInv, PTL

(* The information file of a session has the stem of the image's segment   *)
(* files, for any number of images and whatever the program sets; only for *)
(* a split image that is read is ".raw" left in its name.                  *)
THEOREM InformationFileCorrect == Spec => []InformationFileMatches
<1>1. IInv => InformationFileMatches
  BY DEF IInv
<1> QED
  BY <1>1, InvariantIInv, PTL

(***************************************************************************)
(* A program that only reads changes no file.                              *)
(***************************************************************************)
LEMMA ReaderStep ==
  ASSUME IInv, [Next]_vars, modes = {"read"}
  PROVE  UNCHANGED disk
<1>1. ~h.writeInfo /\ session # "write"
  BY DEF IInv, OnlyWritersWriteInformation, Writes
<1>2. ASSUME ClosePastInformation PROVE info' = info
  BY <1>1, <1>2 DEF ClosePastInformation
<1>3. ASSUME NEW stream, InformationNotWritten(stream) PROVE FALSE
  BY <1>1, <1>3 DEF InformationNotWritten
<1>4. CASE Initialize \/ OpenRefused \/ CloseRefused \/ CloseCrashes
  BY <1>4 DEF Initialize, OpenRefused, CloseRefused, CloseCrashes, disk
<1>5. CASE \/ \E stem \in Stems : SetSegmentFilename(stem)
           \/ \E s \in Sizes : SetMaximumSegmentSize(s) \/ SetMediaSize(s)
           \/ \E v \in Values : \/ SetMediaValue(v)
                                \/ SetInformationValue(v)
                                \/ SetIntegrityHashValue(v)
  BY <1>5 DEF SetSegmentFilename, SetMaximumSegmentSize, SetMediaSize, SetMediaValue,
              SetInformationValue, SetIntegrityHashValue, ConfigurationOnly, disk
<1>6. CASE \E i \in Images, m \in modes : \/ OpenSegmentsFails(i, m)
                                        \/ OpenInformationFails(i, m)
                                        \/ Open(i, m)
                                        \/ OpenFileIoPool(i, m)
                                        \/ OpenFileIoPoolFails(i, m)
  <2>1. PICK i \in Images, m \in modes : \/ OpenSegmentsFails(i, m)
                                        \/ OpenInformationFails(i, m)
                                        \/ Open(i, m)
                                        \/ OpenFileIoPool(i, m)
                                        \/ OpenFileIoPoolFails(i, m)
    BY <1>6
  <2>2. CASE OpenSegmentsFails(i, m)
    BY <2>2 DEF OpenSegmentsFails
  <2>3. CASE OpenInformationFails(i, m)
    BY <2>3 DEF OpenInformationFails
  <2>4. CASE Open(i, m)
    BY <2>4 DEF Open
  <2>5. CASE OpenFileIoPool(i, m)
    BY <2>5 DEF OpenFileIoPool
  <2>6. CASE OpenFileIoPoolFails(i, m)
    BY <2>6 DEF OpenFileIoPoolFails
  <2> QED
    BY <2>1, <2>2, <2>3, <2>4, <2>5, <2>6
<1>7. CASE WriteBuffer
  BY <1>1, <1>7 DEF WriteBuffer, disk
<1>8. CASE CloseInformationFails
  BY <1>3, <1>8 DEF CloseInformationFails
<1>9. CASE Close
  BY <1>2, <1>9 DEF Close, disk
<1>10. CASE Free
  BY <1>2, <1>3, <1>10 DEF Free, disk
<1>11. CASE UNCHANGED vars
  BY <1>11 DEF vars, disk
<1> QED
  BY <1>4, <1>5, <1>6, <1>7, <1>8, <1>9, <1>10, <1>11 DEF Next

(* A program that opens its handle only for reading never changes a        *)
(* segment file or an information file, whatever calls it makes and        *)
(* whatever fails.                                                         *)
THEOREM ReadersCorrect == Spec => ReadersNeverWrite
<1>1. IInv /\ [Next]_vars => [modes = {"read"} => UNCHANGED disk]_vars
  BY ReaderStep
<1> QED
  BY <1>1, InvariantIInv, PTL DEF Spec, ReadersNeverWrite

(***************************************************************************)
(* Programs like the tools: each opens its handle for reading or for       *)
(* writing, never for both, and lets the library open the files; reading   *)
(* and writing an information file that could be opened do not fail.       *)
(***************************************************************************)
ToolUse ==
  /\ ~CallerPools
  /\ \A program \in Programs : program \in {{}, {"read"}, {"write"}}
  /\ Faults \subseteq {"pool open", "info create", "pool close"}

(* ToolInv is inductive with IInv: a handle with the flag that makes close *)
(* write belongs to a program that never reads, and so drops no name.      *)
ToolInv ==
  /\ modes \in {{}, {"read"}, {"write"}}
  /\ ~h.infoFile.stream
  /\ OpenHandleCanClose

LEMMA InitToolInv == Init => ToolInv
BY DEF Init, ToolInv, OpenHandleCanClose, InformationFileBlocked,
       Closed, NoInfoFile

LEMMA StepToolInv ==
  ASSUME ToolUse, IInv, ToolInv, [Next]_vars
  PROVE  ToolInv'
<1>0. TypeOK /\ SessionStateAgrees /\ OnlyWritersWriteInformation
  BY DEF IInv
<1>1. CASE UNCHANGED <<h, modes>>
  BY <1>1 DEF ToolInv, OpenHandleCanClose, InformationFileBlocked
<1>2. CASE Initialize
  BY <1>2 DEF Initialize, ToolUse, ToolInv, OpenHandleCanClose,
              InformationFileBlocked, Closed, NoInfoFile
<1>3. CASE \/ \E stem \in Stems : SetSegmentFilename(stem)
           \/ \E s \in Sizes : SetMaximumSegmentSize(s) \/ SetMediaSize(s)
           \/ \E v \in Values : \/ SetMediaValue(v)
                                \/ SetInformationValue(v)
                                \/ SetIntegrityHashValue(v)
           \/ OpenRefused \/ CloseRefused \/ CloseCrashes \/ UNCHANGED vars
  BY <1>1, <1>3
  DEF SetSegmentFilename, SetMaximumSegmentSize, SetMediaSize, SetMediaValue,
      SetInformationValue, SetIntegrityHashValue, ConfigurationOnly, OpenRefused,
      CloseRefused, CloseCrashes, vars
<1>4. ASSUME NEW i \in Images, NEW m \in modes, OpenSegmentsFails(i, m) PROVE ToolInv'
  <2>1. h'.pool = "none" /\ h'.infoFile = h.infoFile /\ modes' = modes
    BY <1>0, <1>4 DEF OpenSegmentsFails, AfterFailedPoolOpen, TypeOK, HandleFields
  <2> QED
    BY <1>4, <2>1 DEF OpenSegmentsFails, ToolInv, OpenHandleCanClose
<1>5. ASSUME NEW i \in Images, NEW m \in modes, OpenInformationFails(i, m) PROVE FALSE
  <2>1. "info open" \notin Faults /\ "info read" \notin Faults /\ "info close" \notin Faults
    BY DEF ToolUse
  <2>2. PICK read \in SUBSET Sections, stream \in BOOLEAN :
          /\ \/ "info read" \in Faults /\ read \in InterruptedReads
             \/ read = Sections /\ stream
          /\ stream => "info close" \in Faults
    BY <1>5, <2>1 DEF OpenInformationFails
  <2> QED
    BY <2>1, <2>2
<1>6. ASSUME NEW i \in Images, NEW m \in modes, Open(i, m) PROVE ToolInv'
  <2>1. /\ h'.pool = "library" /\ h'.infoFile.exists /\ ~h'.infoFile.stream
        /\ (h'.writeInfo <=> h.writeInfo \/ Writes(m))
        /\ ~Reads(m) => h'.infoFile.name = BasenameOf(i, m)
        /\ modes' = modes
    BY <1>0, <1>6 DEF Open, SegmentsOpened, TypeOK, HandleFields, Writes
  <2>2. h'.writeInfo => ~Reads(m)
    BY <1>0, <2>1
    DEF OnlyWritersWriteInformation, ToolInv, Reads, Writes
  <2>3. BasenameOf(i, m) # NoName
    BY BasenameType, NoNameAssumption DEF NoNameAssumption
  <2> QED
    BY <2>1, <2>2, <2>3
    DEF ToolInv, OpenHandleCanClose, InformationFileBlocked
<1>7. ASSUME NEW i \in Images, NEW m \in modes,
             OpenFileIoPool(i, m) \/ OpenFileIoPoolFails(i, m)
      PROVE  FALSE
  BY <1>7 DEF OpenFileIoPool, OpenFileIoPoolFails, ToolUse
<1>8. CASE WriteBuffer
  <2>1. /\ h'.pool = h.pool /\ h'.writeInfo = h.writeInfo
        /\ h'.infoFile = h.infoFile /\ modes' = modes
    BY <1>0, <1>8 DEF WriteBuffer, InitializeWriteValues, TypeOK, HandleFields
  <2> QED
    BY <2>1 DEF ToolInv, OpenHandleCanClose, InformationFileBlocked
<1>9. CASE CloseInformationFails
  <2>1. PICK stream \in BOOLEAN :
          InformationNotWritten(stream) /\ h' = [h EXCEPT !.infoFile.stream = stream]
    BY <1>9 DEF CloseInformationFails
  <2>2. stream = h.infoFile.stream
    BY <2>1 DEF InformationNotWritten, ToolUse
  <2>3. /\ h'.pool = h.pool /\ h'.writeInfo = h.writeInfo
        /\ h'.infoFile.exists = h.infoFile.exists /\ h'.infoFile.name = h.infoFile.name
        /\ h'.infoFile.stream = h.infoFile.stream /\ modes' = modes
    BY <1>0, <1>9, <2>1, <2>2 DEF CloseInformationFails, TypeOK, HandleFields
  <2> QED
    BY <2>3 DEF ToolInv, OpenHandleCanClose, InformationFileBlocked
<1>10. CASE Close
  <2>1. h'.pool = "none" /\ h'.infoFile = NoInfoFile /\ modes' = modes
    BY <1>10 DEF Close, AfterClose, Closed
  <2> QED
    BY <2>1 DEF ToolInv, OpenHandleCanClose, NoInfoFile
<1>11. CASE Free
  BY <1>11 DEF Free, ToolInv, OpenHandleCanClose, Closed, NoInfoFile
<1> QED
  BY <1>2, <1>3, <1>4, <1>5, <1>6, <1>7, <1>8, <1>9, <1>10, <1>11 DEF Next

LEMMA ToolSpec ==
  ASSUME ToolUse
  PROVE  Spec => []ToolInv
<1>1. Init => ToolInv
  BY InitToolInv
<1>2. IInv /\ ToolInv /\ [Next]_vars => ToolInv'
  BY StepToolInv
<1> QED
  BY <1>1, <1>2, InvariantIInv, PTL DEF Spec

(* A program like the tools can always close what it opened: the           *)
(* information file that close has to write has a name, and is not open.   *)
THEOREM ToolsCanClose ==
  ASSUME ToolUse
  PROVE  Spec => []OpenHandleCanClose
<1>1. ToolInv => OpenHandleCanClose
  BY DEF ToolInv
<1> QED
  BY <1>1, ToolSpec, PTL
=============================================================================
