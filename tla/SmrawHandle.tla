---------------------------- MODULE SmrawHandle ----------------------------
(***************************************************************************)
(* The life of one libsmraw handle and of the disk it works on: the        *)
(* sessions a program opens on it (for reading, writing or both, on files  *)
(* it names or on a pool it brings), the configuration it sets between     *)
(* them, the information file stored beside the image, and what every      *)
(* early return and error path leaves behind.                              *)
(*                                                                         *)
(* The bytes of the media are the business of SegmentStream: here an image *)
(* is no more than how its files are named and how large it is.            *)
(***************************************************************************)
EXTENDS Naturals, SegmentLayout

CONSTANTS
  Stems,        \* the images the program works on: their names, less ".raw"
  Values,       \* the values a table holds; each has an identifier of its own
  MaxMedia,     \* bound: media and segment sizes are 0 .. MaxMedia
  DefaultSize,  \* LIBSMRAW_DEFAULT_MAXIMUM_SEGMENT_SIZE
  Programs,     \* programs, each the set of access modes it opens a handle in
  CallerPools,  \* TRUE when the program also opens pools of its own
  Faults,       \* the calls that may fail for reasons outside the library
  NoName        \* the NULL file name

AccessModes == {"read", "read_write", "write"}
FaultNames  == {"pool open", "info open", "info read", "info create",
                "info write", "info close", "pool close"}

ASSUME HandleAssumptions ==
  /\ MaxMedia \in Nat
  /\ DefaultSize \in 0 .. MaxMedia
  /\ Programs \subseteq SUBSET AccessModes
  /\ CallerPools \in BOOLEAN
  /\ Faults \subseteq FaultNames

Sizes == 0 .. MaxMedia

(* An image: one file "<stem>.raw", or the files "<stem>.raw.000" and on.  *)
Images == [stem : Stems, schema : {"single", "split"}]

(* A basename, and the information file called after it.  A basename that  *)
(* was cut off the first file of a split image still ends in ".raw".       *)
Names == [stem : Stems, ext : {"", ".raw"}]

ASSUME NoNameAssumption == NoName \notin Names

Sections        == {"media_values", "information_values", "integrity_hash_values"}
WrittenSections == {"information_values", "integrity_hash_values"}
Tables          == [Sections -> SUBSET Values]
EmptyTables     == [s \in Sections |-> {}]

Reads(mode)  == mode \in {"read", "read_write"}

(* Broken: tests for the wrong access flag.                                *)
WritesByReadFlag(mode) == mode \in {"read", "read_write"}

Writes(mode) == mode \in {"read_write", "write"}

VARIABLES
  handle,   \* "null", "live", or "crashed" (the process died in the library)
  h,        \* libsmraw_internal_handle_t, but for the tables
  io,       \* libsmraw_io_handle_t
  tables,   \* the three value tables of the handle
  image,    \* disk: the size of each image, 0 when there is none
  info,     \* disk: the information files
  modes,    \* the program: the access modes it uses on this handle
  session,  \* history: the mode of the open session, "none" when there is none
  result,   \* what the last open, close or free returned
  opened,   \* history: the image the open session is on, if the library opened it
  chosen,   \* history: what the program set of io for the session to come
  unread    \* history: an open failed at its information file, and no close since

vars == <<handle, h, io, tables, image, info, modes, session, result,
          opened, chosen, unread>>
disk == <<image, info>>
past == <<opened, chosen, unread>>

NoInfoFile == [exists |-> FALSE, name |-> NoName, stream |-> FALSE]
Closed == [pool |-> "none", createdInLibrary |-> FALSE, stream |-> FALSE,
           readInit |-> FALSE, writeInit |-> FALSE, writeInfo |-> FALSE,
           infoFile |-> NoInfoFile]
ClearedIo == [basename |-> NoName, mediaSize |-> 0, maxSegSize |-> DefaultSize,
              numSegs |-> 0]

AbsentInfo == [exists |-> FALSE, sections |-> EmptyTables]
StoredInfo == [exists |-> TRUE, sections |-> [s \in Sections |-> Values]]

HandleFields ==
  [pool : {"none", "library", "caller"}, createdInLibrary : BOOLEAN,
   stream : BOOLEAN, readInit : BOOLEAN, writeInit : BOOLEAN, writeInfo : BOOLEAN,
   infoFile : [exists : BOOLEAN, name : Names \cup {NoName}, stream : BOOLEAN]]
IoFields ==
  [basename : Names \cup {NoName}, mediaSize : Sizes, maxSegSize : Sizes, numSegs : Nat]
InformationFiles == [Names -> [exists : BOOLEAN, sections : Tables]]

TypeOK ==
  /\ handle \in {"null", "live", "crashed"}
  /\ h \in HandleFields
  /\ io \in IoFields
  /\ tables \in Tables
  /\ image \in [Images -> Sizes]
  /\ info \in InformationFiles
  /\ modes \in SUBSET AccessModes
  /\ session \in AccessModes \cup {"none"}
  /\ result \in {"none", "ok", "error"}
  /\ opened \in Images \cup {NoName}
  /\ chosen \in IoFields
  /\ unread \in BOOLEAN

(* The disk may hold images and information files from earlier runs.       *)
Init ==
  /\ handle = "null"
  /\ h = Closed
  /\ io = ClearedIo
  /\ tables = EmptyTables
  /\ image \in [Images -> {0, MaxMedia}]
  /\ info \in [Names -> {AbsentInfo, StoredInfo}]
  /\ modes = {}
  /\ session = "none"
  /\ result = "none"
  /\ opened = NoName
  /\ chosen = ClearedIo
  /\ unread = FALSE

-----------------------------------------------------------------------------
(* Creating the handle, and configuring it.                                *)

Initialize ==
  /\ handle = "null"
  /\ handle' = "live"
  /\ modes' \in Programs
  /\ h' = Closed
  /\ io' = ClearedIo
  /\ tables' = EmptyTables
  /\ result' = "none"
  /\ chosen' = ClearedIo
  /\ unread' = FALSE
  /\ UNCHANGED <<disk, session, opened>>

ConfigurationOnly == UNCHANGED <<handle, h, tables, disk, modes, session, opened, unread>>

(* What is set while no session is open is for the next one; what is set   *)
(* in a session goes with it.                                              *)
ChosenForNext(choice) == IF h.pool = "none" THEN choice ELSE chosen

(* Broken: the basename can be changed in an open session.                 *)
SetSegmentFilenameUnguarded(stem) ==
  /\ handle = "live"
  /\ io' = [io EXCEPT !.basename = [stem |-> stem, ext |-> ""]]
  /\ chosen' = ChosenForNext([chosen EXCEPT !.basename = [stem |-> stem, ext |-> ""]])
  /\ result' = "none"
  /\ ConfigurationOnly

(* Refused once a basename is set and a pool is there.                     *)
SetSegmentFilename(stem) ==
  /\ handle = "live"
  /\ io.basename = NoName \/ h.pool = "none"
  /\ io' = [io EXCEPT !.basename = [stem |-> stem, ext |-> ""]]
  /\ chosen' = ChosenForNext([chosen EXCEPT !.basename = [stem |-> stem, ext |-> ""]])
  /\ result' = "none"
  /\ ConfigurationOnly

(* Broken: the layout can be changed between two writes.                   *)
SetMaximumSegmentSizeUnguarded(size) ==
  /\ handle = "live"
  /\ io' = [io EXCEPT !.maxSegSize = size]
  /\ chosen' = ChosenForNext([chosen EXCEPT !.maxSegSize = size])
  /\ result' = "none"
  /\ ConfigurationOnly

(* Refused once a first write has fixed the layout of the segments.        *)
SetMaximumSegmentSize(size) ==
  /\ handle = "live"
  /\ ~h.writeInit
  /\ io' = [io EXCEPT !.maxSegSize = size]
  /\ chosen' = ChosenForNext([chosen EXCEPT !.maxSegSize = size])
  /\ result' = "none"
  /\ ConfigurationOnly

SetMediaSize(size) ==
  /\ handle = "live"
  /\ ~h.readInit /\ ~h.writeInit
  /\ io' = [io EXCEPT !.mediaSize = size]
  /\ chosen' = ChosenForNext([chosen EXCEPT !.mediaSize = size])
  /\ result' = "none"
  /\ ConfigurationOnly

(* Bytes per sector, media type and media flags.                           *)
SetMediaValue(v) ==
  /\ handle = "live"
  /\ ~h.readInit /\ ~h.writeInit
  /\ tables' = [tables EXCEPT !["media_values"] = @ \cup {v}]
  /\ result' = "none"
  /\ UNCHANGED <<handle, h, io, disk, modes, session, past>>

SetInformationValue(v) ==
  /\ handle = "live"
  /\ ~h.readInit
  /\ tables' = [tables EXCEPT !["information_values"] = @ \cup {v}]
  /\ result' = "none"
  /\ UNCHANGED <<handle, h, io, disk, modes, session, past>>

SetIntegrityHashValue(v) ==
  /\ handle = "live"
  /\ ~h.readInit
  /\ tables' = [tables EXCEPT !["integrity_hash_values"] = @ \cup {v}]
  /\ result' = "none"
  /\ UNCHANGED <<handle, h, io, disk, modes, session, past>>

-----------------------------------------------------------------------------
(* Opening.                                                                *)

(* The basename of a session.  For reading it is the name of the first     *)
(* file less its last four characters: "s.raw" gives "s", but the first    *)
(* file of a split image, "s.raw.000", gives "s.raw".  For writing it is   *)
(* the name as given; the broken one cuts that off too.                    *)
BasenameOfCutAlways(i, mode) ==
  [stem |-> i.stem, ext |-> IF i.schema = "split" THEN ".raw" ELSE ""]

BasenameOf(i, mode) ==
  [stem |-> i.stem,
   ext  |-> IF Reads(mode) /\ i.schema = "split" THEN ".raw" ELSE ""]

(* Broken: an offset one past the end is taken for the size.               *)
LargestFileSizesOffByOne(i) == {image[i] + 1}

(* The largest file of an image: the only one, or one among several.       *)
LargestFileSizes(i) ==
  IF i.schema = "single" THEN {image[i]} ELSE 1 .. image[i]

OpenRefused ==
  /\ handle = "live"
  /\ h.pool # "none" \/ h.infoFile.exists
  /\ result' = "error"
  /\ UNCHANGED <<handle, h, io, tables, disk, modes, session, past>>

(* What the error path of open_file_io_pool leaves of the handle; and two  *)
(* broken ones, which leave the stream, or count values as read.           *)
AfterFailedPoolOpenKeepsStream == [h EXCEPT !.stream = TRUE, !.readInit = FALSE]
AfterFailedPoolOpenKeepsRead   == [h EXCEPT !.stream = FALSE]

AfterFailedPoolOpen == [h EXCEPT !.stream = FALSE, !.readInit = FALSE]

(* The segment files cannot be opened, or a segments stream is still set.  *)
(* The error path of the pool frees the stream, that of open the rest, and *)
(* clears with the IO handle what the program had set for the session.     *)
OpenSegmentsFails(i, mode) ==
  /\ handle = "live"
  /\ h.pool = "none" /\ ~h.infoFile.exists
  /\ \/ h.stream
     \/ Reads(mode) /\ (image[i] = 0 \/ "pool open" \in Faults)
  /\ h' = AfterFailedPoolOpen
  /\ io' = ClearedIo
  /\ chosen' = ClearedIo
  /\ result' = "error"
  /\ UNCHANGED <<handle, tables, disk, modes, session, opened, unread>>

(* The state in which the segments stream and the pool are set.            *)
SegmentsOpened(mode) ==
  [h EXCEPT !.stream = TRUE, !.readInit = @ \/ Reads(mode)]

(* The sections that are in the tables when reading them is interrupted.   *)
InterruptedReads == {{}, {"media_values"}, {"media_values", "information_values"}}

(* The information file exists and cannot be opened, read to the end, or   *)
(* closed.  A failed fopen keeps its name; else it is closed, which drops  *)
(* the name also when it fails and leaves the file open.  The error path   *)
(* frees the pool and clears the IO handle, but neither the stream nor the *)
(* information file, on which it calls initialize in place of free.        *)
OpenInformationFails(i, mode) ==
  LET name == BasenameOf(i, mode) IN
  /\ handle = "live"
  /\ h.pool = "none" /\ ~h.infoFile.exists /\ ~h.stream
  /\ Reads(mode) /\ image[i] > 0 /\ info[name].exists
  /\ io' = ClearedIo
  /\ \/ /\ "info open" \in Faults
        /\ h' = [SegmentsOpened(mode) EXCEPT
                   !.infoFile = [exists |-> TRUE, name |-> name, stream |-> FALSE]]
        /\ UNCHANGED tables
     \/ \E read \in SUBSET Sections, stream \in BOOLEAN :
          /\ \/ "info read" \in Faults /\ read \in InterruptedReads
             \/ read = Sections /\ stream
          /\ stream => "info close" \in Faults
          /\ h' = [SegmentsOpened(mode) EXCEPT
                     !.infoFile = [exists |-> TRUE, name |-> NoName, stream |-> stream]]
          /\ tables' = [s \in Sections |-> IF s \in read
                                           THEN tables[s] \cup info[name].sections[s]
                                           ELSE tables[s]]
  /\ chosen' = ClearedIo
  /\ unread' = TRUE
  /\ result' = "error"
  /\ UNCHANGED <<handle, disk, modes, session, opened>>

(* For reading, an information file that exists is read and closed, and    *)
(* closing it drops its name.                                              *)
Open(i, mode) ==
  LET name == BasenameOf(i, mode)
      found == Reads(mode) /\ info[name].exists
  IN
  /\ handle = "live"
  /\ h.pool = "none" /\ ~h.infoFile.exists /\ ~h.stream
  /\ Reads(mode) => image[i] > 0
  /\ h' = [SegmentsOpened(mode) EXCEPT
             !.pool = "library", !.createdInLibrary = TRUE,
             !.writeInfo = @ \/ Writes(mode),
             !.infoFile = [exists |-> TRUE, stream |-> FALSE,
                           name |-> IF found THEN NoName ELSE name]]
  /\ IF Reads(mode)
     THEN \E largest \in LargestFileSizes(i) :
            io' = [io EXCEPT !.basename = name, !.mediaSize = image[i],
                             !.maxSegSize = largest]
     ELSE io' = [io EXCEPT !.basename = name]
  /\ tables' = IF found
               THEN [s \in Sections |-> tables[s] \cup info[name].sections[s]]
               ELSE tables
  /\ session' = mode
  /\ opened' = i
  /\ chosen' = ClearedIo
  /\ result' = "ok"
  /\ UNCHANGED <<handle, disk, modes, unread>>

(* Opening a pool of the program's own.  No information file is involved,  *)
(* and one left over from before is not looked at.                         *)
OpenFileIoPool(i, mode) ==
  /\ CallerPools /\ handle = "live"
  /\ h.pool = "none" /\ ~h.stream
  /\ Reads(mode) => image[i] > 0
  /\ h' = [SegmentsOpened(mode) EXCEPT !.pool = "caller"]
  /\ IF Reads(mode)
     THEN \E largest \in LargestFileSizes(i) :
            io' = [io EXCEPT !.mediaSize = image[i], !.maxSegSize = largest]
     ELSE UNCHANGED io
  /\ session' = mode
  /\ chosen' = ClearedIo
  /\ result' = "ok"
  /\ UNCHANGED <<handle, tables, disk, modes, opened, unread>>

(* A stream that is still set is an error, and the error path frees it.    *)
(* A file that cannot be opened leaves the size of the ones before it, as  *)
(* if the program had chosen it for the session to come.                   *)
OpenFileIoPoolFails(i, mode) ==
  /\ CallerPools /\ handle = "live"
  /\ h.pool = "none"
  /\ \/ h.stream /\ UNCHANGED <<io, chosen>>
     \/ /\ ~h.stream /\ Reads(mode)
        /\ \/ UNCHANGED <<io, chosen>>
           \/ \E s \in LargestFileSizes(i) :
                /\ io' = [io EXCEPT !.maxSegSize = s]
                /\ chosen' = [chosen EXCEPT !.maxSegSize = s]
        /\ image[i] = 0 \/ "pool open" \in Faults
  /\ h' = AfterFailedPoolOpen
  /\ result' = "error"
  /\ UNCHANGED <<handle, tables, disk, modes, session, opened, unread>>

-----------------------------------------------------------------------------
(* Writing: the first write of a session fixes the number of segments.     *)

InitializeWriteValues ==
  IF h.writeInit THEN UNCHANGED <<h, io>>
  ELSE /\ h' = [h EXCEPT !.writeInit = TRUE]
       /\ io' = [io EXCEPT !.numSegs = NumberOfSegments(io.mediaSize, io.maxSegSize)]

(* The first segment file of a set can be created only when there is a     *)
(* basename and the set is small enough to name.                           *)
CanCreateSegments ==
  /\ io.basename # NoName
  /\ CanNameSegment(io'.numSegs, 0)

WrittenImage ==
  [stem |-> io.basename.stem, schema |-> IF io'.numSegs = 1 THEN "single" ELSE "split"]

(* A write that finds segments to write to, or creates them.  The size the *)
(* image then has is what SegmentStream computes.                          *)
WriteBuffer ==
  /\ handle = "live"
  /\ h.pool # "none"
  /\ InitializeWriteValues
  /\ IF session = "write" /\ CanCreateSegments
     THEN \E size \in Sizes \ {0} :
            /\ io.mediaSize > 0 => size <= io.mediaSize
            /\ image' = [image EXCEPT ![WrittenImage] = size]
     ELSE UNCHANGED image
  /\ result' = "none"
  /\ UNCHANGED <<handle, tables, info, modes, session, past>>

-----------------------------------------------------------------------------
(* Closing and freeing.                                                    *)

CloseRefused ==
  /\ handle = "live"
  /\ h.pool = "none"
  /\ result' = "error"
  /\ UNCHANGED <<handle, h, io, tables, disk, modes, session, past>>

(* The information file is to be written and there is none: its name is    *)
(* read through a NULL pointer.                                            *)
NoInformationFileToWrite ==
  h.pool # "none" /\ h.writeInfo /\ ~h.infoFile.exists

CloseCrashes ==
  /\ handle = "live"
  /\ NoInformationFileToWrite
  /\ handle' = "crashed"
  /\ UNCHANGED <<h, io, tables, disk, modes, session, result, past>>

(* The information file cannot be opened for writing again: its name was   *)
(* dropped when it was read, or an earlier write left it open.             *)
InformationFileBlocked == h.infoFile.name = NoName \/ h.infoFile.stream

(* What the information file holds once some sections are written: it is   *)
(* truncated when it is opened, and the media values are never written.    *)
InformationWritten(sections) ==
  [info EXCEPT ![h.infoFile.name] =
     [exists |-> TRUE,
      sections |-> [s \in Sections |-> IF s \in sections THEN tables[s] ELSE {}]]]

(* The sections that reach the disk when writing them is interrupted.      *)
InterruptedWrites == {{}, {"information_values"}, WrittenSections}

(* Broken: a file that could not be created counts as open.                *)
InformationNotWrittenLeftOpen(stream) ==
  /\ h.pool # "none" /\ h.writeInfo /\ h.infoFile.exists
  /\ InformationFileBlocked \/ "info create" \in Faults
  /\ stream = TRUE
  /\ UNCHANGED info

(* The early returns of close: the information file cannot be opened, or a *)
(* section of it cannot be written, which leaves the file open.            *)
InformationNotWritten(stream) ==
  /\ h.pool # "none" /\ h.writeInfo /\ h.infoFile.exists
  /\ \/ /\ InformationFileBlocked \/ "info create" \in Faults
        /\ stream = h.infoFile.stream
        /\ UNCHANGED info
     \/ /\ ~InformationFileBlocked /\ "info write" \in Faults
        /\ stream = TRUE
        /\ \E written \in InterruptedWrites : info' = InformationWritten(written)

CloseInformationFails ==
  /\ handle = "live"
  /\ \E stream \in BOOLEAN :
       /\ InformationNotWritten(stream)
       /\ h' = [h EXCEPT !.infoFile.stream = stream]
  /\ result' = "error"
  /\ UNCHANGED <<handle, io, tables, image, modes, session, past>>

(* Close gets past the early returns, and returns what the information     *)
(* file and the pool say when they are closed.                             *)
CloseResults ==
  {"ok"} \cup (IF h.createdInLibrary /\ "pool close" \in Faults THEN {"error"} ELSE {})

ClosePastInformation ==
  /\ h.pool # "none"
  /\ \/ /\ ~h.writeInfo
        /\ UNCHANGED info
        /\ result' \in CloseResults
     \/ /\ h.writeInfo /\ h.infoFile.exists /\ ~InformationFileBlocked
        /\ \/ /\ info' = InformationWritten(WrittenSections)
              /\ result' \in CloseResults
           \/ /\ "info close" \in Faults
              /\ \E written \in InterruptedWrites : info' = InformationWritten(written)
              /\ result' = "error"

(* What close leaves of the handle: the flag that the information file is  *)
(* to be written stays as it is.  A broken one forgets to reset another.   *)
AfterCloseKeepsWriteValues ==
  [Closed EXCEPT !.writeInfo = h.writeInfo, !.writeInit = h.writeInit]

AfterClose == [Closed EXCEPT !.writeInfo = h.writeInfo]

(* The handle is closed, also when closing the files fails.  The tables    *)
(* stay as they are.                                                       *)
Close ==
  /\ handle = "live"
  /\ ClosePastInformation
  /\ h' = AfterClose
  /\ io' = ClearedIo
  /\ session' = "none"
  /\ opened' = NoName
  /\ unread' = FALSE
  /\ UNCHANGED <<handle, tables, image, modes, chosen>>

(* Free closes an open handle first, and goes on when that fails: what the *)
(* handle still holds then is lost with it.                                *)
Free ==
  /\ handle = "live"
  /\ \/ h.pool = "none" /\ result' = "ok" /\ UNCHANGED info
     \/ ClosePastInformation
     \/ /\ \E stream \in BOOLEAN : InformationNotWritten(stream)
        /\ result' = "error"
  /\ handle' = "null"
  /\ h' = Closed
  /\ io' = ClearedIo
  /\ tables' = EmptyTables
  /\ modes' = {}
  /\ session' = "none"
  /\ opened' = NoName
  /\ chosen' = ClearedIo
  /\ unread' = FALSE
  /\ UNCHANGED image

-----------------------------------------------------------------------------
Next ==
  \/ Initialize
  \/ \E stem \in Stems : SetSegmentFilename(stem)
  \/ \E s \in Sizes : SetMaximumSegmentSize(s) \/ SetMediaSize(s)
  \/ \E v \in Values : \/ SetMediaValue(v)
                       \/ SetInformationValue(v)
                       \/ SetIntegrityHashValue(v)
  \/ OpenRefused
  \/ \E i \in Images, m \in modes : \/ OpenSegmentsFails(i, m)
                                    \/ OpenInformationFails(i, m)
                                    \/ Open(i, m)
                                    \/ OpenFileIoPool(i, m)
                                    \/ OpenFileIoPoolFails(i, m)
  \/ WriteBuffer
  \/ CloseRefused
  \/ CloseCrashes
  \/ CloseInformationFails
  \/ Close
  \/ Free

Spec == Init /\ [][Next]_vars
-----------------------------------------------------------------------------
(* Properties of every program.                                            *)

(* The fields that open, its error paths, close and free keep by hand      *)
(* agree: a pool is there exactly while a session is, it has a stream to   *)
(* go with it, the handle owns it exactly when it opened the files itself, *)
(* and then it has an information file; values count as read exactly in a  *)
(* session that reads.                                                     *)
SessionStateAgrees ==
  /\ session = "none" <=> h.pool = "none"
  /\ h.pool # "none" => h.stream /\ (h.readInit <=> Reads(session))
  /\ h.createdInLibrary <=> h.pool = "library"
  /\ h.pool = "library" => h.infoFile.exists
  /\ h.readInit => h.stream

(* Between two sessions a handle carries nothing over from the one before, *)
(* nor from an open that failed: its IO handle (basename, sizes, number of *)
(* segments) holds what the program set since and nothing else, and its    *)
(* own fields are those of a new handle.  Two things are excepted.  The    *)
(* flag to write the information file on close is never reset, though only *)
(* a program that writes ever has it set; and an open that failed at its   *)
(* information file leaves that, the stream and the values read behind.    *)
(* (The value tables are not part of this: the code never empties them.)   *)
ClosedIsClean ==
  h.pool = "none" =>
    /\ io = chosen
    /\ ~h.writeInit /\ ~h.createdInLibrary
    /\ ~h.infoFile.exists => h = [Closed EXCEPT !.writeInfo = h.writeInfo]
    /\ h.writeInfo => \E m \in modes : Writes(m)

(* From the first write on, the number of segments that names the files is *)
(* the one that the sizes call for, whatever is set or opened in between:  *)
(* the setters and close work on the same three fields.                    *)
LayoutIsFrozen ==
  h.writeInit =>
    /\ h.pool # "none"
    /\ io.numSegs = NumberOfSegments(io.mediaSize, io.maxSegSize)

(* The information file of a session, whichever open or setter came when,  *)
(* is that of the image the session is on: it is named after the image's   *)
(* own stem, "<stem>.raw.info", also when the program sets another         *)
(* basename.  The exception is a split image that is read: what is cut off *)
(* the name of its first file leaves ".raw", and its information file is   *)
(* looked for, and written, as "<stem>.raw.raw.info".                      *)
InformationFileMatches ==
  h.pool = "library" =>
    /\ io.basename # NoName /\ io.basename.stem = opened.stem
    /\ h.infoFile.name \in {io.basename, NoName}
    /\ io.basename.ext # "" => Reads(session) /\ opened.schema = "split"

(* Only an open that failed at its information file makes a handle without *)
(* a session refuse the next open, or fail it over a stream that is still  *)
(* set: no other early return or error path does, of whatever calls in     *)
(* whatever order.                                                         *)
ClosedHandleCanOpen ==
  h.pool = "none" =>
    /\ h.infoFile.exists <=> unread
    /\ h.stream => unread

(* A program that opens its handle for reading only changes no file, by no *)
(* open, write, close or free, whatever fails.                             *)
ReadersNeverWrite == [][modes = {"read"} => UNCHANGED disk]_vars

(* A property of a program that opens a handle for reading or for writing, *)
(* not for both, and lets the library open the files.                      *)

(* An open handle can be closed: the information file it has to write is   *)
(* there, has a name and is not still open from an earlier try.            *)
OpenHandleCanClose ==
  h.pool # "none" /\ h.writeInfo => h.infoFile.exists /\ ~InformationFileBlocked

(* What the documentation says, and the code does not do.                  *)

(* libsmraw_handle.c:555 "Open for read only": a session opened for        *)
(* reading only leaves the files as they are.                              *)
ReadSessionKeepsFiles == [][session = "read" => UNCHANGED disk]_vars

(* libsmraw_handle.c:1880 "Returns 0 if successful or -1 on error": a call *)
(* of close or free returns.                                               *)
CloseReturns == handle # "crashed"
=============================================================================
