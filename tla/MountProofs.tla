---------------------------- MODULE MountProofs ----------------------------
(***************************************************************************)
(* Proofs about Mount, for any number of threads, open files and entries,  *)
(* and any size of the media.                                              *)
(*                                                                         *)
(* IInv, below, is inductive.  Its heart is Distinct: what a file or a     *)
(* callback has is its own.                                                *)
(***************************************************************************)
EXTENDS Mount, FiniteSetTheorems, TLAPS

Names == {"none", "read", "attributes", "list"}
Steps == {"none", "buffer", "return", "entry", "parent", "fill_parent", "sub", "fill_sub"}

Calls ==
  [name : Names, step : Steps, file : FileIds \cup {NoEntry}, entry : Nat, other : Nat,
   index : Nat, listed : SUBSET [path : Paths, handle : Nat], offset : 0 .. MediaSize,
   size : Nat, from : Nat, failed : BOOLEAN]

SystemTyped ==
  /\ frontend \in {"fuse", "dokan"} /\ phase \in {"opening", "serving", "ended", "failed"}
  /\ image \in {"none", "initialized", "open", "freed"}
  /\ handles \in {<< >>, <<"image">>} /\ offset \in 0 .. MediaSize

EntriesTyped ==
  /\ IsFiniteSet(Live) /\ Live \subseteq Nat \ {NoEntry}
  /\ \A e \in Live : entries[e] \in Paths

FilesTyped ==
  /\ DOMAIN files \subseteq FileIds
  /\ \A f \in DOMAIN files : files[f] \in [entry : Nat, directory : BOOLEAN]

CallsTyped == call \in [Threads -> Calls]

Typed == SystemTyped /\ EntriesTyped /\ FilesTyped /\ CallsTyped

(* What each callback has at each of its steps.                            *)
Shape(t) ==
  LET c == call[t] IN
  /\ c.name = "none" => c = Idle
  /\ c.name # "none" => phase = "serving"
  /\ c.name \in {"read", "attributes"} => c.other = NoEntry
  /\ c.name = "read" =>
       c.step \in {"buffer", "return"} /\ c.entry = NoEntry /\ c.file \in DOMAIN files
  /\ c.name = "attributes" => c.step = "entry" /\ c.entry # NoEntry
  /\ c.name = "list" =>
       /\ c.step \in {"parent", "fill_parent", "sub", "fill_sub", "return"}
       /\ c.step \in {"parent", "sub", "return"} => c.other = NoEntry
       /\ c.step = "fill_sub" => c.other # NoEntry
       /\ c.step = "return" => c.entry = NoEntry
       /\ frontend = "fuse" =>
            c.entry = NoEntry /\ c.file \in DOMAIN files /\ files[c.file].directory
       /\ frontend = "dokan" /\ c.step # "return" => c.entry # NoEntry

Shaped == \A t \in Threads : Shape(t)

(* FUSE is in one callback at most, and opens only the root as a directory.*)
OneAtATime ==
  frontend = "fuse" =>
    /\ \A t, u \in Threads : call[t] # Idle /\ call[u] # Idle => t = u
    /\ \A f \in DOMAIN files : files[f].directory => entries[files[f].entry] = Root

(* What a file or a callback has is there, and is its own.                 *)
Distinct ==
  /\ released \subseteq Live
  /\ \A f \in DOMAIN files : files[f].entry \in Live \ released
  /\ \A f, g \in DOMAIN files : files[f].entry = files[g].entry => f = g
  /\ \A t \in Threads :
       /\ {call[t].entry, call[t].other} \subseteq (Live \ released) \cup {NoEntry}
       /\ call[t].entry # NoEntry => call[t].entry # call[t].other
       /\ \A f \in DOMAIN files : files[f].entry \notin {call[t].entry, call[t].other}
       /\ \A u \in Threads \ {t} :
            /\ call[t].entry # NoEntry => call[t].entry \notin {call[u].entry, call[u].other}
            /\ call[t].other # NoEntry => call[t].other # call[u].other

(* No entry is left that nothing has.                                      *)
Covered == \A e \in Live : e \in Held \cup released

(* What is listed so far.                                                  *)
Listed(t) ==
  LET c == call[t] IN
  /\ \A l \in c.listed : HandleByPath(l.path) = l.handle
  /\ c.name = "list" =>
       /\ {l.handle : l \in c.listed} = 1 .. c.index
       /\ c.index <= Len(handles)
  /\ c.step = "fill_sub" => entries[c.other] = <<c.index + 1>> /\ c.index < Len(handles)
  /\ c.name = "list" /\ c.step = "return" /\ frontend = "fuse" => c.index = Len(handles)

AllListed == \A t \in Threads : Listed(t)

(* Between its two steps a FUSE read has the offset it sought.             *)
Exact(t) ==
  LET c == call[t] IN
  frontend = "fuse" /\ c.name = "read" =>
    /\ c.step = "buffer" => offset = c.offset
    /\ c.step = "return" /\ ~c.failed => c.from = c.offset

AllExact == \A t \in Threads : Exact(t)

IInv ==
  Typed /\ Shaped /\ OneAtATime /\ Distinct /\ Covered /\ AllListed /\ AllExact

-----------------------------------------------------------------------------
(* What the changes to entries do.                                         *)

LEMMA IntervalCardinality ==
  ASSUME NEW n \in Nat
  PROVE  Cardinality(1 .. n + 1) = n + 1
BY FS_Interval, n + 1 \in Int

LEMMA NewEntryIsNew ==
  ASSUME Typed
  PROVE  NewEntry \in Nat \ {NoEntry} /\ NewEntry \notin Live
<1> DEFINE live == Live
<1>1. IsFiniteSet(live) /\ Cardinality(live) \in Nat
  BY FS_CardinalityType DEF Typed, EntriesTyped
<1>2. \E e \in 1 .. Cardinality(live) + 1 : e \notin live
  <2>1. SUFFICES ASSUME 1 .. Cardinality(live) + 1 \subseteq live PROVE FALSE
    OBVIOUS
  <2>2. Cardinality(1 .. Cardinality(live) + 1) <= Cardinality(live)
    <3>1. 1 .. Cardinality(live) + 1 \in SUBSET live
      BY <2>1
    <3> HIDE DEF live
    <3> QED
      BY <1>1, <3>1, FS_Subset
  <2>3. Cardinality(1 .. Cardinality(live) + 1) = Cardinality(live) + 1
    BY <1>1, IntervalCardinality
  <2> QED
    BY <1>1, <2>2, <2>3
<1>3. NewEntry \in 1 .. Cardinality(live) + 1 /\ NewEntry \notin live
  BY <1>2 DEF NewEntry
<1> QED
  BY <1>1, <1>3 DEF NoEntry

LEMMA LiveWithNew ==
  ASSUME NEW path, entries' = WithNew(path)
  PROVE  /\ Live' = Live \cup {NewEntry} /\ entries'[NewEntry] = path
         /\ \A e \in Live : e # NewEntry => entries'[e] = entries[e]
BY DEF Live, WithNew

LEMMA LiveWithout ==
  ASSUME NEW some, entries' = Without(some)
  PROVE  /\ Live' = Live \ some
         /\ \A e \in Live \ some : entries'[e] = entries[e]
BY DEF Live, Without

-----------------------------------------------------------------------------
(* The steps there are.                                                    *)
Opens(t) ==
  \E file \in FileIds, path \in Paths, directory \in BOOLEAN :
    /\ OpensEntry(t, file, path, directory)
    /\ frontend = "fuse" /\ directory => path = Root

Closes(t) == \E file \in DOMAIN files : ReleasesEntry(t, file)

LEMMA StepCases ==
  ASSUME [Next]_vars
  PROVE  \/ OpenSources \/ AppendHandle \/ OpenFails \/ Unmount \/ UNCHANGED vars
         \/ \E t \in Threads :
              \/ Opens(t) \/ Closes(t) \/ FuseReleasedir(t) \/ FuseReaddir(t)
              \/ DokanFindFiles(t) \/ ReadSeek(t) \/ GetAttributes(t) \/ ReadBuffer(t)
              \/ ReadReturns(t) \/ AttributesReturn(t) \/ GetParentFileEntry(t) \/ FillParent(t)
              \/ GetSubFileEntryByIndex(t) \/ FillSub(t) \/ FillFails(t) \/ ListReturns(t)
              \/ ListReturned(t)
<1>1. Root \in Paths
  BY DEF Paths
<1>2. ASSUME NEW t \in Threads,
             FuseOpen(t) \/ FuseOpendir(t) \/ DokanCreateFile(t) \/ DokanOpenDirectory(t)
      PROVE  Opens(t)
  BY <1>1, <1>2, TRUE \in BOOLEAN, FALSE \in BOOLEAN
     DEF Opens, FuseOpen, FuseOpendir, DokanCreateFile, DokanOpenDirectory
<1>3. ASSUME NEW t \in Threads, FuseRelease(t) \/ DokanCloseFile(t)
      PROVE  Closes(t)
  BY <1>3 DEF Closes, FuseRelease, DokanCloseFile
<1> QED
  BY <1>2, <1>3 DEF Next, Starts, GoesOn

(* What a step does to the entries.                                        *)
EntriesStep ==
  \/ entries' = entries
  \/ \E path \in Paths : entries' = WithNew(path)
  \/ \E some \in SUBSET Nat : entries' = Without(some)

LEMMA StepEntries ==
  ASSUME Typed, [Next]_vars
  PROVE  EntriesStep
<1>1. /\ Root \in Paths /\ \A n \in 0 .. MaxNumber : <<n>> \in Paths
      /\ MaxNumber \in Nat \ {0}
  BY MountAssumptions DEF MountAssumptions, Paths
<1>2. /\ \A t \in Threads : call[t].entry \in Nat /\ call[t].other \in Nat /\ call[t].index \in Nat
      /\ Len(handles) \in {0, 1}
      /\ \A f \in DOMAIN files : files[f].entry \in Nat
  BY DEF Typed, SystemTyped, CallsTyped, Calls, FilesTyped
<1> USE DEF EntriesStep
<1>3. ASSUME NEW t \in Threads, Opens(t) PROVE EntriesStep
  BY <1>3 DEF Opens, OpensEntry
<1>4. ASSUME NEW t \in Threads, Closes(t) PROVE EntriesStep
  BY <1>4, <1>2 DEF Closes, ReleasesEntry
<1>5. ASSUME NEW t \in Threads, DokanFindFiles(t) \/ GetAttributes(t) PROVE EntriesStep
  BY <1>5 DEF DokanFindFiles, GetAttributes
<1>6. ASSUME NEW t \in Threads, GetParentFileEntry(t) PROVE EntriesStep
  BY <1>6, <1>1 DEF GetParentFileEntry
<1>7. ASSUME NEW t \in Threads, GetSubFileEntryByIndex(t) PROVE EntriesStep
  <2>1. entries' = WithNew(<<call[t].index + 1>>)
    BY <1>7 DEF GetSubFileEntryByIndex, PathFromHandleIndex
  <2>2. call[t].index < 1
    <3>1. \A path : NumberOfSubFileEntries(path) \in {0, 1}
      BY <1>2 DEF NumberOfSubFileEntries
    <3>2. call[t].index < NumberOfSubFileEntries(entries[ListedEntry(t)])
      BY <1>7 DEF GetSubFileEntryByIndex
    <3>3. call[t].index \in Nat
      BY <1>2
    <3> QED
      BY <3>1, <3>2, <3>3
  <2>3. call[t].index + 1 \in 0 .. MaxNumber
    BY <1>1, <1>2, <2>2
  <2> QED
    BY <1>1, <2>1, <2>3
<1>8. ASSUME NEW t \in Threads,
             AttributesReturn(t) \/ FillParent(t) \/ FillSub(t) \/ FillFails(t) \/ ListReturns(t)
      PROVE  EntriesStep
  BY <1>8, <1>2 DEF AttributesReturn, FillParent, FillSub, FillFails, ListReturns
<1>9. ASSUME NEW t \in Threads,
             \/ FuseReleasedir(t) \/ FuseReaddir(t) \/ ReadSeek(t) \/ ReadBuffer(t)
             \/ ReadReturns(t) \/ ListReturned(t)
      PROVE  EntriesStep
  BY <1>9 DEF FuseReleasedir, FuseReaddir, ReadSeek, ReadBuffer, ReadReturns, ListReturned
<1>10. CASE OpenSources \/ AppendHandle \/ OpenFails \/ Unmount \/ UNCHANGED vars
  BY <1>10 DEF OpenSources, AppendHandle, OpenFails, Unmount, vars
<1> QED
  BY StepCases, <1>3, <1>4, <1>5, <1>6, <1>7, <1>8, <1>9, <1>10

LEMMA StepEntriesTyped ==
  ASSUME Typed, [Next]_vars
  PROVE  EntriesTyped'
<1>1. EntriesTyped /\ NewEntry \in Nat \ {NoEntry}
  BY NewEntryIsNew DEF Typed
<1>2. CASE entries' = entries
  BY <1>1, <1>2 DEF EntriesTyped, Live
<1>3. ASSUME NEW path \in Paths, entries' = WithNew(path) PROVE EntriesTyped'
  <2>1. /\ Live' = Live \cup {NewEntry} /\ entries'[NewEntry] = path
        /\ \A e \in Live : e # NewEntry => entries'[e] = entries[e]
    BY <1>3, LiveWithNew
  <2>2. IsFiniteSet(Live \cup {NewEntry})
    BY <1>1, FS_AddElement DEF EntriesTyped
  <2>3. IsFiniteSet(Live') /\ Live' \subseteq Nat \ {NoEntry}
    BY <1>1, <2>1, <2>2 DEF EntriesTyped
  <2>4. \A e \in Live' : entries'[e] \in Paths
    BY <1>1, <1>3, <2>1 DEF EntriesTyped
  <2> QED
    BY <2>3, <2>4 DEF EntriesTyped, Paths
<1>4. ASSUME NEW some \in SUBSET Nat, entries' = Without(some) PROVE EntriesTyped'
  <2>1. /\ Live' = Live \ some
        /\ \A e \in Live \ some : entries'[e] = entries[e]
    BY <1>4, LiveWithout
  <2>2. IsFiniteSet(Live \ some)
    BY <1>1, FS_Subset, Live \ some \in SUBSET Live DEF EntriesTyped
  <2> QED
    BY <1>1, <2>1, <2>2 DEF EntriesTyped, Paths
<1> QED
  BY <1>2, <1>3, <1>4, StepEntries DEF EntriesStep

LEMMA StepFilesTyped ==
  ASSUME Typed, [Next]_vars
  PROVE  FilesTyped'
<1>1. FilesTyped /\ NewEntry \in Nat
  BY NewEntryIsNew DEF Typed
<1>2. ASSUME NEW t \in Threads, Opens(t) PROVE FilesTyped'
  BY <1>1, <1>2 DEF Opens, OpensEntry, FilesTyped
<1>3. ASSUME NEW t \in Threads, Closes(t) \/ FuseReleasedir(t) PROVE FilesTyped'
  BY <1>1, <1>3 DEF Closes, ReleasesEntry, FuseReleasedir, Releases, FilesTyped
<1>4. CASE files' = files
  BY <1>1, <1>4 DEF FilesTyped
<1> QED
  BY <1>2, <1>3, <1>4, StepCases DEF OpenSources, AppendHandle, OpenFails, Unmount, vars,
     FuseReaddir, DokanFindFiles, ReadSeek, GetAttributes, ReadBuffer, ReadReturns,
     AttributesReturn, GetParentFileEntry, FillParent, GetSubFileEntryByIndex, FillSub,
     FillFails, ListReturns, ListReturned

LEMMA StepSystemTyped ==
  ASSUME Typed, [Next]_vars
  PROVE  SystemTyped'
<1>1. SystemTyped /\ CallsTyped /\ MediaSize \in Nat
  BY MountAssumptions DEF MountAssumptions, Typed
<1>2. CASE OpenSources \/ AppendHandle \/ OpenFails \/ Unmount
  BY <1>1, <1>2 DEF OpenSources, AppendHandle, OpenFails, Unmount, SystemTyped
<1>3. ASSUME NEW t \in Threads, ReadSeek(t) PROVE SystemTyped'
  BY <1>1, <1>3 DEF ReadSeek, SystemTyped
<1>4. ASSUME NEW t \in Threads, ReadBuffer(t) PROVE SystemTyped'
  <2>1. call[t].size \in Nat
    BY <1>1 DEF CallsTyped, Calls
  <2>2. Clamped(call[t].size, offset) \in 0 .. MediaSize - offset
    BY <1>1, <2>1 DEF SystemTyped, Clamped
  <2>3. PICK count \in 0 .. Clamped(call[t].size, offset) : offset' = offset + count
    BY <1>4 DEF ReadBuffer
  <2>4. offset + count \in 0 .. MediaSize
    BY <1>1, <2>2, <2>3 DEF SystemTyped
  <2> QED
    BY <1>1, <1>4, <2>3, <2>4 DEF ReadBuffer, SystemTyped
<1>5. CASE UNCHANGED <<frontend, phase, handles, image, offset>>
  BY <1>1, <1>5 DEF SystemTyped
<1> QED
  BY <1>2, <1>3, <1>4, <1>5, StepCases, ZenonT(40) DEF Opens, OpensEntry, Closes, ReleasesEntry, Releases,
     FuseReleasedir, FuseReaddir, DokanFindFiles, GetAttributes, ReadReturns,
     AttributesReturn, GetParentFileEntry, FillParent, GetSubFileEntryByIndex, FillSub,
     FillFails, ListReturns, ListReturned, vars

(* The call of a thread, at its steps.                                     *)
LEMMA CallUpdates ==
  ASSUME NEW c \in Calls, NEW e \in Nat, NEW path \in Paths
  PROVE  /\ [c EXCEPT !.step = "fill_parent"] \in Calls
         /\ [c EXCEPT !.step = "fill_parent", !.other = e] \in Calls
         /\ [c EXCEPT !.step = "sub", !.other = NoEntry] \in Calls
         /\ [c EXCEPT !.step = "fill_sub", !.other = e] \in Calls
         /\ [c EXCEPT !.step = "return", !.entry = NoEntry] \in Calls
         /\ [c EXCEPT !.step = "sub", !.other = NoEntry, !.index = c.index + 1,
                      !.listed = c.listed \cup {[path |-> path, handle |-> c.index + 1]}] \in Calls
         /\ \A from \in Nat, failed \in BOOLEAN :
              [c EXCEPT !.step = "return", !.failed = failed, !.from = from] \in Calls
<1> USE DEF Calls, Steps, NoEntry
<1>1. [c EXCEPT !.step = "fill_parent"] \in Calls
  OBVIOUS
<1>2. [c EXCEPT !.step = "fill_parent", !.other = e] \in Calls
  OBVIOUS
<1>3. [c EXCEPT !.step = "sub", !.other = NoEntry] \in Calls
  OBVIOUS
<1>4. [c EXCEPT !.step = "fill_sub", !.other = e] \in Calls
  OBVIOUS
<1>5. [c EXCEPT !.step = "return", !.entry = NoEntry] \in Calls
  OBVIOUS
<1>6. [c EXCEPT !.step = "sub", !.other = NoEntry, !.index = c.index + 1,
                !.listed = c.listed \cup {[path |-> path, handle |-> c.index + 1]}] \in Calls
  <2>1. c.index + 1 \in Nat
    OBVIOUS
  <2>2. [path |-> path, handle |-> c.index + 1] \in [path : Paths, handle : Nat]
    BY <2>1
  <2> DEFINE index == c.index + 1
             listed == c.listed \cup {[path |-> path, handle |-> c.index + 1]}
  <2>3. listed \in SUBSET [path : Paths, handle : Nat]
    BY <2>2
  <2> HIDE DEF index, listed
  <2>4. [c EXCEPT !.step = "sub", !.other = NoEntry, !.index = index, !.listed = listed] \in Calls
    BY <2>1, <2>3 DEF index
  <2> QED
    BY <2>4 DEF index, listed
<1>7. \A from \in Nat, failed \in BOOLEAN :
        [c EXCEPT !.step = "return", !.failed = failed, !.from = from] \in Calls
  OBVIOUS
<1> QED
  BY <1>1, <1>2, <1>3, <1>4, <1>5, <1>6, <1>7, Zenon

LEMMA CallStarts ==
  /\ Idle \in Calls
  /\ \A e \in Nat : [Idle EXCEPT !.name = "attributes", !.step = "entry", !.entry = e] \in Calls
  /\ \A e \in Nat : [Idle EXCEPT !.name = "list", !.step = "parent", !.entry = e] \in Calls
  /\ \A f \in FileIds : [Idle EXCEPT !.name = "list", !.step = "parent", !.file = f] \in Calls
  /\ \A f \in FileIds, from \in 0 .. MediaSize, size \in Nat :
       ReadCall(f, from, size) \in Calls
<1>1. MediaSize \in Nat /\ NoEntry \in Nat
  BY MountAssumptions DEF MountAssumptions, NoEntry
<1>2. Idle \in Calls
  BY <1>1 DEF Calls, Steps, Names, Idle
<1>3. ASSUME NEW e \in Nat
      PROVE  [Idle EXCEPT !.name = "attributes", !.step = "entry", !.entry = e] \in Calls
  BY <1>2 DEF Calls, Steps, Names
<1>4. ASSUME NEW e \in Nat
      PROVE  [Idle EXCEPT !.name = "list", !.step = "parent", !.entry = e] \in Calls
  BY <1>2 DEF Calls, Steps, Names
<1>5. ASSUME NEW f \in FileIds
      PROVE  [Idle EXCEPT !.name = "list", !.step = "parent", !.file = f] \in Calls
  BY <1>2 DEF Calls, Steps, Names
<1>6. ASSUME NEW f \in FileIds, NEW from \in 0 .. MediaSize, NEW size \in Nat
      PROVE  ReadCall(f, from, size) \in Calls
  BY <1>2 DEF ReadCall, Calls, Steps, Names
<1> QED
  BY <1>2, <1>3, <1>4, <1>5, <1>6, Zenon

LEMMA IdleIs ==
  /\ Idle.name = "none" /\ Idle.step = "none" /\ Idle.entry = NoEntry /\ Idle.other = NoEntry
  /\ Idle.listed = {} /\ Idle.index = 0
BY DEF Idle

(* The call that a read makes, and what the read leaves of it.             *)
LEMMA ReadSteps ==
  ASSUME Typed, NEW t \in Threads
  PROVE  /\ ReadSeek(t) =>
              \E c \in Calls :
                /\ call' = [call EXCEPT ![t] = c]
                /\ c.name = "read" /\ c.step = "buffer" /\ c.file \in DOMAIN files
                /\ c.entry = NoEntry /\ c.other = NoEntry /\ c.listed = {}
                /\ offset' = c.offset
         /\ ReadBuffer(t) =>
              \E c \in Calls :
                /\ call' = [call EXCEPT ![t] = c]
                /\ c.name = "read" /\ c.step = "return" /\ c.file = call[t].file
                /\ c.entry = call[t].entry /\ c.other = call[t].other
                /\ c.listed = call[t].listed /\ c.offset = call[t].offset
                /\ ~c.failed => c.from = offset
<1>1. call[t] \in Calls /\ offset \in Nat
  BY MountAssumptions DEF MountAssumptions, Typed, SystemTyped, CallsTyped
<1>2. ASSUME ReadSeek(t)
      PROVE  \E c \in Calls :
                /\ call' = [call EXCEPT ![t] = c]
                /\ c.name = "read" /\ c.step = "buffer" /\ c.file \in DOMAIN files
                /\ c.entry = NoEntry /\ c.other = NoEntry /\ c.listed = {}
                /\ offset' = c.offset
  <2>1. PICK file \in DOMAIN files, from \in 0 .. MediaSize, size \in 1 .. MaxRead :
          offset' = from /\ call' = [call EXCEPT ![t] = ReadCall(file, from, size)]
    BY <1>2 DEF ReadSeek, Goes
  <2>2. file \in FileIds /\ size \in Nat
    BY MountAssumptions DEF MountAssumptions, Typed, FilesTyped
  <2>3. ReadCall(file, from, size) \in Calls
    BY <2>2, CallStarts
  <2>4. /\ ReadCall(file, from, size).name = "read"
        /\ ReadCall(file, from, size).step = "buffer"
        /\ ReadCall(file, from, size).file = file
        /\ ReadCall(file, from, size).entry = NoEntry
        /\ ReadCall(file, from, size).other = NoEntry
        /\ ReadCall(file, from, size).listed = {}
        /\ ReadCall(file, from, size).offset = from
    BY DEF ReadCall, Idle
  <2> QED
    BY <2>1, <2>3, <2>4
<1>3. ASSUME ReadBuffer(t)
      PROVE  \E c \in Calls :
                /\ call' = [call EXCEPT ![t] = c]
                /\ c.name = "read" /\ c.step = "return" /\ c.file = call[t].file
                /\ c.entry = call[t].entry /\ c.other = call[t].other
                /\ c.listed = call[t].listed /\ c.offset = call[t].offset
                /\ ~c.failed => c.from = offset
  <2>1. call[t].name = "read"
    BY <1>3 DEF ReadBuffer, In
  <2>2. PICK failed \in BOOLEAN, from \in {0, offset} :
          /\ from = IF failed THEN 0 ELSE offset
          /\ call' = [call EXCEPT ![t] =
                        [call[t] EXCEPT !.step = "return", !.failed = failed, !.from = from]]
    BY <1>3 DEF ReadBuffer, Goes
  <2> DEFINE c == [call[t] EXCEPT !.step = "return", !.failed = failed, !.from = from]
  <2>3. from \in Nat /\ Root \in Paths
    BY <1>1 DEF Paths
  <2>4. c \in Calls
    BY <1>1, <2>3, CallUpdates
  <2>5. /\ c.name = "read" /\ c.step = "return" /\ c.file = call[t].file
        /\ c.entry = call[t].entry /\ c.other = call[t].other
        /\ c.listed = call[t].listed /\ c.offset = call[t].offset
        /\ ~c.failed => c.from = offset
    BY <1>1, <2>1, <2>2 DEF Calls
  <2> HIDE DEF c
  <2>6. call' = [call EXCEPT ![t] = c]
    BY <2>2 DEF c
  <2> QED
    BY <2>4, <2>5, <2>6
<1> QED
  BY <1>2, <1>3

LEMMA StepCallsTyped ==
  ASSUME IInv, [Next]_vars
  PROVE  CallsTyped'
<1>1. Typed /\ CallsTyped /\ NewEntry \in Nat /\ Shaped /\ Distinct
  BY NewEntryIsNew DEF IInv, Typed
<1>2. ASSUME NEW t \in Threads, NEW c \in Calls, call' = [call EXCEPT ![t] = c]
      PROVE  CallsTyped'
  BY <1>1, <1>2 DEF CallsTyped
<1>3. \A t \in Threads : call[t] \in Calls
  BY <1>1 DEF CallsTyped
<1>4. Root \in Paths
  BY DEF Paths
<1>5. ASSUME NEW t \in Threads,
             ReadReturns(t) \/ AttributesReturn(t) \/ FillFails(t) \/ ListReturned(t)
      PROVE  CallsTyped'
  BY <1>2, <1>5, CallStarts DEF ReadReturns, AttributesReturn, FillFails, ListReturned, Ends
<1>6. ASSUME NEW t \in Threads, FuseReaddir(t)
      PROVE  CallsTyped'
  <2>1. PICK file \in DOMAIN files :
          call' = [call EXCEPT ![t] = [Idle EXCEPT !.name = "list", !.step = "parent", !.file = file]]
    BY <1>6 DEF FuseReaddir
  <2>2. file \in FileIds
    BY <1>1 DEF Typed, FilesTyped
  <2> QED
    BY <2>1, <2>2, <1>2, CallStarts
<1>7. ASSUME NEW t \in Threads, DokanFindFiles(t)
      PROVE  CallsTyped'
  BY <1>1, <1>2, <1>7, CallStarts DEF DokanFindFiles
<1>8. ASSUME NEW t \in Threads, GetAttributes(t)
      PROVE  CallsTyped'
  BY <1>1, <1>2, <1>8, CallStarts DEF GetAttributes
<1>9. ASSUME NEW t \in Threads, GetParentFileEntry(t)
      PROVE  CallsTyped'
  <2>1. \/ call' = [call EXCEPT ![t] = [call[t] EXCEPT !.step = "fill_parent"]]
        \/ call' = [call EXCEPT ![t] = [call[t] EXCEPT !.step = "fill_parent", !.other = NewEntry]]
    BY <1>9, SMTT(30) DEF GetParentFileEntry, Goes
  <2>2. /\ [call[t] EXCEPT !.step = "fill_parent"] \in Calls
        /\ [call[t] EXCEPT !.step = "fill_parent", !.other = NewEntry] \in Calls
    BY <1>1, <1>3, <1>4, CallUpdates
  <2> QED
    BY <2>1, <2>2, <1>2
<1>10. ASSUME NEW t \in Threads, FillParent(t)
       PROVE  CallsTyped'
  <2>1. call' = [call EXCEPT ![t] = [call[t] EXCEPT !.step = "sub", !.other = NoEntry]]
    BY <1>10 DEF FillParent, Goes
  <2>2. [call[t] EXCEPT !.step = "sub", !.other = NoEntry] \in Calls
    BY <1>1, <1>3, <1>4, CallUpdates
  <2> QED
    BY <2>1, <2>2, <1>2
<1>11. ASSUME NEW t \in Threads, GetSubFileEntryByIndex(t)
       PROVE  CallsTyped'
  <2>1. call' = [call EXCEPT ![t] = [call[t] EXCEPT !.step = "fill_sub", !.other = NewEntry]]
    BY <1>11 DEF GetSubFileEntryByIndex, Goes
  <2>2. [call[t] EXCEPT !.step = "fill_sub", !.other = NewEntry] \in Calls
    BY <1>1, <1>3, <1>4, CallUpdates
  <2> QED
    BY <2>1, <2>2, <1>2
<1>12. ASSUME NEW t \in Threads, FillSub(t)
       PROVE  CallsTyped'
  <2> DEFINE path == entries[call[t].other]
  <2>1. call[t].name = "list" /\ call[t].step = "fill_sub"
    BY <1>12 DEF FillSub, In
  <2>2. call[t].other \in Live
    BY <1>1, <2>1 DEF Shaped, Shape, Distinct
  <2>3. path \in Paths
    BY <1>1, <2>2 DEF Typed, EntriesTyped
  <2>4. call' = [call EXCEPT ![t] =
          [call[t] EXCEPT !.step = "sub", !.other = NoEntry, !.index = call[t].index + 1,
             !.listed = call[t].listed \cup {[path |-> path, handle |-> call[t].index + 1]}]]
    BY <1>12, SMTT(30) DEF FillSub, Goes
  <2> HIDE DEF path
  <2>5. [call[t] EXCEPT !.step = "sub", !.other = NoEntry, !.index = call[t].index + 1,
           !.listed = call[t].listed \cup {[path |-> path, handle |-> call[t].index + 1]}]
           \in Calls
    BY <1>1, <1>3, <2>3, CallUpdates
  <2> QED
    BY <2>4, <2>5, <1>2
<1>13. ASSUME NEW t \in Threads, ListReturns(t)
       PROVE  CallsTyped'
  <2>1. call' = [call EXCEPT ![t] = [call[t] EXCEPT !.step = "return", !.entry = NoEntry]]
    BY <1>13 DEF ListReturns, Goes
  <2>2. [call[t] EXCEPT !.step = "return", !.entry = NoEntry] \in Calls
    BY <1>1, <1>3, <1>4, CallUpdates
  <2> QED
    BY <2>1, <2>2, <1>2
<1>14. ASSUME NEW t \in Threads, ReadSeek(t) \/ ReadBuffer(t)
       PROVE  CallsTyped'
  BY <1>1, <1>2, <1>14, ReadSteps
<1>15. CASE call' = call
  BY <1>1, <1>15 DEF CallsTyped
<1> QED
  BY <1>5, <1>6, <1>7, <1>8, <1>9, <1>10, <1>11, <1>12, <1>13, <1>14, <1>15,
     StepCases DEF OpenSources, AppendHandle, OpenFails, Unmount, vars, Opens, OpensEntry,
     Closes, ReleasesEntry, FuseReleasedir, Releases

LEMMA StepTyped ==
  ASSUME IInv, [Next]_vars
  PROVE  Typed'
BY StepSystemTyped, StepEntriesTyped, StepFilesTyped, StepCallsTyped DEF IInv, Typed

-----------------------------------------------------------------------------
(* No step changes the frontend.                                           *)
LEMMA StepFrontend ==
  ASSUME [Next]_vars
  PROVE  frontend' = frontend
BY StepCases DEF OpenSources, AppendHandle, OpenFails, Unmount, vars, Opens, OpensEntry, Closes,
   ReleasesEntry, Releases, FuseReleasedir, FuseReaddir, DokanFindFiles, ReadSeek,
   GetAttributes, ReadBuffer, ReadReturns, AttributesReturn, GetParentFileEntry, FillParent,
   GetSubFileEntryByIndex, FillSub, FillFails, ListReturns, ListReturned

(* Every callback goes through its steps.                                  *)
LEMMA StepShaped ==
  ASSUME IInv, [Next]_vars
  PROVE  Shaped'
<1>1. CallsTyped /\ (\A u \in Threads : call[u] \in Calls /\ Shape(u)) /\ frontend' = frontend
  BY StepFrontend DEF IInv, Typed, CallsTyped, Shaped
<1>2. NewEntry # NoEntry
  BY NewEntryIsNew DEF IInv
<1> SUFFICES ASSUME NEW u \in Threads PROVE Shape(u)'
  BY DEF Shaped
<1>3. CASE OpenSources \/ AppendHandle \/ OpenFails \/ Unmount
  <2>1. call[u].name = "none" /\ call' = call
    BY <1>1, <1>3, IdleIs DEF OpenSources, AppendHandle, OpenFails, Unmount, Shape
  <2> QED
    BY <1>1, <2>1 DEF Shape
<1>4. ASSUME NEW t \in Threads, Opens(t) PROVE Shape(u)'
  BY <1>1, <1>4 DEF Opens, OpensEntry, Shape
<1>5. ASSUME NEW t \in Threads, Closes(t) \/ FuseReleasedir(t) PROVE Shape(u)'
  <2>1. PICK file \in DOMAIN files : Releases(t, file)
    BY <1>5 DEF Closes, ReleasesEntry, FuseReleasedir
  <2>2. call' = call /\ phase' = phase
    BY <1>5 DEF Closes, ReleasesEntry, FuseReleasedir
  <2>3. DOMAIN files' = DOMAIN files \ {file} /\ \A f \in DOMAIN files \ {file} : files'[f] = files[f]
    BY <2>1 DEF Releases
  <2>4. call[u].file # file
    BY <2>1 DEF Releases, InUse
  <2> QED
    BY <1>1, <2>2, <2>3, <2>4 DEF Shape
<1>6. ASSUME NEW t \in Threads, FuseReaddir(t) PROVE Shape(u)'
  BY <1>1, <1>6 DEF FuseReaddir, MayStart, Shape, Idle
<1>7. ASSUME NEW t \in Threads, DokanFindFiles(t) PROVE Shape(u)'
  BY <1>1, <1>2, <1>7 DEF DokanFindFiles, MayStart, Shape, Idle
<1>8. ASSUME NEW t \in Threads, GetAttributes(t) PROVE Shape(u)'
  BY <1>1, <1>2, <1>8 DEF GetAttributes, MayStart, Shape, Idle
<1>9. ASSUME NEW t \in Threads, ReadSeek(t) PROVE Shape(u)'
  <2>1. files' = files /\ phase' = phase /\ phase = "serving"
    BY <1>9 DEF ReadSeek, MayStart
  <2>2. PICK c \in Calls :
          /\ call' = [call EXCEPT ![t] = c]
          /\ c.name = "read" /\ c.step = "buffer" /\ c.file \in DOMAIN files
          /\ c.entry = NoEntry /\ c.other = NoEntry
    BY <1>9, ReadSteps DEF IInv
  <2> QED
    BY <1>1, <2>1, <2>2 DEF Shape, CallsTyped
<1>10. ASSUME NEW t \in Threads, ReadBuffer(t) PROVE Shape(u)'
  <2>1. call[t].name = "read" /\ files' = files /\ phase' = phase
    BY <1>10 DEF ReadBuffer, In
  <2>2. PICK c \in Calls :
          /\ call' = [call EXCEPT ![t] = c]
          /\ c.name = "read" /\ c.step = "return" /\ c.file = call[t].file
          /\ c.entry = call[t].entry /\ c.other = call[t].other
    BY <1>10, ReadSteps DEF IInv
  <2> QED
    BY <1>1, <2>1, <2>2 DEF Shape, CallsTyped
<1>11. ASSUME NEW t \in Threads,
              ReadReturns(t) \/ AttributesReturn(t) \/ FillFails(t) \/ ListReturned(t)
       PROVE  Shape(u)'
  <2>1. files' = files /\ phase' = phase /\ call' = [call EXCEPT ![t] = Idle]
    BY <1>11 DEF ReadReturns, AttributesReturn, FillFails, ListReturned, Ends
  <2> QED
    BY <1>1, <2>1, IdleIs DEF Shape, CallsTyped
<1>12. ASSUME NEW t \in Threads, GetParentFileEntry(t) PROVE Shape(u)'
  <2>1. /\ call[t].name = "list" /\ files' = files /\ phase' = phase
        /\ \/ call' = [call EXCEPT ![t] = [call[t] EXCEPT !.step = "fill_parent"]]
           \/ call' = [call EXCEPT ![t] = [call[t] EXCEPT !.step = "fill_parent", !.other = NewEntry]]
    BY <1>12 DEF GetParentFileEntry, In, Goes
  <2>2. call[t].step = "parent"
    BY <1>12 DEF GetParentFileEntry, In
  <2>3. CASE call' = [call EXCEPT ![t] = [call[t] EXCEPT !.step = "fill_parent"]]
    BY <1>1, <2>1, <2>2, <2>3 DEF Shape, Calls
  <2>4. CASE call' = [call EXCEPT ![t] = [call[t] EXCEPT !.step = "fill_parent", !.other = NewEntry]]
    BY <1>1, <2>1, <2>2, <2>4 DEF Shape, Calls
  <2> QED
    BY <2>1, <2>3, <2>4
<1>13. ASSUME NEW t \in Threads, FillParent(t) PROVE Shape(u)'
  BY <1>1, <1>13 DEF FillParent, In, Goes, Shape, Calls
<1>14. ASSUME NEW t \in Threads, GetSubFileEntryByIndex(t) PROVE Shape(u)'
  BY <1>1, <1>2, <1>14 DEF GetSubFileEntryByIndex, In, Goes, Shape, Calls
<1>15. ASSUME NEW t \in Threads, FillSub(t) PROVE Shape(u)'
  BY <1>1, <1>15 DEF FillSub, In, Goes, Shape, Calls
<1>16. ASSUME NEW t \in Threads, ListReturns(t) PROVE Shape(u)'
  BY <1>1, <1>16 DEF ListReturns, In, Goes, Shape, Calls
<1>17. CASE UNCHANGED vars
  BY <1>1, <1>17 DEF vars, Shape
<1> QED
  BY <1>3, <1>4, <1>5, <1>6, <1>7, <1>8, <1>9, <1>10, <1>11, <1>12, <1>13, <1>14, <1>15,
     <1>16, <1>17, StepCases

-----------------------------------------------------------------------------
(* What files and callbacks have.                                          *)

LEMMA ReadsKeep ==
  ASSUME Typed, Shaped, NEW t \in Threads, ReadSeek(t) \/ ReadBuffer(t) \/ ReadReturns(t)
  PROVE  /\ UNCHANGED <<frontend, phase, handles, image, entries, files, released>>
         /\ \A u \in Threads :
              /\ call'[u].entry = call[u].entry /\ call'[u].other = call[u].other
              /\ u # t => call'[u] = call[u]
<1>1. UNCHANGED <<frontend, phase, handles, image, entries, files, released>>
  BY DEF ReadSeek, ReadBuffer, ReadReturns
<1>2. call \in [Threads -> Calls]
  BY DEF Typed, CallsTyped
<1>3. CASE ReadSeek(t)
  <2>1. call[t].entry = NoEntry /\ call[t].other = NoEntry
    BY <1>3, IdleIs DEF ReadSeek, MayStart
  <2> QED
    BY <1>1, <1>2, <1>3, <2>1, ReadSteps
<1>4. CASE ReadBuffer(t)
  BY <1>1, <1>2, <1>4, ReadSteps
<1>5. CASE ReadReturns(t)
  <2>1. call[t].entry = NoEntry /\ call[t].other = NoEntry
    BY <1>5 DEF ReadReturns, In, Shaped, Shape
  <2>2. call' = [call EXCEPT ![t] = Idle]
    BY <1>5 DEF ReadReturns, Ends
  <2> QED
    BY <1>1, <1>2, <2>1, <2>2, IdleIs
<1> QED
  BY <1>3, <1>4, <1>5

(* Nothing is allocated or freed.                                          *)
LEMMA DistinctKept ==
  ASSUME Distinct, Covered, UNCHANGED <<entries, files, released>>,
         \A u \in Threads : call'[u].entry = call[u].entry /\ call'[u].other = call[u].other
  PROVE  Distinct' /\ Covered'
<1>1. Live' = Live
  BY DEF Live
<1>2. Distinct'
  BY <1>1 DEF Distinct
<1>3. Held' = Held
  BY DEF Held
<1> QED
  BY <1>1, <1>2, <1>3 DEF Covered

(* A callback allocates an entry.                                          *)
LEMMA DistinctAllocated ==
  ASSUME Typed, Distinct, Covered, UNCHANGED <<files, released>>, NEW t \in Threads,
         NEW path, entries' = WithNew(path),
         \A u \in Threads \ {t} :
           call'[u].entry = call[u].entry /\ call'[u].other = call[u].other,
         call[t].other = NoEntry,
         \/ call'[t].entry = call[t].entry /\ call'[t].other = NewEntry
         \/ call[t].entry = NoEntry /\ call'[t].entry = NewEntry /\ call'[t].other = NoEntry
  PROVE  Distinct' /\ Covered'
<1>1. Live' = Live \cup {NewEntry}
  BY LiveWithNew
<1>2. NewEntry \in Nat \ {NoEntry} /\ NewEntry \notin Live
  BY NewEntryIsNew
<1>3. Distinct'
  BY <1>1, <1>2 DEF Distinct
<1>4. Covered'
  <2> SUFFICES ASSUME NEW e \in Live' PROVE e \in Held' \cup released
    BY DEF Covered
  <2>1. e = NewEntry \/ e \in Held \cup released
    BY <1>1 DEF Covered
  <2>2. NewEntry \in Held'
    BY DEF Held
  <2>3. CASE \E f \in DOMAIN files : e = files[f].entry
    BY <2>3 DEF Held
  <2>4. ASSUME NEW u \in Threads, e # NoEntry, e \in {call[u].entry, call[u].other}
        PROVE  e \in Held'
    BY <2>4 DEF Held
  <2>5. e # NoEntry
    BY <1>1, <1>2 DEF Typed, EntriesTyped
  <2> QED
    BY <2>1, <2>2, <2>3, <2>4, <2>5 DEF Held
<1> QED
  BY <1>3, <1>4

(* A callback frees what it had: an entry it no longer has is not there.   *)
LEMMA DistinctFreed ==
  ASSUME Typed, Distinct, Covered, UNCHANGED <<files, released>>, NEW t \in Threads,
         NEW some, entries' = Without(some),
         some \subseteq {call[t].entry, call[t].other, NoEntry},
         \A u \in Threads \ {t} :
           call'[u].entry = call[u].entry /\ call'[u].other = call[u].other,
         call'[t].entry = IF call[t].entry \in some THEN NoEntry ELSE call[t].entry,
         call'[t].other = IF call[t].other \in some THEN NoEntry ELSE call[t].other
  PROVE  Distinct' /\ Covered'
<1>1. Live' = Live \ some
  BY LiveWithout
<1>2. NoEntry \notin Live
  BY DEF Typed, EntriesTyped
<1>3. Distinct'
  BY <1>1, <1>2 DEF Distinct
<1>4. Covered'
  <2> SUFFICES ASSUME NEW e \in Live' PROVE e \in Held' \cup released
    BY DEF Covered
  <2>1. e \in Live /\ e \notin some /\ e # NoEntry /\ e \in Held \cup released
    BY <1>1, <1>2 DEF Covered
  <2>2. CASE \E f \in DOMAIN files : e = files[f].entry
    BY <2>2 DEF Held
  <2>3. ASSUME NEW u \in Threads, e = call[u].entry PROVE e \in Held'
    BY <2>1, <2>3 DEF Held
  <2>4. ASSUME NEW u \in Threads, e = call[u].other PROVE e \in Held'
    BY <2>1, <2>4 DEF Held
  <2> QED
    BY <2>1, <2>2, <2>3, <2>4 DEF Held
<1> QED
  BY <1>3, <1>4

(* A file is opened: its entry is new.                                     *)
LEMMA DistinctOpened ==
  ASSUME Typed, Distinct, Covered, NEW t \in Threads, Opens(t)
  PROVE  Distinct' /\ Covered'
<1>1. PICK file \in FileIds \ DOMAIN files, path \in Paths, directory \in BOOLEAN :
        /\ entries' = WithNew(path)
        /\ files' = [f \in DOMAIN files \cup {file} |->
             IF f = file THEN [entry |-> NewEntry, directory |-> directory] ELSE files[f]]
  BY DEF Opens, OpensEntry
<1>2. call' = call /\ released' = released
  BY DEF Opens, OpensEntry
<1>3. Live' = Live \cup {NewEntry}
  BY <1>1, LiveWithNew
<1>4. NewEntry \in Nat \ {NoEntry} /\ NewEntry \notin Live
  BY NewEntryIsNew
<1>5. /\ DOMAIN files' = DOMAIN files \cup {file}
      /\ files'[file].entry = NewEntry
      /\ \A f \in DOMAIN files : f # file /\ files'[f] = files[f]
  BY <1>1
<1>6. Distinct'
  BY <1>2, <1>3, <1>4, <1>5 DEF Distinct
<1>7. Covered'
  <2> SUFFICES ASSUME NEW e \in Live' PROVE e \in Held' \cup released
    BY <1>2 DEF Covered
  <2>1. e = NewEntry \/ e \in Held \cup released
    BY <1>3 DEF Covered
  <2>2. NewEntry \in Held'
    BY <1>5 DEF Held
  <2>3. Held \subseteq Held'
    BY <1>2, <1>5 DEF Held
  <2> QED
    BY <2>1, <2>2, <2>3
<1> QED
  BY <1>6, <1>7

(* A file is closed: its entry goes, or was released by FUSE.              *)
LEMMA DistinctClosed ==
  ASSUME Typed, Distinct, Covered, NEW file \in DOMAIN files, call' = call,
         files' = [f \in DOMAIN files \ {file} |-> files[f]],
         \/ entries' = Without({files[file].entry}) /\ released' = released
         \/ entries' = entries /\ released' = released \cup {files[file].entry}
  PROVE  Distinct' /\ Covered'
<1> DEFINE gone == files[file].entry
<1>1. gone \in Live \ released
  BY DEF Distinct
<1>2. /\ DOMAIN files' = DOMAIN files \ {file}
      /\ \A f \in DOMAIN files' : f \in DOMAIN files /\ files'[f] = files[f] /\ files[f].entry # gone
  BY DEF Distinct
<1>3. \A t \in Threads : gone \notin {call[t].entry, call[t].other}
  BY DEF Distinct
<1>4. /\ Live' \ released' = (Live \ released) \ {gone}
      /\ Live' \subseteq Live /\ released' \subseteq Live'
      /\ \/ Live' = Live \ {gone} /\ released' = released
         \/ Live' = Live /\ released' = released \cup {gone}
  <2>1. CASE entries' = Without({gone}) /\ released' = released
    <3>1. Live' = Live \ {gone}
      BY <2>1, LiveWithout
    <3>2. released \subseteq Live
      BY DEF Distinct
    <3>3. gone \in Live /\ gone \notin released /\ released' = released
      BY <1>1, <2>1
    <3> HIDE DEF gone
    <3>4. released' \subseteq Live' /\ Live' \subseteq Live
      BY <3>1, <3>2, <3>3
    <3>5. Live' \ released' = (Live \ released) \ {gone}
      BY <3>1, <3>3
    <3> QED
      BY <3>1, <3>3, <3>4, <3>5
  <2>2. CASE entries' = entries /\ released' = released \cup {gone}
    BY <1>1, <2>2 DEF Live, Distinct
  <2> QED
    BY <2>1, <2>2
<1> HIDE DEF gone
<1>5. Distinct'
  BY <1>2, <1>3, <1>4 DEF Distinct
<1>6. Held \ {gone} \subseteq Held'
  BY <1>2 DEF Held, gone
<1>7. Covered'
  BY <1>4, <1>6 DEF Covered
<1> QED
  BY <1>5, <1>7

LEMMA StepDistinct ==
  ASSUME IInv, [Next]_vars
  PROVE  Distinct' /\ Covered'
<1>1. Typed /\ CallsTyped /\ Shaped /\ Distinct /\ Covered
  BY DEF IInv, Typed
<1>2. \A t \in Threads : Shape(t) /\ call[t] \in Calls
  BY <1>1 DEF Shaped, CallsTyped
<1>3. ASSUME NEW t \in Threads, Opens(t) PROVE Distinct' /\ Covered'
  BY <1>1, <1>3, DistinctOpened
<1>4. ASSUME NEW t \in Threads, Closes(t) PROVE Distinct' /\ Covered'
  <2>1. PICK file \in DOMAIN files : ReleasesEntry(t, file)
    BY <1>4 DEF Closes
  <2> QED
    BY <1>1, <2>1, DistinctClosed DEF ReleasesEntry, Releases
<1>5. ASSUME NEW t \in Threads, FuseReleasedir(t) PROVE Distinct' /\ Covered'
  <2>1. PICK file \in DOMAIN files :
          /\ files' = [f \in DOMAIN files \ {file} |-> files[f]]
          /\ released' = released \cup {files[file].entry}
    BY <1>5 DEF FuseReleasedir, Releases
  <2>2. call' = call /\ entries' = entries
    BY <1>5 DEF FuseReleasedir
  <2> QED
    BY <1>1, <2>1, <2>2, DistinctClosed
<1>6. ASSUME NEW t \in Threads, DokanFindFiles(t) PROVE Distinct' /\ Covered'
  <2>1. PICK path \in Paths :
          /\ entries' = WithNew(path)
          /\ call' = [call EXCEPT ![t] = [Idle EXCEPT !.name = "list", !.step = "parent",
                                                      !.entry = NewEntry]]
    BY <1>6 DEF DokanFindFiles
  <2>2. call[t] = Idle /\ files' = files /\ released' = released
    BY <1>6 DEF DokanFindFiles, MayStart
  <2>3. call'[t].entry = NewEntry /\ call'[t].other = NoEntry
    BY <1>1, <2>1 DEF CallsTyped, Idle
  <2>4. \A u \in Threads \ {t} :
          call'[u].entry = call[u].entry /\ call'[u].other = call[u].other
    BY <1>1, <2>1 DEF CallsTyped
  <2>5. call[t].entry = NoEntry /\ call[t].other = NoEntry
    BY <2>2, IdleIs
  <2> QED
    BY <1>1, <2>1, <2>2, <2>3, <2>4, <2>5, DistinctAllocated
<1>7. ASSUME NEW t \in Threads, GetAttributes(t) PROVE Distinct' /\ Covered'
  <2>1. PICK path \in Paths :
          /\ entries' = WithNew(path)
          /\ call' = [call EXCEPT ![t] = [Idle EXCEPT !.name = "attributes", !.step = "entry",
                                                      !.entry = NewEntry]]
    BY <1>7 DEF GetAttributes
  <2>2. call[t] = Idle /\ files' = files /\ released' = released
    BY <1>7 DEF GetAttributes, MayStart
  <2>3. call'[t].entry = NewEntry /\ call'[t].other = NoEntry
    BY <1>1, <2>1 DEF CallsTyped, Idle
  <2>4. \A u \in Threads \ {t} :
          call'[u].entry = call[u].entry /\ call'[u].other = call[u].other
    BY <1>1, <2>1 DEF CallsTyped
  <2>5. call[t].entry = NoEntry /\ call[t].other = NoEntry
    BY <2>2, IdleIs
  <2> QED
    BY <1>1, <2>1, <2>2, <2>3, <2>4, <2>5, DistinctAllocated
<1>8. ASSUME NEW t \in Threads, GetParentFileEntry(t) PROVE Distinct' /\ Covered'
  <2>1. call[t].other = NoEntry /\ files' = files /\ released' = released
    BY <1>2, <1>8 DEF GetParentFileEntry, In, Shape
  <2>2. CASE /\ entries' = entries
             /\ call' = [call EXCEPT ![t] = [call[t] EXCEPT !.step = "fill_parent"]]
    <3>1. \A u \in Threads : call'[u].entry = call[u].entry /\ call'[u].other = call[u].other
      BY <1>1, <1>2, <2>2 DEF CallsTyped, Calls
    <3> QED
      BY <1>1, <2>1, <2>2, <3>1, DistinctKept
  <2>3. CASE /\ entries' = WithNew(Root)
             /\ call' = [call EXCEPT ![t] = [call[t] EXCEPT !.step = "fill_parent",
                                                            !.other = NewEntry]]
    <3>1. call'[t].entry = call[t].entry /\ call'[t].other = NewEntry
      BY <1>1, <1>2, <2>3 DEF CallsTyped, Calls
    <3>2. \A u \in Threads \ {t} :
            call'[u].entry = call[u].entry /\ call'[u].other = call[u].other
      BY <1>1, <2>3 DEF CallsTyped
    <3> QED
      BY <1>1, <2>1, <2>3, <3>1, <3>2, DistinctAllocated
  <2> QED
    BY <1>8, <2>2, <2>3 DEF GetParentFileEntry, Goes
<1>9. ASSUME NEW t \in Threads, GetSubFileEntryByIndex(t) PROVE Distinct' /\ Covered'
  <2> DEFINE path == PathFromHandleIndex(call[t].index)
  <2>1. call[t].other = NoEntry /\ files' = files /\ released' = released
    BY <1>2, <1>9 DEF GetSubFileEntryByIndex, In, Shape
  <2>2. /\ entries' = WithNew(path)
        /\ call' = [call EXCEPT ![t] = [call[t] EXCEPT !.step = "fill_sub", !.other = NewEntry]]
    BY <1>9 DEF GetSubFileEntryByIndex, Goes
  <2>3. call'[t].entry = call[t].entry /\ call'[t].other = NewEntry
    BY <1>1, <1>2, <2>2 DEF CallsTyped, Calls
  <2>4. \A u \in Threads \ {t} :
          call'[u].entry = call[u].entry /\ call'[u].other = call[u].other
    BY <1>1, <2>2 DEF CallsTyped
  <2> HIDE DEF path
  <2> QED
    BY <1>1, <2>1, <2>2, <2>3, <2>4, DistinctAllocated
<1>10. ASSUME NEW t \in Threads, NEW some, entries' = Without(some),
              files' = files, released' = released,
              some \subseteq {call[t].entry, call[t].other, NoEntry},
              NEW c \in Calls, call' = [call EXCEPT ![t] = c],
              c.entry = IF call[t].entry \in some THEN NoEntry ELSE call[t].entry,
              c.other = IF call[t].other \in some THEN NoEntry ELSE call[t].other
       PROVE  Distinct' /\ Covered'
  <2>1. call'[t] = c /\ \A u \in Threads \ {t} : call'[u] = call[u]
    BY <1>1, <1>10 DEF CallsTyped
  <2>2. /\ call'[t].entry = IF call[t].entry \in some THEN NoEntry ELSE call[t].entry
        /\ call'[t].other = IF call[t].other \in some THEN NoEntry ELSE call[t].other
    BY <1>10, <2>1
  <2>3. \A u \in Threads \ {t} :
          call'[u].entry = call[u].entry /\ call'[u].other = call[u].other
    BY <2>1
  <2> QED
    BY <1>1, <1>10, <2>2, <2>3, DistinctFreed
<1>11. ASSUME NEW t \in Threads, AttributesReturn(t) PROVE Distinct' /\ Covered'
  <2>1. /\ entries' = Without({call[t].entry}) /\ call' = [call EXCEPT ![t] = Idle]
        /\ files' = files /\ released' = released /\ call[t].other = NoEntry
    BY <1>2, <1>11 DEF AttributesReturn, Ends, In, Shape
  <2>2. /\ {call[t].entry} \subseteq {call[t].entry, call[t].other, NoEntry}
        /\ Idle.entry = IF call[t].entry \in {call[t].entry} THEN NoEntry ELSE call[t].entry
        /\ Idle.other = IF call[t].other \in {call[t].entry} THEN NoEntry ELSE call[t].other
    BY <2>1, IdleIs
  <2>3. Idle \in Calls
    BY CallStarts
  <2> QED
    BY <1>10, <2>1, <2>2, <2>3
<1>12. ASSUME NEW t \in Threads, FillFails(t) PROVE Distinct' /\ Covered'
  <2>1. /\ entries' = Without({call[t].entry, call[t].other}) /\ call' = [call EXCEPT ![t] = Idle]
        /\ files' = files /\ released' = released
    BY <1>12 DEF FillFails, Ends
  <2> DEFINE had == {call[t].entry, call[t].other}
  <2>2. /\ had \subseteq {call[t].entry, call[t].other, NoEntry}
        /\ Idle.entry = IF call[t].entry \in had THEN NoEntry ELSE call[t].entry
        /\ Idle.other = IF call[t].other \in had THEN NoEntry ELSE call[t].other
    BY IdleIs
  <2>3. Idle \in Calls
    BY CallStarts
  <2> QED
    BY <1>10, <2>1, <2>2, <2>3
<1>13. ASSUME NEW t \in Threads, FillParent(t) \/ FillSub(t) PROVE Distinct' /\ Covered'
  <2>1. /\ entries' = Without({call[t].other}) /\ files' = files /\ released' = released
        /\ call[t].entry \in Nat /\ call[t].other \in Nat
    BY <1>2, <1>13 DEF FillParent, FillSub, Calls
  <2>2. /\ call'[t].entry = call[t].entry /\ call'[t].other = NoEntry
        /\ \A u \in Threads \ {t} : call'[u] = call[u]
    BY <1>1, <1>2, <1>13, ZenonT(40) DEF FillParent, FillSub, Goes, CallsTyped, Calls
  <2>3. call[t].entry \in {call[t].other} => call[t].entry = NoEntry
    BY <1>1 DEF Distinct
  <2> QED
    BY <1>1, <2>1, <2>2, <2>3, DistinctFreed
<1>14. ASSUME NEW t \in Threads, ListReturns(t) PROVE Distinct' /\ Covered'
  <2>1. /\ entries' = Without({call[t].entry}) /\ files' = files /\ released' = released
        /\ call[t].other = NoEntry
    BY <1>2, <1>14 DEF ListReturns, In, Shape
  <2>2. /\ call'[t].entry = NoEntry /\ call'[t].other = call[t].other
        /\ \A u \in Threads \ {t} : call'[u] = call[u]
    BY <1>1, <1>2, <1>14 DEF ListReturns, Goes, CallsTyped, Calls
  <2> QED
    BY <1>1, <2>1, <2>2, DistinctFreed
<1>15. ASSUME NEW t \in Threads, ReadSeek(t) \/ ReadBuffer(t) \/ ReadReturns(t)
       PROVE  Distinct' /\ Covered'
  BY <1>1, <1>15, ReadsKeep, DistinctKept
<1>16. ASSUME NEW t \in Threads, FuseReaddir(t) \/ ListReturned(t)
       PROVE  Distinct' /\ Covered'
  <2>1. UNCHANGED <<entries, files, released>>
    BY <1>16 DEF FuseReaddir, ListReturned
  <2>2. call[t].entry = NoEntry /\ call[t].other = NoEntry
    BY <1>2, <1>16, IdleIs DEF FuseReaddir, ListReturned, MayStart, In, Shape
  <2>3. call'[t].entry = NoEntry /\ call'[t].other = NoEntry
        /\ \A u \in Threads \ {t} : call'[u] = call[u]
    <3>1. CASE ListReturned(t)
      BY <1>1, <3>1, IdleIs DEF ListReturned, Ends, CallsTyped
    <3>2. CASE FuseReaddir(t)
      BY <1>1, <3>2 DEF FuseReaddir, CallsTyped, Idle
    <3> QED
      BY <1>16, <3>1, <3>2
  <2> QED
    BY <1>1, <2>1, <2>2, <2>3, DistinctKept
<1>17. CASE OpenSources \/ AppendHandle \/ OpenFails \/ Unmount \/ UNCHANGED vars
  BY <1>1, <1>17, DistinctKept DEF OpenSources, AppendHandle, OpenFails, Unmount, vars
<1> QED
  BY <1>3, <1>4, <1>5, <1>6, <1>7, <1>8, <1>9, <1>11, <1>12, <1>13, <1>14, <1>15, <1>16,
     <1>17, StepCases

-----------------------------------------------------------------------------
(* An entry keeps its path.                                                *)
LEMMA StepKeepsPaths ==
  ASSUME Typed, [Next]_vars
  PROVE  \A e \in Live : e \in Live' => entries'[e] = entries[e]
<1>1. CASE entries' = entries
  BY <1>1
<1>2. ASSUME NEW path \in Paths, entries' = WithNew(path)
      PROVE  \A e \in Live : entries'[e] = entries[e]
  BY <1>2, NewEntryIsNew, LiveWithNew
<1>3. ASSUME NEW some \in SUBSET Nat, entries' = Without(some)
      PROVE  \A e \in Live : e \in Live' => entries'[e] = entries[e]
  BY <1>3, LiveWithout
<1> QED
  BY <1>1, <1>2, <1>3, StepEntries DEF EntriesStep

(* FUSE calls one callback at a time.                                      *)
LEMMA StepOneAtATime ==
  ASSUME IInv, [Next]_vars
  PROVE  OneAtATime'
<1>1. Typed /\ CallsTyped /\ Shaped /\ Distinct /\ OneAtATime
  BY DEF IInv, Typed
<1> SUFFICES ASSUME frontend = "fuse", frontend' = "fuse" PROVE OneAtATime'
  BY StepFrontend DEF OneAtATime
<1>2. \A t, u \in Threads : call[t] # Idle /\ call[u] # Idle => t = u
  BY <1>1 DEF OneAtATime
<1>3. ASSUME NEW t \in Threads, \A u \in Threads \ {t} : call[u] = Idle,
             \A u \in Threads \ {t} : call'[u] = Idle
      PROVE  \A v, u \in Threads : call'[v] # Idle /\ call'[u] # Idle => v = u
  BY <1>3
<1>4. \A v, u \in Threads : call'[v] # Idle /\ call'[u] # Idle => v = u
  <2>1. ASSUME NEW t \in Threads, Opens(t) \/ Closes(t) \/ FuseReleasedir(t) PROVE call' = call
    BY <2>1 DEF Opens, OpensEntry, Closes, ReleasesEntry, FuseReleasedir
  <2>2. ASSUME NEW t \in Threads, FuseReaddir(t) \/ GetAttributes(t)
        PROVE  \A u \in Threads \ {t} : call[u] = Idle /\ call'[u] = Idle
    BY <1>1, <2>2 DEF FuseReaddir, GetAttributes, MayStart, CallsTyped
  <2>3. ASSUME NEW t \in Threads, ReadSeek(t)
        PROVE  \A u \in Threads \ {t} : call[u] = Idle /\ call'[u] = Idle
    <3>1. \A u \in Threads \ {t} : call[u] = Idle
      BY <2>3 DEF ReadSeek, MayStart
    <3> QED
      BY <1>1, <2>3, <3>1, ReadsKeep
  <2>4. ASSUME NEW t \in Threads, ReadBuffer(t)
        PROVE  \A u \in Threads \ {t} : call[u] = Idle /\ call'[u] = Idle
    <3>1. call[t] # Idle
      BY <2>4, IdleIs DEF ReadBuffer, In
    <3>2. \A u \in Threads \ {t} : call[u] = Idle
      BY <1>2, <3>1
    <3> QED
      BY <1>1, <2>4, <3>2, ReadsKeep
  <2>5. ASSUME NEW t \in Threads,
               \/ ReadReturns(t) \/ AttributesReturn(t) \/ GetParentFileEntry(t) \/ FillParent(t)
               \/ GetSubFileEntryByIndex(t) \/ FillSub(t) \/ FillFails(t) \/ ListReturns(t)
               \/ ListReturned(t)
        PROVE  \A u \in Threads \ {t} : call[u] = Idle /\ call'[u] = Idle
    <3>1. call[t] # Idle
      BY <2>5, IdleIs DEF ReadReturns, AttributesReturn, GetParentFileEntry, FillParent,
         GetSubFileEntryByIndex, FillSub, FillFails, ListReturns, ListReturned, In
    <3>2. \A u \in Threads \ {t} : call'[u] = call[u]
      BY <1>1, <2>5 DEF ReadReturns, AttributesReturn, GetParentFileEntry, FillParent,
         GetSubFileEntryByIndex, FillSub, FillFails, ListReturns, ListReturned, Goes, Ends,
         CallsTyped
    <3> QED
      BY <1>2, <3>1, <3>2
  <2>6. CASE OpenSources \/ AppendHandle \/ OpenFails \/ Unmount \/ UNCHANGED vars
    BY <1>2, <2>6 DEF OpenSources, AppendHandle, OpenFails, Unmount, vars
  <2>7. ASSUME NEW t \in Threads PROVE ~DokanFindFiles(t)
    BY DEF DokanFindFiles
  <2> QED
    BY <1>2, <1>3, <2>1, <2>2, <2>3, <2>4, <2>5, <2>6, <2>7, StepCases
<1>5. \A f \in DOMAIN files' : files'[f].directory => entries'[files'[f].entry] = Root
  <2>1. ASSUME NEW f \in DOMAIN files, f \in DOMAIN files', files'[f] = files[f],
               files'[f].directory
        PROVE  entries'[files'[f].entry] = Root
    <3>1. files[f].entry \in Live /\ files[f].entry \in Live' /\ entries[files[f].entry] = Root
      BY <1>1, <2>1, StepDistinct DEF Distinct, OneAtATime
    <3> QED
      BY <1>1, <2>1, <3>1, StepKeepsPaths
  <2>2. ASSUME NEW t \in Threads, Opens(t)
        PROVE  \A f \in DOMAIN files' : files'[f].directory => entries'[files'[f].entry] = Root
    <3>1. PICK file \in FileIds \ DOMAIN files, path \in Paths, directory \in BOOLEAN :
            /\ entries' = WithNew(path) /\ (directory => path = Root)
            /\ files' = [f \in DOMAIN files \cup {file} |->
                 IF f = file THEN [entry |-> NewEntry, directory |-> directory] ELSE files[f]]
      BY <2>2 DEF Opens, OpensEntry
    <3>2. entries'[NewEntry] = path
      BY <3>1, LiveWithNew
    <3> QED
      BY <2>1, <3>1, <3>2
  <2>3. ASSUME NEW t \in Threads, Closes(t) \/ FuseReleasedir(t)
        PROVE  \A f \in DOMAIN files' : files'[f].directory => entries'[files'[f].entry] = Root
    <3>1. \A f \in DOMAIN files' : f \in DOMAIN files /\ files'[f] = files[f]
      BY <2>3 DEF Closes, ReleasesEntry, FuseReleasedir, Releases
    <3> QED
      BY <2>1, <3>1
  <2>4. CASE files' = files
    BY <2>1, <2>4
  <2> QED
    BY <2>2, <2>3, <2>4, StepCases DEF OpenSources, AppendHandle, OpenFails, Unmount, vars,
       FuseReaddir, DokanFindFiles, ReadSeek, GetAttributes, ReadBuffer, ReadReturns,
       AttributesReturn, GetParentFileEntry, FillParent, GetSubFileEntryByIndex, FillSub,
       FillFails, ListReturns, ListReturned
<1> QED
  BY <1>4, <1>5 DEF OneAtATime

(* Reads keep to their offset.                                             *)
LEMMA StepExact ==
  ASSUME IInv, [Next]_vars
  PROVE  AllExact'
<1>1. Typed /\ CallsTyped /\ Shaped /\ OneAtATime /\ AllExact /\ frontend' = frontend
  BY StepFrontend DEF IInv, Typed
<1>2. \A u \in Threads : call[u] \in Calls /\ Shape(u) /\ Exact(u)
  BY <1>1 DEF CallsTyped, Shaped, AllExact
<1> SUFFICES ASSUME NEW u \in Threads PROVE Exact(u)'
  BY DEF AllExact
<1>4. ASSUME NEW t \in Threads, ReadSeek(t) PROVE Exact(u)'
  <2>1. PICK c \in Calls : /\ call' = [call EXCEPT ![t] = c]
                           /\ c.name = "read" /\ c.step = "buffer" /\ offset' = c.offset
    BY <1>1, <1>4, ReadSteps
  <2>2. CASE u = t
    BY <1>1, <2>1, <2>2 DEF CallsTyped, Exact
  <2>3. CASE u # t
    <3>1. frontend = "fuse" => call[u].name = "none"
      BY <1>4, IdleIs DEF ReadSeek, MayStart
    <3> QED
      BY <1>1, <2>1, <2>3, <3>1 DEF CallsTyped, Exact
  <2> QED
    BY <2>2, <2>3
<1>5. ASSUME NEW t \in Threads, ReadBuffer(t) PROVE Exact(u)'
  <2>1. PICK c \in Calls : /\ call' = [call EXCEPT ![t] = c]
                           /\ c.name = "read" /\ c.step = "return"
                           /\ c.offset = call[t].offset /\ (~c.failed => c.from = offset)
    BY <1>1, <1>5, ReadSteps
  <2>2. call[t].name = "read" /\ call[t].step = "buffer"
    BY <1>5 DEF ReadBuffer, In
  <2>3. CASE u = t
    BY <1>1, <1>2, <2>1, <2>2, <2>3 DEF CallsTyped, Exact
  <2>4. CASE u # t
    <3>1. call[t] # Idle
      BY <2>2, IdleIs
    <3>2. frontend = "fuse" => call[u].name = "none"
      BY <1>1, <2>4, <3>1, IdleIs DEF OneAtATime
    <3> QED
      BY <1>1, <2>1, <2>4, <3>2 DEF CallsTyped, Exact
  <2> QED
    BY <2>3, <2>4
<1>6. ASSUME offset' = offset, call'[u] = call[u] PROVE Exact(u)'
  BY <1>1, <1>2, <1>6 DEF Exact
<1>7. ASSUME call'[u].name # "read" PROVE Exact(u)'
  BY <1>7 DEF Exact
<1>9. ASSUME NEW t \in Threads,
             ReadReturns(t) \/ AttributesReturn(t) \/ FillFails(t) \/ ListReturned(t)
      PROVE  Exact(u)'
  <2>1. offset' = offset /\ call' = [call EXCEPT ![t] = Idle]
    BY <1>9 DEF ReadReturns, AttributesReturn, FillFails, ListReturned, Ends
  <2> QED
    BY <1>1, <1>6, <1>7, <2>1, IdleIs DEF CallsTyped
<1>10. ASSUME NEW t \in Threads, FuseReaddir(t) \/ DokanFindFiles(t) \/ GetAttributes(t)
       PROVE  Exact(u)'
  <2>1. offset' = offset
    BY <1>10 DEF FuseReaddir, DokanFindFiles, GetAttributes
  <2>2. CASE u = t
    <3>1. call'[u].name # "read"
      <4>1. CASE FuseReaddir(t)
        BY <1>1, <2>2, <4>1 DEF FuseReaddir, CallsTyped, Idle
      <4>2. CASE DokanFindFiles(t)
        BY <1>1, <2>2, <4>2 DEF DokanFindFiles, CallsTyped, Idle
      <4>3. CASE GetAttributes(t)
        BY <1>1, <2>2, <4>3 DEF GetAttributes, CallsTyped, Idle
      <4> QED
        BY <1>10, <4>1, <4>2, <4>3
    <3> QED
      BY <1>7, <2>1, <3>1
  <2>3. CASE u # t
    BY <1>1, <1>6, <1>10, <2>1, <2>3 DEF FuseReaddir, DokanFindFiles, GetAttributes, CallsTyped
  <2> QED
    BY <2>2, <2>3
<1>11. ASSUME NEW t \in Threads,
              \/ GetParentFileEntry(t) \/ FillParent(t) \/ GetSubFileEntryByIndex(t)
              \/ FillSub(t) \/ ListReturns(t)
       PROVE  Exact(u)'
  <2>1. offset' = offset /\ call[t].name = "list"
    BY <1>11 DEF GetParentFileEntry, FillParent, GetSubFileEntryByIndex, FillSub, ListReturns, In
  <2>2. PICK c : call' = [call EXCEPT ![t] = c] /\ c.name = "list"
    BY <1>2, <1>11, <2>1 DEF GetParentFileEntry, FillParent, GetSubFileEntryByIndex, FillSub,
       ListReturns, Goes, Calls
  <2> QED
    BY <1>1, <1>6, <1>7, <2>1, <2>2 DEF CallsTyped
<1> QED
  BY <1>4, <1>5, <1>6, <1>9, <1>10, <1>11, StepCases DEF OpenSources, AppendHandle, OpenFails,
     Unmount, vars, Opens, OpensEntry, Closes, ReleasesEntry, FuseReleasedir

-----------------------------------------------------------------------------
(* Listings.                                                               *)
LEMMA ListedNothing ==
  ASSUME NEW u \in Threads, call'[u].listed = {}, call'[u].name # "list", call'[u].step # "fill_sub"
  PROVE  Listed(u)'
BY DEF Listed

LEMMA StepListed ==
  ASSUME IInv, [Next]_vars
  PROVE  AllListed'
<1>1. Typed /\ CallsTyped /\ Shaped /\ OneAtATime /\ Distinct /\ Distinct' /\ AllListed
      /\ frontend' = frontend
  BY StepFrontend, StepDistinct DEF IInv, Typed
<1>2. /\ \A u \in Threads : call[u] \in Calls /\ Shape(u) /\ Listed(u)
      /\ Len(handles) \in {0, 1}
  BY <1>1 DEF CallsTyped, Shaped, AllListed, Typed, SystemTyped
<1> SUFFICES ASSUME NEW u \in Threads PROVE Listed(u)'
  BY DEF AllListed
<1>3. CASE OpenSources \/ AppendHandle \/ OpenFails \/ Unmount
  <2>1. call' = call /\ call[u] = Idle
    BY <1>2, <1>3 DEF OpenSources, AppendHandle, OpenFails, Unmount, Shape
  <2> QED
    BY <2>1, IdleIs, ListedNothing
(* What another callback does changes no listing.                          *)
<1>4. ASSUME handles' = handles, call'[u].name = call[u].name, call'[u].step = call[u].step,
             call'[u].index = call[u].index, call'[u].listed = call[u].listed,
             call'[u].other = call[u].other
      PROVE  Listed(u)'
  <2>1. \A l : HandleByPath(l)' = HandleByPath(l)
    BY <1>4 DEF HandleByPath
  <2>2. call[u].step = "fill_sub" => entries'[call[u].other] = entries[call[u].other]
    <3>1. ASSUME call[u].step = "fill_sub" PROVE call[u].other \in Live /\ call[u].other \in Live'
      <4>1. call[u].name = "list"
        BY <1>2, <3>1, IdleIs DEF Shape, Calls, Names
      <4>2. call[u].other # NoEntry
        BY <1>2, <3>1, <4>1 DEF Shape
      <4> QED
        BY <1>1, <1>4, <4>2 DEF Distinct
    <3> QED
      BY <1>1, <3>1, StepKeepsPaths
  <2>3. Listed(u)
    BY <1>2
  <2> QED
    BY <1>1, <1>4, <2>1, <2>2, <2>3 DEF Listed
<1>5. ASSUME NEW t \in Threads, Opens(t) \/ Closes(t) \/ FuseReleasedir(t) PROVE Listed(u)'
  BY <1>4, <1>5 DEF Opens, OpensEntry, Closes, ReleasesEntry, FuseReleasedir, Releases
<1>6. ASSUME NEW t \in Threads, u # t, call'[u] = call[u], handles' = handles PROVE Listed(u)'
  BY <1>4, <1>6
<1>7. ASSUME NEW t \in Threads,
             ReadReturns(t) \/ AttributesReturn(t) \/ FillFails(t) \/ ListReturned(t)
      PROVE  Listed(u)'
  <2>1. handles' = handles /\ call' = [call EXCEPT ![t] = Idle]
    BY <1>7 DEF ReadReturns, AttributesReturn, FillFails, ListReturned, Ends
  <2> QED
    BY <1>1, <1>6, <2>1, IdleIs, ListedNothing DEF CallsTyped
<1>8. ASSUME NEW t \in Threads, FuseReaddir(t) \/ DokanFindFiles(t) \/ GetAttributes(t)
      PROVE  Listed(u)'
  <2>1. handles' = handles
    BY <1>8 DEF FuseReaddir, DokanFindFiles, GetAttributes
  <2>2. CASE u = t
    <3>1. call'[u].listed = {} /\ call'[u].index = 0 /\ call'[u].step \in {"parent", "entry"}
      <4>1. CASE FuseReaddir(t)
        BY <1>1, <2>2, <4>1 DEF FuseReaddir, CallsTyped, Idle
      <4>2. CASE DokanFindFiles(t)
        BY <1>1, <2>2, <4>2 DEF DokanFindFiles, CallsTyped, Idle
      <4>3. CASE GetAttributes(t)
        BY <1>1, <2>2, <4>3 DEF GetAttributes, CallsTyped, Idle
      <4> QED
        BY <1>8, <4>1, <4>2, <4>3
    <3>2. {l.handle : l \in {}} = 1 .. 0
      OBVIOUS
    <3> QED
      BY <1>2, <2>1, <3>1, <3>2 DEF Listed
  <2>3. CASE u # t
    BY <1>1, <1>6, <1>8, <2>1, <2>3 DEF FuseReaddir, DokanFindFiles, GetAttributes, CallsTyped
  <2> QED
    BY <2>2, <2>3
<1>9. ASSUME NEW t \in Threads, ReadSeek(t) \/ ReadBuffer(t) PROVE Listed(u)'
  <2>1. handles' = handles
    BY <1>9 DEF ReadSeek, ReadBuffer
  <2>2. CASE u = t
    <3>1. CASE ReadSeek(t)
      <4>1. call'[u].listed = {} /\ call'[u].name = "read" /\ call'[u].step = "buffer"
        BY <1>1, <2>2, <3>1, ReadSteps DEF CallsTyped
      <4> QED
        BY <4>1, ListedNothing
    <3>2. CASE ReadBuffer(t)
      <4>1. /\ call'[u].listed = call[u].listed /\ call'[u].name = "read"
            /\ call'[u].step = "return"
        BY <1>1, <2>2, <3>2, ReadSteps DEF CallsTyped
      <4>2. \A l : HandleByPath(l)' = HandleByPath(l)
        BY <2>1 DEF HandleByPath
      <4>3. \A l \in call[u].listed : HandleByPath(l.path) = l.handle
        BY <1>2 DEF Listed
      <4> QED
        BY <4>1, <4>2, <4>3 DEF Listed
    <3> QED
      BY <1>9, <3>1, <3>2
  <2>3. CASE u # t
    BY <1>1, <1>4, <1>9, <2>1, <2>3, ReadsKeep
  <2> QED
    BY <2>2, <2>3
<1>10. ASSUME NEW t \in Threads, NEW c, call' = [call EXCEPT ![t] = c], handles' = handles,
              call[t].name = "list", c.name = "list", c.listed = call[t].listed,
              c.index = call[t].index,
              c.step = "fill_sub" =>
                entries'[c.other] = <<c.index + 1>> /\ c.index < Len(handles),
              c.step = "return" /\ frontend = "fuse" => c.index = Len(handles)
       PROVE  Listed(u)'
  <2>1. CASE u = t
    <3>1. \A l : HandleByPath(l)' = HandleByPath(l)
      BY <1>10 DEF HandleByPath
    <3>2. call'[u] = c
      BY <1>1, <1>10, <2>1 DEF CallsTyped
    <3>3. Listed(t)
      BY <1>2
    <3> QED
      BY <1>1, <1>10, <2>1, <3>1, <3>2, <3>3 DEF Listed
  <2>2. CASE u # t
    BY <1>1, <1>6, <1>10, <2>2 DEF CallsTyped
  <2> QED
    BY <2>1, <2>2
<1>11. ASSUME NEW t \in Threads, GetParentFileEntry(t) \/ FillParent(t) PROVE Listed(u)'
  <2>1. handles' = handles /\ call[t].name = "list"
    BY <1>11 DEF GetParentFileEntry, FillParent, In
  <2>2. PICK c : /\ call' = [call EXCEPT ![t] = c] /\ c.name = "list"
                 /\ c.listed = call[t].listed /\ c.index = call[t].index
                 /\ c.step \in {"fill_parent", "sub"}
    <3>1. CASE FillParent(t)
      <4> DEFINE c == [call[t] EXCEPT !.step = "sub", !.other = NoEntry]
      <4>1. /\ call' = [call EXCEPT ![t] = c] /\ c.name = "list"
            /\ c.listed = call[t].listed /\ c.index = call[t].index /\ c.step = "sub"
        BY <1>2, <2>1, <3>1 DEF FillParent, Goes, Calls
      <4> HIDE DEF c
      <4> QED
        BY <4>1
    <3>2. CASE call' = [call EXCEPT ![t] = [call[t] EXCEPT !.step = "fill_parent"]]
      <4> DEFINE c == [call[t] EXCEPT !.step = "fill_parent"]
      <4>1. /\ call' = [call EXCEPT ![t] = c] /\ c.name = "list"
            /\ c.listed = call[t].listed /\ c.index = call[t].index /\ c.step = "fill_parent"
        BY <1>2, <2>1, <3>2 DEF Calls
      <4> HIDE DEF c
      <4> QED
        BY <4>1
    <3>3. CASE call' = [call EXCEPT ![t] = [call[t] EXCEPT !.step = "fill_parent",
                                                           !.other = NewEntry]]
      <4> DEFINE c == [call[t] EXCEPT !.step = "fill_parent", !.other = NewEntry]
      <4>1. /\ call' = [call EXCEPT ![t] = c] /\ c.name = "list"
            /\ c.listed = call[t].listed /\ c.index = call[t].index /\ c.step = "fill_parent"
        BY <1>2, <2>1, <3>3 DEF Calls
      <4> HIDE DEF c
      <4> QED
        BY <4>1
    <3> QED
      BY <1>11, <3>1, <3>2, <3>3 DEF GetParentFileEntry, Goes
  <2> QED
    BY <1>10, <2>1, <2>2
<1>12. ASSUME NEW t \in Threads, GetSubFileEntryByIndex(t) PROVE Listed(u)'
  <2> DEFINE c == [call[t] EXCEPT !.step = "fill_sub", !.other = NewEntry]
  <2>1. /\ handles' = handles /\ call[t].name = "list" /\ call' = [call EXCEPT ![t] = c]
        /\ entries' = WithNew(<<call[t].index + 1>>)
        /\ call[t].index < NumberOfSubFileEntries(entries[ListedEntry(t)])
    BY <1>12 DEF GetSubFileEntryByIndex, In, Goes, PathFromHandleIndex
  <2>2. /\ c.name = "list" /\ c.listed = call[t].listed /\ c.index = call[t].index
        /\ c.step = "fill_sub" /\ c.other = NewEntry
    BY <1>2, <2>1 DEF Calls
  <2>3. entries'[NewEntry] = <<call[t].index + 1>>
    BY <2>1, LiveWithNew
  <2>4. call[t].index < Len(handles)
    <3>1. call[t].index \in Nat
      BY <1>2 DEF Calls
    <3>2. \A path : NumberOfSubFileEntries(path) \in {0, Len(handles)}
      BY DEF NumberOfSubFileEntries
    <3> QED
      BY <1>2, <2>1, <3>1, <3>2
  <2> HIDE DEF c
  <2> QED
    BY <1>10, <2>1, <2>2, <2>3, <2>4
<1>13. ASSUME NEW t \in Threads, ListReturns(t) PROVE Listed(u)'
  <2> DEFINE c == [call[t] EXCEPT !.step = "return", !.entry = NoEntry]
  <2>1. /\ handles' = handles /\ call[t].name = "list" /\ call' = [call EXCEPT ![t] = c]
        /\ call[t].index >= NumberOfSubFileEntries(entries[ListedEntry(t)])
    BY <1>13 DEF ListReturns, In, Goes
  <2>2. /\ c.name = "list" /\ c.listed = call[t].listed /\ c.index = call[t].index
        /\ c.step = "return"
    BY <1>2, <2>1 DEF Calls
  <2>3. frontend = "fuse" => call[t].index = Len(handles)
    <3> SUFFICES ASSUME frontend = "fuse" PROVE call[t].index = Len(handles)
      OBVIOUS
    <3>1. entries[ListedEntry(t)] = Root
      BY <1>1, <1>2, <2>1 DEF ListedEntry, Shape, OneAtATime
    <3>2. call[t].index >= Len(handles)
      BY <2>1, <3>1 DEF NumberOfSubFileEntries
    <3>3. call[t].index \in Nat /\ call[t].index <= Len(handles)
      BY <1>2, <2>1 DEF Calls, Listed
    <3> QED
      BY <1>2, <3>2, <3>3
  <2> HIDE DEF c
  <2> QED
    BY <1>10, <2>1, <2>2, <2>3
<1>14. ASSUME NEW t \in Threads, FillSub(t) PROVE Listed(u)'
  <2> DEFINE index == call[t].index
             path  == entries[call[t].other]
             new   == [path |-> path, handle |-> index + 1]
  <2>1. /\ handles' = handles /\ call[t].name = "list" /\ call[t].step = "fill_sub"
        /\ call' = [call EXCEPT ![t] = [call[t] EXCEPT !.step = "sub", !.other = NoEntry,
                      !.index = index + 1, !.listed = call[t].listed \cup {new}]]
    BY <1>14 DEF FillSub, In, Goes
  <2>2. CASE u # t
    BY <1>1, <1>6, <2>1, <2>2 DEF CallsTyped
  <2>3. CASE u = t
    <3>1. path = <<index + 1>> /\ index < Len(handles) /\ index \in Nat
          /\ {l.handle : l \in call[t].listed} = 1 .. index
          /\ \A l \in call[t].listed : HandleByPath(l.path) = l.handle
      BY <1>2, <2>1 DEF Listed, Calls
    <3>2. HandleByPath(<<index + 1>>) = index + 1
      <4>1. index + 1 \in 1 .. Len(handles)
        BY <1>2, <3>1
      <4>2. <<index + 1>> # << >> /\ <<index + 1>>[1] = index + 1
        OBVIOUS
      <4> QED
        BY <4>1, <4>2 DEF HandleByPath, Root
    <3>3. /\ call'[u].name = "list" /\ call'[u].step = "sub" /\ call'[u].index = index + 1
          /\ call'[u].listed = call[t].listed \cup {new}
      BY <1>1, <1>2, <2>1, <2>3 DEF CallsTyped, Calls
    <3>4. \A l \in call'[u].listed : HandleByPath(l.path)' = l.handle
      <4>1. \A p : HandleByPath(p)' = HandleByPath(p)
        BY <2>1 DEF HandleByPath
      <4>2. new.path = <<index + 1>> /\ new.handle = index + 1
        BY <3>1
      <4> HIDE DEF new, index, path
      <4> QED
        BY <3>1, <3>2, <3>3, <4>1, <4>2
    <3>5. {l.handle : l \in call'[u].listed} = 1 .. index + 1
      <4>1. {l.handle : l \in call'[u].listed} = {l.handle : l \in call[t].listed} \cup {index + 1}
        <5>1. \A old, n : {l.handle : l \in old \cup {n}} = {l.handle : l \in old} \cup {n.handle}
          OBVIOUS
        <5>2. new.handle = index + 1
          OBVIOUS
        <5> QED
          BY <3>3, <5>1, <5>2
      <4>2. 1 .. index + 1 = (1 .. index) \cup {index + 1}
        BY <3>1
      <4> QED
        BY <3>1, <4>1, <4>2
    <3>6. index + 1 <= Len(handles)
      BY <1>2, <3>1
    <3> QED
      BY <2>1, <3>3, <3>4, <3>5, <3>6 DEF Listed
  <2> QED
    BY <2>2, <2>3
<1>15. CASE UNCHANGED vars
  BY <1>4, <1>15 DEF vars
<1> QED
  BY <1>3, <1>5, <1>7, <1>8, <1>9, <1>11, <1>12, <1>13, <1>14, <1>15, StepCases

-----------------------------------------------------------------------------
LEMMA InitIInv == Init => IInv
<1> SUFFICES ASSUME Init PROVE IInv
  OBVIOUS
<1>1. /\ DOMAIN entries = {} /\ DOMAIN files = {} /\ released = {} /\ handles = << >>
      /\ \A t \in Threads : call[t] = Idle
  BY DEF Init
<1>2. Typed
  <2>1. SystemTyped
    BY MountAssumptions DEF MountAssumptions, Init, SystemTyped
  <2>2. EntriesTyped
    BY <1>1, FS_EmptySet DEF EntriesTyped, Live
  <2>3. FilesTyped
    BY <1>1 DEF FilesTyped
  <2>4. CallsTyped
    BY CallStarts DEF Init, CallsTyped
  <2> QED
    BY <2>1, <2>2, <2>3, <2>4 DEF Typed
<1>3. Shaped
  BY <1>1, IdleIs DEF Shaped, Shape
<1>4. OneAtATime /\ Covered
  BY <1>1 DEF OneAtATime, Covered, Live
<1>5. Distinct
  BY <1>1, IdleIs DEF Distinct, Live
<1>6. AllListed
  BY <1>1, IdleIs DEF AllListed, Listed
<1>7. AllExact
  BY <1>1, IdleIs DEF AllExact, Exact
<1> QED
  BY <1>2, <1>3, <1>4, <1>5, <1>6, <1>7 DEF IInv

(* Every state of smrawmount is as IInv says.                              *)
THEOREM SpecIInv == Spec => []IInv
<1>1. ASSUME IInv, [Next]_vars PROVE IInv'
  BY <1>1, StepTyped, StepShaped, StepOneAtATime, StepDistinct, StepListed, StepExact DEF IInv
<1> QED
  BY InitIInv, <1>1, PTL DEF Spec

(* Every variable always has its type, and FUSE is in one callback at      *)
(* most, for any number of threads.                                        *)
THEOREM TypeIsInvariant == Spec => []TypeOK
<1>1. ASSUME IInv PROVE TypeOK
  <2>1. SystemTyped /\ EntriesTyped /\ FilesTyped /\ CallsTyped /\ OneAtATime
    BY <1>1 DEF IInv, Typed
  <2>2. \A t \in Threads : DOMAIN call[t] = DOMAIN Idle
    BY <2>1 DEF CallsTyped, Calls, Idle
  <2>3. ASSUME frontend = "fuse" PROVE Cardinality({t \in Threads : call[t] # Idle}) <= 1
    <3> DEFINE busy == {t \in Threads : call[t] # Idle}
    <3>1. CASE busy = {}
      BY <3>1, FS_EmptySet
    <3>2. ASSUME NEW t \in busy PROVE Cardinality(busy) <= 1
      <4>1. busy = {t}
        BY <2>1, <2>3, <3>2 DEF OneAtATime
      <4>2. Cardinality({t}) = 1
        BY FS_Singleton
      <4> QED
        BY <4>1, <4>2
    <3> QED
      BY <3>1, <3>2
  <2> QED
    BY <2>1, <2>2, <2>3 DEF TypeOK, SystemTyped, EntriesTyped, FilesTyped
<1> QED
  BY SpecIInv, <1>1, PTL

(* Whatever callback fails and where, an entry lives as long as the file   *)
(* or the callback that has it: none is freed twice, or used after it.     *)
THEOREM EntriesAreAlwaysHeld == Spec => []EntriesAreHeld
<1>1. ASSUME IInv PROVE EntriesAreHeld
  <2>1. Distinct /\ Covered /\ NoEntry \notin Live
    BY <1>1 DEF IInv, Typed, EntriesTyped
  <2>2. (Held \ {NoEntry}) \cup released \subseteq Live
    BY <2>1 DEF Held, Distinct
  <2>3. Live \subseteq (Held \ {NoEntry}) \cup released
    BY <2>1 DEF Covered
  <2>4. released \cap Held = {}
    BY <2>1 DEF Held, Distinct
  <2> QED
    BY <2>1, <2>2, <2>3, <2>4 DEF EntriesAreHeld, Distinct
<1> QED
  BY SpecIInv, <1>1, PTL

(* A listed name leads to the handle it was listed for, and a listing that *)
(* ends well lists every handle.                                           *)
THEOREM ListedAlwaysResolves == Spec => []ListedResolves
<1>1. ASSUME IInv PROVE ListedResolves
  BY <1>1 DEF IInv, AllListed, Listed, ListedResolves, In
<1> QED
  BY SpecIInv, <1>1, PTL

(* Under FUSE, which makes one call at a time, every read that does not    *)
(* fail gives the bytes at its offset, wherever earlier reads that were    *)
(* short or failed left the offset the files share.                        *)
THEOREM FuseReadsAreExact == Spec => []FuseReadsExact
<1>1. ASSUME IInv PROVE FuseReadsExact
  BY <1>1 DEF IInv, AllExact, Exact, FuseReadsExact, ReadFileExact, In
<1> QED
  BY SpecIInv, <1>1, PTL
=============================================================================
