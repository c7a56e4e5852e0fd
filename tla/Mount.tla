------------------------------- MODULE Mount -------------------------------
(***************************************************************************)
(* smrawmount: the media as a file of a mounted file system.  FUSE calls   *)
(* the callbacks one at a time; a Dokan before version 2 from several      *)
(* threads, which share one libsmraw handle and its offset.                *)
(*                                                                         *)
(* A file entry is allocated for each path that is opened, looked at or    *)
(* listed.  A path is << >> for the root, or <<number>> for /smraw<number>.*)
(* What the kernel or the driver does is external: it releases a file once,*)
(* and when no call uses it.                                               *)
(***************************************************************************)
EXTENDS Integers, Sequences, FiniteSets

CONSTANTS
  Threads,
  FileIds,     \* bound: files and directories that are open at a time
  MaxEntries,  \* bound: file entries there are at a time
  MediaSize,
  MaxRead,     \* bound: bytes asked for in one read
  MaxNumber    \* bound: the highest number in a path that is asked for

ASSUME MountAssumptions ==
  MaxEntries \in Nat /\ MediaSize \in Nat /\ MaxRead \in Nat /\ MaxNumber \in Nat \ {0}

VARIABLES
  frontend,   \* "fuse" or "dokan"
  phase,      \* "opening", "serving", "ended", or "failed"
  handles,    \* the libsmraw handles of the file system: 1, or none, for the
              \* program opens one set of sources
  image,      \* that handle: "none", "initialized", "open", or "freed"
  offset,     \* its offset
  entries,    \* the file entries there are, and the path of each
  files,      \* the open files: each its entry, and whether it is a directory
  call,       \* the callback each thread is in, and its locals
  released    \* history: the entries of directories FUSE has released

vars == <<frontend, phase, handles, image, offset, entries, files, call, released>>

Root == << >>
NoEntry == 0

Idle == [name |-> "none", step |-> "none", file |-> NoEntry, entry |-> NoEntry,
         other |-> NoEntry, index |-> 0, listed |-> {}, offset |-> 0, size |-> 0,
         from |-> 0, failed |-> FALSE]

Live == DOMAIN entries

-----------------------------------------------------------------------------
(* Opening the sources, and the paths of the file system.                  *)

(* The sources are looked for; when that fails the name is opened as it    *)
(* is.  A set with no files cannot be opened.                              *)
OpenSources ==
  /\ phase = "opening" /\ image = "none"
  /\ \E globbed \in {"found", "none", "failed"} :
       image' = IF globbed = "none" THEN "initialized" ELSE "open"
  /\ UNCHANGED <<frontend, phase, handles, offset, entries, files, call, released>>

AppendHandle ==
  /\ phase = "opening" /\ image = "open" /\ handles = << >>
  /\ handles' = <<"image">>
  /\ phase' = "serving"
  /\ UNCHANGED <<frontend, image, offset, entries, files, call, released>>

(* Any step of it may fail, also after the handle was appended (freeing    *)
(* the filenames); the handle is freed, and the program ends.              *)
OpenFails ==
  /\ phase = "opening" /\ image # "none"
  /\ image' = "freed"
  /\ handles' \in {handles, IF image = "open" THEN <<"image">> ELSE handles}
  /\ phase' = "failed"
  /\ UNCHANGED <<frontend, offset, entries, files, call, released>>

(* The handle of a path: 0 for the root, -1 when there is none, and also   *)
(* for what is a number of no handle.                                      *)
HandleByPath(path) ==
  IF path = Root THEN 0
  ELSE IF path[1] \in 1 .. Len(handles) THEN path[1] ELSE -1

Exists(path) == HandleByPath(path) # -1

(* Broken: the number in the path is the index.                            *)
PathFromHandleIndexNoOffset(index) == <<index>>

PathFromHandleIndex(index) == <<index + 1>>

NumberOfSubFileEntries(path) == IF path = Root THEN Len(handles) ELSE 0

Paths == {Root} \cup {<<n>> : n \in 0 .. MaxNumber}

-----------------------------------------------------------------------------
(* File entries.                                                           *)

NewEntry == CHOOSE e \in 1 .. Cardinality(Live) + 1 : e \notin Live

(* A callback starts only where there is room for all it allocates.        *)
RoomFor(n) == Cardinality(Live) + n <= MaxEntries

WithNew(path) == [e \in Live \cup {NewEntry} |-> IF e = NewEntry THEN path ELSE entries[e]]

Without(some) == [e \in Live \ some |-> entries[e]]

(* A callback starts; FUSE makes one call at a time.                       *)
MayStart(t) ==
  /\ phase = "serving" /\ call[t] = Idle
  /\ frontend = "fuse" => \A u \in Threads : call[u] = Idle

In(t, name, step) == call[t].name = name /\ call[t].step = step

Goes(t, locals) == call' = [call EXCEPT ![t] = locals]

Ends(t) == call' = [call EXCEPT ![t] = Idle]

InUse(file) == \E t \in Threads : call[t].file = file

-----------------------------------------------------------------------------
(* Files and directories.                                                  *)

OpensEntry(t, file, path, directory) ==
  /\ MayStart(t) /\ RoomFor(3)
  /\ file \in FileIds \ DOMAIN files
  /\ Exists(path)
  /\ entries' = WithNew(path)
  /\ files' = [f \in DOMAIN files \cup {file} |->
                 IF f = file THEN [entry |-> NewEntry, directory |-> directory] ELSE files[f]]
  /\ UNCHANGED <<frontend, phase, handles, image, offset, call, released>>

FuseOpen(t) ==
  /\ frontend = "fuse"
  /\ \E file \in FileIds, path \in Paths \ {Root} : OpensEntry(t, file, path, FALSE)

FuseOpendir(t) == frontend = "fuse" /\ \E file \in FileIds : OpensEntry(t, file, Root, TRUE)

DokanCreateFile(t) ==
  /\ frontend = "dokan"
  /\ \E file \in FileIds, path \in Paths : OpensEntry(t, file, path, FALSE)

DokanOpenDirectory(t) ==
  /\ frontend = "dokan"
  /\ \E file \in FileIds, path \in Paths : OpensEntry(t, file, path, TRUE)

Releases(t, file) ==
  /\ MayStart(t)
  /\ file \in DOMAIN files /\ ~InUse(file)
  /\ files' = [f \in DOMAIN files \ {file} |-> files[f]]

ReleasesEntry(t, file) ==
  /\ Releases(t, file)
  /\ entries' = Without({files[file].entry})
  /\ UNCHANGED <<frontend, phase, handles, image, offset, call, released>>

FuseRelease(t) ==
  /\ frontend = "fuse"
  /\ \E file \in DOMAIN files : ~files[file].directory /\ ReleasesEntry(t, file)

DokanCloseFile(t) ==
  /\ frontend = "dokan"
  /\ \E file \in DOMAIN files : ReleasesEntry(t, file)

(* The entry of a directory is forgotten and not freed.                    *)
FuseReleasedir(t) ==
  /\ frontend = "fuse"
  /\ \E file \in DOMAIN files :
       /\ files[file].directory
       /\ Releases(t, file)
       /\ released' = released \cup {files[file].entry}
  /\ UNCHANGED <<frontend, phase, handles, image, offset, entries, call>>

-----------------------------------------------------------------------------
(* Reading: libsmraw_handle_read_buffer_at_offset, in its two steps.       *)

ReadCall(file, from, size) ==
  [Idle EXCEPT !.name = "read", !.step = "buffer", !.file = file, !.offset = from,
               !.size = size]

(* Broken: reads on from where the last read ended.                        *)
ReadSeekNot(t) ==
  /\ MayStart(t)
  /\ \E file \in DOMAIN files, from \in 0 .. MediaSize, size \in 1 .. MaxRead :
       /\ HandleByPath(entries[files[file].entry]) > 0
       /\ Goes(t, ReadCall(file, from, size))
  /\ UNCHANGED <<frontend, phase, handles, image, offset, entries, files, released>>

(* An entry of the root has no handle, and cannot be read.                 *)
ReadSeek(t) ==
  /\ MayStart(t)
  /\ \E file \in DOMAIN files, from \in 0 .. MediaSize, size \in 1 .. MaxRead :
       /\ HandleByPath(entries[files[file].entry]) > 0
       /\ offset' = from
       /\ Goes(t, ReadCall(file, from, size))
  /\ UNCHANGED <<frontend, phase, handles, image, entries, files, released>>

(* Broken: reads on beyond the end of the media.                           *)
ClampedNot(size, from) == size

Clamped(size, from) == IF size > MediaSize - from THEN MediaSize - from ELSE size

(* The read is one step, under the lock of the handle.  A segment file may *)
(* give less than it is asked for, and a read of several chunks may fail   *)
(* after the first ones: the offset has moved by the bytes that were read. *)
ReadBuffer(t) ==
  /\ In(t, "read", "buffer")
  /\ \E count \in 0 .. Clamped(call[t].size, offset), failed \in BOOLEAN :
       /\ failed => count < Clamped(call[t].size, offset)
       /\ offset' = offset + count
       /\ Goes(t, [call[t] EXCEPT !.step = "return", !.failed = failed,
                                  !.from = IF failed THEN 0 ELSE offset])
  /\ UNCHANGED <<frontend, phase, handles, image, entries, files, released>>

ReadReturns(t) ==
  /\ In(t, "read", "return")
  /\ Ends(t)
  /\ UNCHANGED <<frontend, phase, handles, image, offset, entries, files, released>>

-----------------------------------------------------------------------------
(* Attributes: getattr, and GetFileInformation.                            *)

GetAttributes(t) ==
  /\ MayStart(t) /\ RoomFor(3)
  /\ \E path \in Paths :
       /\ Exists(path)
       /\ entries' = WithNew(path)
       /\ call' = [call EXCEPT ![t] = [Idle EXCEPT !.name = "attributes", !.step = "entry",
                                                   !.entry = NewEntry]]
  /\ UNCHANGED <<frontend, phase, handles, image, offset, files, released>>

(* The entry is freed when the attributes were had, and when not.          *)
AttributesReturn(t) ==
  /\ In(t, "attributes", "entry")
  /\ entries' = Without({call[t].entry})
  /\ Ends(t)
  /\ UNCHANGED <<frontend, phase, handles, image, offset, files, released>>

-----------------------------------------------------------------------------
(* Listing: readdir, and FindFiles.                                        *)

ListedEntry(t) == IF frontend = "fuse" THEN files[call[t].file].entry ELSE call[t].entry

FuseReaddir(t) ==
  /\ frontend = "fuse" /\ MayStart(t) /\ RoomFor(2)
  /\ \E file \in DOMAIN files :
       /\ files[file].directory
       /\ call' = [call EXCEPT ![t] = [Idle EXCEPT !.name = "list", !.step = "parent",
                                                   !.file = file]]
  /\ UNCHANGED <<frontend, phase, handles, image, offset, entries, files, released>>

DokanFindFiles(t) ==
  /\ frontend = "dokan" /\ MayStart(t) /\ RoomFor(3)
  /\ \E path \in Paths :
       /\ Exists(path)
       /\ entries' = WithNew(path)
       /\ call' = [call EXCEPT ![t] = [Idle EXCEPT !.name = "list", !.step = "parent",
                                                   !.entry = NewEntry]]
  /\ UNCHANGED <<frontend, phase, handles, image, offset, files, released>>

(* Only what is not the root has a parent, the root.                       *)
GetParentFileEntry(t) ==
  /\ In(t, "list", "parent")
  /\ IF entries[ListedEntry(t)] = Root
     THEN /\ Goes(t, [call[t] EXCEPT !.step = "fill_parent"])
          /\ UNCHANGED entries
     ELSE /\ entries' = WithNew(Root)
          /\ Goes(t, [call[t] EXCEPT !.step = "fill_parent", !.other = NewEntry])
  /\ UNCHANGED <<frontend, phase, handles, image, offset, files, released>>

FillParent(t) ==
  /\ In(t, "list", "fill_parent")
  /\ entries' = Without({call[t].other})
  /\ Goes(t, [call[t] EXCEPT !.step = "sub", !.other = NoEntry])
  /\ UNCHANGED <<frontend, phase, handles, image, offset, files, released>>

GetSubFileEntryByIndex(t) ==
  /\ In(t, "list", "sub")
  /\ call[t].index < NumberOfSubFileEntries(entries[ListedEntry(t)])
  /\ entries' = WithNew(PathFromHandleIndex(call[t].index))
  /\ Goes(t, [call[t] EXCEPT !.step = "fill_sub", !.other = NewEntry])
  /\ UNCHANGED <<frontend, phase, handles, image, offset, files, released>>

(* Broken: the index is not increased.                                     *)
FillSubAgain(t) ==
  /\ In(t, "list", "fill_sub")
  /\ entries' = Without({call[t].other})
  /\ Goes(t, [call[t] EXCEPT !.step = "sub", !.other = NoEntry])
  /\ UNCHANGED <<frontend, phase, handles, image, offset, files, released>>

(* The name of the entry, and the handle of which it gives the size.       *)
FillSub(t) ==
  /\ In(t, "list", "fill_sub")
  /\ entries' = Without({call[t].other})
  /\ Goes(t, [call[t] EXCEPT !.step = "sub", !.other = NoEntry, !.index = @ + 1,
       !.listed = @ \cup {[path |-> entries[call[t].other], handle |-> call[t].index + 1]}])
  /\ UNCHANGED <<frontend, phase, handles, image, offset, files, released>>

(* Broken: on an error only what was listed last is freed.                 *)
FillFailsKeepingEntry(t) ==
  /\ call[t].name = "list"
  /\ entries' = Without({call[t].other})
  /\ Ends(t)
  /\ UNCHANGED <<frontend, phase, handles, image, offset, files, released>>

(* The buffer of the listing is full, or any other error: all the entries  *)
(* the callback has are freed.                                             *)
FillFails(t) ==
  /\ call[t].name = "list"
  /\ entries' = Without({call[t].entry, call[t].other})
  /\ Ends(t)
  /\ UNCHANGED <<frontend, phase, handles, image, offset, files, released>>

ListReturns(t) ==
  /\ In(t, "list", "sub")
  /\ call[t].index >= NumberOfSubFileEntries(entries[ListedEntry(t)])
  /\ entries' = Without({call[t].entry})
  /\ Goes(t, [call[t] EXCEPT !.step = "return", !.entry = NoEntry])
  /\ UNCHANGED <<frontend, phase, handles, image, offset, files, released>>

ListReturned(t) ==
  /\ In(t, "list", "return")
  /\ Ends(t)
  /\ UNCHANGED <<frontend, phase, handles, image, offset, entries, files, released>>

-----------------------------------------------------------------------------
(* FUSE frees the mount handle as it ends, Dokan leaves it; the libsmraw   *)
(* handle is neither closed nor freed.                                     *)
Unmount ==
  /\ phase = "serving" /\ \A t \in Threads : call[t] = Idle
  /\ phase' = "ended"
  /\ handles' = IF frontend = "fuse" THEN << >> ELSE handles
  /\ UNCHANGED <<frontend, image, offset, entries, files, call, released>>

Init ==
  /\ frontend \in {"fuse", "dokan"} /\ phase = "opening"
  /\ handles = << >> /\ image = "none" /\ offset = 0
  /\ entries = << >> /\ files = << >>
  /\ call = [t \in Threads |-> Idle]
  /\ released = {}

Starts(t) ==
  \/ FuseOpen(t) \/ FuseOpendir(t) \/ FuseRelease(t) \/ FuseReleasedir(t) \/ FuseReaddir(t)
  \/ DokanCreateFile(t) \/ DokanOpenDirectory(t) \/ DokanCloseFile(t) \/ DokanFindFiles(t)
  \/ ReadSeek(t) \/ GetAttributes(t)

GoesOn(t) ==
  \/ ReadBuffer(t) \/ ReadReturns(t) \/ AttributesReturn(t)
  \/ GetParentFileEntry(t) \/ FillParent(t) \/ GetSubFileEntryByIndex(t) \/ FillSub(t)
  \/ FillFails(t) \/ ListReturns(t) \/ ListReturned(t)

Next ==
  \/ OpenSources \/ AppendHandle \/ OpenFails \/ Unmount
  \/ \E t \in Threads : Starts(t) \/ GoesOn(t)

Spec == Init /\ [][Next]_vars

(* A callback that started goes on.                                        *)
FairSpec == Spec /\ \A t \in Threads : WF_vars(GoesOn(t))

-----------------------------------------------------------------------------
(* Properties.                                                             *)

(* Every variable has its type, and FUSE is in one callback at most.       *)
TypeOK ==
  /\ frontend \in {"fuse", "dokan"} /\ phase \in {"opening", "serving", "ended", "failed"}
  /\ image \in {"none", "initialized", "open", "freed"}
  /\ offset \in 0 .. MediaSize
  /\ Live \subseteq Nat \ {NoEntry} /\ \A e \in Live : entries[e] \in Paths
  /\ DOMAIN files \subseteq FileIds
  /\ \A t \in Threads : DOMAIN call[t] = DOMAIN Idle
  /\ frontend = "fuse" => Cardinality({t \in Threads : call[t] # Idle}) <= 1

Held ==
  {files[f].entry : f \in DOMAIN files}
  \cup {call[t].entry : t \in Threads} \cup {call[t].other : t \in Threads}

(* A file entry lives as long as the file or the callback that has it, and *)
(* no longer, whatever callback failed and where; only FUSE directories    *)
(* leave theirs.  No two files or callbacks have the same.                 *)
EntriesAreHeld ==
  /\ Live = (Held \ {NoEntry}) \cup released
  /\ released \cap Held = {}
  /\ \A f, g \in DOMAIN files : files[f].entry = files[g].entry => f = g
  /\ \A t \in Threads, f \in DOMAIN files : call[t].entry # files[f].entry

(* A name that a listing gives leads to the handle whose size it gave, and *)
(* a listing that ends well gave every handle.                             *)
ListedResolves ==
  \A t \in Threads :
    /\ \A l \in call[t].listed : HandleByPath(l.path) = l.handle
    /\ In(t, "list", "return") /\ frontend = "fuse" =>
         {l.handle : l \in call[t].listed} = 1 .. Len(handles)

(* "Reads a buffer of data at the specified offset", the comment above     *)
(* mount_dokan_ReadFile.                                                   *)
ReadFileExact ==
  \A t \in Threads :
    In(t, "read", "return") /\ ~call[t].failed => call[t].from = call[t].offset

(* With FUSE that is so, wherever the reads before it left the one offset  *)
(* the files share, whether they gave all, less, or failed halfway: no     *)
(* other callback comes between the seek and the read.                     *)
FuseReadsExact == frontend = "fuse" => ReadFileExact

(* Every callback returns.                                                 *)
CallbacksReturn == \A t \in Threads : call[t].name # "none" ~> call[t].name = "none"
=============================================================================
