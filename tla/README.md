# libsmraw in TLA+

libsmraw reads and writes storage media images in the (split) RAW format: a
media is a sequence of bytes kept in one file, or cut over the files
`name.raw.000`, `name.raw.001`, ..., with an optional *information file*
`name.raw.info` of key/value sections beside it. Around the library are two
tools (`smrawverify`, `smrawmount`) and bindings for Python and .NET.

This directory models the library's core, its value tables and information file,
how the files of an image are found, the two tools, and the Python binding; checks
them with TLC on small instances; and proves, with TLAPS and for every value of the
constants (but one bound), the invariants of the handle, that the segment files are
read and written as one sequence of bytes, what is read from an information file, the
invariants of the two tools (but one), and those of the binding.

## 1. Inventory

| Part | State it keeps | Operations | Made correct by |
|---|---|---|---|
| handle (`libsmraw_handle.c`) | pool and who made it, segments stream, flags (read/write values initialized, write information on close), information file, three value tables | initialize, configure, open (by names, or on a caller's pool), read, write, seek, get/set values, close, free | flags, pool, stream and information file agreeing through every error path; a closed handle being like a new one; sizes frozen once they named files |
| IO handle (`libsmraw_io_handle.c`) | basename, media size, maximum segment size, number of segments | clear, set basename; callbacks of the stream: create, read, write, seek in a segment | segments and files in one-to-one order; every byte at its offset |
| file names (`libsmraw_filename.c`) | none | a name for segment *i* of *n* | different names for different segments; never a name too few |
| information file (`libsmraw_information_file.c`) | name, FILE stream | open, close, read section, write section | what was written is read back; an open file is closed on every path |
| support (`libsmraw_support.c`) | none | glob: find the segment files of an image by naming schema | finds what was written, in order, and no more |
| libfdata / libbfio (not in this repository) | segments of the stream; files of the pool | map an offset to a segment, call back; open, read, write, seek a pool entry | external: modelled from their use |
| `smrawverify` | main's steps, verification handle, digest contexts, log, abort flags of the program and the handle | find and open the files, read all media, hash, print; a signal handler | each byte hashed once, in order; hashes of all of the media or none; abort stops it; everything freed on every path |
| `smrawmount` | mount handle, file system, file entries, callbacks in progress | offer the media as a file to FUSE and to Dokan's threads | entries freed exactly when their file or callback ends; names lead to their handle; reads are of the offset asked for |
| pysmraw | wrapped handle, pool of Python file objects, interpreter lock | read, seek, open and close from several Python threads | no circle of locks; no byte given twice, or lost without an error; the pool lives while the library uses it |
| smraw.net | wrapped handle | pass calls on | |

How they interact. The handle opens the segment files into a *pool* (libbfio),
or is given one; a *segments stream* (libfdata) maps the media's offsets to
segments, each of which names an entry of the pool. A read or write of the
handle clamps the size to the media, then the stream loops over the segments
it covers and calls back the IO handle to create a segment (a name from
`libsmraw_filename_create`, an entry appended to the pool, the file opened),
to seek in its file, and to read or write there. The first write computes the
number of segments, which decides how every file is named. Opening for reading
reads the information file into the value tables; closing a handle opened for
writing writes it. The tools give glob the name of a file and open what it finds;
`smrawverify` has a signal handler that reaches into its handle at any time,
`smrawmount` is called back by the threads of its driver, which share one handle;
pysmraw calls back into Python from within the library, with the handle's lock held.

What is hard here: many fields, set in one call and taken back by hand in
another, with two nested error paths; calls that fail half-way and are tried
again (creating a segment, a write over several segments, a close that cannot
write the information file); a handle used for several sessions, where one
leaves something to the next; offsets at the boundary of a segment and of the
media; an index used in two numberings (segments and pool entries); two locks
taken in both orders (the interpreter's and the handle's); a seek and a read that
are two steps; text that is written in one way and parsed in another. The list,
line by line, is under `hazards` in `PROJECT.json`.

## 2. Modules

| Module | Models |
|---|---|
| `SegmentLayout` | the number of segments, and which segment gets which name (operators only) |
| `SmrawHandle` | one handle, the disk, and the program that uses it: all calls that open, configure, write, close and free |
| `LinearMedia` | abstract: the media as one sequence of bytes with a position |
| `SegmentStream` | the media over segment files, callback by callback; implements `LinearMedia` |
| `InformationFile` | the value tables, their accessors, the text of the information file and its parser |
| `SegmentGlob` | finding the files of an image by the name of one: naming schemas and counting (operators only) |
| `Verification` | `smrawverify`, from its arguments to its exit code, and signals; finds its files with `SegmentGlob` |
| `Mount` | `smrawmount` under FUSE and under Dokan: paths, file entries, and the callbacks of several threads on one handle |
| `PythonHandle` | Python threads on one handle opened on file objects |
| `MC...` | values of constants for TLC |
| `SegmentLayoutProofs`, `SmrawHandleProofs`, `SegmentStreamProofs`, `InformationFileProofs`, `VerificationProofs`, `MountProofs`, `PythonHandleProofs` | theorems and their proofs |
| `FoldLemmas` | lemmas those proofs share: sums and flattened sequences of any length, and induction over the numbers |

### SmrawHandle

`h` is `libsmraw_internal_handle_t`, `io` is `libsmraw_io_handle_t`, `tables`
are the three value tables. `image` and `info` are the disk: how large the
image of each name is, and what each information file holds. `handle` is
"crashed" when the process died in the library. `modes` is the program: the
access modes it opens this handle in. The rest is history: `session` and `opened` are
the mode of the open session and the image it is on, `result` what the last open,
close or free returned, `chosen` what the program set of `io` for the session to come
(it starts anew with a session and with an open that failed), and `unread` says that an
open failed at its information file and no close came since.

Each exported call is an action, or two or three when it has outcomes of its
own: `Open` succeeds, `OpenSegmentsFails` takes the error path out of the pool,
`OpenInformationFails` the one out of reading the information file. The names
after it:

* `libsmraw_handle_open` — `OpenRefused`, `OpenSegmentsFails`,
  `OpenInformationFails`, `Open`
* `libsmraw_handle_open_file_io_pool` — `OpenFileIoPool`, `OpenFileIoPoolFails`
* `libsmraw_handle_close` — `CloseRefused`, `CloseCrashes`,
  `CloseInformationFails`, `Close`; `libsmraw_handle_free` — `Free`
* `libsmraw_handle_write_buffer` — `WriteBuffer`, which gives the image any
  size the layout allows: the bytes are `SegmentStream`'s business
* the setters — one action each; the setters of values stand for all value
  setters of their table

A constant `Faults` names the external calls that may fail. Properties:

* `SessionStateAgrees` — pool, ownership, stream, information file and read
  flag agree with each other and with the session.
* `ClosedIsClean` — between two sessions `io` (basename, sizes, number of segments)
  is `chosen`, what the program set since, and the handle's own fields are those of a
  new handle. The exceptions are the code's: `writeInfo` is never reset, although only
  a program that writes ever has it set, and an open that failed at its information
  file leaves that file, the stream and the values read. The value tables are not part
  of it, as the code never empties them.
* `ClosedHandleCanOpen` — only an open that failed at its information file makes a
  handle without a session refuse the next one, or fail it over a stream that is still
  set; of all programs and all faults.
* `LayoutIsFrozen` — after the first write the number of segments is the one
  the sizes call for, whatever the program sets or opens.
* `InformationFileMatches` — the information file of a session has the stem of the
  image that was opened (`<stem>.raw.info`), whatever basename the program sets. The
  exception is a split image that is read: its information file is sought, and written
  by a session that also writes, as `<stem>.raw.raw.info`.
* `ReadersNeverWrite` — a program that opens its handle for reading only
  changes no file.
* `OpenHandleCanClose` — what was opened can be closed, for programs that use a handle
  for reading or for writing, never both, and let the library open the files.

### SegmentStream

One session that writes an image and one that reads it back. `segments` is
libfdata's stream: for each segment the pool entry it names, its start and its size;
`pool` is the names of libbfio's entries; `disk` the bytes of each file;
`call` the read or write in progress. A call takes many steps
(`BeginWrite`, then `CreateSegment` and `WriteSegmentData` per segment, and so
for reads), each of which may fail or be cut short, and end the call with the
offset where it is. `Reopen` closes the handle and opens it on what a glob
finds. Properties:

* `MediaIsLinear` — the refinement: with `Media` (the files of the segments in
  order) for `media` and the stream's offset for `pos`, every step is a step of
  `LinearMedia` or changes nothing. Reopening does not change `Media`, so what
  was written is what is read, byte for byte.
* `SegmentsHaveFiles` — no two segments share a file, and there are never more
  segments than the number in their names says.
* `FullButTheLast` — only the last segment has room left.
* `ReadsAreExact` — a read delivers the media's bytes from where it started and
  never more than there are.
* `CallsReturn` — a read or write that was begun ends.
* `FilenameOfOffset` — the file reported for the current offset is the one its
  data is in; holds as long as no segment file fails to open.

### InformationFile

`SmrawHandle` says *when* the information file is read and written; this module says
what is in it. `tables` are the three value tables, each a sequence of values with
an identifier, a text, and whether the identifier is kept with its end-of-string
character; `file` is the information file as a sequence of tokens (tags, blanks,
text); `h` is what matters here of the session. The setters replace a value of the
same identifier or append one, as libfvalue does. `CloseWrites` writes the text of
the two sections that are written, `CloseFails` any beginning of it, or a section
one of whose lines is cut, and stays open; `CloseUnflushed` is a close whose `fclose`
fails, which leaves any beginning and ends the session. `OpenForReading` reads each section with `ReadSection`,
which goes through the file as `libsmraw_information_file_read_section` does: a
line is what `fgets` returns, up to the line's end or the size of the buffer; blanks
are skipped; a section starts and ends with its tag; a value is a line that starts
with a tag whose identifier has letters, digits and `_` only (`Readable`), and whose
first `<` after it is the same tag's end (`Bare` is a `<` that begins no tag).
`OpenForReadingFails` stops at a line. Properties:

* `ReadBack` — what one handle kept the next one has, under each identifier one
  value with the last text, provided the line fits the buffer and the text has no
  `<`; whatever the other values hold. An identifier that is not `Readable` has none,
  although its text is in the file. The media type is that of the file, if it is
  one the library knows.
* `NothingInvented` — also after a close that failed half-way, every value read was
  being written in that section under that identifier; it is whole, or cut where
  its text had a tag.
* `LastSetIsFound` — the accessors give what the program set last, although a value
  read from a file is kept beside it.

### SegmentGlob and Verification

`SegmentGlob` has the operators of `libsmraw_glob`: which schema a name follows, the
suffixes that are tried when there is no such file, and counting up from the first
file until one is missing or a limit is reached (`NextSegmentFile`: a number of one
digit may get a second and a third). `TheSet` is the reference: what the names of a
set mean, with no counting.

`Verification` is `main` of `smrawverify`, step by step: `program.step` is where it
is. `input` is the directory and the arguments, chosen at first; `verify` the locals
of `verification_handle_verify_input`; `told` what a signal reaches: whether the
handler is attached, `smrawverify_abort`, and the abort flag of the handle.
`SignalHandler` may come between any two steps. `VerifyFails` and `Fails` are the
error paths of `verify_input` and of `main`. A hash is the sequence of the bytes it
was calculated over. Properties:

* `GlobFindsTheSet` — what is opened is `TheSet` of the first file.
* `PrintedIsWhole` — what is printed, and what is in the log, are the hashes of all
  of the media, each byte once and in order, whatever a read gives.
* `SuccessMeansVerified` — success is only reported when the hashes were printed, in
  the log too if there is one, and no signal came.
* `NothingLeft` — however it ends, the handle, the contexts and the log are freed.
* `HandlerFindsHandle` — the handler meets a freed handle only on an error path, or
  when it could not be detached.
* `AbortIsPrompt` — after the handle was told, at most one more buffer is read.
* `Ends` — the program ends.

### Mount

`entries` are the file entries that are allocated, each with its path; `files` the
files and directories the driver has open, each with its entry; `call` the callback
each thread is in, with its locals. `frontend` is FUSE, which calls one at a time,
or Dokan, whose threads call at once. A callback is a step or more: `ReadSeek`,
`ReadBuffer` and `ReadReturns` are `read` (FUSE) and `ReadFile` (Dokan);
`FuseReaddir`/`DokanFindFiles`, `GetParentFileEntry`, `FillParent`,
`GetSubFileEntryByIndex`, `FillSub`, `ListReturns` are a listing, which may fail at
each of them (`FillFails`); `GetAttributes` and `AttributesReturn` are `getattr` and
`GetFileInformation`. A read may give less than was asked for, or fail after some of
its chunks, with the offset of the handle moved by those. Properties:

* `EntriesAreHeld` — a file entry lives as long as the file or callback that has it
  and no longer; no two have the same. FUSE's `releasedir` forgets the entry of its
  directory without freeing it (`mount_fuse.c:1077`), which the property allows.
* `ListedResolves` — a name in a listing leads to the handle whose size it gave.
* `ReadFileExact` — a read that does not fail gives bytes from the offset it asked for:
  what the comment says, and two Dokan threads violate. `FuseReadsExact` — under FUSE
  it is so, after whatever short and failing reads came before.
* `CallbacksReturn` — every callback returns.

### PythonHandle

`gil` is the interpreter lock, `lock` the read/write lock of the handle, `pool` the
pool of file objects the binding made, `lib` the libsmraw handle, `thread` the method
each thread is in. A method gives up `gil` while it is in the library
(`Enter`); the library takes `lock` to read (`GrabLock`), looks for the segment
(`FindSegment`), and calls the file object, for which `gil` is needed
(`SeekSegmentOffset`, `ReadSegmentData`, or `FileObjectRaises`), until what was asked
for is read or an object gave less (`ReleaseLock`). Seeking takes no lock. `taken` is
history: the bytes that reads took, in order; `lost` says which of them no thread was
given, as the read that took them failed, and `raised` whether an object raised.
Properties:

* `CallsReturn` — no two threads wait for each other with one lock each.
* `ReadAtOffsetExact` — `read_buffer_at_offset` gives what is at its offset, unless
  another thread moved the offset of the handle in between; and less than asked for
  only at the end of the media, or after a file object gave less than it was asked for.
* `EachByteOnce` — threads that only `read_buffer` share the media: each byte is taken
  by one read, once and in order. A read that fails drops what it took, while the
  offset stays behind it; nothing is lost when no file object raises.
* `PoolOutlivesItsUse` — the library uses a freed pool only after
  `open_file_objects` was called on the open handle: that call is refused, and its
  error path frees the pool in use (`pysmraw_handle.c:1043`). This is under a bound:
  no thread closes or opens a handle that another one is in, from which the code does
  not keep it.

## 3. Runs

| Run | Shows |
|---|---|
| `handle_sessions` | six invariants and `ReadersNeverWrite` for programs that open the handle in every mode and on pools of their own, with every fault |
| `handle_tools` | `OpenHandleCanClose`, and `InformationFileMatches` between two images, with the failures a program can try again |
| `stream_faults` | the refinement and the invariants of the stream with every fault |
| `stream_calls` | `CallsReturn` under fairness, `FilenameOfOffset` without failures to open |
| `handle_read_session` (violated) | `ReadSessionKeepsFiles` |
| `handle_close` (violated) | `CloseReturns` |
| `stream_filename` (violated) | `FilenameOfOffset` when a segment file cannot be opened |
| `information_file` | writing and reading back over sessions of one handle and of several, with writes, closes and reads that fail half-way |
| `verification` | the seven invariants and `Ends`, for sets of files of every schema up to and beyond each limit |
| `mount` | the four invariants and `CallbacksReturn`, for FUSE and for two Dokan threads |
| `mount_race` (violated) | `ReadFileExact` |
| `python_handle` | two threads on a handle of two file objects, with every call able to fail or to give less |

`CHECK_DEADLOCK FALSE` is said where the system may stop: in `handle_sessions` the
process is gone after `CloseCrashes`; in `python_handle` it is gone when a freed
pool is used, and a handle that could not be opened has used up `MaxCalls`;
`verification` ends with the program; `mount` and `mount_race` with the unmount. The
other runs check deadlock.

The four violated runs are disagreements between the code and its own words:

1. *A read session writes.* `write_information_on_close` is set by an open for
   writing and never reset. A handle opened for writing, closed, and opened for
   reading rewrites the information file when it is closed again
   (`libsmraw_handle.c:1914`).
2. *Close reads through NULL.* The same flag, when the second session is on a
   pool of the program's, which has no information file (line 1918).
3. *The name of another file.* A segment file that cannot be opened stays in
   the pool. `get_filename` uses the segment's index as the pool's, so from the
   next try on it reports another entry (line 3302).
4. *Bytes of another offset.* `read_buffer_at_offset` seeks and reads in two steps,
   and only the second takes the lock (line 2242). Two threads of a Dokan before
   version 2 that read at once get each other's offset (`mount_dokan.c:787`: "Reads a
   buffer of data at the specified offset"). FUSE is configured for one thread.

Other behaviours the model has, that no document speaks against:

* A handle opened for reading *and* writing on an image that has an information
  file can never be closed: reading the file closes it, which frees its name.
  `OpenHandleCanClose` is therefore stated of programs that do not do this.
* When the information file cannot be read, the error path of open leaves the
  information file and the stream in place (line 902 calls *initialize* where
  *free* was meant); the handle refuses every open from then on. Free drops
  both. `ClosedHandleCanOpen` says that no other failure does that.
* When a section cannot be written, close returns and leaves the file open, and
  every further close fails. The file was already truncated.
* Close leaves the value tables; values of one image get into the information
  file of the next. The media values are read and never written.
* An identifier read from the file is kept without its end-of-string character and is
  looked up with it. A value that was read is not found by its name (but the media
  type, which is looked up without); one the program sets is kept beside it, and both
  are written.
* A text that holds a tag is cut there or not read back at all; a line longer than the
  buffer is read in pieces. A value whose identifier has other characters than letters,
  digits and `_` is written, and skipped when the file is read.
* A read of pysmraw that raises has moved the offset by what it read before, and drops
  that. A short read of a file object is not tried again.
* `get_size` of a Python file object returns as if it had succeeded when it failed, so
  that the segment gets the size of the one before it.
* `smrawverify` sees an abort between two buffers. Its error paths do not detach the
  handler before they free the handle.
* Of a set x of n the last has to be there, and with it all; other sets just end where
  a file is missing.
* For a split image that is read the information file is sought under
  `b.raw.raw.info`, although a session that only writes writes `b.raw.info`.
* A failed open clears the sizes the program set.

### Bounds, and why they are enough

* `Stems`: one in `handle_sessions`, two in `handle_tools`, where one image must not
  get the information file of another; `StemSymmetry`, as nothing tells the two apart.
  The second name of an information file (with `.raw` left on) comes from the same stem.
* `Values`: `{}` in `handle_sessions`, one value in `handle_tools`. A table is a
  set; no property relates two values. `{}` keeps the number of states down
  while everything else varies.
* `MaxMedia` (sizes 0 to 3 in `handle_sessions`): no size, a size smaller than,
  equal to and larger than the segment size, and a number of segments of 0, 1,
  2 and 3.
* `NameLimit` is 1000 in the code. Its value is 3, 2 and 4 in the runs: with
  the sizes above a set can be too large to name.
* `MaxMedia = 4` or `5` bytes, `MaxCall = 3` or `4` in the stream runs: a call
  covers up to four segments, starts and ends in the middle of one, and a
  segment size of 0 to 5 gives no, one and several segments.
* `MaxUnopened = 1`: files of the pool that could not be opened. One shifts the
  numbering of the pool against that of segments.
* Programs seek no further than the data written. Beyond that the library
  leaves gaps whose fate depends on libfdata and the file system.
* Images on disk are not empty; memory does not run out; sizes stay below 2^63.
* Writing in a session opened for reading is modelled for the flags, not for
  the files: without room in the stream's segments nothing is written.
* `SegmentStream`'s disk is empty at first.
* `InformationFile`: `MaxValues = 2` and `MaxSessions = 2`, with two identifiers, one
  of which also names an integrity hash: two values under one name, in one section and
  in two, written by one session and read by the next, or by another handle. `LineSize`
  is 5 tokens (128 bytes in the code): of the texts one fits its line, one does
  not and has the end tag of an identifier in it, and one has a bare `<`. One of the two
  identifiers is not `Readable`. The names of sections are left out
  as identifiers and as tags within texts, since the line of such a value would start
  the section; and identifiers are not empty, have no `<`, `>` or end of line, and do
  not begin with `/`, as the line of such a value would be read as another's.
* `SegmentGlob`: `Radix = 3` and `Letters = 2` in place of 10 and 26, so that one, two
  and three digits, and two letters, are counted to their limits and one beyond. Of a
  name that follows no schema only the outcomes are modelled; a stem that itself ends
  in a number is left out.
* `Verification`: a buffer of 1 and of 8 bytes (the default, 32768 in the code) for
  media of up to 18 bytes: one buffer, several, and short reads in either.
* `Mount`: two threads and two open files, `MaxEntries = 5` entries at a time (a
  callback starts when there is room for all it allocates), `MediaSize = 2`,
  `MaxRead = 2`, paths up to `/smraw2` when there is one handle.
* `PythonHandle`: two threads, files of 2 and 1 bytes, `MaxRead = 2`, `MaxCalls = 3`
  calls from one close to the next: a read over both files with two calls of the other
  thread in between. No thread opens or closes the handle while another is in it. A
  file object gives no more than it was asked for (the code does not look).

### Fairness

`FairSpec` says in each module that what was begun goes on, and no more:

* `SegmentStream`: weak fairness of `CallStep`. A call of the library is ordinary
  sequential code, which goes on by itself until it returns.
* `Verification`: of `Main`, all steps of the program; nothing of signals.
* `Mount`: of `GoesOn(t)`, the steps of a callback that has started; the driver need
  not start another.
* `PythonHandle`: of `Library(t)`, the steps of a method that was called. Nothing is
  assumed of who gets a lock that several wait for; that a thread may be starved by
  others which call forever is left out by `MaxCalls`.

Nothing obliges the program to make another call, and no failure is made to happen or
to stop.

## 4. Proofs

`SmrawHandleProofs` proves, for every set of names and values, every bound,
every program and every set of faults, that the handle has its type
(`TypeCorrect`), `SessionStateCorrect`, `ClosedCorrect`, `ClosedCanOpen`,
`LayoutCorrect`, `InformationFileCorrect` and `ReadersCorrect`. The assumptions are
`HandleAssumptions`, `NoNameAssumption` and `NameLimitAssumption`, which TLC
evaluates in the runs.

The argument. The type and the invariants together are not inductive, for three
reasons. `Initialize` makes a handle without a pool, and keeps `session`; that
the two agree needs `FreedHasNoSession`: a handle that was freed has no session.
What a closed handle has in its io handle must be what was chosen since; that an open
leaves nothing chosen (`SessionClearsChoice`) makes what close sets, the cleared io
handle, that. And `ReadersNeverWrite` depends on how
the flag that writes the information file came to be set, perhaps sessions ago, which
`OnlyWritersWriteInformation` remembers: the open session is in a mode of the program,
and only a program with a mode that writes has the flag. `IInv` is the conjunction of
these with the type and the five invariants. `NextType` proves the type first, action
by action, so that the rest can use it; `StepIInv` then shows action by action that
the others are kept. `LayoutIsFrozen`
carries its own strengthening: that a layout is only ever fixed while there is a
pool is what lets an open, which requires that there is none, set the sizes.
`ReadersNeverWrite` follows from `IInv`: the only steps that change the disk are a
write in a session opened for writing, and a close or free with the flag set.

`OpenHandleCanClose` is proved for programs of which `ToolUse` holds
(`ToolsCanClose`): each opens its handle for reading or for writing, brings no pool,
and an information file that could be opened can be read and written. `ToolInv`,
inductive with `IInv`, adds that no information file stays open; that one that close
has to write still has its name follows from the flag being set only by a program that
never reads. `ClosedHandleCanOpen` needs none of this: it names what an open that
failed at the information file leaves behind as the one reason to refuse an open.

`SegmentLayoutProofs` proves for all sizes that the announced number of segments
holds the media and that one less does not (`SegmentsHoldTheMedia`), so that the
name which `libsmraw_filename_create` gives out beyond the number (it accepts an
index *equal* to it) is never needed; and that two segments never get one name as
long as their indices are below 20800 (`SuffixesDiffer`). Up to 999 an index has
three digits; from there on the first of the three characters is counted up past
'9', and at 20800 it would be the end of the string.

`SegmentStreamProofs` proves all the invariants of `SegmentStream` and that it
implements `LinearMedia`, for every media size, segment size, split of the media into
calls, and every set of failures. The assumptions are `StreamAssumptions` and
`FewSegments`: the media is bounded so that no image has more segments than three
characters number.

First the segments, with `SegmentsHaveFilesAlways` and `FullButTheLastAlways`.
Neither property is inductive. That no two segments share a file follows from how
each file is *named*: the inductive invariant says that the files are named after
the indices of the segments and by one number of segments (`SegmentsInRow`), which
`NumberFixed` keeps from changing once there is a segment. That there are not more
segments than announced depends on the write in progress ending within the media
(`CallFits`) and on the offset not being beyond the data (`Filled`): a segment is
only created at the end of the last one, so that one is full, and the media, which
has room for more, needs one more (`RoomForSegment`, with the arithmetic of
`NumberOfSegments`). `Filled` in turn says that all segments but the last are full
in the session that writes; to keep it, data written to one file must not change
another, which is what `SegmentsInRow` gives. `FilesOnDisk`, no file but those of
the segments, is what makes the files found by `Reopen` a session's own; the
session that reads keeps `ReadInv`, that a segment is as large as its file. `IInv`
joins the two. Each step of a write has a lemma (`CreateSegmentStep`,
`WriteSegmentDataStep`, ...), with one step per part of the invariant.

Then the bytes. `Media` is what the files hold one after the other; `MediaInv` adds to
`IInv` that a session that reads has in its segments all of that, and where in it a
read under way is. With the lemmas on flattened sequences, a step of a write appends
to the media or leaves it, and a step of a read delivers the bytes at the offset:
`ReadsAreExactAlways`, `TypeOKAlways`, and the refinement, `MediaIsLinearAlways`, in
which every action of the detailed specification is a step of `LinearMedia` or leaves
its variables alone. `FilenameOfOffsetAlways` has the hypothesis `PoolOpens`, that
every file put into the pool can be opened, as in the run `stream_calls`; without it
the property is refuted by `stream_filename`, and what fails is `PoolInOrder`, that
the files of the pool are those of the segments in their order.

`InformationFileProofs` proves `TypeOK`, `LastSetIsFound`, `NothingInvented` and
`ReadBack`, for any identifiers, texts, sizes of the line buffer and numbers of
sessions, from
`InformationFileAssumptions`. `LatestInv` is the inductive form of `LastSetIsFound`:
the *first* value of an identifier with its end-of-string character has the text that
was set last. A value that was read has none, so reading any number of them keeps it
(`OthersAreFound`, and for all that were read `KeepsAllFacts`).

`NothingInvented` says where values come from, and needs to know of the file how it was
written. `IsReadable` says so of the text: the tags of sections start lines
(`Structured`), and whatever opens a value between the tags of a section was written
from that section's table, up to the end of its text or to where the file ends
(`Explained`). It holds of what a close writes, to its end or to anywhere in a line
(`WrittenIsReadable`), and of every beginning of a file (`BeginningIsReadable`), which
is what a read that fails has seen. `SectionRead` follows the parser over the lines
and shows that it gives only values of the table, whole or, if the text had a tag or
the line did not fit the buffer, cut short. The theorem has the hypothesis `NoOpenTags`,
that no text has an opening tag, and it is needed: where a line is longer than the
buffer, what comes after is read as a line of its own, and a text with `<a>x</a>` at
that place makes a value `a` that nobody set. The library writes texts as they are. The
texts of the run have closing tags only.

`ReadBack` is the converse, that the parser misses no line that fits its buffer, and has
the same hypothesis: a value out of the middle of another's text may come after the last
one. A file that is whole has the section of each table, the first of its name
(`WholeInv`). `LastWrittenIsRead` finds in it the line of the last value of an
identifier and shows that no token behind it opens one of that identifier; `LastIsRead`
then goes through the lines backwards (`LineByLine`, an induction over the offsets at
which lines end): at the section's end nothing is read, up to the line nothing of that
identifier, on the line the value (`LineIsRead`), and nothing before it changes which is
the last. It speaks of the identifiers in `Readable`, those of letters, digits and
underscores: of others the parser gives no value (`ReadValues`), whatever was written. What is read goes into an empty table, where each identifier is kept once,
with the text of the last (`KeptOnce`).

`FoldLemmas` makes statements on sums and flattened sequences of any length provable. A
fold of the community modules is a recursive function over the sets of indices.
`Induction` is derived from the order of the numbers being well-founded; with it
`FoldExists` shows that such a function exists, `SumIsEnd` and `FlattenParts` what it
computes, and `FlattenUnique` that no other sequence does. The parser of
`InformationFile` gets the same treatment, on what is left of the file
(`ReaderExists`), and so does the fold over the values that were read
(`KeepsAllSteps`).

`VerificationProofs` proves all the invariants of `Verification`, for any
directories, arguments, sizes of buffers and hashes (from `VerificationAssumptions`).
For all but the last, what glob computes is not needed, only that what is opened are
files of the directory. `PrintedIsWhole` says what was printed and not why: the inductive
invariant adds that what is hashed and what is in the buffer are together the bytes
counted (`HashedIsCounted`, with the lemma `ReadFits` on consecutive parts of a
sequence), that hashes are finalized at the end of the media or after an abort
(`FinalizedAtEnd`), and that an abort does not go away before they are printed.
`ResultTold` ties the result, the log and the exit code together, `Held` says at which
steps what is held, and `LateReads` that a buffer read after the abort leaves main
where it will see it.

`GlobAlwaysFindsTheSet` is about the numbers in the names, counted in any base of at
least three digits and two letters (`SegmentGlobAssumptions`). `Opened` is its
invariant: what is opened is what a glob found. The rest is what counting computes.
`CountedTo` says what counting knows when it is at a number: how many digits the number
is written with, the maximum that holds for now, how many digits may still be added,
and whether one is added next. `NextFound` shows that a round takes it to the next
number if that is within the `Capacity` and its file is there, and ends it otherwise:
across the limits of one and two digits (`NextExpanded`), and at the last
(`LimitReached`). `CountsUpTo` is the induction over the rounds, and `CountedUpIs` that
the recursive function they are defined by exists; `PowerSteps` is the same of powers.
The hypothesis is `WellNumbered`, and the run checks that its directories have it: the
n of a set x of n is a number that x has room for: of `01of100` the code would look for
`00of100` after `99of100`, and a number of one digit gets two more at most.

`MountProofs` proves all the invariants of `Mount` for any number of threads, open
files and entries and any media (from `MountAssumptions`). At the heart of `IInv` is
`Distinct`: what a file or a callback has is allocated and is no other's. With it
freeing what a callback has takes nothing from another; `Covered` is the other half,
that nothing is left which nobody has. `Shaped` says what each callback has at each
step, `AllListed` that a listing is at the handle its index says, `AllExact` that
under FUSE a read takes its bytes at the offset it sought. `OneAtATime`, that FUSE is in
one callback at a time, is why no other callback moves the offset between the two steps.
It gives `FuseReadsAreExact`: what `mount_race` refutes for Dokan holds under FUSE, also
where the handle gives less than was asked for.

`PythonHandleProofs` proves all the invariants of `PythonHandle` for any threads, file
objects and sizes, from its assumptions (the list of files is not empty: an open without
files is refused at `libsmraw_handle.c:1505`). The first is that the handle's lock is
held by the one thread that is reading, and that no thread is in the library with the
interpreter lock (`ReadsExcludeEachOther`); with it, `PoolAlwaysOutlivesItsUse`: an open
handle has a live pool unless an open was refused, and who reads has an open handle.
`BytesInv` then says where a read under way is: at the offset of the handle, unless
another thread sought since; the file object it reads from is where this thread put it,
since the lock keeps other reads away; and what reads alone took out of the files is the
media up to the offset (`TakenFits`). `Roomy` relates what a read is clamped to with what
was asked for: they are equal, or the media ends there. Bytes that
were taken and not given to a caller are lost to a read that raised after it had taken
some, and `LossInv` says that there are none unless a file object raised. `ReadAtOffsetIsExact`, `EachByteIsReadOnce` and
`TypeOKAlways` follow.

So every invariant and action property of the runs that pass is proved, some under the
hypotheses named above (`ToolUse`, `FewSegments`, `PoolOpens`, `NoOpenTags`,
`WellNumbered`). Out of the prover's reach and left to TLC: `CallsReturn` (of both),
`Ends` and `CallbacksReturn` (liveness under fairness, which needs ENABLED).

## 5. Not modelled

* The bytes and code pages of values, the flags of `get_media_flags` (a conversion
  that keeps no state), and `set_maximum_number_of_open_handles`.
* The inside of libfvalue, libfdata, libbfio and libcthreads: modelled from their use.
* Writing to one handle from several threads: no tool or binding does so.
* `abort`: `libsmraw_handle_signal_abort` sets a flag that the library never reads.
* Wide character variants: the same control flow as the narrow ones.
* Of `smrawmount`: the times and modes of files, `GetVolumeInformation`, setting up
  the drivers, and the signal handler (which sets the flag above).
* Of the tools: options, progress and the layout of what is printed.
* Of pysmraw: accessors of values and the conversion of objects; opening by names and
  writing, which pass their arguments on.
* smraw.net, error strings and notifications: wrappers without logic of their own.

## 6. Plan

1. *(done)* `SegmentLayout`, `SmrawHandle`, `SegmentStream` over `LinearMedia`.
2. *(done)* `InformationFile`: the parser, what is written and what is read back.
3. *(done)* `SegmentGlob`, composed with `Verification`.
4. *(done)* `Mount` and `PythonHandle`: several threads on one handle.
5. *(done)* Proofs of the handle (with the programs of `handle_tools`), the segment
   files with the refinement of `LinearMedia`, `InformationFile`,
   `Verification` with `SegmentGlob`, `Mount` and `PythonHandle`.
6. Left: opening and closing a Python handle that another thread is in; the media
   flags; writing from several threads, should a tool come to do so.
