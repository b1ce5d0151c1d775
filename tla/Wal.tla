---------------------------------- MODULE Wal ----------------------------------
(***************************************************************************)
(* The write-ahead log of server/wal.rs: numbered files of a fixed size,   *)
(* mapped into memory, entries written one after the other, the end found  *)
(* by the zero bytes after the last entry.  With init_wal of               *)
(* server/server.rs, which replays the files when the server starts, and   *)
(* with crashes of the server at any time, in the middle of a write or of  *)
(* a rotation included.                                                    *)
(*                                                                         *)
(* Memory is cells of some number of bytes: what entry a cell belongs to   *)
(* and which part of it, instead of its bits.                              *)
(***************************************************************************)
EXTENDS Integers, Sequences, FiniteSets, SequencesExt

CONSTANTS
    FileSize,   \* cells of a file (10 MiB in init_wal)
    TagSize,    \* cells of the tag that says which message an entry is
    Kinds,      \* the messages that are logged: NewOrder, CancelOrder
    EntrySize,  \* cells that a message of each kind takes
    SymbolEnd,  \* the first of them that replay needs to know its symbol (CancelOrder: 0)
    MaxEntries, \* bound: messages the sessions submit
    LastIndex   \* bound: the highest file number

ASSUME SizesAssumption ==
    /\ FileSize \in Nat \ {0} /\ TagSize \in Nat \ {0}
    /\ EntrySize \in [Kinds -> Nat]
    /\ \A kind \in Kinds : EntrySize[kind] > TagSize /\ EntrySize[kind] <= FileSize
    /\ SymbolEnd \in [Kinds -> Nat]
    /\ \A kind \in Kinds : SymbolEnd[kind] <= EntrySize[kind]
    \* bincode's fixed-width encoding: 44 and 20 bytes, a tag of 4, files of 10 MiB
    /\ \A n \in {EntrySize[kind] : kind \in Kinds} \cup {FileSize} : n % TagSize = 0
    /\ MaxEntries \in Nat /\ LastIndex \in Nat

Entry == [id : 1 .. MaxEntries, kind : Kinds]
\* A tag whose entry is not all there: its symbol is, or (-1) is not.
Torn == [id : {0, -1}, kind : Kinds]
Indexes == 0 .. LastIndex
Offsets == 0 .. FileSize - 1
Zero == [id |-> 0, part |-> 0, tag |-> "zero"]
Absent == [len |-> -1, mem |-> <<>>]

VARIABLES
    files,     \* the directory: per number, the file's length and contents
    wal,       \* struct Wal: the open file, its cursor, and where to rotate to
    running,   \* the server process is up
    failed,    \* the last start panicked in replay
    submitted, \* history: how many messages have been handed to write_entry
    acked      \* history: the entries write_entry has returned Ok for

vars == <<files, wal, running, failed, submitted, acked>>

------------------------------------------------------------------------------
\* Reading

\* The cells of an entry.
Part(e, n) == [id |-> e.id, part |-> n, tag |-> e.kind]

\* A message deserializes here: the first cell of an entry that the file has room
\* for.  A cell of no message's first part is what no tag is.
EntryBegins(mem, cursor) == /\ mem[cursor] # Zero
                            /\ mem[cursor].part = 0
                            /\ cursor + EntrySize[mem[cursor].tag] <= FileSize

\* Which message, if all of it is there.
EntryAt(mem, cursor) ==
    LET cell     == mem[cursor]
        There(n) == \A k \in 0 .. n - 1 :
                       mem[cursor + k] = [id |-> cell.id, part |-> k, tag |-> cell.tag]
    IN  [id |-> IF There(EntrySize[cell.tag]) THEN cell.id
                ELSE IF There(SymbolEnd[cell.tag]) THEN 0 ELSE -1,
         kind |-> cell.tag]

\* advance_entry, from each cursor on, until it returns None or an error: the
\* entries, the cursor where it stopped and whether that was the end.  A rest too
\* short for a tag is an error.
ReadFrom(mem) ==
    LET read[cursor \in 0 .. FileSize] ==
            IF cursor < FileSize /\ EntryBegins(mem, cursor)
            THEN LET rest == read[cursor + EntrySize[mem[cursor].tag]]
                 IN  [entries |-> <<EntryAt(mem, cursor)>> \o rest.entries,
                      end |-> rest.end, ok |-> rest.ok]
            ELSE [entries |-> <<>>, end |-> cursor,
                  ok |-> \/ cursor = FileSize
                         \/ cursor + TagSize <= FileSize /\ mem[cursor] = Zero]
    IN  read

\* A file of length 0 cannot be mapped.
Openable(f) == f.len > 0
Read(f) == IF Openable(f) THEN ReadFrom(f.mem)[0]
           ELSE [entries |-> <<>>, end |-> 0, ok |-> FALSE]

Existing == {i \in Indexes : files[i] # Absent}
LastFile == CHOOSE i \in Existing : \A j \in Existing : j <= i

\* Fault: the files are not sorted.
LogUnsorted == FlattenSeq([n \in 1 .. LastIndex + 1 |->
                  IF LastIndex + 1 - n \in Existing
                  THEN Read(files[LastIndex + 1 - n]).entries ELSE <<>>])

\* What WalDirectoryReader yields: the files' entries in the order of their
\* numbers.
Log == FlattenSeq([n \in 1 .. LastIndex + 1 |->
                     IF n - 1 \in Existing THEN Read(files[n - 1]).entries ELSE <<>>])

\* SingleRouter::replay_message returns Ok: a CancelOrder, or the symbol is known.
Routable(entry) == entry.id >= 0

\* Fault: what replay_message returns is not looked at.
ReplayableUnheeded == \A i \in Existing : Read(files[i]).ok

\* init_wal unwraps what it reads, and what becomes of it.
Replayable == \A i \in Existing :
    LET read == Read(files[i])
    IN  read.ok /\ \A n \in DOMAIN read.entries : Routable(read.entries[n])

------------------------------------------------------------------------------
\* Writing

NewFile == [len |-> FileSize, mem |-> [o \in Offsets |-> Zero]]
Unsized == [len |-> 0, mem |-> [o \in Offsets |-> Zero]]    \* before set_len

\* next_file: the first number from start on that no file has.
NextIndex(start) == CHOOSE i \in Indexes :
    /\ i >= start /\ i \notin Existing
    /\ \A j \in start .. i - 1 : j \in Existing
CanCreate(start) == \E i \in Indexes : i >= start /\ i \notin Existing

\* Fault: one cell too many is copied.
WriteTooMuch(mem, cursor, e, n) ==
    [o \in Offsets |-> IF o \in cursor .. cursor + n THEN Part(e, o - cursor) ELSE mem[o]]

\* The first n cells of e, at the cursor.
Write(mem, cursor, e, n) ==
    [o \in Offsets |-> IF o \in cursor .. cursor + n - 1 THEN Part(e, o - cursor) ELSE mem[o]]

\* Fault: the tag is not counted.
FitsWithoutTag(e) == EntrySize[e.kind] - TagSize <= FileSize - wal.cursor

\* serialize's bound: the room left in the file.
Fits(e) == EntrySize[e.kind] <= FileSize - wal.cursor

Closed == [file |-> -1, cursor |-> 0, index |-> 0]

Init ==
    /\ files = [i \in Indexes |-> Absent]
    /\ wal = Closed
    /\ running = FALSE
    /\ failed = FALSE
    /\ submitted = 0
    /\ acked = <<>>

\* Fault: the last file is opened and written from its beginning.
StartAtFront ==
    /\ ~running /\ ~failed
    /\ Replayable
    /\ running' = TRUE
    /\ IF Existing # {}
       THEN /\ wal' = [file |-> LastFile, cursor |-> 0, index |-> LastFile]
            /\ UNCHANGED files
       ELSE /\ wal' = [file |-> 0, cursor |-> 0, index |-> 1]
            /\ files' = [files EXCEPT ![0] = NewFile]
    /\ UNCHANGED <<failed, submitted, acked>>

\* init_wal: every entry of every file is replayed, and Wal::new opens the last
\* file behind its last entry, or the first file there is.
Start ==
    /\ ~running /\ ~failed
    /\ Replayable
    /\ running' = TRUE
    /\ IF Existing # {}
       THEN /\ wal' = [file |-> LastFile, cursor |-> Read(files[LastFile]).end,
                       index |-> LastFile]
            /\ UNCHANGED files
       ELSE /\ wal' = [file |-> 0, cursor |-> 0, index |-> 1]
            /\ files' = [files EXCEPT ![0] = NewFile]
    /\ UNCHANGED <<failed, submitted, acked>>

\* init_wal panics on the first entry that it cannot read or that replay_message
\* refuses, on this start and all later.
FailedStart ==
    /\ ~running /\ ~failed
    /\ ~Replayable
    /\ failed' = TRUE
    /\ UNCHANGED <<files, wal, running, submitted, acked>>

NextEntry(kind) == [id |-> submitted + 1, kind |-> kind]

\* Wal::write_entry, in the open file ...
WriteEntry(kind) ==
    LET e == NextEntry(kind)
    IN  /\ running /\ submitted < MaxEntries
        /\ Fits(e)
        /\ files' = [files EXCEPT ![wal.file].mem =
                        Write(@, wal.cursor, e, EntrySize[kind])]
        /\ wal' = [wal EXCEPT !.cursor = @ + EntrySize[kind]]
        /\ submitted' = submitted + 1
        /\ acked' = Append(acked, e)
        /\ UNCHANGED <<running, failed>>

\* Fault: the cursor stays where it was in the file before.
RotateWithOldCursor(kind) ==
    LET e    == NextEntry(kind)
        next == NextIndex(wal.index)
    IN  /\ running /\ submitted < MaxEntries
        /\ ~Fits(e) /\ CanCreate(wal.index)
        /\ files' = [files EXCEPT ![next] =
                        [NewFile EXCEPT !.mem = Write(@, 0, e, EntrySize[kind])]]
        /\ wal' = [wal EXCEPT !.file = next, !.index = next + 1]
        /\ submitted' = submitted + 1
        /\ acked' = Append(acked, e)
        /\ UNCHANGED <<running, failed>>

\* ... or, when that is full, in the next.
RotateAndWrite(kind) ==
    LET e    == NextEntry(kind)
        next == NextIndex(wal.index)
    IN  /\ running /\ submitted < MaxEntries
        /\ ~Fits(e) /\ CanCreate(wal.index)
        /\ files' = [files EXCEPT ![next] =
                        [NewFile EXCEPT !.mem = Write(@, 0, e, EntrySize[kind])]]
        /\ wal' = [file |-> next, cursor |-> EntrySize[kind], index |-> next + 1]
        /\ submitted' = submitted + 1
        /\ acked' = Append(acked, e)
        /\ UNCHANGED <<running, failed>>

\* The process ends between two calls.
Crash ==
    /\ running
    /\ running' = FALSE
    /\ wal' = Closed
    /\ UNCHANGED <<files, failed, submitted, acked>>

\* It ends within write_entry's copy, or after it and before the answer: the
\* mapped pages keep what has been copied.
CrashInWrite(kind) ==
    LET e == NextEntry(kind)
    IN  /\ running /\ submitted < MaxEntries
        /\ Fits(e)
        /\ \E n \in 1 .. EntrySize[kind] :
              files' = [files EXCEPT ![wal.file].mem = Write(@, wal.cursor, e, n)]
        /\ submitted' = submitted + 1
        /\ running' = FALSE
        /\ wal' = Closed
        /\ UNCHANGED <<failed, acked>>

\* It ends in open_impl, before or after the new file has got its length.
CrashInCreate ==
    LET start == IF running THEN wal.index ELSE 0
    IN  /\ ~failed
        /\ \/ running /\ submitted < MaxEntries /\ \E kind \in Kinds : ~Fits(NextEntry(kind))
           \/ ~running /\ Existing = {}
        /\ CanCreate(start)
        /\ \E f \in {Unsized, NewFile} : files' = [files EXCEPT ![NextIndex(start)] = f]
        /\ running' = FALSE
        /\ wal' = Closed
        /\ UNCHANGED <<failed, submitted, acked>>

Next ==
    \/ Start \/ FailedStart \/ Crash \/ CrashInCreate
    \/ \E kind \in Kinds : WriteEntry(kind) \/ RotateAndWrite(kind) \/ CrashInWrite(kind)

Spec == Init /\ [][Next]_vars

------------------------------------------------------------------------------
\* Correctness

TypeOK ==
    /\ \A i \in Existing :
          /\ files[i].len \in {0, FileSize}
          /\ \A o \in Offsets : files[i].mem[o] = Zero
               \/ \E e \in Entry : \E n \in 0 .. EntrySize[e.kind] - 1 :
                     files[i].mem[o] = Part(e, n)
    /\ wal \in [file : Indexes \cup {-1}, cursor : 0 .. FileSize, index : 0 .. LastIndex + 1]
    /\ running \in BOOLEAN /\ failed \in BOOLEAN
    /\ submitted \in 0 .. MaxEntries
    /\ acked \in Seq(Entry)

\* What write_entry has returned Ok for is on disk, once and in that order, at
\* every moment, through crashes at any point, restarts and rotations.
AckedSurvive ==
    LET log == Log
    IN  \E at \in [DOMAIN acked -> DOMAIN log] :
           /\ \A m, n \in DOMAIN acked : m < n => at[m] < at[n]
           /\ \A n \in DOMAIN acked : log[at[n]] = acked[n]
           /\ \A i \in DOMAIN log : log[i] \in ToSet(acked) => \E n \in DOMAIN acked : at[n] = i

\* The files are a log: what can be read of them only grows, one entry by one
\* step, in the order the entries were submitted and each at most once; an answer
\* is given for what has just been appended; and of a write that a crash has cut
\* in two nothing can be read, or one torn entry at the end.
DurableLog == INSTANCE DurableLog WITH log <- Log, Messages <- Entry, Junk <- Torn
ImplementsLog == DurableLog!Spec

\* What can keep the server from starting is at the very end of the log and was
\* left there by a crash: a last file without its length, or a last entry that was
\* cut before its symbol.  The zero bytes behind the last entry always read as the
\* end, no rest is too short to hold a tag, and a server that runs has nothing
\* behind it that a later start would refuse.
BlockedAtEnd == \A i \in Existing :
    LET read == Read(files[i])
    IN  /\ IF Openable(files[i]) THEN read.ok ELSE ~running /\ i = LastFile
        /\ \A n \in DOMAIN read.entries :
              ~Routable(read.entries[n]) => ~running /\ i = LastFile /\ n = Len(read.entries)

\* The writer appends: its cursor is where a reader of its file stops, nothing
\* but zeros follow, and no file comes after its own.
WriterAtEnd ==
    running => /\ wal.file = LastFile
               /\ wal.cursor = Read(files[wal.file]).end
               /\ \A o \in wal.cursor .. FileSize - 1 : files[wal.file].mem[o] = Zero

\* advance_entry's test for the end "will match zeroed out memory and tell us
\* where to stop reading": whatever it does read is an entry that was written.
OnlyWholeEntries == \A n \in DOMAIN Log : Log[n].id > 0
==============================================================================
