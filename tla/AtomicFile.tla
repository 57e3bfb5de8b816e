------------------------------ MODULE AtomicFile ------------------------------
(***************************************************************************)
(* One protocol file (state.toml, needs.toml, resolved.toml, ...) written  *)
(* by atomic_write and read by safe_read_toml (forge-core/src/atomic.rs),  *)
(* at the grain of the system calls they make:                             *)
(*                                                                         *)
(*   fs::write(tmp)  = open with create and truncate, then one write       *)
(*   fs::rename      = give the file's name to whatever tmp names          *)
(*   read_to_string  = open, then one read                                 *)
(*                                                                         *)
(* The temporary name is path.with_extension("tmp"): all writers of one    *)
(* file share it.  An inode outlives its name for the threads that have it *)
(* open.  Contents are versions, numbered as the writers produce them; a   *)
(* content that is no version is Empty (truncated, not yet written) or     *)
(* Garbled (a short write over a longer one), and does not parse.          *)
(***************************************************************************)
EXTENDS Integers

CONSTANTS
  Writers,     \* threads and processes that write the file
  Readers,     \* those that read it
  Inodes,      \* inodes of the file system
  NoInode,     \* a name that names nothing, a thread with nothing open
  MaxVersion   \* bound: versions written in one behaviour

ASSUME FileAssumption == NoInode \notin Inodes /\ MaxVersion \in Nat

\* True of needs, provides, resolved, tasks and escalated.toml; not of state.toml.
SingleWriter == \A a, b \in Writers : a = b

Empty   == -1
Garbled == -2

VARIABLES
  path,     \* the inode file.toml names
  tmp,      \* the inode file.tmp names
  data,     \* the contents of each inode
  pc, fd,   \* per writer: its place in atomic_write and the inode it has open
  val,      \* per writer: the version it is writing
  version,  \* versions produced so far
  rfd,      \* per reader: the inode it has open
  out,      \* per reader: what it read last, 0 before its first read
  failed    \* has a rename returned an error?

fileVars == <<path, tmp, data, pc, fd, val, version, rfd, out, failed>>
readerVars == <<rfd, out>>

\* An inode nobody names and nobody has open.
Free(i) ==
  /\ i \notin {path, tmp}
  /\ \A w \in Writers : fd[w] # i
  /\ \A r \in Readers : rfd[r] # i

FileInit ==
  /\ path = NoInode /\ tmp = NoInode
  /\ data \in [Inodes -> {Empty}]
  /\ pc = [w \in Writers |-> "idle"]
  /\ fd = [w \in Writers |-> NoInode]
  /\ val = [w \in Writers |-> 0]
  /\ version = 0
  /\ rfd = [r \in Readers |-> NoInode]
  /\ out = [r \in Readers |-> 0]
  /\ failed = FALSE

-------------------------------------------------------------------------------
\* atomic_write

\* Seeded fault: the content goes straight to file.toml, without tmp.
OpenInPlace(w) ==
  /\ pc[w] = "idle" /\ version < MaxVersion
  /\ \E i \in Inodes :
       /\ IF path = NoInode THEN Free(i) ELSE i = path
       /\ fd' = [fd EXCEPT ![w] = i]
       /\ tmp' = i
       /\ data' = [data EXCEPT ![i] = Empty]
  /\ version' = version + 1
  /\ val' = [val EXCEPT ![w] = version + 1]
  /\ pc' = [pc EXCEPT ![w] = "opened"]
  /\ UNCHANGED <<path, failed, readerVars>>

\* Seeded fault: a file.tmp that is there is taken for a finished one.
OpenTmpReusing(w) ==
  /\ pc[w] = "idle" /\ version < MaxVersion
  /\ IF tmp = NoInode
     THEN \E i \in Inodes :
            /\ Free(i)
            /\ fd' = [fd EXCEPT ![w] = i]
            /\ tmp' = i
            /\ data' = [data EXCEPT ![i] = Empty]
            /\ pc' = [pc EXCEPT ![w] = "opened"]
     ELSE pc' = [pc EXCEPT ![w] = "written"] /\ UNCHANGED <<fd, tmp, data>>
  /\ version' = version + 1
  /\ val' = [val EXCEPT ![w] = version + 1]
  /\ UNCHANGED <<path, failed, readerVars>>

OpenTmp(w) ==
  /\ pc[w] = "idle" /\ version < MaxVersion
  /\ \E i \in Inodes :
       /\ IF tmp = NoInode THEN Free(i) ELSE i = tmp
       /\ fd' = [fd EXCEPT ![w] = i]
       /\ tmp' = i
       /\ data' = [data EXCEPT ![i] = Empty]
  /\ version' = version + 1
  /\ val' = [val EXCEPT ![w] = version + 1]
  /\ pc' = [pc EXCEPT ![w] = "opened"]
  /\ UNCHANGED <<path, failed, readerVars>>

\* Seeded fault: the file is not closed after the write.
WriteTmpUnclosed(w) ==
  /\ pc[w] = "opened"
  /\ data' = [data EXCEPT ![fd[w]] = val[w]]
  /\ pc' = [pc EXCEPT ![w] = "written"]
  /\ UNCHANGED <<path, tmp, fd, val, version, failed, readerVars>>

\* The write starts at the beginning of the file: what another writer left
\* there stays behind it if that was longer.
WriteTmp(w) ==
  /\ pc[w] = "opened"
  /\ \E content \in IF data[fd[w]] = Empty THEN {val[w]} ELSE {val[w], Garbled} :
       data' = [data EXCEPT ![fd[w]] = content]
  /\ fd' = [fd EXCEPT ![w] = NoInode]
  /\ pc' = [pc EXCEPT ![w] = "written"]
  /\ UNCHANGED <<path, tmp, val, version, failed, readerVars>>

\* rename fails when the name is gone: another writer has renamed it away.
Rename(w) ==
  /\ pc[w] = "written"
  /\ IF tmp = NoInode
     THEN failed' = TRUE /\ UNCHANGED <<path, tmp>>
     ELSE path' = tmp /\ tmp' = NoInode /\ UNCHANGED failed
  /\ pc' = [pc EXCEPT ![w] = "idle"]
  /\ UNCHANGED <<data, fd, val, version, readerVars>>

\* The writer is killed: file.tmp stays as it is.
Crash(w) ==
  /\ pc[w] # "idle"
  /\ pc' = [pc EXCEPT ![w] = "idle"]
  /\ fd' = [fd EXCEPT ![w] = NoInode]
  /\ UNCHANGED <<path, tmp, data, val, version, failed, readerVars>>

-------------------------------------------------------------------------------
\* safe_read_toml, and the load functions

ReadOpen(r) ==
  /\ rfd[r] = NoInode
  /\ path # NoInode
  /\ rfd' = [rfd EXCEPT ![r] = path]
  /\ UNCHANGED <<path, tmp, data, pc, fd, val, version, out, failed>>

ReadData(r) ==
  /\ rfd[r] # NoInode
  /\ out' = [out EXCEPT ![r] = data[rfd[r]]]
  /\ rfd' = [rfd EXCEPT ![r] = NoInode]
  /\ UNCHANGED <<path, tmp, data, pc, fd, val, version, failed>>

-------------------------------------------------------------------------------
WriterStep(w) == OpenTmp(w) \/ WriteTmp(w) \/ Rename(w) \/ Crash(w)
ReaderStep(r) == ReadOpen(r) \/ ReadData(r)

FileNext ==
  \/ \E w \in Writers : WriterStep(w)
  \/ \E r \in Readers : ReaderStep(r)

FileSpec == FileInit /\ [][FileNext]_fileVars

-------------------------------------------------------------------------------
\* Type invariant; a file is open exactly between open and close.
FileTypeOK ==
  /\ path \in Inodes \union {NoInode} /\ tmp \in Inodes \union {NoInode}
  /\ version \in Nat
  /\ data \in [Inodes -> Int]
  /\ pc \in [Writers -> {"idle", "opened", "written"}]
  /\ fd \in [Writers -> Inodes \union {NoInode}]
  /\ \A w \in Writers : pc[w] = "opened" <=> fd[w] # NoInode
  /\ val \in [Writers -> 0 .. version]
  /\ rfd \in [Readers -> Inodes \union {NoInode}]
  /\ out \in [Readers -> Int]
  /\ failed \in BOOLEAN

\* No reader ever gets a file that is not one whole version (atomic_write:
\* "crash-safe writes"), and no write fails because its temporary file is gone.
NeverTorn ==
  /\ path # NoInode => data[path] \in 1 .. version
  /\ \A r \in Readers : out[r] \in 0 .. version
  /\ ~failed

\* A reader that saw a version never sees an older one: so it is of any register of
\* AtomicRegister.
ReadsNeverGoBack ==
  [][\A r \in Readers : out'[r] >= out[r]]_fileVars

\* The file implements the register of AtomicRegister.
Content(i) == IF i = NoInode THEN 0 ELSE data[i]

Register == INSTANCE AtomicRegister
              WITH reg <- Content(path),
                   latch <- [r \in Readers |-> Content(rfd[r])]

ImplementsRegister == Register!RegisterSpec
===============================================================================
