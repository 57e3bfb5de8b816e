--------------------------- MODULE AtomicFileProofs ----------------------------
(***************************************************************************)
(* Proofs about AtomicFile: with one writer, and any number of readers,    *)
(* inodes and versions, a file written by atomic_write is never torn and   *)
(* never goes back, wherever the writer is killed.  AtomicFile_two.cfg is  *)
(* the counterexample with two writers.                                    *)
(***************************************************************************)
EXTENDS AtomicFile, TLAPS

\* file.tmp is nobody's but the writer's: not the file, not open for reading.
TmpIsPrivate ==
  tmp # NoInode => tmp # path /\ \A r \in Readers : rfd[r] # tmp

\* The writer is always about to make the file newer than it is.
WriterAhead ==
  \A w \in Writers :
    /\ pc[w] # "idle" => /\ tmp # NoInode
                         /\ val[w] = version
                         /\ Content(path) < version
    /\ pc[w] = "opened" => fd[w] = tmp /\ data[tmp] = Empty
    /\ pc[w] = "written" => data[tmp] = val[w]

\* Whatever can be read is a whole version, and not older than what was read.
ReadersWhole ==
  /\ path # NoInode => data[path] \in 1 .. version
  /\ \A r \in Readers :
       /\ out[r] \in 0 .. version
       /\ out[r] <= Content(path)
       /\ rfd[r] # NoInode => /\ path # NoInode
                              /\ data[rfd[r]] \in 1 .. version
                              /\ out[r] <= data[rfd[r]]
                              /\ data[rfd[r]] <= data[path]

\* The inductive invariant.  NeverTorn alone is not: it does not say why the
\* inode a rename puts in place is complete, nor why no reader has it open.
Inv == FileTypeOK /\ ~failed /\ TmpIsPrivate /\ WriterAhead /\ ReadersWhole

-------------------------------------------------------------------------------
LEMMA TypeInit == FileInit => FileTypeOK
<1> SUFFICES ASSUME FileInit PROVE FileTypeOK
  OBVIOUS
<1> USE FileAssumption DEF FileInit
<1>1. Empty \in Int
  BY DEF Empty
<1>2. data \in [Inodes -> Int]
  BY <1>1
<1>3. \A w \in Writers : pc[w] = "opened" <=> fd[w] # NoInode
  OBVIOUS
<1>4. /\ path \in Inodes \union {NoInode} /\ tmp \in Inodes \union {NoInode}
      /\ pc \in [Writers -> {"idle", "opened", "written"}]
      /\ fd \in [Writers -> Inodes \union {NoInode}]
      /\ rfd \in [Readers -> Inodes \union {NoInode}]
      /\ failed \in BOOLEAN
  OBVIOUS
<1>5. version \in Nat /\ 0 \in 0 .. version
  OBVIOUS
<1>6. val \in [Writers -> 0 .. version] /\ out \in [Readers -> Int]
  BY <1>5
<1> QED
  BY <1>2, <1>3, <1>4, <1>5, <1>6 DEF FileTypeOK

LEMMA TypeNext == FileTypeOK /\ [FileNext]_fileVars => FileTypeOK'
<1> SUFFICES ASSUME FileTypeOK, [FileNext]_fileVars PROVE FileTypeOK'
  OBVIOUS
<1> USE FileAssumption DEF FileTypeOK
<1>1. ASSUME NEW w \in Writers, OpenTmp(w) PROVE FileTypeOK'
  BY <1>1 DEF OpenTmp, readerVars, Empty
<1>2. ASSUME NEW w \in Writers, WriteTmp(w) PROVE FileTypeOK'
  BY <1>2 DEF WriteTmp, readerVars, Garbled
<1>3. ASSUME NEW w \in Writers, Rename(w) PROVE FileTypeOK'
  BY <1>3 DEF Rename, readerVars
<1>4. ASSUME NEW w \in Writers, Crash(w) PROVE FileTypeOK'
  BY <1>4 DEF Crash, readerVars
<1>5. ASSUME NEW r \in Readers, ReadOpen(r) PROVE FileTypeOK'
  BY <1>5 DEF ReadOpen
<1>6. ASSUME NEW r \in Readers, ReadData(r) PROVE FileTypeOK'
  BY <1>6 DEF ReadData
<1>7. CASE UNCHANGED fileVars
  BY <1>7 DEF fileVars, readerVars
<1> QED
  BY <1>1, <1>2, <1>3, <1>4, <1>5, <1>6, <1>7 DEF FileNext, WriterStep, ReaderStep

\* Every reachable state is well typed, with any number of writers.
THEOREM FileTypeCorrect == FileSpec => []FileTypeOK
  BY TypeInit, TypeNext, PTL DEF FileSpec

-------------------------------------------------------------------------------
\* One lemma per action: it preserves the invariant of a file with one writer.

LEMMA InvInit == FileInit => Inv
<1> SUFFICES ASSUME FileInit PROVE Inv
  OBVIOUS
<1>1. FileTypeOK
  BY TypeInit
<1>2. TmpIsPrivate /\ WriterAhead /\ ~failed
  BY FileAssumption DEF FileInit, TmpIsPrivate, WriterAhead
<1>3. ReadersWhole
  BY FileAssumption DEF FileInit, ReadersWhole, Content
<1> QED
  BY <1>1, <1>2, <1>3 DEF Inv

LEMMA OpenTmpInv ==
  ASSUME SingleWriter, Inv, FileTypeOK', NEW w \in Writers, OpenTmp(w)
  PROVE  Inv'
<1>1. PICK i \in Inodes :
        /\ IF tmp = NoInode THEN Free(i) ELSE i = tmp
        /\ fd' = [fd EXCEPT ![w] = i]
        /\ tmp' = i
        /\ data' = [data EXCEPT ![i] = Empty]
  BY DEF OpenTmp
<1>2. /\ pc[w] = "idle" /\ version' = version + 1
      /\ val' = [val EXCEPT ![w] = version + 1]
      /\ pc' = [pc EXCEPT ![w] = "opened"]
      /\ path' = path /\ failed' = failed /\ rfd' = rfd /\ out' = out
  BY DEF OpenTmp, readerVars
<1>3. i # path /\ \A r \in Readers : rfd[r] # i
  BY <1>1 DEF Inv, TmpIsPrivate, Free
<1>4. i # NoInode /\ version \in Nat
  BY FileAssumption DEF Inv, FileTypeOK
<1>5. /\ path # NoInode => data'[path] = data[path]
      /\ \A r \in Readers : rfd[r] # NoInode => data'[rfd[r]] = data[rfd[r]]
      /\ data'[i] = Empty
  BY <1>1, <1>3 DEF Inv, FileTypeOK
<1>6. TmpIsPrivate'
  BY <1>1, <1>2, <1>3 DEF TmpIsPrivate
<1>7. Content(path) < version + 1
  BY <1>4 DEF Inv, ReadersWhole, Content
<1>8. ASSUME NEW v \in Writers
      PROVE  /\ pc'[v] = "opened" /\ val'[v] = version + 1 /\ fd'[v] = i
  <2>1. v = w
    BY DEF SingleWriter
  <2> QED
    BY <1>1, <1>2, <2>1 DEF Inv, FileTypeOK
<1>9. WriterAhead'
  <2>1. Content(path)' = Content(path)
    BY <1>2, <1>5 DEF Content
  <2> QED
    BY <1>1, <1>2, <1>4, <1>5, <1>7, <1>8, <2>1 DEF WriterAhead
<1>10. ReadersWhole'
  BY <1>2, <1>4, <1>5 DEF Inv, ReadersWhole, Content, FileTypeOK
<1> QED
  BY <1>2, <1>6, <1>9, <1>10 DEF Inv

LEMMA WriteTmpInv ==
  ASSUME SingleWriter, Inv, FileTypeOK', NEW w \in Writers, WriteTmp(w)
  PROVE  Inv'
<1>1. /\ pc[w] = "opened" /\ fd[w] = tmp /\ tmp # NoInode /\ data[tmp] = Empty
      /\ tmp \in Inodes /\ fd[w] \in Inodes
  BY DEF WriteTmp, Inv, WriterAhead, FileTypeOK
<1>2. /\ data' = [data EXCEPT ![tmp] = val[w]]
      /\ fd' = [fd EXCEPT ![w] = NoInode]
      /\ pc' = [pc EXCEPT ![w] = "written"]
      /\ path' = path /\ tmp' = tmp /\ val' = val /\ version' = version
      /\ failed' = failed /\ rfd' = rfd /\ out' = out
  BY <1>1 DEF WriteTmp, readerVars
<1>3. /\ path # NoInode => data'[path] = data[path]
      /\ \A r \in Readers : rfd[r] # NoInode => data'[rfd[r]] = data[rfd[r]]
      /\ data'[tmp] = val[w]
  BY <1>1, <1>2 DEF Inv, FileTypeOK, TmpIsPrivate
<1>4. TmpIsPrivate'
  BY <1>2 DEF Inv, TmpIsPrivate
<1>5. WriterAhead'
  <2>1. \A v \in Writers : v = w
    BY DEF SingleWriter
  <2>2. Content(path)' = Content(path)
    BY <1>2, <1>3 DEF Content
  <2>3. pc'[w] = "written" /\ val[w] = version /\ Content(path) < version
    BY <1>1, <1>2 DEF Inv, FileTypeOK, WriterAhead
  <2> QED
    BY <1>1, <1>2, <1>3, <2>1, <2>2, <2>3 DEF WriterAhead
<1>6. ReadersWhole'
  BY <1>2, <1>3 DEF Inv, ReadersWhole, Content
<1> QED
  BY <1>2, <1>4, <1>5, <1>6 DEF Inv

\* What a rename does when the invariant holds: it succeeds, and replaces the
\* content by a newer version.
LEMMA RenameEffect ==
  ASSUME Inv, NEW w \in Writers, Rename(w)
  PROVE  /\ path' = tmp /\ tmp' = NoInode /\ failed' = failed
         /\ tmp \in Inodes /\ data[tmp] = version
         /\ pc' = [pc EXCEPT ![w] = "idle"]
         /\ UNCHANGED <<data, fd, val, version, rfd, out>>
         /\ Content(path) < version /\ Content(path)' = version
<1>1. /\ pc[w] = "written" /\ tmp # NoInode /\ data[tmp] = version
      /\ Content(path) < version /\ tmp \in Inodes
  BY DEF Rename, Inv, WriterAhead, FileTypeOK
<1>2. /\ path' = tmp /\ tmp' = NoInode /\ failed' = failed
      /\ pc' = [pc EXCEPT ![w] = "idle"]
      /\ UNCHANGED <<data, fd, val, version, rfd, out>>
  BY <1>1 DEF Rename, readerVars
<1> QED
  BY <1>1, <1>2 DEF Content

LEMMA RenameInv ==
  ASSUME SingleWriter, Inv, FileTypeOK', NEW w \in Writers, Rename(w)
  PROVE  Inv'
<1>1. TmpIsPrivate'
  BY RenameEffect DEF TmpIsPrivate
<1>2. WriterAhead'
  <2>1. \A v \in Writers : v = w
    BY DEF SingleWriter
  <2>2. pc'[w] = "idle"
    BY RenameEffect DEF Inv, FileTypeOK
  <2> QED
    BY <2>1, <2>2 DEF WriterAhead
<1>3. ReadersWhole'
  <2>1. version \in Nat /\ path' # NoInode /\ path' = tmp /\ data'[path'] = version
    BY RenameEffect, FileAssumption DEF Inv, FileTypeOK
  <2>2. 0 <= Content(path)
    BY <2>1 DEF Inv, ReadersWhole, Content
  <2>3. data'[path'] \in 1 .. version'
    BY <2>1, <2>2, RenameEffect DEF Inv, ReadersWhole, Content
  <2>4. ASSUME NEW r \in Readers
        PROVE  /\ out'[r] \in 0 .. version'
               /\ out'[r] <= Content(path)'
               /\ rfd'[r] # NoInode => /\ path' # NoInode
                                       /\ data'[rfd'[r]] \in 1 .. version'
                                       /\ out'[r] <= data'[rfd'[r]]
                                       /\ data'[rfd'[r]] <= data'[path']
    BY <2>1, RenameEffect DEF Inv, ReadersWhole
  <2> QED
    BY <2>3, <2>4 DEF ReadersWhole
<1> QED
  BY <1>1, <1>2, <1>3, RenameEffect DEF Inv

LEMMA CrashInv ==
  ASSUME SingleWriter, Inv, FileTypeOK', NEW w \in Writers, Crash(w)
  PROVE  Inv'
<1>1. /\ pc' = [pc EXCEPT ![w] = "idle"]
      /\ UNCHANGED <<path, tmp, data, val, version, failed, rfd, out>>
  BY DEF Crash, readerVars
<1>2. \A v \in Writers : pc'[v] = "idle"
  BY <1>1 DEF SingleWriter, Inv, FileTypeOK
<1>3. TmpIsPrivate' /\ WriterAhead' /\ ReadersWhole'
  BY <1>1, <1>2 DEF Inv, TmpIsPrivate, WriterAhead, ReadersWhole, Content
<1> QED
  BY <1>1, <1>3 DEF Inv

LEMMA ReadOpenInv ==
  ASSUME Inv, FileTypeOK', NEW r \in Readers, ReadOpen(r)
  PROVE  Inv'
<1>1. /\ path # NoInode /\ rfd' = [rfd EXCEPT ![r] = path]
      /\ UNCHANGED <<path, tmp, data, pc, fd, val, version, out, failed>>
  BY DEF ReadOpen
<1>2. TmpIsPrivate' /\ WriterAhead'
  BY <1>1 DEF Inv, FileTypeOK, TmpIsPrivate, WriterAhead, Content
<1>3. ReadersWhole'
  BY <1>1 DEF Inv, FileTypeOK, ReadersWhole, Content
<1> QED
  BY <1>1, <1>2, <1>3 DEF Inv

LEMMA ReadDataInv ==
  ASSUME Inv, FileTypeOK', NEW r \in Readers, ReadData(r)
  PROVE  Inv'
<1>1. /\ rfd[r] # NoInode /\ out' = [out EXCEPT ![r] = data[rfd[r]]]
      /\ rfd' = [rfd EXCEPT ![r] = NoInode]
      /\ UNCHANGED <<path, tmp, data, pc, fd, val, version, failed>>
  BY DEF ReadData
<1>2. TmpIsPrivate' /\ WriterAhead'
  BY <1>1 DEF Inv, FileTypeOK, TmpIsPrivate, WriterAhead, Content
<1>3. ReadersWhole'
  BY <1>1 DEF Inv, FileTypeOK, ReadersWhole, Content
<1> QED
  BY <1>1, <1>2, <1>3 DEF Inv

-------------------------------------------------------------------------------
LEMMA InvNext == SingleWriter /\ Inv /\ [FileNext]_fileVars => Inv'
<1> SUFFICES ASSUME SingleWriter, Inv, [FileNext]_fileVars PROVE Inv'
  OBVIOUS
<1>0. FileTypeOK'
  BY TypeNext DEF Inv
<1>1. CASE UNCHANGED fileVars
  BY <1>0, <1>1 DEF fileVars, readerVars, Inv, TmpIsPrivate, WriterAhead, ReadersWhole, Content
<1> QED
  BY <1>0, <1>1, OpenTmpInv, WriteTmpInv, RenameInv, CrashInv, ReadOpenInv, ReadDataInv
     DEF FileNext, WriterStep, ReaderStep

THEOREM InvHolds ==
  ASSUME SingleWriter
  PROVE  FileSpec => []Inv
<1>1. Inv /\ [FileNext]_fileVars => Inv'
  BY InvNext
<1> QED
  BY <1>1, InvInit, PTL DEF FileSpec

\* With one writer no reader gets a torn file and no write fails, wherever and
\* however often the writer is killed.
THEOREM NeverTornHolds ==
  ASSUME SingleWriter
  PROVE  FileSpec => []NeverTorn
<1>1. Inv => NeverTorn
  BY DEF Inv, NeverTorn, ReadersWhole
<1> QED
  BY <1>1, InvHolds, PTL

\* With one writer no reader sees a version older than one it saw.
THEOREM ReadsAreMonotonic ==
  ASSUME SingleWriter
  PROVE  FileSpec => ReadsNeverGoBack
<1>1. Inv /\ [FileNext]_fileVars => [\A r \in Readers : out'[r] >= out[r]]_fileVars
  <2> SUFFICES ASSUME Inv, [FileNext]_fileVars, NEW r \in Readers PROVE out'[r] >= out[r]
    OBVIOUS
  <2>0. out[r] \in Int /\ out \in [Readers -> Int]
    BY DEF Inv, FileTypeOK
  <2>1. ASSUME NEW q \in Readers, ReadData(q) PROVE out'[r] >= out[r]
    BY <2>0, <2>1 DEF ReadData, Inv, ReadersWhole
  <2>2. ASSUME NEW q \in Readers, ReadOpen(q) PROVE out'[r] >= out[r]
    BY <2>0, <2>2 DEF ReadOpen
  <2>3. ASSUME NEW w \in Writers, WriterStep(w) PROVE out'[r] >= out[r]
    BY <2>0, <2>3 DEF WriterStep, OpenTmp, WriteTmp, Rename, Crash, readerVars
  <2>4. CASE UNCHANGED fileVars
    BY <2>0, <2>4 DEF fileVars, readerVars
  <2> QED
    BY <2>1, <2>2, <2>3, <2>4 DEF FileNext, ReaderStep
<1> QED
  BY <1>1, InvHolds, PTL DEF FileSpec, ReadsNeverGoBack

-------------------------------------------------------------------------------
\* The refinement of AtomicRegister.

Latched == [r \in Readers |-> Content(rfd[r])]

LEMMA RegisterInit == FileInit => Register!RegisterInit
  BY DEF FileInit, Register!RegisterInit, Content

LEMMA RegisterStep == Inv /\ [FileNext]_fileVars => [Register!RegisterNext]_(Register!registerVars)
<1> SUFFICES ASSUME Inv, [FileNext]_fileVars
             PROVE  Register!RegisterNext \/ UNCHANGED Register!registerVars
  OBVIOUS
<1> USE DEF Register!registerVars, Register!RegisterNext
\* A step that leaves the open files and the names alone and writes, if
\* anything, what only the writer can see, is a stutter.
<1>1. ASSUME path' = path, rfd' = rfd, out' = out,
             path # NoInode => data'[path] = data[path],
             \A r \in Readers : rfd[r] # NoInode => data'[rfd[r]] = data[rfd[r]]
      PROVE  UNCHANGED Register!registerVars
  BY <1>1 DEF Content
<1>2. ASSUME NEW w \in Writers, OpenTmp(w) PROVE UNCHANGED Register!registerVars
  <2>1. PICK i \in Inodes :
          /\ IF tmp = NoInode THEN Free(i) ELSE i = tmp
          /\ data' = [data EXCEPT ![i] = Empty]
    BY <1>2 DEF OpenTmp
  <2>2. i # path /\ \A r \in Readers : rfd[r] # i
    BY <2>1 DEF Inv, TmpIsPrivate, Free
  <2> QED
    BY <1>1, <1>2, <2>1, <2>2 DEF OpenTmp, readerVars, Inv, FileTypeOK
<1>3. ASSUME NEW w \in Writers, WriteTmp(w) PROVE UNCHANGED Register!registerVars
  <2>1. fd[w] = tmp /\ tmp # NoInode
    BY <1>3 DEF WriteTmp, Inv, WriterAhead
  <2>2. PICK content : data' = [data EXCEPT ![tmp] = content]
    BY <1>3, <2>1 DEF WriteTmp
  <2> QED
    BY <1>1, <1>3, <2>1, <2>2 DEF WriteTmp, readerVars, Inv, FileTypeOK, TmpIsPrivate
<1>4. ASSUME NEW w \in Writers, Rename(w) PROVE Register!RegisterNext
  <2>1. version \in Nat /\ Content(path)' = version /\ Content(path) < version
    BY <1>4, RenameEffect DEF Inv, FileTypeOK
  <2>2. UNCHANGED <<Latched, out>>
    BY <1>4, RenameEffect DEF Latched, Content
  <2> QED
    BY <2>1, <2>2 DEF Register!Replace, Latched
<1>5. ASSUME NEW w \in Writers, Crash(w) PROVE UNCHANGED Register!registerVars
  BY <1>1, <1>5 DEF Crash, readerVars
<1>6. ASSUME NEW r \in Readers, ReadOpen(r) PROVE Register!RegisterNext
  <2>1. Latched' = [Latched EXCEPT ![r] = Content(path)]
    BY <1>6 DEF ReadOpen, Latched, Content, Inv, FileTypeOK
  <2>2. Content(path)' = Content(path) /\ out' = out
    BY <1>6 DEF ReadOpen, Content
  <2> QED
    BY <2>1, <2>2 DEF Register!Latch, Latched
<1>7. ASSUME NEW r \in Readers, ReadData(r) PROVE Register!RegisterNext
  <2>1. /\ Latched[r] # 0
        /\ out' = [out EXCEPT ![r] = Latched[r]]
    BY <1>7 DEF ReadData, Latched, Content, Inv, ReadersWhole
  <2>2. Latched' = [Latched EXCEPT ![r] = 0] /\ Content(path)' = Content(path)
    BY <1>7 DEF ReadData, Latched, Content, Inv, FileTypeOK
  <2> QED
    BY <2>1, <2>2 DEF Register!Answer, Latched
<1>8. CASE UNCHANGED fileVars
  BY <1>1, <1>8 DEF fileVars, readerVars
<1> QED
  BY <1>2, <1>3, <1>4, <1>5, <1>6, <1>7, <1>8 DEF FileNext, WriterStep, ReaderStep

\* With one writer the file is an atomic register of whole versions.
THEOREM FileImplementsRegister ==
  ASSUME SingleWriter
  PROVE  FileSpec => ImplementsRegister
  BY RegisterInit, RegisterStep, InvHolds, PTL
     DEF FileSpec, ImplementsRegister, Register!RegisterSpec
===============================================================================
