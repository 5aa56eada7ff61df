--------------------------- MODULE FileStoreProofs ---------------------------
(***************************************************************************)
(* FileStore for every number of threads, files, connections and every       *)
(* limit.  First the overshoot of the file limit (FS.c:492), which is not    *)
(* inductive: the uploads that have passed the count and not yet called      *)
(* fopen() count as files that are on their way, and so do those that will   *)
(* count the names of a directory that was removed.  Then the types, and     *)
(* last removeC, which erases what it found because the inode of an upload   *)
(* is always a new one.                                                      *)
(***************************************************************************)
EXTENDS FileStore, FiniteSetTheorems, TLAPS

\* The threads between the count and fopen() of an upload, or whose count will
\* find nothing.
Pending ==
  {t \in Threads : pc[t] \in {"access", "create"} \/ (pc[t] = "readDir" /\ t \notin opened)}

\* What the argument needs to know of the variables' types.
FunctionInv ==
  /\ inodeOf = [f \in Files |-> inodeOf[f]]
  /\ pc \in [Threads -> Pcs]

Overshoot == Cardinality(FileSet) + Cardinality(Pending) <= MaxFiles - 1 + Cardinality(Threads)

\* Files are in a directory.
DirInv == FileSet # {} => dir

OvershootInv == FunctionInv /\ DirInv /\ Overshoot

\* Both sets, and every part of them, are finite.
LEMMA SetsAreFinite ==
  ASSUME NEW F \in SUBSET Files, NEW P \in SUBSET Threads
  PROVE  /\ IsFiniteSet(F) /\ Cardinality(F) \in Nat
         /\ IsFiniteSet(P) /\ Cardinality(P) \in Nat /\ Cardinality(P) <= Cardinality(Threads)
         /\ Cardinality(Threads) \in Nat \ {0}
PROOF
  <1>1. IsFiniteSet(F) /\ IsFiniteSet(P)
    BY ConstantsAssumption, FS_Subset
  <1>2. Cardinality(P) <= Cardinality(Threads)
    BY ConstantsAssumption, FS_Subset
  <1>3. Cardinality(Threads) # 0
    BY ConstantsAssumption, FS_EmptySet
  <1> QED
    BY <1>1, <1>2, <1>3, ConstantsAssumption, FS_CardinalityType

\* A step that neither adds a file nor a thread on its way to one keeps the
\* bound.
LEMMA ShrinkStep ==
  ASSUME Overshoot, FileSet' \subseteq FileSet, Pending' \subseteq Pending
  PROVE  Overshoot'
PROOF
  <1>1. FileSet \in SUBSET Files /\ Pending \in SUBSET Threads
    BY DEF FileSet, Pending
  <1>2. Cardinality(FileSet') <= Cardinality(FileSet)
    BY <1>1, SetsAreFinite, FS_Subset
  <1>3. Cardinality(Pending') <= Cardinality(Pending)
    BY <1>1, SetsAreFinite, FS_Subset
  <1>4. /\ Cardinality(FileSet) \in Nat /\ Cardinality(FileSet') \in Nat
        /\ Cardinality(Pending) \in Nat /\ Cardinality(Pending') \in Nat
        /\ Cardinality(Threads) \in Nat
    BY <1>1, SetsAreFinite
  <1> QED
    BY <1>2, <1>3, <1>4, ConstantsAssumption DEF Overshoot

\* Below the limit any number of threads may be on their way.
LEMMA BelowLimitStep ==
  ASSUME Cardinality(FileSet') < MaxFiles
  PROVE  Overshoot'
PROOF
  <1>1. FileSet' \in SUBSET Files /\ Pending' \in SUBSET Threads
    BY DEF FileSet, Pending
  <1>2. /\ Cardinality(FileSet') \in Nat /\ Cardinality(Pending') \in Nat
        /\ Cardinality(Pending') <= Cardinality(Threads)
        /\ Cardinality(Threads) \in Nat
    BY <1>1, SetsAreFinite
  <1> QED
    BY <1>2, ConstantsAssumption DEF Overshoot

\* In particular when there are no files.
LEMMA EmptyStep ==
  ASSUME FileSet' = {}
  PROVE  Overshoot'
PROOF
  <1>1. Cardinality(FileSet') = 0
    BY FS_EmptySet
  <1> QED
    BY <1>1, BelowLimitStep, ConstantsAssumption

\* CountFiles: a thread passes the count only below the limit, or counted the
\* names of a directory that was removed and was on its way before.
LEMMA CountStep ==
  ASSUME FunctionInv, Overshoot, NEW t \in Threads, CountFiles(t)
  PROVE  Overshoot'
PROOF
  <1>1. FileSet' = FileSet
    BY DEF CountFiles, FileSet
  <1>2. Pending' \ {t} \subseteq Pending
    BY DEF CountFiles, Answer, Goto, Pending, FunctionInv
  <1>3. CASE t \notin opened
    <2>1. t \in Pending
      BY <1>3 DEF CountFiles, Pending
    <2> QED
      BY <1>1, <1>2, <2>1, ShrinkStep
  <1>4. CASE t \in opened /\ Cardinality(FileSet) >= MaxFiles
    <2>1. t \notin Pending'
      BY <1>4 DEF CountFiles, Names, Answer, Goto, Pending, FunctionInv
    <2> QED
      BY <1>1, <1>2, <2>1, ShrinkStep
  <1>5. CASE ~(Cardinality(FileSet) >= MaxFiles)
    <2>1. Cardinality(FileSet') < MaxFiles
      <3>1. FileSet \in SUBSET Files /\ {} \in SUBSET Threads
        BY DEF FileSet
      <3> QED
        BY <1>1, <1>5, <3>1, SetsAreFinite, ConstantsAssumption
    <2> QED
      BY <2>1, BelowLimitStep
  <1> QED
    BY <1>3, <1>4, <1>5

\* OpenDir: an upload that finds no directory finds no files either.
LEMMA OpenStep ==
  ASSUME FunctionInv, DirInv, Overshoot, NEW t \in Threads, OpenDir(t)
  PROVE  Overshoot'
PROOF
  <1>1. FileSet' = FileSet
    BY DEF OpenDir, FileSet
  <1>2. CASE dir
    <2>1. Pending' \subseteq Pending
      BY <1>2 DEF OpenDir, Goto, Pending, FunctionInv
    <2> QED
      BY <1>1, <2>1, ShrinkStep
  <1>3. CASE ~dir
    BY <1>1, <1>3, EmptyStep DEF DirInv
  <1> QED
    BY <1>2, <1>3

\* RmDir: when the directory goes there are no files.
LEMMA RmDirStep ==
  ASSUME FunctionInv, Overshoot, NEW t \in Threads, RmDir(t)
  PROVE  Overshoot'
PROOF
  <1>1. FileSet' = FileSet
    BY DEF RmDir, FileSet
  <1>2. CASE FileSet = {}
    BY <1>1, <1>2, EmptyStep
  <1>3. CASE FileSet # {}
    <2>1. Pending' \subseteq Pending
      BY <1>3 DEF RmDir, Answer, Goto, Pending, FunctionInv
    <2> QED
      BY <1>1, <2>1, ShrinkStep
  <1> QED
    BY <1>2, <1>3

\* CreateFile: the file that was on its way has arrived.
LEMMA CreateStep ==
  ASSUME FunctionInv, Overshoot, NEW t \in Threads, CreateFile(t)
  PROVE  Overshoot'
PROOF
  <1> DEFINE f == cmd[t].file
  <1>1. FileSet' \subseteq FileSet \cup {f}
    BY DEF CreateFile, FileSet, FunctionInv
  <1>2. t \in Pending /\ Pending' = Pending \ {t}
    BY DEF CreateFile, Goto, Pending, FunctionInv
  <1> HIDE DEF f
  <1>3. FileSet \in SUBSET Files /\ FileSet' \in SUBSET Files /\ Pending \in SUBSET Threads /\ Pending' \in SUBSET Threads
    BY DEF FileSet, Pending
  <1>4. /\ IsFiniteSet(FileSet) /\ Cardinality(FileSet) \in Nat /\ Cardinality(FileSet') \in Nat
        /\ IsFiniteSet(Pending) /\ Cardinality(Pending) \in Nat /\ Cardinality(Pending') \in Nat
        /\ Cardinality(Threads) \in Nat
    BY <1>3, SetsAreFinite
  <1>5. Cardinality(Pending') = Cardinality(Pending) - 1
    BY <1>2, <1>4, FS_RemoveElement
  <1>6. /\ IsFiniteSet(FileSet \cup {f})
        /\ Cardinality(FileSet \cup {f}) \in {Cardinality(FileSet), Cardinality(FileSet) + 1}
    BY <1>4, FS_AddElement
  <1>7. Cardinality(FileSet') <= Cardinality(FileSet \cup {f})
    BY <1>1, <1>6, FS_Subset
  <1> QED
    BY <1>4, <1>5, <1>6, <1>7, ConstantsAssumption DEF Overshoot

\* Initially no thread is on its way.
LEMMA InitOvershoot == Init => OvershootInv
PROOF
  <1> SUFFICES ASSUME Init PROVE OvershootInv
    OBVIOUS
  <1>1. FunctionInv
    BY DEF Init, FunctionInv, Pcs
  <1>2. Pending = {}
    BY DEF Init, Pending
  <1>3. Cardinality(FileSet) <= MaxFiles
    <2>1. PICK S \in SUBSET Files :
            /\ Cardinality(S) <= MaxFiles
            /\ inodeOf = [f \in Files |-> IF f \in S THEN f ELSE None]
      BY DEF Init
    <2>2. FileSet = S
      BY <2>1, ConstantsAssumption DEF FileSet
    <2> QED
      BY <2>1, <2>2
  <1>4. FileSet \in SUBSET Files /\ {} \in SUBSET Threads
    BY DEF FileSet
  <1>5. Cardinality(FileSet) \in Nat /\ Cardinality(Threads) \in Nat \ {0} /\ Cardinality({}) = 0
    BY <1>4, SetsAreFinite, FS_EmptySet
  <1>6. Overshoot
    BY <1>2, <1>3, <1>5, ConstantsAssumption DEF Overshoot
  <1>7. DirInv
    BY ConstantsAssumption DEF Init, DirInv, FileSet
  <1> QED
    BY <1>1, <1>6, <1>7 DEF OvershootInv

\* Every thread goes from one of its places to another.
LEMMA FunctionStep == FunctionInv /\ [Next]_vars => FunctionInv'
PROOF
  <1> SUFFICES ASSUME FunctionInv, [Next]_vars PROVE FunctionInv'
    OBVIOUS
  <1> USE DEF FunctionInv, Pcs, Local, storeVars, threadVars, localVars, Answer, Goto
  <1>1. CASE UNCHANGED vars
    BY <1>1 DEF vars
  <1>2. CASE Restart
    BY <1>2 DEF Restart
  <1>3. ASSUME NEW t \in Threads, Step(t) PROVE FunctionInv'
    <2>1. CASE End(t)
      BY <2>1 DEF End
    <2>2. CASE OpenDir(t) \/ ReadDir(t) \/ ReplyList(t) \/ RmDir(t)
      BY <2>2 DEF OpenDir, ReadDir, ReplyList, RmDir
    <2>3. ASSUME NEW f \in Files, StatNext(t, f) \/ RemoveNext(t, f) PROVE FunctionInv'
      BY <2>3 DEF StatNext, RemoveNext
    <2>4. CASE CheckDir(t)
      BY <2>4 DEF CheckDir
    <2>5. CASE OpenToRead(t) \/ StatFile(t) \/ ReadFile(t) \/ Unlink(t)
      BY <2>5 DEF OpenToRead, StatFile, ReadFile, Unlink
    <2>6. CASE MakeDir(t) \/ CountFiles(t) \/ CheckDuplicate(t)
      BY <2>6 DEF MakeDir, CountFiles, CheckDuplicate
    <2>7. CASE CreateFile(t)
      BY <2>7 DEF CreateFile
    <2>8. CASE WriteBatch(t) \/ UploadError(t) \/ CloseFile(t) \/ CrashNull(t)
      BY <2>8 DEF WriteBatch, UploadError, CloseFile, CrashNull
    <2> QED
      BY <1>3, <2>1, <2>2, <2>3, <2>4, <2>5, <2>6, <2>7, <2>8 DEF Step
  <1>4. ASSUME NEW t \in Threads, NEW c \in Commands, Begin(t, c) PROVE FunctionInv'
    BY <1>4 DEF Begin, FirstStep
  <1> QED
    BY <1>1, <1>2, <1>3, <1>4 DEF Next

\* Every step of a thread keeps the files in a directory, and all but four
\* bring neither a file nor a thread on its way to one.
LEMMA ThreadDirStep ==
  ASSUME FunctionInv, DirInv, NEW t \in Threads, Step(t)
  PROVE  /\ DirInv'
         /\ \/ OpenDir(t) \/ RmDir(t) \/ CountFiles(t) \/ CreateFile(t)
            \/ FileSet' \subseteq FileSet /\ Pending' \subseteq Pending
PROOF
  <1> DEFINE Shrinks == FileSet' \subseteq FileSet /\ Pending' \subseteq Pending
  <1> USE DEF FunctionInv, DirInv, FileSet, Pending, Local, storeVars, Answer, Goto
  <1>1. ASSUME End(t) \/ ReadDir(t) \/ ReplyList(t) PROVE DirInv' /\ Shrinks
    BY <1>1 DEF End, ReadDir, ReplyList
  <1>2. ASSUME NEW f \in Files, StatNext(t, f) \/ RemoveNext(t, f) PROVE DirInv' /\ Shrinks
    BY <1>2 DEF StatNext, RemoveNext
  <1>3. ASSUME CheckDir(t) \/ OpenToRead(t) \/ StatFile(t) \/ ReadFile(t) PROVE DirInv' /\ Shrinks
    BY <1>3 DEF CheckDir, OpenToRead, StatFile, ReadFile
  <1>4. ASSUME Unlink(t) PROVE DirInv' /\ Shrinks
    BY <1>4 DEF Unlink
  <1>5. ASSUME MakeDir(t) \/ CheckDuplicate(t) PROVE DirInv' /\ Shrinks
    BY <1>5 DEF MakeDir, CheckDuplicate
  <1>6. ASSUME WriteBatch(t) \/ UploadError(t) \/ CloseFile(t) PROVE DirInv' /\ Shrinks
    BY <1>6 DEF WriteBatch, UploadError, CloseFile
  <1>7. ASSUME CrashNull(t) PROVE DirInv' /\ Shrinks
    BY <1>7 DEF CrashNull
  <1>8. ASSUME OpenDir(t) \/ RmDir(t) \/ CountFiles(t) PROVE DirInv'
    BY <1>8 DEF OpenDir, RmDir, CountFiles
  <1>9. ASSUME CreateFile(t) PROVE DirInv'
    BY <1>9 DEF CreateFile
  <1> HIDE DEF FunctionInv, DirInv, FileSet, Pending, Local, storeVars, Answer, Goto
  <1> QED
    BY <1>1, <1>2, <1>3, <1>4, <1>5, <1>6, <1>7, <1>8, <1>9 DEF Step

\* Every step keeps the bound.
LEMMA OvershootStep == OvershootInv /\ [Next]_vars => Overshoot' /\ DirInv'
PROOF
  <1> SUFFICES ASSUME FunctionInv, DirInv, Overshoot, [Next]_vars PROVE Overshoot' /\ DirInv'
    BY DEF OvershootInv
  <1>1. CASE UNCHANGED vars \/ Restart
    <2>1. FileSet' = FileSet /\ Pending' = Pending /\ dir' = dir
      BY <1>1 DEF vars, Restart, storeVars, FileSet, Pending
    <2> QED
      BY <2>1, ShrinkStep DEF DirInv
  <1>2. ASSUME NEW t \in Threads, Step(t) PROVE Overshoot' /\ DirInv'
    BY <1>2, ThreadDirStep, ShrinkStep, OpenStep, RmDirStep, CountStep, CreateStep
  <1>3. ASSUME NEW t \in Threads, NEW c \in Commands, Begin(t, c) PROVE Overshoot' /\ DirInv'
    <2>1. FileSet' = FileSet /\ Pending' \subseteq Pending /\ dir' = dir
      BY <1>3 DEF Begin, FirstStep, FunctionInv, storeVars, FileSet, Pending, Goto
    <2> QED
      BY <2>1, ShrinkStep DEF DirInv
  <1> QED
    BY <1>1, <1>2, <1>3 DEF Next

\* The files of a user never outnumber the limit by more than the number of
\* other threads: upload's count and fopen() are not one step, but a thread
\* that passed the count brings one file only.
THEOREM LimitOvershoot == Spec => []OvershootBounded
PROOF
  <1>1. Init => OvershootInv
    BY InitOvershoot
  <1>2. OvershootInv /\ [Next]_vars => OvershootInv'
    BY FunctionStep, OvershootStep DEF OvershootInv
  <1>3. OvershootInv => OvershootBounded
    <2>1. FileSet \in SUBSET Files /\ Pending \in SUBSET Threads
      BY DEF FileSet, Pending
    <2>2. /\ Cardinality(FileSet) \in Nat /\ Cardinality(Pending) \in Nat
          /\ Cardinality(Threads) \in Nat
      BY <2>1, SetsAreFinite
    <2> QED
      BY <2>2, ConstantsAssumption DEF OvershootInv, Overshoot, OvershootBounded
  <1> QED
    BY <1>1, <1>2, <1>3, PTL DEF Spec
----------------------------------------------------------------------------
\* The types, and which command a thread serves where it is.

FileOps == {"RTV", "DEL", "UPL"}

PlaceInv(t) ==
  /\ pc[t] # "idle" => cmd[t] \in Commands /\ conn[t] \in 1..conns
  /\ pc[t] \in {"checkDir", "open", "statFile", "fread", "unlink"} => cmd[t].op \in FileOps
  /\ pc[t] \in {"mkdir", "access", "create", "fwrite"} => cmd[t].op = "UPL"
  /\ pc[t] = "stat" => cmd[t].op = "LST"
  /\ pc[t] = "fwrite" => left[t] + offset[t] <= MaxBatches

TypeInv == TypeOK /\ \A t \in Threads : PlaceInv(t)

\* What a command that names a file names.
LEMMA CommandFields ==
  ASSUME NEW c \in Commands
  PROVE  /\ c.op \in FileOps => c.file \in Files
         /\ c.op = "UPL" => c.size \in 0..MaxBatches
PROOF
  BY DEF Commands, FileOps

\* Contents are short, and that of a new file is one.
LEMMA ContentFacts ==
  /\ <<>> \in Content
  /\ \A c \in Content : Len(c) \in 0..MaxBatches
PROOF
  <1>1. 0 \in 0..MaxBatches
    BY ConstantsAssumption
  <1>2. <<>> \in [1..0 -> Batches]
    OBVIOUS
  <1>3. ASSUME NEW c \in Content PROVE Len(c) \in 0..MaxBatches
    <2>1. PICK m \in 0..MaxBatches : c \in [1..m -> Batches]
      BY DEF Content
    <2> QED
      BY <2>1, ConstantsAssumption
  <1> QED
    BY <1>1, <1>2, <1>3 DEF Content

\* An upload at an offset below the bound leaves a content within the bound.
LEMMA WriteAtType ==
  ASSUME NEW c \in Content, NEW n \in 0..MaxBatches, n < MaxBatches, NEW b \in Batches
  PROVE  WriteAt(c, n, b) \in Content
PROOF
  <1>1. PICK m \in 0..MaxBatches : c \in [1..m -> Batches]
    BY DEF Content
  <1>2. Len(c) = m
    BY <1>1, ConstantsAssumption
  <1> DEFINE k == IF m > n THEN m ELSE n + 1
  <1>3. k \in 0..MaxBatches
    BY ConstantsAssumption
  <1>4. WriteAt(c, n, b) \in [1..k -> Batches]
    BY <1>1, <1>2, ConstantsAssumption DEF WriteAt, Batches
  <1> QED
    BY <1>3, <1>4 DEF Content

LEMMA InitType == Init => TypeInv
PROOF
  <1> SUFFICES ASSUME Init PROVE TypeInv
    OBVIOUS
  <1>1. content \in [Inodes -> Content]
    <2>1. \A i \in Files : <<i>> \in [1..1 -> Batches]
      BY DEF Batches
    <2>2. <<>> \in [1..0 -> Batches]
      OBVIOUS
    <2>3. 0 \in 0..MaxBatches /\ 1 \in 0..MaxBatches
      BY ConstantsAssumption
    <2>4. <<>> \in Content /\ \A i \in Files : <<i>> \in Content
      BY <2>1, <2>2, <2>3 DEF Content
    <2> QED
      BY <2>4 DEF Init, Inodes
  <1>2. inodeOf \in [Files -> Inodes \cup {None}] /\ dir \in BOOLEAN /\ (FileSet # {} => dir)
    BY ConstantsAssumption DEF Init, Inodes, FileSet
  <1>3. TypeOK
    BY <1>1, <1>2, ConstantsAssumption DEF Init, TypeOK, Pcs
  <1>4. \A t \in Threads : PlaceInv(t)
    BY DEF Init, PlaceInv
  <1> QED
    BY <1>3, <1>4 DEF TypeInv

LEMMA TypeStep == TypeInv /\ [Next]_vars => TypeInv'
PROOF
  <1> SUFFICES ASSUME TypeInv, [Next]_vars PROVE TypeInv'
    OBVIOUS
  <1> USE DEF TypeInv, TypeOK, PlaceInv, Local, Answer, Goto
  <1> USE DEF storeVars, threadVars, localVars, historyVars
  <1>1. CASE UNCHANGED vars
    BY <1>1 DEF vars, FileSet
  <1>2. CASE Restart
    BY <1>2 DEF Restart, FileSet
  <1>3. ASSUME NEW t \in Threads, NEW c \in Commands, Begin(t, c) PROVE TypeInv'
    BY <1>3, ConstantsAssumption DEF Begin, FirstStep, FileSet, Pcs, FileOps, Commands
  <1>4. ASSUME NEW t \in Threads, End(t) PROVE TypeInv'
    BY <1>4, ConstantsAssumption DEF End, FileSet, Pcs
  <1>5. ASSUME NEW t \in Threads, OpenDir(t) PROVE TypeInv'
    BY <1>5 DEF OpenDir, FileSet, Pcs
  <1>6. ASSUME NEW t \in Threads, ReadDir(t) PROVE TypeInv'
    BY <1>6 DEF ReadDir, FileSet, Pcs, Names
  <1>7. ASSUME NEW t \in Threads, ReplyList(t) PROVE TypeInv'
    BY <1>7 DEF ReplyList, FileSet, Pcs
  <1>8. ASSUME NEW t \in Threads, RmDir(t) PROVE TypeInv'
    BY <1>8 DEF RmDir, FileSet, Pcs
  <1>9. ASSUME NEW t \in Threads, NEW f \in Files, StatNext(t, f) PROVE TypeInv'
    <2>1. todo' \in [Threads -> SUBSET Files] /\ pc' \in [Threads -> Pcs] /\ FileSet' = FileSet
      BY <1>9 DEF StatNext, FileSet, Pcs
    <2>2. \A u \in Threads : pc'[u] \in {pc[u], "reply"}
      BY <1>9 DEF StatNext
    <2> QED
      BY <1>9, <2>1, <2>2 DEF StatNext
  <1>10. ASSUME NEW t \in Threads, NEW f \in Files, RemoveNext(t, f) PROVE TypeInv'
    BY <1>10 DEF RemoveNext, FileSet
  <1>11. ASSUME NEW t \in Threads, CheckDir(t) PROVE TypeInv'
    BY <1>11 DEF CheckDir, FileSet, Pcs, FileOps
  <1>12. ASSUME NEW t \in Threads, OpenToRead(t) PROVE TypeInv'
    BY <1>12, CommandFields DEF OpenToRead, FileSet, Pcs
  <1>13. ASSUME NEW t \in Threads, StatFile(t) PROVE TypeInv'
    <2>1. cmd[t].file \in Files
      BY <1>13, CommandFields DEF StatFile
    <2>3. left' \in [Threads -> 0..MaxBatches] /\ \A u \in Threads \ {t} : left'[u] = left[u]
      BY <1>13, <2>1, ContentFacts DEF StatFile
    <2>4. pc' = [pc EXCEPT ![t] = "fread"] /\ FileSet' = FileSet
      BY <1>13 DEF StatFile, FileSet
    <2>5. UNCHANGED <<storeVars, up, cmd, conn, todo, found, handle, offset, reply, conns, historyVars>>
      BY <1>13 DEF StatFile
    <2>6. pc' \in [Threads -> Pcs]
      BY <2>4 DEF Pcs
    <2>7. UNCHANGED <<dir, inodeOf, content, opened, up, cmd, conn, todo, handle, offset, conns>>
      BY <2>5
    <2>8. \A u \in Threads : PlaceInv(u)'
      <3>1. pc[t] = "statFile" /\ pc'[t] = "fread" /\ PlaceInv(t)
        BY <1>13, <2>4 DEF StatFile
      <3>2. PlaceInv(t)'
        BY <3>1, <2>7
      <3>3. ASSUME NEW u \in Threads, u # t PROVE PlaceInv(u)'
        <4>1. pc'[u] = pc[u] /\ left'[u] = left[u]
          BY <2>3, <2>4, <3>3
        <4> QED
          BY <4>1, <2>7
      <3> QED
        BY <3>2, <3>3
    <2>9. TypeOK'
      BY <2>3, <2>4, <2>6, <2>7
    <2> QED
      BY <2>8, <2>9
  <1>14. ASSUME NEW t \in Threads, ReadFile(t) PROVE TypeInv'
    BY <1>14 DEF ReadFile, FileSet, Pcs
  <1>15. ASSUME NEW t \in Threads, Unlink(t) PROVE TypeInv'
    BY <1>15 DEF Unlink, FileSet, Pcs
  <1>16. ASSUME NEW t \in Threads, MakeDir(t) PROVE TypeInv'
    BY <1>16 DEF MakeDir, FileSet, Pcs
  <1>17. ASSUME NEW t \in Threads, CountFiles(t) PROVE TypeInv'
    BY <1>17 DEF CountFiles, FileSet, Pcs
  <1>18. ASSUME NEW t \in Threads, CheckDuplicate(t) PROVE TypeInv'
    BY <1>18 DEF CheckDuplicate, FileSet, Pcs
  <1>19. ASSUME NEW t \in Threads, CreateFile(t) PROVE TypeInv'
    <2>1. cmd[t].file \in Files /\ cmd[t].size \in 0..MaxBatches /\ conn[t] \in Inodes
      <3>1. pc[t] = "create"
        BY <1>19 DEF CreateFile
      <3>2. cmd[t] \in Commands /\ cmd[t].op = "UPL" /\ conn[t] \in 1..conns
        BY <3>1
      <3>3. conn[t] \in 1..MaxConnections
        BY <3>2, ConstantsAssumption
      <3> QED
        BY <3>2, <3>3, CommandFields DEF FileOps, Inodes
    <2>3. PICK i \in Inodes \cup {None} :
            /\ inodeOf' = [inodeOf EXCEPT ![cmd[t].file] = i]
            /\ content' = IF i = None THEN content ELSE [content EXCEPT ![i] = <<>>]
            /\ handle' = [handle EXCEPT ![t] = i]
            /\ i # None => dir
      BY <1>19, <2>1 DEF CreateFile
    <2>4. /\ inodeOf' \in [Files -> Inodes \cup {None}] /\ content' \in [Inodes -> Content]
          /\ handle' \in [Threads -> Inodes \cup {None}] /\ dir' = dir
      BY <1>19, <2>1, <2>3, ContentFacts DEF CreateFile
    <2>5. FileSet' # {} => dir'
      BY <2>1, <2>3, <2>4 DEF FileSet
    <2>6. /\ left' = [left EXCEPT ![t] = cmd[t].size] /\ offset' = [offset EXCEPT ![t] = 0]
          /\ pc' = [pc EXCEPT ![t] = "fwrite"] /\ cmd[t].op = "UPL"
          /\ UNCHANGED <<opened, up, cmd, conn, todo, conns>>
      BY <1>19 DEF CreateFile
    <2>7. left' \in [Threads -> 0..MaxBatches] /\ offset' \in [Threads -> 0..MaxBatches]
      BY <2>1, <2>6, ConstantsAssumption
    <2>8. \A u \in Threads : PlaceInv(u)'
      <3>1. PlaceInv(t)'
        <4>1. left'[t] = cmd[t].size /\ offset'[t] = 0 /\ pc'[t] = "fwrite" /\ pc[t] = "create"
          BY <1>19, <2>6 DEF CreateFile
        <4>2. left'[t] + offset'[t] <= MaxBatches
          BY <4>1, <2>1, ConstantsAssumption
        <4> QED
          BY <4>1, <4>2, <2>6
      <3>2. \A u \in Threads \ {t} : PlaceInv(u)'
        BY <2>6
      <3> QED
        BY <3>1, <3>2
    <2> QED
      BY <2>4, <2>5, <2>6, <2>7, <2>8 DEF Pcs
  <1>20. ASSUME NEW t \in Threads, WriteBatch(t) PROVE TypeInv'
    <2>1. /\ left[t] \in 1..MaxBatches /\ offset[t] \in 0..MaxBatches /\ offset[t] < MaxBatches
          /\ handle[t] \in Inodes /\ conn[t] \in Batches
      BY <1>20, ConstantsAssumption DEF WriteBatch, Batches
    <2>2. content' \in [Inodes -> Content]
      <3>1. PICK b \in {conn[t], Stale} :
              content' = [content EXCEPT ![handle[t]] = WriteAt(@, offset[t], b)]
        BY <1>20 DEF WriteBatch
      <3>2. b \in Batches
        BY <2>1 DEF Batches
      <3>3. WriteAt(content[handle[t]], offset[t], b) \in Content
        BY <2>1, <3>2, WriteAtType
      <3> QED
        BY <3>1, <3>3
    <2>3. left' = [left EXCEPT ![t] = @ - 1] /\ offset' = [offset EXCEPT ![t] = @ + 1]
      BY <1>20 DEF WriteBatch
    <2>4. left' \in [Threads -> 0..MaxBatches] /\ offset' \in [Threads -> 0..MaxBatches]
      BY <2>1, <2>3, ConstantsAssumption
    <2>5. \A u \in Threads : left'[u] + offset'[u] = left[u] + offset[u]
      BY <2>1, <2>3, ConstantsAssumption
    <2>6. UNCHANGED <<dir, inodeOf, opened, up, pc, cmd, conn, todo, handle, conns>> /\ FileSet' = FileSet
      BY <1>20 DEF WriteBatch, FileSet
    <2> QED
      BY <2>2, <2>4, <2>5, <2>6
  <1>21. ASSUME NEW t \in Threads, UploadError(t) \/ CloseFile(t) PROVE TypeInv'
    BY <1>21 DEF UploadError, CloseFile, FileSet, Pcs
  <1>22. ASSUME NEW t \in Threads, CrashNull(t) PROVE TypeInv'
    <2>1. 0 \in 0..MaxBatches /\ 0 \in 0..MaxConnections
      BY ConstantsAssumption
    <2>2. FileSet' = FileSet /\ dir' = dir
      BY <1>22 DEF CrashNull, FileSet
    <2>3. /\ pc' \in [Threads -> Pcs] /\ cmd' \in [Threads -> Commands \cup {None}]
          /\ conn' \in [Threads -> 0..MaxConnections] /\ todo' \in [Threads -> SUBSET Files]
      BY <1>22, <2>1 DEF CrashNull, Pcs
    <2>4. /\ handle' \in [Threads -> Inodes \cup {None}]
          /\ left' \in [Threads -> 0..MaxBatches] /\ offset' \in [Threads -> 0..MaxBatches]
          /\ opened' \subseteq Threads /\ up' \in BOOLEAN
      BY <1>22, <2>1 DEF CrashNull
    <2>5. \A u \in Threads : pc'[u] = "idle"
      BY <1>22 DEF CrashNull
    <2>6. UNCHANGED <<inodeOf, content, conns>>
      BY <1>22 DEF CrashNull
    <2> QED
      BY <2>2, <2>3, <2>4, <2>5, <2>6
  <1> HIDE DEF TypeInv, TypeOK, PlaceInv, Local, Answer, Goto, storeVars, threadVars, localVars, historyVars
  <1> QED
    BY <1>1, <1>2, <1>3, <1>4, <1>5, <1>6, <1>7, <1>8, <1>9, <1>10, <1>11, <1>12, <1>13, <1>14, <1>15,
       <1>16, <1>17, <1>18, <1>19, <1>20, <1>21, <1>22 DEF Next, Step

\* The types: in particular a file is never in a directory that is not there,
\* and no upload, however many threads write the file, grows it beyond the
\* bound on an upload.
THEOREM Types == Spec => []TypeOK
PROOF
  <1>1. TypeInv => TypeOK
    BY DEF TypeInv
  <1> QED
    BY <1>1, InitType, TypeStep, PTL DEF Spec
----------------------------------------------------------------------------
\* removeC.  RemoveErases is not inductive: while the names are removed one by
\* one, an inode that was found is still in the directory under a name that is
\* yet to be removed, and an upload that runs meanwhile must not bring such an
\* inode back: the inode it will make has never been in the directory.

BeforeCreate(t) == pc[t] \notin {"idle", "fwrite", "reply"}

\* Inodes are made one per connection, and no two threads serve the same.
InodeInv ==
  /\ \A f \in FileSet : inodeOf[f] \in Files \cup (1..conns)
  /\ erase \in [Threads -> SUBSET (Files \cup (1..conns))]
  /\ \A t, u \in Threads : pc[t] # "idle" /\ pc[u] # "idle" /\ conn[t] = conn[u] => t = u

\* The inode a connection has not made yet is nowhere.
FreshInv ==
  \A t \in Threads : BeforeCreate(t) =>
    /\ \A f \in FileSet : inodeOf[f] # conn[t]
    /\ \A u \in Threads : conn[t] \notin erase[u]

EraseInv ==
  \A t \in Threads :
    /\ pc[t] \in {"idle", "checkDir", "mkdir", "openDir", "readDir"} => erase[t] = {}
    /\ pc[t] = "remove" => \A f \in FileSet : inodeOf[f] \in erase[t] => f \in todo[t]

RemoveInv == InodeInv /\ FreshInv /\ EraseInv /\ RemoveErases

LEMMA InitRemove == Init => RemoveInv
PROOF
  <1> SUFFICES ASSUME Init PROVE RemoveInv
    OBVIOUS
  <1>1. \A f \in FileSet : inodeOf[f] \in Files
    BY DEF Init, FileSet
  <1>2. \A t \in Threads : pc[t] = "idle" /\ erase[t] = {}
    BY DEF Init
  <1>3. erase \in [Threads -> SUBSET (Files \cup (1..conns))]
    BY DEF Init
  <1> QED
    BY <1>1, <1>2, <1>3 DEF RemoveInv, InodeInv, FreshInv, EraseInv, RemoveErases, BeforeCreate

\* A thread that serves no removeC goes on, and names may go.
LEMMA OtherCommandStep ==
  ASSUME RemoveInv, NEW t \in Threads, cmd[t].op # "REM", cmd' = cmd,
         BeforeCreate(t)' => BeforeCreate(t), pc'[t] \in {"open", "access", "create", "fwrite", "reply"}, pc[t] # "idle",
         \A u \in Threads \ {t} : pc'[u] = pc[u],
         \A f \in Files : inodeOf'[f] \in {inodeOf[f], None},
         UNCHANGED <<conn, todo, conns, erase>>
  PROVE  RemoveInv'
PROOF
  <1> USE DEF RemoveInv
  <1>1. InodeInv'
    BY DEF InodeInv, FileSet
  <1>2. FreshInv'
    BY DEF FreshInv, BeforeCreate, InodeInv, FileSet
  <1>3. EraseInv'
    BY DEF EraseInv, FileSet
  <1>4. RemoveErases'
    BY DEF RemoveErases, FileSet
  <1> QED
    BY <1>1, <1>2, <1>3, <1>4

LEMMA RemoveStep == TypeInv /\ RemoveInv /\ [Next]_vars => RemoveInv'
PROOF
  <1> SUFFICES ASSUME TypeInv, RemoveInv, [Next]_vars PROVE RemoveInv'
    OBVIOUS
  <1>0. /\ inodeOf = [f \in Files |-> inodeOf[f]] /\ pc = [t \in Threads |-> pc[t]]
        /\ cmd = [t \in Threads |-> cmd[t]] /\ conn = [t \in Threads |-> conn[t]]
        /\ todo = [t \in Threads |-> todo[t]]
        /\ conns \in Nat /\ \A t \in Threads : PlaceInv(t)
    BY ConstantsAssumption DEF TypeInv, TypeOK
  <1> USE <1>0 DEF RemoveInv, InodeInv, FreshInv, EraseInv, RemoveErases, BeforeCreate, PlaceInv, FileSet
  <1> USE DEF Local, Answer, Goto, storeVars, threadVars, localVars, historyVars
  <1>1. CASE UNCHANGED vars
    BY <1>1 DEF vars
  <1>2. CASE Restart
    BY <1>2 DEF Restart
  <1>3. ASSUME NEW t \in Threads, NEW c \in Commands, Begin(t, c) PROVE RemoveInv'
    BY <1>3, ConstantsAssumption DEF Begin, FirstStep
  <1>4. ASSUME NEW t \in Threads, End(t) PROVE RemoveInv'
    <2>1. /\ pc' = [pc EXCEPT ![t] = "idle"] /\ erase' = [erase EXCEPT ![t] = {}]
          /\ \A u \in Threads \ {t} : conn'[u] = conn[u] /\ cmd'[u] = cmd[u] /\ todo'[u] = todo[u]
          /\ UNCHANGED <<inodeOf, conns>>
      BY <1>4 DEF End
    <2> QED
      BY <2>1
  <1>5. ASSUME NEW t \in Threads, OpenDir(t) PROVE RemoveInv'
    BY <1>5 DEF OpenDir
  <1>6. ASSUME NEW t \in Threads, ReadDir(t) PROVE RemoveInv'
    BY <1>6 DEF ReadDir, Names
  <1>7. ASSUME NEW t \in Threads, ReplyList(t) PROVE RemoveInv'
    BY <1>7 DEF ReplyList
  <1>8. ASSUME NEW t \in Threads, RmDir(t) PROVE RemoveInv'
    BY <1>8 DEF RmDir
  <1>9. ASSUME NEW t \in Threads, NEW f \in Files, StatNext(t, f) PROVE RemoveInv'
    <2>1. /\ pc[t] = "stat" /\ cmd[t].op # "REM"
          /\ pc' = pc \/ pc' = [pc EXCEPT ![t] = "reply"]
          /\ \A u \in Threads \ {t} : todo'[u] = todo[u]
          /\ UNCHANGED <<inodeOf, cmd, conn, conns, erase>>
      BY <1>9 DEF StatNext
    <2> QED
      BY <2>1
  <1>10. ASSUME NEW t \in Threads, NEW f \in Files, RemoveNext(t, f) PROVE RemoveInv'
    BY <1>10 DEF RemoveNext
  <1>11. ASSUME NEW t \in Threads, CheckDir(t) PROVE RemoveInv'
    BY <1>11 DEF CheckDir, FileOps
  <1>12. ASSUME NEW t \in Threads, OpenToRead(t) PROVE RemoveInv'
    BY <1>12 DEF OpenToRead, FileOps
  <1>13. ASSUME NEW t \in Threads, StatFile(t) PROVE RemoveInv'
    BY <1>13 DEF StatFile
  <1>14. ASSUME NEW t \in Threads, ReadFile(t) PROVE RemoveInv'
    <2>1. pc[t] = "fread" /\ cmd[t].op # "REM" /\ pc' = [pc EXCEPT ![t] = "reply"]
      BY <1>14 DEF ReadFile, FileOps
    <2>2. UNCHANGED <<inodeOf, cmd, conn, todo, conns, erase>>
      BY <1>14 DEF ReadFile
    <2> HIDE DEF RemoveInv
    <2> QED
      BY <2>1, <2>2, OtherCommandStep
  <1>15. ASSUME NEW t \in Threads, Unlink(t) PROVE RemoveInv'
    <2>1. pc[t] = "unlink" /\ cmd[t].op # "REM" /\ pc' = [pc EXCEPT ![t] = "reply"]
      BY <1>15 DEF Unlink, FileOps
    <2>2. UNCHANGED <<cmd, conn, todo, conns, erase>> /\ \A g \in Files : inodeOf'[g] \in {inodeOf[g], None}
      BY <1>15 DEF Unlink
    <2> HIDE DEF RemoveInv
    <2> QED
      BY <2>1, <2>2, OtherCommandStep
  <1>16. ASSUME NEW t \in Threads, MakeDir(t) PROVE RemoveInv'
    BY <1>16 DEF MakeDir
  <1>17. ASSUME NEW t \in Threads, CountFiles(t) PROVE RemoveInv'
    BY <1>17 DEF CountFiles
  <1>18. ASSUME NEW t \in Threads, CheckDuplicate(t) PROVE RemoveInv'
    BY <1>18 DEF CheckDuplicate
  <1>19. ASSUME NEW t \in Threads, CreateFile(t) PROVE RemoveInv'
    BY <1>19, CommandFields, ConstantsAssumption DEF CreateFile, FileOps
  <1>20. ASSUME NEW t \in Threads, WriteBatch(t) PROVE RemoveInv'
    BY <1>20 DEF WriteBatch
  <1>21. ASSUME NEW t \in Threads, UploadError(t) \/ CloseFile(t) PROVE RemoveInv'
    BY <1>21 DEF UploadError, CloseFile
  <1>22. ASSUME NEW t \in Threads, CrashNull(t) PROVE RemoveInv'
    BY <1>22 DEF CrashNull
  <1> HIDE <1>0
  <1> HIDE DEF RemoveInv, InodeInv, FreshInv, EraseInv, RemoveErases, BeforeCreate, PlaceInv, FileSet
  <1> HIDE DEF Local, Answer, Goto, storeVars, threadVars, localVars, historyVars
  <1> QED
    BY <1>1, <1>2, <1>3, <1>4, <1>5, <1>6, <1>7, <1>8, <1>9, <1>10, <1>11, <1>12, <1>13, <1>14, <1>15,
       <1>16, <1>17, <1>18, <1>19, <1>20, <1>21, <1>22 DEF Next, Step

\* When removeC has replied OK none of the files it found is in the directory,
\* however the uploads, deletions and removals of other threads came in between.
THEOREM RemovedStayRemoved == Spec => []RemoveErases
PROOF
  <1>1. RemoveInv => RemoveErases
    BY DEF RemoveInv
  <1> QED
    BY <1>1, InitType, TypeStep, InitRemove, RemoveStep, PTL DEF Spec
=============================================================================
