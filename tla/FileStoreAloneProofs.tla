------------------------- MODULE FileStoreAloneProofs -------------------------
(***************************************************************************)
(* AloneCorrect of FileStore, for every number of threads, files, batches    *)
(* and connections: a command during which no other runs replies and leaves  *)
(* the store as it would in one step.  The invariant says, for each command   *)
(* and each place between two of its system calls, how the store it began     *)
(* with, the store as it is and the thread's own variables are related.       *)
(***************************************************************************)
EXTENDS FileStoreProofs

\* What the steps need to know of the variables TypeOK says nothing of.
PlainInv ==
  /\ found = [t \in Threads |-> found[t]]
  /\ reply = [t \in Threads |-> reply[t]]
  /\ \A t \in Threads : pc[t] \notin {"stat", "reply"} => found[t] = {}

Present(b) == {f \in Files : b.file[f] # None}

AloneList(t, b) ==
  cmd[t].op = "LST" =>
    /\ pc[t] \in {"openDir", "readDir", "stat", "reply"}
    /\ Store = b
    /\ pc[t] \in {"readDir", "stat"} => dir
    /\ pc[t] = "readDir" => t \in opened
    /\ pc[t] = "stat" =>
         /\ todo[t] \subseteq FileSet
         /\ found[t] = {<<f, Len(b.file[f])>> : f \in FileSet \ todo[t]}

AloneRetrieve(t, b) ==
  cmd[t].op = "RTV" =>
    /\ pc[t] \in {"checkDir", "open", "statFile", "fread", "reply"}
    /\ Store = b
    /\ pc[t] \in {"open", "statFile", "fread"} => dir
    /\ pc[t] \in {"statFile", "fread"} => inodeOf[cmd[t].file] # None /\ handle[t] = inodeOf[cmd[t].file]
    /\ pc[t] = "fread" => left[t] = Len(content[handle[t]])

AloneDelete(t, b) ==
  cmd[t].op = "DEL" =>
    /\ pc[t] \in {"checkDir", "open", "unlink", "reply"}
    /\ pc[t] # "reply" => Store = b
    /\ pc[t] \in {"open", "unlink"} => dir
    /\ pc[t] = "unlink" => inodeOf[cmd[t].file] # None

AloneRemove(t, b) ==
  cmd[t].op = "REM" =>
    /\ pc[t] \in {"openDir", "readDir", "remove", "reply"}
    /\ pc[t] \in {"openDir", "readDir"} => Store = b
    /\ pc[t] \in {"readDir", "remove"} => b.dir
    /\ pc[t] = "readDir" => t \in opened
    /\ pc[t] = "remove" => FileSet \subseteq todo[t]

AloneUpload(t, b) ==
  cmd[t].op = "UPL" =>
    /\ pc[t] \in {"checkDir", "mkdir", "openDir", "readDir", "access", "create", "fwrite", "reply"}
    /\ pc[t] \in {"checkDir", "mkdir", "openDir", "readDir", "access", "create"} => Store.file = b.file
    /\ pc[t] \in {"openDir", "readDir", "access", "create", "fwrite"} => dir
    /\ pc[t] = "readDir" => t \in opened
    /\ pc[t] \in {"access", "create", "fwrite"} => Cardinality(Present(b)) < MaxFiles
    /\ pc[t] \in {"create", "fwrite"} => b.file[cmd[t].file] = None
    /\ pc[t] = "fwrite" =>
         /\ handle[t] # None /\ handle[t] = inodeOf[cmd[t].file]
         /\ \A g \in Files \ {cmd[t].file} : inodeOf[g] # handle[t] /\ Store.file[g] = b.file[g]
         /\ Len(content[handle[t]]) = offset[t]
         /\ left[t] + offset[t] = cmd[t].size

AloneAt(t, b) ==
  /\ t \in Threads /\ pc[t] # "idle"
  /\ \A u \in Threads \ {t} : pc[u] = "idle"
  /\ AloneList(t, b) /\ AloneRetrieve(t, b) /\ AloneDelete(t, b) /\ AloneRemove(t, b) /\ AloneUpload(t, b)

AloneInv == solo # None => AloneAt(solo.thread, solo.store)

\* What a step of the thread t that runs alone does: it keeps the invariant,
\* and a reply is the one the command gives when it is one step.
AloneNext(t, b) ==
  /\ AloneAt(t, b)'
  /\ pc'[t] = "reply" /\ reply'[t] # None => Sequential(cmd[t], b, Store', reply'[t])

----------------------------------------------------------------------------
\* The store

\* A file has a content, which is not None.
LEMMA StoreFacts ==
  ASSUME TypeInv
  PROVE  /\ Store.dir = dir
         /\ \A f \in Files : IF inodeOf[f] = None THEN Store.file[f] = None
                             ELSE Store.file[f] = content[inodeOf[f]] /\ Store.file[f] # None
         /\ Present(Store) = FileSet
PROOF
  <1>1. None \notin Content
    <2>1. ASSUME NEW c \in Content PROVE c \in Seq(Files \cup Nat \cup {Stale})
      <3>1. PICK m \in 0..MaxBatches : c \in [1..m -> Batches]
        BY DEF Content
      <3>2. Batches \subseteq Files \cup Nat \cup {Stale} /\ m \in Nat
        BY ConstantsAssumption DEF Batches
      <3> QED
        BY <3>1, <3>2
    <2> QED
      BY <2>1, ConstantsAssumption
  <1>2. \A f \in Files : inodeOf[f] # None => content[inodeOf[f]] \in Content
    BY DEF TypeInv, TypeOK
  <1>3. /\ Store.dir = dir
        /\ \A f \in Files : Store.file[f] = IF inodeOf[f] = None THEN None ELSE content[inodeOf[f]]
    BY DEF Store
  <1> QED
    BY <1>1, <1>2, <1>3 DEF Present, FileSet

\* A step that leaves the three parts of the store alone leaves it alone.
LEMMA StoreKept ==
  ASSUME UNCHANGED <<dir, inodeOf, content>>
  PROVE  Store' = Store /\ FileSet' = FileSet
PROOF
  BY DEF Store, FileSet

\* Of the five parts of the invariant one is about the command that runs.
LEMMA OtherCommands ==
  ASSUME NEW t \in Threads, NEW b
  PROVE  /\ cmd'[t].op # "LST" => AloneList(t, b)'
         /\ cmd'[t].op # "RTV" => AloneRetrieve(t, b)'
         /\ cmd'[t].op # "DEL" => AloneDelete(t, b)'
         /\ cmd'[t].op # "REM" => AloneRemove(t, b)'
         /\ cmd'[t].op # "UPL" => AloneUpload(t, b)'
PROOF
  BY DEF AloneList, AloneRetrieve, AloneDelete, AloneRemove, AloneUpload

\* The operation of a thread that serves one.
LEMMA OpType ==
  ASSUME TypeInv, NEW t \in Threads, pc[t] # "idle"
  PROVE  /\ cmd[t].op \in {"LST", "RTV", "DEL", "REM", "UPL"}
         /\ cmd[t].op \in FileOps => cmd[t].file \in Files
         /\ cmd[t].op = "UPL" => cmd[t].size \in 0..MaxBatches
PROOF
  <1>1. cmd[t] \in Commands
    BY DEF TypeInv, PlaceInv
  <1> QED
    BY <1>1, CommandFields DEF Commands, FileOps

\* A thread that goes on with its command leaves the others idle.
LEMMA GoesOn ==
  ASSUME TypeInv, NEW t \in Threads, NEW b, AloneAt(t, b),
         NEW l, l # "idle", pc' = [pc EXCEPT ![t] = l], cmd' = cmd,
         AloneList(t, b)' /\ AloneRetrieve(t, b)' /\ AloneDelete(t, b)' /\ AloneRemove(t, b)' /\ AloneUpload(t, b)'
  PROVE  AloneAt(t, b)'
PROOF
  BY DEF AloneAt, TypeInv, TypeOK

----------------------------------------------------------------------------
\* list

LEMMA ListOpenDir ==
  ASSUME TypeInv, PlainInv, NEW t \in Threads, NEW b, AloneAt(t, b), cmd[t].op = "LST", OpenDir(t)
  PROVE  AloneNext(t, b)
PROOF
  <1>1. Store' = Store /\ Store = b /\ b.dir = dir /\ Present(b) = FileSet
    BY StoreKept, StoreFacts DEF OpenDir, AloneAt, AloneList
  <1>2. cmd' = cmd /\ dir' = dir
    BY DEF OpenDir, threadVars
  <1>3. CASE dir
    <2>1. pc' = [pc EXCEPT ![t] = "readDir"] /\ t \in opened'
      BY <1>3 DEF OpenDir, Goto
    <2>2. pc'[t] = "readDir"
      BY <2>1 DEF TypeInv, TypeOK
    <2>3. AloneList(t, b)'
      BY <1>1, <1>2, <1>3, <2>1, <2>2 DEF AloneList
    <2> QED
      BY <1>2, <2>1, <2>2, <2>3, GoesOn, OtherCommands DEF AloneNext
  <1>4. CASE ~dir
    <2>1. pc' = [pc EXCEPT ![t] = "reply"] /\ reply' = [reply EXCEPT ![t] = ReplyOf("ERR")]
      BY <1>4 DEF OpenDir, Answer, Goto
    <2>2. pc'[t] = "reply" /\ reply'[t].status = "ERR"
      BY <2>1 DEF TypeInv, TypeOK, PlainInv, ReplyOf
    <2>3. AloneList(t, b)'
      BY <1>1, <2>2 DEF AloneList
    <2>4. Sequential(cmd[t], b, Store', reply'[t])
      BY <1>1, <1>4, <2>2 DEF Sequential, SequentialList
    <2> QED
      BY <1>2, <2>1, <2>2, <2>3, <2>4, GoesOn, OtherCommands DEF AloneNext
  <1> QED
    BY <1>3, <1>4

LEMMA ListReadDir ==
  ASSUME TypeInv, PlainInv, NEW t \in Threads, NEW b, AloneAt(t, b), cmd[t].op = "LST", ReadDir(t)
  PROVE  AloneNext(t, b)
PROOF
  <1>1. Store' = Store /\ FileSet' = FileSet /\ Store = b /\ dir /\ t \in opened
    BY StoreKept DEF ReadDir, AloneAt, AloneList
  <1>2. cmd' = cmd /\ dir' = dir /\ found' = found /\ pc' = [pc EXCEPT ![t] = "stat"]
    BY DEF ReadDir, Goto
  <1>3. pc'[t] = "stat" /\ found[t] = {}
    BY <1>2 DEF TypeInv, TypeOK, PlainInv, ReadDir
  <1>4. todo'[t] = FileSet
    BY <1>1 DEF ReadDir, Names, TypeInv, TypeOK
  <1>5. AloneList(t, b)'
    BY <1>1, <1>2, <1>3, <1>4 DEF AloneList
  <1> QED
    BY <1>2, <1>3, <1>5, GoesOn, OtherCommands DEF AloneNext

LEMMA ListStatNext ==
  ASSUME TypeInv, PlainInv, NEW t \in Threads, NEW b, AloneAt(t, b), cmd[t].op = "LST",
         NEW f \in Files, StatNext(t, f)
  PROVE  AloneNext(t, b)
PROOF
  <1>1. Store' = Store /\ FileSet' = FileSet /\ Store = b
    BY StoreKept DEF StatNext, AloneAt, AloneList, storeVars
  <1>2. cmd' = cmd /\ dir' = dir /\ pc[t] = "stat" /\ f \in todo[t]
    BY DEF StatNext, storeVars
  <1>3. /\ dir /\ todo[t] \subseteq FileSet
        /\ found[t] = {<<g, Len(b.file[g])>> : g \in FileSet \ todo[t]}
    BY <1>2 DEF AloneAt, AloneList
  <1>4. inodeOf[f] # None /\ b.file[f] = content[inodeOf[f]]
    BY <1>1, <1>2, <1>3, StoreFacts DEF FileSet
  <1>5. pc' = pc /\ todo' = [todo EXCEPT ![t] = @ \ {f}]
        /\ found' = [found EXCEPT ![t] = @ \cup {<<f, Len(content[inodeOf[f]])>>}]
    BY <1>4 DEF StatNext
  <1>6. todo'[t] = todo[t] \ {f} /\ found'[t] = found[t] \cup {<<f, Len(b.file[f])>>}
    BY <1>4, <1>5 DEF PlainInv, TypeInv, TypeOK
  <1>7. FileSet \ todo'[t] = (FileSet \ todo[t]) \cup {f}
    BY <1>2, <1>3, <1>6
  <1>8. found'[t] = {<<g, Len(b.file[g])>> : g \in FileSet \ todo'[t]}
    BY <1>3, <1>6, <1>7
  <1>9. AloneList(t, b)'
    BY <1>1, <1>2, <1>3, <1>5, <1>6, <1>8 DEF AloneList
  <1>10. pc' = [pc EXCEPT ![t] = "stat"] /\ pc'[t] = "stat"
    BY <1>2, <1>5 DEF TypeInv, TypeOK
  <1> QED
    BY <1>2, <1>9, <1>10, GoesOn, OtherCommands DEF AloneNext

LEMMA ListReply ==
  ASSUME TypeInv, PlainInv, NEW t \in Threads, NEW b, AloneAt(t, b), cmd[t].op = "LST", ReplyList(t)
  PROVE  AloneNext(t, b)
PROOF
  <1>1. Store' = Store /\ Store = b /\ b.dir = dir /\ Present(b) = FileSet
    BY StoreKept, StoreFacts DEF ReplyList, Local, storeVars, AloneAt, AloneList
  <1>2. cmd' = cmd /\ pc[t] = "stat" /\ todo[t] = {} /\ pc' = [pc EXCEPT ![t] = "reply"]
    BY DEF ReplyList, Local, threadVars, Answer, Goto
  <1>3. pc'[t] = "reply"
    BY <1>2 DEF TypeInv, TypeOK
  <1>4. dir /\ found[t] = {<<g, Len(b.file[g])>> : g \in FileSet}
    BY <1>2 DEF AloneAt, AloneList
  <1>5. found[t] = {} <=> FileSet = {}
    BY <1>4
  <1>6. reply'[t] = IF found[t] = {} THEN ReplyOf("EOF") ELSE [status |-> "OK", list |-> found[t]]
    BY DEF ReplyList, Answer, PlainInv
  <1>7. SequentialList(b, Store', reply'[t])
    <2>1. SequentialList(b, Store', reply'[t]) <=>
            /\ Store' = b
            /\ reply'[t].status = IF ~b.dir THEN "ERR" ELSE IF Present(b) = {} THEN "EOF" ELSE "OK"
            /\ reply'[t].status = "OK" => reply'[t].list = {<<g, Len(b.file[g])>> : g \in Present(b)}
      BY DEF SequentialList, Present
    <2> QED
      BY <1>1, <1>4, <1>5, <1>6, <2>1 DEF ReplyOf
  <1>8. AloneList(t, b)'
    BY <1>1, <1>3 DEF AloneList
  <1> QED
    BY <1>2, <1>3, <1>7, <1>8, GoesOn, OtherCommands DEF AloneNext, Sequential
----------------------------------------------------------------------------
\* retrieve

LEMMA RetrieveCheckDir ==
  ASSUME TypeInv, PlainInv, NEW t \in Threads, NEW b, AloneAt(t, b), cmd[t].op = "RTV", CheckDir(t)
  PROVE  AloneNext(t, b)
PROOF
  <1>1. Store' = Store /\ Store = b /\ b.dir = dir
    BY StoreKept, StoreFacts DEF CheckDir, Local, storeVars, AloneAt, AloneRetrieve
  <1>2. cmd' = cmd /\ dir' = dir
    BY DEF CheckDir, Local, threadVars, storeVars
  <1>3. CASE dir
    <2>1. pc' = [pc EXCEPT ![t] = "open"]
      BY <1>3 DEF CheckDir, Goto
    <2>2. pc'[t] = "open"
      BY <2>1 DEF TypeInv, TypeOK
    <2>3. AloneRetrieve(t, b)'
      BY <1>1, <1>2, <1>3, <2>2 DEF AloneRetrieve
    <2> QED
      BY <1>2, <2>1, <2>2, <2>3, GoesOn, OtherCommands DEF AloneNext
  <1>4. CASE ~dir
    <2>1. pc' = [pc EXCEPT ![t] = "reply"] /\ reply' = [reply EXCEPT ![t] = ReplyOf("NOK")]
      BY <1>4 DEF CheckDir, Answer, Goto
    <2>2. pc'[t] = "reply" /\ reply'[t].status = "NOK"
      BY <2>1 DEF TypeInv, TypeOK, PlainInv, ReplyOf
    <2>3. AloneRetrieve(t, b)'
      BY <1>1, <2>2 DEF AloneRetrieve
    <2>4. Sequential(cmd[t], b, Store', reply'[t])
      BY <1>1, <1>4, <2>2 DEF Sequential, SequentialRetrieve
    <2> QED
      BY <1>2, <2>1, <2>2, <2>3, <2>4, GoesOn, OtherCommands DEF AloneNext
  <1> QED
    BY <1>3, <1>4

LEMMA RetrieveOpen ==
  ASSUME TypeInv, PlainInv, NEW t \in Threads, NEW b, AloneAt(t, b), cmd[t].op = "RTV", OpenToRead(t)
  PROVE  AloneNext(t, b)
PROOF
  <1> DEFINE f == cmd[t].file
  <1>1. Store' = Store /\ Store = b /\ b.dir = dir
    BY StoreKept, StoreFacts DEF OpenToRead, storeVars, AloneAt, AloneRetrieve
  <1>2. cmd' = cmd /\ dir' = dir /\ inodeOf' = inodeOf /\ pc[t] = "open"
    BY DEF OpenToRead, storeVars
  <1>3. dir
    BY <1>2 DEF AloneAt, AloneRetrieve
  <1>4. f \in Files
    BY <1>2, OpType DEF FileOps
  <1>5. CASE inodeOf[f] = None
    <2>1. pc' = [pc EXCEPT ![t] = "reply"] /\ reply' = [reply EXCEPT ![t] = ReplyOf("EOF")]
      BY <1>5 DEF OpenToRead, Answer, Goto
    <2>2. pc'[t] = "reply" /\ reply'[t].status = "EOF"
      BY <2>1 DEF TypeInv, TypeOK, PlainInv, ReplyOf
    <2>3. AloneRetrieve(t, b)'
      BY <1>1, <2>2 DEF AloneRetrieve
    <2>4. b.file[f] = None
      BY <1>1, <1>4, <1>5, StoreFacts
    <2>5. Sequential(cmd[t], b, Store', reply'[t])
      BY <1>1, <1>3, <2>2, <2>4 DEF Sequential, SequentialRetrieve
    <2> QED
      BY <1>2, <2>1, <2>2, <2>3, <2>5, GoesOn, OtherCommands DEF AloneNext
  <1>6. CASE inodeOf[f] # None
    <2>1. pc' = [pc EXCEPT ![t] = "statFile"] /\ handle' = [handle EXCEPT ![t] = inodeOf[f]]
      BY <1>6 DEF OpenToRead, Goto
    <2>2. pc'[t] = "statFile" /\ handle'[t] = inodeOf[f]
      BY <2>1 DEF TypeInv, TypeOK
    <2>3. AloneRetrieve(t, b)'
      BY <1>1, <1>2, <1>3, <1>6, <2>2 DEF AloneRetrieve
    <2> QED
      BY <1>2, <2>1, <2>2, <2>3, GoesOn, OtherCommands DEF AloneNext
  <1> QED
    BY <1>5, <1>6

LEMMA RetrieveStat ==
  ASSUME TypeInv, PlainInv, NEW t \in Threads, NEW b, AloneAt(t, b), cmd[t].op = "RTV", StatFile(t)
  PROVE  AloneNext(t, b)
PROOF
  <1> DEFINE f == cmd[t].file
  <1>1. Store' = Store /\ Store = b
    BY StoreKept DEF StatFile, storeVars, AloneAt, AloneRetrieve
  <1>2. cmd' = cmd /\ dir' = dir /\ inodeOf' = inodeOf /\ content' = content /\ handle' = handle
        /\ pc[t] = "statFile" /\ pc' = [pc EXCEPT ![t] = "fread"]
    BY DEF StatFile, storeVars, Goto
  <1>3. dir /\ inodeOf[f] # None /\ handle[t] = inodeOf[f]
    BY <1>2 DEF AloneAt, AloneRetrieve
  <1>4. left' = [left EXCEPT ![t] = Len(content[inodeOf[f]])]
    BY <1>3 DEF StatFile
  <1>5. pc'[t] = "fread" /\ left'[t] = Len(content[inodeOf[f]])
    BY <1>2, <1>4 DEF TypeInv, TypeOK
  <1>6. AloneRetrieve(t, b)'
    BY <1>1, <1>2, <1>3, <1>5 DEF AloneRetrieve
  <1> QED
    BY <1>2, <1>5, <1>6, GoesOn, OtherCommands DEF AloneNext

\* The whole of a content is what SubSeq reads up to its length.
LEMMA WholeContent ==
  ASSUME NEW c \in Content
  PROVE  Len(c) \in Nat /\ SubSeq(c, 1, Len(c)) = c
PROOF
  <1>1. PICK m \in 0..MaxBatches : c \in [1..m -> Batches]
    BY DEF Content
  <1>2. Len(c) = m /\ m \in Nat
    BY <1>1, ConstantsAssumption
  <1>3. SubSeq(c, 1, m) = c
    BY <1>1, <1>2
  <1> QED
    BY <1>2, <1>3

LEMMA RetrieveRead ==
  ASSUME TypeInv, PlainInv, NEW t \in Threads, NEW b, AloneAt(t, b), cmd[t].op = "RTV", ReadFile(t)
  PROVE  AloneNext(t, b)
PROOF
  <1> DEFINE f == cmd[t].file
             c == content[handle[t]]
  <1>1. Store' = Store /\ Store = b /\ b.dir = dir
    BY StoreKept, StoreFacts DEF ReadFile, Local, storeVars, AloneAt, AloneRetrieve
  <1>2. cmd' = cmd /\ pc[t] = "fread" /\ pc' = [pc EXCEPT ![t] = "reply"]
    BY DEF ReadFile, Local, threadVars, Answer, Goto
  <1>3. dir /\ inodeOf[f] # None /\ handle[t] = inodeOf[f] /\ left[t] = Len(c)
    BY <1>2 DEF AloneAt, AloneRetrieve
  <1>4. f \in Files
    BY <1>2, OpType DEF FileOps
  <1>5. c \in Content
    BY <1>3, <1>4 DEF TypeInv, TypeOK
  <1>6. b.file[f] = c /\ b.file[f] # None
    BY <1>1, <1>3, <1>4, StoreFacts
  <1>7. reply'[t] = [status |-> "OK", size |-> left[t],
                     data |-> SubSeq(c, 1, IF Len(c) < left[t] THEN Len(c) ELSE left[t])]
    BY DEF ReadFile, Answer, PlainInv
  <1>8. reply'[t].status = "OK" /\ reply'[t].size = Len(c) /\ reply'[t].data = SubSeq(c, 1, Len(c))
    BY <1>3, <1>7
  <1>9. reply'[t].data = c
    BY <1>5, <1>8, WholeContent
  <1> HIDE DEF c, f
  <1>10. SequentialRetrieve(f, b, Store', reply'[t])
    BY <1>1, <1>3, <1>6, <1>8, <1>9 DEF SequentialRetrieve
  <1>11. pc'[t] = "reply"
    BY <1>2 DEF TypeInv, TypeOK
  <1>12. AloneRetrieve(t, b)'
    BY <1>1, <1>11 DEF AloneRetrieve
  <1> QED
    BY <1>2, <1>10, <1>11, <1>12, GoesOn, OtherCommands DEF AloneNext, Sequential, f

----------------------------------------------------------------------------
\* deleteC

LEMMA DeleteCheckDir ==
  ASSUME TypeInv, PlainInv, NEW t \in Threads, NEW b, AloneAt(t, b), cmd[t].op = "DEL", CheckDir(t)
  PROVE  AloneNext(t, b)
PROOF
  <1>1. pc[t] = "checkDir" /\ cmd' = cmd /\ dir' = dir
    BY DEF CheckDir, Local, threadVars, storeVars
  <1>2. Store' = Store /\ FileSet' = FileSet /\ Store = b /\ b.dir = dir
    BY <1>1, StoreKept, StoreFacts DEF CheckDir, Local, storeVars, AloneAt, AloneDelete
  <1>3. CASE dir
    <2>1. pc' = [pc EXCEPT ![t] = "open"]
      BY <1>3 DEF CheckDir, Goto
    <2>2. pc'[t] = "open"
      BY <2>1 DEF TypeInv, TypeOK
    <2>3. AloneDelete(t, b)'
      BY <1>1, <1>2, <1>3, <2>2 DEF AloneDelete
    <2> QED
      BY <1>1, <2>1, <2>2, <2>3, GoesOn, OtherCommands DEF AloneNext
  <1>4. CASE ~dir
    <2>1. pc' = [pc EXCEPT ![t] = "reply"] /\ reply' = [reply EXCEPT ![t] = ReplyOf("NOK")]
      BY <1>4 DEF CheckDir, Answer, Goto
    <2>2. pc'[t] = "reply" /\ reply'[t].status = "NOK"
      BY <2>1 DEF TypeInv, TypeOK, PlainInv, ReplyOf
    <2>3. AloneDelete(t, b)'
      BY <2>2 DEF AloneDelete
    <2>4. cmd[t].file \in Files /\ inodeOf[cmd[t].file] = None
      BY <1>1, <1>4, OpType DEF FileOps, FileSet, TypeInv, TypeOK
    <2>5. [Store EXCEPT !.file[cmd[t].file] = None] = Store
      BY <2>4 DEF Store
    <2>6. Sequential(cmd[t], b, Store', reply'[t])
      BY <1>2, <1>4, <2>2, <2>5 DEF Sequential, SequentialDelete
    <2> QED
      BY <1>1, <2>1, <2>2, <2>3, <2>6, GoesOn, OtherCommands DEF AloneNext
  <1> QED
    BY <1>3, <1>4

LEMMA DeleteOpen ==
  ASSUME TypeInv, PlainInv, NEW t \in Threads, NEW b, AloneAt(t, b), cmd[t].op = "DEL", OpenToRead(t)
  PROVE  AloneNext(t, b)
PROOF
  <1> DEFINE f == cmd[t].file
  <1>1. cmd' = cmd /\ dir' = dir /\ inodeOf' = inodeOf /\ pc[t] = "open"
    BY DEF OpenToRead, storeVars
  <1>2. Store' = Store /\ Store = b /\ b.dir = dir
    BY <1>1, StoreKept, StoreFacts DEF OpenToRead, storeVars, AloneAt, AloneDelete
  <1>3. dir
    BY <1>1 DEF AloneAt, AloneDelete
  <1>4. f \in Files
    BY <1>1, OpType DEF FileOps
  <1>5. CASE inodeOf[f] = None
    <2>1. pc' = [pc EXCEPT ![t] = "reply"] /\ reply' = [reply EXCEPT ![t] = ReplyOf("EOF")]
      BY <1>5 DEF OpenToRead, Answer, Goto
    <2>2. pc'[t] = "reply" /\ reply'[t].status = "EOF"
      BY <2>1 DEF TypeInv, TypeOK, PlainInv, ReplyOf
    <2>3. AloneDelete(t, b)'
      BY <2>2 DEF AloneDelete
    <2>4. b.file[f] = None
      BY <1>2, <1>4, <1>5, StoreFacts
    <2>5. [Store EXCEPT !.file[f] = None] = Store
      BY <1>4, <1>5 DEF Store
    <2>6. Sequential(cmd[t], b, Store', reply'[t])
      BY <1>2, <1>3, <2>2, <2>4, <2>5 DEF Sequential, SequentialDelete
    <2> QED
      BY <1>1, <2>1, <2>2, <2>3, <2>6, GoesOn, OtherCommands DEF AloneNext
  <1>6. CASE inodeOf[f] # None
    <2>1. pc' = [pc EXCEPT ![t] = "unlink"]
      BY <1>6 DEF OpenToRead, Goto
    <2>2. pc'[t] = "unlink"
      BY <2>1 DEF TypeInv, TypeOK
    <2>3. AloneDelete(t, b)'
      BY <1>1, <1>2, <1>3, <1>6, <2>2 DEF AloneDelete
    <2> QED
      BY <1>1, <2>1, <2>2, <2>3, GoesOn, OtherCommands DEF AloneNext
  <1> QED
    BY <1>5, <1>6

LEMMA DeleteUnlink ==
  ASSUME TypeInv, PlainInv, NEW t \in Threads, NEW b, AloneAt(t, b), cmd[t].op = "DEL", Unlink(t)
  PROVE  AloneNext(t, b)
PROOF
  <1> DEFINE f == cmd[t].file
  <1>1. /\ cmd' = cmd /\ pc[t] = "unlink" /\ pc' = [pc EXCEPT ![t] = "reply"]
        /\ reply' = [reply EXCEPT ![t] = ReplyOf("OK")]
        /\ dir' = dir /\ content' = content /\ inodeOf' = [inodeOf EXCEPT ![f] = None]
    BY DEF Unlink, threadVars, Answer, Goto
  <1>2. Store = b /\ dir /\ inodeOf[f] # None
    BY <1>1 DEF AloneAt, AloneDelete
  <1>3. f \in Files
    BY <1>1, OpType DEF FileOps
  <1>4. Store' = [Store EXCEPT !.file[f] = None]
    <2>1. \A g \in Files : inodeOf'[g] = IF g = f THEN None ELSE inodeOf[g]
      BY <1>1, <1>3 DEF TypeInv, TypeOK
    <2> HIDE DEF f
    <2> DEFINE now == [g \in Files |-> IF inodeOf[g] = None THEN None ELSE content[inodeOf[g]]]
               next == [g \in Files |-> IF inodeOf'[g] = None THEN None ELSE content'[inodeOf'[g]]]
    <2>2. next = [now EXCEPT ![f] = None]
      <3>1. \A g \in Files : next[g] = IF g = f THEN None ELSE now[g]
        BY <1>1, <2>1
      <3> QED
        BY <3>1
    <2>3. Store = [dir |-> dir, file |-> now] /\ Store' = [dir |-> dir', file |-> next]
      BY DEF Store
    <2> HIDE DEF now, next
    <2> QED
      BY <1>1, <2>2, <2>3
  <1>5. b.dir /\ b.file[f] # None
    BY <1>2, <1>3, StoreFacts
  <1>6. pc'[t] = "reply" /\ reply'[t].status = "OK"
    BY <1>1 DEF TypeInv, TypeOK, PlainInv, ReplyOf
  <1>7. AloneDelete(t, b)'
    BY <1>6 DEF AloneDelete
  <1>8. Sequential(cmd[t], b, Store', reply'[t])
    BY <1>2, <1>4, <1>5, <1>6 DEF Sequential, SequentialDelete
  <1> QED
    BY <1>1, <1>6, <1>7, <1>8, GoesOn, OtherCommands DEF AloneNext

----------------------------------------------------------------------------
\* removeC

LEMMA RemoveOpenDir ==
  ASSUME TypeInv, PlainInv, NEW t \in Threads, NEW b, AloneAt(t, b), cmd[t].op = "REM", OpenDir(t)
  PROVE  AloneNext(t, b)
PROOF
  <1>1. pc[t] = "openDir" /\ cmd' = cmd
    BY DEF OpenDir, threadVars
  <1>2. Store' = Store /\ FileSet' = FileSet /\ Store = b /\ b.dir = dir
    BY <1>1, StoreKept, StoreFacts DEF OpenDir, AloneAt, AloneRemove
  <1>3. CASE dir
    <2>1. pc' = [pc EXCEPT ![t] = "readDir"] /\ t \in opened'
      BY <1>3 DEF OpenDir, Goto
    <2>2. pc'[t] = "readDir"
      BY <2>1 DEF TypeInv, TypeOK
    <2>3. AloneRemove(t, b)'
      BY <1>2, <1>3, <2>1, <2>2 DEF AloneRemove
    <2> QED
      BY <1>1, <2>1, <2>2, <2>3, GoesOn, OtherCommands DEF AloneNext
  <1>4. CASE ~dir
    <2>1. pc' = [pc EXCEPT ![t] = "reply"] /\ reply' = [reply EXCEPT ![t] = ReplyOf("NOK")]
      BY <1>4 DEF OpenDir, Answer, Goto
    <2>2. pc'[t] = "reply" /\ reply'[t].status = "NOK"
      BY <2>1 DEF TypeInv, TypeOK, PlainInv, ReplyOf
    <2>3. AloneRemove(t, b)'
      BY <2>2 DEF AloneRemove
    <2>4. FileSet = {}
      BY <1>4 DEF TypeInv, TypeOK
    <2>5. \A f \in Files : b.file[f] = None
      BY <1>2, <2>4, StoreFacts DEF FileSet
    <2>6. Sequential(cmd[t], b, Store', reply'[t])
      BY <1>2, <1>4, <2>2, <2>5 DEF Sequential, SequentialRemove
    <2> QED
      BY <1>1, <2>1, <2>2, <2>3, <2>6, GoesOn, OtherCommands DEF AloneNext
  <1> QED
    BY <1>3, <1>4

LEMMA RemoveReadDir ==
  ASSUME TypeInv, PlainInv, NEW t \in Threads, NEW b, AloneAt(t, b), cmd[t].op = "REM", ReadDir(t)
  PROVE  AloneNext(t, b)
PROOF
  <1>1. pc[t] = "readDir" /\ cmd' = cmd /\ pc' = [pc EXCEPT ![t] = "remove"]
    BY DEF ReadDir, Goto
  <1>2. FileSet' = FileSet /\ b.dir /\ t \in opened
    BY <1>1, StoreKept DEF ReadDir, AloneAt, AloneRemove
  <1>3. pc'[t] = "remove" /\ todo'[t] = FileSet
    BY <1>1, <1>2 DEF ReadDir, Names, TypeInv, TypeOK
  <1>4. AloneRemove(t, b)'
    BY <1>2, <1>3 DEF AloneRemove
  <1> QED
    BY <1>1, <1>3, <1>4, GoesOn, OtherCommands DEF AloneNext

LEMMA RemoveRemoveNext ==
  ASSUME TypeInv, PlainInv, NEW t \in Threads, NEW b, AloneAt(t, b), cmd[t].op = "REM",
         NEW f \in Files, RemoveNext(t, f)
  PROVE  AloneNext(t, b)
PROOF
  <1>1. pc[t] = "remove" /\ cmd' = cmd /\ pc' = pc
    BY DEF RemoveNext
  <1>2. b.dir /\ FileSet \subseteq todo[t]
    BY <1>1 DEF AloneAt, AloneRemove
  <1>3. todo'[t] = todo[t] \ {f} /\ FileSet' = FileSet \ {f}
    BY DEF RemoveNext, TypeInv, TypeOK, FileSet
  <1>4. AloneRemove(t, b)'
    BY <1>1, <1>2, <1>3 DEF AloneRemove
  <1>5. pc' = [pc EXCEPT ![t] = "remove"] /\ pc'[t] = "remove"
    BY <1>1 DEF TypeInv, TypeOK
  <1> QED
    BY <1>1, <1>4, <1>5, GoesOn, OtherCommands DEF AloneNext

LEMMA RemoveRmDir ==
  ASSUME TypeInv, PlainInv, NEW t \in Threads, NEW b, AloneAt(t, b), cmd[t].op = "REM", RmDir(t)
  PROVE  AloneNext(t, b)
PROOF
  <1>1. /\ pc[t] = "remove" /\ cmd' = cmd /\ pc' = [pc EXCEPT ![t] = "reply"] /\ todo[t] = {}
        /\ reply' = [reply EXCEPT ![t] = ReplyOf("OK")]
    BY DEF RmDir, threadVars, Answer, Goto
  <1>2. b.dir /\ FileSet = {}
    BY <1>1 DEF AloneAt, AloneRemove
  <1>3. ~dir' /\ inodeOf' = inodeOf
    BY <1>2 DEF RmDir
  <1>4. ~Store'.dir /\ \A f \in Files : Store'.file[f] = None
    BY <1>2, <1>3 DEF Store, FileSet
  <1>5. pc'[t] = "reply" /\ reply'[t].status = "OK"
    BY <1>1 DEF TypeInv, TypeOK, PlainInv, ReplyOf
  <1>6. AloneRemove(t, b)'
    BY <1>5 DEF AloneRemove
  <1>7. Sequential(cmd[t], b, Store', reply'[t])
    BY <1>1, <1>2, <1>4, <1>5 DEF Sequential, SequentialRemove
  <1> QED
    BY <1>1, <1>5, <1>6, <1>7, GoesOn, OtherCommands DEF AloneNext
----------------------------------------------------------------------------
\* upload

\* While nothing was written, the files are those the command began with.
LEMMA SameFiles ==
  ASSUME TypeInv, NEW b, Store.file = b.file
  PROVE  /\ Present(b) = FileSet
         /\ \A f \in Files : b.file[f] = None <=> inodeOf[f] = None
PROOF
  <1>1. Present(Store) = Present(b)
    BY DEF Present
  <1> QED
    BY <1>1, StoreFacts

\* The three ways an upload is refused: nothing has changed but the directory.
LEMMA Refused ==
  ASSUME TypeInv, NEW t \in Threads, NEW b, cmd[t].op = "UPL",
         dir, UNCHANGED <<dir, inodeOf, content>>, Store.file = b.file,
         \/ Cardinality(Present(b)) >= MaxFiles /\ reply'[t].status = "FULL"
         \/ ~(Cardinality(Present(b)) >= MaxFiles) /\ b.file[cmd[t].file] # None /\ reply'[t].status = "DUP"
  PROVE  Sequential(cmd[t], b, Store', reply'[t])
PROOF
  <1>1. Store' = Store /\ Store.dir
    BY StoreKept, StoreFacts
  <1> DEFINE f == cmd[t].file
             full == Cardinality(Present(b)) >= MaxFiles
             refused == full \/ b.file[f] # None
  <1>2. SequentialUpload(f, cmd[t].size, b, Store', reply'[t]) <=>
          /\ Store'.dir
          /\ \A g \in Files \ {f} : Store'.file[g] = b.file[g]
          /\ IF refused THEN reply'[t].status = (IF full THEN "FULL" ELSE "DUP") /\ Store'.file[f] = b.file[f]
             ELSE reply'[t].status = "OK" /\ Len(Store'.file[f]) = cmd[t].size
    BY DEF SequentialUpload, Present
  <1> QED
    BY <1>1, <1>2 DEF Sequential

LEMMA UploadCheckDir ==
  ASSUME TypeInv, PlainInv, NEW t \in Threads, NEW b, AloneAt(t, b), cmd[t].op = "UPL",
         CheckDir(t) \/ MakeDir(t)
  PROVE  AloneNext(t, b)
PROOF
  <1>1. pc[t] \in {"checkDir", "mkdir"} /\ cmd' = cmd /\ inodeOf' = inodeOf /\ content' = content
    BY DEF CheckDir, MakeDir, Local, threadVars, storeVars
  <1>2. Store.file = b.file
    BY <1>1 DEF AloneAt, AloneUpload
  <1>3. Store'.file = b.file
    BY <1>1, <1>2 DEF Store
  <1>4. PICK l \in {"openDir", "mkdir"} : pc' = [pc EXCEPT ![t] = l] /\ (l = "openDir" => dir')
    BY DEF CheckDir, MakeDir, Goto, Local, storeVars
  <1>5. pc'[t] = l
    BY <1>4 DEF TypeInv, TypeOK
  <1>6. AloneUpload(t, b)'
    BY <1>3, <1>4, <1>5 DEF AloneUpload
  <1> QED
    BY <1>1, <1>4, <1>5, <1>6, GoesOn, OtherCommands DEF AloneNext

LEMMA UploadOpenDir ==
  ASSUME TypeInv, PlainInv, NEW t \in Threads, NEW b, AloneAt(t, b), cmd[t].op = "UPL", OpenDir(t)
  PROVE  AloneNext(t, b)
PROOF
  <1>1. pc[t] = "openDir" /\ cmd' = cmd
    BY DEF OpenDir, threadVars
  <1>2. Store' = Store /\ Store.file = b.file /\ dir /\ dir' = dir
    BY <1>1, StoreKept DEF OpenDir, AloneAt, AloneUpload
  <1>3. pc' = [pc EXCEPT ![t] = "readDir"] /\ t \in opened'
    BY <1>2 DEF OpenDir, Goto
  <1>4. pc'[t] = "readDir"
    BY <1>3 DEF TypeInv, TypeOK
  <1>5. AloneUpload(t, b)'
    BY <1>2, <1>3, <1>4 DEF AloneUpload
  <1> QED
    BY <1>1, <1>3, <1>4, <1>5, GoesOn, OtherCommands DEF AloneNext

LEMMA UploadCount ==
  ASSUME TypeInv, PlainInv, NEW t \in Threads, NEW b, AloneAt(t, b), cmd[t].op = "UPL", CountFiles(t)
  PROVE  AloneNext(t, b)
PROOF
  <1>1. pc[t] = "readDir" /\ cmd' = cmd /\ UNCHANGED <<dir, inodeOf, content>>
    BY DEF CountFiles, threadVars
  <1>2. Store' = Store /\ Store.file = b.file /\ dir /\ t \in opened
    BY <1>1, StoreKept DEF AloneAt, AloneUpload
  <1>3. Names(t) = Present(b) /\ Cardinality(Present(b)) \in Nat
    BY <1>2, SameFiles, SetsAreFinite DEF Names, FileSet
  <1>4. CASE Cardinality(Names(t)) >= MaxFiles
    <2>1. pc' = [pc EXCEPT ![t] = "reply"] /\ reply' = [reply EXCEPT ![t] = ReplyOf("FULL")]
      BY <1>4 DEF CountFiles, Answer, Goto
    <2>2. pc'[t] = "reply" /\ reply'[t].status = "FULL"
      BY <2>1 DEF TypeInv, TypeOK, PlainInv, ReplyOf
    <2>3. AloneUpload(t, b)'
      BY <2>2 DEF AloneUpload
    <2>4. Sequential(cmd[t], b, Store', reply'[t])
      BY <1>1, <1>2, <1>3, <1>4, <2>2, Refused
    <2> QED
      BY <1>1, <2>1, <2>2, <2>3, <2>4, GoesOn, OtherCommands DEF AloneNext
  <1>5. CASE ~(Cardinality(Names(t)) >= MaxFiles)
    <2>1. pc' = [pc EXCEPT ![t] = "access"]
      BY <1>5 DEF CountFiles, Goto
    <2>2. pc'[t] = "access"
      BY <2>1 DEF TypeInv, TypeOK
    <2>3. Cardinality(Present(b)) < MaxFiles
      BY <1>3, <1>5, ConstantsAssumption
    <2>4. AloneUpload(t, b)'
      BY <1>1, <1>2, <2>2, <2>3 DEF AloneUpload
    <2> QED
      BY <1>1, <2>1, <2>2, <2>4, GoesOn, OtherCommands DEF AloneNext
  <1> QED
    BY <1>4, <1>5

LEMMA UploadAccess ==
  ASSUME TypeInv, PlainInv, NEW t \in Threads, NEW b, AloneAt(t, b), cmd[t].op = "UPL", CheckDuplicate(t)
  PROVE  AloneNext(t, b)
PROOF
  <1> DEFINE f == cmd[t].file
  <1>1. pc[t] = "access" /\ cmd' = cmd /\ UNCHANGED <<dir, inodeOf, content>>
    BY DEF CheckDuplicate, Local, storeVars, threadVars
  <1>2. Store' = Store /\ Store.file = b.file /\ dir /\ Cardinality(Present(b)) < MaxFiles
    BY <1>1, StoreKept DEF AloneAt, AloneUpload
  <1>3. f \in Files /\ (b.file[f] = None <=> inodeOf[f] = None)
    BY <1>1, <1>2, OpType, SameFiles DEF FileOps
  <1>4. ~(Cardinality(Present(b)) >= MaxFiles)
    BY <1>2, SameFiles, SetsAreFinite, ConstantsAssumption DEF FileSet
  <1>5. CASE inodeOf[f] # None
    <2>1. pc' = [pc EXCEPT ![t] = "reply"] /\ reply' = [reply EXCEPT ![t] = ReplyOf("DUP")]
      BY <1>5 DEF CheckDuplicate, Answer, Goto
    <2>2. pc'[t] = "reply" /\ reply'[t].status = "DUP"
      BY <2>1 DEF TypeInv, TypeOK, PlainInv, ReplyOf
    <2>3. AloneUpload(t, b)'
      BY <2>2 DEF AloneUpload
    <2>4. Sequential(cmd[t], b, Store', reply'[t])
      BY <1>1, <1>2, <1>3, <1>4, <1>5, <2>2, Refused
    <2> QED
      BY <1>1, <2>1, <2>2, <2>3, <2>4, GoesOn, OtherCommands DEF AloneNext
  <1>6. CASE inodeOf[f] = None
    <2>1. pc' = [pc EXCEPT ![t] = "create"]
      BY <1>6 DEF CheckDuplicate, Goto
    <2>2. pc'[t] = "create"
      BY <2>1 DEF TypeInv, TypeOK
    <2>3. AloneUpload(t, b)'
      BY <1>1, <1>2, <1>3, <1>6, <2>2 DEF AloneUpload
    <2> QED
      BY <1>1, <2>1, <2>2, <2>3, GoesOn, OtherCommands DEF AloneNext
  <1> QED
    BY <1>5, <1>6

\* fopen(): the inode is new, so that no other file loses its content.
LEMMA UploadCreate ==
  ASSUME TypeInv, PlainInv, RemoveInv, NEW t \in Threads, NEW b, AloneAt(t, b), cmd[t].op = "UPL", CreateFile(t)
  PROVE  AloneNext(t, b)
PROOF
  <1> DEFINE f == cmd[t].file
             i == conn[t]
  <1>1. pc[t] = "create" /\ cmd' = cmd /\ dir' = dir /\ pc' = [pc EXCEPT ![t] = "fwrite"]
    BY DEF CreateFile, Goto
  <1>2. Store.file = b.file /\ dir /\ Cardinality(Present(b)) < MaxFiles /\ b.file[f] = None
    BY <1>1 DEF AloneAt, AloneUpload
  <1>3. f \in Files /\ inodeOf[f] = None /\ cmd[t].size \in 0..MaxBatches
    BY <1>1, <1>2, OpType, SameFiles DEF FileOps
  <1>4. i \in 1..conns /\ conns \in 0..MaxConnections
    BY <1>1 DEF TypeInv, TypeOK, PlaceInv
  <1>5. i \in Inodes /\ i # None /\ \A g \in Files : inodeOf[g] # i
    <2>1. i \in 1..MaxConnections /\ i \in Nat
      BY <1>4, ConstantsAssumption
    <2>2. \A g \in FileSet : inodeOf[g] # i
      BY <1>1 DEF RemoveInv, FreshInv, BeforeCreate
    <2> QED
      BY <2>1, <2>2, ConstantsAssumption DEF Inodes, FileSet
  <1>6. /\ inodeOf' = [inodeOf EXCEPT ![f] = i] /\ content' = [content EXCEPT ![i] = <<>>]
        /\ handle' = [handle EXCEPT ![t] = i]
        /\ left' = [left EXCEPT ![t] = cmd[t].size] /\ offset' = [offset EXCEPT ![t] = 0]
    BY <1>2, <1>3, <1>5 DEF CreateFile
  <1>7. /\ inodeOf'[f] = i /\ content'[i] = <<>> /\ handle'[t] = i
        /\ left'[t] = cmd[t].size /\ offset'[t] = 0 /\ pc'[t] = "fwrite"
        /\ \A g \in Files \ {f} : inodeOf'[g] = inodeOf[g]
        /\ \A j \in Inodes \ {i} : content'[j] = content[j]
    BY <1>1, <1>3, <1>5, <1>6 DEF TypeInv, TypeOK
  <1> HIDE DEF f, i
  <1>8. \A g \in Files \ {f} : inodeOf'[g] # i /\ Store'.file[g] = b.file[g]
    <2>1. ASSUME NEW g \in Files \ {f} PROVE inodeOf'[g] # i /\ Store'.file[g] = Store.file[g]
      <3>1. inodeOf'[g] = inodeOf[g] /\ inodeOf[g] # i
        BY <1>5, <1>7
      <3>2. inodeOf[g] # None => content'[inodeOf[g]] = content[inodeOf[g]]
        BY <1>7, <3>1 DEF TypeInv, TypeOK
      <3> QED
        BY <3>1, <3>2 DEF Store
    <2> QED
      BY <1>2, <2>1
  <1>9. Len(content'[i]) = 0 /\ left'[t] + offset'[t] = cmd[t].size
    BY <1>3, <1>7, ConstantsAssumption
  <1>10. AloneUpload(t, b)'
    BY <1>1, <1>2, <1>5, <1>7, <1>8, <1>9 DEF AloneUpload, f
  <1> QED
    BY <1>1, <1>7, <1>10, GoesOn, OtherCommands DEF AloneNext

\* A batch at the end of a content makes it one longer.
LEMMA Appended ==
  ASSUME NEW c \in Content, NEW v
  PROVE  Len(WriteAt(c, Len(c), v)) = Len(c) + 1
PROOF
  <1>1. Len(c) \in Nat
    BY ContentFacts, ConstantsAssumption
  <1>2. WriteAt(c, Len(c), v) =
          [k \in 1..(Len(c) + 1) |-> IF k = Len(c) + 1 THEN v ELSE IF k <= Len(c) THEN c[k] ELSE Stale]
    BY <1>1 DEF WriteAt
  <1> QED
    BY <1>1, <1>2

LEMMA UploadWrite ==
  ASSUME TypeInv, PlainInv, NEW t \in Threads, NEW b, AloneAt(t, b), cmd[t].op = "UPL", WriteBatch(t)
  PROVE  AloneNext(t, b)
PROOF
  <1> DEFINE f == cmd[t].file
             i == handle[t]
  <1>1. /\ pc[t] = "fwrite" /\ cmd' = cmd /\ pc' = pc /\ UNCHANGED <<dir, inodeOf, handle>>
        /\ left' = [left EXCEPT ![t] = @ - 1] /\ offset' = [offset EXCEPT ![t] = @ + 1] /\ left[t] > 0
    BY DEF WriteBatch
  <1>2. /\ dir /\ Cardinality(Present(b)) < MaxFiles /\ b.file[f] = None
        /\ i # None /\ i = inodeOf[f]
        /\ \A g \in Files \ {f} : inodeOf[g] # i /\ Store.file[g] = b.file[g]
        /\ Len(content[i]) = offset[t] /\ left[t] + offset[t] = cmd[t].size
    BY <1>1 DEF AloneAt, AloneUpload
  <1>3. f \in Files
    BY <1>1, OpType DEF FileOps
  <1>4. i \in Inodes /\ content[i] \in Content /\ left[t] \in 0..MaxBatches /\ offset[t] \in 0..MaxBatches
    BY <1>2 DEF TypeInv, TypeOK
  <1>5. PICK v : content' = [content EXCEPT ![i] = WriteAt(content[i], offset[t], v)]
    BY DEF WriteBatch
  <1>6. /\ content'[i] = WriteAt(content[i], offset[t], v)
        /\ \A j \in Inodes \ {i} : content'[j] = content[j]
    BY <1>4, <1>5 DEF TypeInv, TypeOK
  <1>7. left'[t] = left[t] - 1 /\ offset'[t] = offset[t] + 1 /\ pc'[t] = "fwrite"
    BY <1>1 DEF TypeInv, TypeOK
  <1>8. Len(content'[i]) = offset'[t]
    BY <1>2, <1>4, <1>6, <1>7, Appended
  <1>9. left'[t] + offset'[t] = cmd[t].size
    <2>1. left[t] + offset[t] = cmd[t].size
      BY <1>2
    <2>2. left[t] \in Nat /\ offset[t] \in Nat
      BY <1>4, ConstantsAssumption
    <2>3. (left[t] - 1) + (offset[t] + 1) = left[t] + offset[t]
      BY <2>2
    <2> QED
      BY <1>7, <2>1, <2>3
  <1> HIDE DEF f, i
  <1>10. \A g \in Files \ {f} : inodeOf'[g] # i /\ Store'.file[g] = b.file[g]
    <2>1. ASSUME NEW g \in Files \ {f} PROVE Store'.file[g] = Store.file[g]
      <3>1. inodeOf'[g] = inodeOf[g] /\ inodeOf[g] # i
        BY <1>1, <1>2
      <3>2. inodeOf[g] # None => content'[inodeOf[g]] = content[inodeOf[g]]
        BY <1>6, <3>1 DEF TypeInv, TypeOK
      <3> QED
        BY <3>1, <3>2 DEF Store
    <2> QED
      BY <1>1, <1>2, <2>1
  <1>11. handle'[t] = i
    BY <1>1 DEF i
  <1>12. AloneUpload(t, b)'
    BY <1>1, <1>2, <1>7, <1>8, <1>9, <1>10, <1>11 DEF AloneUpload, f
  <1>13. pc' = [pc EXCEPT ![t] = "fwrite"]
    BY <1>1 DEF TypeInv, TypeOK
  <1> QED
    BY <1>1, <1>7, <1>12, <1>13, GoesOn, OtherCommands DEF AloneNext

LEMMA UploadClose ==
  ASSUME TypeInv, PlainInv, NEW t \in Threads, NEW b, AloneAt(t, b), cmd[t].op = "UPL",
         UploadError(t) \/ CloseFile(t)
  PROVE  AloneNext(t, b)
PROOF
  <1> DEFINE f == cmd[t].file
  <1>1. /\ pc[t] = "fwrite" /\ cmd' = cmd /\ pc' = [pc EXCEPT ![t] = "reply"]
        /\ UNCHANGED <<dir, inodeOf, content>>
    BY DEF UploadError, CloseFile, Local, threadVars, storeVars, Answer, Goto
  <1>2. pc'[t] = "reply"
    BY <1>1 DEF TypeInv, TypeOK
  <1>3. AloneUpload(t, b)'
    BY <1>2 DEF AloneUpload
  <1>4. AloneAt(t, b)'
    BY <1>1, <1>3, GoesOn, OtherCommands
  <1>5. CASE UploadError(t)
    <2>1. reply'[t] = None
      BY <1>5 DEF UploadError, Answer, PlainInv
    <2> QED
      BY <1>4, <2>1 DEF AloneNext
  <1>6. CASE CloseFile(t)
    <2>1. left[t] = 0 /\ reply'[t].status = "OK"
      BY <1>6 DEF CloseFile, Answer, PlainInv, ReplyOf
    <2>2. /\ dir /\ Cardinality(Present(b)) < MaxFiles /\ b.file[f] = None
          /\ handle[t] # None /\ handle[t] = inodeOf[f]
          /\ \A g \in Files \ {f} : Store.file[g] = b.file[g]
          /\ Len(content[handle[t]]) = offset[t] /\ left[t] + offset[t] = cmd[t].size
      BY <1>1 DEF AloneAt, AloneUpload
    <2>3. f \in Files /\ offset[t] \in Nat
      BY <1>1, OpType, ConstantsAssumption DEF FileOps, TypeInv, TypeOK
    <2>4. Store.dir /\ Store.file[f] = content[handle[t]] /\ Store' = Store
      BY <1>1, <2>2, <2>3, StoreFacts, StoreKept
    <2>5. Len(Store.file[f]) = cmd[t].size
      BY <2>1, <2>2, <2>3, <2>4
    <2>6. Present(b) \in SUBSET Files
      BY DEF Present
    <2>7. ~(Cardinality(Present(b)) >= MaxFiles)
      <3>1. {} \in SUBSET Threads
        OBVIOUS
      <3> QED
        BY <2>2, <2>6, <3>1, SetsAreFinite, ConstantsAssumption
    <2> HIDE DEF f
    <2>8. SequentialUpload(f, cmd[t].size, b, Store', reply'[t])
      BY <2>1, <2>2, <2>4, <2>5, <2>7 DEF SequentialUpload, Present
    <2> QED
      BY <1>2, <1>4, <2>8 DEF AloneNext, Sequential, f
  <1> QED
    BY <1>5, <1>6
----------------------------------------------------------------------------
\* The steps together

LEMMA InitAlone == Init => PlainInv /\ AloneInv
PROOF
  BY DEF Init, PlainInv, AloneInv

LEMMA PlainStep == PlainInv /\ TypeInv /\ [Next]_vars => PlainInv'
PROOF
  <1> SUFFICES ASSUME PlainInv, TypeInv, [Next]_vars PROVE PlainInv'
    OBVIOUS
  <1>1. pc \in [Threads -> Pcs]
    BY DEF TypeInv, TypeOK
  <1> USE <1>1 DEF PlainInv, Local, storeVars, threadVars, localVars, Answer, Goto
  <1>2. CASE UNCHANGED vars
    BY <1>2 DEF vars
  <1>3. CASE Restart
    BY <1>3 DEF Restart
  <1>4. ASSUME NEW t \in Threads, Step(t) PROVE PlainInv'
    <2>1. CASE End(t)
      BY <2>1 DEF End
    <2>2. CASE OpenDir(t) \/ RmDir(t)
      BY <2>2 DEF OpenDir, RmDir
    <2>3. CASE ReadDir(t) \/ ReplyList(t)
      BY <2>3 DEF ReadDir, ReplyList
    <2>4. ASSUME NEW f \in Files, StatNext(t, f) \/ RemoveNext(t, f) PROVE PlainInv'
      BY <2>4 DEF StatNext, RemoveNext
    <2>5. CASE CheckDir(t)
      BY <2>5 DEF CheckDir
    <2>6. CASE OpenToRead(t) \/ StatFile(t)
      BY <2>6 DEF OpenToRead, StatFile
    <2>7. CASE ReadFile(t) \/ Unlink(t)
      BY <2>7 DEF ReadFile, Unlink
    <2>8. CASE MakeDir(t) \/ CountFiles(t) \/ CheckDuplicate(t)
      BY <2>8 DEF MakeDir, CountFiles, CheckDuplicate
    <2>9. CASE CreateFile(t)
      BY <2>9 DEF CreateFile
    <2>10. CASE WriteBatch(t) \/ UploadError(t) \/ CloseFile(t)
      BY <2>10 DEF WriteBatch, UploadError, CloseFile
    <2>11. CASE CrashNull(t)
      BY <2>11 DEF CrashNull
    <2> QED
      BY <1>4, <2>1, <2>2, <2>3, <2>4, <2>5, <2>6, <2>7, <2>8, <2>9, <2>10, <2>11 DEF Step
  <1>5. ASSUME NEW t \in Threads, NEW c \in Commands, Begin(t, c) PROVE PlainInv'
    BY <1>5 DEF Begin, FirstStep
  <1> QED
    BY <1>2, <1>3, <1>4, <1>5 DEF Next

\* Where a thread is, and that it is alone, tell the commands it may serve.
LEMMA OpsAt ==
  ASSUME TypeInv, NEW t \in Threads, NEW b, AloneAt(t, b)
  PROVE  /\ pc[t] \in {"openDir", "readDir"} => cmd[t].op \in {"LST", "REM", "UPL"}
         /\ pc[t] = "stat" => cmd[t].op = "LST"
         /\ pc[t] = "remove" => cmd[t].op = "REM"
         /\ pc[t] = "checkDir" => cmd[t].op \in {"RTV", "DEL", "UPL"}
         /\ pc[t] = "open" => cmd[t].op \in {"RTV", "DEL"}
         /\ pc[t] \in {"statFile", "fread"} => cmd[t].op = "RTV"
         /\ pc[t] = "unlink" => cmd[t].op = "DEL"
         /\ pc[t] \in {"mkdir", "access", "create", "fwrite"} => cmd[t].op = "UPL"
PROOF
  <1>1. cmd[t].op \in {"LST", "RTV", "DEL", "REM", "UPL"}
    BY OpType DEF AloneAt
  <1>2. AloneList(t, b) /\ AloneRetrieve(t, b) /\ AloneDelete(t, b) /\ AloneRemove(t, b) /\ AloneUpload(t, b)
    BY DEF AloneAt
  <1> QED
    BY <1>1, <1>2 DEF AloneList, AloneRetrieve, AloneDelete, AloneRemove, AloneUpload

LEMMA ThreadAlone ==
  ASSUME TypeInv, PlainInv, RemoveInv, NEW t \in Threads, NEW b, AloneAt(t, b),
         Step(t), ~End(t), ~CrashNull(t)
  PROVE  AloneNext(t, b)
PROOF
  <1>1. CASE OpenDir(t)
    <2>1. cmd[t].op \in {"LST", "REM", "UPL"}
      BY <1>1, OpsAt DEF OpenDir
    <2> QED
      BY <1>1, <2>1, ListOpenDir, RemoveOpenDir, UploadOpenDir
  <1>2. CASE ReadDir(t)
    <2>1. cmd[t].op \in {"LST", "REM"}
      BY <1>2 DEF ReadDir
    <2> QED
      BY <1>2, <2>1, ListReadDir, RemoveReadDir
  <1>3. CASE ReplyList(t)
    <2>1. cmd[t].op = "LST"
      BY <1>3, OpsAt DEF ReplyList
    <2> QED
      BY <1>3, <2>1, ListReply
  <1>4. CASE RmDir(t)
    <2>1. cmd[t].op = "REM"
      BY <1>4, OpsAt DEF RmDir
    <2> QED
      BY <1>4, <2>1, RemoveRmDir
  <1>5. ASSUME NEW f \in Files, StatNext(t, f) PROVE AloneNext(t, b)
    <2>1. cmd[t].op = "LST"
      BY <1>5, OpsAt DEF StatNext
    <2> QED
      BY <1>5, <2>1, ListStatNext
  <1>6. ASSUME NEW f \in Files, RemoveNext(t, f) PROVE AloneNext(t, b)
    <2>1. cmd[t].op = "REM"
      BY <1>6, OpsAt DEF RemoveNext
    <2> QED
      BY <1>6, <2>1, RemoveRemoveNext
  <1>7. CASE CheckDir(t)
    <2>1. cmd[t].op \in {"RTV", "DEL", "UPL"}
      BY <1>7, OpsAt DEF CheckDir
    <2> QED
      BY <1>7, <2>1, RetrieveCheckDir, DeleteCheckDir, UploadCheckDir
  <1>8. CASE OpenToRead(t)
    <2>1. cmd[t].op \in {"RTV", "DEL"}
      BY <1>8, OpsAt DEF OpenToRead
    <2> QED
      BY <1>8, <2>1, RetrieveOpen, DeleteOpen
  <1>9. CASE StatFile(t) \/ ReadFile(t)
    <2>1. cmd[t].op = "RTV"
      BY <1>9, OpsAt DEF StatFile, ReadFile
    <2> QED
      BY <1>9, <2>1, RetrieveStat, RetrieveRead
  <1>10. CASE Unlink(t)
    <2>1. cmd[t].op = "DEL"
      BY <1>10, OpsAt DEF Unlink
    <2> QED
      BY <1>10, <2>1, DeleteUnlink
  <1>11. CASE MakeDir(t) \/ CountFiles(t) \/ CheckDuplicate(t)
    <2>1. cmd[t].op = "UPL"
      BY <1>11, OpsAt DEF MakeDir, CountFiles, CheckDuplicate
    <2> QED
      BY <1>11, <2>1, UploadCheckDir, UploadCount, UploadAccess
  <1>12. CASE CreateFile(t) \/ WriteBatch(t)
    <2>1. cmd[t].op = "UPL"
      BY <1>12, OpsAt DEF CreateFile, WriteBatch
    <2> QED
      BY <1>12, <2>1, UploadCreate, UploadWrite
  <1>13. CASE UploadError(t) \/ CloseFile(t)
    <2>1. cmd[t].op = "UPL"
      BY <1>13, OpsAt DEF UploadError, CloseFile
    <2> QED
      BY <1>13, <2>1, UploadClose
  <1> QED
    BY <1>1, <1>2, <1>3, <1>4, <1>5, <1>6, <1>7, <1>8, <1>9, <1>10, <1>11, <1>12, <1>13 DEF Step

\* A step of a thread leaves solo alone unless the thread ends, or all do.
LEMMA SoloKept ==
  ASSUME TypeInv, NEW t \in Threads, Step(t)
  PROVE  /\ pc[t] # "idle"
         /\ \/ solo' = solo /\ ~End(t) /\ ~CrashNull(t)
            \/ solo' = None /\ \A u \in Threads : pc'[u] = "reply" => pc[u] = "reply"
PROOF
  <1>1. pc \in [Threads -> Pcs]
    BY DEF TypeInv, TypeOK
  <1>2. ASSUME End(t) \/ CrashNull(t)
        PROVE  pc[t] # "idle" /\ solo' = None /\ \A u \in Threads : pc'[u] = "reply" => pc[u] = "reply"
    BY <1>1, <1>2 DEF End, CrashNull, Goto
  <1>3. ASSUME ~End(t), ~CrashNull(t) PROVE pc[t] # "idle" /\ solo' = solo
    <2> USE DEF Local, historyVars, threadVars
    <2>1. CASE OpenDir(t) \/ ReadDir(t) \/ ReplyList(t) \/ RmDir(t)
      BY <2>1 DEF OpenDir, ReadDir, ReplyList, RmDir
    <2>2. ASSUME NEW f \in Files, StatNext(t, f) \/ RemoveNext(t, f) PROVE pc[t] # "idle" /\ solo' = solo
      BY <2>2 DEF StatNext, RemoveNext
    <2>3. CASE CheckDir(t) \/ OpenToRead(t) \/ StatFile(t) \/ ReadFile(t) \/ Unlink(t)
      BY <2>3 DEF CheckDir, OpenToRead, StatFile, ReadFile, Unlink
    <2>4. CASE MakeDir(t) \/ CountFiles(t) \/ CheckDuplicate(t) \/ CreateFile(t)
      BY <2>4 DEF MakeDir, CountFiles, CheckDuplicate, CreateFile
    <2>5. CASE WriteBatch(t) \/ UploadError(t) \/ CloseFile(t)
      BY <2>5 DEF WriteBatch, UploadError, CloseFile
    <2> QED
      BY <1>3, <2>1, <2>2, <2>3, <2>4, <2>5 DEF Step
  <1> QED
    BY <1>2, <1>3

\* A command that begins while no other is served is alone with its store.
LEMMA BeginAlone ==
  ASSUME TypeInv, NEW t \in Threads, NEW c \in Commands, Begin(t, c), Active = {}, NEW b, b = Store
  PROVE  AloneAt(t, b)'
PROOF
  <1>1. /\ pc' = [pc EXCEPT ![t] = FirstStep(c.op)] /\ cmd' = [cmd EXCEPT ![t] = c]
        /\ UNCHANGED <<dir, inodeOf, content>>
    BY DEF Begin, Goto, storeVars
  <1>2. pc'[t] = FirstStep(c.op) /\ cmd'[t] = c /\ Store' = b
    BY <1>1, StoreKept DEF TypeInv, TypeOK
  <1>3. c.op \in {"LST", "RTV", "DEL", "REM", "UPL"}
    BY DEF Commands
  <1>4. \A u \in Threads \ {t} : pc'[u] = "idle"
    BY <1>1 DEF Active, TypeInv, TypeOK
  <1>5. /\ AloneList(t, b)' /\ AloneRetrieve(t, b)' /\ AloneDelete(t, b)' /\ AloneRemove(t, b)'
        /\ AloneUpload(t, b)'
    BY <1>2, <1>3 DEF AloneList, AloneRetrieve, AloneDelete, AloneRemove, AloneUpload, FirstStep
  <1> QED
    BY <1>2, <1>3, <1>4, <1>5 DEF AloneAt, FirstStep

LEMMA StutterAlone ==
  ASSUME NEW t \in Threads, NEW b, AloneAt(t, b),
         UNCHANGED <<dir, inodeOf, content, opened, pc, cmd, todo, found, handle, left, offset>>
  PROVE  AloneAt(t, b)'
PROOF
  <1>1. AloneList(t, b)' /\ AloneRetrieve(t, b)' /\ AloneDelete(t, b)'
    BY StoreKept DEF AloneAt, AloneList, AloneRetrieve, AloneDelete
  <1>2. AloneRemove(t, b)' /\ AloneUpload(t, b)'
    BY StoreKept DEF AloneAt, AloneRemove, AloneUpload
  <1> QED
    BY <1>1, <1>2 DEF AloneAt

\* What AloneCorrect says of a step.
AloneReply ==
  \A t \in Threads :
    /\ solo # None /\ solo.thread = t
    /\ pc[t] # "reply" /\ pc'[t] = "reply" /\ reply'[t] # None
    => Sequential(cmd[t], solo.store, Store', reply'[t])

LEMMA AloneStep == TypeInv /\ PlainInv /\ RemoveInv /\ AloneInv /\ [Next]_vars => AloneInv' /\ AloneReply
PROOF
  <1> SUFFICES ASSUME TypeInv, PlainInv, RemoveInv, AloneInv, [Next]_vars PROVE AloneInv' /\ AloneReply
    OBVIOUS
  <1>1. ASSUME UNCHANGED vars \/ Restart PROVE AloneInv' /\ AloneReply
    <2>1. /\ UNCHANGED <<dir, inodeOf, content, opened, pc, cmd, todo, found, handle, left, offset>>
          /\ solo' = solo
      BY <1>1 DEF vars, Restart, storeVars, threadVars, localVars, historyVars
    <2>2. PICK t, b : t = solo.thread /\ b = solo.store
      OBVIOUS
    <2>3. solo # None => t \in Threads /\ AloneAt(t, b)
      BY <2>2 DEF AloneInv, AloneAt
    <2>4. solo # None => AloneAt(t, b)'
      BY <2>1, <2>3, StutterAlone
    <2>5. AloneInv'
      BY <2>1, <2>2, <2>4 DEF AloneInv
    <2> QED
      BY <2>1, <2>5 DEF AloneReply
  <1>2. ASSUME NEW u \in Threads, Step(u) PROVE AloneInv' /\ AloneReply
    <2>1. PICK t, b : t = solo.thread /\ b = solo.store
      OBVIOUS
    <2>2. CASE solo' = None /\ \A v \in Threads : pc'[v] = "reply" => pc[v] = "reply"
      BY <2>2 DEF AloneInv, AloneReply
    <2>3. CASE solo' = solo /\ solo = None
      BY <2>3 DEF AloneInv, AloneReply
    <2>4. CASE solo' = solo /\ solo # None /\ ~End(u) /\ ~CrashNull(u)
      <3>1. t \in Threads /\ AloneAt(t, b)
        BY <2>1, <2>4 DEF AloneInv, AloneAt
      <3>2. u = t
        BY <1>2, <3>1, SoloKept DEF AloneAt
      <3>3. AloneNext(t, b)
        BY <1>2, <2>4, <3>1, <3>2, ThreadAlone
      <3>4. AloneInv'
        BY <2>1, <2>4, <3>3 DEF AloneNext, AloneInv
      <3>5. AloneReply
        BY <2>1, <3>3 DEF AloneNext, AloneReply
      <3> QED
        BY <3>4, <3>5
    <2> QED
      BY <1>2, <2>2, <2>3, <2>4, SoloKept
  <1>3. ASSUME NEW u \in Threads, NEW c \in Commands, Begin(u, c) PROVE AloneInv' /\ AloneReply
    <2>1. \A t \in Threads : pc'[t] = "reply" => pc[t] = "reply"
      BY <1>3 DEF Begin, Goto, FirstStep, TypeInv, TypeOK
    <2>2. CASE Active # {}
      BY <1>3, <2>1, <2>2 DEF Begin, AloneInv, AloneReply
    <2>3. CASE Active = {}
      <3>1. PICK b : b = Store
        OBVIOUS
      <3>2. solo' = [thread |-> u, store |-> b]
        BY <1>3, <2>3, <3>1 DEF Begin
      <3>3. AloneAt(u, b)'
        BY <1>3, <2>3, <3>1, BeginAlone
      <3>4. solo'.thread = u /\ solo'.store = b
        BY <3>2
      <3> QED
        BY <2>1, <3>3, <3>4 DEF AloneInv, AloneReply
    <2> QED
      BY <2>2, <2>3
  <1> QED
    BY <1>1, <1>2, <1>3 DEF Next

\* A command that no other command of the user overlaps, whatever store the
\* commands before it left, does over its system calls what the protocol says
\* it does at once, and says so in its reply.
THEOREM AloneAsSpecified == Spec => AloneCorrect
PROOF
  <1>1. Init => TypeInv /\ PlainInv /\ RemoveInv /\ AloneInv
    BY InitType, InitRemove, InitAlone
  <1>2. TypeInv /\ PlainInv /\ RemoveInv /\ AloneInv /\ [Next]_vars
          => (TypeInv /\ PlainInv /\ RemoveInv /\ AloneInv)' /\ AloneReply
    BY TypeStep, PlainStep, RemoveStep, AloneStep
  <1>3. AloneCorrect <=> [][AloneReply]_vars
    BY DEF AloneCorrect, AloneReply
  <1> QED
    BY <1>1, <1>2, <1>3, PTL DEF Spec
=============================================================================
