------------------------- MODULE FileVersionsProofs -------------------------
(* The rows of file_versions and the physical files agree, for any number  *)
(* of workers and under every fault of the model; and the numbers of the   *)
(* versions are right for as long as the machine is not rebooted.          *)
EXTENDS FileVersions, FiniteSetTheorems, TLAPS

TaskType == [op : Ops \cup {"none"}, target : 0..MaxId, key : 0..MaxId,
             row : SUBSET File, ver : SUBSET Version]

\* The labels at which a task has created a physical file no row refers to.
Owning == {"writeBegin", "writeEnd", "createFile", "readFile", "readVersion",
           "commitVersion", "cleanup"}

\* The labels at which that file is complete.
Ready == {"createFile", "readFile", "readVersion", "commitVersion"}

Owns(w) == pc[w] \in Owning

\* A row, and a version read for a download, has a complete physical file that
\* no task owns.
Stored(v) ==
    /\ disk[v.phys] \in Complete
    /\ \A w \in Workers : Owns(w) => task[w].key # v.phys

OwnedKeys ==
    /\ \A w \in Workers : Owns(w) => task[w].key \in Ids /\ disk[task[w].key] # "none"
    /\ \A w \in Workers : pc[w] \in Ready => disk[task[w].key] \in Complete
    /\ \A u, w \in Workers : Owns(u) /\ Owns(w) /\ task[u].key = task[w].key => u = w

ContentInv ==
    /\ OwnedKeys
    /\ \A v \in versions : Stored(v)
    /\ \A w \in Workers : pc[w] = "open" => \A v \in task[w].ver : Stored(v)

IInv == TypeOK /\ ContentInv

-----------------------------------------------------------------------------
(* Steps of one worker.                                                    *)

\* The other workers are where they were.
Alone(w) ==
    /\ pc' \in [Workers -> Labels] /\ task' \in [Workers -> TaskType]
    /\ \A u \in Workers \ {w} : pc'[u] = pc[u] /\ task'[u] = task[u]

\* Worker w goes to label l with task data d.
LEMMA GotoFacts ==
    ASSUME TypeOK, NEW w \in Workers, NEW l \in Labels, NEW d \in TaskType,
           pc' = [pc EXCEPT ![w] = l], task' = [task EXCEPT ![w] = d]
    PROVE  Alone(w) /\ pc'[w] = l /\ task'[w] = d
  BY DEF TypeOK, Alone, TaskType

\* The data of no task.
LEMMA NoTaskTyped == NoTask \in TaskType
  BY MaxIdAssumption DEF NoTask, TaskType

\* Worker w finishes its task.
LEMMA FinishFacts ==
    ASSUME TypeOK, NEW w \in Workers, Finish(w)
    PROVE  Alone(w) /\ pc'[w] = "idle" /\ task'[w] = NoTask
  BY GotoFacts, NoTaskTyped DEF Finish, Goto, Labels

\* Worker w keeps its data.
LEMMA KeepFacts ==
    ASSUME TypeOK, NEW w \in Workers, NEW l \in Labels, Goto(w, l), task' = task
    PROVE  Alone(w) /\ pc'[w] = l /\ task'[w] = task[w]
  BY DEF TypeOK, Alone, TaskType, Goto

\* A step that leaves the physical files alone, adds no row and gives w no new
\* physical file keeps the invariant.
LEMMA QuietStep ==
    ASSUME TypeOK, ContentInv, NEW w \in Workers, Alone(w),
           disk' = disk, versions' \subseteq versions,
           pc'[w] \in Owning => pc[w] \in Owning /\ task'[w].key = task[w].key,
           pc'[w] \in Ready => pc[w] \in Ready,
           pc'[w] = "open" => \A v \in task'[w].ver : v \in versions
    PROVE  ContentInv'
  <1>1. ASSUME NEW u \in Workers, pc'[u] \in Owning
        PROVE  pc[u] \in Owning /\ task'[u].key = task[u].key
    BY <1>1 DEF Alone
  <1>2. ASSUME NEW u \in Workers, pc'[u] \in Ready
        PROVE  pc[u] \in Ready /\ pc'[u] \in Owning
    BY <1>2 DEF Alone, Ready, Owning
  <1>3. OwnedKeys'
    BY <1>1, <1>2 DEF ContentInv, OwnedKeys, Owns
  <1>4. ASSUME NEW v, Stored(v) PROVE Stored(v)'
    BY <1>1, <1>4 DEF Stored, Owns
  <1>5. ASSUME NEW u \in Workers, pc'[u] = "open", NEW v \in task'[u].ver PROVE Stored(v)
    BY <1>5 DEF Alone, ContentInv
  <1> QED BY <1>3, <1>4, <1>5 DEF ContentInv

\* The type invariant after a step that sets pc and task for w.
LEMMA Typed ==
    ASSUME TypeOK, NEW w \in Workers, Alone(w),
           files' \subseteq File, versions' \subseteq Version,
           disk' \in [Ids -> Contents], lastId' \in 0..MaxId
    PROVE  TypeOK'
  BY DEF TypeOK, Alone, TaskType

-----------------------------------------------------------------------------
(* The steps that read, answer or remove rows.                             *)

\* A request enters a worker.
LEMMA DispatchInv ==
    ASSUME IInv, NEW w \in Workers, Handle(w)
    PROVE  IInv'
  <1>1. PICK op \in Ops, f \in 0..MaxId, l \in {"createNew", "prevFile", "rename", "remove"} :
          Dispatch(w, op, f, l)
    <2>1. \A r \in files : r.id \in 0..MaxId
      BY MaxIdAssumption DEF IInv, TypeOK, File, Ids
    <2>2. 0 \in 0..MaxId
      BY MaxIdAssumption
    <2> QED BY <2>1, <2>2 DEF Handle, HandleCreate, HandleCreateNewVersion, HandleUpload,
               HandleDownload, HandleRename, HandleRemove, Ops
  <1>2. [NoTask EXCEPT !.op = op, !.target = f] \in TaskType
    BY NoTaskTyped DEF TaskType
  <1>3. Alone(w) /\ pc'[w] = l
    BY <1>1, <1>2, GotoFacts DEF IInv, Dispatch, Goto, Labels
  <1>4. UNCHANGED <<files, versions, disk, lastId>>
    BY <1>1 DEF Dispatch, tables
  <1>5. TypeOK'
    BY <1>3, <1>4, Typed DEF IInv, TypeOK
  <1>6. ContentInv'
    BY <1>3, <1>4, QuietStep DEF IInv, Owning, Ready
  <1> QED BY <1>5, <1>6 DEF IInv

\* A SELECT of the file a task is about; a missing row sends the task to its
\* cleanup only when it owns a physical file.
LEMMA ReadFileInv ==
    ASSUME IInv, NEW w \in Workers,
           \/ ReadFile(w, "prevFile", "prevVersion", "idle")
           \/ ReadFile(w, "readFile", "readVersion", "cleanup")
    PROVE  IInv'
  <1>1. PICK from, to, missing :
          /\ ReadFile(w, from, to, missing)
          /\ \/ from = "prevFile" /\ to = "prevVersion" /\ missing = "idle"
             \/ from = "readFile" /\ to = "readVersion" /\ missing = "cleanup"
    OBVIOUS
  <1>2. pc[w] = from /\ UNCHANGED <<files, versions, disk, lastId>>
    BY <1>1 DEF ReadFile, tables
  <1>3. task[w] \in TaskType /\ FileById(task[w].target) \in SUBSET File
    BY DEF IInv, TypeOK, TaskType, FileById
  <1>4. CASE task' = [task EXCEPT ![w].row = FileById(task[w].target)] /\ Goto(w, to)
    <2>1. [task[w] EXCEPT !.row = FileById(task[w].target)] \in TaskType
      BY <1>3 DEF TaskType
    <2>2. Alone(w) /\ pc'[w] = to /\ task'[w] = [task[w] EXCEPT !.row = FileById(task[w].target)]
      BY <1>1, <1>4, <2>1, GotoFacts DEF IInv, Goto, Labels
    <2>3. task'[w].key = task[w].key
      BY <1>3, <2>2 DEF TaskType
    <2>4. TypeOK'
      BY <1>2, <2>2, Typed DEF IInv, TypeOK
    <2>5. ContentInv'
      BY <1>1, <1>2, <2>2, <2>3, QuietStep DEF IInv, Owning, Ready
    <2> QED BY <2>4, <2>5 DEF IInv
  <1>5. CASE Fail(w, missing)
    <2>1. /\ Alone(w) /\ pc'[w] = missing
          /\ pc'[w] = "cleanup" => task'[w].key = task[w].key
      BY <1>1, <1>5, FinishFacts, KeepFacts DEF IInv, Fail, Labels
    <2>2. TypeOK'
      BY <1>2, <2>1, Typed DEF IInv, TypeOK
    <2>3. ContentInv'
      BY <1>1, <1>2, <2>1, QuietStep DEF IInv, Owning, Ready
    <2> QED BY <2>2, <2>3 DEF IInv
  <1> QED BY <1>1, <1>4, <1>5 DEF ReadFile

\* A SELECT of the current version of the file read.
LEMMA ReadCurrentInv ==
    ASSUME IInv, NEW w \in Workers,
           \/ \E to \in {"createNew", "open"} : ReadCurrent(w, "prevVersion", to, "idle")
           \/ ReadCurrent(w, "readVersion", "commitVersion", "cleanup")
    PROVE  IInv'
  <1>1. PICK from, to, missing :
          /\ ReadCurrent(w, from, to, missing)
          /\ \/ from = "prevVersion" /\ to \in {"createNew", "open"} /\ missing = "idle"
             \/ from = "readVersion" /\ to = "commitVersion" /\ missing = "cleanup"
    OBVIOUS
  <1>2. pc[w] = from /\ UNCHANGED <<files, versions, disk, lastId>>
    BY <1>1 DEF ReadCurrent, tables
  <1>3. PICK r \in task[w].row :
          \/ task' = [task EXCEPT ![w].ver = VersionById(r.cur)] /\ Goto(w, to)
          \/ Fail(w, missing)
    BY <1>1 DEF ReadCurrent
  <1>4. task[w] \in TaskType /\ VersionById(r.cur) \in SUBSET Version
        /\ VersionById(r.cur) \subseteq versions
    BY DEF IInv, TypeOK, TaskType, VersionById
  <1>5. CASE task' = [task EXCEPT ![w].ver = VersionById(r.cur)] /\ Goto(w, to)
    <2>1. [task[w] EXCEPT !.ver = VersionById(r.cur)] \in TaskType
      BY <1>4 DEF TaskType
    <2>2. Alone(w) /\ pc'[w] = to /\ task'[w] = [task[w] EXCEPT !.ver = VersionById(r.cur)]
      BY <1>1, <1>5, <2>1, GotoFacts DEF IInv, Goto, Labels
    <2>3. task'[w].key = task[w].key /\ task'[w].ver = VersionById(r.cur)
      BY <1>4, <2>2 DEF TaskType
    <2>4. TypeOK'
      BY <1>2, <2>2, Typed DEF IInv, TypeOK
    <2>5. ContentInv'
      BY <1>1, <1>2, <1>4, <2>2, <2>3, QuietStep DEF IInv, Owning, Ready
    <2> QED BY <2>4, <2>5 DEF IInv
  <1>6. CASE Fail(w, missing)
    <2>1. /\ Alone(w) /\ pc'[w] = missing
          /\ pc'[w] = "cleanup" => task'[w].key = task[w].key
      BY <1>1, <1>6, FinishFacts, KeepFacts DEF IInv, Fail, Labels
    <2>2. TypeOK'
      BY <1>2, <2>1, Typed DEF IInv, TypeOK
    <2>3. ContentInv'
      BY <1>1, <1>2, <2>1, QuietStep DEF IInv, Owning, Ready
    <2> QED BY <2>2, <2>3 DEF IInv
  <1> QED BY <1>3, <1>5, <1>6

\* The steps that end a task without a new row.
LEMMA EndingInv ==
    ASSUME IInv, NEW w \in Workers,
           CommitThrows(w) \/ Confirm(w) \/ OpenDownload(w) \/ Remove(w)
    PROVE  IInv'
  <1>1. Finish(w) /\ UNCHANGED <<disk, lastId>>
    BY DEF CommitThrows, Confirm, OpenDownload, Remove, tables
  <1>2. files' \subseteq files /\ versions' \subseteq versions
    BY DEF CommitThrows, Confirm, OpenDownload, Remove, tables
  <1>3. Alone(w) /\ pc'[w] = "idle"
    BY <1>1, FinishFacts DEF IInv
  <1>4. TypeOK'
    BY <1>1, <1>2, <1>3, Typed DEF IInv, TypeOK
  <1>5. ContentInv'
    BY <1>1, <1>2, <1>3, QuietStep DEF IInv, Owning, Ready
  <1> QED BY <1>4, <1>5 DEF IInv

\* The row of a file replaced by one for the same id.
LEMMA RenameInv ==
    ASSUME IInv, NEW w \in Workers, Rename(w)
    PROVE  IInv'
  <1>1. UNCHANGED <<versions, disk, lastId>>
    BY DEF Rename
  <1>2. files' \subseteq File
    <2>1. \A r \in files, n \in Names : [r EXCEPT !.name = n] \in File
      BY DEF IInv, TypeOK, File
    <2>2. files \subseteq File
      BY DEF IInv, TypeOK
    <2> QED BY <2>1, <2>2 DEF Rename, UpdateFile, FileById
  <1>3. Alone(w) /\ pc'[w] \in {"confirm", "idle"}
    BY FinishFacts, KeepFacts DEF IInv, Rename, Labels
  <1>4. TypeOK'
    BY <1>1, <1>2, <1>3, Typed DEF IInv, TypeOK
  <1>5. ContentInv'
    BY <1>1, <1>3, QuietStep DEF IInv, Owning, Ready
  <1> QED BY <1>4, <1>5 DEF IInv

-----------------------------------------------------------------------------
(* The steps that change a physical file or add a row.                     *)

\* A task that changes the physical file it owns disturbs no row and no other
\* task: nothing else refers to that file.
LEMMA OwnStep ==
    ASSUME IInv, NEW w \in Workers, Owns(w), Alone(w), NEW c \in Contents,
           disk' = [disk EXCEPT ![task[w].key] = c], versions' = versions,
           pc'[w] \in Owning => task'[w].key = task[w].key /\ c # "none",
           pc'[w] \in Ready => c \in Complete,
           pc'[w] # "open"
    PROVE  ContentInv'
  <1>1. task[w].key \in Ids /\ disk \in [Ids -> Contents]
    BY DEF IInv, TypeOK, ContentInv, OwnedKeys
  <1>2. disk'[task[w].key] = c /\ \A k \in Ids \ {task[w].key} : disk'[k] = disk[k]
    BY <1>1
  <1>3. ASSUME NEW u \in Workers \ {w}
        PROVE  pc'[u] = pc[u] /\ task'[u] = task[u]
    BY DEF Alone
  <1>4. ASSUME NEW u \in Workers \ {w}, pc[u] \in Owning
        PROVE  task[u].key \in Ids \ {task[w].key}
    BY <1>4 DEF IInv, ContentInv, OwnedKeys, Owns
  <1>5. Ready \subseteq Owning
    BY DEF Ready, Owning
  <1>6. OwnedKeys'
    <2>1. ASSUME NEW u \in Workers, pc'[u] \in Owning
          PROVE  /\ pc[u] \in Owning /\ task'[u].key = task[u].key
                 /\ task[u].key \in Ids /\ disk'[task[u].key] # "none"
      BY <1>1, <1>2, <1>3, <1>4, <2>1 DEF IInv, ContentInv, OwnedKeys, Owns
    <2>2. ASSUME NEW u \in Workers, pc'[u] \in Ready
          PROVE  disk'[task'[u].key] \in Complete
      BY <1>1, <1>2, <1>3, <1>4, <1>5, <2>2 DEF IInv, ContentInv, OwnedKeys, Owns
    <2> QED BY <2>1, <2>2 DEF IInv, ContentInv, OwnedKeys, Owns
  <1>7. ASSUME NEW v \in Version, Stored(v) PROVE Stored(v)'
    <2>1. v.phys \in Ids \ {task[w].key}
      BY <1>7 DEF Version, Stored
    <2> QED BY <1>2, <1>3, <1>7, <2>1 DEF Stored, Owns
  <1>8. versions \subseteq Version /\ \A u \in Workers : task[u].ver \subseteq Version
    BY DEF IInv, TypeOK
  <1>9. ASSUME NEW v \in versions' PROVE Stored(v)'
    BY <1>7, <1>8 DEF IInv, ContentInv
  <1>10. ASSUME NEW u \in Workers, pc'[u] = "open", NEW v \in task'[u].ver PROVE Stored(v)'
    BY <1>3, <1>7, <1>8, <1>10 DEF IInv, ContentInv
  <1> QED BY <1>6, <1>9, <1>10 DEF ContentInv

\* A task that adds a row for the complete physical file it owns, and owns it
\* no longer.
LEMMA CommitStep ==
    ASSUME IInv, NEW w \in Workers, Alone(w), pc[w] \in Ready, pc'[w] = "confirm",
           disk' = disk, NEW new \in Version, new.phys = task[w].key,
           versions' \subseteq versions \cup {new}
    PROVE  ContentInv'
  <1>1. ASSUME NEW u \in Workers, pc'[u] \in Owning
        PROVE  u # w /\ pc[u] \in Owning /\ task'[u] = task[u]
    BY <1>1 DEF Alone, Owning
  <1>2. ASSUME NEW u \in Workers, pc'[u] \in Ready
        PROVE  pc[u] \in Ready /\ task'[u] = task[u]
    BY <1>2 DEF Alone, Ready
  <1>3. OwnedKeys'
    BY <1>1, <1>2 DEF IInv, ContentInv, OwnedKeys, Owns
  <1>4. ASSUME NEW v, Stored(v) PROVE Stored(v)'
    BY <1>1, <1>4 DEF Stored, Owns
  <1>5. Stored(new)'
    <2>1. pc[w] \in Owning
      BY DEF Ready, Owning
    <2> QED BY <1>1, <2>1 DEF IInv, ContentInv, OwnedKeys, Stored, Owns
  <1>6. ASSUME NEW u \in Workers, pc'[u] = "open", NEW v \in task'[u].ver PROVE Stored(v)
    BY <1>6 DEF Alone, IInv, ContentInv
  <1> QED BY <1>3, <1>4, <1>5, <1>6 DEF IInv, ContentInv

\* The physical file of a new name is nobody's: O_EXCL fails on a name that a
\* row, a reader or another task has, whatever generateId() returns.
LEMMA CreateNewInv ==
    ASSUME IInv, NEW w \in Workers, CreateNew(w)
    PROVE  IInv'
  <1> DEFINE k == lastId + 1
  <1>1. /\ pc[w] = "createNew" /\ lastId' = k /\ k \in Ids /\ k \in 0..MaxId
        /\ UNCHANGED <<files, versions>>
    BY MaxIdAssumption DEF IInv, TypeOK, CreateNew, Ids, tables
  <1>2. CASE Finish(w) /\ UNCHANGED disk
    <2>1. Alone(w) /\ pc'[w] = "idle"
      BY <1>2, FinishFacts DEF IInv
    <2>2. TypeOK'
      BY <1>1, <1>2, <2>1, Typed DEF IInv, TypeOK
    <2>3. ContentInv'
      BY <1>1, <1>2, <2>1, QuietStep DEF IInv, Owning, Ready
    <2> QED BY <2>2, <2>3 DEF IInv
  <1>3. CASE /\ CanCreateContent(k)
             /\ disk' = [disk EXCEPT ![k] = "empty"]
             /\ task' = [task EXCEPT ![w].key = k]
             /\ \E l \in {"createFile", "writeBegin", "readFile"} : Goto(w, l)
    <2>1. PICK l \in {"createFile", "writeBegin", "readFile"} : Goto(w, l)
      BY <1>3
    <2>2. task[w] \in TaskType /\ [task[w] EXCEPT !.key = k] \in TaskType
      BY <1>1 DEF IInv, TypeOK, TaskType
    <2>3. Alone(w) /\ pc'[w] = l /\ task'[w] = [task[w] EXCEPT !.key = k]
      BY <1>3, <2>1, <2>2, GotoFacts DEF IInv, Goto, Labels
    <2>4. task'[w].key = k
      BY <2>2, <2>3 DEF TaskType
    <2>5. /\ disk[k] = "none" /\ disk'[k] = "empty"
          /\ \A j \in Ids \ {k} : disk'[j] = disk[j]
          /\ disk' \in [Ids -> Contents]
      BY <1>1, <1>3 DEF IInv, TypeOK, CanCreateContent, Contents
    <2>6. TypeOK'
      BY <1>1, <2>3, <2>5, Typed DEF IInv, TypeOK
    <2>7. ASSUME NEW u \in Workers \ {w}
          PROVE  pc'[u] = pc[u] /\ task'[u] = task[u]
      BY <2>3 DEF Alone
    <2>8. ASSUME NEW u \in Workers \ {w}, pc[u] \in Owning
          PROVE  task[u].key \in Ids \ {k}
      BY <2>5, <2>8 DEF IInv, ContentInv, OwnedKeys, Owns
    <2>9. Ready \subseteq Owning /\ "empty" \in Complete
      BY DEF Ready, Owning, Complete
    <2>10. OwnedKeys'
      <3>1. ASSUME NEW u \in Workers, pc'[u] \in Owning
            PROVE  task'[u].key \in Ids /\ disk'[task'[u].key] # "none"
        BY <1>1, <2>4, <2>5, <2>7, <2>8, <3>1 DEF IInv, ContentInv, OwnedKeys, Owns
      <3>2. ASSUME NEW u \in Workers, pc'[u] \in Ready
            PROVE  disk'[task'[u].key] \in Complete
        BY <1>1, <2>4, <2>5, <2>7, <2>8, <2>9, <3>2 DEF IInv, ContentInv, OwnedKeys, Owns
      <3>3. ASSUME NEW u \in Workers, NEW x \in Workers, pc'[u] \in Owning, pc'[x] \in Owning,
                   task'[u].key = task'[x].key
            PROVE  u = x
        BY <2>4, <2>7, <2>8, <3>3 DEF IInv, ContentInv, OwnedKeys, Owns
      <3> QED BY <3>1, <3>2, <3>3 DEF OwnedKeys, Owns
    <2>11. ASSUME NEW v \in Version, Stored(v) PROVE Stored(v)'
      <3>1. v.phys \in Ids \ {k}
        BY <2>5, <2>11 DEF Version, Stored, Complete
      <3> QED BY <2>4, <2>5, <2>7, <2>11, <3>1 DEF Stored, Owns
    <2>12. versions \subseteq Version /\ \A u \in Workers : task[u].ver \subseteq Version
      BY DEF IInv, TypeOK
    <2>13. ASSUME NEW v \in versions' PROVE Stored(v)'
      BY <1>1, <2>11, <2>12 DEF IInv, ContentInv
    <2>14. ASSUME NEW u \in Workers, pc'[u] = "open", NEW v \in task'[u].ver PROVE Stored(v)'
      BY <2>1, <2>3, <2>7, <2>11, <2>12, <2>14 DEF IInv, ContentInv
    <2> QED BY <2>6, <2>10, <2>13, <2>14 DEF IInv, ContentInv
  <1> QED BY <1>2, <1>3 DEF CreateNew

\* The content of a request is written to the file the task owns.
LEMMA WriteInv ==
    ASSUME IInv, NEW w \in Workers, WriteBegin(w) \/ WriteEnd(w)
    PROVE  IInv'
  <1> USE DEF Owning, Ready, Labels, Contents, Complete
  <1>1. UNCHANGED <<files, versions, lastId, task>> /\ Owns(w)
    BY DEF WriteBegin, WriteEnd, tables, Owns
  <1>2. PICK l \in {"writeEnd", "readFile", "cleanup"} : Goto(w, l)
    BY DEF WriteBegin, WriteEnd
  <1>3. Alone(w) /\ pc'[w] = l /\ task'[w] = task[w]
    BY <1>1, <1>2, KeepFacts DEF IInv
  <1>4. CASE WriteEnd(w) /\ l = "cleanup" /\ disk' = disk
    <2>1. TypeOK'
      BY <1>1, <1>3, <1>4, Typed DEF IInv, TypeOK
    <2>2. ContentInv'
      BY <1>1, <1>3, <1>4, QuietStep DEF IInv, WriteEnd
    <2> QED BY <2>1, <2>2 DEF IInv
  <1>5. CASE \/ l = "writeEnd" /\ disk' = [disk EXCEPT ![task[w].key] = "torn"]
             \/ l = "readFile" /\ disk' = [disk EXCEPT ![task[w].key] = "full"]
    <2>1. disk' \in [Ids -> Contents]
      BY <1>5 DEF IInv, TypeOK
    <2>2. TypeOK'
      BY <1>1, <1>3, <2>1, Typed DEF IInv, TypeOK
    <2>3. ContentInv'
      BY <1>1, <1>3, <1>5, OwnStep
    <2> QED BY <2>2, <2>3 DEF IInv
  <1>6. l \in Labels /\ pc \in [Workers -> Labels]
    BY DEF IInv, TypeOK
  <1>7. \/ l = "cleanup" /\ disk' = disk /\ WriteEnd(w)
        \/ l = "writeEnd" /\ disk' = [disk EXCEPT ![task[w].key] = "torn"]
        \/ l = "readFile" /\ disk' = [disk EXCEPT ![task[w].key] = "full"]
    BY <1>2, <1>6 DEF WriteBegin, WriteEnd, Goto
  <1> QED BY <1>4, <1>5, <1>7

\* The cleanup of a failed request.
LEMMA CleanupInv ==
    ASSUME IInv, NEW w \in Workers, Cleanup(w)
    PROVE  IInv'
  <1>1. UNCHANGED <<files, versions, lastId>> /\ Owns(w)
    BY DEF Cleanup, tables, Owns, Owning
  <1>2. Alone(w) /\ pc'[w] = "idle"
    BY FinishFacts DEF IInv, Cleanup
  <1>3. CASE disk' = disk
    <2>1. TypeOK'
      BY <1>1, <1>2, <1>3, Typed DEF IInv, TypeOK
    <2>2. ContentInv'
      BY <1>1, <1>2, <1>3, QuietStep DEF IInv, Owning, Ready
    <2> QED BY <2>1, <2>2 DEF IInv
  <1>4. CASE disk' = [disk EXCEPT ![task[w].key] = "none"]
    <2>1. disk' \in [Ids -> Contents]
      BY <1>4 DEF IInv, TypeOK, Contents
    <2>2. TypeOK'
      BY <1>1, <1>2, <2>1, Typed DEF IInv, TypeOK
    <2>3. ContentInv'
      BY <1>1, <1>2, <1>4, OwnStep DEF Contents, Owning, Ready
    <2> QED BY <2>2, <2>3 DEF IInv
  <1> QED BY <1>3, <1>4 DEF Cleanup

\* The rows of a file and of its first version, written together.
LEMMA CreateFileInv ==
    ASSUME IInv, NEW w \in Workers, CreateFile(w)
    PROVE  IInv'
  <1>1. /\ pc[w] = "createFile" /\ disk' = disk /\ lastId + 2 <= MaxId
        /\ lastId' = lastId + 2
    BY DEF CreateFile
  <1>2. lastId \in Nat /\ lastId + 1 \in Ids /\ lastId + 2 \in Ids /\ lastId' \in 0..MaxId
    BY <1>1, MaxIdAssumption DEF IInv, TypeOK, Ids
  <1>3. task[w] \in TaskType /\ task[w].key \in Ids
    BY <1>1 DEF IInv, TypeOK, TaskType, ContentInv, OwnedKeys, Owns, Owning
  <1>4. PICK n \in Names, m \in MaxCounts :
          LET file    == [id |-> lastId + 1, name |-> n, cur |-> lastId + 2,
                          max |-> MaxVersionCount(m)]
              version == [id |-> lastId + 2, file |-> lastId + 1, num |-> FirstNumber,
                          phys |-> task[w].key]
          IN  \/ /\ files' = files \cup {file}
                 /\ versions' = versions \cup {version}
                 /\ task' = [task EXCEPT ![w].target = file.id]
                 /\ Goto(w, "confirm")
              \/ Goto(w, "cleanup") /\ UNCHANGED <<tables, task>>
    BY DEF CreateFile
  <1> DEFINE file    == [id |-> lastId + 1, name |-> n, cur |-> lastId + 2,
                         max |-> MaxVersionCount(m)]
             version == [id |-> lastId + 2, file |-> lastId + 1, num |-> FirstNumber,
                         phys |-> task[w].key]
  <1>5. file \in File /\ version \in Version
    <2>1. MaxVersionCount(m) \in Nat
      BY MaxCountsAssumption, CountRangeAssumption DEF MaxVersionCount
    <2> QED BY <1>2, <1>3, <2>1 DEF File, Version, FirstNumber
  <1>6. CASE /\ files' = files \cup {file}
             /\ versions' = versions \cup {version}
             /\ task' = [task EXCEPT ![w].target = lastId + 1]
             /\ Goto(w, "confirm")
    <2>1. [task[w] EXCEPT !.target = lastId + 1] \in TaskType
      BY <1>2, <1>3 DEF TaskType, Ids
    <2>2. Alone(w) /\ pc'[w] = "confirm"
      BY <1>6, <2>1, GotoFacts DEF IInv, Goto, Labels
    <2>3. TypeOK'
      BY <1>1, <1>2, <1>5, <1>6, <2>2, Typed DEF IInv, TypeOK
    <2>4. version.phys = task[w].key
      OBVIOUS
    <2>5. ContentInv'
      BY <1>1, <1>5, <1>6, <2>2, <2>4, CommitStep DEF Ready
    <2> QED BY <2>3, <2>5 DEF IInv
  <1>7. CASE Goto(w, "cleanup") /\ UNCHANGED <<tables, task>>
    <2>1. Alone(w) /\ pc'[w] = "cleanup" /\ task'[w] = task[w]
      BY <1>7, KeepFacts DEF IInv, Labels
    <2>2. TypeOK'
      BY <1>1, <1>2, <1>7, <2>1, Typed DEF IInv, TypeOK, tables
    <2>3. ContentInv'
      BY <1>1, <1>7, <2>1, QuietStep DEF IInv, Owning, Ready, tables
    <2> QED BY <2>2, <2>3 DEF IInv
  <1> QED BY <1>4, <1>6, <1>7

\* The row of a new version, and the old rows that are pruned with it.
LEMMA CommitVersionInv ==
    ASSUME IInv, NEW w \in Workers, CommitVersion(w)
    PROVE  IInv'
  <1>1. /\ pc[w] = "commitVersion" /\ disk' = disk /\ task' = task /\ lastId < MaxId
        /\ lastId' = lastId + 1
    BY DEF CommitVersion
  <1>2. lastId \in Nat /\ lastId + 1 \in Ids /\ lastId' \in 0..MaxId
    BY <1>1, MaxIdAssumption DEF IInv, TypeOK, Ids
  <1>3. task[w] \in TaskType /\ task[w].key \in Ids
    BY <1>1 DEF IInv, TypeOK, TaskType, ContentInv, OwnedKeys, Owns, Owning
  <1>4. PICK r \in task[w].row, v \in task[w].ver :
          LET file    == [r EXCEPT !.cur = lastId + 1]
              version == [id |-> lastId + 1, file |-> r.id, num |-> v.num + 1,
                          phys |-> task[w].key]
          IN  \/ /\ files' = UpdateFile(file)
                 /\ versions' = StoreVersion(version, r.max)
                 /\ Goto(w, "confirm")
              \/ Goto(w, "cleanup") /\ UNCHANGED tables
    BY DEF CommitVersion
  <1> DEFINE file    == [r EXCEPT !.cur = lastId + 1]
             version == [id |-> lastId + 1, file |-> r.id, num |-> v.num + 1,
                         phys |-> task[w].key]
  <1>5. r \in File /\ v \in Version
    BY <1>3 DEF TaskType
  <1>6. file \in File /\ version \in Version
    BY <1>2, <1>3, <1>5 DEF File, Version
  <1>7. CASE /\ files' = UpdateFile(file)
             /\ versions' = StoreVersion(version, r.max)
             /\ Goto(w, "confirm")
    <2>1. Alone(w) /\ pc'[w] = "confirm"
      BY <1>1, <1>7, KeepFacts DEF IInv, Labels
    <2>2. versions' \subseteq versions \cup {version}
      BY <1>7 DEF StoreVersion, RemoveOldVersions
    <2>3. files' \subseteq File
      BY <1>6, <1>7 DEF IInv, TypeOK, UpdateFile, FileById
    <2>4. TypeOK'
      BY <1>1, <1>2, <1>6, <2>1, <2>2, <2>3, Typed DEF IInv, TypeOK
    <2>5. version.phys = task[w].key
      OBVIOUS
    <2>6. ContentInv'
      BY <1>1, <1>6, <2>1, <2>2, <2>5, CommitStep DEF Ready
    <2> QED BY <2>4, <2>6 DEF IInv
  <1>8. CASE Goto(w, "cleanup") /\ UNCHANGED tables
    <2>1. Alone(w) /\ pc'[w] = "cleanup" /\ task'[w] = task[w]
      BY <1>1, <1>8, KeepFacts DEF IInv, Labels
    <2>2. TypeOK'
      BY <1>1, <1>2, <1>8, <2>1, Typed DEF IInv, TypeOK, tables
    <2>3. ContentInv'
      BY <1>1, <1>8, <2>1, QuietStep DEF IInv, Owning, Ready, tables
    <2> QED BY <2>2, <2>3 DEF IInv
  <1> QED BY <1>4, <1>7, <1>8

\* A restart forgets the tasks, and every row keeps its physical file.
LEMMA RestartInv ==
    ASSUME IInv, Restart
    PROVE  IInv'
  <1>1. /\ UNCHANGED <<files, versions, disk>> /\ lastId' \in 0..MaxId
        /\ \A w \in Workers : pc'[w] = "idle"
    BY MaxIdAssumption DEF IInv, TypeOK, Restart, tables
  <1>2. TypeOK'
    BY <1>1, NoTaskTyped DEF IInv, TypeOK, Restart, Labels, TaskType
  <1>3. ContentInv'
    BY <1>1 DEF IInv, ContentInv, OwnedKeys, Stored, Owns, Owning, Ready
  <1> QED BY <1>2, <1>3 DEF IInv

-----------------------------------------------------------------------------
LEMMA InitInv == Init => IInv
  <1> SUFFICES ASSUME Init PROVE IInv
    OBVIOUS
  <1>1. TypeOK
    BY MaxIdAssumption, NoTaskTyped DEF Init, TypeOK, Contents, Labels, TaskType
  <1>2. ContentInv
    BY DEF Init, ContentInv, OwnedKeys, Owns, Owning, Ready
  <1> QED BY <1>1, <1>2 DEF IInv

LEMMA StepInv ==
    ASSUME IInv, NEW w \in Workers, Step(w)
    PROVE  IInv'
  <1>1. CASE PrevFile(w) \/ NewVersionReadFile(w)
    BY <1>1, ReadFileInv DEF PrevFile, NewVersionReadFile
  <1>2. CASE PrevVersion(w) \/ NewVersionReadVersion(w)
    BY <1>2, ReadCurrentInv DEF PrevVersion, NewVersionReadVersion
  <1>3. CASE CreateNew(w)
    BY <1>3, CreateNewInv
  <1>4. CASE WriteBegin(w) \/ WriteEnd(w)
    BY <1>4, WriteInv
  <1>5. CASE CreateFile(w)
    BY <1>5, CreateFileInv
  <1>6. CASE CommitVersion(w)
    BY <1>6, CommitVersionInv
  <1>7. CASE Cleanup(w)
    BY <1>7, CleanupInv
  <1>8. CASE CommitThrows(w) \/ Confirm(w) \/ OpenDownload(w) \/ Remove(w)
    BY <1>8, EndingInv
  <1>9. CASE Rename(w)
    BY <1>9, RenameInv
  <1> QED BY <1>1, <1>2, <1>3, <1>4, <1>5, <1>6, <1>7, <1>8, <1>9 DEF Step

LEMMA NextInv == IInv /\ [Next]_vars => IInv'
  <1> SUFFICES ASSUME IInv, [Next]_vars PROVE IInv'
    OBVIOUS
  <1>1. CASE Next
    BY <1>1, RestartInv, DispatchInv, StepInv DEF Next
  <1>2. CASE UNCHANGED vars
    <2>1. UNCHANGED <<files, versions, disk, lastId, pc, task>>
      BY <1>2 DEF vars
    <2>2. TypeOK'
      BY <2>1 DEF IInv, TypeOK
    <2>3. ContentInv'
      BY <2>1 DEF IInv, ContentInv, OwnedKeys, Stored, Owns
    <2> QED BY <2>2, <2>3 DEF IInv
  <1> QED BY <1>1, <1>2

LEMMA Invariant == Spec => []IInv
  BY InitInv, NextInv, PTL DEF Spec

-----------------------------------------------------------------------------
\* Type correctness.
THEOREM TypeCorrect == Spec => []TypeOK
  <1>1. IInv => TypeOK
    BY DEF IInv
  <1> QED BY Invariant, <1>1, PTL

\* A row of file_versions has a complete physical file, for any number of
\* workers, files and requests, and under every combination of failed writes,
\* failed removals, failed commits, crashes and a clock that starts over.
THEOREM RowsHaveContent == Spec => []RowHasContent
  <1>1. IInv => RowHasContent
    BY DEF IInv, ContentInv, Stored, RowHasContent
  <1> QED BY Invariant, <1>1, PTL

\* A download finds the content of the version it has read, under the same
\* conditions, however many uploads, prunings and removals come in between.
THEOREM DownloadsFindContent == Spec => []DownloadFindsContent
  <1>1. IInv => DownloadFindsContent
    BY DEF IInv, ContentInv, Stored, DownloadFindsContent
  <1> QED BY Invariant, <1>1, PTL

-----------------------------------------------------------------------------
\* A step adds at most one row, of the physical file of worker w's task.
AddsRow(w) ==
    \E new : new.phys = task[w].key /\ versions' \subseteq versions \cup {new}

\* A step adds at most one row, and its physical file is one that a task owns.
LEMMA NewRow ==
    ASSUME IInv, [Next]_vars
    PROVE  \/ versions' \subseteq versions
           \/ \E w \in Workers : Owns(w) /\ AddsRow(w)
  <1>1. CASE \E w \in Workers : CreateFile(w)
    <2>1. PICK w \in Workers : CreateFile(w)
      BY <1>1
    <2>2. PICK new : new.phys = task[w].key /\ versions' \subseteq versions \cup {new}
      <3>1. PICK n \in Names, m \in MaxCounts :
              LET version == [id |-> lastId + 2, file |-> lastId + 1, num |-> FirstNumber,
                              phys |-> task[w].key]
              IN  versions' = versions \cup {version} \/ versions' = versions
        BY <2>1 DEF CreateFile, tables
      <3> DEFINE version == [id |-> lastId + 2, file |-> lastId + 1, num |-> FirstNumber,
                             phys |-> task[w].key]
      <3>2. version.phys = task[w].key
        OBVIOUS
      <3>3. versions' \subseteq versions \cup {version}
        BY <3>1
      <3> HIDE DEF version
      <3> QED BY <3>2, <3>3
    <2> QED BY <2>1, <2>2 DEF CreateFile, AddsRow, Owns, Owning
  <1>2. CASE \E w \in Workers : CommitVersion(w)
    <2>1. PICK w \in Workers : CommitVersion(w)
      BY <1>2
    <2>2. PICK new : new.phys = task[w].key /\ versions' \subseteq versions \cup {new}
      <3>1. PICK r \in task[w].row, v \in task[w].ver :
              LET version == [id |-> lastId + 1, file |-> r.id, num |-> v.num + 1,
                              phys |-> task[w].key]
              IN  versions' = StoreVersion(version, r.max) \/ versions' = versions
        BY <2>1 DEF CommitVersion, tables
      <3> DEFINE version == [id |-> lastId + 1, file |-> r.id, num |-> v.num + 1,
                             phys |-> task[w].key]
      <3>2. version.phys = task[w].key
        OBVIOUS
      <3>3. versions' \subseteq versions \cup {version}
        BY <3>1 DEF StoreVersion, RemoveOldVersions
      <3> HIDE DEF version
      <3> QED BY <3>2, <3>3
    <2> QED BY <2>1, <2>2 DEF CommitVersion, AddsRow, Owns, Owning
  <1>3. CASE \/ Restart
             \/ \E w \in Workers :
                  \/ Handle(w) \/ PrevFile(w) \/ PrevVersion(w) \/ CreateNew(w)
                  \/ WriteBegin(w) \/ WriteEnd(w) \/ NewVersionReadFile(w)
                  \/ NewVersionReadVersion(w) \/ CommitThrows(w) \/ Cleanup(w)
                  \/ Confirm(w) \/ OpenDownload(w) \/ Rename(w) \/ Remove(w)
    BY <1>3 DEF Restart, Handle, HandleCreate, HandleCreateNewVersion, HandleUpload,
       HandleDownload, HandleRename, HandleRemove, Dispatch, PrevFile, PrevVersion, CreateNew,
       WriteBegin, WriteEnd, NewVersionReadFile, NewVersionReadVersion, ReadFile, ReadCurrent,
       CommitThrows, Cleanup, Confirm, OpenDownload, Rename, Remove, tables
  <1>4. CASE UNCHANGED vars
    BY <1>4 DEF vars
  <1> QED BY <1>1, <1>2, <1>3, <1>4 DEF Next, Step

\* Two version rows never share a physical file, not even when a clock that
\* starts over makes generateId() return names that are in use.
THEOREM ContentIsNotShared == Spec => []ContentNotShared
  <1>1. Init => ContentNotShared
    BY DEF Init, ContentNotShared
  <1>2. IInv /\ ContentNotShared /\ [Next]_vars => ContentNotShared'
    <2> SUFFICES ASSUME IInv, ContentNotShared, [Next]_vars,
                        NEW u \in versions', NEW v \in versions', u.phys = v.phys
                 PROVE  u = v
      BY DEF ContentNotShared
    <2>1. CASE versions' \subseteq versions
      BY <2>1 DEF ContentNotShared
    <2>2. CASE \E w \in Workers : Owns(w) /\ AddsRow(w)
      <3>1. PICK w \in Workers : Owns(w) /\ AddsRow(w)
        BY <2>2
      <3>2. PICK new : new.phys = task[w].key /\ versions' \subseteq versions \cup {new}
        BY <3>1 DEF AddsRow
      <3>3. \A x \in versions : x.phys # new.phys
        BY <3>1, <3>2 DEF IInv, ContentInv, Stored
      <3> QED BY <3>3, <3>2 DEF ContentNotShared
    <2> QED BY <2>1, <2>2, NewRow
  <1> QED BY <1>1, <1>2, Invariant, PTL DEF Spec

\* A request that fails before its rows are committed leaves no physical file
\* behind, unless COMMIT throws past the cleanup, the process dies, or unlink
\* itself fails.
THEOREM FailuresLeaveNoContent == Spec => FailureLeavesNoContent
  <1> DEFINE Clean(w) ==
               /\ pc[w] \in {"createFile", "writeBegin", "writeEnd", "readFile",
                             "readVersion", "commitVersion", "cleanup"}
               /\ pc'[w] = "idle"
               => \/ disk'[task[w].key] = "none"
                  \/ Restart \/ CommitThrows(w)
                  \/ "unlink" \in Faults /\ pc[w] = "cleanup"
  <1>1. ASSUME IInv, [Next]_vars, NEW w \in Workers PROVE Clean(w)
    <2> SUFFICES ASSUME pc[w] \in Owning, pc'[w] = "idle", ~Restart, ~CommitThrows(w),
                        ~("unlink" \in Faults /\ pc[w] = "cleanup")
                 PROVE  disk'[task[w].key] = "none"
      BY DEF Owning
    <2>1. pc'[w] # pc[w]
      BY DEF Owning
    <2>2. PICK u \in Workers : Handle(u) \/ Step(u)
      BY <1>1, <2>1 DEF Next, vars
    <2>3. u = w
      <3>1. \/ Finish(u) \/ \E l : Goto(u, l)
        BY <2>2 DEF Handle, HandleCreate, HandleCreateNewVersion, HandleUpload, HandleDownload,
           HandleRename, HandleRemove, Dispatch, Step, PrevFile, PrevVersion, CreateNew,
           WriteBegin, WriteEnd, NewVersionReadFile, NewVersionReadVersion, ReadFile, ReadCurrent,
           Fail, CreateFile, CommitVersion, CommitThrows, Cleanup, Confirm, OpenDownload, Rename,
           Remove
      <3> QED BY <1>1, <2>1, <3>1 DEF Finish, Goto, IInv, TypeOK
    <2>4. Cleanup(w)
      BY <1>1, <2>1, <2>2, <2>3 DEF Handle, HandleCreate, HandleCreateNewVersion, HandleUpload,
         HandleDownload, HandleRename, HandleRemove, Dispatch, Step, PrevFile, PrevVersion,
         CreateNew, WriteBegin, WriteEnd, NewVersionReadFile, NewVersionReadVersion, ReadFile,
         ReadCurrent, Fail, CreateFile, CommitVersion, Confirm, OpenDownload, Rename, Remove,
         Goto, IInv, TypeOK, Owning
    <2>5. disk' = [disk EXCEPT ![task[w].key] = "none"]
      BY <2>4 DEF Cleanup
    <2>6. task[w].key \in Ids /\ disk \in [Ids -> Contents]
      BY <1>1 DEF IInv, TypeOK, ContentInv, OwnedKeys, Owns
    <2> QED BY <2>5, <2>6
  <1>2. IInv /\ [Next]_vars => [\A w \in Workers : Clean(w)]_vars
    BY <1>1
  <1> QED BY <1>2, Invariant, PTL DEF Spec, FailureLeavesNoContent

-----------------------------------------------------------------------------
(* The numbers of the versions of a file, and what removeOldVersions keeps *)
(* of them.                                                                *)

Rows(vs, f) == {v \in vs : v.file = f}

\* The rows of file f have the numbers lo to hi, each once.
Numbered(vs, f, lo, hi) ==
    /\ lo \in Nat \ {0} /\ hi \in Nat \ {0} /\ lo <= hi
    /\ {v.num : v \in Rows(vs, f)} = lo..hi
    /\ \A u, v \in Rows(vs, f) : u.num = v.num => u = v

\* As many as the count keeps, or all that there have ever been.
Tight(lo, hi, keep) ==
    IF Unlimited(keep) THEN lo = 1 ELSE hi - lo + 1 = keep \/ (lo = 1 /\ hi < keep)

\* What VersionsContiguous says of one file.
WellNumbered(vs, f) ==
    IF f.max = 0 THEN \A v \in Rows(vs, f.id) : v.num = 1
    ELSE \E lo, hi : Numbered(vs, f.id, lo, hi) /\ Tight(lo, hi, f.max)

LEMMA ContiguousMeans ==
    ASSUME versions \subseteq Version
    PROVE  VersionsContiguous <=> \A f \in files : WellNumbered(versions, f)
  <1> SUFFICES ASSUME NEW f \in files
               PROVE  LET rows == VersionsOf(f.id)
                          nums == {v.num : v \in rows}
                      IN  (IF f.max = 0 THEN nums \subseteq {1}
                           ELSE /\ \A u, v \in rows : u.num = v.num => u = v
                                /\ \E lo, hi \in nums :
                                     /\ nums = lo..hi
                                     /\ IF Unlimited(f.max) THEN lo = 1
                                        ELSE hi - lo + 1 = f.max \/ (lo = 1 /\ hi < f.max))
                          <=> WellNumbered(versions, f)
    BY DEF VersionsContiguous
  <1> DEFINE nums == {v.num : v \in VersionsOf(f.id)}
  <1>1. VersionsOf(f.id) = Rows(versions, f.id) /\ nums \subseteq Nat \ {0}
    BY DEF VersionsOf, Rows, Version
  <1>2. ASSUME NEW lo \in nums, NEW hi \in nums, nums = lo..hi
        PROVE  lo <= hi /\ lo \in Nat \ {0} /\ hi \in Nat \ {0}
    BY <1>1, <1>2
  <1>3. ASSUME NEW lo \in Nat \ {0}, NEW hi \in Nat \ {0}, lo <= hi, nums = lo..hi
        PROVE  lo \in nums /\ hi \in nums
    BY <1>3
  <1> DEFINE inOrder(lo, hi) == /\ nums = lo..hi
                                /\ IF Unlimited(f.max) THEN lo = 1
                                   ELSE hi - lo + 1 = f.max \/ (lo = 1 /\ hi < f.max)
             distinct == \A u, v \in VersionsOf(f.id) : u.num = v.num => u = v
  <1>4. (distinct /\ \E lo, hi \in nums : inOrder(lo, hi))
           <=> \E lo, hi : Numbered(versions, f.id, lo, hi) /\ Tight(lo, hi, f.max)
    <2>1. ASSUME NEW lo, NEW hi
          PROVE  Numbered(versions, f.id, lo, hi) /\ Tight(lo, hi, f.max)
                    <=> distinct /\ lo \in nums /\ hi \in nums /\ inOrder(lo, hi)
      BY <1>1, <1>2, <1>3 DEF Numbered, Tight
    <2> QED BY <2>1
  <1>5. nums \subseteq {1} <=> \A v \in Rows(versions, f.id) : v.num = 1
    BY <1>1
  <1> QED BY <1>4, <1>5 DEF WellNumbered

\* As many rows as numbers.
LEMMA CountNumbered ==
    ASSUME NEW S, NEW a \in Nat, NEW b \in Nat, {v.num : v \in S} = a..b,
           \A u, v \in S : u.num = v.num => u = v
    PROVE  IsFiniteSet(S) /\ Cardinality(S) = IF a > b THEN 0 ELSE b - a + 1
  <1> DEFINE num == [v \in S |-> v.num]
  <1>1. IsFiniteSet(a..b) /\ Cardinality(a..b) = IF a > b THEN 0 ELSE b - a + 1
    BY FS_Interval
  <1>2. num \in Injection(S, a..b)
    BY DEF Injection, IsInjective
  <1>3. num \in Surjection(S, a..b)
    BY DEF Surjection
  <1> QED BY <1>1, <1>2, <1>3, FS_Injection

\* The row v is kept when less than keep rows of its file are newer.
LEMMA Kept ==
    ASSUME NEW vs, NEW f, NEW lo, NEW hi, Numbered(vs, f, lo, hi),
           NEW keep, NEW v \in Rows(vs, f)
    PROVE  v \in RemoveOldVersions(vs, f, keep) <=> Unlimited(keep) \/ hi - v.num < keep
  <1> DEFINE newer == {u \in vs : u.file = f /\ u.num > v.num}
  <1>1. v \in vs /\ v.file = f /\ v.num \in lo..hi /\ lo \in Nat /\ hi \in Nat
    BY DEF Numbered, Rows
  <1>2. {u.num : u \in newer} = (v.num + 1)..hi
    <2>1. \A u \in Rows(vs, f) : u.num \in lo..hi
      BY DEF Numbered
    <2>2. \A n \in lo..hi : \E u \in Rows(vs, f) : u.num = n
      BY DEF Numbered
    <2>3. newer = {u \in Rows(vs, f) : u.num > v.num}
      BY DEF Rows
    <2> HIDE DEF newer
    <2>4. \A n \in (v.num + 1)..hi : n \in lo..hi /\ n > v.num
      BY <1>1
    <2>5. \A u \in newer : u.num \in (v.num + 1)..hi
      BY <1>1, <2>1, <2>3
    <2> QED BY <2>2, <2>3, <2>4, <2>5
  <1>3. \A u, x \in newer : u.num = x.num => u = x
    BY DEF Numbered, Rows
  <1> HIDE DEF newer
  <1>4. Cardinality(newer) = hi - v.num
    <2>1. v.num + 1 \in Nat /\ hi \in Nat
      BY <1>1
    <2>2. Cardinality(newer) = IF v.num + 1 > hi THEN 0 ELSE hi - (v.num + 1) + 1
      BY <1>2, <1>3, <2>1, CountNumbered
    <2> QED BY <1>1, <2>2
  <1> QED BY <1>1, <1>4 DEF RemoveOldVersions, newer

\* Rows of other files are kept.
LEMMA OthersKept ==
    ASSUME NEW vs, NEW f, NEW keep
    PROVE  \A v : v.file # f => (v \in RemoveOldVersions(vs, f, keep) <=> v \in vs)
  BY DEF RemoveOldVersions

\* The next number after the latest: the new row stays, and pushes out the
\* oldest one where the count is reached.
LEMMA StoreTop ==
    ASSUME NEW vs, NEW new, NEW lo, NEW hi, NEW keep \in Nat \ {0},
           Numbered(vs, new.file, lo, hi), Tight(lo, hi, keep), new.num = hi + 1
    PROVE  LET stored == RemoveOldVersions(vs \cup {new}, new.file, keep)
           IN  /\ new \in stored
               /\ \E low : Numbered(stored, new.file, low, hi + 1) /\ Tight(low, hi + 1, keep)
  <1> DEFINE f      == new.file
             all    == vs \cup {new}
             stored == RemoveOldVersions(all, f, keep)
  <1>1. lo \in Nat \ {0} /\ hi \in Nat \ {0} /\ lo <= hi
    BY DEF Numbered
  <1>2. Rows(all, f) = Rows(vs, f) \cup {new}
    BY DEF Rows
  <1>3. Numbered(all, f, lo, hi + 1)
    <2>1. \A v \in Rows(vs, f) : v.num \in lo..hi
      BY DEF Numbered
    <2>2. \A n \in lo..hi : \E v \in Rows(vs, f) : v.num = n
      BY DEF Numbered
    <2>3. hi + 1 \in Nat \ {0} /\ lo <= hi + 1
      BY <1>1
    <2>4. lo..(hi + 1) = (lo..hi) \cup {hi + 1} /\ hi + 1 \notin lo..hi
      BY <1>1
    <2>5. {v.num : v \in Rows(all, f)} = lo..(hi + 1)
      <3>1. \A v \in Rows(all, f) : v.num \in lo..(hi + 1)
        BY <1>2, <2>1, <2>4
      <3>2. \A n \in lo..(hi + 1) : \E v \in Rows(all, f) : v.num = n
        BY <1>2, <2>2, <2>4
      <3> HIDE DEF all
      <3> QED BY <3>1, <3>2
    <2>6. \A u, v \in Rows(all, f) : u.num = v.num => u = v
      BY <1>2, <2>1, <2>4 DEF Numbered
    <2> QED BY <1>1, <2>3, <2>5, <2>6 DEF Numbered
  <1>4. \A v \in Rows(all, f) : /\ v.num \in lo..(hi + 1)
                                /\ v \in stored <=> Unlimited(keep) \/ hi + 1 - v.num < keep
    <2> SUFFICES ASSUME NEW v \in Rows(all, f)
                 PROVE  /\ v.num \in lo..(hi + 1)
                        /\ v \in stored <=> Unlimited(keep) \/ hi + 1 - v.num < keep
      OBVIOUS
    <2>1. v.num \in lo..(hi + 1)
      BY <1>3 DEF Numbered
    <2> DEFINE top == hi + 1
    <2> HIDE DEF all, f, top
    <2>2. Numbered(all, f, lo, top)
      BY <1>3 DEF top
    <2>3. v \in RemoveOldVersions(all, f, keep) <=> Unlimited(keep) \/ top - v.num < keep
      BY <2>2, Kept
    <2> QED BY <1>1, <2>1, <2>3 DEF top, all, f
  <1>5. Rows(stored, f) = {v \in Rows(all, f) : Unlimited(keep) \/ hi + 1 - v.num < keep}
    <2>1. stored \subseteq all
      BY DEF RemoveOldVersions
    <2> HIDE DEF stored, all
    <2> QED BY <1>4, <2>1 DEF Rows
  <1> HIDE DEF stored, all
  <1>6. new \in stored
    <2>1. new \in Rows(all, f)
      BY <1>2
    <2> QED BY <1>1, <1>4, <2>1
  <1>7. ASSUME NEW low \in lo..(hi + 1),
               \A n \in lo..(hi + 1) : (Unlimited(keep) \/ hi + 1 - n < keep) <=> n >= low
        PROVE  Numbered(stored, f, low, hi + 1)
    <2>1. Rows(stored, f) = {v \in Rows(all, f) : v.num >= low}
      BY <1>4, <1>5, <1>7
    <2>2. \A n \in low..(hi + 1) : n \in lo..(hi + 1) /\ n >= low
      BY <1>1
    <2>3. \A n \in lo..(hi + 1) : \E v \in Rows(all, f) : v.num = n
      BY <1>3 DEF Numbered
    <2>4. \A v \in Rows(stored, f) : v.num \in low..(hi + 1)
      BY <1>1, <1>4, <2>1
    <2>5. {v.num : v \in Rows(stored, f)} = low..(hi + 1)
      BY <2>1, <2>2, <2>3, <2>4
    <2>6. \A u, v \in Rows(stored, f) : u.num = v.num => u = v
      BY <1>3, <2>1 DEF Numbered
    <2>7. low \in Nat \ {0} /\ hi + 1 \in Nat \ {0} /\ low <= hi + 1
      BY <1>1
    <2> QED BY <2>5, <2>6, <2>7 DEF Numbered
  <1>8. CASE Unlimited(keep)
    <2>1. Numbered(stored, f, lo, hi + 1)
      BY <1>1, <1>7, <1>8
    <2> QED BY <1>6, <1>8, <2>1 DEF Tight, stored, all
  <1>9. CASE ~Unlimited(keep) /\ lo = 1 /\ hi < keep
    <2>1. Numbered(stored, f, lo, hi + 1)
      <3>1. \A n \in lo..(hi + 1) : hi + 1 - n < keep /\ n >= lo
        BY <1>1, <1>9
      <3> QED BY <1>1, <1>7, <3>1
    <2>2. Tight(lo, hi + 1, keep)
      BY <1>1, <1>9 DEF Tight
    <2> QED BY <1>6, <2>1, <2>2 DEF stored, all
  <1>10. CASE ~Unlimited(keep) /\ hi - lo + 1 = keep
    <2>1. Numbered(stored, f, lo + 1, hi + 1)
      <3>1. \A n \in lo..(hi + 1) : hi + 1 - n < keep <=> n >= lo + 1
        BY <1>1, <1>10
      <3>2. lo + 1 \in lo..(hi + 1)
        BY <1>1
      <3> QED BY <1>7, <1>10, <3>1, <3>2
    <2>2. Tight(lo + 1, hi + 1, keep)
      BY <1>1, <1>10 DEF Tight
    <2> QED BY <1>6, <2>1, <2>2 DEF stored, all
  <1> QED BY <1>8, <1>9, <1>10 DEF Tight

\* A number below the oldest: the new row is pruned as soon as it is inserted,
\* and nothing else is.
LEMMA StoreBelow ==
    ASSUME NEW vs, NEW new, NEW lo, NEW hi, NEW keep \in Nat \ {0},
           Numbered(vs, new.file, lo, hi), Tight(lo, hi, keep), new.num \in Nat \ {0}, new.num < lo
    PROVE  RemoveOldVersions(vs \cup {new}, new.file, keep) = vs
  <1> DEFINE f        == new.file
             all      == vs \cup {new}
             newer(v) == {u \in all : u.file = f /\ u.num > v.num}
  <1>1. lo \in Nat \ {0} /\ hi \in Nat \ {0} /\ lo <= hi /\ lo # 1
    BY DEF Numbered
  <1>2. ~Unlimited(keep) /\ hi - lo + 1 = keep
    BY <1>1 DEF Tight
  <1>3. \A v \in Rows(vs, f) : v.num \in lo..hi
    BY DEF Numbered
  <1>4. newer(new) = Rows(vs, f)
    BY <1>1, <1>3 DEF Rows
  <1>5. Cardinality(newer(new)) = keep
    <2>1. /\ {v.num : v \in Rows(vs, f)} = lo..hi /\ lo \in Nat /\ hi \in Nat
          /\ \A u, v \in Rows(vs, f) : u.num = v.num => u = v
      BY DEF Numbered
    <2> HIDE DEF f
    <2>2. Cardinality(Rows(vs, f)) = IF lo > hi THEN 0 ELSE hi - lo + 1
      BY <2>1, CountNumbered
    <2> QED BY <1>1, <1>2, <1>4, <2>2
  <1>6. new \notin RemoveOldVersions(all, f, keep)
    BY <1>2, <1>5 DEF RemoveOldVersions
  <1>7. ASSUME NEW v \in Rows(vs, f) PROVE v \in RemoveOldVersions(all, f, keep)
    <2>1. newer(v) = {u \in vs : u.file = f /\ u.num > v.num}
      BY <1>1, <1>3, <1>7
    <2>2. v \in RemoveOldVersions(vs, f, keep)
      BY <1>1, <1>2, <1>3, Kept
    <2>3. Cardinality(newer(v)) < keep
      BY <1>2, <2>1, <2>2 DEF RemoveOldVersions, Rows
    <2> QED BY <2>3 DEF RemoveOldVersions, Rows
  <1>8. RemoveOldVersions(all, f, keep) \subseteq all
    BY DEF RemoveOldVersions
  <1>9. ASSUME NEW v \in vs PROVE v \in RemoveOldVersions(all, f, keep)
    BY <1>7, OthersKept DEF Rows
  <1> QED BY <1>6, <1>8, <1>9

\* A count of 0 keeps nothing.
LEMMA StoreNone ==
    ASSUME NEW vs, NEW new, IsFiniteSet(vs)
    PROVE  Rows(RemoveOldVersions(vs \cup {new}, new.file, 0), new.file) = {}
  <1> DEFINE f        == new.file
             all      == vs \cup {new}
             newer(v) == {u \in all : u.file = f /\ u.num > v.num}
  <1>1. ~Unlimited(0)
    BY CountRangeAssumption DEF Unlimited
  <1>2. IsFiniteSet(all)
    BY FS_AddElement
  <1>3. ASSUME NEW v PROVE ~(Cardinality(newer(v)) < 0)
    <2>1. newer(v) \in SUBSET all
      OBVIOUS
    <2>2. Cardinality(newer(v)) \in Nat
      BY <1>2, <2>1, FS_Subset, FS_CardinalityType
    <2> QED BY <2>2
  <1> QED BY <1>1, <1>3 DEF Rows, RemoveOldVersions

-----------------------------------------------------------------------------
(* The rows while identifiers are not given out twice.                     *)

\* The machine is not restarted, so steady_clock goes on.
ClockGoesOn == "reboot" \notin Faults

Keys ==
    /\ \A f, g \in files : f.id = g.id => f = g
    /\ \A v \in versions : \E f \in files : f.id = v.file
    /\ IsFiniteSet(versions)

Issued ==
    /\ \A f \in files : f.id <= lastId /\ f.cur <= lastId
    /\ \A v \in versions : v.id <= lastId

RowsInv ==
    /\ Keys /\ Issued /\ CurrentIsLatest
    /\ \A f \in files : WellNumbered(versions, f)

\* What task w has read may be old: its file may be gone or have a newer
\* current version, but never a smaller latest number or another count.
ReadBefore(w) ==
    /\ \A r, s \in task[w].row : r = s
    /\ \A r \in task[w].row :
          /\ r.id <= lastId /\ r.cur <= lastId
          /\ \A f \in files : f.id = r.id => f.max = r.max
          /\ \A v \in versions : v.id = r.cur => v.file = r.id
    /\ \A v \in task[w].ver :
          /\ v.file <= lastId
          /\ \A f \in files : f.id = v.file /\ f.max # 0 =>
                \E u \in VersionsOf(f.id) : u.num >= v.num
    /\ pc[w] = "commitVersion" => \A r \in task[w].row, v \in task[w].ver : v.file = r.id

LatestInv == RowsInv /\ \A w \in Workers : ReadBefore(w)

\* What a step may do to the rows without making a task's reads wrong.
Carries ==
    /\ lastId <= lastId'
    /\ \A f \in files' : f.id > lastId \/ \E g \in files : g.id = f.id /\ g.max = f.max
    /\ \A v \in versions' \ versions : v.id > lastId
    /\ \A f \in files' : f.max # 0 /\ f.id <= lastId =>
          \A v \in VersionsOf(f.id) : \E u \in VersionsOf(f.id)' : u.num >= v.num

-----------------------------------------------------------------------------
(* What the steps do to the tasks.                                         *)

\* Task w has read no more than before.
ReadsNothing(w) ==
    /\ task'[w].row \subseteq task[w].row /\ task'[w].ver \subseteq task[w].ver
    /\ pc'[w] = "commitVersion" => pc[w] = "commitVersion"

\* It has read the row of its file, or the current version of that row.
ReadsRow(w) ==
    /\ UNCHANGED <<files, versions, lastId>>
    /\ task'[w].row = FileById(task[w].target) /\ task'[w].ver = task[w].ver
    /\ pc'[w] # "commitVersion"
ReadsVersion(w) ==
    /\ UNCHANGED <<files, versions, lastId>>
    /\ task'[w].row = task[w].row
    /\ \E r \in task[w].row : task'[w].ver = VersionById(r.cur)

\* Each step is one of these for each worker.
LEMMA ReadSteps ==
    ASSUME IInv, [Next]_vars, NEW u \in Workers
    PROVE  ReadsNothing(u) \/ ReadsRow(u) \/ ReadsVersion(u)
  <1> USE DEF IInv
  <1>1. CASE Restart \/ UNCHANGED vars
    BY <1>1 DEF Restart, vars, ReadsNothing, NoTask
  <1>2. ASSUME NEW w \in Workers, Handle(w) \/ Step(w)
        PROVE  ReadsNothing(u) \/ ReadsRow(u) \/ ReadsVersion(u)
    <2> USE DEF TypeOK
    <2>1. CASE Handle(w)
      <3>1. PICK op, f, l : Dispatch(w, op, f, l) /\ l # "commitVersion"
        BY <2>1 DEF Handle, HandleCreate, HandleCreateNewVersion, HandleUpload, HandleDownload,
           HandleRename, HandleRemove
      <3>2. [NoTask EXCEPT !.op = op, !.target = f].row = {}
            /\ [NoTask EXCEPT !.op = op, !.target = f].ver = {}
        BY DEF NoTask
      <3> QED BY <3>1, <3>2 DEF Dispatch, Goto, ReadsNothing
    <2>2. CASE \E from, to, missing :
                  ReadFile(w, from, to, missing) /\ "commitVersion" \notin {to, missing}
      <3>1. PICK from, to, missing :
                  ReadFile(w, from, to, missing) /\ "commitVersion" \notin {to, missing}
        BY <2>2
      <3>2. UNCHANGED <<files, versions, lastId>>
        BY <3>1 DEF ReadFile, tables
      <3>3. CASE task' = [task EXCEPT ![w].row = FileById(task[w].target)] /\ Goto(w, to)
        BY <3>1, <3>2, <3>3 DEF Goto, ReadsNothing, ReadsRow
      <3>4. CASE Fail(w, missing)
        BY <3>1, <3>4 DEF Fail, Finish, Goto, NoTask, ReadsNothing
      <3> QED BY <3>1, <3>3, <3>4 DEF ReadFile
    <2>3. CASE \E from, to, missing :
                  ReadCurrent(w, from, to, missing) /\ missing # "commitVersion"
      <3>1. PICK from, to, missing :
                  ReadCurrent(w, from, to, missing) /\ missing # "commitVersion"
        BY <2>3
      <3>2. UNCHANGED <<files, versions, lastId>>
        BY <3>1 DEF ReadCurrent, tables
      <3>3. PICK r \in task[w].row :
              \/ task' = [task EXCEPT ![w].ver = VersionById(r.cur)] /\ Goto(w, to)
              \/ Fail(w, missing)
        BY <3>1 DEF ReadCurrent
      <3>4. CASE task' = [task EXCEPT ![w].ver = VersionById(r.cur)] /\ Goto(w, to)
        BY <3>1, <3>2, <3>4 DEF Goto, ReadsNothing, ReadsVersion
      <3>5. CASE Fail(w, missing)
        BY <3>1, <3>5 DEF Fail, Finish, Goto, NoTask, ReadsNothing
      <3> QED BY <3>3, <3>4, <3>5
    <2>4. CASE CreateNew(w) \/ WriteBegin(w) \/ WriteEnd(w) \/ CreateFile(w)
      <3>1. \/ Finish(w)
            \/ /\ \E l \in Labels \ {"commitVersion"} : Goto(w, l)
               /\ \/ task' = task
                  \/ \E k : task' = [task EXCEPT ![w].key = k]
                  \/ \E f : task' = [task EXCEPT ![w].target = f]
        BY <2>4 DEF CreateNew, WriteBegin, WriteEnd, CreateFile, Labels
      <3> QED BY <3>1 DEF Finish, Goto, NoTask, ReadsNothing
    <2>5. CASE \/ CommitVersion(w) \/ CommitThrows(w) \/ Cleanup(w) \/ Confirm(w)
               \/ OpenDownload(w) \/ Rename(w) \/ Remove(w)
      <3>1. Finish(w) \/ (task' = task /\ \E l \in {"confirm", "cleanup"} : Goto(w, l))
        BY <2>5 DEF CommitVersion, CommitThrows, Cleanup, Confirm, OpenDownload, Rename, Remove
      <3> QED BY <3>1 DEF Finish, Goto, NoTask, ReadsNothing
    <2>6. CASE PrevFile(w) \/ NewVersionReadFile(w)
      BY <2>2, <2>6 DEF PrevFile, NewVersionReadFile
    <2>7. CASE PrevVersion(w) \/ NewVersionReadVersion(w)
      BY <2>3, <2>7 DEF PrevVersion, NewVersionReadVersion
    <2> QED BY <1>2, <2>1, <2>4, <2>5, <2>6, <2>7 DEF Step
  <1> QED BY <1>1, <1>2 DEF Next

\* What a task has read stays as it was said to be.
LEMMA ReadsKept ==
    ASSUME IInv, IInv', LatestInv, Carries, NEW w \in Workers,
           ReadsNothing(w) \/ ReadsRow(w) \/ ReadsVersion(w)
    PROVE  ReadBefore(w)'
  <1> USE DEF IInv, TypeOK
  <1>1. ReadBefore(w) /\ RowsInv
    BY DEF LatestInv
  <1>2. lastId \in Nat /\ lastId' \in Nat /\ lastId <= lastId'
    BY MaxIdAssumption DEF Carries
  <1>3. /\ \A f \in files : f.id \in Nat /\ f.cur \in Nat
        /\ \A v \in versions : v.id \in Nat /\ v.file \in Nat /\ v.num \in Nat
        /\ \A v \in versions' : v.id \in Nat /\ v.num \in Nat
        /\ \A f \in files' : f.id \in Nat
    BY MaxIdAssumption DEF File, Version, Ids
  <1>4. \A r \in task[w].row : r.id \in Nat /\ r.cur \in Nat
    BY MaxIdAssumption DEF File, Ids
  <1>5. \A v \in task[w].ver : v.file \in Nat /\ v.num \in Nat
    BY MaxIdAssumption DEF Version, Ids
  <1>6. CASE ReadsNothing(w)
    <2>1. ASSUME NEW r \in task'[w].row
          PROVE  /\ r.id <= lastId' /\ r.cur <= lastId'
                 /\ \A f \in files' : f.id = r.id => f.max = r.max
                 /\ \A v \in versions' : v.id = r.cur => v.file = r.id
      <3>1. r \in task[w].row
        BY <1>6 DEF ReadsNothing
      <3>2. /\ r.id <= lastId /\ r.cur <= lastId
            /\ \A f \in files : f.id = r.id => f.max = r.max
            /\ \A v \in versions : v.id = r.cur => v.file = r.id
        BY <1>1, <3>1 DEF ReadBefore
      <3> QED BY <1>2, <1>3, <1>4, <3>1, <3>2 DEF Carries
    <2>2. ASSUME NEW v \in task'[w].ver
          PROVE  /\ v.file <= lastId'
                 /\ \A f \in files' : f.id = v.file /\ f.max # 0 =>
                       \E u \in VersionsOf(f.id)' : u.num >= v.num
      <3>1. v \in task[w].ver
        BY <1>6 DEF ReadsNothing
      <3>2. v.file <= lastId /\ v.file \in Nat /\ v.num \in Nat
        BY <1>1, <1>5, <3>1 DEF ReadBefore
      <3>3. ASSUME NEW f \in files', f.id = v.file, f.max # 0
            PROVE  \E u \in VersionsOf(f.id)' : u.num >= v.num
        <4>1. PICK g \in files : g.id = f.id /\ g.max = f.max
          BY <1>2, <3>2, <3>3 DEF Carries
        <4>2. PICK u \in VersionsOf(f.id) : u.num >= v.num
          BY <1>1, <3>1, <3>3, <4>1 DEF ReadBefore
        <4>3. PICK x \in VersionsOf(f.id)' : x.num >= u.num
          BY <3>2, <3>3, <4>2 DEF Carries
        <4>4. x.num >= v.num
          BY <1>3, <3>2, <4>2, <4>3 DEF VersionsOf
        <4> QED BY <4>4
      <3> QED BY <1>2, <3>2, <3>3
    <2>3. pc'[w] = "commitVersion" =>
            \A r \in task'[w].row, v \in task'[w].ver : v.file = r.id
      BY <1>1, <1>6 DEF ReadsNothing, ReadBefore
    <2>4. \A r, s \in task'[w].row : r = s
      BY <1>1, <1>6 DEF ReadsNothing, ReadBefore
    <2> QED BY <2>1, <2>2, <2>3, <2>4 DEF ReadBefore
  <1>7. CASE ReadsRow(w)
    <2>1. \A r \in task'[w].row : r \in files
      BY <1>7 DEF ReadsRow, FileById
    <2>2. \A r, s \in task'[w].row : r = s
      BY <1>1, <1>7 DEF ReadsRow, FileById, RowsInv, Keys
    <2>3. ASSUME NEW r \in files
          PROVE  /\ r.id <= lastId /\ r.cur <= lastId
                 /\ \A f \in files : f.id = r.id => f.max = r.max
                 /\ \A v \in versions : v.id = r.cur => v.file = r.id
      BY <1>1, <2>3 DEF RowsInv, Keys, Issued, CurrentIsLatest, VersionById
    <2> QED BY <1>1, <1>7, <2>1, <2>2, <2>3 DEF ReadsRow, ReadBefore, VersionsOf
  <1>8. CASE ReadsVersion(w)
    <2>1. PICK r \in task[w].row : task'[w].ver = VersionById(r.cur)
      BY <1>8 DEF ReadsVersion
    <2>2. ASSUME NEW v \in task'[w].ver
          PROVE  v \in versions /\ v.file = r.id /\ v.file <= lastId
      BY <1>1, <2>1, <2>2 DEF ReadBefore, VersionById
    <2>3. ASSUME NEW v \in task'[w].ver, NEW f \in files, f.id = v.file
          PROVE  \E u \in VersionsOf(f.id) : u.num >= v.num
      BY <1>3, <2>2, <2>3 DEF VersionsOf
    <2> QED BY <1>1, <1>8, <2>1, <2>2, <2>3 DEF ReadsVersion, ReadBefore, VersionsOf
  <1> QED BY <1>6, <1>7, <1>8

-----------------------------------------------------------------------------
(* What the steps do to the rows.                                          *)

\* The numbers of a file depend on its own rows and its count alone.
LEMMA SameRows ==
    ASSUME NEW vs, NEW ws, NEW f, NEW g, f.id = g.id, f.max = g.max,
           Rows(vs, f.id) = Rows(ws, f.id), WellNumbered(vs, f)
    PROVE  WellNumbered(ws, g)
  BY DEF WellNumbered, Numbered

\* A number is as large as itself.
LEMMA RowStays ==
    ASSUME IInv, NEW f, VersionsOf(f) \subseteq VersionsOf(f)'
    PROVE  \A v \in VersionsOf(f) : \E u \in VersionsOf(f)' : u.num >= v.num
  BY DEF IInv, TypeOK, Version, VersionsOf

\* Steps that leave the rows alone.
LEMMA NoRows ==
    ASSUME IInv, RowsInv, UNCHANGED <<files, versions>>, lastId' \in Nat, lastId <= lastId'
    PROVE  RowsInv' /\ Carries
  <1>1. Issued'
    <2>1. lastId \in Nat /\ \A f \in files : f.id \in Nat /\ f.cur \in Nat
      BY MaxIdAssumption DEF IInv, TypeOK, File, Ids
    <2>2. \A v \in versions : v.id \in Nat
      BY MaxIdAssumption DEF IInv, TypeOK, Version, Ids
    <2> QED BY <2>1, <2>2 DEF RowsInv, Issued
  <1>2. Keys' /\ CurrentIsLatest' /\ \A f \in files' : WellNumbered(versions', f)
    BY DEF RowsInv, Keys, CurrentIsLatest, VersionById, VersionsOf
  <1>3. \A f \in files' : \A v \in VersionsOf(f.id) : \E u \in VersionsOf(f.id)' : u.num >= v.num
    BY RowStays DEF VersionsOf
  <1> QED BY <1>1, <1>2, <1>3 DEF RowsInv, Carries

LEMMA RenameRows ==
    ASSUME IInv, IInv', RowsInv, NEW w \in Workers, Rename(w)
    PROVE  RowsInv' /\ Carries
  <1>1. CASE UNCHANGED files
    BY <1>1, NoRows, MaxIdAssumption DEF Rename, IInv, TypeOK
  <1>2. CASE \E n \in Names : \E r \in FileById(task[w].target) :
               files' = UpdateFile([r EXCEPT !.name = n])
    <2>1. PICK n \in Names, r \in files : files' = UpdateFile([r EXCEPT !.name = n])
      BY <1>2 DEF FileById
    <2> DEFINE new == [r EXCEPT !.name = n]
    <2>2. new.id = r.id /\ new.cur = r.cur /\ new.max = r.max
      OBVIOUS
    <2>3. files' = UpdateFile(new)
      BY <2>1
    <2> HIDE DEF new
    <2>4. files' = {f \in files : f.id # r.id} \cup {new}
      BY <2>2, <2>3 DEF UpdateFile, FileById
    <2>5. UNCHANGED <<versions, lastId>>
      BY DEF Rename
    <2>6. ASSUME NEW f \in files'
          PROVE  \E g \in files : g.id = f.id /\ g.cur = f.cur /\ g.max = f.max
      BY <2>2, <2>4
    <2>7. Keys'
      BY <2>2, <2>4, <2>5 DEF RowsInv, Keys
    <2>8. Issued'
      BY <2>5, <2>6 DEF RowsInv, Issued
    <2>9. CurrentIsLatest'
      <3> SUFFICES ASSUME NEW f \in files', NEW v \in VersionById(f.cur)'
                   PROVE  v.file = f.id /\ \A u \in VersionsOf(f.id)' : u.num <= v.num
        BY DEF CurrentIsLatest
      <3> QED BY <2>5, <2>6 DEF RowsInv, CurrentIsLatest, VersionById, VersionsOf
    <2>10. ASSUME NEW f \in files' PROVE WellNumbered(versions', f)
      BY <2>5, <2>6, SameRows DEF RowsInv
    <2>11. \A f \in files' : \A v \in VersionsOf(f.id) : \E u \in VersionsOf(f.id)' : u.num >= v.num
      BY <2>5, RowStays DEF VersionsOf
    <2>12. lastId <= lastId'
      BY <2>5, MaxIdAssumption DEF IInv, TypeOK
    <2> QED BY <2>5, <2>6, <2>7, <2>8, <2>9, <2>10, <2>11, <2>12 DEF RowsInv, Carries
  <1> QED BY <1>1, <1>2 DEF Rename

LEMMA RemoveRows ==
    ASSUME IInv, IInv', RowsInv, NEW w \in Workers, Remove(w)
    PROVE  RowsInv' /\ Carries
  <1> DEFINE t == task[w].target
  <1>1. /\ files' = {f \in files : f.id # t} /\ versions' = {v \in versions : v.file # t}
        /\ lastId' = lastId
    BY DEF Remove, FileById, VersionsOf
  <1> HIDE DEF t
  <1>2. Keys'
    <2>1. IsFiniteSet(versions')
      BY <1>1, FS_Subset DEF RowsInv, Keys
    <2> QED BY <1>1, <2>1 DEF RowsInv, Keys
  <1>3. Issued'
    BY <1>1 DEF RowsInv, Issued
  <1>4. CurrentIsLatest'
    BY <1>1 DEF RowsInv, CurrentIsLatest, VersionById, VersionsOf
  <1>5. ASSUME NEW f \in files' PROVE WellNumbered(versions', f)
    <2>1. Rows(versions, f.id) = Rows(versions', f.id)
      BY <1>1 DEF Rows
    <2> QED BY <1>1, <2>1, SameRows DEF RowsInv
  <1>6. \A f \in files' : VersionsOf(f.id) \subseteq VersionsOf(f.id)'
    BY <1>1 DEF VersionsOf
  <1>7. lastId <= lastId'
    BY <1>1, MaxIdAssumption DEF IInv, TypeOK
  <1> QED BY <1>1, <1>2, <1>3, <1>4, <1>5, <1>6, <1>7, RowStays DEF RowsInv, Carries

\* A new file has one version, with the first number.
LEMMA CreateRows ==
    ASSUME IInv, IInv', RowsInv, NEW w \in Workers, CreateFile(w)
    PROVE  RowsInv' /\ Carries
  <1>1. lastId' = lastId + 2 /\ lastId \in Nat
    BY MaxIdAssumption DEF CreateFile, IInv, TypeOK
  <1>2. CASE UNCHANGED tables
    BY <1>1, <1>2, NoRows DEF tables
  <1>3. CASE ~UNCHANGED tables
    <2>1. PICK n \in Names, m \in MaxCounts :
            /\ files' = files \cup {[id |-> lastId + 1, name |-> n, cur |-> lastId + 2,
                                     max |-> MaxVersionCount(m)]}
            /\ versions' = versions \cup {[id |-> lastId + 2, file |-> lastId + 1,
                                           num |-> FirstNumber, phys |-> task[w].key]}
      BY <1>3 DEF CreateFile
    <2> DEFINE file == [id |-> lastId + 1, name |-> n, cur |-> lastId + 2,
                        max |-> MaxVersionCount(m)]
               new  == [id |-> lastId + 2, file |-> lastId + 1, num |-> FirstNumber,
                        phys |-> task[w].key]
    <2>2. files' = files \cup {file} /\ versions' = versions \cup {new}
      BY <2>1
    <2>3. /\ file.id = lastId + 1 /\ file.cur = lastId + 2 /\ file.max \in Nat
          /\ new.id = lastId + 2 /\ new.file = lastId + 1 /\ new.num = 1
      BY MaxCountsAssumption, CountRangeAssumption DEF FirstNumber, MaxVersionCount
    <2> HIDE DEF file, new
    <2>4. \A f \in files : f.id \in Nat /\ f.cur \in Nat /\ f.id <= lastId /\ f.cur <= lastId
      BY MaxIdAssumption DEF IInv, TypeOK, File, Ids, RowsInv, Issued
    <2>5. \A v \in versions : /\ v.id \in Nat /\ v.file \in Nat /\ v.num \in Nat
                              /\ v.id <= lastId /\ v.file <= lastId
      <3>1. \A v \in versions : v.id \in Nat /\ v.file \in Nat /\ v.num \in Nat
        BY MaxIdAssumption DEF IInv, TypeOK, Version, Ids
      <3> QED BY <2>4, <3>1 DEF RowsInv, Issued, Keys
    <2>6. Keys'
      <3>1. IsFiniteSet(versions')
        BY <2>2, FS_AddElement DEF RowsInv, Keys
      <3>2. \A f, g \in files' : f.id = g.id => f = g
        BY <1>1, <2>2, <2>3, <2>4 DEF RowsInv, Keys
      <3>3. \A v \in versions' : \E f \in files' : f.id = v.file
        BY <2>2, <2>3 DEF RowsInv, Keys
      <3> QED BY <3>1, <3>2, <3>3 DEF Keys
    <2>7. Issued'
      BY <1>1, <2>2, <2>3, <2>4, <2>5 DEF Issued
    <2>8. CurrentIsLatest'
      <3> SUFFICES ASSUME NEW f \in files', NEW v \in versions', v.id = f.cur
                   PROVE  v.file = f.id /\ \A u \in versions' : u.file = f.id => u.num <= v.num
        BY DEF CurrentIsLatest, VersionById, VersionsOf
      <3>1. CASE f = file
        BY <1>1, <2>2, <2>3, <2>5, <3>1
      <3>2. CASE f \in files
        <4>1. v \in versions /\ \A u \in versions' : u.file = f.id => u \in versions
          BY <1>1, <2>2, <2>3, <2>4, <3>2
        <4> QED BY <3>2, <4>1 DEF RowsInv, CurrentIsLatest, VersionById, VersionsOf
      <3> QED BY <2>2, <3>1, <3>2
    <2>9. ASSUME NEW f \in files' PROVE WellNumbered(versions', f)
      <3>1. CASE f = file
        <4>1. Rows(versions', file.id) = {new}
          BY <1>1, <2>2, <2>3, <2>5 DEF Rows
        <4>2. Numbered(versions', file.id, 1, 1)
          BY <2>3, <4>1 DEF Numbered
        <4>3. file.max # 0 => Tight(1, 1, file.max)
          BY <2>3 DEF Tight
        <4> QED BY <2>3, <3>1, <4>1, <4>2, <4>3 DEF WellNumbered
      <3>2. CASE f \in files
        <4>1. Rows(versions, f.id) = Rows(versions', f.id)
          BY <1>1, <2>2, <2>3, <2>4, <3>2 DEF Rows
        <4> QED BY <3>2, <4>1, SameRows DEF RowsInv
      <3> QED BY <2>2, <3>1, <3>2
    <2>10. Carries
      <3>1. lastId <= lastId' /\ lastId + 1 > lastId /\ lastId + 2 > lastId
        BY <1>1
      <3>2. \A f \in files' : VersionsOf(f.id) \subseteq VersionsOf(f.id)'
        BY <2>2 DEF VersionsOf
      <3> QED BY <2>2, <2>3, <3>1, <3>2, RowStays DEF Carries
    <2> QED BY <2>6, <2>7, <2>8, <2>9, <2>10 DEF RowsInv
  <1> QED BY <1>2, <1>3

\* A row that may be stored: its number is new in its file and at most one
\* above the latest.
MayStore(vs, new, f, keep) ==
    /\ IsFiniteSet(vs) /\ keep \in Nat /\ new.file = f /\ new.num \in Nat \ {0}
    /\ \A x \in Rows(vs, f) : x.num # new.num
    /\ keep = 0 \/ \E lo, hi : Numbered(vs, f, lo, hi) /\ Tight(lo, hi, keep) /\ new.num <= hi + 1

\* Then it extends the numbers of its file at the top or is pruned at once, and
\* the latest number never falls.
StoredWell(vs, new, f, keep, stored) ==
    /\ IF keep = 0 THEN Rows(stored, f) = {}
       ELSE \E lo, hi : Numbered(stored, f, lo, hi) /\ Tight(lo, hi, keep)
    /\ new \in stored => \A u \in Rows(stored, f) : u.num <= new.num
    /\ keep # 0 => \A x \in Rows(vs, f) : \E u \in Rows(stored, f) : u.num >= x.num

LEMMA StoreFacts ==
    ASSUME NEW vs, NEW new, NEW f, NEW keep, MayStore(vs, new, f, keep),
           NEW stored, stored = RemoveOldVersions(vs \cup {new}, f, keep)
    PROVE  StoredWell(vs, new, f, keep, stored)
  <1> USE DEF MayStore, StoredWell
  <1>1. CASE keep = 0
    <2>1. Rows(stored, f) = {}
      BY <1>1, StoreNone
    <2> QED BY <1>1, <2>1
  <1>2. CASE keep # 0
    <2>1. PICK lo, hi : Numbered(vs, f, lo, hi) /\ Tight(lo, hi, keep) /\ new.num <= hi + 1
      BY <1>2
    <2>2. /\ lo \in Nat \ {0} /\ hi \in Nat \ {0} /\ lo <= hi
          /\ \A x \in Rows(vs, f) : x.num \in lo..hi
          /\ \E x \in Rows(vs, f) : x.num = hi
          /\ new.num \notin lo..hi
      BY <2>1 DEF Numbered
    <2>3. CASE new.num = hi + 1
      <3>1. /\ new \in stored
            /\ \E low : Numbered(stored, f, low, hi + 1) /\ Tight(low, hi + 1, keep)
        BY <1>2, <2>1, <2>3, StoreTop
      <3>2. new \in Rows(stored, f)
        BY <3>1 DEF Rows
      <3>3. \A u \in Rows(stored, f) : u.num \in Nat /\ u.num <= hi + 1
        <4>1. PICK low : Numbered(stored, f, low, hi + 1)
          BY <3>1
        <4>2. low \in Nat /\ \A u \in Rows(stored, f) : u.num \in low..(hi + 1)
          BY <4>1 DEF Numbered
        <4> QED BY <2>2, <4>2
      <3>4. \A x \in Rows(vs, f) : new.num >= x.num
        BY <2>2, <2>3
      <3>5. \A u \in Rows(stored, f) : u.num <= new.num
        BY <2>3, <3>3
      <3>6. \A x \in Rows(vs, f) : \E u \in Rows(stored, f) : u.num >= x.num
        BY <3>2, <3>4
      <3>7. \E l, h : Numbered(stored, f, l, h) /\ Tight(l, h, keep)
        BY <3>1
      <3> QED BY <1>2, <3>5, <3>6, <3>7
    <2>4. CASE new.num < lo
      <3>1. stored = vs
        BY <1>2, <2>1, <2>4, StoreBelow
      <3>2. new \notin vs
        BY DEF Rows
      <3>3. \A x \in Rows(vs, f) : x.num >= x.num
        BY <2>2
      <3>4. \A x \in Rows(vs, f) : \E u \in Rows(stored, f) : u.num >= x.num
        BY <3>1, <3>3
      <3>5. \E l, h : Numbered(stored, f, l, h) /\ Tight(l, h, keep)
        BY <2>1, <3>1
      <3>6. new \notin stored
        BY <3>1, <3>2
      <3> QED BY <1>2, <3>4, <3>5, <3>6
    <2>5. new.num = hi + 1 \/ new.num < lo
      BY <2>1, <2>2
    <2> QED BY <2>3, <2>4, <2>5
  <1> QED BY <1>1, <1>2

\* A new version, stored from what the task has read before.
LEMMA CommitRows ==
    ASSUME IInv, IInv', LatestInv, NEW w \in Workers, CommitVersion(w)
    PROVE  RowsInv' /\ Carries
  <1>1. lastId' = lastId + 1 /\ lastId \in Nat /\ RowsInv /\ ReadBefore(w)
    BY MaxIdAssumption DEF CommitVersion, IInv, TypeOK, LatestInv
  <1>2. CASE UNCHANGED tables
    BY <1>1, <1>2, NoRows DEF tables
  <1>3. CASE ~UNCHANGED tables
    <2>1. PICK r \in task[w].row, v \in task[w].ver :
            LET file    == [r EXCEPT !.cur = lastId + 1]
                version == [id |-> lastId + 1, file |-> r.id, num |-> v.num + 1,
                            phys |-> task[w].key]
            IN  /\ CanAddVersion(version) /\ CanUpdateFile(file)
                /\ files' = UpdateFile(file)
                /\ versions' = StoreVersion(version, r.max)
      BY <1>3 DEF CommitVersion
    <2> DEFINE file == [r EXCEPT !.cur = lastId + 1]
               new  == [id |-> lastId + 1, file |-> r.id, num |-> v.num + 1,
                        phys |-> task[w].key]
    <2>2. r \in File /\ v \in Version /\ pc[w] = "commitVersion"
      BY DEF IInv, TypeOK, CommitVersion
    <2>3. /\ file.id = r.id /\ file.cur = lastId + 1 /\ file.max = r.max
          /\ new.id = lastId + 1 /\ new.file = r.id /\ new.num = v.num + 1
          /\ r.id \in Nat /\ r.max \in Nat /\ v.num \in Nat \ {0}
      BY <2>2, MaxIdAssumption DEF File, Version, Ids
    <2>4. /\ CanAddVersion(new) /\ CanUpdateFile(file)
          /\ files' = UpdateFile(file)
          /\ versions' = RemoveOldVersions(versions \cup {new}, r.id, r.max)
      BY <2>1 DEF StoreVersion
    <2> HIDE DEF file, new
    <2>5. PICK old \in files : old.id = r.id /\ old.max = r.max
      BY <1>1, <2>3, <2>4 DEF CanUpdateFile, FileById, ReadBefore
    <2>6. v.file = r.id /\ r.id <= lastId
      BY <1>1, <2>2 DEF ReadBefore
    <2>7. \A f \in files : f.id \in Nat /\ f.cur \in Nat /\ f.id <= lastId /\ f.cur <= lastId
      BY <1>1, MaxIdAssumption DEF IInv, TypeOK, File, Ids, RowsInv, Issued
    <2>8. \A x \in versions : x.id \in Nat /\ x.num \in Nat /\ x.id <= lastId
      BY <1>1, MaxIdAssumption DEF IInv, TypeOK, Version, Ids, RowsInv, Issued
    <2>9. r.max = 0 \/ \E lo, hi : /\ Numbered(versions, r.id, lo, hi) /\ Tight(lo, hi, r.max)
                                   /\ new.num <= hi + 1
      <3>1. CASE r.max # 0
        <4>1. PICK lo, hi : Numbered(versions, r.id, lo, hi) /\ Tight(lo, hi, r.max)
          BY <1>1, <2>5, <3>1 DEF RowsInv, WellNumbered
        <4>2. PICK u \in Rows(versions, r.id) : u.num >= v.num
          BY <1>1, <2>5, <2>6, <3>1 DEF ReadBefore, VersionsOf, Rows
        <4>3. hi \in Nat /\ lo \in Nat /\ u.num \in lo..hi
          BY <4>1, <4>2 DEF Numbered
        <4>4. new.num <= hi + 1
          BY <2>3, <4>2, <4>3
        <4> QED BY <4>1, <4>4
      <3> QED BY <3>1
    <2>10. \A x \in Rows(versions, r.id) : x.num # new.num
      BY <2>3, <2>4 DEF CanAddVersion, Rows
    <2>11. StoredWell(versions, new, r.id, r.max, versions')
      <3>1. IsFiniteSet(versions)
        BY <1>1 DEF RowsInv, Keys
      <3>2. MayStore(versions, new, r.id, r.max)
        BY <2>3, <2>9, <2>10, <3>1 DEF MayStore
      <3> QED BY <2>4, <3>2, StoreFacts
    <2>12. /\ versions' \subseteq versions \cup {new}
           /\ \A x : x.file # r.id => (x \in versions' <=> x \in versions)
      <3>1. versions' \subseteq versions \cup {new}
        BY <2>4 DEF RemoveOldVersions
      <3>2. \A x : x.file # r.id => (x \in versions' <=> x \in versions \cup {new})
        BY <2>4, OthersKept
      <3> QED BY <2>3, <3>1, <3>2
    <2>13. files' = {f \in files : f.id # r.id} \cup {file}
      BY <2>3, <2>4 DEF UpdateFile, FileById
    <2>14. Keys'
      <3>1. IsFiniteSet(versions \cup {new})
        BY <1>1, FS_AddElement DEF RowsInv, Keys
      <3>2. IsFiniteSet(versions')
        BY <2>12, <3>1, FS_Subset
      <3>3. \A f, g \in files' : f.id = g.id => f = g
        BY <1>1, <2>3, <2>13 DEF RowsInv, Keys
      <3>4. \A x \in versions' : \E f \in files' : f.id = x.file
        BY <1>1, <2>3, <2>12, <2>13 DEF RowsInv, Keys
      <3> QED BY <3>2, <3>3, <3>4 DEF Keys
    <2>15. Issued'
      BY <1>1, <2>3, <2>6, <2>7, <2>8, <2>12, <2>13 DEF Issued
    <2>16. CurrentIsLatest'
      <3> SUFFICES ASSUME NEW f \in files', NEW x \in versions', x.id = f.cur
                   PROVE  x.file = f.id /\ \A u \in Rows(versions', f.id) : u.num <= x.num
        BY DEF CurrentIsLatest, VersionById, VersionsOf, Rows
      <3>1. CASE f = file
        <4>1. x = new
          BY <1>1, <2>3, <2>8, <2>12, <3>1
        <4> QED BY <2>3, <2>11, <3>1, <4>1 DEF StoredWell
      <3>2. CASE f \in files /\ f.id # r.id
        <4>1. x \in versions /\ Rows(versions', f.id) = Rows(versions, f.id)
          BY <1>1, <2>3, <2>7, <2>12, <3>2 DEF Rows
        <4> QED BY <1>1, <3>2, <4>1 DEF RowsInv, CurrentIsLatest, VersionById, VersionsOf, Rows
      <3> QED BY <2>13, <3>1, <3>2
    <2>17. ASSUME NEW f \in files' PROVE WellNumbered(versions', f)
      <3>1. CASE f = file
        BY <2>3, <2>11, <3>1 DEF WellNumbered, StoredWell
      <3>2. CASE f \in files /\ f.id # r.id
        <4>1. Rows(versions, f.id) = Rows(versions', f.id)
          BY <2>12, <3>2 DEF Rows
        <4> QED BY <1>1, <3>2, <4>1, SameRows DEF RowsInv
      <3> QED BY <2>13, <3>1, <3>2
    <2>18. Carries
      <3>1. lastId <= lastId' /\ lastId + 1 > lastId
        BY <1>1
      <3>2. \A f \in files' : \E g \in files : g.id = f.id /\ g.max = f.max
        BY <2>3, <2>5, <2>13
      <3>3. ASSUME NEW f \in files', f.max # 0
            PROVE  \A x \in VersionsOf(f.id) : \E u \in VersionsOf(f.id)' : u.num >= x.num
        <4>1. CASE f = file
          BY <2>3, <2>11, <3>3, <4>1 DEF VersionsOf, Rows, StoredWell
        <4>2. CASE f.id # r.id
          BY <2>12, <4>2, RowStays DEF VersionsOf
        <4> QED BY <2>13, <4>1, <4>2
      <3> QED BY <2>3, <2>12, <3>1, <3>2, <3>3 DEF Carries
    <2> QED BY <2>14, <2>15, <2>16, <2>17, <2>18 DEF RowsInv
  <1> QED BY <1>2, <1>3

\* The other steps do not touch the rows.
LEMMA StepRows ==
    ASSUME ClockGoesOn, IInv, LatestInv, [Next]_vars
    PROVE  RowsInv' /\ Carries
  <1>1. IInv' /\ RowsInv
    BY NextInv DEF LatestInv
  <1>2. CASE \E w \in Workers : Rename(w) \/ Remove(w) \/ CreateFile(w) \/ CommitVersion(w)
    BY <1>1, <1>2, RenameRows, RemoveRows, CreateRows, CommitRows
  <1>3. CASE \/ Restart \/ UNCHANGED vars
             \/ \E w \in Workers :
                  \/ Handle(w) \/ PrevFile(w) \/ PrevVersion(w) \/ CreateNew(w)
                  \/ WriteBegin(w) \/ WriteEnd(w) \/ NewVersionReadFile(w)
                  \/ NewVersionReadVersion(w) \/ CommitThrows(w) \/ Cleanup(w)
                  \/ Confirm(w) \/ OpenDownload(w)
    <2>1. UNCHANGED <<files, versions>> /\ (lastId' = lastId \/ lastId' = lastId + 1)
      BY <1>3 DEF ClockGoesOn, Restart, Handle, HandleCreate, HandleCreateNewVersion, HandleUpload,
         HandleDownload, HandleRename, HandleRemove, Dispatch, PrevFile, PrevVersion, CreateNew,
         WriteBegin, WriteEnd, NewVersionReadFile, NewVersionReadVersion, ReadFile, ReadCurrent,
         CommitThrows, Cleanup, Confirm, OpenDownload, tables, vars
    <2>2. lastId \in Nat /\ lastId' \in Nat /\ lastId <= lastId'
      BY <2>1, MaxIdAssumption DEF IInv, TypeOK
    <2> QED BY <1>1, <2>1, <2>2, NoRows
  <1> QED BY <1>2, <1>3 DEF Next, Step

LEMMA LatestInvariant ==
    ASSUME ClockGoesOn
    PROVE  Spec => []LatestInv
  <1>1. Init => LatestInv
    <2> SUFFICES ASSUME Init PROVE LatestInv
      OBVIOUS
    <2>1. RowsInv
      BY FS_EmptySet DEF Init, RowsInv, Keys, Issued, CurrentIsLatest
    <2>2. \A w \in Workers : ReadBefore(w)
      BY DEF Init, ReadBefore, NoTask
    <2> QED BY <2>1, <2>2 DEF LatestInv
  <1>2. IInv /\ LatestInv /\ [Next]_vars => LatestInv'
    <2> SUFFICES ASSUME IInv, LatestInv, [Next]_vars PROVE LatestInv'
      OBVIOUS
    <2>1. RowsInv' /\ Carries /\ IInv'
      BY StepRows, NextInv
    <2>2. ASSUME NEW w \in Workers PROVE ReadBefore(w)'
      BY <2>1, ReadSteps, ReadsKept
    <2> QED BY <2>1, <2>2 DEF LatestInv
  <1> QED BY <1>1, <1>2, Invariant, PTL DEF Spec

-----------------------------------------------------------------------------
\* While identifiers are not given out twice, the versions of a live file are
\* numbered without a gap and pruned from the oldest, however uploads that have
\* read the same current version race, and whatever fails or crashes.
THEOREM VersionsAreContiguous ==
    ASSUME ClockGoesOn
    PROVE  Spec => []VersionsContiguous
  <1>1. IInv /\ LatestInv => VersionsContiguous
    BY ContiguousMeans DEF IInv, TypeOK, LatestInv, RowsInv
  <1> QED BY <1>1, Invariant, LatestInvariant, PTL

\* Under the same conditions the current version of a file, when its row is
\* there, is the latest one of that file.
THEOREM CurrentVersionIsLatest ==
    ASSUME ClockGoesOn
    PROVE  Spec => []CurrentIsLatest
  <1>1. LatestInv => CurrentIsLatest
    BY DEF LatestInv, RowsInv
  <1> QED BY <1>1, LatestInvariant, PTL

\* Under the same conditions no step takes the newest row away from a file that
\* stays and whose count is not 0.
THEOREM NewestRowStays ==
    ASSUME ClockGoesOn
    PROVE  Spec => LatestNeverLost
  <1> DEFINE Stays(f) ==
               f.max # 0 /\ (\E g \in files' : g.id = f.id) =>
                 \A v \in VersionsOf(f.id) : \E u \in VersionsOf(f.id)' : u.num >= v.num
  <1>1. ASSUME IInv, LatestInv, [Next]_vars, NEW f \in files PROVE Stays(f)
    <2> SUFFICES ASSUME f.max # 0, NEW g \in files', g.id = f.id
                 PROVE  \A v \in VersionsOf(f.id) : \E u \in VersionsOf(f.id)' : u.num >= v.num
      OBVIOUS
    <2>1. Carries /\ IInv' /\ RowsInv
      BY <1>1, StepRows, NextInv DEF LatestInv
    <2>2. f.id <= lastId /\ f.id \in Nat /\ lastId \in Nat
      BY <1>1, <2>1, MaxIdAssumption DEF IInv, TypeOK, File, Ids, RowsInv, Issued
    <2>3. g.max = f.max
      BY <2>1, <2>2 DEF Carries, RowsInv, Keys
    <2> QED BY <2>1, <2>2, <2>3 DEF Carries
  <1>2. IInv /\ LatestInv /\ [Next]_vars => [\A f \in files : Stays(f)]_vars
    BY <1>1
  <1> QED BY <1>2, Invariant, LatestInvariant, PTL DEF Spec, LatestNeverLost
=============================================================================
