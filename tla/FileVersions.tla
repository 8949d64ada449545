---------------------------- MODULE FileVersions ----------------------------
(***************************************************************************)
(* Versioned files: the tables files and file_versions, the directory of   *)
(* physical files beside them, and the worker tasks of the HTTP handlers   *)
(* that change both (create, upload, new version, rename, remove) or read  *)
(* them (download).                                                        *)
(*                                                                         *)
(* A statement of a read unit of work is one step: a ReadUnitOfWork opens  *)
(* no transaction, so each SELECT sees its own snapshot.  A write unit of  *)
(* work, from BEGIN IMMEDIATE to COMMIT or to the rollback of its          *)
(* destructor, is one step: UnitOfWorkPool shows that write units of work  *)
(* exclude each other, and WAL readers see only committed rows.            *)
(***************************************************************************)
EXTENDS Naturals, FiniteSets

CONSTANTS
    Workers,     \* threads of the application pool, one task each at a time
    Names,       \* logical names of files
    MaxCounts,   \* values of maxVersionCount that requests carry
    CountRange,  \* 2^32 in the code: the values of an uint32_t
    Faults,      \* the faults that may occur, a subset of FaultKinds
    MaxId        \* bound of the model: identifiers handed out

FaultKinds ==
    {"open",     \* the physical file cannot be created
     "write",    \* a write to it fails
     "unlink",   \* its removal fails
     "read",     \* a SELECT fails
     "owner",    \* the creator, or the group named like him, is gone
     "commit",   \* BEGIN IMMEDIATE or COMMIT throws
     "crash",    \* the process dies and is started again
     "reboot"}   \* so does the machine: steady_clock starts over

ASSUME WorkersAssumption   == Workers # {}
ASSUME NamesAssumption     == Names # {}
ASSUME MaxCountsAssumption == MaxCounts \subseteq Nat \ {0}
ASSUME CountRangeAssumption == CountRange \in Nat \ {0}
ASSUME FaultsAssumption    == Faults \subseteq FaultKinds
ASSUME MaxIdAssumption     == MaxId \in Nat

VARIABLES
    files,      \* rows of the table files
    versions,   \* rows of the table file_versions
    disk,       \* physical file -> what it holds
    lastId,     \* the last value of generateId()
    pc,         \* worker -> the next step of its task
    task        \* worker -> the data of its task

tables == <<files, versions>>
vars   == <<files, versions, disk, lastId, pc, task>>

-----------------------------------------------------------------------------
Ids == 1..MaxId

\* Rows, without the columns nothing here depends on (times, creator, and the
\* name snapshot, which no property mentions).
File    == [id : Ids, name : Names, cur : Ids, max : Nat]
Version == [id : Ids, file : Ids, num : Nat \ {0}, phys : Ids]

\* What a physical file holds: nothing is there, it has just been created, a
\* write has stopped half way, the content of the request.
Contents == {"none", "empty", "torn", "full"}
Complete == {"empty", "full"}

Ops == {"create", "newVersion", "upload", "download", "rename", "remove"}

Labels ==
    {"idle", "prevFile", "prevVersion", "createNew", "writeBegin", "writeEnd",
     "createFile", "readFile", "readVersion", "commitVersion", "cleanup",
     "confirm", "open", "rename", "remove"}

\* The data of a task: the request and its fileId, the physical file it has
\* created, the File and the FileVersion it has read (sets of at most one row).
NoTask == [op |-> "none", target |-> 0, key |-> 0, row |-> {}, ver |-> {}]

-----------------------------------------------------------------------------
(* The repositories: one operator per statement.                           *)

FileById(f)    == {r \in files : r.id = f}
VersionById(v) == {r \in versions : r.id = v}
VersionsOf(f)  == {r \in versions : r.file = f}

\* INSERT INTO files: the primary key and the unique name.
CanCreateFile(new) == \A r \in files : r.id # new.id /\ r.name # new.name

\* UPDATE files: the row is there and its name is still unique.
CanUpdateFile(new) ==
    /\ FileById(new.id) # {}
    /\ \A r \in files : r.name = new.name => r.id = new.id
UpdateFile(new) == (files \ FileById(new.id)) \cup {new}

\* Mutant: no UNIQUE(file_id, version).
CanAddVersion_NotUnique(new) == \A r \in versions : r.id # new.id

\* INSERT INTO file_versions: the primary key and UNIQUE(file_id, version).
\* That the file exists is for the caller to require (FOREIGN KEY file_id).
CanAddVersion(new) ==
    \A r \in versions : r.id # new.id /\ ~(r.file = new.file /\ r.num = new.num)

\* Mutant: ORDER BY id DESC keeps the rows inserted last.
RemoveOldVersions_ById(vs, f, keep) ==
    {v \in vs : v.file = f =>
        Cardinality({u \in vs : u.file = f /\ u.id > v.id}) < keep}

\* The count as an int: its upper half is negative, which is no limit in SQL.
Unlimited(keep) == 2 * keep >= CountRange

\* DELETE ... AND id NOT IN (SELECT id ... ORDER BY version DESC LIMIT keep).
RemoveOldVersions(vs, f, keep) ==
    {v \in vs : v.file = f =>
        \/ Unlimited(keep)
        \/ Cardinality({u \in vs : u.file = f /\ u.num > v.num}) < keep}

\* The statements of createNewVersion on file_versions: insert, then prune.
StoreVersion(new, keep) == RemoveOldVersions(versions \cup {new}, new.file, keep)

-----------------------------------------------------------------------------
(* Worker tasks.                                                           *)

Goto(w, l)   == pc' = [pc EXCEPT ![w] = l]
Finish(w)    == Goto(w, "idle") /\ task' = [task EXCEPT ![w] = NoTask]

\* A step that finds nothing: the task answers and ends, or goes to its cleanup.
Fail(w, l) == IF l = "idle" THEN Finish(w) ELSE Goto(w, l) /\ UNCHANGED task

\* A request for file f has passed requireFileAcl, so the file existed then;
\* the task runs later, on another thread.
Dispatch(w, request, f, first) ==
    /\ pc[w] = "idle"
    /\ task' = [task EXCEPT ![w] = [NoTask EXCEPT !.op = request, !.target = f]]
    /\ Goto(w, first)
    /\ UNCHANGED <<tables, disk, lastId>>

HandleCreate(w)           == Dispatch(w, "create", 0, "createNew")
HandleCreateNewVersion(w) == \E r \in files : Dispatch(w, "newVersion", r.id, "createNew")
HandleUpload(w)           == \E r \in files : Dispatch(w, "upload", r.id, "prevFile")
HandleDownload(w)         == \E r \in files : Dispatch(w, "download", r.id, "prevFile")
HandleRename(w)           == \E r \in files : Dispatch(w, "rename", r.id, "rename")
HandleRemove(w)           == \E r \in files : Dispatch(w, "remove", r.id, "remove")

\* FileRepository::getById in a read unit of work.  A missing row sends the
\* task to the label missing.
ReadFile(w, from, to, missing) ==
    /\ pc[w] = from
    /\ \/ /\ FileById(task[w].target) # {}
          /\ task' = [task EXCEPT ![w].row = FileById(task[w].target)]
          /\ Goto(w, to)
       \/ /\ FileById(task[w].target) = {} \/ "read" \in Faults
          /\ Fail(w, missing)
    /\ UNCHANGED <<tables, disk, lastId>>

\* FileVersionRepository::getVersion(currentVersionId of the row just read).
ReadCurrent(w, from, to, missing) ==
    /\ pc[w] = from
    /\ \E r \in task[w].row :
          \/ /\ VersionById(r.cur) # {}
             /\ task' = [task EXCEPT ![w].ver = VersionById(r.cur)]
             /\ Goto(w, to)
          \/ /\ VersionById(r.cur) = {} \/ "read" \in Faults
             /\ Fail(w, missing)
    /\ UNCHANGED <<tables, disk, lastId>>

\* The task of an upload or a download begins with getCurrentVersion.
PrevFile(w)    == ReadFile(w, "prevFile", "prevVersion", "idle")
PrevVersion(w) ==
    ReadCurrent(w, "prevVersion",
                IF task[w].op = "upload" THEN "createNew" ELSE "open", "idle")

\* Mutant: O_CREAT without O_EXCL.
CanCreateContent_NotExclusive(k) == TRUE

\* O_CREAT | O_EXCL succeeds only when nothing has the name.
CanCreateContent(k) == disk[k] = "none"

\* FileContentService::createNew, under a name of generateId().
CreateNew(w) ==
    /\ pc[w] = "createNew"
    /\ lastId < MaxId
    /\ lastId' = lastId + 1
    /\ \/ /\ CanCreateContent(lastId + 1)
          /\ disk' = [disk EXCEPT ![lastId + 1] = "empty"]
          /\ task' = [task EXCEPT ![w].key = lastId + 1]
          /\ Goto(w, CASE task[w].op = "create" -> "createFile"
                       [] task[w].op = "upload" -> "writeBegin"
                       [] OTHER                 -> "readFile")
       \/ /\ ~CanCreateContent(lastId + 1) \/ "open" \in Faults
          /\ Finish(w)
          /\ UNCHANGED disk
    /\ UNCHANGED tables

\* FileContentService::writeAll: truncate and write, until all is written.
WriteBegin(w) ==
    /\ pc[w] = "writeBegin"
    /\ disk' = [disk EXCEPT ![task[w].key] = "torn"]
    /\ Goto(w, "writeEnd")
    /\ UNCHANGED <<tables, lastId, task>>

WriteEnd(w) ==
    /\ pc[w] = "writeEnd"
    /\ \/ /\ disk' = [disk EXCEPT ![task[w].key] = "full"]
          /\ Goto(w, "readFile")
       \/ /\ "write" \in Faults
          /\ Goto(w, "cleanup")
          /\ UNCHANGED disk
    /\ UNCHANGED <<tables, lastId, task>>

\* The number of the version that is created with its file.
FirstNumber == 1

\* A maxVersionCount is checked as an int64_t, and kept as an uint32_t.
MaxVersionCount(requested) == requested % CountRange

\* FileService::create: the rows of the file and of its version 1 together.
CreateFile(w) ==
    /\ pc[w] = "createFile"
    /\ lastId + 2 <= MaxId
    /\ lastId' = lastId + 2
    /\ \E n \in Names, m \in MaxCounts :
         LET file    == [id |-> lastId + 1, name |-> n, cur |-> lastId + 2,
                         max |-> MaxVersionCount(m)]
             version == [id |-> lastId + 2, file |-> lastId + 1, num |-> FirstNumber,
                         phys |-> task[w].key]
             legal   == CanCreateFile(file) /\ CanAddVersion(version)
         IN  \/ /\ legal
                /\ files' = files \cup {file}
                /\ versions' = versions \cup {version}
                /\ task' = [task EXCEPT ![w].target = file.id]
                /\ Goto(w, "confirm")
             \/ /\ ~legal \/ "owner" \in Faults
                /\ Goto(w, "cleanup")
                /\ UNCHANGED <<tables, task>>
    /\ UNCHANGED disk

\* Mutant: the handler answers the error without its cleanup.
NewVersionReadFile_NoCleanup(w) == ReadFile(w, "readFile", "readVersion", "idle")

\* FileVersionService::createNewVersion first reads the file and its current
\* version, and closes the read unit of work ...
NewVersionReadFile(w)    == ReadFile(w, "readFile", "readVersion", "cleanup")
NewVersionReadVersion(w) == ReadCurrent(w, "readVersion", "commitVersion", "cleanup")

\* ... and then writes, from what it has read: the next number, and the whole
\* row of the file with the new current version.
CommitVersion(w) ==
    /\ pc[w] = "commitVersion"
    /\ lastId < MaxId
    /\ lastId' = lastId + 1
    /\ \E r \in task[w].row, v \in task[w].ver :
         LET file    == [r EXCEPT !.cur = lastId + 1]
             version == [id |-> lastId + 1, file |-> r.id, num |-> v.num + 1,
                         phys |-> task[w].key]
             legal   == CanAddVersion(version) /\ CanUpdateFile(file)
         IN  \/ /\ legal
                /\ files' = UpdateFile(file)
                /\ versions' = StoreVersion(version, r.max)
                /\ Goto(w, "confirm")
             \/ /\ ~legal
                /\ Goto(w, "cleanup")
                /\ UNCHANGED tables
    /\ UNCHANGED <<disk, task>>

\* createWriteUnitOfWork or commit throws: the transaction is rolled back and
\* the exception leaves the task, past the handler's cleanup.
CommitThrows(w) ==
    /\ "commit" \in Faults
    /\ pc[w] \in {"createFile", "commitVersion", "rename", "remove"}
    /\ Finish(w)
    /\ UNCHANGED <<tables, disk, lastId>>

\* The handler removes the physical file of a request that failed.
Cleanup(w) ==
    /\ pc[w] = "cleanup"
    /\ \/ disk' = [disk EXCEPT ![task[w].key] = "none"]
       \/ "unlink" \in Faults /\ UNCHANGED disk
    /\ Finish(w)
    /\ UNCHANGED <<tables, lastId>>

\* Mutant: a failed read-back is treated like a failed request.
Confirm_CleansUp(w) ==
    /\ pc[w] = "confirm"
    /\ task[w].key # 0
    /\ Goto(w, "cleanup")
    /\ UNCHANGED <<tables, disk, lastId, task>>

\* The answer of a creation, a rename or a new version is read back; what the
\* read finds changes the answer alone.
Confirm(w) ==
    /\ pc[w] = "confirm"
    /\ Finish(w)
    /\ UNCHANGED <<tables, disk, lastId>>

\* FileContentService::openDownload of the version read.
OpenDownload(w) ==
    /\ pc[w] = "open"
    /\ Finish(w)
    /\ UNCHANGED <<tables, disk, lastId>>

\* FileService::rename: the file keeps its current version, whose row must be
\* there because its name snapshot is updated too.
Rename(w) ==
    /\ pc[w] = "rename"
    /\ \E n \in Names :
         \/ \E r \in FileById(task[w].target) :
              /\ VersionById(r.cur) # {}
              /\ CanUpdateFile([r EXCEPT !.name = n])
              /\ files' = UpdateFile([r EXCEPT !.name = n])
              /\ Goto(w, "confirm")
              /\ UNCHANGED task
         \/ /\ \A r \in FileById(task[w].target) :
                  VersionById(r.cur) = {} \/ ~CanUpdateFile([r EXCEPT !.name = n])
            /\ Finish(w)
            /\ UNCHANGED files
    /\ UNCHANGED <<versions, disk, lastId>>

\* Mutant: the physical files are removed with the rows.
Remove_WithContent(w) ==
    /\ pc[w] = "remove"
    /\ files' = files \ FileById(task[w].target)
    /\ versions' = versions \ VersionsOf(task[w].target)
    /\ disk' = [k \in Ids |-> IF \E v \in VersionsOf(task[w].target) : v.phys = k
                               THEN "none" ELSE disk[k]]
    /\ Finish(w)
    /\ UNCHANGED lastId

\* FileService::remove: the rows go by ON DELETE CASCADE, the physical files stay.
Remove(w) ==
    /\ pc[w] = "remove"
    /\ files' = files \ FileById(task[w].target)
    /\ versions' = versions \ VersionsOf(task[w].target)
    /\ Finish(w)
    /\ UNCHANGED <<disk, lastId>>

\* The process stops and a new one serves the same tables and directory.
\* Identifiers come from steady_clock: it goes on after a crash of the process
\* and starts over after one of the machine.
Restart ==
    /\ {"crash", "reboot"} \cap Faults # {}
    /\ pc' = [w \in Workers |-> "idle"]
    /\ task' = [w \in Workers |-> NoTask]
    /\ \/ "crash" \in Faults /\ UNCHANGED lastId
       \/ "reboot" \in Faults /\ lastId' \in 0..lastId
    /\ UNCHANGED <<tables, disk>>

-----------------------------------------------------------------------------
Init ==
    /\ files = {}
    /\ versions = {}
    /\ disk = [k \in Ids |-> "none"]
    /\ lastId = 0
    /\ pc = [w \in Workers |-> "idle"]
    /\ task = [w \in Workers |-> NoTask]

Handle(w) ==
    \/ HandleCreate(w) \/ HandleCreateNewVersion(w) \/ HandleUpload(w)
    \/ HandleDownload(w) \/ HandleRename(w) \/ HandleRemove(w)

Step(w) ==
    \/ PrevFile(w) \/ PrevVersion(w)
    \/ CreateNew(w) \/ WriteBegin(w) \/ WriteEnd(w)
    \/ CreateFile(w)
    \/ NewVersionReadFile(w) \/ NewVersionReadVersion(w) \/ CommitVersion(w)
    \/ CommitThrows(w) \/ Cleanup(w)
    \/ Confirm(w) \/ OpenDownload(w) \/ Rename(w) \/ Remove(w)

Next == Restart \/ \E w \in Workers : Handle(w) \/ Step(w)

Spec == Init /\ [][Next]_vars

-----------------------------------------------------------------------------
(* Properties.                                                             *)

\* Every variable holds values of its kind; a task has read at most one row.
TypeOK ==
    /\ files \subseteq File
    /\ versions \subseteq Version
    /\ disk \in [Ids -> Contents]
    /\ lastId \in 0..MaxId
    /\ pc \in [Workers -> Labels]
    /\ task \in [Workers -> [op : Ops \cup {"none"}, target : 0..MaxId, key : 0..MaxId,
                              row : SUBSET File, ver : SUBSET Version]]

\* The version rows of a live file are numbered without a gap; maxVersionCount
\* is their number, unless number 1 is still there and they are fewer, or the
\* count is no limit.  Where it has become 0 the first upload prunes them all
\* (README).
\* Uploads that have read the same current version race on the next number
\* (file-version-service.cpp:44), and removeOldVersions prunes behind them.
VersionsContiguous ==
    \A f \in files :
        LET rows == VersionsOf(f.id)
            nums == {v.num : v \in rows}
        IN  IF f.max = 0 THEN nums \subseteq {1}
            ELSE /\ \A u, v \in rows : u.num = v.num => u = v
                 /\ \E lo, hi \in nums :
                      /\ nums = lo..hi
                      /\ IF Unlimited(f.max) THEN lo = 1
                         ELSE hi - lo + 1 = f.max \/ (lo = 1 /\ hi < f.max)

\* The current version of a file, when its row is there, is the file's own and
\* its latest: a task that has read an older row (file-version-service.cpp:62)
\* cannot move the file back to an older version.
CurrentIsLatest ==
    \A f \in files : \A v \in VersionById(f.cur) :
        v.file = f.id /\ \A u \in VersionsOf(f.id) : u.num <= v.num

\* A row of file_versions has a physical file with a complete content, whatever
\* step of an upload fails or is cut off by a crash: the row is written last,
\* and a cleanup removes only a file no row refers to.
RowHasContent == \A v \in versions : disk[v.phys] \in Complete

\* Two version rows never share a physical file.
ContentNotShared == \A u, v \in versions : u.phys = v.phys => u = v

\* A download finds the content of the version it has read, although the row
\* may be pruned or removed between its steps (file-content-controller.cpp:142).
DownloadFindsContent ==
    \A w \in Workers : pc[w] = "open" =>
        \A v \in task[w].ver : disk[v.phys] \in Complete

\* The latest version of a file never falls back: no interleaving of uploads,
\* renames and pruning loses the newest row of a live file that keeps any.
LatestNeverLost ==
    [][\A f \in files :
          f.max # 0 /\ (\E g \in files' : g.id = f.id) =>
              \A v \in VersionsOf(f.id) : \E u \in VersionsOf(f.id)' : u.num >= v.num]_vars

\* A request that fails before its rows are committed leaves no physical file
\* behind (the cleanup of file-content-controller.cpp:191 and :200,
\* file-controller.cpp:141, file-version-controller.cpp:123), unless the process
\* dies, COMMIT throws past the cleanup, or unlink itself fails.
FailureLeavesNoContent ==
    [][\A w \in Workers :
          /\ pc[w] \in {"createFile", "writeBegin", "writeEnd", "readFile",
                        "readVersion", "commitVersion", "cleanup"}
          /\ pc'[w] = "idle"
          => \/ disk'[task[w].key] = "none"
             \/ Restart \/ CommitThrows(w)
             \/ "unlink" \in Faults /\ pc[w] = "cleanup"]_vars

\* The file always has a current version: file-version-service-test.cpp:31-33
\* creates a version and expects getCurrentVersion to find it.
CurrentVersionExists == \A f \in files : VersionById(f.cur) # {}

\* A name given by a rename stays until another rename
\* (file-service-test.cpp:77-90).
NameKeptUntilRenamed ==
    [][\A f \in files, g \in files' : f.id = g.id /\ f.name # g.name =>
          \E w \in Workers : pc[w] = "rename" /\ task[w].target = f.id]_vars
=============================================================================
