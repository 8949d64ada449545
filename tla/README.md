# Verification of the collaborative file server

The repository is a file server in C++23 (Boost.Asio and Beast, SQLite, a
thread pool) and a Qt desktop client of its HTTP API. Users log in, create
files, upload and download versions of them, take a lock on a file while they
edit it, share files through groups, and are told about all of it by a stream of
server-sent events.

This directory holds TLA+ models of the parts of the server and of the client
whose correctness depends on the order of steps of several threads, tasks,
requests, answers or processes, TLC configurations that check them on small instances, and TLAPS proofs of the
results that matter most. `PROJECT.json` maps every definition to the lines it
models, and lists runs, mutants, theorems, findings and hazards.

    tlc -config FileVersions.cfg MCFileVersions.tla     a run (see below)
    tlc -config Server.cfg Server.tla                   one without symmetry
    tlapm FileVersionsProofs.tla                        the proofs of a module

Paths below are relative to `src/src/server/` unless they say otherwise.

## 1. Inventory

### Threads and processes

`main.cpp` starts `ioThreads` threads that run the `io_context` (sessions,
routing, authentication and, for most requests, the access check), a pool of
`workerThreads` threads for the work that touches the database and the disk, and
one worker of the event bus. A handler on an I/O thread authenticates, checks
access and posts a task to the pool (`presentation/http/async-dispatch.h`); the
task calls services, publishes events and sends the response, which is posted
back to the strand of its session. Services open read or write units of work on
`SqliteDatabase`. Everything but the database and the storage directory is lost
when the process ends.

### Components

**Database connections and units of work**
(`infrastructure/database/sqlite/sqlite-database.*`). State: a queue of reader
connections under a mutex and behind a counting semaphore; one writer connection
behind a binary semaphore; in each unit of work, whether it still owns its
connection. Operations: create, `close`, `commit`, and the destructors, with
BEGIN IMMEDIATE and COMMIT that may throw. Hard: permits and connections across
every exit, destructors that run after the next thread has been served.
Correct when: no connection serves two threads, no permit is lost, a transaction
is ended by the thread that began it, nobody waits in a circle.

**Files, versions and physical content** (`domain/services/file-service.cpp`,
`file-version-service.cpp`, `file-content-service.cpp`, their repositories,
`infrastructure/file-storage/`, and the controllers that chain them). State: the
tables `files` and `file_versions`, the physical files in the storage directory.
Operations: create, upload a version, rename, remove, download. Hard: reads in
one unit of work and writes in another, two stores that do not commit together,
clean-up by hand on every error path. Correct when: version numbers are unique
and without a gap, the current version exists and is the latest, a row always has its
complete content, content belongs to one row, failures leave nothing behind.

**Identifiers** (`infrastructure/id-generator/id-generator.h`). State: one
relaxed atomic. Used for all ids, for the names of physical files and for lock tokens. Correct when: unique, increasing, not older than the clock.

**File locks** (`domain/services/file-lock-service.cpp` and its repository and
controller). State: the table `file_lock` with token and `lease_until`.
Operations: acquire, renew, release, `getActiveLock`; removal of the file. Hard: check and update
of a renewal in different units of work, leases that run out, late or repeated
requests, tokens that everybody can read. Correct when: at most one holder, a lock stays until
somebody asks to release it or its file goes, and listeners hear of its end once, after its beginning.

**Event bus and publisher** (`infrastructure/event/event-bus.h`,
`domain/notifications/`). State: queue, mutex, condition variable, stop token.
Correct when: every event is delivered once and in order, and `stop()` ends the
worker.

**Notification streams** (`infrastructure/http/sse-session.cpp`,
`active-session-registry.cpp`, `presentation/http/sse-notification-bridge.cpp`,
`notification-controller.cpp`). State: the registry of sessions; per session an
outbox, `m_started`, `m_closed`, `m_writeInProgress`. Correct when: the header is first, events
keep their order, one write at a time, nothing left in a registry for a client that has gone.

**HTTP sessions, router, listener, worker pool**
(`infrastructure/http/http-session.cpp`, `route-context.cpp`,
`infrastructure/execution/thread-pool.h`). State: a connection's buffer,
`m_writeInProgress`, and whether it was detached; the pool's queue. Correct when: one answer per
request, in order, and no connection waits for ever.

**Groups, users and access control** (`domain/services/user-service.cpp`,
`group-service.cpp`, `file-acl-service.cpp`, their repositories and controllers).
State: `users`, `groups`, `user_group`, `file_acl`. Operations: the writes of
the controllers, and the lookup `getUserAclLevel`, which takes a SELECT per
group. Correct when: nothing dangles, and the answer of a lookup is justified by
what the tables held while it ran.

**Authentication** (`presentation/http/auth-controller.cpp`, `auth-helpers.h`,
`infrastructure/security/`). State: a map of tokens under one mutex. Operations:
login and registration, which run as tasks and issue a token; the check of the
token in every other handler. Correct when: a token in an answer is accepted
from then on, by whatever thread serves the next request.

**Start-up and shutdown** (`main.cpp`). State: the objects of `main()` and the
threads above. Operations: the interrupt, an exception that leaves `ioc.run()`, the
destruction of everything in the reverse order of declaration. Hard: the order of
joins and destructions. Correct when: a handler never meets a destroyed
object, and an interrupt ends the process.

**JSON helpers** (`presentation/http/json-helpers.h`): conversions without state.

The client (`src/src/client/`) has three threads: the windows, the internal thread
of `ClientRuntime`, which runs the services, and its network thread.

**Client runtime, services and gateways** (`application/`, `domain/services/`,
`infrastructure/api/`). State: requests under way, counters of answers still
to come, the notification stream. Operations: one per call of the runtime.
Hard: a refresh of the catalogue is a list and three requests per file, two
refreshes may overlap, a creation is two requests of which the second may fail.
Correct when: every operation ends with one signal.

**Client windows** (`presentation/`): the login dialog, the main window with
the list of files, the dialogs for groups and for a new file, and the editors.
State: what each shows, whether it is busy, the pending slots of the main window,
the lock token, renewal timer and busy state of each editor. Hard: answers that
arrive out of order, for a file or group that is no longer selected, or for a
window that is gone; notifications that may be lost. Correct when: what is shown
is what the server has once everything is quiet; a busy window gets its
answer; a list belongs to what is selected; an editor that can save has the
lock, no lock is left without a window that will release it, a save replaces
what the user has seen.

### Interactions

| from | to | how |
|---|---|---|
| listener, sessions | controllers | call on the session's strand |
| controllers | worker pool | posted task; the answer is posted back |
| controllers, tasks | services | call |
| services | database | unit of work: semaphore, mutex, transaction |
| tasks | storage directory | file operations outside any transaction |
| tasks | event bus | `post`, after the commit |
| event bus worker | bridge, registry, sessions | callback, then a post to each strand |
| client windows | runtime, services | a task to the internal thread; the result is a signal |
| services | gateways | a task to the network thread; a callback |
| client | server | HTTP on several connections; the notification stream |

## 2. Modules

| module | models | composed with |
|---|---|---|
| `ConnectionPool` | abstract: a connection serves one thread, a thread has one connection | |
| `UnitOfWorkPool` | `SqliteDatabase` and its units of work | implements `ConnectionPool` |
| `FileVersions` | files, versions, physical content and the tasks on them | rests on `UnitOfWorkPool`: a write unit of work is one step |
| `IdGenerator` | `generateId()` | `FileVersions` and `FileLocks` take identifiers in its order |
| `FileLocks` | `file_lock`, its tasks and their events | rests on `UnitOfWorkPool` |
| `EventBus` | `post`, `workerTask`, `stop`, the join | part of `Server` |
| `NotificationStreams` | the registry, the bridge, the sessions | takes the events in the order `EventBus` delivers them |
| `AccessControl` | users, groups, grants, lookups, a removal that needs one | rests on `UnitOfWorkPool` |
| `HttpSessions` | sessions, logins and tokens, deferred answers, detached streams, handlers that throw, the pool | part of `Server` |
| `Server` | `main()`, the I/O threads, the interrupt and the destruction of the objects of `main()` | `EventBus` and `HttpSessions`, whose tasks post the events |
| `EditSession` | the client's main and editor windows while files are opened and edited, its requests, and what it can tell of the server | sees a lock as `FileLocks` shows it to a holder |
| `ClientSession` | the login, the notification stream, and the groups of the server | |
| `FileCatalog` | the list of files: refreshes, creation, renaming, deletion, notifications, locks of others | extends `ClientSession` |
| `GroupSharing` | the dialogs for groups and for a new file, and their calls | extends `ClientSession` |
| `ClientWindows` | the client but for its editors | `FileCatalog` and `GroupSharing` |
| `MC...` | symmetry for the runs | |
| `...Proofs` | theorems about the module of that name; `ServerProofs` is also about `EventBus`, `HttpSessions` and `IdGenerator`, and `ClientWindowsProofs` about `FileCatalog` and `GroupSharing` | |

**How the models follow the code.** A thread, task or connection has a `pc` and
the local variables of the function it runs. An action is the code between two
points at which another thread can be seen: a SELECT of a read unit of work, a
write unit of work, a file operation, a semaphore, mutex or atomic operation, a
handler on a strand. A write unit of work is *one* step, from BEGIN IMMEDIATE to
COMMIT or ROLLBACK, because `UnitOfWorkPool` shows that the writer is exclusive
and clean, and because SQLite in WAL mode shows readers committed rows only. A
read unit of work opens *no* transaction (`sqlite-database.cpp`, `ReadUnitOfWork`), so every
SELECT in it is a step of its own. Constraints of the schema (UNIQUE, foreign
keys with CASCADE or RESTRICT) are guards and effects of the write that meets
them.

- `FileVersions`: `files` and `versions` are the two tables, `store` the
  directory with each file complete or partly written. Tasks follow the
  controllers: `FileController::handleCreate`, `handleRename`, `handleRemove`,
  `FileContentController::handleUploadCurrent`, `handleDownloadCurrent`, and the
  creation of a version. `Faults` chooses which of eight faults may happen: an open, a write or an
  unlink that fails, a failing SELECT, a missing owner, BEGIN or COMMIT that
  throws, a crash, a reboot. A crash ends all tasks and keeps tables, files and
  `steady_clock`; a reboot resets the clock too, so that identifiers come back.
- `UnitOfWorkPool`: a call holds a read unit of work, or a write unit of work,
  or first the one and then, after `close()`, the other. The destructor of a
  committed write unit of work is a step of its own, after the next thread may
  have got the writer.
- `IdGenerator`: relaxed loads return any value of the modification order that
  coherence allows; only a successful exchange is sure to read the last one.
- `FileLocks`: the clock moves between any two steps and is not set back; every
  request asks for the same `Duration`. A client is told a token in the answer to its acquire, in the
  event `FileLocked`, or by `getActiveLock`, which any user may ask once the row is committed
  (`GetActiveLock`). `told` has all of these; any of them may be used at any time, by
  anybody, so that requests are late, repeated, stale or foreign: nothing in the
  service looks at whose token it is. What a client may rely on is `Held`, told and not asked back.
- `EventBus`: the predicate, the wait, wake-ups without a cause, `notify_one`
  and `notify_all` are steps; `request_stop()` does not take the mutex.
- `NotificationStreams`: the bus worker copies the sessions under the registry's
  mutex and posts to them one by one; a session's handlers run one at a time,
  because its strand is made on the executor of its stream, which is the strand
  the listener gave to the socket. `dispatch()` therefore runs `doStart` inline.
- `AccessControl`: `seen` is a history variable with the levels each group had
  while a lookup ran. The task that removes a file stands for every request that
  needs READ_WRITE. Deleting a group is refused while it has a grant and takes
  its memberships along (`migration_init.h:18-25`, `:50-58`).
- `HttpSessions`: a client of `Pipelining` sends one request without waiting for
  the answer before. `doRead` clears what the buffer holds behind a request
  (`http-session.cpp:34`), so pipelined requests that arrived together are lost;
  the model loses them too, and the properties speak of the requests that were
  read. The first request of a connection is the login, or registration, that the others need the
  token of; what they do in a task is the business of the other modules.
- `Server`: any I/O thread may take the handler of any session, so threads are
  counted and not told apart; a handler runs from beginning to end on one of
  them and is one step. `main()` is in `phase`: in `ioc.run()`, in the destructor of
  `ioWorkers`, after that of the bridge, after that of the bus with the services
  and the database, after that of the pool. An exception of a handler ends the
  process on a thread of `ioWorkers` (nothing catches it there), and makes `main()`
  unwind on its own (`main.cpp:159-166`). A task or visit that uses a destroyed object may do anything:
  it may go on, or end the process, which is `crashed`.
- `EditSession`: each user command and each slot is an action; an answer is a
  member of a bag, so that answers come in any order, as they do from
  `QNetworkAccessManager`, which uses several connections. A token names the
  editor, its requests and, in `content`, what it wrote; an upload does not carry
  it, the model only remembers who sent it. All other clients count as one, which
  saves under the lock. `files` are the files that exist: this user (`DeleteFile`) and others
  (in `OtherClients`) may delete one at any time, whoever has it open, and the lock goes
  with it (`Remove`). The token of an editor of a deleted file is worth nothing, and all its
  requests fail. `Abandon` is a connection that fails before or after the
  server has done the request; after `Quit` requests may be done or dropped. A
  failed renewal stands for a lease that has run out; the lock itself is
  kept, as `FileLocks` shows. `hasty`, `strayed`, `failed` and, of an editor,
  `mixed` (its content came with the answer to another command) and `woken` (the answer to the save of
  another window has enabled it while it was busy) are history and feed nothing but the properties. Read-only windows show no state that matters
  and are left out, except for those that were editors.
- `ClientSession`, `FileCatalog`, `GroupSharing`: tasks between the three threads
  of the client are queued first in, first out, and the server may take any time.
  A click and its request are therefore one step, and so are an answer and what
  the internal thread and the window make of it. Requests of one kind are kept in
  slots, so that their answers come in any order. A modal dialog stops commands of the main window but not its
  notifications. `shown` is what the tree of files shows, and `holder`, `granted` and
  `members` are the rows of the server that decide what it should show; the other user locks and
  unlocks files. A change nobody announces to this client, and a request or stream that
  failed, make what is shown no longer `fresh`; `misled` is set when an error has
  enabled the dialog of groups with the users of another group. Both are history
  variables and feed nothing but properties.

## 3. Runs

Distinct states and depth are those of the complete search; on two cores
`Server` and `EditSession` take under two minutes, `FileVersions` a little less, the others a
minute or less.

| run | shows | states | depth |
|---|---|---|---|
| `FileVersions` | `VersionsContiguous`, `CurrentIsLatest`, `LatestNeverLost`: whatever two overlapping tasks have read before they write, numbers stay unique and without a gap, as many as `maxVersionCount` unless number 1 is still there, and a file that keeps any version never goes back to an older one | 3,456,922 | 44 |
| `FileVersionsFaults` | `RowHasContent`, `ContentNotShared`, `DownloadFindsContent`, `FailureLeavesNoContent` under all eight faults | 1,241,780 | 44 |
| `FileVersionsCurrent` | **violated** `CurrentVersionExists`, finding 1 | about 90,000 seen | 21 |
| `FileVersionsRename` | **violated** `NameKeptUntilRenamed`, finding 2 | about 1,300 seen | 12 |
| `UnitOfWorkPool` | `WriterExclusive`, `WriterIdleClean`, `PermitsConserved`, `EndedByItsThread`, `ImplementsPool`, no deadlock | 52,994 | 55 |
| `IdGenerator` | `Increasing`, `CallsOrdered`, no deadlock | 1,251,107 | 27 |
| `FileLocks` | `HolderKeepsLock`, `RenewsItsOwn`, and `LockedThenUnlocked`: one `FileUnlocked`, after the `FileLocked` unless `getActiveLock` told the token before | 294,298 | 27 |
| `NotificationStreams` | `StreamInOrder`: the header first, then events in the order of the bus, whenever a session joins or leaves; `OneWrite`, `ClosedIsRemoved` | 364,904 | 29 |
| `AccessControl` | `NothingDangles`, `AclJustified`, `AclSufficient`, `RemovedWithAccess` | 567,034 | 21 |
| `Server` | `AnswersInOrder`, `OnePending`, `TokenHonoured`, `ServedByLiveObjects`, `InOrder`, and with fairness `Answered`, `Delivered`, `ServerStops`: sessions, tasks and the bus while handlers throw, threads end and `main()` is interrupted at any step | 112,603 | 44 |
| `EditSession` | `EditsUnderLock`, `LocksKept`, `SavesOwnWork`, `BusyIsAwaited`, each with the exceptions of section 6: requests of two edits in any order, with deletions, a failed connection and other clients | 1,988,452 | 46 |
| `ClientWindows` | `ShowsLatest`, `DialogBusyIsAwaited`, `ListIsOfGroup`, and with fairness `RefreshEnds`: two refreshes overlap with a change, notifications, the dialogs and another user, with a failure at any step | 202,503 | 33 |

Every property has a mutant in `PROJECT.json`: a changed definition, of the kind a
slip in the code would make, under which the run finds the property violated. The mutants stand
next to the definitions they change and are used by no specification.

No run checks types: what typing the modules with proofs need is part of the proved
invariants, and `TypeOK` of `FileVersions` and `AccessControl` and `IdTypes` of `IdGenerator`
are theorems. `OneHolder` and `NotBeforeCall` are stated by theorems only.

### Bounds

| bound | value | why it is enough |
|---|---|---|
| `Workers`, `Threads` in tasks on the tables | 2; 3 in `FileLocks` | a lost update needs a reader and a writer in between, one task may run many times; a lock also needs the client that takes over |
| `MaxId` | 9; 4 with faults | a file, its first version and several more with their physical files: enough to prune a number and insert it again; with faults, enough for a row and its content to be created, and after a reboot created over what is there |
| `MaxCounts`, `CountRange` | {1, 2, 3, 5} with 5; {1, 4} with 8 and faults | pruning at once, with one survivor, of everything (5 of 5 is stored as 0), and none (3 of 5, and 4 of 8, are negative as an int); the range is 2^32 in the code |
| `Names` | 2 | a rename, and a clash |
| pool `Threads`, `Readers` | 3, 2 | all readers in use and one thread waiting; the writer in use, one released late, one waiting |
| `MaxTime`, `MaxIds` of `IdGenerator` | 2, 3 | calls in one tick, ahead of the clock, and after it has caught up |
| `MaxTime`, `MaxTokens` of `FileLocks` | 3, 2 | a lease of 1 runs out between the steps of a renewal, and another lock of the file follows; a third would meet the second as the second does the first |
| `Sessions`, `Users`, `MaxEvents` | 2, 2, 2 | events to one user and to all, for sessions that join or leave in between |
| `MaxGroups`, `Files`, lookups | 3, 1, 1 | a user's own group, a second one, and a third created after a deletion; more lookups do not interact, and the proof covers them |
| `Producers`, `MaxPosts` of `Server` | 2, 2 | an event and its successor meet the worker before, in and after its wait, in a visit, and at the stop; two tasks run while objects are destroyed |
| `IoThreads` | at most 1, besides `main()` | an exception with and without another thread that serves on |
| `Sessions`, `MaxRequests`, `Pipelining` | 2, 2, {s1} | one connection that loses a request behind another and one that does not, each with a login and a request that needs it; two answers of one connection |
| `MaxRefreshes`, `MaxChanges`, `MaxCalls` of `ClientWindows` | 2, 1, 2 | refreshes that overtake each other; a call of a closed dialog beside one of the open one |
| `Files`, `Groups` of `ClientWindows` | 1, 3 | a file there is or that is created; the user's own group, a shared one, and one to be created |
| `MaxSteps`, `MaxFailures` | 2, 1 | commands of the user and of the other user beyond those a notification or an answer causes. With 3 steps (3.4 million states) the invariants hold too |
| `Files`, `MaxTakes`, `MaxExtras` of `EditSession` | 2, 2, 1 | two editors of one file in turn, or of two at once; `MaxExtras` counts read-only downloads, renewals, deletions by anybody and failed connections together. With 2 of them and one file (7.2 million states, four minutes on four cores) the properties hold too |

Symmetry is declared only in runs without liveness properties. Deadlock
checking is off where the model may really stop: a bound of identifiers, tokens or events is
used up, the bus is stopped, all connections have ended; it is on for
`UnitOfWorkPool`, `IdGenerator` and `AccessControl`.

### Fairness

All fairness is weak.

- `Server`: handlers that can run do, threads leave `ioc.run()` once it is
  stopped, the bus worker runs, `main()` goes on, and a pool thread takes tasks
  and finishes them - which it does because waits inside a task are those of `UnitOfWorkPool`, which loses no
  permit and does not deadlock. A started write completes or fails. A client need not send anything,
  nobody has to post or to interrupt, and no wake-up without a cause is assumed.
  `ServerStops` leaves out the window of section 6.
- `ClientWindows`: a request of a refresh is answered or fails in the end
  (`RefreshAnswered`), and nothing else is fair. Each `Act`, change, call and event
  causes finitely many refreshes, so that `RefreshEnds` is about every one of them.

The semaphores of the pool are not fair, and no claim is made that nobody is
overtaken. `BusyIsAwaited` and `DialogBusyIsAwaited` are safety properties: they
say that the answer that enables a busy window is on its way, and rest on nothing
else.

## 4. Findings

1. **A file may name a current version that does not exist**
   (`domain/services/file-version-service.cpp:49`, run `FileVersionsCurrent`).
   `createNewVersion` reads the current number in one unit of work and inserts the
   next in another. Two uploads read number *n*; the fast one commits *n+1*,
   another brings the file to *n+2*, and with `maxVersionCount` 1 *n+1* is
   pruned. The slow one inserts *n+1* again, `removeOldVersions` deletes that
   very row as the oldest, and `current_version_id` is set to it.
   `getCurrentVersion` and every later upload answer NotFound.
   `file-version-service-test.cpp:31-32` expects a current version.
   `CurrentIsLatest` therefore speaks of the files whose current version exists.
2. **A rename may be undone** (`file-version-service.cpp:62`, run
   `FileVersionsRename`). `createNewVersion` writes back the whole row of the
   file as it was read in the earlier unit of work; a rename acknowledged in between
   is lost. `file-service-test.cpp:90` expects the new name to stay.

## 5. Proofs

Every safety property of a passing run is also a theorem. Each `...Proofs`
module states inductive invariants, proves `Init => IInv` and, with one lemma per
action or group of actions, `IInv /\ [Next]_vars => IInv'`, and derives
the theorems. They hold for every value of the constants that
satisfies the assumptions next to them, the bounds included, which are
arbitrary naturals.

| theorem | property | argument |
|---|---|---|
| `FileVersionsProofs!TypeCorrect`, `RowsHaveContent`, `DownloadsFindContent`, `ContentIsNotShared`, `FailuresLeaveNoContent` | `TypeOK`, `RowHasContent`, `DownloadFindsContent`, `ContentNotShared`, `FailureLeavesNoContent` | `ContentInv`: a physical file belongs to one task from its creation to the commit of its row (`OwnedKeys`), and to a row after that (`Stored`), never to both; the clean-up of a task removes only what the task owns. Without the part about tasks a row would not be safe from a clean-up. All faults are included |
| `FileVersionsProofs!VersionsAreContiguous`, `CurrentVersionIsLatest`, `NewestRowStays` | `VersionsContiguous`, `CurrentIsLatest`, `LatestNeverLost` | `LatestInv`: what a task has read may be old, but its number is never above the newest of the rows (`ReadBefore`), so that the number it stores is one of theirs or the next. That survives the steps of other tasks because of what a step may do to the rows (`Carries`), and pruning is a lemma about `RemoveOldVersions` (`StoreNone` and those before it). While no reboot is among the faults (`ClockGoesOn`): after one, identifiers come back, and an old read may name another row |
| `UnitOfWorkPoolProofs!WriterIsExclusive`, `WriterIsClean`, `OwnTransaction` | `WriterExclusive`, `WriterIdleClean`, `EndedByItsThread` | the permit is in the semaphore or with exactly one thread, a transaction is open only with that thread, and a unit of work that has given its permit back has `m_owns` false, so its destructor does nothing |
| `UnitOfWorkPoolProofs!EveryPermitOwed` | `PermitsConserved` | `ReaderInv`: permits and threads that owe one, queue entries and threads that hold one, add up to `Readers` (`Counted`), no connection is in two places (`Apart`), and `m_owns` and the mutex say who has what (`Owned`). The second sum is what makes a permit mean that the queue is not empty |
| `UnitOfWorkPoolProofs!PoolImplemented` | `ImplementsPool` | the refinement of `ConnectionPool`: `Front` and the start of a write unit of work take a connection, `Push` and its end give it, every other step stutters; `Apart` says that what `Front` takes is free |
| `ServerProofs!IdsAreTyped`, `IdsIncrease`, `IdsFollowCalls`, `IdsFollowTheClock` | `IdTypes`, `Increasing`, `CallsOrdered`, `NotBeforeCall` | `Consistent`: what a thread holds as `last` is in the modification order at or behind the position it has seen, and every candidate is above it |
| `ServerProofs!EventsInOrder`, `ServerEventsInOrder` | `InOrder` | what was delivered, what the worker holds, and the queue are consecutive numbers; every step of the server is one of the bus or leaves it alone (`ServerUsesBus`, the composition's refinement of `EventBus!Spec`) |
| `ServerProofs!HandlersUseLiveObjects` | `ServedByLiveObjects` | once `main()` is past the join of `ioWorkers` there are no other threads in `ioc.run()`, for any number of them |
| `ServerProofs!TokensAreHonoured` | `TokenHonoured` | `Tokens`: a token that is granted stays in the store, and a request that was refused was numbered before its client had one |
| `ServerProofs!AnswersAreInOrder`, `OneThingIsPending` | `AnswersInOrder`, `OnePending` | `Orderly`: while threads serve, a connection is in exactly one of five places - it reads, or its one request is queued, runs, is posted or is written - or has ended or become a stream. The invariant also says which request that is (`Owes`); the order of answers follows from there being one |
| `FileLocksProofs!HoldersKeepLocks`, `HoldersAreAlone`, `LeaseChangedByItsToken` | `HolderKeepsLock`, `OneHolder`, `RenewsItsOwn` | `IInv`: a file has one row (`Rows`), no token is above the last that was issued (`TokensIssued`), a grant on its way to its event and answer has its row until somebody asks to release it (`GrantsHeld`), and who releases a lock has stopped to count as its holder (`TasksKnown`); so a release or renewal concerns the row of its own token only |
| `FileLocksProofs!LockedBeforeUnlocked` | `LockedThenUnlocked` | `EventInv`: a token that was told and is not `early` belongs to a lock whose `FileLocked` is on the bus; a lock that a task has released or the bus has announced as unlocked has no row, and its token does not come back (`Gone`), so that it is released once (`ReleasedOnce`) |
| `NotificationStreamsProofs!StreamsAreInOrder`, `OneWriteAtATime`, `ClosedHasLeft` | `StreamInOrder`, `OneWrite`, `ClosedIsRemoved` | `StreamInv`, per session: what was sent, the outbox and the posted handlers are one line, whose events are those due since it joined (`Ordered`); the line begins with the header (`Opened`); a session that the bus worker has collected still waits for the last event (`Collected`), which is why a session that joins in between neither misses one nor gets it twice |
| `AccessControlProofs!TypeCorrect`, `NothingDanglesEver`, `AclIsJustified`, `AclIsSufficient`, `RemovalHadAccess` | `TypeOK`, `NothingDangles`, `AclJustified`, `AclSufficient`, `RemovedWithAccess` | the loop invariant of `getUserAclLevel`, `Looking`: the level so far was seen, and covers a level seen of every group read; it survives the writes of other threads because `Watch` only adds |
| `ClientWindowsProofs!DialogIsAwaited`, `ListBelongsToGroup` | `DialogBusyIsAwaited`, `ListIsOfGroup` | the two are inductive once calls under way are known to keep their kind and, but for a creation, their group; each handler enables the dialog, or replaces the call by one whose result will |
| `ClientWindowsProofs!TreeShowsLatest` | `ShowsLatest` | `CatalogInv`: what the tree shows, and what a fresh refresh has found so far and has still to ask for, is the truth, unless another refresh is `Owed` because of an event on its way or of a change whose answer is not in. `Counted` ties the counter of answers to the lookups, so that a refresh ends when the last is in, and not before |
| `EditSessionProofs!WindowsAreLocked`, `LocksAreKept`, `SavesAreOwn`, `BusyWindowsWait` | `EditsUnderLock`, `LocksKept`, `SavesOwnWork`, `BusyIsAwaited` | the token of a granted lock is always in one place: in the answer, in the pending slot, in a window, in a message on the screen or in a release (`Coming`, `Returning`); a window has one save under way, for which it is busy (`OneSave`); while a lock is held the content is what its holder has got or written (`Contents`); without haste one edit is on its way (`OneTake`); a window that has not begun to release its lock has it unless the file is gone (`Locked`), and one that has is busy unless it was woken (`OneSave`). A removal of a file is a lemma of its own (`RemoveKeeps`), for whoever asks for it. No property is inductive alone: a lock is kept only because the answer that brings it has no twin, and a save is under its lock only because no release of the same window is under way |

Assumptions are typing of the constants only: that bounds are naturals, that
`Readers` and `Threads` of the pool and `Files` of the client are finite, that
`NoThread`, `NoReader`, `NoName`, `NoTask`, `NoFile` and `Other` are none of the
values they are told apart from, that `Home` and `Teams` are `Groups`, that `Duration` of a
lease is not 0. `FileVersions` and
`FileLocks` further assume in their *structure* what `UnitOfWorkPool`
shows, as said in section 2. `ClockGoesOn` is a hypothesis of three theorems and
no assumption of the model; the run `FileVersions` has no faults at all, so
the theorems say more than it does: the numbers hold under crashes, failures of the
disk and a COMMIT that throws.

Model-checked only:

- liveness, `Answered`, `Delivered`, `ServerStops` and `RefreshEnds`: fairness is defined by
  ENABLED, which the prover does not handle;
- the absence of deadlock of `UnitOfWorkPool`, `IdGenerator` and `AccessControl`, for the same reason;
- the two violated properties of section 4, which are no theorems.

## 6. What the models say beyond their properties

- **An expired lock blocks its file for good.** `acquire` inserts and answers
  Conflict when a row exists, whatever its `lease_until`; only `renewLock` and
  `getActiveLock` look at the lease. A client that dies with the lock leaves a
  file on which `getActiveLock` says NotFound and `acquire` Conflict, until the file
  is removed. No line promises otherwise, and `HolderKeepsLock` depends on it.
- **A renewal may revive an expired lease** of its own token: the comment at
  `file-lock-service.cpp:42` admits the window between check and update.
  `RenewsItsOwn` shows that it never prolongs another client's lock.
- **Content of pruned versions and removed files stays on the disk.** Rows go,
  physical files are removed only by the clean-up of a failed request. This is
  why a download that has read a row which is pruned before it opens the file
  still finds it (`DownloadFindsContent`); the mutant that removes content with the rows breaks it.
- **A file may keep no version at all.** `maxVersionCount` is checked as an int64,
  stored as a uint32 and passed to `removeOldVersions` as an int
  (`file-controller.cpp:123`): 2^32 is accepted as positive and becomes 0, and
  the first upload prunes every version, its own too. `VersionsContiguous` and `LatestNeverLost`
  name this exception, and `RowHasContent` and the others hold in spite of it. From 2^31 on the limit is negative, which is none.
- **Identifiers come back after a reboot**, because they count from
  `steady_clock`. `FileVersions` includes that: a name that is taken on disk is refused,
  and rows have their keys. `FileLocks` includes the restart of the process
  but not of the machine: a token that is handed out twice is not covered.
- **Uploads and deletions do not need the lock.** It is advice to the clients; the server checks
  READ_WRITE only (`file-controller.cpp:354`).
- **A token is no secret.** `getActiveLock` and the event `FileLocked` tell it to other
  users (`file-lock-controller.cpp:189`, `sse-notification-bridge.cpp:42`), and a release or a renewal does not ask who
  sends it. `HolderKeepsLock` therefore says nothing about a client whose lock
  another one has released with the current token: for the model that lock was given back.
- **`FileUnlocked` may come before `FileLocked`, or without it**, when a client reads
  the token with `getActiveLock` between the commit and the post at `file-lock-controller.cpp:90`
  and releases at once, or when the process ends in between and the lock stays.
  `LockedThenUnlocked` names this exception (`early`) and no other.
- **"Reboot" means an orderly one.** `writeAll` (`file-content-service.cpp:62`) does not
  fsync, so that after a loss of power a committed row may have no
  content. The model keeps what was written, and `RowHasContent` does not speak of that.
- **Deadlocks of the pool are excluded for the calls there are.** No service opens a
  second unit of work before it has closed the first, and the model has the calls in that
  order. It shows that no exit keeps a permit; a new call that holds a reader and waits for the writer
  would be a change of the model.
- **`stop()` of the event bus may hang the join.** `request_stop()` and
  `notify_all()` do not take the mutex. When both fall between the worker's predicate and
  its wait, the wake-up is lost, and `main()` waits until a task posts.
  `ServerStops` excludes just that window.
- **Tasks may outlive what they use.** The pool (`main.cpp:89`) is declared before
  the database, the services and the controllers and joins after they are gone, and
  the connections of the bridge are cut without waiting for a visit of
  the bus worker. `Server` has both; `ServerStops` therefore says that the process ends *or* that such a
  task or visit has ended it. Handlers on I/O threads are safe
  (`ServedByLiveObjects`), because `ioWorkers` is declared last.
- **An exception of a handler stops or ends the server.** A failing BEGIN, or a
  read in `requireFileAcl` that throws, leaves `ioc.run()`: on a thread of `ioWorkers`
  the process ends, in `main()` (`main.cpp:162`) it unwinds, waits for
  the other threads, and serves for as long as they do. Requests under way
  are answered by them (`Answered`), but for the connection whose handler threw.
- **A lookup may answer a level that was never true at one moment.** It may
  combine a membership that ended with a grant that came later.
  `AclJustified` and `AclSufficient` are what does hold.
- **The creator may have no access to his file.** `FileService::create`
  (`file-service.cpp:67`) grants READ_WRITE to the group *named* like the login.
  A creator who was removed from that group, or whose group was deleted and
  created again by someone else, creates a file he cannot open.
  `AccessControl` has every step of this.
- **Access levels guard files only.** Any authenticated user may create, change
  and delete groups and grants; the model has no guard there because the
  controllers have none.
- **The guard of `sendResponse` is not needed** as long as one request is under way at a time,
  which is `OnePending`; if it ever took effect it would drop an answer.

In the client:

- **"Take edit" twice leaves a lock behind.** A second command overwrites the
  pending slot (`src/src/client/presentation/main-window.cpp:247`); on the same file its acquire
  is refused, and `handleLockAcquired` then clears the slot of the first, whose
  lock nobody releases - and, see above, nobody can take over. `LocksKept`
  shows that a failed request and the end of the application are the only other ways.
- **An editor may show content from before its lock.** Downloads are told apart
  by file only (`main-window.cpp:338`): the answer to "Open readonly" opens
  the editor when it comes after the lock and before the editor's own download.
  Another client's save in between is then undone by the first save.
- **A window that is closed while it saves** releases at once
  (`editor-window.cpp:83`), and the release may be done before the upload.
- **`currentUploaded` enables every editor of the file** (`editor-window.cpp:125-129`), one
  that is busy releasing too; `save()` does not look at `m_releaseStarted`. When a window is
  closed while it saves, and a second window of the file then releases its lock, the answer to
  the first lets the user type and save in the second after its lock is gone, and no request
  has failed. `EditsUnderLock` and `SavesOwnWork` name this exception (`woken`);
  without an answer of another window a releasing window stays disabled.
- **A file may be deleted under an open editor**, by "Delete" in the same window's list
  (`main-window.cpp:149`, `:215-228`) or by another user. The editor stays enabled and shows nothing of it until a
  renewal or a save fails. The properties about a window's lock and save speak of files that exist.
- **After a failed release** the window can be edited again, but its renewal
  timer stays stopped (`editor-window.cpp:140-154`).
- **A failed load leaves the users of another group** in the dialog of groups, and
  enables it (`dialogs/group-management-dialog.cpp:205`). "Remove" then sends the identifier
  of a user of the group selected before with the group selected now; the server refuses it
  unless he is in both. `ListIsOfGroup` shows that this failure is the only way.
- **The list of files may be old** when a notification stream has ended, which is
  not opened again (`main-window.cpp:467`), and when another user renames
  or deletes a file or removes a member, which nobody announces. `ShowsLatest` holds until then.
- **A file is shown as free when its lock could not be read**
  (`file-catalog-service.cpp:208`): any error counts as "no lock".
- **A file or a group may be half created.** Both take two requests. When the second
  fails the file, or the group without members, stays, the client shows an error and does not refresh.

## 7. Not modelled, and the plan

Of the server: the hashing and comparison of passwords (library arithmetic) and
`revokeToken`, which nobody calls; JSON, formatting, and lists that are a
single SELECT; time limits of sockets (there are none); `SQLITE_BUSY`, other
than as BEGIN or COMMIT that throws; a `lockDurationSec` that differs between
requests; a system clock that is set back; the outbox of a slow stream, which has
no bound; the command line.

Of the client: names of files, groups and users and their validation; the list of versions of a
file; question and message boxes, which are nested event loops, so that commands are
taken as given at once; the repositories of the services, which repeat what
the windows show; leases that run out while a file is listed as locked; changes of files by
others that are not announced; a `QPointer` that is tested on one thread while its target is
destroyed on another (`dispatch-helpers.h`); the encoding of requests and
answers. `EditSession` and `ClientWindows` are not composed: what one needs of the
other is that a destroyed editor causes a refresh, which `ClientWindows` has, and
that another window of the same user holds locks, for which the other user stands.

The order of the work, most important behaviour first:

1. *Done*: units of work; files, versions and content; identifiers; locks;
   streams; access control; the bus and the sessions in the server from its
   start to its end; the client's editor, catalogue, groups and login. Proofs of
   every safety property about each.
2. `LockNotifications`: `FileLocks`, `Server`'s bus and `NotificationStreams`
   composed, with an abstract specification of what a client may conclude from its
   stream, and the composition shown to implement it.
3. Proofs: the refinement of that abstract specification; `HttpSessions` as a
   refinement that `Server` keeps, as it keeps `EventBus!Spec`; what remains true of
   the numbers of versions after a reboot.

The suite is kept to a dozen runs. A new component takes the place of a
run that can join another, as `Server` took those of the bus and of the
sessions; properties that are proved for every instance need no run once the
model is settled.
