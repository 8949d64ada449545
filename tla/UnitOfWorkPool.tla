--------------------------- MODULE UnitOfWorkPool ---------------------------
(***************************************************************************)
(* SqliteDatabase and its units of work: the queue of reader connections   *)
(* behind a counting semaphore and a mutex, the single writer connection   *)
(* behind a binary semaphore, and the transaction a WriteUnitOfWork opens, *)
(* commits or rolls back, with every exit of the services' code, normal or *)
(* by an exception.                                                        *)
(*                                                                         *)
(* A thread runs one service call after another.  A call holds a read unit *)
(* of work, or a write unit of work, or first the one and then, after      *)
(* close(), the other.                                                     *)
(***************************************************************************)
EXTENDS Naturals, Sequences, FiniteSets

CONSTANTS
    Threads,     \* threads that run service calls: IO threads and workers
    Readers,     \* the reader connections
    NoThread,    \* not a thread
    NoReader     \* not a connection

ASSUME ReadersAssumption  == IsFiniteSet(Readers) /\ Readers # {}
ASSUME ThreadsAssumption  == IsFiniteSet(Threads)
ASSUME NoThreadAssumption == NoThread \notin Threads
ASSUME NoReaderAssumption == NoReader \notin Readers

VARIABLES
    readersSemaphore,   \* permits of m_readersSemaphore
    available,          \* m_availableReaders
    mutex,              \* the thread inside m_readersMutex
    writerSem,          \* permits of m_writerBinSem
    txn,                \* the thread whose transaction is open on m_writerCon
    pc,                 \* thread -> the next step of its call
    call,               \* thread -> the units of work its call takes
    conn,               \* thread -> m_db of its read unit of work
    readOwner,          \* thread -> m_pOwner of its read unit of work is set
    writeOwner,         \* thread -> m_pOwner of its write unit of work is set
    finished            \* thread -> m_finished of its write unit of work

readerVars == <<readersSemaphore, available, mutex, conn, readOwner>>
writerVars == <<writerSem, txn, writeOwner, finished>>
vars == <<readerVars, writerVars, pc, call>>

-----------------------------------------------------------------------------
Calls == {"read", "write", "readWrite"}

Labels ==
    {"idle", "acquireReader", "lockToPop", "front", "pop", "reading",
     "lockToPush", "push", "releaseReader",
     "acquireWriter", "begin", "writing", "commitClose", "rollback",
     "destroyClose", "destroyReader"}

Goto(t, l) == pc' = [pc EXCEPT ![t] = l]

Start(t) ==
    /\ pc[t] = "idle"
    /\ \E c \in Calls :
         /\ call' = [call EXCEPT ![t] = c]
         /\ Goto(t, IF c = "write" THEN "acquireWriter" ELSE "acquireReader")
    /\ UNCHANGED <<readerVars, writerVars>>

-----------------------------------------------------------------------------
(* createReadUnitOfWork.                                                   *)

AcquireReader(t) ==
    /\ pc[t] = "acquireReader"
    /\ readersSemaphore > 0
    /\ readersSemaphore' = readersSemaphore - 1
    /\ Goto(t, "lockToPop")
    /\ UNCHANGED <<available, mutex, conn, readOwner, writerVars, call>>

\* Mutant: the queue without its mutex.
CanLock_Always == TRUE

\* std::lock_guard of m_readersMutex.
CanLock == mutex = NoThread

LockReaders(t) ==
    /\ pc[t] \in {"lockToPop", "lockToPush"}
    /\ CanLock
    /\ mutex' = t
    /\ Goto(t, IF pc[t] = "lockToPop" THEN "front" ELSE "push")
    /\ UNCHANGED <<readersSemaphore, available, conn, readOwner, writerVars, call>>

Front(t) ==
    /\ pc[t] = "front"
    /\ conn' = [conn EXCEPT ![t] = Head(available)]
    /\ Goto(t, "pop")
    /\ UNCHANGED <<readersSemaphore, available, mutex, readOwner, writerVars, call>>

Pop(t) ==
    /\ pc[t] = "pop"
    /\ available' = Tail(available)
    /\ mutex' = NoThread
    /\ readOwner' = [readOwner EXCEPT ![t] = TRUE]
    /\ Goto(t, "reading")
    /\ UNCHANGED <<readersSemaphore, conn, writerVars, call>>

-----------------------------------------------------------------------------
(* ReadUnitOfWork::close and its destructor; releaseReader.                *)

\* The statements are done.  A call that goes on to write has called close();
\* any other return, an early one too, ends in the destructor.
EndReading(t) ==
    /\ pc[t] = "reading"
    /\ \/ UNCHANGED call
       \/ call' = [call EXCEPT ![t] = "read"]
    /\ Goto(t, "lockToPush")
    /\ UNCHANGED <<readerVars, writerVars>>

Push(t) ==
    /\ pc[t] = "push"
    /\ available' = Append(available, conn[t])
    /\ mutex' = NoThread
    /\ Goto(t, "releaseReader")
    /\ UNCHANGED <<readersSemaphore, conn, readOwner, writerVars, call>>

ReleaseReader(t) ==
    /\ pc[t] = "releaseReader"
    /\ readersSemaphore' = readersSemaphore + 1
    /\ readOwner' = [readOwner EXCEPT ![t] = FALSE]
    /\ Goto(t, IF call[t] = "readWrite" THEN "acquireWriter" ELSE "idle")
    /\ UNCHANGED <<available, mutex, conn, writerVars, call>>

\* The end of a call that wrote: a read unit of work it had closed is still in
\* scope, and its destructor closes it again unless m_pOwner is null.
DestroyReader(t) ==
    /\ pc[t] = "destroyReader"
    /\ call' = [call EXCEPT ![t] = "read"]
    /\ Goto(t, IF readOwner[t] THEN "lockToPush" ELSE "idle")
    /\ UNCHANGED <<readerVars, writerVars>>

-----------------------------------------------------------------------------
(* createWriteUnitOfWork, commit, rollback, close, and the destructor.     *)

AcquireWriter(t) ==
    /\ pc[t] = "acquireWriter"
    /\ writerSem > 0
    /\ writerSem' = writerSem - 1
    /\ Goto(t, "begin")
    /\ UNCHANGED <<txn, writeOwner, finished, readerVars, call>>

\* BEGIN IMMEDIATE in the constructor.
Begin(t) ==
    /\ pc[t] = "begin"
    /\ txn = NoThread
    /\ txn' = t
    /\ writeOwner' = [writeOwner EXCEPT ![t] = TRUE]
    /\ finished' = [finished EXCEPT ![t] = FALSE]
    /\ Goto(t, "writing")
    /\ UNCHANGED <<writerSem, readerVars, call>>

\* Mutant: no catch around the constructor.
BeginThrows_KeepsPermit(t) ==
    /\ pc[t] = "begin"
    /\ Goto(t, "destroyReader")
    /\ UNCHANGED <<readerVars, writerVars, call>>

\* It throws: createWriteUnitOfWork gives the permit back and rethrows.  There
\* is no object to destroy.  Inside an open transaction it always throws.
BeginThrows(t) ==
    /\ pc[t] = "begin"
    /\ writerSem' = writerSem + 1
    /\ Goto(t, "destroyReader")
    /\ UNCHANGED <<txn, writeOwner, finished, readerVars, call>>

Commit(t) ==
    /\ pc[t] = "writing"
    /\ txn' = NoThread
    /\ finished' = [finished EXCEPT ![t] = TRUE]
    /\ Goto(t, "commitClose")
    /\ UNCHANGED <<writerSem, writeOwner, readerVars, call>>

\* COMMIT throws: SQLite keeps the transaction open (SQLITE_BUSY) or has
\* already rolled it back (SQLITE_FULL, SQLITE_IOERR).
CommitThrows(t) ==
    /\ pc[t] = "writing"
    /\ txn' \in {t, NoThread}
    /\ Goto(t, "rollback")
    /\ UNCHANGED <<writerSem, writeOwner, finished, readerVars, call>>

\* Mutant: a destructor that closes without a rollback.
ReturnError_NoRollback(t) ==
    /\ pc[t] = "writing"
    /\ Goto(t, "destroyClose")
    /\ UNCHANGED <<readerVars, writerVars, call>>

\* The service returns an error without commit.
ReturnError(t) ==
    /\ pc[t] = "writing"
    /\ Goto(t, "rollback")
    /\ UNCHANGED <<readerVars, writerVars, call>>

\* Mutant: rollback() without its check of m_finished.
Rollback_Unchecked(t) ==
    /\ pc[t] = "rollback"
    /\ txn' = NoThread
    /\ finished' = [finished EXCEPT ![t] = TRUE]
    /\ Goto(t, "destroyClose")
    /\ UNCHANGED <<writerSem, writeOwner, readerVars, call>>

\* The destructor runs on every path, the committed one too.  ROLLBACK without
\* a transaction fails, and the failure is swallowed.
Rollback(t) ==
    /\ pc[t] = "rollback"
    /\ txn' = IF finished[t] THEN txn ELSE NoThread
    /\ finished' = [finished EXCEPT ![t] = TRUE]
    /\ Goto(t, "destroyClose")
    /\ UNCHANGED <<writerSem, writeOwner, readerVars, call>>

\* Mutant: close() without its check of m_pOwner.
CloseWriter_Unchecked(t) ==
    /\ pc[t] \in {"commitClose", "destroyClose"}
    /\ writerSem' = writerSem + 1
    /\ writeOwner' = [writeOwner EXCEPT ![t] = FALSE]
    /\ Goto(t, IF pc[t] = "commitClose" THEN "rollback" ELSE "destroyReader")
    /\ UNCHANGED <<txn, finished, readerVars, call>>

\* WriteUnitOfWork::close, from commit() or from the destructor.
CloseWriter(t) ==
    /\ pc[t] \in {"commitClose", "destroyClose"}
    /\ writerSem' = IF writeOwner[t] THEN writerSem + 1 ELSE writerSem
    /\ writeOwner' = [writeOwner EXCEPT ![t] = FALSE]
    /\ Goto(t, IF pc[t] = "commitClose" THEN "rollback" ELSE "destroyReader")
    /\ UNCHANGED <<txn, finished, readerVars, call>>

-----------------------------------------------------------------------------
\* SqliteDatabase::SqliteDatabase: the readers queue up in some order.
Init ==
    /\ readersSemaphore = Cardinality(Readers)
    /\ available \in {q \in [1..Cardinality(Readers) -> Readers] :
                        \A r \in Readers : \E i \in DOMAIN q : q[i] = r}
    /\ mutex = NoThread
    /\ writerSem = 1
    /\ txn = NoThread
    /\ pc = [t \in Threads |-> "idle"]
    /\ call = [t \in Threads |-> "read"]
    /\ conn = [t \in Threads |-> NoReader]
    /\ readOwner = [t \in Threads |-> FALSE]
    /\ writeOwner = [t \in Threads |-> FALSE]
    /\ finished = [t \in Threads |-> TRUE]

Reading(t) ==
    \/ AcquireReader(t) \/ LockReaders(t) \/ Front(t) \/ Pop(t)
    \/ EndReading(t) \/ Push(t) \/ ReleaseReader(t) \/ DestroyReader(t)

Writing(t) ==
    \/ AcquireWriter(t) \/ Begin(t) \/ BeginThrows(t)
    \/ Commit(t) \/ CommitThrows(t) \/ ReturnError(t)
    \/ Rollback(t) \/ CloseWriter(t)

Next == \E t \in Threads : Start(t) \/ Reading(t) \/ Writing(t)

Spec == Init /\ [][Next]_vars

-----------------------------------------------------------------------------
(* Properties.                                                             *)

UsesReader(t) == pc[t] \in {"pop", "reading", "lockToPush", "push"}
UsesWriter(t) == pc[t] \in {"begin", "writing"} \/ writeOwner[t]

\* Every variable holds values of its kind.
TypeOK ==
    /\ readersSemaphore \in 0..Cardinality(Readers)
    /\ available \in Seq(Readers)
    /\ mutex \in Threads \cup {NoThread}
    /\ writerSem \in 0..1
    /\ txn \in Threads \cup {NoThread}
    /\ pc \in [Threads -> Labels]
    /\ call \in [Threads -> Calls]
    /\ conn \in [Threads -> Readers \cup {NoReader}]
    /\ readOwner \in [Threads -> BOOLEAN]
    /\ writeOwner \in [Threads -> BOOLEAN]
    /\ finished \in [Threads -> BOOLEAN]

\* Two threads never have the writer connection at once.
WriterExclusive ==
    \A t, u \in Threads : UsesWriter(t) /\ UsesWriter(u) => t = u

\* The next writer finds the connection without an open transaction, whichever
\* exit the last one took: otherwise every later BEGIN would fail
\* (sqlite-database.cpp:24, :29, :38).
WriterIdleClean == writerSem = 1 => txn = NoThread

\* A transaction is ended by the thread that began it: the destructor that runs
\* after commit() has given the connection away must not roll back the next
\* thread's transaction (sqlite-database.cpp:39).
EndedByItsThread ==
    [][txn # NoThread /\ txn' # txn => pc'[txn] # pc[txn]]_vars

\* The promise of ConnectionPool: each connection serves one thread at a time,
\* and no thread holds two.
Connections == Readers \cup {NoReader}
Users == [c \in Connections |->
            IF c = NoReader THEN {t \in Threads : UsesWriter(t)}
            ELSE {t \in Threads : UsesReader(t) /\ conn[t] = c}]
Pool == INSTANCE ConnectionPool WITH users <- Users
ImplementsPool == Pool!Spec

\* Between AcquireReader and ReleaseReader.
OwesReader(t) ==
    pc[t] \in {"lockToPop", "front", "pop", "reading", "lockToPush", "push", "releaseReader"}

\* No exit, by return or by exception, keeps a permit or gives it back twice:
\* those the semaphores do not have are owed by threads on their way to a
\* release.  A lost one would make every later call wait for ever
\* (sqlite-database.cpp:71, :94).
PermitsConserved ==
    /\ readersSemaphore + Cardinality({t \in Threads : OwesReader(t)}) = Cardinality(Readers)
    /\ writerSem + Cardinality({t \in Threads : UsesWriter(t)}) = 1
=============================================================================
