------------------------ MODULE UnitOfWorkPoolProofs ------------------------
(* The connections of SqliteDatabase serve one unit of work at a time, the *)
(* writer is clean between two of them, and no permit is lost, for any     *)
(* number of threads and reader connections.                               *)
EXTENDS UnitOfWorkPool, FiniteSetTheorems, TLAPS

\* A thread owes the permit of m_writerBinSem.
HasPermit(t) == pc[t] = "begin" \/ writeOwner[t]

WriterTypes ==
    /\ writerSem \in {0, 1}
    /\ txn \in Threads \cup {NoThread}
    /\ pc \in [Threads -> Labels]
    /\ writeOwner \in [Threads -> BOOLEAN]
    /\ finished \in [Threads -> BOOLEAN]

\* The permit is in the semaphore or with exactly one thread.
OnePermit ==
    /\ IF writerSem = 1 THEN \A t \in Threads : ~HasPermit(t)
                        ELSE \E t \in Threads : HasPermit(t)
    /\ \A t, u \in Threads : HasPermit(t) /\ HasPermit(u) => t = u

\* Where a thread is tells whether its unit of work is open and committed.
Progress ==
    \A t \in Threads :
        /\ pc[t] = "writing" => writeOwner[t] /\ ~finished[t]
        /\ pc[t] = "commitClose" => writeOwner[t] /\ finished[t]
        /\ pc[t] = "rollback" => (writeOwner[t] <=> ~finished[t])
        /\ pc[t] = "destroyClose" => finished[t]
        /\ writeOwner[t] => pc[t] \in {"writing", "commitClose", "rollback", "destroyClose"}

\* An open transaction belongs to a unit of work that is neither finished nor closed.
OpenTxn ==
    txn # NoThread =>
        writeOwner[txn] /\ ~finished[txn] /\ pc[txn] \in {"writing", "rollback"}

WriterInv == WriterTypes /\ OnePermit /\ Progress /\ OpenTxn

-----------------------------------------------------------------------------
LEMMA InitWriter == Init => WriterInv
  <1> SUFFICES ASSUME Init PROVE WriterInv
    OBVIOUS
  <1>1. WriterTypes
    BY DEF Init, WriterTypes, Labels
  <1>2. OnePermit /\ Progress /\ OpenTxn
    BY DEF Init, OnePermit, HasPermit, Progress, OpenTxn
  <1> QED BY <1>1, <1>2 DEF WriterInv

\* The steps outside a write unit of work: the readers' steps and the start of
\* a call leave the writer's variables alone, and do not enter its labels.
LEMMA ReadingKeepsWriter ==
    ASSUME WriterInv, NEW t \in Threads, Start(t) \/ Reading(t)
    PROVE  WriterInv'
  <1> DEFINE Outside == Labels \ {"begin", "writing", "commitClose", "rollback", "destroyClose"}
  <1>1. UNCHANGED writerVars
    BY DEF Start, Reading, AcquireReader, LockReaders, Front, Pop, EndReading, Push,
           ReleaseReader, DestroyReader
  <1>2. pc[t] \in Outside /\ \E l \in Outside : pc' = [pc EXCEPT ![t] = l]
    BY DEF Start, Reading, AcquireReader, LockReaders, Front, Pop, EndReading, Push,
           ReleaseReader, DestroyReader, Goto, Labels
  <1>3. pc \in [Threads -> Labels]
    BY DEF WriterInv, WriterTypes
  <1>4. /\ pc' \in [Threads -> Labels] /\ pc'[t] \in Outside
        /\ \A u \in Threads \ {t} : pc'[u] = pc[u]
    BY <1>2, <1>3
  <1>5. WriterTypes'
    BY <1>1, <1>4 DEF WriterInv, WriterTypes, writerVars
  <1>6. ~writeOwner[t]
    BY <1>2 DEF WriterInv, Progress
  <1>7. OnePermit' /\ Progress' /\ OpenTxn'
    BY <1>1, <1>2, <1>4, <1>6
       DEF WriterInv, WriterTypes, OnePermit, HasPermit, Progress, OpenTxn, writerVars
  <1> QED BY <1>5, <1>7 DEF WriterInv

\* The steps of a write unit of work.
LEMMA WritingKeepsWriter ==
    ASSUME WriterInv, NEW t \in Threads, Writing(t)
    PROVE  WriterInv'
  <1> USE NoThreadAssumption DEF WriterInv, WriterTypes, OnePermit, HasPermit, Progress, OpenTxn,
          Goto, Labels
  <1>1. CASE AcquireWriter(t)
    BY <1>1 DEF AcquireWriter
  <1>2. CASE Begin(t)
    BY <1>2 DEF Begin
  <1>3. CASE BeginThrows(t)
    BY <1>3 DEF BeginThrows
  <1>4. CASE Commit(t)
    BY <1>4 DEF Commit
  <1>5. CASE CommitThrows(t)
    BY <1>5 DEF CommitThrows
  <1>6. CASE ReturnError(t)
    BY <1>6 DEF ReturnError, writerVars
  <1>7. CASE Rollback(t)
    <2>1. /\ txn' = IF finished[t] THEN txn ELSE NoThread
          /\ \A u \in Threads : finished'[u] = IF u = t THEN TRUE ELSE finished[u]
          /\ \A u \in Threads : pc'[u] = IF u = t THEN "destroyClose" ELSE pc[u]
          /\ pc[t] = "rollback" /\ UNCHANGED <<writerSem, writeOwner>>
      BY <1>7 DEF Rollback
    <2>2. WriterTypes'
      BY <1>7 DEF Rollback
    <2>3. OnePermit'
      BY <2>1
    <2>4. Progress'
      <3>1. ASSUME NEW u \in Threads \ {t}
            PROVE  finished'[u] = finished[u] /\ pc'[u] = pc[u] /\ writeOwner'[u] = writeOwner[u]
        BY <2>1
      <3>2. finished'[t] /\ pc'[t] = "destroyClose"
        BY <2>1
      <3>3. ASSUME NEW u \in Threads \ {t}
            PROVE  /\ pc'[u] = "writing" => writeOwner'[u] /\ ~finished'[u]
                   /\ pc'[u] = "commitClose" => writeOwner'[u] /\ finished'[u]
                   /\ pc'[u] = "rollback" => (writeOwner'[u] <=> ~finished'[u])
                   /\ pc'[u] = "destroyClose" => finished'[u]
                   /\ writeOwner'[u] => pc'[u] \in {"writing", "commitClose", "rollback", "destroyClose"}
        BY <3>1
      <3> QED BY <3>2, <3>3
    <2>5. OpenTxn'
      <3>1. CASE finished[t]
        BY <2>1, <3>1
      <3>2. CASE ~finished[t]
        BY <2>1, <3>2
      <3> QED BY <3>1, <3>2
    <2> QED BY <2>2, <2>3, <2>4, <2>5
  <1>8. CASE CloseWriter(t)
    BY <1>8 DEF CloseWriter
  <1> QED BY <1>1, <1>2, <1>3, <1>4, <1>5, <1>6, <1>7, <1>8 DEF Writing

LEMMA NextWriter == WriterInv /\ [Next]_vars => WriterInv'
  <1> SUFFICES ASSUME WriterInv, [Next]_vars PROVE WriterInv'
    OBVIOUS
  <1>1. CASE Next
    BY <1>1, ReadingKeepsWriter, WritingKeepsWriter DEF Next
  <1>2. CASE UNCHANGED vars
    BY <1>2 DEF vars, writerVars, WriterInv, WriterTypes, OnePermit, HasPermit, Progress, OpenTxn
  <1> QED BY <1>1, <1>2

LEMMA WriterInvariant == Spec => []WriterInv
  BY InitWriter, NextWriter, PTL DEF Spec

-----------------------------------------------------------------------------
\* Two threads never have the writer connection at once.
THEOREM WriterIsExclusive == Spec => []WriterExclusive
  <1>1. WriterInv => WriterExclusive
    BY DEF WriterInv, WriterExclusive, UsesWriter, OnePermit, HasPermit, Progress
  <1> QED BY WriterInvariant, <1>1, PTL

\* Every exit of a unit of work leaves the writer connection without an open
\* transaction before the next thread may take it.
THEOREM WriterIsClean == Spec => []WriterIdleClean
  <1>1. WriterInv => WriterIdleClean
    BY NoThreadAssumption
       DEF WriterInv, WriterTypes, WriterIdleClean, OnePermit, HasPermit, OpenTxn
  <1> QED BY WriterInvariant, <1>1, PTL

\* A transaction is ended by the thread that began it.
THEOREM OwnTransaction == Spec => EndedByItsThread
  <1> DEFINE Own == txn # NoThread /\ txn' # txn => pc'[txn] # pc[txn]
  <1>1. ASSUME WriterInv, Next PROVE Own
    <2>1. PICK t \in Threads : Start(t) \/ Reading(t) \/ Writing(t)
      BY <1>1 DEF Next
    <2>2. CASE Start(t) \/ Reading(t)
      BY <2>2 DEF Start, Reading, AcquireReader, LockReaders, Front, Pop, EndReading, Push,
                  ReleaseReader, DestroyReader, writerVars
    <2>3. CASE Writing(t)
      BY <1>1, <2>3 DEF Writing, AcquireWriter, Begin, BeginThrows, Commit, CommitThrows,
             ReturnError, Rollback, CloseWriter, readerVars, Goto, WriterInv, WriterTypes,
             OnePermit, HasPermit, Progress, OpenTxn
    <2> QED BY <2>1, <2>2, <2>3
  <1>2. WriterInv /\ [Next]_vars => [Own]_vars
    BY <1>1
  <1> QED BY <1>2, WriterInvariant, PTL DEF Spec, EndedByItsThread


-----------------------------------------------------------------------------
(* Reader connections.                                                     *)

\* Inside m_readersMutex.
InMutex(t) == pc[t] \in {"front", "pop", "push"}

\* Its reader connection has left the queue.
Holds(t) == pc[t] \in {"reading", "lockToPush", "push"}

Owing   == {t \in Threads : OwesReader(t)}
Holding == {t \in Threads : Holds(t)}

ReaderTypes ==
    /\ readersSemaphore \in Nat
    /\ available \in Seq(Readers)
    /\ mutex \in Threads \cup {NoThread}
    /\ pc \in [Threads -> Labels]
    /\ conn \in [Threads -> Readers \cup {NoReader}]
    /\ readOwner \in [Threads -> BOOLEAN]

\* The permits and the connections are where their threads are.
Counted ==
    /\ readersSemaphore + Cardinality(Owing) = Cardinality(Readers)
    /\ Len(available) + Cardinality(Holding) = Cardinality(Readers)

Owned == \A t \in Threads :
            /\ InMutex(t) <=> mutex = t
            /\ readOwner[t] <=> Holds(t) \/ pc[t] = "releaseReader"

\* No connection is twice in the queue, twice with a thread, or in both.
Apart ==
    /\ \A i, j \in 1..Len(available) : available[i] = available[j] => i = j
    /\ \A t \in Threads :
          /\ Holds(t) => /\ conn[t] \in Readers
                         /\ \A i \in 1..Len(available) : available[i] # conn[t]
                         /\ \A u \in Threads : Holds(u) /\ conn[u] = conn[t] => u = t
          /\ pc[t] = "pop" => available # <<>> /\ conn[t] = Head(available)

ReaderInv == ReaderTypes /\ Counted /\ Owned /\ Apart

-----------------------------------------------------------------------------
LEMMA InitReaders == Init => ReaderInv
  <1> SUFFICES ASSUME Init PROVE ReaderInv
    OBVIOUS
  <1> DEFINE N == Cardinality(Readers)
  <1>1. N \in Nat
    BY ReadersAssumption, FS_CardinalityType
  <1>2. available \in [1..N -> Readers] /\ \A r \in Readers : \E i \in 1..N : available[i] = r
    BY DEF Init
  <1>3. available \in Seq(Readers) /\ Len(available) = N
    BY <1>1, <1>2
  <1>4. ReaderTypes /\ Owned
    BY <1>1, <1>3, NoThreadAssumption DEF Init, ReaderTypes, Owned, InMutex, Holds, Labels
  <1>5. Counted
    <2>1. Owing = {} /\ Holding = {}
      BY DEF Init, Owing, OwesReader, Holding, Holds
    <2> QED BY <1>1, <1>3, <2>1, FS_EmptySet DEF Init, Counted
  <1>6. Apart
    <2>1. IsFiniteSet(1..N) /\ Cardinality(1..N) = N
      BY <1>1, FS_Interval
    <2>2. available \in Surjection(1..N, Readers)
      BY <1>2 DEF Surjection
    <2>3. available \in Injection(1..N, Readers)
      BY <2>1, <2>2, ReadersAssumption, FS_SurjSameCardinalityImpliesInj
    <2> QED BY <1>3, <2>3 DEF Init, Apart, Holds, Injection, IsInjective
  <1> QED BY <1>4, <1>5, <1>6 DEF ReaderInv

\* A thread that reads the front of the queue finds a connection there: all the
\* others that hold one owe a permit, and it owes one itself.
LEMMA QueueHasFront ==
    ASSUME ReaderInv, NEW t \in Threads, pc[t] = "front"
    PROVE  available # <<>>
  <1>1. IsFiniteSet(Owing) /\ IsFiniteSet(Holding)
    BY ThreadsAssumption, FS_Subset DEF Owing, Holding
  <1>2. Cardinality(Owing) \in Nat /\ Cardinality(Readers) \in Nat
    BY <1>1, ReadersAssumption, FS_CardinalityType
  <1>3. t \in Owing /\ Holding \in SUBSET (Owing \ {t})
    BY DEF Owing, OwesReader, Holding, Holds
  <1>4. /\ IsFiniteSet(Owing \ {t})
        /\ Cardinality(Owing \ {t}) = Cardinality(Owing) - 1
    BY <1>1, <1>3, FS_RemoveElement
  <1>5. Cardinality(Holding) <= Cardinality(Owing) - 1
    BY <1>3, <1>4, FS_Subset
  <1>6. Cardinality(Holding) \in Nat
    BY <1>1, FS_CardinalityType
  <1>7. Len(available) > 0
    BY <1>2, <1>5, <1>6 DEF ReaderInv, ReaderTypes, Counted
  <1> QED BY <1>7 DEF ReaderInv, ReaderTypes

\* The counts of both sets when one thread goes to another label.
LEMMA Moves ==
    ASSUME NEW t \in Threads, NEW l \in Labels, pc \in [Threads -> Labels], Goto(t, l)
    PROVE  /\ Cardinality(Owing)' =
                IF OwesReader(t)' THEN IF OwesReader(t) THEN Cardinality(Owing) ELSE Cardinality(Owing) + 1
                ELSE IF OwesReader(t) THEN Cardinality(Owing) - 1 ELSE Cardinality(Owing)
           /\ Cardinality(Holding)' =
                IF Holds(t)' THEN IF Holds(t) THEN Cardinality(Holding) ELSE Cardinality(Holding) + 1
                ELSE IF Holds(t) THEN Cardinality(Holding) - 1 ELSE Cardinality(Holding)
           /\ Cardinality(Owing) \in Nat /\ Cardinality(Holding) \in Nat
           /\ pc' \in [Threads -> Labels] /\ pc'[t] = l
           /\ \A u \in Threads \ {t} : pc'[u] = pc[u]
  <1>1. \A u \in Threads : pc'[u] = IF u = t THEN l ELSE pc[u]
    BY DEF Goto
  <1>2. pc' \in [Threads -> Labels]
    BY DEF Goto
  <1>3. /\ Owing' = IF OwesReader(t)' THEN Owing \cup {t} ELSE Owing \ {t}
        /\ Holding' = IF Holds(t)' THEN Holding \cup {t} ELSE Holding \ {t}
    BY <1>1 DEF Owing, OwesReader, Holding, Holds
  <1>4. IsFiniteSet(Owing) /\ IsFiniteSet(Holding)
    BY ThreadsAssumption, FS_Subset DEF Owing, Holding
  <1>5. Cardinality(Owing) \in Nat /\ Cardinality(Holding) \in Nat
    BY <1>4, FS_CardinalityType
  <1>6. (t \in Owing <=> OwesReader(t)) /\ (t \in Holding <=> Holds(t))
    BY DEF Owing, Holding
  <1>7. ASSUME NEW S, IsFiniteSet(S), Cardinality(S) \in Nat
        PROVE  /\ Cardinality(S \cup {t}) = IF t \in S THEN Cardinality(S) ELSE Cardinality(S) + 1
               /\ Cardinality(S \ {t}) = IF t \in S THEN Cardinality(S) - 1 ELSE Cardinality(S)
    BY <1>7, FS_AddElement, FS_RemoveElement
  <1>8. Cardinality(Owing)' =
          IF OwesReader(t)' THEN IF OwesReader(t) THEN Cardinality(Owing) ELSE Cardinality(Owing) + 1
          ELSE IF OwesReader(t) THEN Cardinality(Owing) - 1 ELSE Cardinality(Owing)
    BY <1>3, <1>4, <1>5, <1>6, <1>7
  <1>9. Cardinality(Holding)' =
          IF Holds(t)' THEN IF Holds(t) THEN Cardinality(Holding) ELSE Cardinality(Holding) + 1
          ELSE IF Holds(t) THEN Cardinality(Holding) - 1 ELSE Cardinality(Holding)
    BY <1>3, <1>4, <1>5, <1>6, <1>7
  <1> QED BY <1>1, <1>2, <1>5, <1>8, <1>9

-----------------------------------------------------------------------------
\* Steps that leave the queue, the connections and the set of holders alone.
LEMMA QueueKept ==
    ASSUME ReaderInv, NEW t \in Threads, NEW l \in Labels, Goto(t, l),
           UNCHANGED <<available, conn>>, Holds(t)' <=> Holds(t), l # "pop"
    PROVE  Apart'
  <1>1. \A u \in Threads : (Holds(u)' <=> Holds(u)) /\ (pc'[u] = "pop" => pc[u] = "pop")
    BY Moves DEF ReaderInv, ReaderTypes, Holds
  <1>2. Apart
    BY DEF ReaderInv
  <1>3. /\ \A i, j \in 1..Len(available') : available'[i] = available'[j] => i = j
        /\ \A u \in Threads : pc'[u] = "pop" => available' # <<>> /\ conn'[u] = Head(available')
    BY <1>1, <1>2 DEF Apart
  <1>4. ASSUME NEW u \in Threads, Holds(u)'
        PROVE  /\ conn'[u] \in Readers
               /\ \A i \in 1..Len(available') : available'[i] # conn'[u]
               /\ \A v \in Threads : Holds(v)' /\ conn'[v] = conn'[u] => v = u
    BY <1>1, <1>2, <1>4 DEF Apart
  <1> QED BY <1>3, <1>4 DEF Apart

LEMMA ReadingKeepsReaders ==
    ASSUME ReaderInv, NEW t \in Threads, Reading(t)
    PROVE  ReaderInv'
  <1> USE NoThreadAssumption, Moves DEF ReaderInv, ReaderTypes
  <1>1. CASE AcquireReader(t)
    <2>1. Goto(t, "lockToPop") /\ "lockToPop" \in Labels
      BY <1>1 DEF AcquireReader, Labels
    <2>2. ReaderTypes'
      BY <1>1, <2>1 DEF AcquireReader
    <2>3. Counted'
      BY <1>1, <2>1 DEF AcquireReader, Counted, Holds, OwesReader
    <2>4. Owned'
      BY <1>1, <2>1 DEF AcquireReader, Owned, InMutex, Holds
    <2>5. Apart'
      BY <1>1, <2>1, QueueKept DEF AcquireReader, Holds
    <2> QED BY <2>2, <2>3, <2>4, <2>5
  <1>2. CASE LockReaders(t)
    <2> DEFINE l == IF pc[t] = "lockToPop" THEN "front" ELSE "push"
    <2>1. Goto(t, l) /\ l \in Labels
      BY <1>2 DEF LockReaders, Labels
    <2>2. ReaderTypes'
      BY <1>2, <2>1 DEF LockReaders
    <2>3. Counted'
      BY <1>2, <2>1 DEF LockReaders, Counted, Holds, OwesReader
    <2>4. Owned'
      BY <1>2, <2>1 DEF LockReaders, CanLock, Owned, InMutex, Holds
    <2>5. Apart'
      BY <1>2, <2>1, QueueKept DEF LockReaders, Holds
    <2> QED BY <2>2, <2>3, <2>4, <2>5
  <1>3. CASE Front(t)
    <2>1. Goto(t, "pop") /\ "pop" \in Labels /\ available # <<>> /\ pc[t] = "front"
      BY <1>3, QueueHasFront DEF Front, Labels
    <2>2. Head(available) \in Readers
      BY <2>1
    <2>3. ReaderTypes'
      BY <1>3, <2>1, <2>2 DEF Front
    <2>4. Counted'
      BY <1>3, <2>1 DEF Front, Counted, Holds, OwesReader
    <2>5. Owned'
      BY <1>3, <2>1 DEF Front, Owned, InMutex, Holds
    <2>6. /\ UNCHANGED available /\ conn'[t] = Head(available)
          /\ \A u \in Threads \ {t} : conn'[u] = conn[u]
      BY <1>3 DEF Front
    <2>7. \A u \in Threads : Holds(u)' => Holds(u) /\ u # t
      BY <2>1 DEF Holds
    <2>8. Apart
      OBVIOUS
    <2>9. /\ \A i, j \in 1..Len(available') : available'[i] = available'[j] => i = j
          /\ \A u \in Threads : pc'[u] = "pop" => available' # <<>> /\ conn'[u] = Head(available')
      BY <2>1, <2>6, <2>8 DEF Apart
    <2>10. ASSUME NEW u \in Threads, Holds(u)'
           PROVE  /\ conn'[u] \in Readers
                  /\ \A i \in 1..Len(available') : available'[i] # conn'[u]
                  /\ \A v \in Threads : Holds(v)' /\ conn'[v] = conn'[u] => v = u
      BY <2>6, <2>7, <2>8, <2>10 DEF Apart
    <2> QED BY <2>3, <2>4, <2>5, <2>9, <2>10 DEF Apart
  <1>4. CASE Pop(t)
    <2>1. Goto(t, "reading") /\ "reading" \in Labels /\ pc[t] = "pop"
      BY <1>4 DEF Pop, Labels
    <2>2. available # <<>> /\ conn[t] = Head(available)
      BY <2>1 DEF Apart
    <2>3. /\ available' \in Seq(Readers) /\ Len(available') = Len(available) - 1
          /\ \A i \in 1..Len(available') : available'[i] = available[i + 1]
          /\ Len(available) \in Nat \ {0} /\ conn[t] = available[1] /\ conn[t] \in Readers
      BY <1>4, <2>2 DEF Pop
    <2>4. ReaderTypes'
      BY <1>4, <2>1, <2>3 DEF Pop
    <2>5. Counted'
      <3>1. /\ Cardinality(Owing)' = Cardinality(Owing) /\ UNCHANGED readersSemaphore
            /\ Cardinality(Holding)' = Cardinality(Holding) + 1 /\ Cardinality(Holding) \in Nat
        BY <1>4, <2>1 DEF Pop, Holds, OwesReader
      <3>2. Len(available') + Cardinality(Holding)' = Len(available) + Cardinality(Holding)
        BY ONLY <2>3, <3>1
      <3> QED BY <3>1, <3>2 DEF Counted
    <2>6. Owned'
      BY <1>4, <2>1 DEF Pop, Owned, InMutex, Holds
    <2>7. \A u \in Threads : /\ Holds(u)' <=> Holds(u) \/ u = t
                             /\ pc'[u] # "pop"
      BY <1>4, <2>1 DEF Pop, Holds, Owned, InMutex
    <2>8. UNCHANGED conn
      BY <1>4 DEF Pop
    <2>9. \A i, j \in 1..Len(available') : available'[i] = available'[j] => i = j
      BY <2>3 DEF Apart
    <2>10. \A i \in 1..Len(available') : available'[i] # conn[t]
      BY <2>3 DEF Apart
    <2>11. \A u \in Threads : Holds(u) => conn[u] # conn[t]
      BY <2>3 DEF Apart
    <2>12. ASSUME NEW u \in Threads, Holds(u)
           PROVE  /\ conn[u] \in Readers
                  /\ \A i \in 1..Len(available') : available'[i] # conn[u]
                  /\ \A v \in Threads : Holds(v) /\ conn[v] = conn[u] => v = u
      BY <2>3, <2>12 DEF Apart
    <2> QED BY <2>3, <2>4, <2>5, <2>6, <2>7, <2>8, <2>9, <2>10, <2>11, <2>12 DEF Apart
  <1>5. CASE EndReading(t)
    <2>1. Goto(t, "lockToPush") /\ "lockToPush" \in Labels /\ pc[t] = "reading"
      BY <1>5 DEF EndReading, Labels
    <2>2. ReaderTypes' /\ Counted' /\ Owned'
      BY <1>5, <2>1 DEF EndReading, readerVars, Counted, Owned, InMutex, Holds, OwesReader
    <2>3. Apart'
      BY <1>5, <2>1, QueueKept DEF EndReading, readerVars, Holds
    <2> QED BY <2>2, <2>3
  <1>6. CASE Push(t)
    <2>1. Goto(t, "releaseReader") /\ "releaseReader" \in Labels /\ pc[t] = "push"
      BY <1>6 DEF Push, Labels
    <2>2. Holds(t) /\ conn[t] \in Readers
      BY <2>1 DEF Apart, Holds
    <2>3. /\ available' \in Seq(Readers) /\ Len(available') = Len(available) + 1
          /\ \A i \in 1..Len(available) : available'[i] = available[i]
          /\ available'[Len(available')] = conn[t] /\ Len(available) \in Nat
      BY <1>6, <2>2 DEF Push
    <2>4. ReaderTypes'
      BY <1>6, <2>1, <2>3 DEF Push
    <2>5. Counted'
      <3>1. /\ Cardinality(Owing)' = Cardinality(Owing) /\ UNCHANGED readersSemaphore
            /\ Cardinality(Holding)' = Cardinality(Holding) - 1 /\ Cardinality(Holding) \in Nat
        BY <1>6, <2>1 DEF Push, Holds, OwesReader
      <3>2. Len(available') + Cardinality(Holding)' = Len(available) + Cardinality(Holding)
        BY ONLY <2>3, <3>1
      <3> QED BY <3>1, <3>2 DEF Counted
    <2>6. Owned'
      BY <1>6, <2>1 DEF Push, Owned, InMutex, Holds
    <2>7. \A u \in Threads : /\ Holds(u)' => Holds(u) /\ u # t
                             /\ pc'[u] # "pop"
      BY <1>6, <2>1 DEF Push, Holds, Owned, InMutex
    <2>8. UNCHANGED conn
      BY <1>6 DEF Push
    <2>9. \A i \in 1..Len(available) : available[i] # conn[t]
      BY <2>2 DEF Apart
    <2>10. \A i, j \in 1..Len(available') : available'[i] = available'[j] => i = j
      BY <2>3, <2>9 DEF Apart
    <2>11. ASSUME NEW u \in Threads, Holds(u), u # t
           PROVE  /\ conn[u] \in Readers
                  /\ \A i \in 1..Len(available') : available'[i] # conn[u]
                  /\ \A v \in Threads : Holds(v) /\ conn[v] = conn[u] => v = u
      BY <2>2, <2>3, <2>11 DEF Apart
    <2> QED BY <2>4, <2>5, <2>6, <2>7, <2>8, <2>10, <2>11 DEF Apart
  <1>7. CASE ReleaseReader(t)
    <2> DEFINE l == IF call[t] = "readWrite" THEN "acquireWriter" ELSE "idle"
    <2>1. Goto(t, l) /\ l \in Labels /\ pc[t] = "releaseReader" /\ l \in {"acquireWriter", "idle"}
      BY <1>7 DEF ReleaseReader, Labels
    <2> HIDE DEF l
    <2>2. ReaderTypes'
      BY <1>7, <2>1 DEF ReleaseReader
    <2>3. Counted'
      <3>1. /\ Cardinality(Owing)' = Cardinality(Owing) - 1 /\ Cardinality(Owing) \in Nat
            /\ Cardinality(Holding)' = Cardinality(Holding) /\ UNCHANGED available
            /\ readersSemaphore' = readersSemaphore + 1
        BY <1>7, <2>1 DEF ReleaseReader, Holds, OwesReader
      <3>2. readersSemaphore' + Cardinality(Owing)' = readersSemaphore + Cardinality(Owing)
        BY <3>1
      <3> QED BY <3>1, <3>2 DEF Counted
    <2>4. Owned'
      BY <1>7, <2>1 DEF ReleaseReader, Owned, InMutex, Holds
    <2>5. Apart'
      BY <1>7, <2>1, QueueKept DEF ReleaseReader, Holds
    <2> QED BY <2>2, <2>3, <2>4, <2>5
  <1>8. CASE DestroyReader(t)
    <2>1. Goto(t, "idle") /\ "idle" \in Labels /\ pc[t] = "destroyReader"
      BY <1>8 DEF DestroyReader, Labels, Owned, Holds
    <2>2. ReaderTypes' /\ Counted' /\ Owned'
      BY <1>8, <2>1 DEF DestroyReader, readerVars, Counted, Owned, InMutex, Holds, OwesReader
    <2>3. Apart'
      BY <1>8, <2>1, QueueKept DEF DestroyReader, readerVars, Holds
    <2> QED BY <2>2, <2>3
  <1> QED BY <1>1, <1>2, <1>3, <1>4, <1>5, <1>6, <1>7, <1>8 DEF Reading

\* The start of a call and the steps of a write unit of work leave the readers
\* alone, and do not enter their labels.
LEMMA WritingKeepsReaders ==
    ASSUME ReaderInv, NEW t \in Threads, Start(t) \/ Writing(t)
    PROVE  ReaderInv'
  <1> DEFINE Outside == Labels \ {"lockToPop", "front", "pop", "reading", "lockToPush",
                                  "push", "releaseReader"}
  <1>1. UNCHANGED readerVars
    BY DEF Start, Writing, AcquireWriter, Begin, BeginThrows, Commit, CommitThrows,
           ReturnError, Rollback, CloseWriter
  <1>2. pc[t] \in Outside /\ \E l \in Outside : Goto(t, l)
    BY DEF Start, Writing, AcquireWriter, Begin, BeginThrows, Commit, CommitThrows,
           ReturnError, Rollback, CloseWriter, Labels
  <1>3. PICK l \in Outside : Goto(t, l)
    BY <1>2
  <1>4. ReaderTypes' /\ Counted' /\ Owned'
    BY <1>1, <1>2, <1>3, Moves
       DEF readerVars, ReaderInv, ReaderTypes, Counted, Owned, InMutex, Holds, OwesReader
  <1>5. Holds(t)' <=> Holds(t)
    BY <1>2, <1>3, Moves DEF Holds, ReaderInv, ReaderTypes
  <1>6. Apart'
    BY <1>1, <1>3, <1>5, QueueKept DEF readerVars
  <1> QED BY <1>4, <1>6 DEF ReaderInv

LEMMA ReaderInvariant == Spec => []ReaderInv
  <1>1. ASSUME ReaderInv, [Next]_vars PROVE ReaderInv'
    <2>1. CASE Next
      BY <1>1, <2>1, ReadingKeepsReaders, WritingKeepsReaders DEF Next
    <2>2. CASE UNCHANGED vars
      <3>1. UNCHANGED <<readersSemaphore, available, mutex, conn, readOwner, pc>>
        BY <2>2 DEF vars, readerVars
      <3>2. Owing' = Owing /\ Holding' = Holding
        BY <3>1 DEF Owing, OwesReader, Holding, Holds
      <3> QED BY <1>1, <3>1, <3>2
              DEF ReaderInv, ReaderTypes, Counted, Owned, InMutex, Holds, Apart
    <2> QED BY <1>1, <2>1, <2>2
  <1> QED BY InitReaders, <1>1, PTL DEF Spec

-----------------------------------------------------------------------------
\* No exit of a service call keeps a permit or gives one back twice: those that
\* a semaphore does not have are owed by threads on their way to a release.
THEOREM EveryPermitOwed == Spec => []PermitsConserved
  <1> DEFINE Writers == {t \in Threads : UsesWriter(t)}
  <1>1. ASSUME WriterInv PROVE Writers = {t \in Threads : HasPermit(t)}
    BY <1>1 DEF WriterInv, Progress, UsesWriter, HasPermit
  <1>2. ASSUME WriterInv PROVE writerSem + Cardinality(Writers) = 1
    <2>1. CASE writerSem = 1
      <3>1. Writers = {}
        BY <1>1, <1>2, <2>1 DEF WriterInv, OnePermit
      <3> QED BY <2>1, <3>1, FS_EmptySet
    <2>2. CASE writerSem = 0
      <3>1. PICK t \in Threads : HasPermit(t)
        BY <1>2, <2>2 DEF WriterInv, OnePermit
      <3>2. Writers = {t}
        BY <1>1, <1>2, <3>1 DEF WriterInv, OnePermit
      <3> QED BY <2>2, <3>2, FS_Singleton
    <2> QED BY <1>2, <2>1, <2>2 DEF WriterInv, WriterTypes
  <1>3. ReaderInv /\ WriterInv => PermitsConserved
    BY <1>2 DEF ReaderInv, Counted, Owing, PermitsConserved
  <1> QED BY ReaderInvariant, WriterInvariant, <1>3, PTL

-----------------------------------------------------------------------------
(* The refinement of ConnectionPool.                                       *)

\* The threads at a connection, before and after a step of thread t.
LEMMA UsersOf ==
    /\ Users[NoReader] = {t \in Threads : UsesWriter(t)}
    /\ \A c \in Readers : Users[c] = {t \in Threads : UsesReader(t) /\ conn[t] = c}
    /\ DOMAIN Users = Connections
  BY NoReaderAssumption DEF Users, Connections

\* A step after which every thread uses the connections it used before.
LEMMA SameUsers ==
    ASSUME \A u \in Threads : UsesWriter(u)' <=> UsesWriter(u),
           \A u \in Threads : UsesReader(u)' <=> UsesReader(u),
           \A u \in Threads : UsesReader(u) => conn'[u] = conn[u]
    PROVE  UNCHANGED Users
  BY DEF Users, Connections

\* A step after which one connection has other users.
LEMMA UsersChangeAt ==
    ASSUME NEW c \in Connections, NEW S, Users'[c] = S,
           \A d \in Connections \ {c} : Users'[d] = Users[d]
    PROVE  Users' = [Users EXCEPT ![c] = S]
  BY DEF Users

\* The front of the queue has no user, and the thread that reads it takes it.
LEMMA FrontTakes ==
    ASSUME ReaderInv, WriterInv, NEW t \in Threads, Front(t)
    PROVE  Pool!Take(t, Head(available))
  <1> DEFINE c == Head(available)
  <1>1. available # <<>> /\ pc[t] = "front"
    BY QueueHasFront DEF Front
  <1>2. c \in Readers /\ c = available[1] /\ 1 \in 1..Len(available)
    BY <1>1 DEF ReaderInv, ReaderTypes
  <1>3. \A u \in Threads : UsesReader(u) => Holds(u) /\ u # t
    BY <1>1, NoThreadAssumption DEF UsesReader, Holds, ReaderInv, Owned, InMutex
  <1>4. \A u \in Threads : UsesReader(u) => conn[u] # c
    BY <1>2, <1>3 DEF ReaderInv, Apart
  <1>5. ~UsesWriter(t)
    BY <1>1 DEF UsesWriter, WriterInv, Progress
  <1>6. /\ pc'[t] = "pop" /\ conn'[t] = c /\ UNCHANGED writeOwner
        /\ \A u \in Threads \ {t} : pc'[u] = pc[u] /\ conn'[u] = conn[u]
    BY DEF Front, Goto, ReaderInv, ReaderTypes, writerVars
  <1> HIDE DEF c
  <1>7. \A u \in Threads : UsesWriter(u)' <=> UsesWriter(u)
    BY <1>1, <1>6 DEF UsesWriter
  <1>8. \A u \in Threads : UsesReader(u)' <=> UsesReader(u) \/ u = t
    BY <1>6 DEF UsesReader
  <1>9. Pool!Idle(t)
    BY <1>3, <1>5, UsersOf DEF Pool!Idle, Connections
  <1>10. Users[c] = {}
    BY <1>2, <1>4, UsersOf
  <1>11. Users'[c] = {t}
    BY <1>2, <1>4, <1>6, <1>8, NoReaderAssumption DEF Users, Connections
  <1>12. ASSUME NEW d \in Connections \ {c} PROVE Users'[d] = Users[d]
    BY <1>2, <1>3, <1>6, <1>7, <1>8, NoReaderAssumption DEF Users, Connections
  <1>13. Users' = [Users EXCEPT ![c] = {t}]
    BY <1>2, <1>11, <1>12, UsersChangeAt DEF Connections
  <1> QED BY <1>9, <1>10, <1>13 DEF Pool!Take, c

\* The connection that goes back to the queue had this thread as its only user.
LEMMA PushGives ==
    ASSUME ReaderInv, WriterInv, NEW t \in Threads, Push(t)
    PROVE  Pool!Give(t, conn[t])
  <1> DEFINE c == conn[t]
  <1>1. pc[t] = "push" /\ Holds(t)
    BY DEF Push, Holds
  <1>2. c \in Readers
    BY <1>1 DEF ReaderInv, Apart
  <1>3. \A u \in Threads : UsesReader(u) => Holds(u)
    BY <1>1, NoThreadAssumption DEF UsesReader, Holds, ReaderInv, Owned, InMutex
  <1>4. \A u \in Threads : UsesReader(u) /\ conn[u] = c <=> u = t
    BY <1>1, <1>2, <1>3 DEF ReaderInv, Apart, UsesReader
  <1>5. /\ pc'[t] = "releaseReader" /\ UNCHANGED <<conn, writeOwner>>
        /\ \A u \in Threads \ {t} : pc'[u] = pc[u]
    BY DEF Push, Goto, ReaderInv, ReaderTypes, writerVars
  <1> HIDE DEF c
  <1>6. \A u \in Threads : UsesWriter(u)' <=> UsesWriter(u)
    BY <1>1, <1>5 DEF UsesWriter
  <1>7. \A u \in Threads : UsesReader(u)' <=> UsesReader(u) /\ u # t
    BY <1>5 DEF UsesReader
  <1>8. Users[c] = {t}
    BY <1>2, <1>4, UsersOf
  <1>9. Users'[c] = {}
    BY <1>2, <1>4, <1>5, <1>7, NoReaderAssumption DEF Users, Connections
  <1>10. ASSUME NEW d \in Connections \ {c} PROVE Users'[d] = Users[d]
    <2>1. conn[t] # d
      BY <1>4, <1>10
    <2>2. \A u \in Threads : UsesReader(u)' /\ conn'[u] = d <=> UsesReader(u) /\ conn[u] = d
      BY <2>1, <1>5, <1>7
    <2> QED BY <2>2, <1>6 DEF Users, Connections
  <1>11. Users' = [Users EXCEPT ![c] = {}]
    BY <1>2, <1>9, <1>10, UsersChangeAt DEF Connections
  <1> QED BY <1>8, <1>11 DEF Pool!Give, c

\* The other steps of a reader change nobody's connection.
LEMMA ReadingStutters ==
    ASSUME ReaderInv, WriterInv, NEW t \in Threads, Start(t) \/ Reading(t), ~Front(t), ~Push(t)
    PROVE  UNCHANGED Users
  <1>1. UNCHANGED <<conn, writeOwner>>
    BY DEF Start, Reading, AcquireReader, LockReaders, Pop, EndReading, ReleaseReader,
           DestroyReader, readerVars, writerVars
  <1>2. \A u \in Threads : UsesReader(u)' <=> UsesReader(u)
    BY Moves DEF Start, Reading, AcquireReader, LockReaders, Pop, EndReading, ReleaseReader,
           DestroyReader, UsesReader, Goto, ReaderInv, ReaderTypes, Owned, Holds
  <1>3. \A u \in Threads : UsesWriter(u)' <=> UsesWriter(u)
    BY <1>1 DEF Start, Reading, AcquireReader, LockReaders, Pop, EndReading, ReleaseReader,
           DestroyReader, UsesWriter, Goto, ReaderInv, ReaderTypes
  <1> QED BY <1>1, <1>2, <1>3, SameUsers

\* The steps of a write unit of work take and give the writer connection.
LEMMA WritingTakesOrGives ==
    ASSUME ReaderInv, WriterInv, NEW t \in Threads, Writing(t)
    PROVE  Pool!Take(t, NoReader) \/ Pool!Give(t, NoReader) \/ UNCHANGED Users
  <1> USE DEF ReaderInv, ReaderTypes, WriterInv, Goto
  <1>1. /\ UNCHANGED conn /\ \A u \in Threads \ {t} : pc'[u] = pc[u]
        /\ \A u \in Threads : UsesReader(u)' <=> UsesReader(u)
        /\ ~UsesReader(t)
    BY DEF Writing, AcquireWriter, Begin, BeginThrows, Commit, CommitThrows, ReturnError,
           Rollback, CloseWriter, readerVars, UsesReader
  <1>2. \A u \in Threads : UsesWriter(u) <=> HasPermit(u)
    BY DEF Progress, UsesWriter, HasPermit
  <1>3. ASSUME NEW d \in Connections \ {NoReader} PROVE Users'[d] = Users[d]
    BY <1>1, NoReaderAssumption DEF Users, Connections
  <1>4. \A u \in Threads \ {t} : UsesWriter(u)' <=> UsesWriter(u)
    BY <1>1 DEF Writing, AcquireWriter, Begin, BeginThrows, Commit, CommitThrows, ReturnError,
           Rollback, CloseWriter, writerVars, UsesWriter, WriterTypes
  <1>5. CASE ~UsesWriter(t) /\ UsesWriter(t)'
    <2>1. writerSem = 1 /\ \A u \in Threads : ~UsesWriter(u)
      BY <1>2, <1>5 DEF Writing, AcquireWriter, Begin, BeginThrows, Commit, CommitThrows,
             ReturnError, Rollback, CloseWriter, writerVars, UsesWriter, WriterTypes, OnePermit
    <2>2. Users[NoReader] = {} /\ Pool!Idle(t)
      BY <2>1, <1>1, UsersOf DEF Pool!Idle, Connections
    <2>3. Users'[NoReader] = {t}
      BY <2>1, <1>4, <1>5 DEF Users, Connections
    <2>4. Users' = [Users EXCEPT ![NoReader] = {t}]
      BY <2>3, <1>3, UsersChangeAt DEF Connections
    <2> QED BY <2>2, <2>4 DEF Pool!Take
  <1>6. CASE UsesWriter(t) /\ ~UsesWriter(t)'
    <2>1. \A u \in Threads : UsesWriter(u) <=> u = t
      BY <1>2, <1>6 DEF OnePermit
    <2>2. Users[NoReader] = {t}
      BY <2>1, UsersOf
    <2>3. Users'[NoReader] = {}
      BY <2>1, <1>4, <1>6 DEF Users, Connections
    <2>4. Users' = [Users EXCEPT ![NoReader] = {}]
      BY <2>3, <1>3, UsersChangeAt DEF Connections
    <2> QED BY <2>2, <2>4 DEF Pool!Give
  <1>7. CASE UsesWriter(t)' <=> UsesWriter(t)
    BY <1>1, <1>4, <1>7, SameUsers
  <1> QED BY <1>5, <1>6, <1>7

\* The queue, the semaphores and the units of work keep the promise of
\* ConnectionPool: whatever the threads do, a connection serves one of them at a
\* time, and a thread that asks for a connection holds none.
THEOREM PoolImplemented == Spec => ImplementsPool
  <1>1. Init => Pool!Init
    BY NoReaderAssumption DEF Init, Pool!Init, Users, UsesReader, UsesWriter
  <1>2. ASSUME ReaderInv, WriterInv, [Next]_vars PROVE [Pool!Next]_Users
    <2>1. CASE UNCHANGED vars
      BY <2>1, SameUsers DEF vars, readerVars, writerVars, UsesReader, UsesWriter
    <2>2. CASE Next
      <3>1. PICK t \in Threads : Start(t) \/ Reading(t) \/ Writing(t)
        BY <2>2 DEF Next
      <3>2. CASE Front(t)
        <4>1. Head(available) \in Connections
          BY <1>2, <3>2, QueueHasFront DEF Front, ReaderInv, ReaderTypes, Connections
        <4> QED BY <1>2, <3>2, <4>1, FrontTakes DEF Pool!Next
      <3>3. CASE Push(t)
        <4>1. conn[t] \in Connections
          BY <1>2 DEF ReaderInv, ReaderTypes, Connections
        <4> QED BY <1>2, <3>3, <4>1, PushGives DEF Pool!Next
      <3>4. CASE Writing(t)
        BY <1>2, <3>4, WritingTakesOrGives DEF Pool!Next, Connections
      <3>5. CASE (Start(t) \/ Reading(t)) /\ ~Front(t) /\ ~Push(t)
        BY <1>2, <3>5, ReadingStutters
      <3> QED BY <3>1, <3>2, <3>3, <3>4, <3>5
    <2> QED BY <1>2, <2>1, <2>2
  <1> QED BY <1>1, <1>2, ReaderInvariant, WriterInvariant, PTL DEF Spec, ImplementsPool, Pool!Spec
=============================================================================
