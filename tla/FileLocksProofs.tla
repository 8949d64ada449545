-------------------------- MODULE FileLocksProofs --------------------------
(* A lock stays with the client it was granted to, for any number of       *)
(* workers, files and requests, with commits that fail and restarts.       *)
EXTENDS FileLocks, TLAPS

TaskType == [file : Files \cup {"none"}, token : 0..MaxTokens]

Types ==
    /\ now \in Nat
    /\ files \subseteq Files
    /\ lastToken \in 0..MaxTokens
    /\ pc \in [Workers -> Labels]
    /\ task \in [Workers -> TaskType]
    /\ told \subseteq TaskType
    /\ asked \subseteq told

\* file_id is the primary key of file_lock, and the tokens in it come from one
\* generator: none is newer than its last value.
Rows ==
    /\ \A r, s \in locks : r.file = s.file => r = s
    /\ \A r \in locks : r.file \in Files /\ r.token \in 0..lastToken

TokensIssued == \A h \in told : h.token <= lastToken

\* A lock whose acquire request is not answered yet: its task is about to post
\* the event or to answer.
Granting(w) == pc[w] \in {"postLocked", "answer"}

HasRow(h) == h.file \in files => RowsNamed(h.file, h.token) # {}

\* The locks nobody has asked to release, of which a client was told or is about
\* to be told.
Granted(h) ==
    /\ h \notin asked
    /\ h \in told \/ \E w \in Workers : Granting(w) /\ task[w] = h

\* A lock being granted is there; who asked to release it before its answer read
\* its token in the active lock of the file.
GrantsHeld ==
    \A w \in Workers : Granting(w) =>
        task[w].token <= lastToken /\ (task[w] \in asked \/ HasRow(task[w]))

\* The answer repeats what the event said, and who releases a lock has stopped
\* counting as its holder.
TasksKnown ==
    \A w \in Workers :
        /\ pc[w] = "answer" => task[w] \in told
        /\ pc[w] \in {"release", "postUnlocked"} => task[w] \in asked

IInv ==
    /\ Types /\ Rows /\ TokensIssued
    /\ GrantsHeld /\ TasksKnown
    /\ HolderKeepsLock

-----------------------------------------------------------------------------
Alone(w) ==
    /\ pc' \in [Workers -> Labels] /\ task' \in [Workers -> TaskType]
    /\ \A u \in Workers \ {w} : pc'[u] = pc[u] /\ task'[u] = task[u]

LEMMA FinishFacts ==
    ASSUME Types, NEW w \in Workers, Finish(w)
    PROVE  Alone(w) /\ pc'[w] = "idle"
  <1>1. NoTask \in TaskType
    BY MaxTokensAssumption DEF NoTask, TaskType
  <1> QED BY <1>1 DEF Types, Finish, Goto, Alone, Labels

LEMMA KeepFacts ==
    ASSUME Types, NEW w \in Workers, NEW l \in Labels, Goto(w, l), task' = task
    PROVE  Alone(w) /\ pc'[w] = l /\ task'[w] = task[w]
  BY DEF Types, Goto, Alone

\* A step that removes no row of a granted lock, tells nothing and starts no
\* release.
LEMMA QuietStep ==
    ASSUME IInv, NEW w \in Workers, Alone(w),
           now' \in Nat, files' \subseteq files, lastToken' \in 0..MaxTokens,
           lastToken <= lastToken', UNCHANGED <<told, asked>>,
           Rows',
           \A h : Granted(h) /\ HasRow(h) => HasRow(h)',
           pc'[w] \notin {"postLocked", "answer", "release"},
           pc'[w] = "postUnlocked" => task'[w] \in asked
    PROVE  IInv'
  <1>1. ASSUME NEW u \in Workers, Granting(u)' PROVE Granting(u) /\ task'[u] = task[u]
    BY <1>1 DEF Alone, Granting
  <1>2. Types'
    BY DEF IInv, Types, Alone
  <1>3. TokensIssued'
    <2> SUFFICES ASSUME NEW h \in told PROVE h.token <= lastToken'
      BY DEF TokensIssued
    <2>1. h.token <= lastToken /\ h.token \in Nat
      BY DEF IInv, Types, TaskType, TokensIssued
    <2> QED BY <2>1, MaxTokensAssumption DEF IInv, Types
  <1>4. GrantsHeld'
    <2> SUFFICES ASSUME NEW u \in Workers, Granting(u)'
                 PROVE  /\ task'[u].token <= lastToken'
                        /\ task'[u] \in asked' \/ HasRow(task[u])'
      BY DEF GrantsHeld
    <2>1. Granting(u) /\ task'[u] = task[u]
      BY <1>1
    <2>2. task[u].token <= lastToken /\ task[u].token \in Nat
      BY <2>1 DEF IInv, Types, TaskType, GrantsHeld
    <2>3. task[u].token <= lastToken'
      BY <2>2, MaxTokensAssumption DEF IInv, Types
    <2> DEFINE h == task[u]
    <2>4. h \in asked \/ (Granted(h) /\ HasRow(h))
      BY <2>1 DEF Granted, IInv, GrantsHeld
    <2>5. h \in asked
          \/ (h.file \in files' => {r \in locks' : r.file = h.file /\ r.token = h.token} # {})
      BY <2>4 DEF HasRow, RowsNamed
    <2> QED BY <2>1, <2>3, <2>5 DEF HasRow, RowsNamed
  <1>5. TasksKnown'
    BY DEF IInv, TasksKnown, Alone
  <1>6. HolderKeepsLock'
    <2> SUFFICES ASSUME NEW h \in told \ asked PROVE HasRow(h)'
      BY DEF HolderKeepsLock, Held, HasRow
    <2>1. Granted(h) /\ HasRow(h)
      BY DEF Granted, IInv, HolderKeepsLock, Held, HasRow
    <2> QED BY <2>1
  <1> QED BY <1>2, <1>3, <1>4, <1>5, <1>6 DEF IInv

-----------------------------------------------------------------------------
(* The steps.                                                              *)

\* A request enters a worker; one that releases a lock ends its holding.
LEMMA HandleInv ==
    ASSUME IInv, NEW w \in Workers, Handle(w)
    PROVE  IInv'
  <1>1. PICK l \in {"acquire", "check", "release", "removeFile"}, d \in TaskType :
          /\ Dispatch(w, l, d)
          /\ IF l = "release" THEN d \in told /\ asked' = asked \cup {d} ELSE asked' = asked
    <2>1. told \subseteq TaskType /\ files \subseteq Files
      BY DEF IInv, Types
    <2>2. \A f \in Files : [file |-> f, token |-> 0] \in TaskType
      BY MaxTokensAssumption DEF TaskType
    <2> QED BY <2>1, <2>2 DEF Handle, HandleAcquireLock, HandleRenewLock, HandleReleaseLock,
               HandleRemoveFile
  <1>2. Alone(w) /\ pc'[w] = l /\ task'[w] = d
    BY <1>1 DEF IInv, Types, Alone, Dispatch, Goto, Labels
  <1>3. UNCHANGED <<now, files, locks, lastToken, posted, told>>
    BY <1>1 DEF Dispatch, server
  <1>4. asked \subseteq asked' /\ asked' \subseteq told
    BY <1>1 DEF IInv, Types
  <1>5. ASSUME NEW u \in Workers, Granting(u)' PROVE Granting(u) /\ task'[u] = task[u]
    BY <1>2, <1>5 DEF Alone, Granting
  <1>6. Types'
    BY <1>2, <1>3, <1>4 DEF IInv, Types, Alone
  <1>7. GrantsHeld'
    BY <1>3, <1>4, <1>5 DEF IInv, GrantsHeld, HasRow, RowsNamed
  <1>8. TasksKnown'
    <2> SUFFICES ASSUME NEW u \in Workers
                 PROVE  /\ pc'[u] = "answer" => task'[u] \in told
                        /\ pc'[u] \in {"release", "postUnlocked"} => task'[u] \in asked'
      BY <1>3 DEF TasksKnown
    <2>1. CASE u = w
      BY <1>1, <1>2, <2>1
    <2>2. CASE u # w
      BY <1>2, <1>4, <2>2 DEF IInv, TasksKnown, Alone
    <2> QED BY <2>1, <2>2
  <1>9. Rows' /\ TokensIssued' /\ HolderKeepsLock'
    BY <1>3, <1>4 DEF IInv, Rows, TokensIssued, HolderKeepsLock, Held, RowsNamed
  <1> QED BY <1>6, <1>7, <1>8, <1>9 DEF IInv

\* A new row has a token nobody has, for a file that had no row.
LEMMA AcquireInv ==
    ASSUME IInv, NEW w \in Workers, AcquireLock(w)
    PROVE  IInv'
  <1> DEFINE k == lastToken + 1
             f == task[w].file
  <1>1. /\ pc[w] = "acquire" /\ lastToken' = k /\ UNCHANGED <<now, files, posted, told, asked>>
        /\ lastToken \in Nat /\ k \in Nat /\ k \in 0..MaxTokens
    BY MaxTokensAssumption DEF IInv, Types, AcquireLock, history
  <1>2. CASE Finish(w) /\ UNCHANGED locks
    <2>1. Alone(w) /\ pc'[w] = "idle"
      BY <1>2, FinishFacts DEF IInv
    <2>2. \A h : HasRow(h) => HasRow(h)'
      BY <1>1, <1>2 DEF HasRow, RowsNamed
    <2>3. Rows'
      BY <1>1, <1>2 DEF IInv, Rows
    <2>4. now' \in Nat /\ files' \subseteq files /\ lastToken <= lastToken'
      BY <1>1 DEF IInv, Types
    <2> QED BY <1>1, <2>1, <2>2, <2>3, <2>4, QuietStep
  <1>3. CASE /\ CanLock(f)
             /\ locks' = locks \cup {[file |-> f, token |-> k, lease |-> now + Duration]}
             /\ task' = [task EXCEPT ![w].token = k]
             /\ Goto(w, "postLocked")
    <2> DEFINE new == [file |-> f, token |-> k, lease |-> now + Duration]
    <2>1. task[w] \in TaskType
      BY DEF IInv, Types
    <2>2. [task[w] EXCEPT !.token = k] \in TaskType
      BY <1>1, <2>1 DEF TaskType
    <2>3. /\ Alone(w) /\ pc'[w] = "postLocked" /\ task'[w] = [task[w] EXCEPT !.token = k]
      BY <1>3, <2>2 DEF IInv, Types, Alone, Goto, Labels
    <2>4. task'[w].file = f /\ task'[w].token = k
      BY <2>1, <2>3 DEF TaskType
    <2>5. new.file = f /\ new.token = k /\ new \in locks'
      BY <1>3
    <2>6. ASSUME NEW h, HasRow(h) PROVE HasRow(h)'
      BY <1>1, <1>3, <2>6 DEF HasRow, RowsNamed
    <2>7. Types'
      BY <1>1, <2>3 DEF IInv, Types, Alone
    <2>8. Rows'
      <3>1. locks' = locks \cup {new} /\ RowsOf(f) = {} /\ f \in Files
        BY <1>3 DEF CanLock, IInv, Types
      <3> HIDE DEF new
      <3>2. \A r, s \in locks' : r.file = s.file => r = s
        BY <2>5, <3>1 DEF IInv, Rows, RowsOf
      <3>3. \A r \in locks : r.file \in Files /\ r.token \in 0..k
        BY <1>1 DEF IInv, Rows
      <3>4. \A r \in locks' : r.file \in Files /\ r.token \in 0..k
        BY <1>1, <2>5, <3>1, <3>3
      <3> QED BY <1>1, <3>2, <3>4 DEF Rows
    <2>9. \A h \in told : h.token \in Nat /\ h.token <= lastToken
      BY DEF IInv, Types, TaskType, TokensIssued
    <2>10. TokensIssued'
      BY <1>1, <2>9 DEF TokensIssued
    <2>11. ASSUME NEW u \in Workers \ {w}, Granting(u)'
           PROVE  /\ Granting(u) /\ task'[u] = task[u] /\ task[u].token \in Nat
                  /\ task[u].token <= lastToken
      BY <2>3, <2>11 DEF Alone, Granting, IInv, Types, TaskType, GrantsHeld
    <2>12. GrantsHeld'
      <3> SUFFICES ASSUME NEW u \in Workers, Granting(u)'
                   PROVE  task'[u].token <= k /\ (task'[u] \in asked \/ HasRow(task[u])')
        BY <1>1 DEF GrantsHeld
      <3>1. CASE u = w
        <4>1. HasRow(task[w])'
          BY <2>4, <2>5 DEF HasRow, RowsNamed
        <4> QED BY <1>1, <2>4, <3>1, <4>1
      <3>2. CASE u # w
        <4>1. task'[u] = task[u] /\ task[u].token <= k /\ Granting(u)
          BY <1>1, <2>11, <3>2
        <4>2. task[u] \in asked \/ HasRow(task[u])
          BY <4>1 DEF IInv, GrantsHeld
        <4> DEFINE h == task[u]
        <4>3. HasRow(h) => (h.file \in files' => {r \in locks' : r.file = h.file /\ r.token = h.token} # {})
          BY <1>1, <1>3 DEF HasRow, RowsNamed
        <4> QED BY <4>1, <4>2, <4>3 DEF HasRow, RowsNamed
      <3> QED BY <3>1, <3>2
    <2>13. TasksKnown'
      BY <1>1, <2>3 DEF IInv, TasksKnown, Alone
    <2>14. HolderKeepsLock'
      BY <1>1, <2>6 DEF IInv, HolderKeepsLock, Held, HasRow
    <2> QED BY <2>7, <2>8, <2>10, <2>12, <2>13, <2>14 DEF IInv
  <1> QED BY <1>2, <1>3 DEF AcquireLock

\* The steps that leave the rows alone, or end a task without taking a row away
\* from a file that stays.
LEMMA QuietInv ==
    ASSUME IInv, NEW w \in Workers,
           CheckLease(w) \/ PostUnlocked(w) \/ RemoveFile(w) \/ CommitThrows(w)
    PROVE  IInv'
  <1>1. UNCHANGED <<now, lastToken, told, asked>> /\ files' \subseteq files
    BY DEF CheckLease, PostUnlocked, RemoveFile, CommitThrows, server, history
  <1>2. Alone(w) /\ pc'[w] \in {"idle", "renew"}
    <2>1. CASE Finish(w)
      BY <2>1, FinishFacts DEF IInv
    <2>2. CASE Goto(w, "renew") /\ task' = task
      BY <2>2, KeepFacts DEF IInv, Labels
    <2> QED BY <2>1, <2>2
            DEF CheckLease, PostUnlocked, RemoveFile, CommitThrows
  <1>3. locks' = locks \/ (locks' = locks \ RowsOf(task[w].file) /\ files' = files \ {task[w].file})
    BY DEF CheckLease, PostUnlocked, RemoveFile, CommitThrows, server
  <1>4. ASSUME NEW h, HasRow(h) PROVE HasRow(h)'
    BY <1>1, <1>3, <1>4 DEF HasRow, RowsNamed, RowsOf
  <1>5. Rows'
    BY <1>1, <1>3 DEF IInv, Rows
  <1>6. now' \in Nat /\ lastToken' \in 0..MaxTokens /\ lastToken <= lastToken'
    BY <1>1, MaxTokensAssumption DEF IInv, Types
  <1> QED BY <1>1, <1>2, <1>4, <1>5, <1>6, QuietStep

\* A renewal keeps the file and the token of the row it finds.
LEMMA RenewInv ==
    ASSUME IInv, NEW w \in Workers, RenewLock(w)
    PROVE  IInv'
  <1>1. UNCHANGED <<now, files, lastToken, told, asked>> /\ Finish(w)
    BY DEF RenewLock, history
  <1>2. Alone(w) /\ pc'[w] = "idle"
    BY <1>1, FinishFacts DEF IInv
  <1>3. Rows' /\ \A h : HasRow(h) => HasRow(h)'
    <2>1. CASE locks' = locks
      BY <1>1, <2>1 DEF IInv, Rows, HasRow, RowsNamed
    <2>2. CASE \E r \in locks, t \in {now + Duration} :
                 locks' = (locks \ {r}) \cup {[r EXCEPT !.lease = t]}
      <3>1. PICK r \in locks, t \in {now + Duration} :
                   locks' = (locks \ {r}) \cup {[r EXCEPT !.lease = t]}
        BY <2>2
      <3> DEFINE new == [r EXCEPT !.lease = t]
      <3>2. new.file = r.file /\ new.token = r.token
        OBVIOUS
      <3>3. locks' = (locks \ {r}) \cup {new}
        BY <3>1
      <3> HIDE DEF new
      <3>4. Rows'
        BY <1>1, <3>2, <3>3 DEF IInv, Rows
      <3>5. ASSUME NEW h, HasRow(h) PROVE HasRow(h)'
        BY <1>1, <3>2, <3>3, <3>5 DEF HasRow, RowsNamed
      <3> QED BY <3>4, <3>5
    <2> QED BY <2>1, <2>2 DEF RenewLock, Renewed, RowsNamed, NewLease
  <1>4. now' \in Nat /\ lastToken' \in 0..MaxTokens /\ lastToken <= lastToken'
    BY <1>1, MaxTokensAssumption DEF IInv, Types
  <1> QED BY <1>1, <1>2, <1>3, <1>4, QuietStep

\* A release takes away the row of the lock it names and no other.
LEMMA ReleaseInv ==
    ASSUME IInv, NEW w \in Workers, ReleaseLock(w)
    PROVE  IInv'
  <1>1. /\ pc[w] = "release" /\ UNCHANGED <<now, files, lastToken, told, asked>>
        /\ locks' = locks \ RowsNamed(task[w].file, task[w].token)
    BY DEF ReleaseLock, Unlocked, history
  <1>2. /\ Alone(w) /\ pc'[w] \in {"idle", "postUnlocked"}
        /\ pc'[w] = "postUnlocked" => task'[w] = task[w]
    BY FinishFacts, KeepFacts DEF IInv, ReleaseLock, Labels
  <1>3. ASSUME NEW h, Granted(h), HasRow(h) PROVE HasRow(h)'
    <2>1. task[w] \in asked /\ task[w] \in TaskType
      BY <1>1 DEF IInv, TasksKnown, Types
    <2>2. h # task[w] /\ h \in TaskType
      BY <1>3, <2>1 DEF Granted, IInv, Types
    <2>3. ~(h.file = task[w].file /\ h.token = task[w].token)
      BY <2>1, <2>2 DEF TaskType
    <2> QED BY <1>1, <1>3, <2>3 DEF HasRow, RowsNamed
  <1>4. Rows'
    BY <1>1 DEF IInv, Rows
  <1>5. now' \in Nat /\ lastToken' \in 0..MaxTokens /\ lastToken <= lastToken'
    BY <1>1, MaxTokensAssumption DEF IInv, Types
  <1>6. task[w] \in asked
    BY <1>1 DEF IInv, TasksKnown
  <1> QED BY <1>1, <1>2, <1>3, <1>4, <1>5, <1>6, QuietStep

\* A step that tells a client of a lock that has its row, or was asked to be
\* released, and grants nothing new.
LEMMA TellStep ==
    ASSUME IInv, NEW w \in Workers, Alone(w), NEW h \in TaskType,
           UNCHANGED <<now, files, locks, lastToken, asked>>, told' = told \cup {h},
           h.token <= lastToken, h \in asked \/ HasRow(h),
           \/ pc'[w] = "idle"
           \/ pc'[w] = "answer" /\ pc[w] = "postLocked" /\ task'[w] = h /\ task[w] = h
           \/ pc'[w] = pc[w] /\ task'[w] = task[w]
    PROVE  IInv'
  <1>1. ASSUME NEW u \in Workers, Granting(u)' PROVE Granting(u) /\ task'[u] = task[u]
    BY <1>1 DEF Alone, Granting
  <1>2. Types'
    BY DEF IInv, Types, Alone
  <1>3. Rows' /\ TokensIssued'
    BY DEF IInv, Rows, TokensIssued
  <1>4. GrantsHeld'
    BY <1>1 DEF IInv, GrantsHeld, HasRow, RowsNamed
  <1>5. TasksKnown'
    BY DEF IInv, TasksKnown, Alone
  <1>6. HolderKeepsLock'
    BY DEF IInv, HolderKeepsLock, Held, HasRow, RowsNamed
  <1> QED BY <1>2, <1>3, <1>4, <1>5, <1>6 DEF IInv

\* The event and the answer name a lock that was granted, getActiveLock one that
\* has its row.
LEMMA TellInv ==
    ASSUME IInv, NEW w \in Workers, PostLocked(w) \/ Answer(w) \/ GetActiveLock(w)
    PROVE  IInv'
  <1>1. CASE PostLocked(w) \/ Answer(w)
    <2>1. /\ Granting(w) /\ UNCHANGED <<now, files, locks, lastToken, asked>>
          /\ told' = told \cup {task[w]}
      BY <1>1 DEF PostLocked, Answer, Granting, server
    <2>2. /\ task[w] \in TaskType /\ task[w].token <= lastToken
          /\ task[w] \in asked \/ HasRow(task[w])
      BY <2>1 DEF IInv, Types, GrantsHeld
    <2>3. CASE PostLocked(w)
      <3>1. Alone(w) /\ pc'[w] = "answer" /\ pc[w] = "postLocked" /\ task'[w] = task[w]
        BY <2>3, KeepFacts DEF IInv, PostLocked, Labels
      <3> QED BY <2>1, <2>2, <3>1, TellStep
    <2>4. CASE Answer(w)
      <3>1. Alone(w) /\ pc'[w] = "idle"
        BY <2>4, FinishFacts DEF IInv, Answer
      <3> QED BY <2>1, <2>2, <3>1, TellStep
    <2> QED BY <1>1, <2>3, <2>4
  <1>2. CASE GetActiveLock(w)
    <2>1. PICK r \in locks : told' = told \cup {[file |-> r.file, token |-> r.token]}
      BY <1>2 DEF GetActiveLock
    <2> DEFINE h == [file |-> r.file, token |-> r.token]
    <2>2. h \in TaskType /\ h.token <= lastToken /\ HasRow(h)
      BY MaxTokensAssumption DEF IInv, Types, Rows, TaskType, HasRow, RowsNamed
    <2>3. UNCHANGED <<now, files, locks, lastToken, asked, pc, task>>
      BY <1>2 DEF GetActiveLock, server
    <2>4. Alone(w) /\ pc'[w] = pc[w] /\ task'[w] = task[w]
      BY <2>3 DEF IInv, Types, Alone
    <2> QED BY <2>1, <2>2, <2>3, <2>4, TellStep
  <1> QED BY <1>1, <1>2

\* After a restart the rows, and what the clients know, are as they were.
LEMMA RestartInv ==
    ASSUME IInv, Restart
    PROVE  IInv'
  <1>1. NoTask \in TaskType
    BY MaxTokensAssumption DEF NoTask, TaskType
  <1>2. UNCHANGED <<now, files, locks, lastToken, told, asked>>
        /\ \A w \in Workers : pc'[w] = "idle"
    BY DEF Restart, server, history
  <1>3. Types'
    BY <1>1, <1>2 DEF IInv, Types, Restart, Labels
  <1> QED BY <1>2, <1>3 DEF IInv, Rows, TokensIssued, GrantsHeld, Granting,
              TasksKnown, HolderKeepsLock, Held, RowsNamed

LEMMA NextInv == IInv /\ [Next]_vars => IInv'
  <1> SUFFICES ASSUME IInv, [Next]_vars PROVE IInv'
    OBVIOUS
  <1>1. CASE Tick \/ UNCHANGED vars
    <2>1. UNCHANGED <<files, locks, lastToken, pc, task, told, asked>> /\ now' \in Nat
      BY <1>1 DEF IInv, Types, Tick, vars, server, history
    <2> QED BY <2>1 DEF IInv, Types, Rows, TokensIssued, GrantsHeld,
                Granting, HasRow, TasksKnown, HolderKeepsLock, Held, RowsNamed
  <1>2. CASE Restart
    BY <1>2, RestartInv
  <1>3. ASSUME NEW w \in Workers, Handle(w) \/ Step(w) PROVE IInv'
    BY <1>3, HandleInv, AcquireInv, QuietInv, RenewInv, ReleaseInv, TellInv DEF Step
  <1> QED BY <1>1, <1>2, <1>3 DEF Next

LEMMA InitInv == Init => IInv
  BY MaxTokensAssumption
     DEF Init, IInv, Types, TaskType, NoTask, Labels, Rows, TokensIssued, GrantsHeld,
         Granting, TasksKnown, HolderKeepsLock, Held

LEMMA Invariant == Spec => []IInv
  BY InitInv, NextInv, PTL DEF Spec

-----------------------------------------------------------------------------
\* A lock whose token a client was told, in an answer, an event or as the active
\* lock, has its row until the file goes or somebody asks to release it, whatever
\* is sent with other tokens.
THEOREM HoldersKeepLocks == Spec => []HolderKeepsLock
  <1>1. IInv => HolderKeepsLock
    BY DEF IInv
  <1> QED BY Invariant, <1>1, PTL

\* Two clients never hold the lock of a file that exists.
THEOREM HoldersAreAlone == Spec => []OneHolder
  <1>1. IInv => OneHolder
    <2> SUFFICES ASSUME IInv, NEW g \in Held, NEW h \in Held, g.file = h.file, g.file \in files
                 PROVE  g = h
      BY DEF OneHolder
    <2>1. PICK r \in locks : r.file = g.file /\ r.token = g.token
      BY DEF IInv, HolderKeepsLock, RowsNamed
    <2>2. PICK s \in locks : s.file = h.file /\ s.token = h.token
      BY DEF IInv, HolderKeepsLock, RowsNamed
    <2>3. r = s
      BY <2>1, <2>2 DEF IInv, Rows
    <2>4. g \in TaskType /\ h \in TaskType
      BY DEF IInv, Types, Held
    <2> QED BY <2>1, <2>2, <2>3, <2>4 DEF TaskType
  <1> QED BY Invariant, <1>1, PTL

\* Only the renewal a lock's own token asks for changes its lease: a renewal that
\* has passed its check finds no row when another token has replaced its own.
THEOREM LeaseChangedByItsToken == Spec => RenewsItsOwn
  <1> DEFINE Own(r, s) == \E w \in Workers : pc[w] = "renew" /\ pc'[w] = "idle"
                                            /\ task[w].file = r.file /\ task[w].token = r.token
             Same(r, s) == r.file = s.file /\ r.token = s.token /\ r.lease # s.lease
  <1>1. ASSUME IInv, [Next]_vars, NEW r \in locks, NEW s \in locks', Same(r, s)
        PROVE  Own(r, s)
    <2>1. s \notin locks
      BY <1>1 DEF IInv, Rows
    <2>2. PICK w \in Workers : AcquireLock(w) \/ RenewLock(w)
      BY <1>1, <2>1 DEF Next, Tick, Restart, vars, server, Handle, HandleAcquireLock,
         HandleRenewLock, HandleReleaseLock, HandleRemoveFile, Dispatch, Step, PostLocked, Answer,
         GetActiveLock, CheckLease, ReleaseLock, PostUnlocked, RemoveFile, CommitThrows
    <2>3. CASE AcquireLock(w)
      <3>1. CanLock(task[w].file) /\ s.file = task[w].file
        BY <2>1, <2>3 DEF AcquireLock
      <3> QED BY <1>1, <3>1 DEF CanLock, RowsOf
    <2>4. CASE RenewLock(w)
      <3>1. pc[w] = "renew" /\ pc'[w] = "idle"
        BY <1>1, <2>4, FinishFacts DEF IInv, RenewLock
      <3>2. PICK q \in RowsNamed(task[w].file, task[w].token), t \in {now + Duration} :
                    locks' = (locks \ {q}) \cup {[q EXCEPT !.lease = t]}
        BY <2>1, <2>4 DEF RenewLock, Renewed, NewLease
      <3>3. s = [q EXCEPT !.lease = t]
        BY <2>1, <3>2
      <3>4. s.file = q.file /\ s.token = q.token
        BY <3>3
      <3> QED BY <1>1, <3>1, <3>2, <3>4 DEF RowsNamed
    <2> QED BY <2>2, <2>3, <2>4
  <1>2. IInv /\ [Next]_vars => [\A r \in locks, s \in locks' : Same(r, s) => Own(r, s)]_vars
    BY <1>1
  <1> QED BY <1>2, Invariant, PTL DEF Spec, RenewsItsOwn

-----------------------------------------------------------------------------
(* The order of the events of one lock.                                    *)

Event == [kind : {"fileLocked", "fileUnlocked"}, lock : TaskType]

Unlock(h) == [kind |-> "fileUnlocked", lock |-> h]

\* A lock that has been released: its row is gone and its token never comes back.
GoneIn(h, last, rows) ==
    h.token <= last /\ \A r \in rows : ~(r.file = h.file /\ r.token = h.token)
Gone(h) == GoneIn(h, lastToken, locks)

\* One task found the row of a lock when it released it, and no other ever will.
ReleasedOnce ==
    /\ \A i \in DOMAIN posted : posted[i].kind = "fileUnlocked" => Gone(posted[i].lock)
    /\ \A w \in Workers : pc[w] = "postUnlocked" =>
           Gone(task[w]) /\ \A i \in DOMAIN posted : posted[i] # Unlock(task[w])
    /\ \A u, w \in Workers :
           pc[u] = "postUnlocked" /\ pc[w] = "postUnlocked" /\ task[u] = task[w] => u = w

\* A client learns a token with the FileLocked or after it, or as early says.
EventInv ==
    /\ posted \in Seq(Event)
    /\ LockedThenUnlocked
    /\ \A h \in told : Announced(h) \/ h \in early
    /\ ReleasedOnce

\* The bus does not take an event back.
LEMMA AnnouncedStays ==
    ASSUME posted \in Seq(Event), NEW h, Announced(h),
           posted' = posted \/ \E e : posted' = Append(posted, e)
    PROVE  Announced(h)'
  <1>1. PICK j \in DOMAIN posted : posted[j] = [kind |-> "fileLocked", lock |-> h]
    BY DEF Announced
  <1>2. j \in DOMAIN posted' /\ posted'[j] = posted[j]
    BY <1>1
  <1> QED BY <1>1, <1>2 DEF Announced

\* New rows have new tokens, and a renewal keeps the names of the rows.
LEMMA GoneStays ==
    ASSUME IInv, [Next]_vars, NEW h \in TaskType, Gone(h)
    PROVE  GoneIn(h, lastToken', locks')
  <1>1. h.token \in Nat /\ lastToken \in Nat /\ h.token <= lastToken
    BY MaxTokensAssumption DEF TaskType, Gone, GoneIn, IInv, Types
  <1>2. CASE UNCHANGED <<locks, lastToken>> \/ (locks' \subseteq locks /\ lastToken' = lastToken)
    BY <1>1, <1>2 DEF Gone, GoneIn
  <1>3. ASSUME NEW w \in Workers, AcquireLock(w) PROVE GoneIn(h, lastToken', locks')
    <2> DEFINE new == [file |-> task[w].file, token |-> lastToken + 1, lease |-> now + Duration]
    <2>1. lastToken' = lastToken + 1 /\ (locks' = locks \/ locks' = locks \cup {new})
      BY <1>3 DEF AcquireLock
    <2>2. new.token = lastToken + 1
      OBVIOUS
    <2> HIDE DEF new
    <2>3. h.token <= lastToken' /\ new.token # h.token
      BY <1>1, <2>1, <2>2
    <2>4. \A r \in locks' : ~(r.file = h.file /\ r.token = h.token)
      BY <2>1, <2>3 DEF Gone, GoneIn
    <2> QED BY <2>3, <2>4 DEF Gone, GoneIn
  <1>4. ASSUME NEW w \in Workers, RenewLock(w) PROVE GoneIn(h, lastToken', locks')
    <2>1. lastToken' = lastToken
      BY <1>4 DEF RenewLock
    <2>2. CASE locks' = locks
      BY <1>2, <2>1, <2>2
    <2>3. CASE \E r \in locks, t \in {now + Duration} :
                 locks' = (locks \ {r}) \cup {[r EXCEPT !.lease = t]}
      <3>1. PICK r \in locks, t \in {now + Duration} :
                   locks' = (locks \ {r}) \cup {[r EXCEPT !.lease = t]}
        BY <2>3
      <3> DEFINE new == [r EXCEPT !.lease = t]
      <3>2. new.file = r.file /\ new.token = r.token /\ locks' = (locks \ {r}) \cup {new}
        BY <3>1
      <3> HIDE DEF new
      <3> QED BY <1>1, <2>1, <3>2 DEF Gone, GoneIn
    <2> QED BY <1>4, <2>2, <2>3 DEF RenewLock, Renewed, RowsNamed, NewLease
  <1>5. CASE UNCHANGED vars \/ Tick \/ Restart
    BY <1>2, <1>5 DEF vars, server, Tick, Restart
  <1>6. ASSUME NEW w \in Workers, Handle(w)
                 \/ PostLocked(w) \/ Answer(w) \/ GetActiveLock(w) \/ CheckLease(w)
                 \/ ReleaseLock(w) \/ PostUnlocked(w) \/ RemoveFile(w) \/ CommitThrows(w)
        PROVE  GoneIn(h, lastToken', locks')
    <2>1. locks' \subseteq locks /\ lastToken' = lastToken
      BY <1>6 DEF server, Handle, HandleAcquireLock, HandleRenewLock, HandleReleaseLock,
         HandleRemoveFile, Dispatch, PostLocked, Answer, GetActiveLock, CheckLease, ReleaseLock,
         PostUnlocked, RemoveFile, CommitThrows
    <2> QED BY <1>2, <2>1
  <1> QED BY <1>3, <1>4, <1>5, <1>6 DEF Next, Step

LEMMA PostedTypes ==
    ASSUME EventInv, NEW i \in DOMAIN posted
    PROVE  posted[i].lock \in TaskType
  <1>1. posted \in Seq(Event)
    BY DEF EventInv
  <1>2. posted[i] \in Event
    BY <1>1
  <1> QED BY <1>2 DEF Event

\* A step that posts nothing and leaves no worker with a release to post.
LEMMA SilentStep ==
    ASSUME IInv, EventInv, [Next]_vars, posted' = posted, early \subseteq early',
           \A h \in told' : h \in told \/ Announced(h) \/ h \in early',
           \A w \in Workers : pc'[w] = "postUnlocked" =>
               pc[w] = "postUnlocked" /\ task'[w] = task[w]
    PROVE  EventInv'
  <1>1. \A h \in TaskType : Gone(h) => GoneIn(h, lastToken', locks')
    BY GoneStays
  <1>2. LockedThenUnlocked'
    BY DEF EventInv, LockedThenUnlocked
  <1>3. \A h \in told' : Announced(h)' \/ h \in early'
    BY DEF EventInv, Announced
  <1>4. \A i \in DOMAIN posted : posted[i].lock \in TaskType
    BY PostedTypes
  <1>5. \A w \in Workers : task[w] \in TaskType
    BY DEF IInv, Types
  <1>6. ReleasedOnce'
    BY <1>1, <1>4, <1>5 DEF EventInv, ReleasedOnce, Gone
  <1> QED BY <1>2, <1>3, <1>6 DEF EventInv

\* A release that found its row leaves one event to post.
LEMMA ReleaseEvent ==
    ASSUME IInv, EventInv, [Next]_vars, NEW w \in Workers, ReleaseLock(w)
    PROVE  EventInv'
  <1>1. /\ UNCHANGED <<posted, told, early, lastToken>> /\ pc[w] = "release"
        /\ locks' = locks \ RowsNamed(task[w].file, task[w].token)
    BY DEF ReleaseLock, Unlocked, history
  <1>2. \A u \in Workers \ {w} : pc'[u] = pc[u] /\ task'[u] = task[u]
    BY FinishFacts, KeepFacts DEF IInv, Types, ReleaseLock, Labels, Alone
  <1>3. CASE pc'[w] # "postUnlocked"
    BY <1>1, <1>2, <1>3, SilentStep
  <1>4. CASE pc'[w] = "postUnlocked"
    <2>1. RowsNamed(task[w].file, task[w].token) # {} /\ task'[w] = task[w]
      BY <1>4, FinishFacts DEF ReleaseLock, Unlocked, IInv
    <2>2. ~Gone(task[w])
      BY <2>1 DEF Gone, GoneIn, RowsNamed
    <2>3. task[w] \in TaskType /\ task[w].token <= lastToken
      BY <1>1 DEF IInv, Types, TasksKnown, TokensIssued
    <2>4. GoneIn(task[w], lastToken', locks')
      BY <1>1, <2>3 DEF GoneIn, RowsNamed
    <2>5. \A i \in DOMAIN posted : posted[i] # Unlock(task[w])
      <3> SUFFICES ASSUME NEW i \in DOMAIN posted, posted[i] = Unlock(task[w]) PROVE FALSE
        OBVIOUS
      <3>1. posted[i].kind = "fileUnlocked" /\ posted[i].lock = task[w]
        BY DEF Unlock
      <3> QED BY <2>2, <3>1 DEF EventInv, ReleasedOnce
    <2>6. \A u \in Workers : pc[u] = "postUnlocked" => task[u] # task[w]
      BY <2>2 DEF EventInv, ReleasedOnce
    <2>7. \A h \in TaskType : Gone(h) => GoneIn(h, lastToken', locks')
      BY GoneStays
    <2>8. \A i \in DOMAIN posted : posted[i].lock \in TaskType
      BY PostedTypes
    <2>9. \A u \in Workers : task[u] \in TaskType
      BY DEF IInv, Types
    <2>10. \A i \in DOMAIN posted' : posted'[i].kind = "fileUnlocked" => Gone(posted[i].lock)'
      BY <1>1, <2>7, <2>8 DEF EventInv, ReleasedOnce, Gone
    <2>11. ASSUME NEW u \in Workers, pc'[u] = "postUnlocked"
           PROVE  Gone(task[u])' /\ \A i \in DOMAIN posted' : posted'[i] # Unlock(task'[u])
      <3>1. CASE u = w
        BY <1>1, <2>1, <2>4, <2>5, <3>1 DEF Gone
      <3>2. CASE u # w
        BY <1>1, <1>2, <2>7, <2>9, <2>11, <3>2 DEF EventInv, ReleasedOnce, Gone
      <3> QED BY <3>1, <3>2
    <2>12. \A u, v \in Workers :
              pc'[u] = "postUnlocked" /\ pc'[v] = "postUnlocked" /\ task'[u] = task'[v] => u = v
      BY <1>2, <2>1, <2>6 DEF EventInv, ReleasedOnce
    <2>13. ReleasedOnce'
      BY <2>10, <2>11, <2>12 DEF ReleasedOnce, Unlock
    <2>14. LockedThenUnlocked' /\ \A h \in told' : Announced(h)' \/ h \in early'
      BY <1>1 DEF EventInv, LockedThenUnlocked, Announced
    <2> QED BY <1>1, <2>13, <2>14 DEF EventInv
  <1> QED BY <1>3, <1>4

\* What a new event leaves true of the earlier ones.
LEMMA AppendFacts ==
    ASSUME posted \in Seq(Event), NEW e \in Event, posted' = Append(posted, e)
    PROVE  /\ posted' \in Seq(Event) /\ Len(posted') = Len(posted) + 1 /\ Len(posted) \in Nat
           /\ DOMAIN posted = 1..Len(posted) /\ DOMAIN posted' = 1..(Len(posted) + 1)
           /\ \A i \in 1..Len(posted) : posted'[i] = posted[i]
           /\ posted'[Len(posted) + 1] = e
  OBVIOUS

LEMMA PostLockedEvent ==
    ASSUME IInv, EventInv, [Next]_vars, NEW w \in Workers, PostLocked(w)
    PROVE  EventInv'
  <1> DEFINE e == [kind |-> "fileLocked", lock |-> task[w]]
             n == Len(posted)
  <1>1. /\ posted' = Append(posted, e) /\ UNCHANGED <<task, early>>
        /\ told' = told \cup {task[w]} /\ pc'[w] = "answer"
        /\ \A u \in Workers \ {w} : pc'[u] = pc[u]
    BY DEF PostLocked, Goto, IInv, Types
  <1>2. e \in Event /\ e.kind = "fileLocked" /\ \A h : e # Unlock(h)
    BY DEF Event, IInv, Types, Unlock
  <1> HIDE DEF e
  <1>3. /\ posted' \in Seq(Event) /\ n \in Nat
        /\ DOMAIN posted = 1..n /\ DOMAIN posted' = 1..(n + 1)
        /\ \A i \in 1..n : posted'[i] = posted[i]
        /\ posted'[n + 1] = e
    BY <1>1, <1>2, AppendFacts DEF EventInv
  <1> HIDE DEF n
  <1>4. Announced(task[w])'
    BY <1>1, <1>3 DEF Announced, e
  <1>5. ASSUME NEW i \in DOMAIN posted', posted'[i].kind = "fileUnlocked"
        PROVE  i \in 1..n /\ posted'[i] = posted[i]
    BY <1>2, <1>3, <1>5
  <1>6. LockedThenUnlocked'
    <2> SUFFICES ASSUME NEW i \in DOMAIN posted', posted'[i].kind = "fileUnlocked"
                 PROVE  /\ \A j \in DOMAIN posted' : posted'[j] = posted'[i] => j = i
                        /\ \/ posted'[i].lock \in early'
                           \/ \E j \in 1..(i - 1) :
                                posted'[j] = [kind |-> "fileLocked", lock |-> posted'[i].lock]
      BY DEF LockedThenUnlocked
    <2>1. i \in 1..n /\ posted'[i] = posted[i]
      BY <1>5
    <2>2. ASSUME NEW j \in DOMAIN posted', posted'[j] = posted'[i] PROVE j = i
      <3>1. j \in 1..n /\ posted'[j] = posted[j]
        BY <1>5, <2>2
      <3> QED BY <1>3, <2>1, <2>2, <3>1 DEF EventInv, LockedThenUnlocked
    <2>3. \/ posted[i].lock \in early
          \/ \E j \in 1..(i - 1) : posted[j] = [kind |-> "fileLocked", lock |-> posted[i].lock]
      BY <1>3, <2>1 DEF EventInv, LockedThenUnlocked
    <2>4. \A j \in 1..(i - 1) : posted'[j] = posted[j]
      BY <1>3, <2>1
    <2> QED BY <1>1, <2>1, <2>2, <2>3, <2>4
  <1>7. \A h : Announced(h) => Announced(h)'
    BY <1>1, AnnouncedStays DEF EventInv
  <1>8. \A h \in told' : Announced(h)' \/ h \in early'
    BY <1>1, <1>4, <1>7 DEF EventInv
  <1>9. \A h \in TaskType : Gone(h) => GoneIn(h, lastToken', locks')
    BY GoneStays
  <1>10. (\A i \in DOMAIN posted : posted[i].lock \in TaskType) /\ \A u \in Workers : task[u] \in TaskType
    BY PostedTypes DEF IInv, Types
  <1>11. ReleasedOnce'
    <2>1. ASSUME NEW i \in DOMAIN posted', posted'[i].kind = "fileUnlocked"
          PROVE  Gone(posted[i].lock)'
      BY <1>3, <1>5, <1>9, <1>10, <2>1 DEF EventInv, ReleasedOnce, Gone
    <2>2. ASSUME NEW u \in Workers, pc'[u] = "postUnlocked"
          PROVE  pc[u] = "postUnlocked" /\ task'[u] = task[u]
      BY <1>1, <2>2
    <2>3. ASSUME NEW u \in Workers, pc'[u] = "postUnlocked"
          PROVE  Gone(task[u])' /\ \A i \in DOMAIN posted' : posted'[i] # Unlock(task'[u])
      <3>1. Gone(task[u])'
        BY <1>9, <1>10, <2>2, <2>3 DEF EventInv, ReleasedOnce, Gone
      <3>2. \A i \in 1..n : posted[i] # Unlock(task[u])
        BY <1>3, <2>2, <2>3 DEF EventInv, ReleasedOnce
      <3> QED BY <1>2, <1>3, <2>2, <2>3, <3>1, <3>2
    <2>4. \A u, v \in Workers :
              pc'[u] = "postUnlocked" /\ pc'[v] = "postUnlocked" /\ task'[u] = task'[v] => u = v
      BY <2>2 DEF EventInv, ReleasedOnce
    <2> QED BY <2>1, <2>3, <2>4 DEF ReleasedOnce, Unlock
  <1> QED BY <1>3, <1>6, <1>8, <1>11 DEF EventInv

\* The lock of the event was told, and no event like it is on the bus.
LEMMA PostUnlockedEvent ==
    ASSUME IInv, EventInv, [Next]_vars, NEW w \in Workers, PostUnlocked(w)
    PROVE  EventInv'
  <1> DEFINE e == Unlock(task[w])
             n == Len(posted)
  <1>1. /\ posted' = Append(posted, e) /\ UNCHANGED <<told, early>> /\ pc[w] = "postUnlocked"
        /\ pc'[w] = "idle" /\ \A u \in Workers \ {w} : pc'[u] = pc[u] /\ task'[u] = task[u]
    BY FinishFacts DEF PostUnlocked, IInv, Alone, Unlock
  <1>2. e \in Event /\ e.lock = task[w] /\ \A h : e = Unlock(h) => h = task[w]
    BY DEF Event, IInv, Types, Unlock
  <1> HIDE DEF e
  <1>3. /\ posted' \in Seq(Event) /\ n \in Nat
        /\ DOMAIN posted = 1..n /\ DOMAIN posted' = 1..(n + 1)
        /\ \A i \in 1..n : posted'[i] = posted[i]
        /\ posted'[n + 1] = e
    BY <1>1, <1>2, AppendFacts DEF EventInv
  <1> HIDE DEF n
  <1>4. \A i \in 1..n : posted[i] # e
    BY <1>1, <1>3 DEF EventInv, ReleasedOnce, e
  <1>5. task[w] \in early \/ \E j \in 1..n : posted[j] = [kind |-> "fileLocked", lock |-> task[w]]
    <2>1. task[w] \in told
      BY <1>1 DEF IInv, TasksKnown, Types
    <2> QED BY <1>3, <2>1 DEF EventInv, Announced
  <1>6. LockedThenUnlocked'
    <2> SUFFICES ASSUME NEW i \in DOMAIN posted', posted'[i].kind = "fileUnlocked"
                 PROVE  /\ \A j \in DOMAIN posted' : posted'[j] = posted'[i] => j = i
                        /\ \/ posted'[i].lock \in early'
                           \/ \E j \in 1..(i - 1) :
                                posted'[j] = [kind |-> "fileLocked", lock |-> posted'[i].lock]
      BY DEF LockedThenUnlocked
    <2>1. CASE i = n + 1
      <3>1. \A j \in DOMAIN posted' : posted'[j] = posted'[i] => j = i
        BY <1>3, <1>4, <2>1
      <3>2. i - 1 = n /\ posted'[i].lock = task[w]
        BY <1>2, <1>3, <2>1
      <3>3. task[w] \in early' \/ \E j \in 1..n : posted'[j] = [kind |-> "fileLocked", lock |-> task[w]]
        BY <1>1, <1>3, <1>5
      <3> QED BY <3>1, <3>2, <3>3
    <2>2. CASE i \in 1..n
      <3>1. posted'[i] = posted[i]
        BY <1>3, <2>2
      <3>2. \A j \in DOMAIN posted' : posted'[j] = posted'[i] => j = i
        <4> SUFFICES ASSUME NEW j \in DOMAIN posted', posted'[j] = posted[i] PROVE j = i
          BY <3>1
        <4>1. j \in 1..n
          BY <1>3, <1>4, <2>2
        <4>2. posted[j] = posted[i]
          BY <1>3, <4>1
        <4> QED BY <1>3, <2>2, <3>1, <4>1, <4>2 DEF EventInv, LockedThenUnlocked
      <3>3. \/ posted[i].lock \in early
            \/ \E j \in 1..(i - 1) : posted[j] = [kind |-> "fileLocked", lock |-> posted[i].lock]
        BY <1>3, <2>2, <3>1 DEF EventInv, LockedThenUnlocked
      <3>4. \A j \in 1..(i - 1) : posted'[j] = posted[j]
        BY <1>3, <2>2
      <3> QED BY <1>1, <3>1, <3>2, <3>3, <3>4
    <2> QED BY <1>3, <2>1, <2>2
  <1>7. \A h : Announced(h) => Announced(h)'
    BY <1>1, AnnouncedStays DEF EventInv
  <1>8. \A h \in told' : Announced(h)' \/ h \in early'
    BY <1>1, <1>7 DEF EventInv
  <1>9. \A h \in TaskType : Gone(h) => GoneIn(h, lastToken', locks')
    BY GoneStays
  <1>10. (\A i \in DOMAIN posted : posted[i].lock \in TaskType) /\ \A u \in Workers : task[u] \in TaskType
    BY PostedTypes DEF IInv, Types
  <1>11. ReleasedOnce'
    <2>1. ASSUME NEW i \in DOMAIN posted', posted'[i].kind = "fileUnlocked"
          PROVE  Gone(posted[i].lock)'
      <3>1. CASE i \in 1..n
        BY <1>3, <1>9, <1>10, <2>1, <3>1 DEF EventInv, ReleasedOnce, Gone
      <3>2. CASE i = n + 1
        BY <1>1, <1>2, <1>3, <1>9, <1>10, <3>2 DEF EventInv, ReleasedOnce, Gone
      <3> QED BY <1>3, <3>1, <3>2
    <2>2. ASSUME NEW u \in Workers, pc'[u] = "postUnlocked"
          PROVE  u # w /\ pc[u] = "postUnlocked" /\ task'[u] = task[u] /\ task[u] # task[w]
      BY <1>1, <2>2 DEF EventInv, ReleasedOnce
    <2>3. ASSUME NEW u \in Workers, pc'[u] = "postUnlocked"
          PROVE  Gone(task[u])' /\ \A i \in DOMAIN posted' : posted'[i] # Unlock(task'[u])
      <3>1. Gone(task[u])'
        BY <1>9, <1>10, <2>2, <2>3 DEF EventInv, ReleasedOnce, Gone
      <3>2. \A i \in 1..n : posted[i] # Unlock(task[u])
        BY <1>3, <2>2, <2>3 DEF EventInv, ReleasedOnce
      <3>3. e # Unlock(task[u])
        BY <1>2, <2>2, <2>3
      <3> QED BY <1>3, <2>2, <2>3, <3>1, <3>2, <3>3
    <2>4. \A u, v \in Workers :
              pc'[u] = "postUnlocked" /\ pc'[v] = "postUnlocked" /\ task'[u] = task'[v] => u = v
      BY <2>2 DEF EventInv, ReleasedOnce
    <2> QED BY <2>1, <2>3, <2>4 DEF ReleasedOnce, Unlock
  <1> QED BY <1>3, <1>6, <1>8, <1>11 DEF EventInv

LEMMA NextEvent == IInv /\ EventInv /\ [Next]_vars => EventInv'
  <1> SUFFICES ASSUME IInv, EventInv, [Next]_vars PROVE EventInv'
    OBVIOUS
  <1>1. CASE UNCHANGED vars \/ Tick \/ Restart
    BY <1>1, SilentStep DEF vars, server, history, Tick, Restart
  <1>2. ASSUME NEW w \in Workers, Handle(w) PROVE EventInv'
    <2>1. UNCHANGED <<posted, told, early>> /\ pc'[w] # "postUnlocked"
          /\ \A u \in Workers \ {w} : pc'[u] = pc[u] /\ task'[u] = task[u]
      BY <1>2 DEF Handle, HandleAcquireLock, HandleRenewLock, HandleReleaseLock, HandleRemoveFile,
         Dispatch, Goto, IInv, Types
    <2> QED BY <2>1, SilentStep
  <1>3. ASSUME NEW w \in Workers,
               AcquireLock(w) \/ CheckLease(w) \/ RenewLock(w) \/ RemoveFile(w) \/ CommitThrows(w)
        PROVE  EventInv'
    <2>1. UNCHANGED <<posted, told, early>>
      BY <1>3 DEF AcquireLock, CheckLease, RenewLock, RemoveFile, CommitThrows, history
    <2>2. Finish(w) \/ \E l \in {"postLocked", "renew"} : Goto(w, l)
      BY <1>3 DEF AcquireLock, CheckLease, RenewLock, RemoveFile, CommitThrows
    <2>3. \A u \in Workers \ {w} : pc'[u] = pc[u] /\ task'[u] = task[u]
      BY <1>3 DEF AcquireLock, CheckLease, RenewLock, RemoveFile, CommitThrows,
                  Finish, Goto, IInv, Types
    <2>4. pc'[w] # "postUnlocked"
      BY <2>2 DEF Finish, Goto, IInv, Types
    <2> QED BY <2>1, <2>3, <2>4, SilentStep
  <1>4. ASSUME NEW w \in Workers, Answer(w) PROVE EventInv'
    <2>1. UNCHANGED <<posted, early>> /\ told' = told \cup {task[w]} /\ task[w] \in told
      BY <1>4 DEF Answer, IInv, TasksKnown
    <2>2. pc'[w] = "idle" /\ \A u \in Workers \ {w} : pc'[u] = pc[u] /\ task'[u] = task[u]
      BY <1>4, FinishFacts DEF Answer, IInv, Alone
    <2> QED BY <2>1, <2>2, SilentStep
  <1>5. ASSUME NEW w \in Workers, GetActiveLock(w) PROVE EventInv'
    <2>1. /\ UNCHANGED <<posted, pc, task>> /\ early \subseteq early'
          /\ \A h \in told' : h \in told \/ Announced(h) \/ h \in early'
      BY <1>5 DEF GetActiveLock
    <2> QED BY <2>1, SilentStep
  <1> QED BY <1>1, <1>2, <1>3, <1>4, <1>5, ReleaseEvent, PostLockedEvent, PostUnlockedEvent
          DEF Next, Step

\* For any number of workers and requests, and whoever sends them: the FileUnlocked
\* of a lock is posted at most once, and after its FileLocked unless getActiveLock
\* told the token before the FileLocked was posted.
THEOREM LockedBeforeUnlocked == Spec => []LockedThenUnlocked
  <1>1. Init => EventInv
    BY DEF Init, EventInv, LockedThenUnlocked, ReleasedOnce
  <1>2. EventInv => LockedThenUnlocked
    BY DEF EventInv
  <1> QED BY <1>1, <1>2, NextEvent, Invariant, PTL DEF Spec
=============================================================================
