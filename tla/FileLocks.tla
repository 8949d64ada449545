----------------------------- MODULE FileLocks -----------------------------
(***************************************************************************)
(* Leased locks on files: the table file_lock, the worker tasks that       *)
(* acquire, renew and release a lock or remove a file, and the events they *)
(* post after their commit.                                                *)
(*                                                                         *)
(* A write unit of work is one step (see UnitOfWorkPool), and it reads the *)
(* clock while it has the writer.  renewLock reads the row first, in a     *)
(* read unit of work of its own.  A lock is named by its token, and no     *)
(* request checks whose token it carries.  A client is told the token of a *)
(* lock in the answer to the acquire request, in the event FileLocked, and *)
(* in the answer to a request for the active lock of a file, which any     *)
(* user may send once the row is committed.  It may then use the token     *)
(* twice, late, or after the lock is gone.                                 *)
(***************************************************************************)
EXTENDS Naturals, Sequences

CONSTANTS
    Workers,     \* threads of the application pool, one task each at a time
    Files,       \* the files there are at first
    Duration,    \* lockDurationSec of every request
    Faults,      \* the faults that may occur: "commit", "crash"
    MaxTime,     \* bound of the model: the clock
    MaxTokens    \* bound of the model: tokens handed out

ASSUME DurationAssumption  == Duration \in Nat \ {0}
ASSUME FaultsAssumption    == Faults \subseteq {"commit", "crash"}
ASSUME MaxTimeAssumption   == MaxTime \in Nat
ASSUME MaxTokensAssumption == MaxTokens \in Nat

VARIABLES
    now,         \* unixNowSeconds()
    files,       \* the files that exist
    locks,       \* rows of the table file_lock
    lastToken,   \* the last value of generateId()
    pc,          \* worker -> the next step of its task
    task,        \* worker -> the file and the token its task is about
    posted,      \* history: the events posted, in the order of the event bus
    told,        \* history: the locks whose token a client has been told
    asked,       \* history: those a client has asked to release
    early        \* history: those getActiveLock told before their FileLocked

server  == <<files, locks, lastToken>>
history == <<posted, told, asked, early>>
vars    == <<now, server, pc, task, history>>

-----------------------------------------------------------------------------
Tokens == 1..MaxTokens
Lock   == [file : Files, token : Tokens, lease : 0..(MaxTime + Duration)]
Named  == [file : Files, token : Tokens]
NoTask == [file |-> "none", token |-> 0]

Labels == {"idle", "acquire", "postLocked", "answer", "check", "renew",
           "release", "postUnlocked", "removeFile"}

RowsOf(f)         == {r \in locks : r.file = f}
RowsNamed(f, k)   == {r \in locks : r.file = f /\ r.token = k}

\* The FileLocked of a lock is on the bus.
Announced(h) == \E j \in DOMAIN posted : posted[j] = [kind |-> "fileLocked", lock |-> h]

Goto(w, l) == pc' = [pc EXCEPT ![w] = l]
Finish(w)  == Goto(w, "idle") /\ task' = [task EXCEPT ![w] = NoTask]

Dispatch(w, first, data) ==
    /\ pc[w] = "idle"
    /\ Goto(w, first)
    /\ task' = [task EXCEPT ![w] = data]
    /\ UNCHANGED <<now, server, posted, told, early>>

-----------------------------------------------------------------------------
(* Requests.  The fileId of a request is not checked before its task runs. *)

HandleAcquireLock(w) ==
    \E f \in Files : Dispatch(w, "acquire", [file |-> f, token |-> 0]) /\ UNCHANGED asked

HandleRenewLock(w) == \E h \in told : Dispatch(w, "check", h) /\ UNCHANGED asked

HandleReleaseLock(w) ==
    \E h \in told : Dispatch(w, "release", h) /\ asked' = asked \cup {h}

HandleRemoveFile(w) ==
    \E f \in files : Dispatch(w, "removeFile", [file |-> f, token |-> 0]) /\ UNCHANGED asked

-----------------------------------------------------------------------------
(* acquireLock.                                                            *)

\* INSERT INTO file_lock: file_id is the primary key and a foreign key.  A row
\* stays after its lease has run out, and stands in the way like any other.
CanLock(f) == f \in files /\ RowsOf(f) = {}

\* Mutant: the answer leaves before the event is posted.
AcquireLock_AnswersFirst(w) ==
    /\ pc[w] = "acquire"
    /\ lastToken < MaxTokens
    /\ CanLock(task[w].file)
    /\ LET h == [file |-> task[w].file, token |-> lastToken + 1]
       IN  /\ task' = [task EXCEPT ![w] = h]
           /\ locks' = locks \cup {[file |-> h.file, token |-> h.token,
                                    lease |-> now + Duration]}
           /\ told' = told \cup {h}
    /\ lastToken' = lastToken + 1
    /\ Goto(w, "postLocked")
    /\ UNCHANGED <<now, files, posted, asked, early>>

AcquireLock(w) ==
    /\ pc[w] = "acquire"
    /\ lastToken < MaxTokens
    /\ lastToken' = lastToken + 1
    /\ \/ /\ CanLock(task[w].file)
          /\ locks' = locks \cup {[file |-> task[w].file, token |-> lastToken + 1,
                                   lease |-> now + Duration]}
          /\ task' = [task EXCEPT ![w].token = lastToken + 1]
          /\ Goto(w, "postLocked")
       \/ /\ ~CanLock(task[w].file)
          /\ Finish(w)
          /\ UNCHANGED locks
    /\ UNCHANGED <<now, files, history>>

\* The event names the token: whoever listens knows it from here on.
PostLocked(w) ==
    /\ pc[w] = "postLocked"
    /\ posted' = Append(posted, [kind |-> "fileLocked", lock |-> task[w]])
    /\ told' = told \cup {task[w]}
    /\ Goto(w, "answer")
    /\ UNCHANGED <<now, server, task, asked, early>>

Answer(w) ==
    /\ pc[w] = "answer"
    /\ told' = told \cup {task[w]}
    /\ Finish(w)
    /\ UNCHANGED <<now, server, posted, asked, early>>

-----------------------------------------------------------------------------
\* getActiveLock: the row with its token, for any user, while its lease runs.
\* The SELECT is the only access of the task, which is one step here.
GetActiveLock(w) ==
    /\ pc[w] = "idle"
    /\ \E r \in locks :
          /\ r.lease > now
          /\ LET h == [file |-> r.file, token |-> r.token]
             IN  /\ told' = told \cup {h}
                 /\ early' = IF Announced(h) THEN early ELSE early \cup {h}
    /\ UNCHANGED <<now, server, pc, task, posted, asked>>

-----------------------------------------------------------------------------
(* renewLock.                                                              *)

\* The row is there, its lease has not run out, and the token is its own.
CheckLease(w) ==
    /\ pc[w] = "check"
    /\ IF \E r \in RowsOf(task[w].file) : r.lease > now /\ r.token = task[w].token
         THEN Goto(w, "renew") /\ UNCHANGED task
         ELSE Finish(w)
    /\ UNCHANGED <<now, server, history>>

\* Mutant: UPDATE file_lock without AND lock_token = ?.
Renewed_AnyToken(f, k) == RowsOf(f)

\* UPDATE file_lock ... WHERE file_id = ? AND lock_token = ?: the rows it finds.
Renewed(f, k) == RowsNamed(f, k)

\* The values lease_until may get: the clock is read behind the writer's lock.
NewLease(r) == {now + Duration}

RenewLock(w) ==
    /\ pc[w] = "renew"
    /\ LET rows == Renewed(task[w].file, task[w].token)
       IN  \/ \E r \in rows : \E t \in NewLease(r) :
                locks' = (locks \ {r}) \cup {[r EXCEPT !.lease = t]}
           \/ rows = {} /\ UNCHANGED locks
    /\ Finish(w)
    /\ UNCHANGED <<now, files, lastToken, history>>

-----------------------------------------------------------------------------
(* releaseLock, and the removal of a file.                                 *)

\* Mutant: DELETE FROM file_lock without AND lock_token = ?.
Unlocked_AnyToken(f, k) == RowsOf(f)

\* DELETE FROM file_lock WHERE file_id = ? AND lock_token = ?.
Unlocked(f, k) == RowsNamed(f, k)

ReleaseLock(w) ==
    /\ pc[w] = "release"
    /\ LET rows == Unlocked(task[w].file, task[w].token)
       IN  /\ locks' = locks \ rows
           /\ IF rows # {} THEN Goto(w, "postUnlocked") /\ UNCHANGED task ELSE Finish(w)
    /\ UNCHANGED <<now, files, lastToken, history>>

PostUnlocked(w) ==
    /\ pc[w] = "postUnlocked"
    /\ posted' = Append(posted, [kind |-> "fileUnlocked", lock |-> task[w]])
    /\ Finish(w)
    /\ UNCHANGED <<now, server, told, asked, early>>

\* The lock goes with the file (ON DELETE CASCADE); no event is posted.
RemoveFile(w) ==
    /\ pc[w] = "removeFile"
    /\ files' = files \ {task[w].file}
    /\ locks' = locks \ RowsOf(task[w].file)
    /\ Finish(w)
    /\ UNCHANGED <<now, lastToken, history>>

-----------------------------------------------------------------------------
\* BEGIN IMMEDIATE or COMMIT throws; the transaction is rolled back.
CommitThrows(w) ==
    /\ "commit" \in Faults
    /\ pc[w] \in {"acquire", "renew", "release", "removeFile"}
    /\ Finish(w)
    /\ UNCHANGED <<now, server, history>>

\* The process is started again: the rows are still there, the tasks are not.
Restart ==
    /\ "crash" \in Faults
    /\ pc' = [w \in Workers |-> "idle"]
    /\ task' = [w \in Workers |-> NoTask]
    /\ UNCHANGED <<now, server, history>>

Tick ==
    /\ now < MaxTime
    /\ now' = now + 1
    /\ UNCHANGED <<server, pc, task, history>>

Init ==
    /\ now = 0
    /\ files = Files
    /\ locks = {}
    /\ lastToken = 0
    /\ pc = [w \in Workers |-> "idle"]
    /\ task = [w \in Workers |-> NoTask]
    /\ posted = <<>>
    /\ told = {}
    /\ asked = {}
    /\ early = {}

Handle(w) ==
    \/ HandleAcquireLock(w) \/ HandleRenewLock(w)
    \/ HandleReleaseLock(w) \/ HandleRemoveFile(w)

Step(w) ==
    \/ AcquireLock(w) \/ PostLocked(w) \/ Answer(w) \/ GetActiveLock(w)
    \/ CheckLease(w) \/ RenewLock(w)
    \/ ReleaseLock(w) \/ PostUnlocked(w) \/ RemoveFile(w)
    \/ CommitThrows(w)

Next == Tick \/ Restart \/ \E w \in Workers : Handle(w) \/ Step(w)

Spec == Init /\ [][Next]_vars

-----------------------------------------------------------------------------
(* Properties.                                                             *)

\* Every variable holds values of its kind.
TypeOK ==
    /\ now \in 0..MaxTime
    /\ files \subseteq Files
    /\ locks \subseteq Lock
    /\ lastToken \in 0..MaxTokens
    /\ pc \in [Workers -> Labels]
    /\ task \in [Workers -> [file : Files \cup {"none"}, token : 0..MaxTokens]]
    /\ \A i \in DOMAIN posted : posted[i].lock \in Named
    /\ told \subseteq Named
    /\ asked \subseteq told
    /\ early \subseteq told

\* The locks some client may rely on: told of, and nobody has asked to release
\* them.  A token is not bound to its user, so a release by anybody else who was
\* told it counts like the holder's own.
Held == told \ asked

\* While a file exists, a lock a client was told of and nobody asked to release
\* has its row: a release that comes twice or late, with an old token, frees
\* nobody else's lock (file-lock-repository.cpp:46).
HolderKeepsLock == \A h \in Held : h.file \in files => RowsNamed(h.file, h.token) # {}

\* Two clients never hold the lock of a file, even when a lease has run out
\* before its holder renews or releases it (file-lock-repository.cpp:22).
OneHolder == \A g, h \in Held : g.file = h.file /\ g.file \in files => g = h

\* Only a renewal with a lock's own token changes its lease: a renewal that has
\* passed its check while another token replaced its own finds no row
\* (file-lock-service.cpp:65).
RenewsItsOwn ==
    [][\A r \in locks, s \in locks' :
          r.file = s.file /\ r.token = s.token /\ r.lease # s.lease =>
              \E w \in Workers : pc[w] = "renew" /\ pc'[w] = "idle"
                                   /\ task[w].file = r.file /\ task[w].token = r.token]_vars

\* However often and by whomever a lock is released, the bus gets its FileUnlocked
\* at most once, and after its FileLocked, although two workers post them
\* (file-lock-controller.cpp:89, :179).  One way out: getActiveLock told the token
\* between the commit and the FileLocked; then a release may overtake the
\* FileLocked, or follow a crash that left the lock without one.
LockedThenUnlocked ==
    \A i \in DOMAIN posted : posted[i].kind = "fileUnlocked" =>
        /\ \A j \in DOMAIN posted : posted[j] = posted[i] => j = i
        /\ \/ posted[i].lock \in early
           \/ \E j \in 1..(i - 1) : posted[j] = [kind |-> "fileLocked", lock |-> posted[i].lock]
=============================================================================
