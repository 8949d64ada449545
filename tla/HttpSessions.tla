---------------------------- MODULE HttpSessions ----------------------------
(***************************************************************************)
(* Connections and the worker pool: HttpSession reads a request, the       *)
(* router's handler answers it at once, defers the answer to a worker or   *)
(* takes the stream away, and the response is written before the next      *)
(* request is read.  A client logs in or registers with the first request  *)
(* of its connection; the others need the token of its answer.             *)
(*                                                                         *)
(* The handlers of a session run on the strand the listener made for its   *)
(* socket, one at a time; an answer that a worker posts while onRead is    *)
(* running is handled after it.                                            *)
(***************************************************************************)
EXTENDS Naturals, Sequences, FiniteSets, SequencesExt

CONSTANTS
    Sessions,      \* connections
    Workers,       \* threads of the worker pool
    NoTask,        \* a worker without a task
    Pipelining,    \* those whose client sends one request ahead of the answer
    MaxRequests    \* bound of the model: requests of a client

VARIABLES
    sent,              \* requests the client has sent, numbered from 1
    arriving,          \* those of them that have not been read
    accepted,          \* history: those that onRead has passed to a handler
    reading,           \* an async_read is pending
    handlers,          \* the answers posted to the strand by sendResponse
    writeInProgress,   \* m_writeInProgress
    writing,           \* the answers handed to async_write and not completed
    answered,          \* answers written to the stream
    detached,          \* m_detached: the stream belongs to an SseSession
    ended,             \* nothing more is read or written
    tasks,             \* the queue of the worker pool
    running,           \* worker -> its task
    withToken,         \* the requests that carry the token of the connection's login
    store,             \* m_tokenToUserId: the connections whose login got a token
    granted,           \* history: the connections whose answer has a token
    refused            \* history: the requests answered 401 for want of a token

client  == <<sent, arriving, withToken>>
session == <<accepted, reading, writeInProgress, writing, answered, detached, ended>>
pool    == <<tasks, running>>
auth    == <<store, granted, refused>>
vars    == <<client, session, handlers, pool, auth>>

-----------------------------------------------------------------------------
(* A client; the last request of a connection may ask for it to be closed. *)

Task(s, n) == [session |-> s, number |-> n]

\* POST /api/auth/login or /api/auth/register.
Login == 1

HasToken(s) == s \in granted /\ Login \in ToSet(answered[s])

Send(s) ==
    /\ ~ended[s] /\ ~detached[s]
    /\ sent[s] < MaxRequests
    /\ sent[s] < Len(answered[s]) + (IF s \in Pipelining THEN 2 ELSE 1)
    /\ sent' = [sent EXCEPT ![s] = @ + 1]
    /\ arriving' = [arriving EXCEPT ![s] = Append(@, sent[s] + 1)]
    /\ withToken' = [withToken EXCEPT ![s] = IF HasToken(s) THEN @ \cup {sent[s] + 1} ELSE @]
    /\ UNCHANGED <<session, handlers, pool, auth>>

-----------------------------------------------------------------------------
(* HttpSession.                                                            *)

\* writeResponse.
Write(s, n) ==
    /\ writeInProgress' = [writeInProgress EXCEPT ![s] = TRUE]
    /\ writing' = [writing EXCEPT ![s] = Append(@, n)]

\* What doRead finds in the buffer goes: a request that has come together with
\* the one before it is not read.
Take(s) ==
    /\ reading[s]
    /\ arriving[s] # <<>>
    /\ \E k \in 1..Len(arriving[s]) :
         arriving' = [arriving EXCEPT ![s] = SubSeq(@, k + 1, Len(@))]
    /\ accepted' = [accepted EXCEPT ![s] = Append(@, Head(arriving[s]))]
    /\ reading' = [reading EXCEPT ![s] = FALSE]
    /\ UNCHANGED <<sent, withToken, answered>>

\* AuthTokenStore::resolveUserId.
Resolves(s) == s \in store

\* authenticateUserId: the request has a token, and the store has it too.
Authenticated(s, n) == n \in withToken[s] /\ Resolves(s)

\* The handler replies - the route is unknown, the body is malformed, the user
\* may not do this; if it does not, onRead does.
OnReadReplies(s) ==
    /\ Take(s)
    /\ Write(s, Head(arriving[s]))
    /\ UNCHANGED <<ended, detached, handlers, pool, auth>>

\* makeUnauthorizedResponse.
OnReadUnauthorized(s) ==
    /\ Take(s)
    /\ Head(arriving[s]) # Login
    /\ ~Authenticated(s, Head(arriving[s]))
    /\ Write(s, Head(arriving[s]))
    /\ refused' = refused \cup {Task(s, Head(arriving[s]))}
    /\ UNCHANGED <<ended, detached, handlers, pool, store, granted>>

\* Mutant: onRead answers a request whose answer is deferred.
OnReadDefers_Answers(s) ==
    /\ Take(s)
    /\ Head(arriving[s]) = Login \/ Authenticated(s, Head(arriving[s]))
    /\ tasks' = Append(tasks, Task(s, Head(arriving[s])))
    /\ Write(s, Head(arriving[s]))
    /\ UNCHANGED <<ended, running, detached, handlers, auth>>

\* dispatchToWorker, which a login needs no token for.
OnReadDefers(s) ==
    /\ Take(s)
    /\ Head(arriving[s]) = Login \/ Authenticated(s, Head(arriving[s]))
    /\ tasks' = Append(tasks, Task(s, Head(arriving[s])))
    /\ UNCHANGED <<ended, running, writeInProgress, writing, detached, handlers, auth>>

\* The notification controller releases the stream; no read or write is
\* pending on it.
OnReadDetaches(s) ==
    /\ Take(s)
    /\ Authenticated(s, Head(arriving[s]))
    /\ detached' = [detached EXCEPT ![s] = TRUE]
    /\ UNCHANGED <<ended, writeInProgress, writing, handlers, pool, auth>>

\* Neither onRead nor the handlers catch anything: an allocation may fail, or a
\* lock.
MayThrow(s) == reading[s] /\ arriving[s] # <<>>

\* Nothing refers to the session any more.
OnReadThrows(s) ==
    /\ MayThrow(s)
    /\ Take(s)
    /\ ended' = [ended EXCEPT ![s] = TRUE]
    /\ UNCHANGED <<detached, writeInProgress, writing, handlers, pool, auth>>

\* The client has closed, the connection is broken or the request malformed:
\* nothing is answered.
ReadEnds(s) ==
    /\ reading[s]
    /\ reading' = [reading EXCEPT ![s] = FALSE]
    /\ ended' = [ended EXCEPT ![s] = TRUE]
    /\ UNCHANGED <<client, accepted, handlers, writeInProgress, writing, answered,
                   detached, pool, auth>>

\* The lambda of sendResponse: dropped during another write, and once the stream
\* is gone.
RunHandler(s) ==
    /\ handlers[s] # <<>>
    /\ handlers' = [handlers EXCEPT ![s] = Tail(@)]
    /\ IF detached[s] \/ writeInProgress[s]
       THEN UNCHANGED <<writeInProgress, writing>>
       ELSE Write(s, Head(handlers[s]))
    /\ UNCHANGED <<client, accepted, reading, answered, detached, ended, pool, auth>>

\* Mutant: onWrite leaves m_writeInProgress set.
OnWrite_KeepsFlag(s) ==
    /\ writing[s] # <<>>
    /\ writing' = [writing EXCEPT ![s] = Tail(@)]
    /\ answered' = [answered EXCEPT ![s] = Append(@, Head(writing[s]))]
    /\ reading' = [reading EXCEPT ![s] = TRUE]
    /\ UNCHANGED <<client, accepted, handlers, writeInProgress, detached, ended, pool, auth>>

\* onWrite: the next request is read, unless this one wanted the connection
\* closed.
OnWrite(s) ==
    /\ writing[s] # <<>>
    /\ writing' = [writing EXCEPT ![s] = Tail(@)]
    /\ answered' = [answered EXCEPT ![s] = Append(@, Head(writing[s]))]
    /\ writeInProgress' = [writeInProgress EXCEPT ![s] = FALSE]
    /\ \E keepAlive \in BOOLEAN :
         /\ reading' = [reading EXCEPT ![s] = keepAlive]
         /\ ended' = [ended EXCEPT ![s] = ~keepAlive]
    /\ UNCHANGED <<client, accepted, handlers, detached, pool, auth>>

OnWriteFails(s) ==
    /\ writing[s] # <<>>
    /\ writing' = [writing EXCEPT ![s] = Tail(@)]
    /\ writeInProgress' = [writeInProgress EXCEPT ![s] = FALSE]
    /\ ended' = [ended EXCEPT ![s] = TRUE]
    /\ UNCHANGED <<client, accepted, reading, handlers, answered, detached, pool, auth>>

\* No thread runs the io_context any more: the handlers it holds are destroyed
\* unrun, and the connections with them; what they did is forgotten.
Abandon ==
    /\ sent' = [s \in Sessions |-> 0]
    /\ arriving' = [s \in Sessions |-> <<>>]
    /\ accepted' = [s \in Sessions |-> <<>>]
    /\ reading' = [s \in Sessions |-> FALSE]
    /\ handlers' = [s \in Sessions |-> <<>>]
    /\ writeInProgress' = [s \in Sessions |-> FALSE]
    /\ writing' = [s \in Sessions |-> <<>>]
    /\ answered' = [s \in Sessions |-> <<>>]
    /\ detached' = [s \in Sessions |-> FALSE]
    /\ ended' = [s \in Sessions |-> TRUE]
    /\ withToken' = [s \in Sessions |-> {}]
    /\ store' = {} /\ granted' = {} /\ refused' = {}
    /\ UNCHANGED pool

-----------------------------------------------------------------------------
(* The worker pool.                                                        *)

Begin(w) ==
    /\ running[w] = NoTask
    /\ tasks # <<>>
    /\ running' = [running EXCEPT ![w] = Head(tasks)]
    /\ tasks' = Tail(tasks)
    /\ UNCHANGED <<client, session, handlers, auth>>

\* Mutant: a user has one token, that of the last login.
IssueToken_OnePerUser(s) ==
    /\ store' = {s}
    /\ granted' = granted \cup {s}

\* AuthTokenStore::issueToken.
IssueToken(s) ==
    /\ store' = store \cup {s}
    /\ granted' = granted \cup {s}

\* The work of a task, as far as sessions depend on it: a login with the right
\* password and a registration with a new name get a token.
Work(task) ==
    \/ task.number = Login /\ IssueToken(task.session)
    \/ UNCHANGED <<store, granted>>

\* Mutant: an exception leaves the task without an answer.
Finish_MayThrow(w) ==
    /\ running[w] # NoTask
    /\ running' = [running EXCEPT ![w] = NoTask]
    /\ \E answers \in {<<>>, <<running[w].number>>} :
         handlers' = [handlers EXCEPT ![running[w].session] = @ \o answers]
    /\ Work(running[w])
    /\ UNCHANGED <<client, session, tasks, refused>>

\* The task returns a response, or throws and the answer is internal_error;
\* either is sent, once, through AsyncResponseHandle::send.
Finish(w) ==
    /\ running[w] # NoTask
    /\ running' = [running EXCEPT ![w] = NoTask]
    /\ handlers' = [handlers EXCEPT ![running[w].session] = Append(@, running[w].number)]
    /\ Work(running[w])
    /\ UNCHANGED <<client, session, tasks, refused>>

-----------------------------------------------------------------------------
Init ==
    /\ sent = [s \in Sessions |-> 0]
    /\ arriving = [s \in Sessions |-> <<>>]
    /\ accepted = [s \in Sessions |-> <<>>]
    /\ reading = [s \in Sessions |-> TRUE]
    /\ handlers = [s \in Sessions |-> <<>>]
    /\ writeInProgress = [s \in Sessions |-> FALSE]
    /\ writing = [s \in Sessions |-> <<>>]
    /\ answered = [s \in Sessions |-> <<>>]
    /\ detached = [s \in Sessions |-> FALSE]
    /\ ended = [s \in Sessions |-> FALSE]
    /\ tasks = <<>>
    /\ running = [w \in Workers |-> NoTask]
    /\ withToken = [s \in Sessions |-> {}]
    /\ store = {}
    /\ granted = {}
    /\ refused = {}

OnRead(s) ==
    \/ OnReadReplies(s) \/ OnReadUnauthorized(s) \/ OnReadDefers(s) \/ OnReadDetaches(s)
    \/ ReadEnds(s)
Session(s) == OnRead(s) \/ RunHandler(s) \/ OnWrite(s) \/ OnWriteFails(s)

-----------------------------------------------------------------------------
(* Properties.                                                             *)

\* Clients get the answers in the order of their requests, each once, whoever
\* answers and however long a worker takes (http-session.cpp:50-62).
AnswersInOrder == \A s \in Sessions : IsPrefix(answered[s], accepted[s])

\* The tasks of s that wait or run.
Waiting(s) == {i \in DOMAIN tasks : tasks[i].session = s}
Running(s) == {w \in Workers : running[w] # NoTask /\ running[w].session = s}

TasksOf(s) == Cardinality(Waiting(s)) + Cardinality(Running(s))

\* A connection that has not ended waits for exactly one thing - a request, a
\* worker, the strand or the end of a write - so that it neither overlaps two
\* operations on its stream nor waits for nothing for ever; one that has ended
\* or given its stream away waits for none (http-session.cpp:19, :53, :76).
OnePending ==
    \A s \in Sessions :
        (IF reading[s] THEN 1 ELSE 0) + TasksOf(s) + Len(handlers[s]) + Len(writing[s])
            = IF ended[s] \/ detached[s] THEN 0 ELSE 1

\* A token that an answer has given is good from then on: whatever other logins
\* and requests run meanwhile, no request that carries it is answered 401
\* (auth-controller.cpp:59, auth-token-store.h:100).
TokenHonoured == \A task \in refused : task.number \notin withToken[task.session]
=============================================================================
