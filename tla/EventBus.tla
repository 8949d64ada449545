------------------------------ MODULE EventBus ------------------------------
(***************************************************************************)
(* EventBus: a queue under a mutex, a condition variable, and one worker   *)
(* thread that hands each event to the subscribers, until stop().          *)
(*                                                                         *)
(* Events are numbered in the order in which they enter the queue.  The    *)
(* stop token is not guarded by the mutex: request_stop() and notify_all() *)
(* may come between the worker's test of its predicate and its wait.       *)
(***************************************************************************)
EXTENDS Naturals, Sequences

CONSTANTS
    Producers,    \* the threads that post: the pool's workers
    MaxPosts      \* bound of the model: events posted

ASSUME MaxPostsAssumption == MaxPosts \in Nat

VARIABLES
    queue,        \* m_eventsQueue
    stopToken,    \* stop_requested()
    worker,       \* the next step of workerTask
    event,        \* the event it has taken: a sequence of at most one
    pending,      \* the producers between their push and their notify_one
    main,         \* the progress of stop() and of the join that follows
    posted,       \* history: how many events have been posted
    delivered     \* history: the events handed to the subscribers

vars == <<queue, stopToken, worker, event, pending, main, posted, delivered>>

-----------------------------------------------------------------------------
HoldsMutex == worker \in {"test", "block", "pop"}

\* A notification reaches a worker that waits, and is lost on any other.
Wake == worker' = IF worker = "waiting" THEN "lock" ELSE worker

\* Mutant: the newest event goes to the front.
Enqueue_Front(e) == <<e>> \o queue

Enqueue(e) == Append(queue, e)

Post(p) ==
    /\ p \notin pending
    /\ ~HoldsMutex
    /\ posted < MaxPosts
    /\ posted' = posted + 1
    /\ queue' = Enqueue(posted + 1)
    /\ pending' = pending \cup {p}
    /\ UNCHANGED <<stopToken, worker, event, main, delivered>>

\* Mutant: post() without notify_one().
Notify_None(p) ==
    /\ p \in pending
    /\ pending' = pending \ {p}
    /\ UNCHANGED <<queue, stopToken, worker, event, main, posted, delivered>>

Notify(p) ==
    /\ p \in pending
    /\ pending' = pending \ {p}
    /\ Wake
    /\ UNCHANGED <<queue, stopToken, event, main, posted, delivered>>

-----------------------------------------------------------------------------
(* workerTask.                                                             *)

LoopTest ==
    /\ worker = "loop"
    /\ worker' = IF stopToken THEN "ended" ELSE "lock"
    /\ UNCHANGED <<queue, stopToken, event, pending, main, posted, delivered>>

Lock ==
    /\ worker = "lock"
    /\ worker' = "test"
    /\ UNCHANGED <<queue, stopToken, event, pending, main, posted, delivered>>

\* The predicate of wait(), and the test behind it.
Test ==
    /\ worker = "test"
    /\ worker' = IF queue # <<>> THEN "pop" ELSE IF stopToken THEN "ended" ELSE "block"
    /\ UNCHANGED <<queue, stopToken, event, pending, main, posted, delivered>>

\* The wait releases the mutex and blocks in one step.
Block ==
    /\ worker = "block"
    /\ worker' = "waiting"
    /\ UNCHANGED <<queue, stopToken, event, pending, main, posted, delivered>>

SpuriousWakeup ==
    /\ worker = "waiting"
    /\ Wake
    /\ UNCHANGED <<queue, stopToken, event, pending, main, posted, delivered>>

Pop ==
    /\ worker = "pop"
    /\ event' = <<Head(queue)>>
    /\ queue' = Tail(queue)
    /\ worker' = "visit"
    /\ UNCHANGED <<stopToken, pending, main, posted, delivered>>

\* std::visit calls the subscribers of the event's type.
Visit ==
    /\ worker = "visit"
    /\ delivered' = delivered \o event
    /\ event' = <<>>
    /\ worker' = "loop"
    /\ UNCHANGED <<queue, stopToken, pending, main, posted>>

-----------------------------------------------------------------------------
(* stop(), from the destructor, and the join of m_workerJthread.           *)

RequestStop ==
    /\ main = "running"
    /\ stopToken' = TRUE
    /\ main' = "notify"
    /\ UNCHANGED <<queue, worker, event, pending, posted, delivered>>

\* Mutant: stop() without notify_all().
NotifyAll_None ==
    /\ main = "notify"
    /\ main' = "join"
    /\ UNCHANGED <<queue, stopToken, worker, event, pending, posted, delivered>>

NotifyAll ==
    /\ main = "notify"
    /\ Wake
    /\ main' = "join"
    /\ UNCHANGED <<queue, stopToken, event, pending, posted, delivered>>

Join ==
    /\ main = "join"
    /\ worker = "ended"
    /\ main' = "joined"
    /\ UNCHANGED <<queue, stopToken, worker, event, pending, posted, delivered>>

-----------------------------------------------------------------------------
\* start() has run.
Init ==
    /\ queue = <<>>
    /\ stopToken = FALSE
    /\ worker = "loop"
    /\ event = <<>>
    /\ pending = {}
    /\ main = "running"
    /\ posted = 0
    /\ delivered = <<>>

Worker == LoopTest \/ Lock \/ Test \/ Block \/ Pop \/ Visit

Next ==
    \/ Worker \/ SpuriousWakeup
    \/ \E p \in Producers : Post(p) \/ Notify(p)
    \/ RequestStop \/ NotifyAll \/ Join

Spec == Init /\ [][Next]_vars

-----------------------------------------------------------------------------
(* Properties.                                                             *)

Events == 1..MaxPosts

\* Every variable holds values of its kind.
TypeOK ==
    /\ queue \in Seq(Events) /\ Len(queue) <= MaxPosts
    /\ stopToken \in BOOLEAN
    /\ worker \in {"loop", "lock", "test", "block", "waiting", "pop", "visit", "ended"}
    /\ event \in Seq(Events) /\ Len(event) <= 1
    /\ pending \subseteq Producers
    /\ main \in {"running", "notify", "join", "joined"}
    /\ posted \in 0..MaxPosts
    /\ delivered \in Seq(Events)

\* Every event posted is delivered, in the worker's hand or in the queue, once,
\* and events leave in the order in which they were posted: a FileUnlocked
\* never overtakes the FileLocked before it (event-bus.h:67).
InOrder == delivered \o event \o queue = [i \in 1..posted |-> i]
=============================================================================
