------------------------------- MODULE Server -------------------------------
(***************************************************************************)
(* The server process: main() and its I/O threads run the handlers of the  *)
(* sessions, the worker pool their tasks, whose events go to the bus; an   *)
(* interrupt ends ioc.run() and main() destroys what it has made, in the   *)
(* reverse order.                                                          *)
(*                                                                         *)
(* A handler, which runs on one I/O thread from its beginning to its end,  *)
(* is one step.  The pool joins after the objects its tasks refer to are   *)
(* gone, and a visit of the bus may be inside the bridge while the bridge  *)
(* is destroyed: what such a task or visit does is undefined, and may end  *)
(* the process.                                                            *)
(***************************************************************************)
EXTENDS EventBus, FiniteSets

CONSTANTS
    IoThreads,     \* the I/O threads besides main()
    Sessions, NoTask, Pipelining,   \* as in HttpSessions
    MaxRequests    \* bound of the model: requests of a client

ASSUME PipeliningAssumption == Pipelining \subseteq Sessions
ASSUME MaxRequestsAssumption == MaxRequests \in Nat
ASSUME NoTaskAssumption == NoTask \notin [session : Sessions, number : Nat]

VARIABLES
    sent, arriving, accepted, reading, handlers, writeInProgress, writing, answered,
    detached, ended, tasks, running, withToken, store, granted, refused,
    ioStopped,     \* ioc.stop() has been called
    ioWorkers,     \* the threads of ioWorkers that are in ioc.run()
    phase,         \* where main() is
    inBridge,      \* the bridge was destroyed while the bus worker visited it
    crashed        \* the process has been terminated

httpVars == <<sent, arriving, accepted, reading, handlers, writeInProgress, writing,
              answered, detached, ended, tasks, running, withToken, store, granted, refused>>
mainVars == <<ioStopped, ioWorkers, phase, inBridge, crashed>>
allVars  == <<vars, httpVars, mainVars>>

\* The tasks post what the bus delivers.
Http == INSTANCE HttpSessions WITH Workers <- Producers

Phases ==
    {"run",        \* in ioc.run()
     "joinIo",     \* in the destructor of ioWorkers
     "stopBus",    \* the controllers, the router and the bridge are gone
     "joinPool",   \* so are the bus, the services and the database
     "ended"}      \* so is the pool

-----------------------------------------------------------------------------
(* I/O threads.                                                            *)

\* Some thread takes the next handler of the io_context.
Serving == ~crashed /\ ~ioStopped /\ (phase = "run" \/ ioWorkers # {})

Client(s) ==
    /\ Serving
    /\ Http!Send(s)
    /\ UNCHANGED <<vars, mainVars>>

Handler(s) ==
    /\ Serving
    /\ Http!Session(s)
    /\ UNCHANGED <<vars, mainVars>>

\* An exception that leaves a handler leaves ioc.run(): main() unwinds and first
\* waits for the other threads, any of which would end the process.
HandlerThrows(s) ==
    /\ Serving
    /\ phase = "run"
    /\ phase' = "joinIo"
    /\ IF ioWorkers # {} THEN Http!OnReadThrows(s) ELSE Http!MayThrow(s) /\ Http!Abandon
    /\ UNCHANGED <<vars, ioStopped, ioWorkers, inBridge, crashed>>

HandlerTerminates(s) ==
    /\ Serving
    /\ ioWorkers # {}
    /\ Http!MayThrow(s)
    /\ Http!Abandon
    /\ crashed' = TRUE
    /\ UNCHANGED <<vars, ioStopped, ioWorkers, phase, inBridge>>

\* SIGINT or SIGTERM.
Interrupt ==
    /\ Serving
    /\ ioStopped' = TRUE
    /\ Http!Abandon
    /\ UNCHANGED <<vars, ioWorkers, phase, inBridge, crashed>>

\* ioc.run() returns: in a thread of ioWorkers, and in main().
LeaveRun(t) ==
    /\ ~crashed /\ ioStopped
    /\ t \in ioWorkers
    /\ ioWorkers' = ioWorkers \ {t}
    /\ UNCHANGED <<vars, httpVars, ioStopped, phase, inBridge, crashed>>

MainLeavesRun ==
    /\ ~crashed /\ ioStopped
    /\ phase = "run"
    /\ phase' = "joinIo"
    /\ UNCHANGED <<vars, httpVars, ioStopped, ioWorkers, inBridge, crashed>>

-----------------------------------------------------------------------------
(* Tasks.                                                                  *)

\* What the tasks refer to has not been destroyed.
ObjectsAlive == phase \in {"run", "joinIo"}

TaskBegins(w) ==
    /\ ~crashed
    /\ Http!Begin(w)
    /\ UNCHANGED <<vars, mainVars>>

\* The bus is destroyed with the join of its thread; a login posts nothing.
TaskPosts(w) ==
    /\ ~crashed /\ main # "joined"
    /\ running[w] # NoTask /\ running[w].number # Http!Login
    /\ Post(w) \/ Notify(w)
    /\ UNCHANGED <<httpVars, mainVars>>

\* A task that has not done its work when the bus goes leaves it alone, by luck.
TaskEnds(w) ==
    /\ ~crashed
    /\ w \notin pending \/ main = "joined"
    /\ Http!Finish(w)
    /\ UNCHANGED <<vars, mainVars>>

TaskUsesDestroyed(w) ==
    /\ ~crashed /\ ~ObjectsAlive
    /\ running[w] # NoTask
    /\ crashed' = TRUE
    /\ UNCHANGED <<vars, httpVars, ioStopped, ioWorkers, phase, inBridge>>

-----------------------------------------------------------------------------
(* The bus.                                                                *)

BusRuns ==
    /\ ~crashed
    /\ Worker
    /\ inBridge' = (inBridge /\ worker # "visit")
    /\ UNCHANGED <<httpVars, ioStopped, ioWorkers, phase, crashed>>

BusWakes ==
    /\ ~crashed
    /\ SpuriousWakeup
    /\ UNCHANGED <<httpVars, mainVars>>

VisitUsesDestroyed ==
    /\ ~crashed /\ inBridge
    /\ crashed' = TRUE
    /\ UNCHANGED <<vars, httpVars, ioStopped, ioWorkers, phase, inBridge>>

-----------------------------------------------------------------------------
(* The end of main().                                                      *)

\* Mutant: ioWorkers is declared before the controllers, and joins after them.
JoinIo_After ==
    /\ ~crashed
    /\ phase = "joinIo"
    /\ phase' = "stopBus"
    /\ inBridge' = (worker = "visit")
    /\ UNCHANGED <<vars, httpVars, ioStopped, ioWorkers, crashed>>

\* The I/O threads have ended; the connections of the bridge are cut, which
\* does not wait for a visit under way.
JoinIo ==
    /\ ~crashed
    /\ phase = "joinIo"
    /\ ioWorkers = {}
    /\ phase' = "stopBus"
    /\ inBridge' = (worker = "visit")
    /\ UNCHANGED <<vars, httpVars, ioStopped, ioWorkers, crashed>>

StopBus ==
    /\ ~crashed
    /\ phase = "stopBus"
    /\ RequestStop \/ NotifyAll
    /\ UNCHANGED <<httpVars, mainVars>>

JoinBus ==
    /\ ~crashed
    /\ phase = "stopBus"
    /\ Join
    /\ phase' = "joinPool"
    /\ UNCHANGED <<httpVars, ioStopped, ioWorkers, inBridge, crashed>>

\* ~ThreadPool: every task that was posted has ended.
JoinPool ==
    /\ ~crashed
    /\ phase = "joinPool"
    /\ tasks = <<>> /\ \A w \in Producers : running[w] = NoTask
    /\ phase' = "ended"
    /\ UNCHANGED <<vars, httpVars, ioStopped, ioWorkers, inBridge, crashed>>

-----------------------------------------------------------------------------
ServerInit ==
    /\ Init
    /\ Http!Init
    /\ ioStopped = FALSE
    /\ ioWorkers \in SUBSET IoThreads
    /\ phase = "run"
    /\ inBridge = FALSE
    /\ crashed = FALSE

Task(w) == TaskBegins(w) \/ TaskPosts(w) \/ TaskEnds(w) \/ TaskUsesDestroyed(w)
MainEnds == MainLeavesRun \/ JoinIo \/ StopBus \/ JoinBus \/ JoinPool

ServerNext ==
    \/ \E s \in Sessions : Client(s) \/ Handler(s) \/ HandlerThrows(s)
                          \/ HandlerTerminates(s)
    \/ Interrupt
    \/ \E t \in IoThreads : LeaveRun(t)
    \/ \E w \in Producers : Task(w)
    \/ BusRuns \/ BusWakes \/ VisitUsesDestroyed
    \/ MainEnds

ServerSpec == ServerInit /\ [][ServerNext]_allVars

\* Threads run, and a write completes.  Clients may stop, nobody has to post or
\* to interrupt, and a wait need not return without a notification; a task ends,
\* because what it waits for is the database's pool, which serves every thread.
FairServer ==
    /\ ServerSpec
    /\ \A s \in Sessions : WF_allVars((reading[s] => arriving[s] # <<>>) /\ Handler(s))
    /\ \A t \in IoThreads : WF_allVars(LeaveRun(t))
    /\ \A w \in Producers : WF_allVars(Task(w))
    /\ WF_allVars(BusRuns)
    /\ WF_allVars(MainEnds)

-----------------------------------------------------------------------------
(* Properties.                                                             *)

AnswersInOrder == Http!AnswersInOrder
OnePending     == Serving => Http!OnePending
TokenHonoured  == Http!TokenHonoured

\* As long as an I/O thread takes handlers, the objects they refer to are there,
\* also when an exception has made main() unwind while other threads serve
\* (main.cpp:159-166).
ServedByLiveObjects == Serving => ObjectsAlive

\* A request that is read is answered, or its connection ends or becomes a
\* stream, while some thread serves: neither the task of another connection nor
\* an exception that ends main()'s own run keeps it (main.cpp:162).
Answered ==
    \A s \in Sessions :
        (Len(answered[s]) < Len(accepted[s])) ~>
            (Len(answered[s]) = Len(accepted[s]) \/ ended[s] \/ detached[s] \/ ~Serving)

\* An event that a task posts is delivered unless the bus is stopped: a push
\* that finds the worker before its wait is seen by the predicate, and one that
\* finds it waiting wakes it (event-bus.h:41, :60).
Delivered ==
    (Len(delivered) < posted) ~> (Len(delivered) = posted \/ stopToken \/ crashed)

\* An interrupt brings main() to the stop of the bus, and from there to its end,
\* through the tasks that are left, unless request_stop() falls between the
\* worker's test of its predicate and its wait: then notify_all() may be lost as
\* well, and the join waits until a task posts (event-bus.h:90).
ServerStops ==
    /\ ioStopped ~> (main # "running" \/ crashed)
    /\ (main = "notify" /\ worker # "block") ~> (phase = "ended" \/ crashed)
=============================================================================
