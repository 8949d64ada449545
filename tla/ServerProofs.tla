---------------------------- MODULE ServerProofs ----------------------------
(***************************************************************************)
(* The bus loses, repeats and reorders no event; what the server does with *)
(* it is what EventBus allows; no I/O thread outlives the objects its      *)
(* handlers refer to; a connection waits for one thing at a time, gets its *)
(* answers in order and can rely on its token; and generateId(), which all *)
(* threads call, returns unique and ordered identifiers.                   *)
(***************************************************************************)
EXTENDS Server, IdGenerator, SequenceTheorems, FiniteSetTheorems, TLAPS

(* The bus: one event in the worker's hand, the rest in the queue.         *)

\* The worker takes from a queue that is not empty, and has one event in its
\* hand while it visits the subscribers and none otherwise.
Hand ==
    /\ worker = "pop" => queue # <<>>
    /\ worker = "visit" => Len(event) = 1
    /\ worker # "visit" => event = <<>>

\* TypeOK without the bound on the queue, which InOrder implies.
BusTypes ==
    /\ queue \in Seq(Nat) /\ event \in Seq(Nat) /\ delivered \in Seq(Nat)
    /\ posted \in Nat

BusInv == BusTypes /\ Hand /\ InOrder

-----------------------------------------------------------------------------
\* The first n events, in their order.
Numbers(n) == [i \in 1..n |-> i]

\* One more event behind the first n.
LEMMA AppendNumber ==
    ASSUME NEW n \in Nat
    PROVE  Append(Numbers(n), n + 1) = Numbers(n + 1)
  <1>1. Numbers(n) \in Seq(Nat) /\ Len(Numbers(n)) = n /\ \A i \in 1..n : Numbers(n)[i] = i
    BY DEF Numbers
  <1>2. /\ Numbers(n + 1) \in Seq(Nat) /\ Len(Numbers(n + 1)) = n + 1
        /\ \A i \in 1..(n + 1) : Numbers(n + 1)[i] = i
    BY DEF Numbers
  <1>3. Append(Numbers(n), n + 1) \in Seq(Nat) /\ Len(Append(Numbers(n), n + 1)) = n + 1
    BY <1>1
  <1>4. \A i \in 1..(n + 1) : Append(Numbers(n), n + 1)[i] = Numbers(n + 1)[i]
    BY <1>1, <1>2
  <1> QED BY <1>2, <1>3, <1>4, SeqEqual

\* What is appended to the last of two sequences is appended to both.
LEMMA AppendLast ==
    ASSUME NEW d \in Seq(Nat), NEW q \in Seq(Nat), NEW n \in Nat
    PROVE  d \o Append(q, n) = Append(d \o q, n)
  OBVIOUS

\* The head of the queue may as well be in the hand.
LEMMA MoveHead ==
    ASSUME NEW d \in Seq(Nat), NEW q \in Seq(Nat), q # <<>>
    PROVE  d \o <<>> \o q = d \o <<Head(q)>> \o Tail(q)
  <1>1. <<Head(q)>> \o Tail(q) = q
    OBVIOUS
  <1> QED BY <1>1

LEMMA InitBus == Init => BusInv
  BY DEF Init, BusInv, BusTypes, Hand, InOrder

LEMMA NextBus == BusInv /\ [Next]_vars => BusInv'
  <1> SUFFICES ASSUME BusInv, [Next]_vars PROVE BusInv'
    OBVIOUS
  <1> USE DEF BusInv, BusTypes, Hand, InOrder
  <1>1. ASSUME NEW p \in Producers, Post(p) PROVE BusInv'
    <2>1. /\ posted' = posted + 1 /\ queue' = Append(queue, posted + 1)
          /\ UNCHANGED <<event, worker, delivered>> /\ worker # "pop"
      BY <1>1 DEF Post, Enqueue, HoldsMutex
    <2>2. delivered \o event \o Append(queue, posted + 1) = Numbers(posted + 1)
      <3> DEFINE d == delivered \o event
      <3>1. d \in Seq(Nat) /\ queue \in Seq(Nat) /\ posted + 1 \in Nat
        OBVIOUS
      <3>2. d \o queue = Numbers(posted)
        BY DEF Numbers
      <3> HIDE DEF d
      <3>3. d \o Append(queue, posted + 1) = Append(d \o queue, posted + 1)
        BY <3>1, AppendLast
      <3>4. d \o Append(queue, posted + 1) = Numbers(posted + 1)
        BY <3>2, <3>3, AppendNumber
      <3> QED BY <3>4 DEF d
    <2>3. queue' \in Seq(Nat) /\ posted' \in Nat
      BY <2>1
    <2> QED BY <2>1, <2>2, <2>3 DEF Numbers
  <1>2. ASSUME NEW p \in Producers, Notify(p) PROVE BusInv'
    BY <1>2 DEF Notify, Wake
  <1>3. CASE LoopTest \/ Lock \/ Test \/ Block \/ SpuriousWakeup
    BY <1>3 DEF LoopTest, Lock, Test, Block, SpuriousWakeup, Wake
  <1>4. CASE Pop
    <2>1. /\ queue # <<>> /\ event = <<>> /\ event' = <<Head(queue)>> /\ queue' = Tail(queue)
          /\ worker' = "visit" /\ UNCHANGED <<posted, delivered>>
      BY <1>4 DEF Pop
    <2>2. Head(queue) \in Nat /\ Tail(queue) \in Seq(Nat)
      BY <2>1
    <2>3. event' \in Seq(Nat) /\ Len(event') = 1
      BY <2>1, <2>2
    <2>4. delivered \o <<Head(queue)>> \o Tail(queue) = [i \in 1..posted |-> i]
      BY <2>1, MoveHead
    <2> QED BY <2>1, <2>2, <2>3, <2>4
  <1>5. CASE Visit
    <2>1. /\ delivered' = delivered \o event /\ event' = <<>> /\ worker' = "loop"
          /\ UNCHANGED <<queue, posted>>
      BY <1>5 DEF Visit
    <2>2. delivered' \in Seq(Nat) /\ event' \in Seq(Nat)
      BY <2>1
    <2>3. delivered' \o <<>> = delivered'
      BY <2>2
    <2> QED BY <2>1, <2>2, <2>3
  <1>6. CASE RequestStop \/ NotifyAll \/ Join \/ UNCHANGED vars
    BY <1>6 DEF RequestStop, NotifyAll, Join, Wake, vars
  <1> QED BY <1>1, <1>2, <1>3, <1>4, <1>5, <1>6 DEF Next, Worker

-----------------------------------------------------------------------------
\* Every event posted is delivered, in the worker's hand or in the queue, once
\* and in the order in which it was posted.
THEOREM EventsInOrder == Spec => []InOrder
  <1>1. BusInv => InOrder
    BY DEF BusInv
  <1> QED BY InitBus, NextBus, <1>1, PTL DEF Spec

-----------------------------------------------------------------------------
(* The server and its threads.                                             *)

\* The destructor of ioWorkers has joined every thread before main() goes on,
\* and main() is in ioc.run() or in that destructor until then.
Joined ==
    /\ phase \in Phases
    /\ ioWorkers \subseteq IoThreads
    /\ ~ObjectsAlive => ioWorkers = {}

-----------------------------------------------------------------------------
\* Every step of the server is one of the bus or leaves the bus alone.
LEMMA BusStep == [ServerNext]_allVars => [Next]_vars
  <1> SUFFICES ASSUME [ServerNext]_allVars PROVE [Next]_vars
    OBVIOUS
  <1>1. ASSUME NEW s \in Sessions, Client(s) \/ Handler(s) \/ HandlerThrows(s) \/ HandlerTerminates(s)
        PROVE  UNCHANGED vars
    BY <1>1 DEF Client, Handler, HandlerThrows, HandlerTerminates
  <1>2. ASSUME NEW w \in Producers, Task(w) PROVE [Next]_vars
    <2>1. CASE TaskPosts(w)
      BY <2>1 DEF TaskPosts, Next
    <2>2. CASE TaskBegins(w) \/ TaskEnds(w) \/ TaskUsesDestroyed(w)
      BY <2>2 DEF TaskBegins, TaskEnds, TaskUsesDestroyed
    <2> QED BY <1>2, <2>1, <2>2 DEF Task
  <1>3. ASSUME NEW t \in IoThreads, LeaveRun(t) PROVE UNCHANGED vars
    BY <1>3 DEF LeaveRun
  <1>4. CASE BusRuns \/ BusWakes
    BY <1>4 DEF BusRuns, BusWakes, Next
  <1>5. CASE StopBus \/ JoinBus
    BY <1>5 DEF StopBus, JoinBus, Next
  <1>6. CASE Interrupt \/ VisitUsesDestroyed \/ MainLeavesRun \/ JoinIo \/ JoinPool
    BY <1>6 DEF Interrupt, VisitUsesDestroyed, MainLeavesRun, JoinIo, JoinPool
  <1>7. CASE UNCHANGED allVars
    BY <1>7 DEF allVars
  <1> QED BY <1>1, <1>2, <1>3, <1>4, <1>5, <1>6, <1>7 DEF ServerNext, MainEnds

\* The server implements EventBus: what is shown for the bus holds in it.
THEOREM ServerUsesBus == ServerSpec => Spec
  <1>1. ServerInit => Init
    BY DEF ServerInit
  <1> QED BY <1>1, BusStep, PTL DEF ServerSpec, Spec

\* No event of a task is lost, repeated or overtaken inside the bus, in whatever
\* order handlers, tasks and the end of the process run.
THEOREM ServerEventsInOrder == ServerSpec => []InOrder
  BY ServerUsesBus, EventsInOrder, PTL

-----------------------------------------------------------------------------
LEMMA InitJoined == ServerInit => Joined
  BY DEF ServerInit, Joined, ObjectsAlive, Phases

LEMMA NextJoined == Joined /\ [ServerNext]_allVars => Joined'
  <1> SUFFICES ASSUME Joined, [ServerNext]_allVars PROVE Joined'
    OBVIOUS
  <1> USE DEF Joined, ObjectsAlive, Phases
  <1>1. ASSUME NEW s \in Sessions, Client(s) \/ Handler(s) PROVE Joined'
    BY <1>1 DEF Client, Handler, mainVars
  <1>2. ASSUME NEW s \in Sessions, HandlerThrows(s) \/ HandlerTerminates(s) PROVE Joined'
    BY <1>2 DEF HandlerThrows, HandlerTerminates
  <1>3. ASSUME NEW w \in Producers, Task(w) PROVE Joined'
    BY <1>3 DEF Task, TaskBegins, TaskPosts, TaskEnds, TaskUsesDestroyed, mainVars
  <1>4. ASSUME NEW t \in IoThreads, LeaveRun(t) PROVE Joined'
    BY <1>4 DEF LeaveRun
  <1>5. CASE BusRuns \/ BusWakes \/ VisitUsesDestroyed \/ Interrupt
    BY <1>5 DEF BusRuns, BusWakes, VisitUsesDestroyed, Interrupt, mainVars
  <1>6. CASE MainLeavesRun \/ JoinIo \/ StopBus
    BY <1>6 DEF MainLeavesRun, JoinIo, StopBus, mainVars
  <1>7. CASE JoinBus \/ JoinPool
    BY <1>7 DEF JoinBus, JoinPool
  <1>8. CASE UNCHANGED allVars
    BY <1>8 DEF allVars, mainVars
  <1> QED BY <1>1, <1>2, <1>3, <1>4, <1>5, <1>6, <1>7, <1>8 DEF ServerNext, MainEnds

\* While an I/O thread takes handlers, the controllers, the router, the services
\* and the database they refer to have not been destroyed, for any number of I/O
\* threads, whether main() was interrupted or unwinds from an exception.
THEOREM HandlersUseLiveObjects == ServerSpec => []ServedByLiveObjects
  <1>1. Joined => ServedByLiveObjects
    BY DEF Joined, ServedByLiveObjects, Serving, ObjectsAlive
  <1> QED BY InitJoined, NextJoined, <1>1, PTL DEF ServerSpec

-----------------------------------------------------------------------------
(* Connections and tasks, whichever thread of the server runs them.        *)

\* What a step of the server does to them: an I/O thread that serves runs a
\* handler, the last one drops them all, or a worker goes on.
HttpStep ==
    \/ Serving /\ \E s \in Sessions : Http!Send(s) \/ Http!Session(s) \/ Http!OnReadThrows(s)
    \/ ~Serving' /\ Http!Abandon
    \/ \E w \in Producers : Http!Begin(w) \/ Http!Finish(w)
    \/ UNCHANGED httpVars

\* No thread serves again once none does.
LEMMA StepOfServer == [ServerNext]_allVars => HttpStep /\ (Serving' => Serving)
  <1> SUFFICES ASSUME [ServerNext]_allVars PROVE HttpStep /\ (Serving' => Serving)
    OBVIOUS
  <1> USE DEF HttpStep, Serving
  <1>1. ASSUME NEW s \in Sessions, Client(s) \/ Handler(s) PROVE HttpStep /\ (Serving' => Serving)
    BY <1>1 DEF Client, Handler, mainVars
  <1>2. ASSUME NEW s \in Sessions, HandlerThrows(s) PROVE HttpStep /\ (Serving' => Serving)
    BY <1>2 DEF HandlerThrows
  <1>3. ASSUME NEW s \in Sessions, HandlerTerminates(s) PROVE HttpStep /\ (Serving' => Serving)
    BY <1>3 DEF HandlerTerminates
  <1>4. CASE Interrupt
    BY <1>4 DEF Interrupt
  <1>5. ASSUME NEW w \in Producers, Task(w) PROVE HttpStep /\ (Serving' => Serving)
    BY <1>5 DEF Task, TaskBegins, TaskPosts, TaskEnds, TaskUsesDestroyed, mainVars
  <1>6. ASSUME NEW t \in IoThreads, LeaveRun(t) PROVE HttpStep /\ (Serving' => Serving)
    BY <1>6 DEF LeaveRun
  <1>7. CASE BusRuns \/ BusWakes \/ VisitUsesDestroyed
    BY <1>7 DEF BusRuns, BusWakes, VisitUsesDestroyed, mainVars
  <1>8. CASE MainEnds
    BY <1>8 DEF MainEnds, MainLeavesRun, JoinIo, StopBus, JoinBus, JoinPool, mainVars
  <1>9. CASE UNCHANGED allVars
    BY <1>9 DEF allVars, mainVars
  <1> QED BY <1>1, <1>2, <1>3, <1>4, <1>5, <1>6, <1>7, <1>8, <1>9 DEF ServerNext

-----------------------------------------------------------------------------
(* Tokens.                                                                 *)

\* The requests of a client are numbered; a token that it has was granted, and
\* stays in the store; a request that was refused for want of one is behind it.
Counted ==
    /\ sent \in [Sessions -> Nat]
    /\ arriving \in [Sessions -> Seq(Nat)]
    /\ \A s \in Sessions : \A i \in DOMAIN arriving[s] : arriving[s][i] <= sent[s]

Kept ==
    /\ withToken \in [Sessions -> SUBSET Nat]
    /\ granted \subseteq store
    /\ \A s \in Sessions : withToken[s] # {} => s \in granted

Refused ==
    \A task \in refused :
        /\ task.session \in Sessions /\ task.number \in Nat
        /\ task.number <= sent[task.session]
        /\ task.number \notin withToken[task.session]

Tokens == Counted /\ Kept /\ Refused

LEMMA InitTokens == ServerInit => Tokens
  BY DEF ServerInit, Http!Init, Tokens, Counted, Kept, Refused

\* What is left behind the first k of a sequence is part of it.
LEMMA RestOf ==
    ASSUME NEW S, NEW q \in Seq(S), NEW k \in 1..Len(q)
    PROVE  /\ SubSeq(q, k + 1, Len(q)) \in Seq(S)
           /\ \A i \in 1..Len(SubSeq(q, k + 1, Len(q))) :
                 SubSeq(q, k + 1, Len(q))[i] = q[k + i] /\ k + i \in 1..Len(q)
  <1>1. Len(q) \in Nat /\ k \in Int /\ k + 1 >= 1
    OBVIOUS
  <1>2. SubSeq(q, k + 1, Len(q)) \in Seq(S)
    OBVIOUS
  <1>3. Len(SubSeq(q, k + 1, Len(q))) = Len(q) - k
    BY <1>1
  <1>4. ASSUME NEW i \in 1..(Len(q) - k)
        PROVE  SubSeq(q, k + 1, Len(q))[i] = q[k + i] /\ k + i \in 1..Len(q)
    BY <1>1
  <1> QED BY <1>2, <1>3, <1>4

\* What a handler takes is the head of what has arrived.
LEMMA TakeTokens ==
    ASSUME Tokens, NEW s \in Sessions, Http!Take(s)
    PROVE  /\ Counted' /\ UNCHANGED <<sent, withToken>>
           /\ Head(arriving[s]) \in Nat /\ Head(arriving[s]) <= sent[s]
  <1>1. /\ arriving[s] \in Seq(Nat) /\ arriving[s] # <<>> /\ sent' = sent /\ withToken' = withToken
        /\ \A i \in 1..Len(arriving[s]) : arriving[s][i] <= sent[s]
    BY DEF Http!Take, Tokens, Counted
  <1>2. PICK k \in 1..Len(arriving[s]) :
            arriving' = [arriving EXCEPT ![s] = SubSeq(@, k + 1, Len(@))]
    BY DEF Http!Take
  <1> DEFINE rest == SubSeq(arriving[s], k + 1, Len(arriving[s]))
  <1>3. /\ rest \in Seq(Nat)
        /\ \A i \in 1..Len(rest) : rest[i] = arriving[s][k + i] /\ k + i \in 1..Len(arriving[s])
    BY <1>1, RestOf
  <1>4. arriving' = [arriving EXCEPT ![s] = rest]
    BY <1>2
  <1> HIDE DEF rest
  <1>5. /\ arriving' \in [Sessions -> Seq(Nat)]
        /\ \A x \in Sessions : arriving'[x] = IF x = s THEN rest ELSE arriving[x]
    BY <1>3, <1>4 DEF Tokens, Counted
  <1>6. \A i \in 1..Len(rest) : rest[i] <= sent[s]
    BY <1>1, <1>3
  <1>7. ASSUME NEW x \in Sessions, NEW i \in DOMAIN arriving'[x] PROVE arriving'[x][i] <= sent[x]
    <2>1. CASE x = s
      <3>1. arriving'[x] = rest /\ DOMAIN rest = 1..Len(rest)
        BY <1>3, <1>5, <2>1
      <3> QED BY <1>6, <1>7, <2>1, <3>1
    <2>2. CASE x # s
      BY <1>5, <1>7, <2>2 DEF Tokens, Counted
    <2> QED BY <2>1, <2>2
  <1>8. Counted'
    BY <1>1, <1>5, <1>7 DEF Tokens, Counted
  <1> QED BY <1>1, <1>8

LEMMA NextTokens == Tokens /\ [ServerNext]_allVars => Tokens'
  <1> SUFFICES ASSUME Tokens, HttpStep PROVE Tokens'
    BY StepOfServer
  <1>1. ASSUME NEW s \in Sessions, Http!Send(s) PROVE Tokens'
    <2>1. /\ sent' = [sent EXCEPT ![s] = @ + 1]
          /\ arriving' = [arriving EXCEPT ![s] = Append(@, sent[s] + 1)]
          /\ withToken' = [withToken EXCEPT ![s] = IF Http!HasToken(s) THEN @ \cup {sent[s] + 1} ELSE @]
          /\ UNCHANGED <<store, granted, refused>>
          /\ Http!HasToken(s) => s \in granted
      BY <1>1 DEF Http!Send, Http!HasToken, Http!auth
    <2>2. Counted'
      BY <2>1 DEF Tokens, Counted
    <2>3. Kept'
      BY <2>1 DEF Tokens, Kept, Counted
    <2>4. Refused'
      BY <2>1 DEF Tokens, Kept, Counted, Refused
    <2> QED BY <2>2, <2>3, <2>4 DEF Tokens
  <1>2. ASSUME NEW s \in Sessions, Http!Take(s), UNCHANGED <<store, granted, refused>> PROVE Tokens'
    BY <1>2, TakeTokens DEF Tokens, Kept, Refused
  <1>3. ASSUME NEW s \in Sessions, Http!OnReadUnauthorized(s) PROVE Tokens'
    <2>1. /\ Http!Take(s)
          /\ Head(arriving[s]) \notin withToken[s] \/ s \notin store
          /\ refused' = refused \cup {[session |-> s, number |-> Head(arriving[s])]}
          /\ UNCHANGED <<store, granted>>
      BY <1>3 DEF Http!OnReadUnauthorized, Http!Authenticated, Http!Resolves, Http!Task
    <2>2. Head(arriving[s]) \notin withToken[s]
      BY <2>1 DEF Tokens, Kept
    <2> QED BY <2>1, <2>2, TakeTokens DEF Tokens, Kept, Refused
  <1>4. ASSUME NEW s \in Sessions, Http!RunHandler(s) \/ Http!OnWrite(s) \/ Http!OnWriteFails(s)
                                    \/ Http!ReadEnds(s)
        PROVE  Tokens'
    BY <1>4 DEF Http!RunHandler, Http!OnWrite, Http!OnWriteFails, Http!ReadEnds, Http!client, Http!auth,
                Tokens, Counted, Kept, Refused
  <1>5. ASSUME NEW s \in Sessions, Http!Session(s) \/ Http!OnReadThrows(s) PROVE Tokens'
    BY <1>2, <1>3, <1>4, <1>5
       DEF Http!Session, Http!OnRead, Http!OnReadReplies, Http!OnReadDefers, Http!OnReadDetaches,
           Http!OnReadThrows, Http!auth
  <1>6. CASE Http!Abandon
    BY <1>6 DEF Http!Abandon, Tokens, Counted, Kept, Refused
  <1>7. ASSUME NEW w \in Producers, Http!Begin(w) \/ Http!Finish(w) PROVE Tokens'
    BY <1>7 DEF Http!Begin, Http!Finish, Http!Work, Http!IssueToken, Http!client, Http!auth,
                Tokens, Counted, Kept, Refused
  <1>8. CASE UNCHANGED httpVars
    BY <1>8 DEF httpVars, Tokens, Counted, Kept, Refused
  <1> QED BY <1>1, <1>5, <1>6, <1>7, <1>8 DEF HttpStep

\* A request with the token of its connection's login is never answered 401,
\* for any number of connections, workers and logins that run meanwhile.
THEOREM TokensAreHonoured == ServerSpec => []TokenHonoured
  <1>1. Tokens => TokenHonoured
    BY DEF Tokens, Refused, TokenHonoured, Http!TokenHonoured
  <1> QED BY InitTokens, NextTokens, <1>1, PTL DEF ServerSpec

-----------------------------------------------------------------------------
(* What a connection waits for.                                            *)

Tasks == [session : Sessions, number : Nat]

Kinds ==
    /\ accepted \in [Sessions -> Seq(Nat)] /\ answered \in [Sessions -> Seq(Nat)]
    /\ handlers \in [Sessions -> Seq(Nat)] /\ writing \in [Sessions -> Seq(Nat)]
    /\ reading \in [Sessions -> BOOLEAN] /\ writeInProgress \in [Sessions -> BOOLEAN]
    /\ detached \in [Sessions -> BOOLEAN] /\ ended \in [Sessions -> BOOLEAN]

PoolKinds == tasks \in Seq(Tasks) /\ running \in [Producers -> Tasks \cup {NoTask}]

Flags == \A s \in Sessions : writeInProgress[s] <=> writing[s] # <<>>

\* The request n is the one that has been read and not answered.
Owes(s, n) == accepted[s] = Append(answered[s], n)

NoTaskOf(s) == Http!Waiting(s) = {} /\ Http!Running(s) = {}

\* A connection is in one of five places, or it has ended or become a stream
\* and is in none.
Reads(s) ==
    /\ reading[s] /\ handlers[s] = <<>> /\ writing[s] = <<>> /\ NoTaskOf(s)
    /\ accepted[s] = answered[s]
Queued(s) ==
    /\ ~reading[s] /\ handlers[s] = <<>> /\ writing[s] = <<>> /\ Http!Running(s) = {}
    /\ \E i \in DOMAIN tasks : Http!Waiting(s) = {i} /\ Owes(s, tasks[i].number)
Runs(s) ==
    /\ ~reading[s] /\ handlers[s] = <<>> /\ writing[s] = <<>> /\ Http!Waiting(s) = {}
    /\ \E w \in Producers : Http!Running(s) = {w} /\ Owes(s, running[w].number)
Posted(s) ==
    /\ ~reading[s] /\ writing[s] = <<>> /\ NoTaskOf(s)
    /\ \E n \in Nat : handlers[s] = <<n>> /\ Owes(s, n)
Writes(s) ==
    /\ ~reading[s] /\ handlers[s] = <<>> /\ NoTaskOf(s)
    /\ \E n \in Nat : writing[s] = <<n>> /\ Owes(s, n)
Quiet(s) ==
    /\ ~reading[s] /\ handlers[s] = <<>> /\ writing[s] = <<>> /\ NoTaskOf(s)
    /\ accepted[s] = answered[s] \/ \E n \in Nat : Owes(s, n)

Place(s) ==
    IF ended[s] \/ detached[s]
    THEN Quiet(s)
    ELSE Reads(s) \/ Queued(s) \/ Runs(s) \/ Posted(s) \/ Writes(s)

Placed == \A s \in Sessions : Place(s)

\* What is left of the tasks once no thread serves finds no connection.
Orderly == Kinds /\ PoolKinds /\ Flags /\ AnswersInOrder /\ (Serving => Placed)

\* Everything that Place(s) looks at besides the tasks.
Strand(s) ==
    <<reading[s], handlers[s], writing[s], accepted[s], answered[s], ended[s], detached[s]>>

-----------------------------------------------------------------------------
\* The answers of a connection in any of its places are those of its first requests.
LEMMA PlaceOrdered ==
    ASSUME Kinds, PoolKinds, NEW s \in Sessions, Place(s)
    PROVE  Http!IsPrefix(answered[s], accepted[s])
  <1>1. answered[s] \in Seq(Nat) /\ accepted[s] \in Seq(Nat)
    BY DEF Kinds
  <1>2. accepted[s] = answered[s] \/ \E n \in Nat : accepted[s] = Append(answered[s], n)
    <2>1. CASE Queued(s)
      <3>1. \A i \in DOMAIN tasks : tasks[i] \in Tasks
        BY DEF PoolKinds
      <3> QED BY <2>1, <3>1 DEF Queued, Owes, Tasks
    <2>2. CASE Runs(s)
      <3>1. PICK w \in Producers : Http!Running(s) = {w} /\ Owes(s, running[w].number)
        BY <2>2 DEF Runs
      <3>2. running[w] # NoTask
        BY <3>1 DEF Http!Running
      <3>3. running[w].number \in Nat
        BY <3>2 DEF PoolKinds, Tasks
      <3> QED BY <3>1, <3>3 DEF Owes
    <2>3. CASE Quiet(s) \/ Reads(s) \/ Posted(s) \/ Writes(s)
      BY <2>3 DEF Reads, Posted, Writes, Quiet, Owes
    <2> QED BY <2>1, <2>2, <2>3 DEF Place
  <1>3. CASE accepted[s] = answered[s]
    BY <1>1, <1>3 DEF Http!IsPrefix
  <1>4. ASSUME NEW n \in Nat, accepted[s] = Append(answered[s], n)
        PROVE  Http!IsPrefix(answered[s], accepted[s])
    BY <1>1, <1>4 DEF Http!IsPrefix
  <1> QED BY <1>2, <1>3, <1>4

\* A connection whose tasks and variables are left alone stays where it is.
LEMMA PlaceKept ==
    ASSUME NEW s \in Sessions, Place(s), UNCHANGED Strand(s),
           UNCHANGED <<Http!Waiting(s), Http!Running(s)>>,
           \A i \in Http!Waiting(s) : i \in DOMAIN tasks' /\ tasks'[i] = tasks[i],
           \A w \in Http!Running(s) : running'[w] = running[w]
    PROVE  Place(s)'
  <1>1. CASE ended[s] \/ detached[s] \/ Reads(s) \/ Posted(s) \/ Writes(s)
    BY <1>1 DEF Place, Strand, Reads, Posted, Writes, Quiet, Owes, NoTaskOf, Queued, Runs
  <1>2. CASE ~(ended[s] \/ detached[s]) /\ Queued(s)
    BY <1>2 DEF Place, Strand, Queued, Owes
  <1>3. CASE ~(ended[s] \/ detached[s]) /\ Runs(s)
    BY <1>3 DEF Place, Strand, Runs, Owes
  <1> QED BY <1>1, <1>2, <1>3 DEF Place

\* The handlers of a connection leave the others alone.
LEMMA PoolKept ==
    ASSUME NEW s \in Sessions, Place(s), UNCHANGED Strand(s), UNCHANGED <<tasks, running>>
    PROVE  Place(s)'
  <1>1. \A i \in Http!Waiting(s) : i \in DOMAIN tasks
    BY DEF Http!Waiting
  <1>2. UNCHANGED <<Http!Waiting(s), Http!Running(s)>>
    BY DEF Http!Waiting, Http!Running
  <1> QED BY <1>1, <1>2, PlaceKept

-----------------------------------------------------------------------------
(* The handlers of a connection.                                           *)

\* A connection from which nothing else is expected while it reads.
LEMMA ReadsOnly ==
    ASSUME NEW s \in Sessions, Place(s)
    PROVE  /\ reading[s] => Reads(s) /\ ~ended[s] /\ ~detached[s]
           /\ handlers[s] # <<>> => Posted(s) /\ ~ended[s] /\ ~detached[s]
           /\ writing[s] # <<>> => Writes(s) /\ ~ended[s] /\ ~detached[s]
           /\ Http!Waiting(s) # {} => Queued(s) /\ ~ended[s] /\ ~detached[s]
           /\ Http!Running(s) # {} => Runs(s) /\ ~ended[s] /\ ~detached[s]
  BY DEF Place, Reads, Queued, Runs, Posted, Writes, Quiet, NoTaskOf

\* Once a request has been taken nothing is pending, and it is the one owed.
LEMMA TakeOwes ==
    ASSUME Counted, Kinds, NEW s \in Sessions, Place(s), Http!Take(s)
    PROVE  /\ ~ended[s] /\ ~detached[s] /\ handlers[s] = <<>> /\ writing[s] = <<>> /\ NoTaskOf(s)
           /\ accepted' = [accepted EXCEPT ![s] = Append(@, Head(arriving[s]))]
           /\ reading' = [reading EXCEPT ![s] = FALSE] /\ answered' = answered
           /\ Head(arriving[s]) \in Nat
           /\ accepted'[s] = Append(answered[s], Head(arriving[s]))
  <1>1. /\ reading[s] /\ arriving[s] # <<>> /\ arriving[s] \in Seq(Nat)
        /\ accepted' = [accepted EXCEPT ![s] = Append(@, Head(arriving[s]))]
        /\ reading' = [reading EXCEPT ![s] = FALSE] /\ answered' = answered
    BY DEF Http!Take, Counted
  <1>0. accepted \in [Sessions -> Seq(Nat)] /\ Head(arriving[s]) \in Nat
    BY <1>1 DEF Kinds
  <1>2. Reads(s) /\ ~ended[s] /\ ~detached[s]
    BY <1>1, ReadsOnly
  <1>3. accepted'[s] = Append(answered[s], Head(arriving[s]))
    BY <1>0, <1>1, <1>2 DEF Reads
  <1> QED BY <1>0, <1>1, <1>2, <1>3 DEF Reads

LEMMA PoolAlone ==
    ASSUME UNCHANGED <<tasks, running>>, PoolKinds, NEW s \in Sessions
    PROVE  PoolKinds' /\ (NoTaskOf(s)' <=> NoTaskOf(s))
  BY DEF PoolKinds, NoTaskOf, Http!Waiting, Http!Running

\* A handler of s keeps the types and flags, and finds s in its place again.
LEMMA HandlerPlaces ==
    ASSUME Counted, Kinds, PoolKinds, Flags, \A x \in Sessions : Place(x),
           NEW s \in Sessions, Http!Send(s) \/ Http!Session(s) \/ Http!OnReadThrows(s)
    PROVE  Kinds' /\ PoolKinds' /\ Flags' /\ \A x \in Sessions : Place(x)'
  <1> USE DEF Http!pool, Http!client, Http!session, Http!auth
  <1> DEFINE n == Head(arriving[s])
  <1>0. \A x \in Sessions \ {s} :
            UNCHANGED Strand(x) /\ UNCHANGED <<tasks, running>> => Place(x)'
    BY PoolKept
  <1>1. CASE Http!Send(s)
    <2>1. UNCHANGED <<accepted, reading, writeInProgress, writing, answered, detached, ended,
                      handlers, tasks, running>>
      BY <1>1 DEF Http!Send
    <2>2. \A x \in Sessions : Place(x)'
      BY <2>1, PoolKept DEF Strand
    <2> QED BY <2>1, <2>2, PoolAlone DEF Kinds, Flags
  <1>2. CASE Http!OnReadReplies(s) \/ Http!OnReadUnauthorized(s)
    <2>1. Http!Take(s) /\ Http!Write(s, n) /\ UNCHANGED <<ended, detached, handlers, tasks, running>>
      BY <1>2 DEF Http!OnReadReplies, Http!OnReadUnauthorized
    <2>0. /\ ~ended[s] /\ ~detached[s] /\ handlers[s] = <<>> /\ writing[s] = <<>> /\ NoTaskOf(s)
          /\ accepted' = [accepted EXCEPT ![s] = Append(@, n)]
          /\ reading' = [reading EXCEPT ![s] = FALSE] /\ answered' = answered
          /\ n \in Nat /\ accepted'[s] = Append(answered[s], n)
      BY <2>1, TakeOwes
    <2> HIDE DEF n
    <2>2. /\ writeInProgress' = [writeInProgress EXCEPT ![s] = TRUE]
          /\ writing' = [writing EXCEPT ![s] = <<n>>]
      BY <2>0, <2>1 DEF Http!Write
    <2>3. Kinds' /\ PoolKinds' /\ Flags'
      <3>1. Kinds'
        BY <2>0, <2>1, <2>2 DEF Kinds
      <3>2. Flags'
        BY <2>2 DEF Kinds, Flags
      <3> QED BY <2>1, <3>1, <3>2, PoolAlone
    <2>5. Writes(s)'
      <3>1. NoTaskOf(s)'
        BY <2>0, <2>1, PoolAlone
      <3>2. ~reading'[s] /\ handlers'[s] = <<>> /\ writing'[s] = <<n>>
        BY <2>0, <2>1, <2>2 DEF Kinds
      <3> QED BY <2>0, <3>1, <3>2 DEF Writes, Owes
    <2>6. Place(s)'
      BY <2>0, <2>1, <2>5 DEF Place
    <2>7. \A x \in Sessions \ {s} : UNCHANGED Strand(x)
      BY <2>0, <2>1, <2>2 DEF Strand, Kinds
    <2> QED BY <1>0, <2>1, <2>3, <2>6, <2>7
  <1>3. CASE Http!OnReadDefers(s)
    <2>1. /\ Http!Take(s) /\ tasks' = Append(tasks, [session |-> s, number |-> n])
          /\ UNCHANGED <<ended, running, writeInProgress, writing, detached, handlers>>
      BY <1>3 DEF Http!OnReadDefers, Http!Task
    <2>0. /\ ~ended[s] /\ ~detached[s] /\ handlers[s] = <<>> /\ writing[s] = <<>> /\ NoTaskOf(s)
          /\ accepted' = [accepted EXCEPT ![s] = Append(@, n)]
          /\ reading' = [reading EXCEPT ![s] = FALSE] /\ answered' = answered
          /\ n \in Nat /\ accepted'[s] = Append(answered[s], n)
      BY <2>1, TakeOwes
    <2> HIDE DEF n
    <2> DEFINE t == [session |-> s, number |-> n]
    <2>2. /\ tasks \in Seq(Tasks) /\ t \in Tasks /\ tasks' \in Seq(Tasks)
          /\ Len(tasks') = Len(tasks) + 1
          /\ \A i \in 1..Len(tasks) : tasks'[i] = tasks[i]
          /\ tasks'[Len(tasks) + 1] = t
      BY <2>0, <2>1 DEF PoolKinds, Tasks
    <2>3. Kinds' /\ PoolKinds' /\ Flags'
      <3>1. Kinds'
        <4>1. accepted' \in [Sessions -> Seq(Nat)]
          BY <2>0 DEF Kinds
        <4> QED BY <2>0, <2>1, <4>1 DEF Kinds
      <3> QED BY <2>1, <2>2, <3>1 DEF Flags, PoolKinds
    <2>4. Http!Waiting(s)' = {Len(tasks) + 1}
      <3>1. Http!Waiting(s) = {}
        BY <2>0, <2>1 DEF NoTaskOf
      <3>2. \A i \in 1..Len(tasks) : tasks'[i].session # s
        BY <2>2, <3>1 DEF Http!Waiting
      <3> QED BY <2>2, <3>2 DEF Http!Waiting
    <2>5. Queued(s)'
      <3>1. accepted'[s] = Append(answered'[s], n) /\ tasks'[Len(tasks) + 1].number = n
        BY <2>0, <2>2
      <3>2. Http!Running(s)' = {}
        BY <2>0, <2>1 DEF NoTaskOf, Http!Running
      <3>3. ~reading'[s] /\ handlers'[s] = <<>> /\ writing'[s] = <<>>
        BY <2>0, <2>1 DEF Kinds
      <3> QED BY <2>1, <2>2, <2>4, <3>1, <3>2, <3>3 DEF Queued, Owes
    <2>6. Place(s)'
      BY <2>1, <2>0, <2>5 DEF Place
    <2>7. ASSUME NEW x \in Sessions \ {s} PROVE Place(x)'
      <3>1. UNCHANGED Strand(x)
        BY <2>0, <2>1 DEF Strand, Kinds
      <3>2. Http!Waiting(x)' = Http!Waiting(x) /\ Http!Running(x)' = Http!Running(x)
        BY <2>1, <2>2 DEF Http!Waiting, Http!Running
      <3>3. \A i \in Http!Waiting(x) : i \in DOMAIN tasks' /\ tasks'[i] = tasks[i]
        BY <2>2 DEF Http!Waiting
      <3> QED BY <2>1, <3>1, <3>2, <3>3, PlaceKept
    <2> QED BY <2>3, <2>6, <2>7
  <1>4. CASE Http!OnReadDetaches(s) \/ Http!OnReadThrows(s)
    <2>1. /\ Http!Take(s) /\ UNCHANGED <<writeInProgress, writing, handlers, tasks, running>>
          /\ \/ detached' = [detached EXCEPT ![s] = TRUE] /\ ended' = ended
             \/ ended' = [ended EXCEPT ![s] = TRUE] /\ detached' = detached
      BY <1>4 DEF Http!OnReadDetaches, Http!OnReadThrows
    <2>0. /\ ~ended[s] /\ ~detached[s] /\ handlers[s] = <<>> /\ writing[s] = <<>> /\ NoTaskOf(s)
          /\ accepted' = [accepted EXCEPT ![s] = Append(@, n)]
          /\ reading' = [reading EXCEPT ![s] = FALSE] /\ answered' = answered
          /\ n \in Nat /\ accepted'[s] = Append(answered[s], n)
      BY <2>1, TakeOwes
    <2> HIDE DEF n
    <2>2. Kinds' /\ PoolKinds' /\ Flags'
      <3>1. Kinds'
        <4>1. accepted' \in [Sessions -> Seq(Nat)]
          BY <2>0 DEF Kinds
        <4> QED BY <2>0, <2>1, <4>1 DEF Kinds
      <3> QED BY <2>1, <3>1, PoolAlone DEF Flags
    <2>3. Quiet(s)' /\ (ended'[s] \/ detached'[s])
      <3>1. NoTaskOf(s)'
        BY <2>0, <2>1, PoolAlone
      <3>2. ~reading'[s] /\ handlers'[s] = <<>> /\ writing'[s] = <<>> /\ (ended'[s] \/ detached'[s])
        BY <2>0, <2>1 DEF Kinds
      <3> QED BY <2>0, <3>1, <3>2 DEF Quiet, Owes
    <2>4. \A x \in Sessions \ {s} : UNCHANGED Strand(x)
      BY <2>0, <2>1 DEF Strand, Kinds
    <2>5. Place(s)'
      BY <2>3 DEF Place
    <2> QED BY <1>0, <2>1, <2>2, <2>4, <2>5
  <1>5. CASE Http!ReadEnds(s)
    <2>1. /\ reading[s] /\ reading' = [reading EXCEPT ![s] = FALSE]
          /\ ended' = [ended EXCEPT ![s] = TRUE]
          /\ UNCHANGED <<accepted, handlers, writeInProgress, writing, answered, detached, tasks, running>>
      BY <1>5 DEF Http!ReadEnds
    <2>2. Kinds' /\ PoolKinds' /\ Flags'
      BY <2>1, PoolAlone DEF Kinds, Flags
    <2>3. Quiet(s)' /\ ended'[s]
      BY <2>1, ReadsOnly, PoolAlone DEF Reads, Quiet, Kinds
    <2>4. \A x \in Sessions \ {s} : UNCHANGED Strand(x)
      BY <2>1 DEF Strand, Kinds
    <2>5. Place(s)'
      BY <2>3 DEF Place
    <2> QED BY <1>0, <2>1, <2>2, <2>4, <2>5
  <1>6. CASE Http!RunHandler(s)
    <2>1. Posted(s) /\ ~ended[s] /\ ~detached[s] /\ ~writeInProgress[s]
      BY <1>6, ReadsOnly DEF Http!RunHandler, Posted, Flags
    <2>2. PICK k \in Nat : handlers[s] = <<k>> /\ Owes(s, k)
      BY <2>1 DEF Posted
    <2>3. /\ handlers' = [handlers EXCEPT ![s] = <<>>]
          /\ writeInProgress' = [writeInProgress EXCEPT ![s] = TRUE]
          /\ writing' = [writing EXCEPT ![s] = Append(@, k)]
          /\ UNCHANGED <<accepted, reading, answered, detached, ended, tasks, running>>
      BY <1>6, <2>1, <2>2 DEF Http!RunHandler, Http!Write
    <2>4. writing'[s] = <<k>>
      BY <2>1, <2>3 DEF Posted, Kinds
    <2>5. Kinds' /\ PoolKinds' /\ Flags'
      BY <2>3, <2>4, PoolAlone DEF Kinds, Flags
    <2>6. Writes(s)'
      BY <2>1, <2>2, <2>3, <2>4, PoolAlone DEF Posted, Writes, Kinds, Owes
    <2>7. Place(s)'
      BY <2>1, <2>3, <2>6 DEF Place
    <2>8. \A x \in Sessions \ {s} : UNCHANGED Strand(x)
      BY <2>3 DEF Strand, Kinds
    <2> QED BY <1>0, <2>3, <2>5, <2>7, <2>8
  <1>7. CASE Http!OnWrite(s) \/ Http!OnWriteFails(s)
    <2>1. Writes(s) /\ ~ended[s] /\ ~detached[s]
      BY <1>7, ReadsOnly DEF Http!OnWrite, Http!OnWriteFails
    <2>2. PICK k \in Nat : writing[s] = <<k>> /\ Owes(s, k)
      BY <2>1 DEF Writes
    <2>3. /\ writing' = [writing EXCEPT ![s] = <<>>]
          /\ writeInProgress' = [writeInProgress EXCEPT ![s] = FALSE]
          /\ UNCHANGED <<accepted, handlers, detached, tasks, running>>
          /\ \/ /\ answered' = [answered EXCEPT ![s] = Append(@, k)]
                /\ \E keepAlive \in BOOLEAN :
                     /\ reading' = [reading EXCEPT ![s] = keepAlive]
                     /\ ended' = [ended EXCEPT ![s] = ~keepAlive]
             \/ ended' = [ended EXCEPT ![s] = TRUE] /\ UNCHANGED <<answered, reading>>
      BY <1>7, <2>2 DEF Http!OnWrite, Http!OnWriteFails
    <2>4. Kinds' /\ PoolKinds' /\ Flags'
      <3>1. answered' \in [Sessions -> Seq(Nat)]
        <4>1. answered \in [Sessions -> Seq(Nat)] /\ Append(answered[s], k) \in Seq(Nat)
          BY DEF Kinds
        <4> QED BY <2>3, <4>1
      <3>5. writing' \in [Sessions -> Seq(Nat)]
        BY <2>3 DEF Kinds
      <3>2. reading' \in [Sessions -> BOOLEAN] /\ ended' \in [Sessions -> BOOLEAN]
        BY <2>3 DEF Kinds
      <3>3. writeInProgress' \in [Sessions -> BOOLEAN]
        BY <2>3 DEF Kinds
      <3>4. Flags'
        BY <2>3 DEF Kinds, Flags
      <3> QED BY <2>3, <3>1, <3>2, <3>3, <3>4, <3>5, PoolAlone DEF Kinds
    <2>5. IF ended'[s] THEN Quiet(s)' ELSE Reads(s)'
      BY <2>1, <2>2, <2>3, PoolAlone DEF Writes, Quiet, Reads, Kinds, Owes
    <2>6. Place(s)'
      BY <2>1, <2>3, <2>5 DEF Place
    <2>7. \A x \in Sessions \ {s} : UNCHANGED Strand(x)
      BY <2>3 DEF Strand, Kinds
    <2> QED BY <1>0, <2>3, <2>4, <2>6, <2>7
  <1> QED BY <1>1, <1>2, <1>3, <1>4, <1>5, <1>6, <1>7 DEF Http!Session, Http!OnRead

-----------------------------------------------------------------------------
(* The workers.                                                            *)

\* A worker takes the first task: the others move up, and its connection has
\* no other.
LEMMA BeginPlaces ==
    ASSUME Kinds, PoolKinds, Flags, \A x \in Sessions : Place(x),
           NEW w \in Producers, Http!Begin(w)
    PROVE  \A x \in Sessions : Place(x)'
  <1> DEFINE t == tasks[1]
  <1>1. /\ running[w] = NoTask /\ tasks \in Seq(Tasks) /\ tasks # <<>>
        /\ running' = [running EXCEPT ![w] = t] /\ tasks' = Tail(tasks)
        /\ UNCHANGED <<accepted, reading, writeInProgress, writing, answered, detached, ended, handlers>>
    BY DEF Http!Begin, PoolKinds, Http!session
  <1>2. /\ tasks' \in Seq(Tasks) /\ Len(tasks') = Len(tasks) - 1
        /\ \A i \in 1..Len(tasks') : tasks'[i] = tasks[i + 1]
        /\ 1 \in DOMAIN tasks /\ DOMAIN tasks = 1..Len(tasks) /\ DOMAIN tasks' = 1..Len(tasks')
        /\ t \in Tasks
    BY <1>1
  <1>3. t.session \in Sessions /\ t # NoTask
    BY <1>2, NoTaskAssumption DEF Tasks
  <1>4. \A v \in Producers : running'[v] = IF v = w THEN t ELSE running[v]
    BY <1>1 DEF PoolKinds
  <1> HIDE DEF t
  <1>5. \A x \in Sessions : UNCHANGED Strand(x)
    BY <1>1 DEF Strand
  <1>6. ASSUME NEW x \in Sessions, x = t.session PROVE Place(x)'
    <2>1. 1 \in Http!Waiting(x)
      BY <1>2, <1>6 DEF Http!Waiting, t
    <2>2. Queued(x) /\ ~ended[x] /\ ~detached[x]
      BY <2>1, ReadsOnly
    <2>3. Http!Waiting(x) = {1} /\ Owes(x, t.number) /\ Http!Running(x) = {}
      BY <2>1, <2>2 DEF Queued, t
    <2>4. Http!Waiting(x)' = {}
      <3>1. \A i \in 1..Len(tasks) : i # 1 => tasks[i].session # x
        BY <1>2, <2>3 DEF Http!Waiting
      <3>2. \A i \in 1..Len(tasks') : tasks'[i].session # x
        BY <1>1, <1>2, <3>1
      <3> QED BY <1>2, <3>2 DEF Http!Waiting
    <2>5. Http!Running(x)' = {w}
      BY <1>3, <1>4, <1>6, <2>3 DEF Http!Running
    <2>6. Runs(x)'
      <3>1. (running'[w]).number = t.number /\ accepted'[x] = Append(answered'[x], t.number)
        BY <1>1, <1>4, <2>3 DEF Owes
      <3> QED BY <1>1, <2>2, <2>4, <2>5, <3>1 DEF Runs, Queued, Owes
    <2> QED BY <1>1, <2>2, <2>6 DEF Place
  <1>7. ASSUME NEW x \in Sessions, x # t.session PROVE Place(x)'
    <2>1. Http!Running(x)' = Http!Running(x)
      BY <1>1, <1>4, <1>7 DEF Http!Running
    <2>2. \A i \in DOMAIN tasks' : i \in Http!Waiting(x)' <=> i + 1 \in Http!Waiting(x)
      BY <1>2 DEF Http!Waiting
    <2>3. 1 \notin Http!Waiting(x)
      BY <1>7 DEF Http!Waiting, t
    <2>4. CASE Http!Waiting(x) = {}
      <3>1. Http!Waiting(x)' = {}
        BY <2>2, <2>4 DEF Http!Waiting
      <3>2. \A v \in Http!Running(x) : running'[v] = running[v]
        BY <1>1, <1>4 DEF Http!Running
      <3> QED BY <1>5, <2>1, <2>4, <3>1, <3>2, PlaceKept
    <2>5. CASE Http!Waiting(x) # {}
      <3>1. Queued(x) /\ ~ended[x] /\ ~detached[x]
        BY <2>5, ReadsOnly
      <3>2. PICK i \in DOMAIN tasks : Http!Waiting(x) = {i} /\ Owes(x, tasks[i].number)
        BY <3>1 DEF Queued
      <3>3. i - 1 \in DOMAIN tasks' /\ tasks'[i - 1] = tasks[i] /\ i \in Nat
        BY <1>1, <1>2, <2>3, <3>2
      <3>4. Http!Waiting(x)' = {i - 1}
        <4>1. \A j \in DOMAIN tasks' : j + 1 = i <=> j = i - 1
          BY <1>2, <3>3
        <4> QED BY <2>2, <3>2, <3>3, <4>1 DEF Http!Waiting
      <3>5. accepted'[x] = Append(answered'[x], (tasks'[i - 1]).number)
        BY <1>1, <3>2, <3>3 DEF Owes
      <3>6. Queued(x)'
        BY <1>1, <2>1, <3>1, <3>3, <3>4, <3>5 DEF Queued, Owes
      <3> QED BY <1>1, <3>1, <3>6 DEF Place
    <2> QED BY <2>4, <2>5
  <1> QED BY <1>6, <1>7

\* A task ends with its answer on the strand of its connection.
LEMMA FinishPlaces ==
    ASSUME Kinds, PoolKinds, Flags, \A x \in Sessions : Place(x),
           NEW w \in Producers, Http!Finish(w)
    PROVE  \A x \in Sessions : Place(x)'
  <1> DEFINE t == running[w]
  <1>1. /\ running' = [running EXCEPT ![w] = NoTask]
        /\ handlers' = [handlers EXCEPT ![t.session] = Append(@, t.number)]
        /\ UNCHANGED <<accepted, reading, writeInProgress, writing, answered, detached, ended, tasks>>
        /\ t # NoTask
    BY DEF Http!Finish, Http!session
  <1>2. t.session \in Sessions /\ t.number \in Nat
    BY <1>1 DEF PoolKinds, Tasks
  <1>3. \A v \in Producers : running'[v] = IF v = w THEN NoTask ELSE running[v]
    BY <1>1 DEF PoolKinds
  <1> HIDE DEF t
  <1>4. \A x \in Sessions : Http!Waiting(x)' = Http!Waiting(x)
    BY <1>1 DEF Http!Waiting
  <1>5. ASSUME NEW x \in Sessions, x = t.session PROVE Place(x)'
    <2>1. w \in Http!Running(x)
      BY <1>1, <1>5 DEF Http!Running, t
    <2>2. Runs(x) /\ ~ended[x] /\ ~detached[x]
      BY <2>1, ReadsOnly
    <2>3. Http!Running(x) = {w} /\ Owes(x, t.number)
      BY <2>1, <2>2 DEF Runs, t
    <2>4. Http!Running(x)' = {}
      BY <1>3, <2>3 DEF Http!Running
    <2>5. handlers'[x] = <<t.number>>
      BY <1>1, <1>2, <1>5, <2>2 DEF Runs, Kinds
    <2>6. Posted(x)'
      <3>1. accepted'[x] = Append(answered'[x], t.number)
        BY <1>1, <2>3 DEF Owes
      <3> QED BY <1>1, <1>2, <1>4, <2>2, <2>4, <2>5, <3>1 DEF Runs, Posted, Owes, NoTaskOf
    <2> QED BY <1>1, <2>2, <2>6 DEF Place
  <1>6. ASSUME NEW x \in Sessions, x # t.session PROVE Place(x)'
    <2>1. UNCHANGED Strand(x)
      BY <1>1, <1>6 DEF Strand, Kinds
    <2>2. w \notin Http!Running(x)
      BY <1>6 DEF Http!Running, t
    <2>3. Http!Running(x)' = Http!Running(x) /\ \A v \in Http!Running(x) : running'[v] = running[v]
      BY <1>3, <2>2 DEF Http!Running
    <2>4. \A i \in Http!Waiting(x) : i \in DOMAIN tasks' /\ tasks'[i] = tasks[i]
      BY <1>1 DEF Http!Waiting
    <2> QED BY <1>4, <2>1, <2>3, <2>4, PlaceKept
  <1> QED BY <1>5, <1>6

LEMMA TaskKinds ==
    ASSUME Kinds, PoolKinds, Flags, NEW w \in Producers, Http!Begin(w) \/ Http!Finish(w)
    PROVE  Kinds' /\ PoolKinds' /\ Flags' /\ UNCHANGED <<accepted, answered>>
  <1>1. CASE Http!Begin(w)
    <2>1. /\ tasks \in Seq(Tasks) /\ tasks # <<>> /\ tasks' = Tail(tasks)
          /\ running' = [running EXCEPT ![w] = Head(tasks)]
          /\ UNCHANGED <<accepted, reading, writeInProgress, writing, answered, detached, ended, handlers>>
      BY <1>1 DEF Http!Begin, PoolKinds, Http!session
    <2>2. tasks' \in Seq(Tasks) /\ Head(tasks) \in Tasks
      BY <2>1
    <2> QED BY <2>1, <2>2 DEF Kinds, PoolKinds, Flags
  <1>2. CASE Http!Finish(w)
    <2>1. /\ running[w] # NoTask /\ running' = [running EXCEPT ![w] = NoTask]
          /\ handlers' = [handlers EXCEPT ![running[w].session] = Append(@, running[w].number)]
          /\ UNCHANGED <<accepted, reading, writeInProgress, writing, answered, detached, ended, tasks>>
      BY <1>2 DEF Http!Finish, Http!session
    <2>2. running[w].session \in Sessions /\ running[w].number \in Nat
      BY <2>1 DEF PoolKinds, Tasks
    <2>3. handlers' \in [Sessions -> Seq(Nat)]
      BY <2>1, <2>2 DEF Kinds
    <2> QED BY <2>1, <2>3 DEF Kinds, PoolKinds, Flags
  <1> QED BY <1>1, <1>2

-----------------------------------------------------------------------------
LEMMA PlacesOrdered == Kinds /\ PoolKinds /\ Placed => AnswersInOrder
  BY PlaceOrdered DEF Placed, AnswersInOrder, Http!AnswersInOrder

LEMMA InitOrderly == ServerInit => Orderly
  <1> SUFFICES ASSUME ServerInit PROVE Orderly
    OBVIOUS
  <1> USE DEF ServerInit, Http!Init
  <1>1. Kinds /\ PoolKinds /\ Flags
    BY DEF Kinds, PoolKinds, Flags
  <1>2. ASSUME NEW s \in Sessions PROVE Place(s)
    BY DEF Place, Reads, NoTaskOf, Http!Waiting, Http!Running
  <1>3. AnswersInOrder
    BY <1>1, <1>2, PlacesOrdered DEF Placed
  <1> QED BY <1>1, <1>2, <1>3 DEF Orderly, Placed

LEMMA NextOrderly == Tokens /\ Orderly /\ [ServerNext]_allVars => Orderly'
  <1> SUFFICES ASSUME Tokens, Orderly, HttpStep, Serving' => Serving PROVE Orderly'
    BY StepOfServer
  <1> USE DEF Orderly
  <1>0. Kinds' /\ PoolKinds' /\ Placed' => AnswersInOrder'
    BY PlacesOrdered, PTL
  <1>1. ASSUME Serving, NEW s \in Sessions, Http!Send(s) \/ Http!Session(s) \/ Http!OnReadThrows(s)
        PROVE  Orderly'
    <2>1. Kinds' /\ PoolKinds' /\ Flags' /\ Placed'
      BY <1>1, HandlerPlaces DEF Tokens, Placed
    <2> QED BY <1>0, <2>1
  <1>2. CASE ~Serving' /\ Http!Abandon
    <2>1. Kinds' /\ PoolKinds' /\ Flags'
      BY <1>2 DEF Http!Abandon, Http!pool, Kinds, PoolKinds, Flags
    <2>2. AnswersInOrder'
      BY <1>2 DEF Http!Abandon, AnswersInOrder, Http!AnswersInOrder, Http!IsPrefix
    <2> QED BY <1>2, <2>1, <2>2
  <1>3. ASSUME NEW w \in Producers, Http!Begin(w) \/ Http!Finish(w) PROVE Orderly'
    <2>1. Kinds' /\ PoolKinds' /\ Flags' /\ UNCHANGED <<accepted, answered>>
      BY <1>3, TaskKinds
    <2>2. AnswersInOrder'
      BY <2>1 DEF AnswersInOrder, Http!AnswersInOrder
    <2>3. Serving => Placed'
      BY <1>3, BeginPlaces, FinishPlaces DEF Placed
    <2> QED BY <2>1, <2>2, <2>3
  <1>4. CASE UNCHANGED httpVars
    <2>1. Kinds' /\ PoolKinds' /\ Flags' /\ AnswersInOrder'
      BY <1>4 DEF httpVars, Kinds, PoolKinds, Flags, AnswersInOrder, Http!AnswersInOrder
    <2>2. Serving => Placed'
      BY <1>4, PoolKept DEF httpVars, Strand, Placed
    <2> QED BY <2>1, <2>2
  <1> QED BY <1>1, <1>2, <1>3, <1>4 DEF HttpStep

\* Clients get the answers in the order of their requests, each once, for any
\* number of connections, workers and I/O threads.
THEOREM AnswersAreInOrder == ServerSpec => []AnswersInOrder
  <1>1. Orderly => AnswersInOrder
    BY DEF Orderly
  <1> QED BY InitTokens, NextTokens, InitOrderly, NextOrderly, <1>1, PTL DEF ServerSpec

\* What is pending for a connection in each of its places.
LEMMA PlacePending ==
    ASSUME Kinds, NEW s \in Sessions, Place(s)
    PROVE  (IF reading[s] THEN 1 ELSE 0) + Http!TasksOf(s) + Len(handlers[s]) + Len(writing[s])
               = IF ended[s] \/ detached[s] THEN 0 ELSE 1
  <1>0. \A S : Http!Cardinality(S) = Cardinality(S)
    BY Zenon DEF Http!Cardinality, Cardinality
  <1>1. Http!Cardinality({}) = 0 /\ \A x : Http!Cardinality({x}) = 1
    BY <1>0, FS_EmptySet, FS_Singleton
  <1>2. Len(<<>>) = 0 /\ \A n : Len(<<n>>) = 1
    OBVIOUS
  <1> DEFINE inPool == Http!TasksOf(s)
             pendings == (IF reading[s] THEN 1 ELSE 0) + inPool + Len(handlers[s]) + Len(writing[s])
  <1>3. NoTaskOf(s) => inPool = 0
    BY <1>1 DEF NoTaskOf, Http!TasksOf
  <1>4. Queued(s) \/ Runs(s) => inPool = 1
    <2>1. ASSUME Queued(s) PROVE inPool = 1
      <3>1. Http!Running(s) = {} /\ \E i : Http!Waiting(s) = {i}
        BY <2>1 DEF Queued
      <3>2. Http!Cardinality(Http!Running(s)) = 0 /\ Http!Cardinality(Http!Waiting(s)) = 1
        BY <1>1, <3>1, Zenon
      <3> QED BY <3>2 DEF Http!TasksOf
    <2>2. ASSUME Runs(s) PROVE inPool = 1
      <3>1. Http!Waiting(s) = {} /\ \E w : Http!Running(s) = {w}
        BY <2>2 DEF Runs
      <3>2. Http!Cardinality(Http!Waiting(s)) = 0 /\ Http!Cardinality(Http!Running(s)) = 1
        BY <1>1, <3>1, Zenon
      <3> QED BY <3>2 DEF Http!TasksOf
    <2> QED BY <2>1, <2>2
  <1> HIDE DEF inPool
  <1>5. CASE ended[s] \/ detached[s]
    <2>1. ~reading[s] /\ inPool = 0 /\ handlers[s] = <<>> /\ writing[s] = <<>>
      BY <1>3, <1>5 DEF Place, Quiet
    <2>2. pendings = 0
      BY <1>2, <2>1
    <2> QED BY <1>5, <2>2 DEF inPool
  <1>6. CASE ~(ended[s] \/ detached[s])
    <2>1. pendings = 1
      <3>1. CASE Reads(s)
        BY <1>2, <1>3, <3>1 DEF Reads
      <3>2. CASE Queued(s) \/ Runs(s)
        <4>1. ~reading[s] /\ inPool = 1 /\ handlers[s] = <<>> /\ writing[s] = <<>>
          BY <1>4, <3>2 DEF Queued, Runs
        <4> QED BY <1>2, <4>1
      <3>3. CASE Posted(s)
        BY <1>2, <1>3, <3>3 DEF Posted
      <3>4. CASE Writes(s)
        BY <1>2, <1>3, <3>4 DEF Writes
      <3> QED BY <1>6, <3>1, <3>2, <3>3, <3>4 DEF Place
    <2> QED BY <1>6, <2>1 DEF inPool
  <1> QED BY <1>5, <1>6

\* A connection waits for exactly one thing - a request, a worker, the strand or
\* the end of a write - and one that has ended or become a stream for none, as
\* long as some thread serves.
THEOREM OneThingIsPending == ServerSpec => []OnePending
  <1>1. Orderly => OnePending
    BY PlacePending DEF Orderly, Placed, OnePending, Http!OnePending
  <1> QED BY InitTokens, NextTokens, InitOrderly, NextOrderly, <1>1, PTL DEF ServerSpec

-----------------------------------------------------------------------------
(* Identifiers, for any number of threads, however the loads of lastValue  *)
(* are reordered.                                                          *)

\* A thread in the loop has read a value that was stored, and a time not before
\* the beginning of its call; a call that has returned has put its value behind
\* all that were there when it began.
Consistent ==
    \A t \in Threads :
        /\ begun[t].time <= clock
        /\ pc[t] # "idle" =>
             begun[t].time <= currentTime[t] /\ begun[t].length <= Len(order)
        /\ pc[t] = "idle" =>
             begun[t].time <= id[t]
               /\ \E i \in 1..Len(order) : order[i] = id[t] /\ begun[t].length < i

IdInv == IdTypes /\ Increasing /\ Consistent

-----------------------------------------------------------------------------
\* The candidate of a call is above the last value it has read, and not before
\* the time it has read (id-generator.h:22).
LEMMA CandidateAbove ==
    ASSUME IdTypes, NEW t \in Threads
    PROVE  /\ Candidate(t) \in Nat
           /\ Candidate(t) > last[t]
           /\ Candidate(t) >= currentTime[t]
  BY DEF IdTypes, Candidate

\* A load returns a natural number, and a position of the modification order.
LEMMA ReadTyped ==
    ASSUME IdTypes, NEW t \in Threads, Read(t)
    PROVE  /\ last' \in [Threads -> Nat]
           /\ seen' \in [Threads -> Nat]
           /\ \A u \in Threads : seen'[u] \in 1..Len(order)
  <1>1. PICK i \in seen[t]..Len(order) :
            /\ last' = [last EXCEPT ![t] = order[i]]
            /\ seen' = [seen EXCEPT ![t] = i]
    BY DEF Read
  <1>2. /\ seen \in [Threads -> Nat] /\ last \in [Threads -> Nat]
        /\ order \in Seq(Nat) /\ \A u \in Threads : seen[u] \in 1..Len(order)
    BY DEF IdTypes
  <1>3. i \in 1..Len(order) /\ i \in Nat
    BY <1>2
  <1>4. order[i] \in Nat
    BY <1>2, <1>3
  <1>5. last' \in [Threads -> Nat]
    BY <1>1, <1>2, <1>4
  <1>6. seen' \in [Threads -> Nat]
    BY <1>1, <1>2, <1>3
  <1>7. \A u \in Threads : seen'[u] \in 1..Len(order)
    BY <1>1, <1>2, <1>3
  <1> QED BY <1>5, <1>6, <1>7

\* The initial state satisfies the invariant.
LEMMA InitIdInv == IdInit => IdInv
  BY MaxTimeAssumption, MaxIdsAssumption DEF IdInit, IdInv, IdTypes, Increasing, Consistent

-----------------------------------------------------------------------------
\* A successful compare_exchange appends a value above all others.
LEMMA ExchangeInv ==
    ASSUME IdInv, NEW t \in Threads, Exchange(t)
    PROVE  IdInv'
  <1> DEFINE c == Candidate(t)
             n == Len(order)
  <1>1. c \in Nat /\ c > last[t] /\ c >= currentTime[t]
    BY CandidateAbove DEF IdInv
  <1>2. /\ order \in Seq(Nat) /\ n \in Nat /\ n >= 1 /\ n <= MaxIds
        /\ order' = Append(order, c)
    BY MaxIdsAssumption DEF IdInv, IdTypes, Exchange
  <1>3. /\ order' \in Seq(Nat) /\ Len(order') = n + 1
        /\ order'[n + 1] = c
        /\ \A i \in 1..n : order'[i] = order[i]
    BY <1>1, <1>2
  <1>4. order[n] = last[t]
    BY DEF Exchange, CanExchange, lastValue
  <1>5. IdTypes'
    <2>1. id' \in [Threads -> Nat]
      BY <1>1 DEF IdInv, IdTypes, Exchange
    <2>2. seen' \in [Threads -> Nat]
      BY <1>2 DEF IdInv, IdTypes, Exchange
    <2>3. \A u \in Threads : seen'[u] \in 1..Len(order')
      <3> SUFFICES ASSUME NEW u \in Threads PROVE seen'[u] \in 1..(n + 1)
        BY <1>3
      <3>1. seen \in [Threads -> Nat] /\ seen[u] \in 1..n
        BY DEF IdInv, IdTypes
      <3>2. seen'[u] = IF u = t THEN n + 1 ELSE seen[u]
        BY <3>1 DEF Exchange
      <3> QED BY <1>2, <3>1, <3>2
    <2>4. Len(order') \in 1..(MaxIds + 1)
      BY <1>2, <1>3, MaxIdsAssumption
    <2>5. pc' \in [Threads -> {"idle", "load", "cas", "retry"}]
      BY DEF IdInv, IdTypes, Exchange
    <2>6. /\ clock' \in 0..MaxTime
          /\ currentTime' \in [Threads -> Nat]
          /\ last' \in [Threads -> Nat]
          /\ begun' \in [Threads -> [time : Nat, length : Nat]]
      BY DEF IdInv, IdTypes, Exchange
    <2> QED BY <1>3, <2>1, <2>2, <2>3, <2>4, <2>5, <2>6 DEF IdTypes
  <1>6. Increasing'
    <2> SUFFICES ASSUME NEW i \in 1..(n + 1), NEW j \in 1..(n + 1), i < j
                 PROVE  order'[i] < order'[j]
      BY <1>3 DEF Increasing
    <2>1. CASE j <= n
      BY <1>2, <1>3, <2>1 DEF IdInv, Increasing
    <2>2. CASE j = n + 1
      <3>1. i \in 1..n /\ order[i] \in Nat /\ order[n] \in Nat
        BY <1>2, <2>2
      <3>2. order[i] <= order[n]
        BY <1>2, <3>1 DEF IdInv, Increasing
      <3> QED BY <1>1, <1>3, <1>4, <2>2, <3>1, <3>2
    <2> QED BY <1>2, <2>1, <2>2
  <1>7. Consistent'
    <2> SUFFICES ASSUME NEW u \in Threads
                 PROVE  /\ begun[u].time <= clock
                        /\ pc'[u] # "idle" =>
                             begun[u].time <= currentTime[u] /\ begun[u].length <= Len(order')
                        /\ pc'[u] = "idle" =>
                             begun[u].time <= id'[u]
                               /\ \E i \in 1..Len(order') : order'[i] = id'[u]
                                                              /\ begun[u].length < i
      BY DEF Consistent, Exchange
    <2>1. begun[u].length \in Nat /\ begun[u].time \in Nat /\ currentTime[u] \in Nat
      BY DEF IdInv, IdTypes
    <2>2. CASE u = t
      <3>1. pc'[t] = "idle" /\ id'[t] = c
        BY DEF Exchange, IdInv, IdTypes
      <3>2. begun[t].time <= currentTime[t] /\ begun[t].length <= n /\ begun[t].time <= clock
        BY DEF IdInv, Consistent, Exchange
      <3> QED BY <1>1, <1>2, <1>3, <2>1, <2>2, <3>1, <3>2
    <2>3. CASE u # t
      <3>1. pc'[u] = pc[u] /\ id'[u] = id[u]
        BY <2>3 DEF Exchange, IdInv, IdTypes
      <3>2. CASE pc[u] = "idle"
        <4>1. PICK i \in 1..n : order[i] = id[u] /\ begun[u].length < i
          BY <3>2 DEF IdInv, Consistent
        <4>2. i \in 1..Len(order') /\ order'[i] = id[u]
          BY <1>2, <1>3, <4>1
        <4> QED BY <3>1, <3>2, <4>1, <4>2 DEF IdInv, Consistent
      <3>3. CASE pc[u] # "idle"
        BY <1>2, <1>3, <2>1, <3>1, <3>3 DEF IdInv, Consistent
      <3> QED BY <3>2, <3>3
    <2> QED BY <2>2, <2>3
  <1> QED BY <1>5, <1>6, <1>7 DEF IdInv

\* Every step keeps the invariant.
LEMMA NextIdInv == IdInv /\ [IdNext]_idVars => IdInv'
  <1> SUFFICES ASSUME IdInv, [IdNext]_idVars PROVE IdInv'
    OBVIOUS
  <1>1. CASE Tick
    <2>1. IdTypes'
      BY <1>1, MaxTimeAssumption DEF IdInv, IdTypes, Tick
    <2>2. Increasing'
      BY <1>1 DEF IdInv, Increasing, Tick
    <2>3. Consistent'
      <3> SUFFICES ASSUME NEW u \in Threads PROVE begun[u].time <= clock + 1
        BY <1>1 DEF IdInv, Consistent, Tick
      <3> QED BY MaxTimeAssumption DEF IdInv, IdTypes, Consistent
    <2> QED BY <2>1, <2>2, <2>3 DEF IdInv
  <1>2. ASSUME NEW t \in Threads, Call(t) PROVE IdInv'
    <2>1. IdTypes' /\ Increasing'
      BY <1>2 DEF IdInv, IdTypes, Increasing, Call
    <2>2. begun'[t] = [time |-> clock, length |-> Len(order)]
      BY <1>2 DEF IdInv, IdTypes, Call
    <2>3. begun'[t].time = clock /\ begun'[t].length = Len(order)
      BY <2>2
    <2>4. currentTime'[t] = clock /\ pc'[t] = "load"
      BY <1>2 DEF IdInv, IdTypes, Call
    <2>5. ASSUME NEW u \in Threads, u # t
          PROVE  begun'[u] = begun[u] /\ currentTime'[u] = currentTime[u] /\ pc'[u] = pc[u]
      BY <1>2, <2>5 DEF IdInv, IdTypes, Call
    <2>6. clock \in Nat /\ Len(order) \in Nat
      BY MaxTimeAssumption DEF IdInv, IdTypes
    <2>7. Consistent'
      BY <1>2, <2>3, <2>4, <2>5, <2>6 DEF IdInv, Consistent, Call
    <2> QED BY <2>1, <2>7 DEF IdInv
  <1>3. ASSUME NEW t \in Threads, Load(t) PROVE IdInv'
    <2>1. IdTypes' /\ Increasing'
      BY <1>3, ReadTyped DEF IdInv, IdTypes, Increasing, Load
    <2>2. Consistent'
      BY <1>3 DEF IdInv, IdTypes, Consistent, Load
    <2> QED BY <2>1, <2>2 DEF IdInv
  <1>4. ASSUME NEW t \in Threads, Exchange(t) PROVE IdInv'
    BY <1>4, ExchangeInv
  <1>5. ASSUME NEW t \in Threads, ExchangeFails(t) PROVE IdInv'
    <2>1. IdTypes' /\ Increasing'
      BY <1>5, ReadTyped DEF IdInv, IdTypes, Increasing, ExchangeFails
    <2>2. Consistent'
      BY <1>5 DEF IdInv, IdTypes, Consistent, ExchangeFails
    <2> QED BY <2>1, <2>2 DEF IdInv
  <1>6. ASSUME NEW t \in Threads, Retry(t) PROVE IdInv'
    <2>1. IdTypes' /\ Increasing'
      BY <1>6 DEF IdInv, IdTypes, Increasing, Retry
    <2>2. Consistent'
      BY <1>6 DEF IdInv, IdTypes, Consistent, Retry
    <2> QED BY <2>1, <2>2 DEF IdInv
  <1>7. CASE UNCHANGED idVars
    BY <1>7 DEF IdInv, IdTypes, Increasing, Consistent, idVars
  <1> QED BY <1>1, <1>2, <1>3, <1>4, <1>5, <1>6, <1>7 DEF IdNext

LEMMA IdInvariant == IdSpec => []IdInv
  BY InitIdInv, NextIdInv, PTL DEF IdSpec

-----------------------------------------------------------------------------
\* Type correctness.
THEOREM IdsAreTyped == IdSpec => []IdTypes
  <1>1. IdInv => IdTypes
    BY DEF IdInv
  <1> QED BY IdInvariant, <1>1, PTL

\* Identifiers are distinct and grow in the order in which they are issued, for
\* any number of concurrent calls of generateId().
THEOREM IdsIncrease == IdSpec => []Increasing
  <1>1. IdInv => Increasing
    BY DEF IdInv
  <1> QED BY IdInvariant, <1>1, PTL

\* A call of generateId() returns more than all calls before it.
THEOREM IdsFollowCalls == IdSpec => []CallsOrdered
  <1>1. IdInv => CallsOrdered
    <2> SUFFICES ASSUME IdInv, NEW t \in Threads, pc[t] = "idle",
                        NEW i \in 1..begun[t].length
                 PROVE  order[i] < id[t]
      BY DEF CallsOrdered
    <2>1. PICK j \in 1..Len(order) : order[j] = id[t] /\ begun[t].length < j
      BY DEF IdInv, Consistent
    <2>2. begun[t].length \in Nat /\ Len(order) \in Nat
      BY DEF IdInv, IdTypes
    <2>3. i \in 1..Len(order) /\ i < j
      BY <2>1, <2>2
    <2> QED BY <2>1, <2>3 DEF IdInv, Increasing
  <1> QED BY IdInvariant, <1>1, PTL

\* A call of generateId() never returns a time before its beginning.
THEOREM IdsFollowTheClock == IdSpec => []NotBeforeCall
  <1>1. IdInv => NotBeforeCall
    BY DEF IdInv, Consistent, NotBeforeCall
  <1> QED BY IdInvariant, <1>1, PTL
=============================================================================
