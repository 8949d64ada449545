------------------------- MODULE NotificationStreams -------------------------
(***************************************************************************)
(* The streams of server-sent events: the registry of active sessions, the *)
(* worker of the event bus that publishes to it, and one SseSession per    *)
(* connected client, with its outbox and the write it has under way.       *)
(*                                                                         *)
(* The handlers of a session run one at a time: its own strand is made on  *)
(* the executor of its stream, which is the strand the listener gave to    *)
(* the socket.  handleStream runs there too, so that dispatch() calls      *)
(* doStart at once, and whatever is posted waits until it has returned.    *)
(***************************************************************************)
EXTENDS Naturals, Sequences

CONSTANTS
    Sessions,    \* sessions, by their id
    Users,       \* logged-in users
    MaxEvents    \* bound of the model: events published

ASSUME MaxEventsAssumption == MaxEvents \in Nat

VARIABLES
    registry,          \* m_sessions: the sessions in it
    snapshot,          \* the sessions publish() has collected and not yet served
    published,         \* history: the users each event is for
    pc,                \* session -> the progress of handleStream
    user,              \* session -> m_userId: whoever opens it
    joined,            \* history: session -> events published before its add()
    handlers,          \* session -> what has been posted to its executor
    outbox,            \* session -> m_outbox
    writeInProgress,   \* session -> m_writeInProgress
    writes,            \* session -> calls of async_write that have not completed
    closed,            \* session -> m_closed
    sent               \* session -> what has been written to its stream

bus     == <<snapshot, published>>
request == <<pc, user, joined>>
stream  == <<outbox, writeInProgress, writes, sent>>
vars    == <<registry, bus, request, handlers, stream, closed>>

-----------------------------------------------------------------------------
\* What a stream carries: the response header, the comment behind it, the
\* event "connected" of the session's own, and the published events.
Header    == [kind |-> "header", number |-> 0]
Comment   == [kind |-> "comment", number |-> 0]
Connected == [kind |-> "connected", number |-> 0]
Event(n)  == [kind |-> "event", number |-> n]

\* publishToUser and publishToAll.
Audiences == {{u} : u \in Users} \cup {Users}

-----------------------------------------------------------------------------
(* The event bus's worker: SseNotificationBridge and the registry.         *)

\* Mutant: every event goes to everyone.
Publish_ToAll ==
    /\ snapshot = {}
    /\ Len(published) < MaxEvents
    /\ \E a \in Audiences : published' = Append(published, a)
    /\ snapshot' = registry
    /\ UNCHANGED <<registry, request, handlers, stream, closed>>

\* collectUserSessions, collectAllSessions: a copy, under the shared lock.
Publish ==
    /\ snapshot = {}
    /\ Len(published) < MaxEvents
    /\ \E a \in Audiences :
         /\ published' = Append(published, a)
         /\ snapshot' = {s \in registry : user[s] \in a}
    /\ UNCHANGED <<registry, request, handlers, stream, closed>>

\* SseSession::sendEvent of one of them.
SendEvent(s) ==
    /\ s \in snapshot
    /\ snapshot' = snapshot \ {s}
    /\ handlers' = [handlers EXCEPT ![s] = Append(@, Event(Len(published)))]
    /\ UNCHANGED <<registry, published, request, stream, closed>>

-----------------------------------------------------------------------------
(* NotificationController::handleStream.                                   *)

Add(s) ==
    /\ pc[s] = "absent"
    /\ registry' = registry \cup {s}
    /\ joined' = [joined EXCEPT ![s] = Len(published)]
    /\ pc' = [pc EXCEPT ![s] = "start"]
    /\ UNCHANGED <<bus, user, handlers, stream, closed>>

\* doStart: the header and the comment are queued and the first is written.
Start(s) ==
    /\ pc[s] = "start"
    /\ pc' = [pc EXCEPT ![s] = "connected"]
    /\ outbox' = [outbox EXCEPT ![s] = <<Header, Comment>>]
    /\ writeInProgress' = [writeInProgress EXCEPT ![s] = TRUE]
    /\ writes' = [writes EXCEPT ![s] = @ + 1]
    /\ UNCHANGED <<registry, bus, user, joined, handlers, closed, sent>>

SendConnected(s) ==
    /\ pc[s] = "connected"
    /\ pc' = [pc EXCEPT ![s] = "open"]
    /\ handlers' = [handlers EXCEPT ![s] = Append(@, Connected)]
    /\ UNCHANGED <<registry, bus, user, joined, stream, closed>>

-----------------------------------------------------------------------------
(* SseSession, on its strand.                                              *)

\* enqueue: a write is started unless one is under way.
Enqueue(s, item) ==
    /\ outbox' = [outbox EXCEPT ![s] = Append(@, item)]
    /\ writes' = [writes EXCEPT ![s] = IF writeInProgress[s] THEN @ ELSE @ + 1]
    /\ writeInProgress' = [writeInProgress EXCEPT ![s] = TRUE]

\* The lambda of sendEvent.
RunHandler(s) ==
    /\ pc[s] = "open"
    /\ handlers[s] # <<>>
    /\ handlers' = [handlers EXCEPT ![s] = Tail(@)]
    /\ IF closed[s] THEN UNCHANGED stream
                    ELSE Enqueue(s, Head(handlers[s])) /\ UNCHANGED sent
    /\ UNCHANGED <<registry, bus, request, closed>>

\* Mutant: onWrite does not go on with what has been queued meanwhile.
OnWrite_Once(s) ==
    /\ pc[s] = "open"
    /\ writes[s] > 0
    /\ sent' = [sent EXCEPT ![s] = Append(@, Head(outbox[s]))]
    /\ outbox' = [outbox EXCEPT ![s] = Tail(@)]
    /\ writes' = [writes EXCEPT ![s] = @ - 1]
    /\ writeInProgress' = [writeInProgress EXCEPT ![s] = FALSE]
    /\ UNCHANGED <<registry, bus, request, handlers, closed>>

\* onWrite: the front is done, and what is behind it is written next.
OnWrite(s) ==
    /\ pc[s] = "open"
    /\ writes[s] > 0
    /\ sent' = [sent EXCEPT ![s] = Append(@, Head(outbox[s]))]
    /\ outbox' = [outbox EXCEPT ![s] = Tail(@)]
    /\ LET more == Len(outbox[s]) > 1 /\ ~closed[s]
       IN  /\ writes' = [writes EXCEPT ![s] = IF more THEN @ ELSE @ - 1]
           /\ writeInProgress' = [writeInProgress EXCEPT ![s] = more]
    /\ UNCHANGED <<registry, bus, request, handlers, closed>>

\* Mutant: doClose does not call m_onClosed.
OnWriteFails_NotRemoved(s) ==
    /\ pc[s] = "open"
    /\ writes[s] > 0
    /\ writes' = [writes EXCEPT ![s] = @ - 1]
    /\ closed' = [closed EXCEPT ![s] = TRUE]
    /\ UNCHANGED <<registry, bus, request, handlers, outbox, writeInProgress, sent>>

\* onWrite with an error, the only way to learn that a client has gone.
OnWriteFails(s) ==
    /\ pc[s] = "open"
    /\ writes[s] > 0
    /\ writes' = [writes EXCEPT ![s] = @ - 1]
    /\ closed' = [closed EXCEPT ![s] = TRUE]
    /\ registry' = registry \ {s}
    /\ UNCHANGED <<bus, request, handlers, outbox, writeInProgress, sent>>

-----------------------------------------------------------------------------
Init ==
    /\ registry = {}
    /\ snapshot = {}
    /\ published = <<>>
    /\ pc = [s \in Sessions |-> "absent"]
    /\ user \in [Sessions -> Users]
    /\ joined = [s \in Sessions |-> 0]
    /\ handlers = [s \in Sessions |-> <<>>]
    /\ outbox = [s \in Sessions |-> <<>>]
    /\ writeInProgress = [s \in Sessions |-> FALSE]
    /\ writes = [s \in Sessions |-> 0]
    /\ closed = [s \in Sessions |-> FALSE]
    /\ sent = [s \in Sessions |-> <<>>]

Opening(s) == Add(s) \/ Start(s) \/ SendConnected(s)
Session(s) == RunHandler(s) \/ OnWrite(s) \/ OnWriteFails(s)

Next == Publish \/ \E s \in Sessions : SendEvent(s) \/ Opening(s) \/ Session(s)

Spec == Init /\ [][Next]_vars

-----------------------------------------------------------------------------
(* Properties.                                                             *)

Line(s) == sent[s] \o outbox[s] \o handlers[s]

\* The published events on a line, and whether they are in the bus's order.
EventsOn(line) == {line[i].number : i \in {j \in DOMAIN line : line[j].kind = "event"}}
InBusOrder(line) ==
    \A i, j \in DOMAIN line :
        i < j /\ line[i].kind = "event" /\ line[j].kind = "event" => line[i].number < line[j].number

\* The events that are for s and came after its add(), and have reached it.
Due(s) == {n \in DOMAIN published : /\ n > joined[s] /\ user[s] \in published[n]
                                   /\ ~(n = Len(published) /\ s \in snapshot)}

\* The response header is the first thing on every stream, although the session
\* is in the registry, where the bus finds it, before start() is called
\* (notification-controller.cpp:37).
HeaderFirst ==
    \A s \in Sessions : LET begun == sent[s] \o outbox[s]
                        IN  begun # <<>> => begun[1] = Header

\* After it a session gets the events for its user that are published after its
\* add(), each once, in order and without a gap, until it is closed; publishing works
\* on a copy of the registry (active-session-registry.cpp:42) that sessions
\* leave and join meanwhile.
StreamInOrder ==
    /\ HeaderFirst
    /\ \A s \in Sessions : pc[s] # "absent" =>
          IF closed[s]
          THEN /\ InBusOrder(sent[s])
               /\ EventsOn(sent[s]) = {n \in Due(s) : \E m \in EventsOn(sent[s]) : n <= m}
          ELSE InBusOrder(Line(s)) /\ EventsOn(Line(s)) = Due(s)

\* While an open stream has something in its outbox exactly one async_write is
\* under way, otherwise none: two would interleave their bytes, and without one
\* the outbox would wait for an event that may never come (sse-session.cpp:69,
\* :94).
OneWrite ==
    \A s \in Sessions : writes[s] = IF outbox[s] # <<>> /\ ~closed[s] THEN 1 ELSE 0

\* A session that is closed is not in the registry, and no call puts it back:
\* dead sessions do not pile up (sse-session.cpp:113).
ClosedIsRemoved == \A s \in Sessions : closed[s] => s \notin registry
=============================================================================
