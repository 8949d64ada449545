---------------------------- MODULE ClientSession ----------------------------
(***************************************************************************)
(* What the parts of the client share: the login dialog and the main       *)
(* window, the notification stream, and the groups the server keeps.       *)
(*                                                                         *)
(* Three threads pass tasks on: the windows to the internal thread, that   *)
(* to the network thread, whose answers come back the same way.  Each      *)
(* queue is first in, first out and the server may take any time, so that  *)
(* a click and the request it causes are one step, and so are an answer    *)
(* and what the internal thread and the window make of it.                 *)
(*                                                                         *)
(* Any request may fail: the transport, the status or the JSON of an       *)
(* answer makes ApiResult an error, and no call is repeated.               *)
(***************************************************************************)
EXTENDS Naturals, Sequences, FiniteSets

CONSTANTS
    Me, Peer,        \* the user of this client, and another user
    Groups,          \* groups there are, or that can be created
    Home,            \* the group the registration of Me has created
    Teams,           \* other groups of Me and Peer
    None,
    MaxSteps,        \* bound of the model: actions of Me and of Peer
    MaxFailures      \* bound of the model: requests and streams that fail

ASSUME GroupsAssumption == Home \in Groups /\ Teams \subseteq Groups \ {Home}
ASSUME UsersAssumption == Me # Peer

VARIABLES
    window,          \* "login", "main" or "closed"
    authenticating,  \* the login dialog is busy
    dialog,          \* the modal dialog over the main window
    stream,          \* the notification stream
    events,          \* the events on their way to this client
    made,            \* the groups of the server
    members,         \* their members
    steps, failures  \* counters of the bounds

sessionVars == <<window, authenticating, dialog, stream, events, made, members,
                 steps, failures>>

SessionInit ==
    /\ window = "login"
    /\ authenticating = FALSE
    /\ dialog = "none"
    /\ stream = "off"
    /\ events = <<>>
    /\ made = Teams \cup {Home}
    /\ members = [g \in Groups |-> IF g = Home THEN {Me} ELSE
                                   IF g \in Teams THEN {Me, Peer} ELSE {}]
    /\ steps = 0
    /\ failures = 0

-----------------------------------------------------------------------------
\* Someone does something more.
Act ==
    /\ steps < MaxSteps
    /\ steps' = steps + 1

\* A request is answered with an error, or not at all.
Fail ==
    /\ failures < MaxFailures
    /\ failures' = failures + 1

\* Requests of one kind under way are kept in slots; a new one takes a free slot,
\* no matter which.
Free(slots) == {n \in DOMAIN slots : slots[n].stage = "idle"}
Busy(slots) == DOMAIN slots \ Free(slots)
Slot(slots) == CHOOSE n \in Free(slots) : TRUE
Idle == [stage |-> "idle"]

-----------------------------------------------------------------------------
(* The login dialog and main().                                            *)

Authenticate ==
    /\ window = "login"
    /\ ~authenticating
    /\ authenticating' = TRUE
    /\ UNCHANGED <<window, dialog, stream, events, made, members, steps, failures>>

AuthenticationFails ==
    /\ authenticating
    /\ Fail
    /\ authenticating' = FALSE
    /\ UNCHANGED <<window, dialog, stream, events, made, members, steps>>

\* The main window is built with the session and starts the notifications.
LoggedIn ==
    /\ authenticating
    /\ authenticating' = FALSE
    /\ window' = "main"
    /\ stream' = "asked"
    /\ UNCHANGED <<dialog, events, made, members, steps, failures>>

\* The login dialog is rejected, or the main window closed: by its user or by a
\* logout, which both close the editors first.  main() returns, and answers that
\* are still on their way find nobody.
Leave ==
    /\ window # "closed"
    /\ dialog = "none"
    /\ window' = "closed"
    /\ authenticating' = FALSE
    /\ stream' = "off"
    /\ events' = <<>>
    /\ UNCHANGED <<dialog, made, members, steps, failures>>

-----------------------------------------------------------------------------
(* The notification stream.                                                *)

StreamOpens ==
    /\ stream = "asked"
    /\ stream' = "open"
    /\ events' = <<"connected">>
    /\ UNCHANGED <<window, authenticating, dialog, made, members, steps, failures>>

\* The label says so, if the stream did not end well; it is not opened again.
StreamEnds ==
    /\ stream \in {"asked", "open"}
    /\ Fail
    /\ stream' = "lost"
    /\ events' = <<>>
    /\ UNCHANGED <<window, authenticating, dialog, made, members, steps>>

\* The server publishes an event that is meant for Me.
Announce(event) ==
    events' = IF stream = "open" THEN Append(events, event) ELSE events

=============================================================================
