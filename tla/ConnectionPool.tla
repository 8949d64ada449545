--------------------------- MODULE ConnectionPool ---------------------------
(***************************************************************************)
(* What SqliteDatabase promises to the services: a connection serves one   *)
(* thread at a time, and a thread never holds one connection while it asks *)
(* for another, so threads cannot wait for each other in a circle.         *)
(***************************************************************************)
CONSTANTS Threads, Connections

VARIABLE users      \* connection -> the threads that may use it

Idle(t) == \A c \in Connections : t \notin users[c]

Init == users = [c \in Connections |-> {}]

Take(t, c) ==
    /\ Idle(t)
    /\ users[c] = {}
    /\ users' = [users EXCEPT ![c] = {t}]

Give(t, c) ==
    /\ users[c] = {t}
    /\ users' = [users EXCEPT ![c] = {}]

Next == \E t \in Threads, c \in Connections : Take(t, c) \/ Give(t, c)

Spec == Init /\ [][Next]_users
=============================================================================
