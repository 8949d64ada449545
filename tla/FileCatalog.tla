----------------------------- MODULE FileCatalog -----------------------------
(***************************************************************************)
(* The list of files in the main window: FileCatalogService reads it with  *)
(* many requests, and the window refreshes it after its own changes and    *)
(* when a notification comes.                                              *)
(*                                                                         *)
(* A refresh lists the files and asks for each its creator, the access of  *)
(* the user and the lock, the latter followed by the locker's name; the    *)
(* answers come in any order and the last one ends the refresh.  Several   *)
(* refreshes may be under way.                                             *)
(***************************************************************************)
EXTENDS ClientSession

CONSTANTS
    Files,            \* files there are at the beginning, or that can be created
    MaxRefreshes,     \* bound of the model: refreshes under way
    MaxChanges        \* bound of the model: changes of this client under way

ASSUME FilesAssumption == IsFiniteSet(Files)

VARIABLES
    status,           \* file -> "none", "stored" or "gone" on the server
    granted,          \* file -> the groups that may read and write it
    holder,           \* file -> who holds its lock
    refreshes,        \* slot -> a refresh
    shown,            \* what the tree shows: file -> the holder of its lock
    fresh,            \* no refresh has begun and no change was missed since
                      \* the refresh that is shown began (history)
    changes           \* slot -> a creation, renaming or deletion

catalogVars == <<status, granted, holder, refreshes, shown, fresh, changes>>

CatalogInit ==
    /\ status \in [Files -> {"stored", "none"}]
    /\ granted = [f \in Files |-> IF status[f] = "stored" THEN {Home} ELSE {}]
    /\ holder = [f \in Files |-> None]
    /\ refreshes = [n \in 1..MaxRefreshes |-> Idle]
    /\ shown = <<>>
    /\ fresh = FALSE
    /\ changes = [n \in 1..MaxChanges |-> Idle]

\* The files the server lists for Me.
Visible == {f \in Files : status[f] = "stored" /\ \E g \in granted[f] : Me \in members[g]}

-----------------------------------------------------------------------------
(* Refreshes.                                                              *)

Outdated(r) == IF r.stage = "idle" THEN r ELSE [r EXCEPT !.fresh = FALSE]

\* The server has changed and nobody will tell this client.
Missed ==
    /\ refreshes' = [n \in DOMAIN refreshes |-> Outdated(refreshes[n])]
    /\ fresh' = FALSE

Seen == UNCHANGED <<refreshes, fresh>>

RefreshFiles ==
    /\ Free(refreshes) # {}
    /\ refreshes' = [n \in DOMAIN refreshes |->
            IF n = Slot(refreshes) THEN [stage |-> "list", fresh |-> TRUE]
                                    ELSE Outdated(refreshes[n])]
    /\ fresh' = FALSE

\* The window gets the files.
HandleFilesLoaded(n, files) ==
    /\ refreshes' = [refreshes EXCEPT ![n] = Idle]
    /\ shown' = files
    /\ fresh' = refreshes[n].fresh

HydrateFiles(n, files) ==
    IF files = {} THEN HandleFilesLoaded(n, <<>>)
    ELSE /\ refreshes' = [refreshes EXCEPT ![n] =
                [stage |-> "hydrate", fresh |-> @.fresh, pending |-> 3 * Cardinality(files),
                 plain |-> 2 * Cardinality(files),
                 lookup |-> [f \in files |-> "active"], found |-> [f \in files |-> None]]]
         /\ UNCHANGED <<shown, fresh>>

ListFiles(n) ==
    /\ refreshes[n].stage = "list"
    /\ \/ HydrateFiles(n, Visible) /\ UNCHANGED failures
       \/ Fail /\ refreshes' = [refreshes EXCEPT ![n] = Idle] /\ UNCHANGED <<shown, fresh>>
    /\ UNCHANGED <<status, granted, holder, changes>>

\* One lookup of the refresh has come to its end; r is what it leaves.
FinishFileHydration(n, r) ==
    IF r.pending > 1
    THEN /\ refreshes' = [refreshes EXCEPT ![n] = [r EXCEPT !.pending = @ - 1]]
         /\ UNCHANGED <<shown, fresh>>
    ELSE /\ refreshes' = [refreshes EXCEPT ![n] = Idle]
         /\ shown' = r.found
         /\ fresh' = r.fresh

Hydrating(n) == refreshes[n].stage = "hydrate"

\* The creator of a file or the access of the user; an error leaves them unknown.
PlainLookup(n) ==
    /\ Hydrating(n)
    /\ refreshes[n].plain > 0
    /\ FinishFileHydration(n, [refreshes[n] EXCEPT !.plain = @ - 1])
    /\ UNCHANGED <<status, granted, holder, changes, failures>>

ActiveLock(n, f) ==
    /\ Hydrating(n)
    /\ f \in DOMAIN refreshes[n].lookup
    /\ refreshes[n].lookup[f] = "active"

\* There is no lock, or no file any more: the server says 404.
NoActiveLock(n, f) ==
    /\ ActiveLock(n, f)
    /\ holder[f] = None
    /\ FinishFileHydration(n, [refreshes[n] EXCEPT !.lookup[f] = "done"])
    /\ UNCHANGED <<status, granted, holder, changes, failures>>

\* The code would leave the refresh without an end.
ActiveLockFails_NotFinished(n, f) ==
    /\ ActiveLock(n, f)
    /\ Fail
    /\ refreshes' = [refreshes EXCEPT ![n].lookup[f] = "done", ![n].fresh = FALSE]
    /\ UNCHANGED <<status, granted, holder, changes, shown, fresh>>

\* Any other error shows the file as free, too.
ActiveLockFails(n, f) ==
    /\ ActiveLock(n, f)
    /\ Fail
    /\ FinishFileHydration(n, [refreshes[n] EXCEPT !.lookup[f] = "done", !.fresh = FALSE])
    /\ UNCHANGED <<status, granted, holder, changes>>

HasActiveLock(n, f) ==
    /\ ActiveLock(n, f)
    /\ holder[f] # None
    /\ refreshes' = [refreshes EXCEPT ![n].lookup[f] = "name", ![n].found[f] = holder[f]]
    /\ UNCHANGED <<status, granted, holder, changes, shown, fresh, failures>>

\* The name of the locker, or "unknown user".
LockerName(n, f) ==
    /\ Hydrating(n)
    /\ f \in DOMAIN refreshes[n].lookup
    /\ refreshes[n].lookup[f] = "name"
    /\ FinishFileHydration(n, [refreshes[n] EXCEPT !.lookup[f] = "done"])
    /\ UNCHANGED <<status, granted, holder, changes, failures>>

Hydrate(n) ==
    \/ PlainLookup(n)
    \/ \E f \in Files : \/ NoActiveLock(n, f) \/ ActiveLockFails(n, f)
                           \/ HasActiveLock(n, f) \/ LockerName(n, f)

-----------------------------------------------------------------------------
(* Causes of a refresh.                                                    *)

\* The menu, or an editor window that is destroyed.
Refresh ==
    /\ window = "main"
    /\ dialog = "none"
    /\ Act
    /\ RefreshFiles
    /\ UNCHANGED <<status, granted, holder, changes, shown>>

RefreshingEvents_NotUnlocked == {"file_created", "file_locked", "group_assigned"}

RefreshingEvents == {"file_created", "file_locked", "file_unlocked", "group_assigned"}

\* The stream is cut into events, which come in the order they were sent in.
NextEvent == Head(events)

HandleNotification ==
    /\ events # <<>>
    /\ events' = Tail(events)
    /\ IF NextEvent \in RefreshingEvents THEN RefreshFiles ELSE Seen
    /\ UNCHANGED <<status, granted, holder, changes, shown>>

-----------------------------------------------------------------------------
(* Changes of this client.                                                 *)

Ask(kind, f, g) ==
    /\ Free(changes) # {}
    /\ changes' = [changes EXCEPT ![Slot(changes)] =
                        [stage |-> "asked", kind |-> kind, file |-> f, group |-> g]]
    /\ UNCHANGED <<status, granted, holder, refreshes, shown, fresh>>

\* The dialog has been accepted with a group.
CreateFile(g) == \E f \in Files :
    /\ status[f] = "none"
    /\ \A n \in Busy(changes) : changes[n].file # f
    /\ Ask("create", f, g)

\* The files the tree remembers since they were loaded.
Selectable == DOMAIN shown

RenameOrDelete ==
    /\ window = "main"
    /\ dialog = "none"
    /\ Act
    /\ \E f \in Selectable, kind \in {"rename", "delete"} : Ask(kind, f, None)

\* The server does what a change asks for.
ServeCreate(n) ==
    /\ changes[n].stage = "asked"
    /\ changes[n].kind = "create"
    /\ LET f == changes[n].file
       IN  /\ status' = [status EXCEPT ![f] = "stored"]
           /\ granted' = [granted EXCEPT ![f] = {Home}]
    /\ changes' = [changes EXCEPT ![n].stage = "created"]
    /\ Announce("file_created")
    /\ UNCHANGED <<holder, refreshes, shown, fresh>>

ServeChange(n) ==
    /\ changes[n].stage = "asked"
    /\ changes[n].kind # "create"
    /\ changes[n].file \in Visible
    /\ changes' = [changes EXCEPT ![n].stage = "done"]
    /\ IF changes[n].kind = "rename" THEN UNCHANGED <<status, granted, holder>>
       ELSE LET f == changes[n].file
            IN  /\ status' = [status EXCEPT ![f] = "gone"]
                /\ granted' = [granted EXCEPT ![f] = {}]
                /\ holder' = [holder EXCEPT ![f] = None]
    /\ UNCHANGED <<refreshes, shown, fresh, events>>

\* The file is there: its group is given access with a second request, which the
\* server grants to anyone.
ServeGrant(n) ==
    /\ changes[n].stage = "created"
    /\ status[changes[n].file] = "stored"
    /\ changes' = [changes EXCEPT ![n].stage = "done"]
    /\ granted' = [granted EXCEPT ![changes[n].file] = @ \cup {changes[n].group}]
    /\ UNCHANGED <<status, holder, refreshes, shown, fresh, events>>

\* handleFileCreated, handleFileRenamed and handleFileDeleted.
ChangeDone(n) ==
    /\ changes[n].stage = "done"
    /\ changes' = [changes EXCEPT ![n] = Idle]
    /\ RefreshFiles
    /\ UNCHANGED <<status, granted, holder, shown, events>>

\* The server refuses what Me may not change, or has not got.
Refused(n) ==
    \/ /\ changes[n].stage = "asked"
       /\ changes[n].kind # "create"
       /\ changes[n].file \notin Visible
    \/ changes[n].stage = "created" /\ status[changes[n].file] # "stored"

\* An error before or after the server has done its part is shown, and no more.
ChangeFails(n) ==
    /\ changes[n].stage # "idle"
    /\ (Refused(n) /\ UNCHANGED failures) \/ Fail
    /\ changes' = [changes EXCEPT ![n] = Idle]
    /\ IF changes[n].stage = "asked" THEN Seen ELSE Missed
    /\ UNCHANGED <<status, granted, holder, shown, events>>

-----------------------------------------------------------------------------
(* The other user.                                                         *)

\* The events of a lock go to everyone.
PeerChanges(f, who, event) ==
    /\ status[f] = "stored"
    /\ holder' = [holder EXCEPT ![f] = who]
    /\ Announce(event)
    /\ IF stream = "open" THEN Seen ELSE Missed
    /\ UNCHANGED <<status, granted, changes, shown>>

PeerLocks(f) == holder[f] = None /\ PeerChanges(f, Peer, "file_locked")
PeerUnlocks(f) == holder[f] = Peer /\ PeerChanges(f, None, "file_unlocked")

=============================================================================
