---------------------------- MODULE GroupSharing ----------------------------
(***************************************************************************)
(* GroupSharingService with the two dialogs that use it, the one for       *)
(* groups and their users and the one that creates a file.                 *)
(*                                                                         *)
(* A load asks for identifiers and then for the name behind each.  Every   *)
(* result is a signal of the runtime: whatever dialog is open then gets    *)
(* it, although an earlier one may have asked.  All widgets of the groups  *)
(* dialog but its Close button are disabled while it is busy.              *)
(***************************************************************************)
EXTENDS ClientSession

CONSTANT MaxCalls     \* bound of the model: calls under way

VARIABLES
    calls,            \* slot -> a load, an addition, a removal or a creation
    busy,             \* the groups dialog is disabled
    listed, selected, \* its groups, and the one that is selected
    users, usersOf,   \* its users, and the group they are the users of (history)
    misled,           \* a failure has enabled it before the users of another group
                      \* were replaced (history)
    choices           \* the groups a file can be created for

sharingVars == <<calls, busy, listed, selected, users, usersOf, misled, choices>>
widgets == <<busy, listed, selected, users, usersOf, misled>>

SharingInit ==
    /\ calls = [n \in 1..MaxCalls |-> Idle]
    /\ busy = FALSE
    /\ listed = {}
    /\ selected = None
    /\ users = {}
    /\ usersOf = None
    /\ misled = FALSE
    /\ choices = {}

Call(kind, g, u) == [stage |-> "asked", kind |-> kind, group |-> g, user |-> u]
LoadGroups   == Call("groups", None, None)
LoadUsers(g) == Call("users", g, None)

Ring(call) ==
    /\ Free(calls) # {}
    /\ calls' = [calls EXCEPT ![Slot(calls)] = call]

Hang(n) == calls' = [calls EXCEPT ![n] = Idle]
HangAndRing(n, call) == calls' = [calls EXCEPT ![n] = call]

-----------------------------------------------------------------------------
(* The user.                                                               *)

ShowGroups ==
    /\ window = "main"
    /\ dialog = "none"
    /\ Act
    /\ dialog' = "groups"
    /\ busy' = TRUE
    /\ listed' = {} /\ selected' = None /\ users' = {} /\ usersOf' = None /\ misled' = FALSE
    /\ Ring(LoadGroups)
    /\ UNCHANGED choices

ShowCreateFile ==
    /\ window = "main"
    /\ dialog = "none"
    /\ Act
    /\ dialog' = "create"
    /\ choices' = {}
    /\ Ring(LoadGroups)
    /\ UNCHANGED widgets

\* A closed dialog is gone: what it showed is forgotten.
CloseDialog ==
    /\ dialog # "none"
    /\ dialog' = "none"
    /\ busy' = FALSE
    /\ listed' = {} /\ selected' = None /\ users' = {} /\ usersOf' = None /\ misled' = FALSE
    /\ choices' = {}

Enabled == dialog = "groups" /\ ~busy

RefreshGroups ==
    /\ Enabled
    /\ Act
    /\ busy' = TRUE
    /\ Ring(LoadGroups)
    /\ UNCHANGED <<dialog, listed, selected, users, usersOf, misled, choices>>

\* refreshUsers(), when another row becomes the current one.
SelectGroup(g) ==
    /\ Enabled
    /\ Act
    /\ g \in listed \ {selected}
    /\ selected' = g
    /\ busy' = TRUE
    /\ Ring(LoadUsers(g))
    /\ UNCHANGED <<dialog, listed, users, usersOf, misled, choices>>

AddUser(u) ==
    /\ Enabled
    /\ Act
    /\ selected # None
    /\ busy' = TRUE
    /\ Ring([Call("add", selected, u) EXCEPT !.stage = "find"])
    /\ UNCHANGED <<dialog, listed, selected, users, usersOf, misled, choices>>

RemoveUser(u) ==
    /\ Enabled
    /\ Act
    /\ selected # None
    /\ u \in users
    /\ busy' = TRUE
    /\ Ring(Call("remove", selected, u))
    /\ UNCHANGED <<dialog, listed, selected, users, usersOf, misled, choices>>

CreateGroup ==
    /\ Enabled
    /\ Act
    /\ busy' = TRUE
    /\ Ring(Call("create", None, Me))
    /\ UNCHANGED <<dialog, listed, selected, users, usersOf, misled, choices>>

-----------------------------------------------------------------------------
(* Results in the dialogs.                                                 *)

\* What remains when a failure has enabled the dialog.
Fails(n) ==
    /\ Hang(n)
    /\ busy' = FALSE
    /\ misled' = (misled \/ (users # {} /\ usersOf # selected))
    /\ UNCHANGED <<listed, selected, users, usersOf>>

Ignores(n) == Hang(n) /\ UNCHANGED widgets

\* The dialog that creates a file offers them; without any it cannot be accepted.
SetGroups(ok, groups) == choices' = IF ok THEN groups ELSE {}

\* clear() of the list of groups leaves no row, which empties the list of users;
\* setCurrentRow(0) loads those of the first group.
HandleCurrentUserGroupsLoaded(n, ok, groups) ==
    \/ /\ dialog = "groups" /\ ~ok
       /\ Fails(n)
       /\ UNCHANGED choices
    \/ /\ dialog = "groups" /\ ok
       /\ listed' = groups
       /\ users' = {} /\ usersOf' = None /\ misled' = FALSE
       /\ IF groups = {} THEN Hang(n) /\ busy' = FALSE /\ selected' = None
          ELSE \E g \in groups : /\ HangAndRing(n, LoadUsers(g))
                                 /\ busy' = TRUE
                                 /\ selected' = g
       /\ UNCHANGED choices
    \/ /\ dialog = "create"
       /\ SetGroups(ok, groups)
       /\ Ignores(n)
    \/ /\ dialog = "none"
       /\ Ignores(n)
       /\ UNCHANGED choices

ForSelected(g) == dialog = "groups" /\ selected = g

\* The answer for another group is taken for one of the selected group.
HandleGroupUsersLoaded_AnyGroup(n, g, ok, loaded) ==
    /\ \/ dialog # "groups" /\ Ignores(n)
       \/ dialog = "groups" /\ ~ok /\ Fails(n)
       \/ /\ dialog = "groups" /\ ok
          /\ Hang(n)
          /\ busy' = FALSE
          /\ users' = loaded /\ usersOf' = g /\ misled' = FALSE
          /\ UNCHANGED <<listed, selected>>
    /\ UNCHANGED choices

HandleGroupUsersLoaded(n, g, ok, loaded) ==
    /\ \/ ~ForSelected(g) /\ Ignores(n)
       \/ ForSelected(g) /\ ~ok /\ Fails(n)
       \/ /\ ForSelected(g) /\ ok
          /\ Hang(n)
          /\ busy' = FALSE
          /\ users' = loaded /\ usersOf' = g /\ misled' = FALSE
          /\ UNCHANGED <<listed, selected>>
    /\ UNCHANGED choices

\* handleUserAddedToGroup and handleUserRemovedFromGroup.
HandleMembership(n, g, ok) ==
    /\ \/ ~ForSelected(g) /\ Ignores(n)
       \/ ForSelected(g) /\ ~ok /\ Fails(n)
       \/ /\ ForSelected(g) /\ ok
          /\ HangAndRing(n, LoadUsers(g))
          /\ busy' = TRUE
          /\ UNCHANGED <<listed, selected, users, usersOf, misled>>
    /\ UNCHANGED choices

\* Only a success enables the dialog again.
HandleGroupCreated_StaysBusy(n, ok) ==
    /\ \/ (dialog # "groups" \/ ~ok) /\ Ignores(n)
       \/ /\ dialog = "groups" /\ ok
          /\ HangAndRing(n, LoadGroups)
          /\ busy' = TRUE
          /\ UNCHANGED <<listed, selected, users, usersOf, misled>>
    /\ UNCHANGED choices

HandleGroupCreated(n, ok) ==
    /\ \/ dialog # "groups" /\ Ignores(n)
       \/ dialog = "groups" /\ ~ok /\ Fails(n)
       \/ /\ dialog = "groups" /\ ok
          /\ HangAndRing(n, LoadGroups)
          /\ busy' = TRUE
          /\ UNCHANGED <<listed, selected, users, usersOf, misled>>
    /\ UNCHANGED choices

Handle(n, ok, loaded) ==
    LET c == calls[n]
    IN  \/ c.kind = "groups" /\ HandleCurrentUserGroupsLoaded(n, ok, loaded)
        \/ c.kind = "users" /\ HandleGroupUsersLoaded(n, c.group, ok, loaded)
        \/ c.kind \in {"add", "remove"} /\ HandleMembership(n, c.group, ok)
        \/ c.kind = "create" /\ HandleGroupCreated(n, ok)

-----------------------------------------------------------------------------
(* Requests and answers.                                                   *)

GroupsOfMe == {g \in made : Me \in members[g]}
IdsOf(c) == IF c.kind = "groups" THEN GroupsOfMe ELSE members[c.group]

IsLoad(n) == calls[n].stage # "idle" /\ calls[n].kind \in {"groups", "users"}

\* The identifiers; without any the load is at its end.
LoadIds(n) ==
    /\ IsLoad(n)
    /\ calls[n].stage = "asked"
    /\ LET ids == IdsOf(calls[n])
       IN  IF ids = {} THEN Handle(n, TRUE, {})
           ELSE /\ calls' = [calls EXCEPT ![n] =
                        [stage |-> "names", kind |-> @.kind, group |-> @.group,
                         ids |-> ids, pending |-> Cardinality(ids)]]
                /\ UNCHANGED <<widgets, choices>>

\* A name, or "unknown" if it cannot be had: the last one ends the load.
LoadName(n) ==
    /\ calls[n].stage = "names"
    /\ IF calls[n].pending > 1
       THEN calls' = [calls EXCEPT ![n].pending = @ - 1] /\ UNCHANGED <<widgets, choices>>
       ELSE Handle(n, TRUE, calls[n].ids)

Proceed(n, from, to) ==
    /\ calls[n].stage = from
    /\ calls' = [calls EXCEPT ![n].stage = to]
    /\ UNCHANGED <<widgets, choices>>

\* The user with the login is known; then the membership is asked for.
FindUser(n) == Proceed(n, "find", "asked") /\ UNCHANGED <<made, members>>

\* Who is a member cannot be added, who is not cannot be removed.
Fits(c) == \/ c.kind = "add" /\ c.user \notin members[c.group]
           \/ c.kind = "remove" /\ c.user \in members[c.group]

ServeMembership(n) ==
    /\ calls[n].stage = "asked"
    /\ LET c == calls[n]
       IN  /\ Fits(c)
           /\ members' = [members EXCEPT ![c.group] =
                    IF c.kind = "add" THEN @ \cup {c.user} ELSE @ \ {c.user}]
    /\ Proceed(n, "asked", "done")
    /\ UNCHANGED made

\* A group is created, and with a second request its creator is made a member.
ServeCreateGroup(n) ==
    /\ calls[n].stage = "asked"
    /\ calls[n].kind = "create"
    /\ \E g \in Groups \ made :
        /\ made' = made \cup {g}
        /\ calls' = [calls EXCEPT ![n].stage = "join", ![n].group = g]
    /\ UNCHANGED <<members, widgets, choices>>

ServeJoin(n) ==
    /\ calls[n].stage = "join"
    /\ members' = [members EXCEPT ![calls[n].group] = @ \cup {Me}]
    /\ Proceed(n, "join", "done")
    /\ UNCHANGED made

CallDone(n) ==
    /\ calls[n].stage = "done"
    /\ Handle(n, TRUE, {})

\* An error of any request but the one for a name ends the call.
CallFails(n) ==
    /\ calls[n].stage \notin {"idle", "names"}
    /\ Fail
    /\ Handle(n, FALSE, {})

\* The server refuses a membership that is there, or is not, and a group whose
\* name there is.
CallRefused(n) ==
    /\ calls[n].stage = "asked"
    /\ \/ calls[n].kind \in {"add", "remove"} /\ ~Fits(calls[n])
       \/ calls[n].kind = "create"
    /\ Handle(n, FALSE, {})

=============================================================================
