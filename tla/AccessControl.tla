---------------------------- MODULE AccessControl ----------------------------
(***************************************************************************)
(* Users, groups, memberships and the file_acl table, with the threads     *)
(* that look up the access of a user to a file.                            *)
(*                                                                         *)
(* A write runs in one transaction of the only writer connection and is    *)
(* one step; one that fails is rolled back and changes nothing, so that it *)
(* is no step at all.  getUserAclLevel opens no transaction: each of its   *)
(* SELECTs sees the last committed state, and writes fall in between.      *)
(*                                                                         *)
(* The controllers let every authenticated user manage groups and grants;  *)
(* access levels guard the files only.                                     *)
(***************************************************************************)
EXTENDS Integers, FiniteSets

CONSTANTS
    Users,       \* users, by their login, which is also a name for groups
    Teams,       \* further names of groups
    Files,       \* file identifiers, none of which is given out twice
    Threads,     \* threads of the server that run getUserAclLevel
    NoName,      \* no row of groups
    MaxGroups    \* bound of the model: groups created

ASSUME MaxGroupsAssumption == MaxGroups \in Nat
ASSUME NoNameAssumption == NoName \notin Users \cup Teams

VARIABLES
    users,     \* rows of users
    groups,    \* group id -> its name, or NoName without a row in groups
    created,   \* identifiers of groups used so far: generateId() repeats none
    members,   \* rows of user_group
    files,     \* rows of files
    known,     \* identifiers of files used so far
    acl,       \* file -> group id -> acl_level, or NoRow
    pc,        \* thread -> where it is
    call,      \* thread -> the request it works on
    groupIds,  \* thread -> what getGroupIdsOfUser has returned
    rest,      \* thread -> the groups whose row it has yet to read
    best,      \* thread -> bestAcl
    seen       \* history: thread -> group id -> the levels it has had meanwhile

directory == <<users, groups, created, members>>
tables    == <<directory, files, known, acl>>
lookup    == <<pc, call, groupIds, rest, best>>
vars      == <<tables, lookup, seen>>

-----------------------------------------------------------------------------
GroupIds == 1..MaxGroups
Names    == Users \cup Teams

NO_PROPERTY == 0
READ_ONLY   == 1
READ_WRITE  == 2
Levels      == NO_PROPERTY..READ_WRITE
NoRow       == -1
NoCall      == [kind |-> "none"]

\* A group without a row has no access: getFileAcl answers NotFound.
Level(row) == IF row = NoRow THEN NO_PROPERTY ELSE row

Exists(g)       == g \in GroupIds /\ groups[g] # NoName
Named(n)        == {g \in GroupIds : groups[g] = n}
GroupIdsOf(u)   == {g \in GroupIds : <<u, g>> \in members}

\* The levels a running lookup could have read, with those of the next state.
Watch ==
    seen' = [t \in Threads |-> [g \in GroupIds |->
                IF pc[t] = "rows" /\ g \in groupIds[t]
                THEN seen[t][g] \cup {Level(acl'[call[t].file][g])}
                ELSE seen[t][g]]]

-----------------------------------------------------------------------------
(* Users and groups.                                                       *)

\* UserService::addUser: the user and a group of the same name, with the user
\* in it; login and name are UNIQUE.
AddUser(u) ==
    /\ u \notin users
    /\ Named(u) = {}
    /\ created < MaxGroups
    /\ users' = users \cup {u}
    /\ created' = created + 1
    /\ groups' = [groups EXCEPT ![created + 1] = u]
    /\ members' = members \cup {<<u, created + 1>>}
    /\ UNCHANGED <<files, known, acl, lookup, seen>>

CreateGroup(n) ==
    /\ users # {}
    /\ Named(n) = {}
    /\ created < MaxGroups
    /\ created' = created + 1
    /\ groups' = [groups EXCEPT ![created + 1] = n]
    /\ UNCHANGED <<users, members, files, known, acl, lookup, seen>>

\* Mutant: foreign keys are not enforced, which is SQLite's default.
DeleteGroup_NoForeignKeys(g) ==
    /\ users # {}
    /\ Exists(g)
    /\ groups' = [groups EXCEPT ![g] = NoName]
    /\ UNCHANGED <<users, created, members, files, known, acl, lookup, seen>>

\* Memberships go with the group, a grant to it forbids its removal.
DeleteGroup(g) ==
    /\ users # {}
    /\ Exists(g)
    /\ \A f \in Files : acl[f][g] = NoRow
    /\ groups' = [groups EXCEPT ![g] = NoName]
    /\ members' = {m \in members : m[2] # g}
    /\ UNCHANGED <<users, created, files, known, acl, lookup, seen>>

AddUserToGroup(u, g) ==
    /\ u \in users
    /\ Exists(g)
    /\ members' = members \cup {<<u, g>>}
    /\ UNCHANGED <<users, groups, created, files, known, acl, lookup, seen>>

RemoveUserFromGroup(u, g) ==
    /\ <<u, g>> \in members
    /\ members' = members \ {<<u, g>>}
    /\ UNCHANGED <<users, groups, created, files, known, acl, lookup, seen>>

-----------------------------------------------------------------------------
(* Grants.                                                                 *)

\* The controller refuses NO_PROPERTY; the statement inserts or updates.
SetGroupAcl(f, g) ==
    /\ f \in files
    /\ Exists(g)
    /\ \E level \in Levels \ {NO_PROPERTY} : acl' = [acl EXCEPT ![f][g] = level]
    /\ Watch
    /\ UNCHANGED <<directory, files, known, lookup>>

RemoveGroupAcl(f, g) ==
    /\ acl[f][g] # NoRow
    /\ acl' = [acl EXCEPT ![f][g] = NoRow]
    /\ Watch
    /\ UNCHANGED <<directory, files, known, lookup>>

\* FileService::create: the group that has the creator's login for a name gets
\* READ_WRITE; without such a group the file is not created.
CreateFile(u, f) ==
    /\ u \in users
    /\ f \notin known
    /\ \E g \in Named(u) : acl' = [acl EXCEPT ![f][g] = READ_WRITE]
    /\ files' = files \cup {f}
    /\ known' = known \cup {f}
    /\ Watch
    /\ UNCHANGED <<directory, lookup>>

-----------------------------------------------------------------------------
(* A request that needs access to a file: "remove" stands for the requests *)
(* that need READ_WRITE, "level" for the one that only asks for it.        *)

Request(t) ==
    /\ pc[t] = "idle"
    /\ \E kind \in {"level", "remove"}, u \in users, f \in Files :
         call' = [call EXCEPT ![t] = [kind |-> kind, user |-> u, file |-> f]]
    /\ pc' = [pc EXCEPT ![t] = "groups"]
    /\ UNCHANGED <<tables, groupIds, rest, best, seen>>

\* Mutant: the groups are not those of the user alone.
ReadGroups_OfAll(t) ==
    /\ pc[t] = "groups"
    /\ groupIds' = [groupIds EXCEPT ![t] = GroupIdsOf(call[t].user)]
    /\ rest' = [rest EXCEPT ![t] = {m[2] : m \in members}]
    /\ best' = [best EXCEPT ![t] = NO_PROPERTY]
    /\ seen' = [seen EXCEPT ![t] = [g \in GroupIds |->
                    IF <<call[t].user, g>> \in members
                    THEN {Level(acl[call[t].file][g])} ELSE {}]]
    /\ pc' = [pc EXCEPT ![t] = "rows"]
    /\ UNCHANGED <<tables, call>>

ReadGroups(t) ==
    /\ pc[t] = "groups"
    /\ groupIds' = [groupIds EXCEPT ![t] = GroupIdsOf(call[t].user)]
    /\ rest' = [rest EXCEPT ![t] = GroupIdsOf(call[t].user)]
    /\ best' = [best EXCEPT ![t] = NO_PROPERTY]
    /\ seen' = [seen EXCEPT ![t] = [g \in GroupIds |->
                    IF <<call[t].user, g>> \in members
                    THEN {Level(acl[call[t].file][g])} ELSE {}]]
    /\ pc' = [pc EXCEPT ![t] = "rows"]
    /\ UNCHANGED <<tables, call>>

\* Mutant: the last group decides, also when it has no row.
ReadRow_Last(t, g) ==
    /\ pc[t] = "rows"
    /\ g \in rest[t]
    /\ best' = [best EXCEPT ![t] = Level(acl[call[t].file][g])]
    /\ rest' = [rest EXCEPT ![t] = IF best'[t] = READ_WRITE THEN {} ELSE @ \ {g}]
    /\ UNCHANGED <<tables, pc, call, groupIds, seen>>

\* Rows come in no particular order, and READ_WRITE ends the loop.
ReadRow(t, g) ==
    /\ pc[t] = "rows"
    /\ g \in rest[t]
    /\ LET level == Level(acl[call[t].file][g])
       IN  best' = [best EXCEPT ![t] = IF level > @ THEN level ELSE @]
    /\ rest' = [rest EXCEPT ![t] = IF best'[t] = READ_WRITE THEN {} ELSE @ \ {g}]
    /\ UNCHANGED <<tables, pc, call, groupIds, seen>>

\* The response is sent, and nothing is left of the request.
Reply(t) ==
    /\ pc' = [pc EXCEPT ![t] = "idle"]
    /\ call' = [call EXCEPT ![t] = NoCall]
    /\ groupIds' = [groupIds EXCEPT ![t] = {}]
    /\ rest' = [rest EXCEPT ![t] = {}]
    /\ best' = [best EXCEPT ![t] = NO_PROPERTY]
    /\ seen' = [seen EXCEPT ![t] = [g \in GroupIds |-> {}]]

\* A SELECT fails: the request is answered with the error.
ReadFails(t) ==
    /\ pc[t] = "groups" \/ (pc[t] = "rows" /\ rest[t] # {})
    /\ Reply(t)
    /\ UNCHANGED tables

\* requireFileAcl() lets the request pass to a worker.
Admit(t) ==
    /\ pc' = [pc EXCEPT ![t] = "task"]
    /\ UNCHANGED <<call, groupIds, rest, best, seen>>

\* Mutant: the handler goes on after it has replied Forbidden.
Answer_GoesOn(t) ==
    /\ pc[t] = "rows"
    /\ rest[t] = {}
    /\ IF call[t].kind = "remove" THEN Admit(t) ELSE Reply(t)
    /\ UNCHANGED tables

\* The level is the answer, or decides between Forbidden and the task.
Answer(t) ==
    /\ pc[t] = "rows"
    /\ rest[t] = {}
    /\ IF call[t].kind = "remove" /\ best[t] >= READ_WRITE THEN Admit(t) ELSE Reply(t)
    /\ UNCHANGED tables

\* The task on the worker: grants go with the file.
RemoveFile(t) ==
    /\ pc[t] = "task"
    /\ files' = files \ {call[t].file}
    /\ acl' = [acl EXCEPT ![call[t].file] = [g \in GroupIds |-> NoRow]]
    /\ pc' = [pc EXCEPT ![t] = "done"]
    /\ Watch
    /\ UNCHANGED <<directory, known, call, groupIds, rest, best>>

Respond(t) == pc[t] = "done" /\ Reply(t) /\ UNCHANGED tables

-----------------------------------------------------------------------------
Init ==
    /\ users = {}
    /\ groups = [g \in GroupIds |-> NoName]
    /\ created = 0
    /\ members = {}
    /\ files = {}
    /\ known = {}
    /\ acl = [f \in Files |-> [g \in GroupIds |-> NoRow]]
    /\ pc = [t \in Threads |-> "idle"]
    /\ call = [t \in Threads |-> NoCall]
    /\ groupIds = [t \in Threads |-> {}]
    /\ rest = [t \in Threads |-> {}]
    /\ best = [t \in Threads |-> NO_PROPERTY]
    /\ seen = [t \in Threads |-> [g \in GroupIds |-> {}]]

ManageGroups ==
    \/ \E u \in Users : AddUser(u)
    \/ \E n \in Names : CreateGroup(n)
    \/ \E g \in GroupIds : DeleteGroup(g)
    \/ \E u \in Users, g \in GroupIds : AddUserToGroup(u, g) \/ RemoveUserFromGroup(u, g)

ManageGrants ==
    \/ \E f \in Files, g \in GroupIds : SetGroupAcl(f, g) \/ RemoveGroupAcl(f, g)
    \/ \E u \in Users, f \in Files : CreateFile(u, f)

Step(t) ==
    \/ Request(t) \/ ReadGroups(t) \/ ReadFails(t)
    \/ Answer(t) \/ RemoveFile(t) \/ Respond(t)
    \/ \E g \in GroupIds : ReadRow(t, g)

Next == ManageGroups \/ ManageGrants \/ \E t \in Threads : Step(t)

Spec == Init /\ [][Next]_vars

-----------------------------------------------------------------------------
(* Properties.                                                             *)

Calls == [kind : {"level", "remove"}, user : Users, file : Files]

\* Every variable holds values of its kind; in particular no row of file_acl
\* says NO_PROPERTY (file-acl-controller.cpp:153).
TypeOK ==
    /\ users \subseteq Users
    /\ groups \in [GroupIds -> Names \cup {NoName}]
    /\ created \in 0..MaxGroups
    /\ members \subseteq Users \X GroupIds
    /\ files \subseteq known
    /\ known \subseteq Files
    /\ acl \in [Files -> [GroupIds -> {NoRow, READ_ONLY, READ_WRITE}]]
    /\ pc \in [Threads -> {"idle", "groups", "rows", "task", "done"}]
    /\ call \in [Threads -> Calls \cup {NoCall}]
    /\ \A t \in Threads : pc[t] # "idle" => call[t] \in Calls
    /\ groupIds \in [Threads -> SUBSET GroupIds]
    /\ rest \in [Threads -> SUBSET GroupIds]
    /\ best \in [Threads -> Levels]
    /\ seen \in [Threads -> [GroupIds -> SUBSET Levels]]

\* Whatever is removed, and in whatever order, a grant refers to a file and to
\* a group that exist, and a membership to a user and to a group that exist
\* (migration_init.h:18-25, :50-58).
NothingDangles ==
    /\ \A f \in Files, g \in GroupIds : acl[f][g] # NoRow => f \in files /\ Exists(g)
    /\ \A m \in members : m[1] \in users /\ Exists(m[2])

Looked(t) == pc[t] = "rows" /\ rest[t] = {}

\* The answer of getUserAclLevel is a level that a group of the user has had
\* during the call, although grants change between its SELECTs
\* (file-acl-service.cpp:40-58).
AclJustified ==
    \A t \in Threads : Looked(t) /\ best[t] # NO_PROPERTY =>
        \E g \in groupIds[t] : best[t] \in seen[t][g]

\* It is not less than what any group of the user has had all the time: a call
\* that overlaps with changes of other grants does not lose the one that stays
\* (file-acl-service.cpp:40-58).
AclSufficient ==
    \A t \in Threads : Looked(t) =>
        \A g \in groupIds[t] : \E level \in seen[t][g] : level <= best[t]

\* A file is removed by the task of a request only whose user was in a group
\* that had READ_WRITE at a moment of the request (file-controller.cpp:354).
RemovedWithAccess ==
    [][\A f \in files \ files' :
         \E t \in Threads : /\ pc[t] = "task" /\ call[t].file = f
                            /\ \E g \in groupIds[t] : READ_WRITE \in seen[t][g]]_vars
=============================================================================
