------------------------- MODULE AccessControlProofs -------------------------
(***************************************************************************)
(* What a lookup of access answers while the tables change under it, for   *)
(* any numbers of users, groups, files and threads.  The invariant follows *)
(* the loop of getUserAclLevel: the row of each group it knows is among    *)
(* those the history has seen, and the best level so far is one of them    *)
(* and covers every group whose row it has read.                           *)
(***************************************************************************)
EXTENDS AccessControl, TLAPS

Looking(t) ==
    /\ rest[t] \subseteq groupIds[t]
    /\ \A g \in groupIds[t] : Level(acl[call[t].file][g]) \in seen[t][g]
    /\ best[t] # NO_PROPERTY => \E g \in groupIds[t] : best[t] \in seen[t][g]
    /\ \A g \in groupIds[t] \ rest[t] : \E level \in seen[t][g] : level <= best[t]

Admitted(t) == \E g \in groupIds[t] : READ_WRITE \in seen[t][g]

LookupsOK ==
    \A t \in Threads : /\ pc[t] = "rows" => Looking(t)
                       /\ pc[t] = "task" => Admitted(t)

IInv == TypeOK /\ NothingDangles /\ LookupsOK

USE DEF GroupIds, Names, NO_PROPERTY, READ_ONLY, READ_WRITE, Levels, NoRow

-----------------------------------------------------------------------------
(* Operators.                                                              *)

\* What a lookup may read is a level ...
LEMMA ReadTyped ==
    ASSUME TypeOK, NEW t \in Threads, pc[t] # "idle", NEW g \in GroupIds
    PROVE  Level(acl[call[t].file][g]) \in Levels
<1>1. call[t].file \in Files
    BY DEF TypeOK, Calls
<1>2. acl[call[t].file] \in [GroupIds -> {NoRow, READ_ONLY, READ_WRITE}]
    BY <1>1 DEF TypeOK
<1>3. acl[call[t].file][g] \in {NoRow, READ_ONLY, READ_WRITE}
    BY <1>2
<1>4. QED  BY <1>3 DEF Level

\* ... and so is what the history has seen.
LEMMA SeenTyped ==
    ASSUME TypeOK, NEW t \in Threads, NEW g \in GroupIds
    PROVE  seen[t][g] \in SUBSET Levels
<1>1. seen \in [Threads -> [GroupIds -> SUBSET Levels]]
    BY DEF TypeOK
<1>2. seen[t] \in [GroupIds -> SUBSET Levels]
    BY <1>1
<1>3. QED  BY <1>2, Zenon

\* What is watched stays a set of levels, keeps what was seen, and has the rows
\* of the next state.
LEMMA WatchAdds ==
    ASSUME TypeOK, Watch, UNCHANGED lookup,
           acl' \in [Files -> [GroupIds -> {NoRow, READ_ONLY, READ_WRITE}]]
    PROVE  /\ seen' \in [Threads -> [GroupIds -> SUBSET Levels]]
           /\ \A t \in Threads, g \in GroupIds : seen[t][g] \subseteq seen'[t][g]
           /\ \A t \in Threads : pc[t] = "rows" =>
                \A g \in groupIds[t] : Level(acl'[call[t].file][g]) \in seen'[t][g]
<1>1. ASSUME NEW t \in Threads, NEW g \in GroupIds, pc[t] = "rows"
      PROVE  Level(acl'[call[t].file][g]) \in Levels
    <2>1. call[t].file \in Files
        BY <1>1 DEF TypeOK, Calls
    <2>2. acl'[call[t].file][g] \in {NoRow, READ_ONLY, READ_WRITE}
        BY <2>1
    <2>3. QED  BY <2>2 DEF Level
<1>2. \A t \in Threads, g \in GroupIds :
        seen'[t][g] = IF pc[t] = "rows" /\ g \in groupIds[t]
                      THEN seen[t][g] \cup {Level(acl'[call[t].file][g])}
                      ELSE seen[t][g]
    BY DEF Watch
<1>3. ASSUME NEW t \in Threads, NEW g \in GroupIds
      PROVE  (IF pc[t] = "rows" /\ g \in groupIds[t]
              THEN seen[t][g] \cup {Level(acl'[call[t].file][g])}
              ELSE seen[t][g]) \in SUBSET Levels
    <2>1. seen[t][g] \in SUBSET Levels
        BY SeenTyped
    <2>2. QED  BY <1>1, <2>1
<1>4. seen' \in [Threads -> [GroupIds -> SUBSET Levels]]
    BY <1>3, Zenon DEF Watch
<1>5. QED  BY <1>2, <1>4 DEF TypeOK

\* A lookup that goes on, while only acl changes, keeps its invariant.
LEMMA WatchedLookups ==
    ASSUME IInv, Watch, UNCHANGED lookup,
           acl' \in [Files -> [GroupIds -> {NoRow, READ_ONLY, READ_WRITE}]]
    PROVE  LookupsOK'
<1> SUFFICES ASSUME NEW t \in Threads
             PROVE  (pc[t] = "rows" => Looking(t)) /\ (pc[t] = "task" => Admitted(t)) =>
                    (pc'[t] = "rows" => Looking(t)') /\ (pc'[t] = "task" => Admitted(t)')
    BY DEF IInv, LookupsOK
<1>1. \A g \in GroupIds : seen[t][g] \subseteq seen'[t][g]
    BY WatchAdds DEF IInv
<1>2. pc[t] = "rows" => \A g \in groupIds[t] : Level(acl'[call[t].file][g]) \in seen'[t][g]
    BY WatchAdds DEF IInv
<1>3. groupIds[t] \subseteq GroupIds
    BY DEF IInv, TypeOK
<1>4. /\ pc'[t] = pc[t] /\ groupIds'[t] = groupIds[t] /\ rest'[t] = rest[t]
      /\ best'[t] = best[t] /\ call'[t] = call[t]
    BY DEF lookup
<1>5. QED  BY <1>1, <1>2, <1>3, <1>4 DEF Looking, Admitted

-----------------------------------------------------------------------------
(* The invariant.                                                          *)

LEMMA InitInv == Init => IInv
BY MaxGroupsAssumption
   DEF Init, IInv, TypeOK, NothingDangles, LookupsOK, Calls, NoCall

\* Users, groups and memberships: no grant and no lookup is touched.
LEMMA ManageGroupsInv ==
    ASSUME IInv, ManageGroups
    PROVE  IInv'
<1>1. UNCHANGED <<files, known, acl, lookup, seen>>
    BY DEF ManageGroups, AddUser, CreateGroup, DeleteGroup, AddUserToGroup,
           RemoveUserFromGroup
<1>2. LookupsOK'
    BY <1>1 DEF IInv, LookupsOK, lookup, Looking, Admitted
<1>3. TypeOK'
    <2>1. CASE \E u \in Users : AddUser(u)
        BY <1>1, <2>1, MaxGroupsAssumption DEF IInv, TypeOK, AddUser, lookup
    <2>2. CASE \E n \in Names : CreateGroup(n)
        BY <1>1, <2>2, MaxGroupsAssumption DEF IInv, TypeOK, CreateGroup, lookup
    <2>3. CASE \E g \in GroupIds : DeleteGroup(g)
        BY <1>1, <2>3 DEF IInv, TypeOK, DeleteGroup, lookup
    <2>4. CASE \E u \in Users, g \in GroupIds : AddUserToGroup(u, g)
        BY <1>1, <2>4 DEF IInv, TypeOK, AddUserToGroup, lookup
    <2>5. CASE \E u \in Users, g \in GroupIds : RemoveUserFromGroup(u, g)
        BY <1>1, <2>5 DEF IInv, TypeOK, RemoveUserFromGroup, lookup
    <2>6. QED  BY <2>1, <2>2, <2>3, <2>4, <2>5 DEF ManageGroups
<1>4. NothingDangles'
    <2>1. CASE \E u \in Users : AddUser(u)
        BY <1>1, <2>1, NoNameAssumption, MaxGroupsAssumption
           DEF IInv, TypeOK, NothingDangles, Exists, AddUser
    <2>2. CASE \E n \in Names : CreateGroup(n)
        BY <1>1, <2>2, NoNameAssumption, MaxGroupsAssumption
           DEF IInv, TypeOK, NothingDangles, Exists, CreateGroup
    <2>3. CASE \E g \in GroupIds : DeleteGroup(g)
        BY <1>1, <2>3 DEF IInv, TypeOK, NothingDangles, Exists, DeleteGroup
    <2>4. CASE \E u \in Users, g \in GroupIds : AddUserToGroup(u, g)
        BY <1>1, <2>4 DEF IInv, TypeOK, NothingDangles, Exists, AddUserToGroup
    <2>5. CASE \E u \in Users, g \in GroupIds : RemoveUserFromGroup(u, g)
        BY <1>1, <2>5 DEF IInv, TypeOK, NothingDangles, Exists, RemoveUserFromGroup
    <2>6. QED  BY <2>1, <2>2, <2>3, <2>4, <2>5 DEF ManageGroups
<1>5. QED  BY <1>2, <1>3, <1>4 DEF IInv

\* Grants and the creation of files: what is watched follows them.
LEMMA ManageGrantsInv ==
    ASSUME IInv, ManageGrants
    PROVE  IInv'
<1>1. Watch /\ UNCHANGED <<directory, lookup>>
    BY DEF ManageGrants, SetGroupAcl, RemoveGroupAcl, CreateFile
<1>2. acl' \in [Files -> [GroupIds -> {NoRow, READ_ONLY, READ_WRITE}]]
    <2>1. CASE \E f \in Files, g \in GroupIds : SetGroupAcl(f, g)
        BY <2>1 DEF IInv, TypeOK, SetGroupAcl
    <2>2. CASE \E f \in Files, g \in GroupIds : RemoveGroupAcl(f, g)
        BY <2>2 DEF IInv, TypeOK, RemoveGroupAcl
    <2>3. CASE \E u \in Users, f \in Files : CreateFile(u, f)
        BY <2>3 DEF IInv, TypeOK, CreateFile, Named
    <2>4. QED  BY <2>1, <2>2, <2>3 DEF ManageGrants
<1>3. files' \subseteq known' /\ known' \subseteq Files
    BY DEF IInv, TypeOK, ManageGrants, SetGroupAcl, RemoveGroupAcl, CreateFile
<1>4. LookupsOK'
    BY <1>1, <1>2, WatchedLookups
<1>5. TypeOK'
    <2>1. seen' \in [Threads -> [GroupIds -> SUBSET Levels]]
        BY <1>1, <1>2, WatchAdds DEF IInv
    <2>2. QED  BY <1>1, <1>2, <1>3, <2>1 DEF IInv, TypeOK, directory, lookup
<1>6. NothingDangles'
    <2>1. CASE \E f \in Files, g \in GroupIds : SetGroupAcl(f, g)
        BY <1>1, <2>1 DEF IInv, TypeOK, NothingDangles, Exists, SetGroupAcl, directory
    <2>2. CASE \E f \in Files, g \in GroupIds : RemoveGroupAcl(f, g)
        BY <1>1, <2>2 DEF IInv, TypeOK, NothingDangles, Exists, RemoveGroupAcl, directory
    <2>3. CASE \E u \in Users, f \in Files : CreateFile(u, f)
        BY <1>1, <2>3, NoNameAssumption
           DEF IInv, TypeOK, NothingDangles, Exists, CreateFile, Named, directory
    <2>4. QED  BY <2>1, <2>2, <2>3 DEF ManageGrants
<1>7. QED  BY <1>4, <1>5, <1>6 DEF IInv

-----------------------------------------------------------------------------
(* The steps of a lookup.                                                  *)

\* Only thread t moves, and the tables stay.
LEMMA ReadGroupsInv ==
    ASSUME IInv, NEW t \in Threads, ReadGroups(t)
    PROVE  IInv'
<1>1. call[t] \in Calls
    BY DEF IInv, TypeOK, ReadGroups
<1>2. \A g \in GroupIds : Level(acl[call[t].file][g]) \in Levels
    BY ReadTyped DEF IInv, ReadGroups
<1>3. GroupIdsOf(call[t].user) \subseteq GroupIds
    BY DEF GroupIdsOf
<1>4. TypeOK'
    <2>1. [g \in GroupIds |-> IF <<call[t].user, g>> \in members
                              THEN {Level(acl[call[t].file][g])} ELSE {}]
            \in [GroupIds -> SUBSET Levels]
        BY <1>2
    <2>2. seen' \in [Threads -> [GroupIds -> SUBSET Levels]]
        BY <2>1, Zenon DEF ReadGroups, IInv, TypeOK
    <2>3. QED  BY <1>3, <2>2 DEF ReadGroups, IInv, TypeOK, tables, directory
<1>5. Looking(t)'
    BY <1>2 DEF ReadGroups, Looking, IInv, TypeOK, tables, GroupIdsOf
<1>6. ASSUME NEW u \in Threads, u # t
      PROVE  /\ pc'[u] = "rows" => Looking(u)'
             /\ pc'[u] = "task" => Admitted(u)'
    BY <1>6 DEF ReadGroups, IInv, TypeOK, LookupsOK, Looking, Admitted, tables
<1>7. pc'[t] = "rows"
    BY DEF ReadGroups, IInv, TypeOK
<1>8. LookupsOK'
    BY <1>5, <1>6, <1>7 DEF LookupsOK
<1>9. NothingDangles'
    BY DEF ReadGroups, IInv, NothingDangles, Exists, tables, directory
<1>10. QED  BY <1>4, <1>8, <1>9 DEF IInv

LEMMA ReadRowInv ==
    ASSUME IInv, NEW t \in Threads, NEW h \in GroupIds, ReadRow(t, h)
    PROVE  IInv'
<1> DEFINE level == Level(acl[call[t].file][h])
<1>1. call[t] \in Calls
    BY DEF IInv, TypeOK, ReadRow
<1>2. level \in Levels /\ best[t] \in Levels
    <2>1. level \in Levels
        BY ReadTyped DEF IInv, ReadRow
    <2>2. QED  BY <2>1 DEF IInv, TypeOK
<1>3. /\ best' = [best EXCEPT ![t] = IF level > best[t] THEN level ELSE best[t]]
      /\ rest' = [rest EXCEPT ![t] = IF best'[t] = READ_WRITE THEN {} ELSE rest[t] \ {h}]
      /\ UNCHANGED <<tables, pc, call, groupIds, seen>>
    BY DEF ReadRow
<1>4. best'[t] = IF level > best[t] THEN level ELSE best[t]
    BY <1>3 DEF IInv, TypeOK
<1>5. TypeOK'
    BY <1>2, <1>3 DEF IInv, TypeOK, tables, directory
<1>6. Looking(t) /\ h \in groupIds[t]
    BY DEF ReadRow, IInv, LookupsOK, Looking
<1>7. Looking(t)'
    <2>1. rest'[t] \subseteq groupIds'[t]
        BY <1>3, <1>6 DEF Looking, IInv, TypeOK
    <2>2. \A g \in groupIds'[t] : Level(acl'[call'[t].file][g]) \in seen'[t][g]
        BY <1>3, <1>6 DEF Looking, tables
    <2>3. best'[t] # NO_PROPERTY => \E g \in groupIds'[t] : best'[t] \in seen'[t][g]
        BY <1>2, <1>3, <1>4, <1>6 DEF Looking
    <2>4. ASSUME NEW g \in groupIds'[t] \ rest'[t]
          PROVE  \E l \in seen'[t][g] : l <= best'[t]
        <3>1. g \in GroupIds /\ g \in groupIds[t]
            BY <1>3 DEF IInv, TypeOK
        <3>2. Level(acl[call[t].file][g]) \in seen[t][g] /\ Level(acl[call[t].file][g]) \in Levels
            BY <1>6, <3>1, ReadTyped DEF Looking, IInv, ReadRow
        <3>3. CASE best'[t] = READ_WRITE
            BY <1>3, <3>2, <3>3
        <3>4. CASE g = h
            BY <1>2, <1>3, <1>4, <3>2, <3>4
        <3>5. CASE best'[t] # READ_WRITE /\ g # h
            <4>1. g \notin rest[t]
                BY <1>3, <2>4, <3>5 DEF IInv, TypeOK
            <4>2. PICK l \in seen[t][g] : l <= best[t]
                BY <1>6, <3>1, <4>1 DEF Looking
            <4>3. l \in Levels
                BY <3>1, SeenTyped DEF IInv
            <4>4. QED  BY <1>2, <1>3, <1>4, <4>2, <4>3
        <3>6. QED  BY <3>3, <3>4, <3>5
    <2>5. QED  BY <2>1, <2>2, <2>3, <2>4 DEF Looking
<1>8. ASSUME NEW u \in Threads, u # t
      PROVE  /\ pc'[u] = "rows" => Looking(u)'
             /\ pc'[u] = "task" => Admitted(u)'
    BY <1>3, <1>8 DEF IInv, TypeOK, LookupsOK, Looking, Admitted, tables
<1>9. pc'[t] = "rows"
    BY DEF ReadRow
<1>10. LookupsOK'
    BY <1>7, <1>8, <1>9 DEF LookupsOK
<1>11. NothingDangles'
    BY <1>3 DEF IInv, NothingDangles, Exists, tables, directory
<1>12. QED  BY <1>5, <1>10, <1>11 DEF IInv

LEMMA RequestInv ==
    ASSUME IInv, NEW t \in Threads, Request(t)
    PROVE  IInv'
<1>1. PICK c \in Calls : call' = [call EXCEPT ![t] = c]
    BY DEF Request, Calls, IInv, TypeOK
<1>2. TypeOK'
    BY <1>1 DEF Request, IInv, TypeOK, tables, directory
<1>3. LookupsOK'
    BY <1>1 DEF Request, IInv, TypeOK, LookupsOK, Looking, Admitted, tables
<1>4. NothingDangles'
    BY DEF Request, IInv, NothingDangles, Exists, tables, directory
<1>5. QED  BY <1>2, <1>3, <1>4 DEF IInv

LEMMA ReplyInv ==
    ASSUME IInv, NEW t \in Threads, Reply(t), UNCHANGED tables
    PROVE  IInv'
<1>1. TypeOK'
    <2>1. [g \in GroupIds |-> {}] \in [GroupIds -> SUBSET Levels]
        OBVIOUS
    <2>2. seen' \in [Threads -> [GroupIds -> SUBSET Levels]]
        BY <2>1, Zenon DEF Reply, IInv, TypeOK
    <2>3. QED  BY <2>2 DEF Reply, IInv, TypeOK, tables, directory
<1>2. LookupsOK'
    BY DEF Reply, IInv, TypeOK, LookupsOK, Looking, Admitted, tables
<1>3. NothingDangles'
    BY DEF IInv, NothingDangles, Exists, tables, directory
<1>4. QED  BY <1>1, <1>2, <1>3 DEF IInv

\* A request is admitted with the READ_WRITE that its lookup has found.
LEMMA AnswerInv ==
    ASSUME IInv, NEW t \in Threads, Answer(t)
    PROVE  IInv'
<1>1. CASE Reply(t)
    BY <1>1, ReplyInv DEF Answer
<1>2. CASE Admit(t) /\ best[t] >= READ_WRITE
    <2>1. pc[t] = "rows" /\ UNCHANGED <<tables, call, groupIds, rest, best, seen>>
        BY <1>2 DEF Answer, Admit
    <2>2. best[t] = READ_WRITE
        BY <1>2 DEF IInv, TypeOK
    <2>3. Admitted(t)
        BY <2>1, <2>2 DEF IInv, LookupsOK, Looking, Admitted
    <2>4. TypeOK'
        BY <1>2, <2>1 DEF Admit, IInv, TypeOK, tables, directory
    <2>5. LookupsOK'
        BY <1>2, <2>1, <2>3 DEF Admit, IInv, TypeOK, LookupsOK, Looking, Admitted, tables
    <2>6. NothingDangles'
        BY <2>1 DEF IInv, NothingDangles, Exists, tables, directory
    <2>7. QED  BY <2>4, <2>5, <2>6 DEF IInv
<1>3. QED  BY <1>1, <1>2 DEF Answer

\* The grants go with the file, under the lookups of the other threads.
LEMMA RemoveFileInv ==
    ASSUME IInv, NEW t \in Threads, RemoveFile(t)
    PROVE  IInv'
<1>1. call[t].file \in Files /\ pc[t] = "task"
    BY DEF RemoveFile, IInv, TypeOK, Calls
<1>2. acl' \in [Files -> [GroupIds -> {NoRow, READ_ONLY, READ_WRITE}]]
    BY <1>1 DEF RemoveFile, IInv, TypeOK
<1>3. \A u \in Threads, g \in GroupIds :
        seen'[u][g] = IF pc[u] = "rows" /\ g \in groupIds[u]
                      THEN seen[u][g] \cup {Level(acl'[call[u].file][g])}
                      ELSE seen[u][g]
    BY DEF RemoveFile, Watch
<1>4. ASSUME NEW u \in Threads, NEW g \in GroupIds
      PROVE  (IF pc[u] = "rows" /\ g \in groupIds[u]
              THEN seen[u][g] \cup {Level(acl'[call[u].file][g])}
              ELSE seen[u][g]) \in SUBSET Levels
    <2>1. seen[u][g] \in SUBSET Levels
        BY SeenTyped DEF IInv
    <2>2. CASE pc[u] = "rows"
        <3>1. call[u].file \in Files
            BY <2>2 DEF IInv, TypeOK, Calls
        <3>2. acl'[call[u].file][g] \in {NoRow, READ_ONLY, READ_WRITE}
            BY <1>2, <3>1
        <3>3. QED  BY <2>1, <3>2 DEF Level
    <2>3. QED  BY <2>1, <2>2
<1>5. seen' \in [Threads -> [GroupIds -> SUBSET Levels]]
    BY <1>4, Zenon DEF RemoveFile, Watch
<1>6. TypeOK'
    BY <1>1, <1>2, <1>5 DEF RemoveFile, IInv, TypeOK, directory
<1>7. ASSUME NEW u \in Threads, u # t
      PROVE  /\ pc'[u] = "rows" => Looking(u)'
             /\ pc'[u] = "task" => Admitted(u)'
    <2>1. groupIds[u] \subseteq GroupIds
        BY DEF IInv, TypeOK
    <2>2. /\ pc'[u] = pc[u] /\ groupIds'[u] = groupIds[u] /\ rest'[u] = rest[u]
          /\ best'[u] = best[u] /\ call'[u] = call[u]
        BY <1>7 DEF RemoveFile, IInv, TypeOK
    <2>3. \A g \in GroupIds : seen[u][g] \subseteq seen'[u][g]
        BY <1>3
    <2>4. pc[u] = "rows" => \A g \in groupIds[u] : Level(acl'[call[u].file][g]) \in seen'[u][g]
        BY <1>3, <2>1
    <2>5. (pc[u] = "rows" => Looking(u)) /\ (pc[u] = "task" => Admitted(u))
        BY DEF IInv, LookupsOK
    <2>6. QED  BY <2>1, <2>2, <2>3, <2>4, <2>5 DEF Looking, Admitted
<1>8. pc'[t] = "done"
    BY DEF RemoveFile, IInv, TypeOK
<1>9. LookupsOK'
    BY <1>7, <1>8 DEF LookupsOK
<1>10. NothingDangles'
    BY <1>1 DEF RemoveFile, IInv, TypeOK, NothingDangles, Exists, directory
<1>11. QED  BY <1>6, <1>9, <1>10 DEF IInv

LEMMA NextInv == IInv /\ [Next]_vars => IInv'
<1> SUFFICES ASSUME IInv, [Next]_vars
             PROVE  IInv'
    OBVIOUS
<1>1. CASE ManageGroups
    BY <1>1, ManageGroupsInv
<1>2. CASE ManageGrants
    BY <1>2, ManageGrantsInv
<1>3. ASSUME NEW t \in Threads, Step(t)
      PROVE  IInv'
    <2>1. CASE Request(t)
        BY <2>1, RequestInv
    <2>2. CASE ReadGroups(t)
        BY <2>2, ReadGroupsInv
    <2>3. CASE ReadFails(t) \/ Respond(t)
        BY <2>3, ReplyInv DEF ReadFails, Respond
    <2>4. CASE Answer(t)
        BY <2>4, AnswerInv
    <2>5. CASE RemoveFile(t)
        BY <2>5, RemoveFileInv
    <2>6. CASE \E g \in GroupIds : ReadRow(t, g)
        BY <2>6, ReadRowInv
    <2>7. QED  BY <1>3, <2>1, <2>2, <2>3, <2>4, <2>5, <2>6 DEF Step
<1>4. CASE UNCHANGED vars
    BY <1>4 DEF vars, tables, directory, lookup, IInv, TypeOK, NothingDangles, Exists,
                LookupsOK, Looking, Admitted
<1>5. QED  BY <1>1, <1>2, <1>3, <1>4 DEF Next

LEMMA Invariant == Spec => []IInv
BY InitInv, NextInv, PTL DEF Spec

-----------------------------------------------------------------------------
(* The properties.                                                         *)

\* Every variable holds values of its kind, and no stored grant says
\* NO_PROPERTY (file-acl-controller.cpp:153).
THEOREM TypeCorrect == Spec => []TypeOK
BY Invariant, PTL DEF IInv

\* No removal leaves a grant without its file or group, or a membership without
\* its user or group (migration_init.h:18-25, :50-58).
THEOREM NothingDanglesEver == Spec => []NothingDangles
BY Invariant, PTL DEF IInv

\* The level getUserAclLevel answers is one a group of the user has had during
\* the call (file-acl-service.cpp:40-58).
THEOREM AclIsJustified == Spec => []AclJustified
<1>1. IInv => AclJustified
    BY DEF IInv, LookupsOK, Looking, Looked, AclJustified
<1>2. QED  BY <1>1, Invariant, PTL

\* It is not less than what any group of the user has had all the time
\* (file-acl-service.cpp:40-58).
THEOREM AclIsSufficient == Spec => []AclSufficient
<1>1. IInv => AclSufficient
    BY DEF IInv, LookupsOK, Looking, Looked, AclSufficient
<1>2. QED  BY <1>1, Invariant, PTL

\* A file is removed only for a user who was in a group that had READ_WRITE at
\* a moment of the request (file-controller.cpp:354).
THEOREM RemovalHadAccess == Spec => RemovedWithAccess
<1>1. ASSUME IInv, Next, NEW f \in files \ files'
      PROVE  \E t \in Threads : /\ pc[t] = "task" /\ call[t].file = f
                                /\ \E g \in groupIds[t] : READ_WRITE \in seen[t][g]
    <2>1. PICK t \in Threads : RemoveFile(t)
        BY <1>1 DEF Next, ManageGroups, AddUser, CreateGroup, DeleteGroup, AddUserToGroup,
                    RemoveUserFromGroup, ManageGrants, SetGroupAcl, RemoveGroupAcl,
                    CreateFile, Step, Request, ReadGroups, ReadRow, ReadFails, Answer,
                    Respond, tables
    <2>2. Admitted(t) /\ pc[t] = "task" /\ call[t].file = f
        BY <1>1, <2>1 DEF RemoveFile, IInv, LookupsOK
    <2>3. QED  BY <2>2 DEF Admitted
<1>2. IInv /\ [Next]_vars =>
        [\A f \in files \ files' :
           \E t \in Threads : /\ pc[t] = "task" /\ call[t].file = f
                              /\ \E g \in groupIds[t] : READ_WRITE \in seen[t][g]]_vars
    BY <1>1
<1>3. QED  BY <1>2, Invariant, PTL DEF Spec, RemovedWithAccess
=============================================================================
