------------------------- MODULE ClientWindowsProofs -------------------------
(* The groups dialog: whoever waits for it is waited for by a call, and its *)
(* list of users belongs to the selected group.  The tree of files: when   *)
(* nothing is under way it shows what the server has announced.            *)
EXTENDS ClientWindows, FiniteSetTheorems, TLAPS

\* A call under way has a kind and a group.
CallsShaped ==
    /\ DOMAIN calls = 1..MaxCalls
    /\ \A n \in DOMAIN calls : calls[n].stage # "idle" =>
          {"stage", "kind", "group"} \subseteq DOMAIN calls[n]

DialogInv == CallsShaped /\ DialogBusyIsAwaited /\ ListIsOfGroup

\* The part of the state the invariant speaks of.
dialogVars == <<dialog, calls, widgets>>

-----------------------------------------------------------------------------
LEMMA InitDialog == Init => DialogInv
  BY DEF Init, SessionInit, SharingInit, DialogInv, CallsShaped, DialogBusyIsAwaited,
         ListIsOfGroup, Idle

LEMMA SlotIsFree ==
    ASSUME Free(calls) # {}
    PROVE  Slot(calls) \in DOMAIN calls /\ calls[Slot(calls)].stage = "idle"
  BY DEF Slot, Free

-----------------------------------------------------------------------------
(* Calls.                                                                  *)

\* A new call leaves those under way alone.
LEMMA RingShaped ==
    ASSUME CallsShaped, NEW kind, NEW g, NEW stage, NEW u, stage # "idle",
           Ring([stage |-> stage, kind |-> kind, group |-> g, user |-> u])
    PROVE  /\ CallsShaped'
           /\ \A n \in Busy(calls) : n \in Busy(calls)' /\ calls'[n] = calls[n]
           /\ \E n \in Busy(calls)' : calls'[n].kind = kind /\ calls'[n].group = g
  BY SlotIsFree DEF Ring, CallsShaped, Busy, Free

\* Neither does the end of a call, or a step that replaces it by another.
LEMMA HangShaped ==
    ASSUME CallsShaped, NEW n \in Busy(calls), Hang(n)
    PROVE  /\ CallsShaped'
           /\ \A m \in Busy(calls) \ {n} : m \in Busy(calls)' /\ calls'[m] = calls[m]
  BY DEF Hang, CallsShaped, Busy, Free, Idle

LEMMA HangAndRingShaped ==
    ASSUME CallsShaped, NEW n \in Busy(calls), NEW kind, NEW g,
           HangAndRing(n, Call(kind, g, None))
    PROVE  /\ CallsShaped'
           /\ n \in Busy(calls)' /\ calls'[n].kind = kind /\ calls'[n].group = g
  BY DEF HangAndRing, Call, CallsShaped, Busy, Free

\* A step of a call that keeps its kind and, unless it is a creation, its group.
Goes(n) ==
    /\ CallsShaped'
    /\ \A m \in Busy(calls) : /\ m \in Busy(calls)'
                              /\ calls'[m].kind = calls[m].kind
                              /\ calls[m].kind # "create" => calls'[m].group = calls[m].group

LEMMA GoesKeeps ==
    ASSUME DialogInv, NEW n, Goes(n), UNCHANGED <<dialog, widgets>>
    PROVE  DialogInv'
  BY DEF DialogInv, Goes, widgets, DialogBusyIsAwaited, ListIsOfGroup

LEMMA ProceedGoes ==
    ASSUME CallsShaped, NEW n \in DOMAIN calls, NEW from, NEW to, from # "idle", to # "idle",
           Proceed(n, from, to)
    PROVE  Goes(n)
  BY DEF Proceed, Goes, CallsShaped, Busy, Free

-----------------------------------------------------------------------------
(* Results in the dialogs.                                                 *)

\* A result that does not concern the open dialog ends its call: it is not the
\* one that is waited for.
LEMMA IgnoresKeeps ==
    ASSUME DialogInv, NEW n \in Busy(calls), Ignores(n), UNCHANGED dialog,
           \/ dialog # "groups"
           \/ calls[n].kind \notin {"groups", "create"} /\ calls[n].group # selected
    PROVE  DialogInv'
  <1>1. CallsShaped' /\ \A m \in Busy(calls) \ {n} : m \in Busy(calls)' /\ calls'[m] = calls[m]
    BY HangShaped DEF DialogInv, Ignores
  <1>2. UNCHANGED <<busy, selected, users, usersOf, misled>>
    BY DEF Ignores, widgets
  <1>3. CASE dialog # "groups"
    BY <1>1, <1>3 DEF DialogInv, DialogBusyIsAwaited, ListIsOfGroup
  <1>4. CASE dialog = "groups" /\ calls[n].kind \notin {"groups", "create"}
                               /\ calls[n].group # selected
    BY <1>1, <1>2, <1>4 DEF DialogInv, DialogBusyIsAwaited, ListIsOfGroup
  <1> QED BY <1>3, <1>4

LEMMA FailsKeeps ==
    ASSUME DialogInv, NEW n \in Busy(calls), Fails(n)
    PROVE  DialogInv'
  BY HangShaped DEF DialogInv, Fails, DialogBusyIsAwaited, ListIsOfGroup

\* The next call is the one that is waited for.
LEMMA NextCallKeeps ==
    ASSUME DialogInv, NEW n \in Busy(calls), NEW kind, NEW g,
           HangAndRing(n, Call(kind, g, None)), busy' = TRUE,
           kind = "groups" \/ g = selected'
    PROVE  DialogInv'
  BY HangAndRingShaped DEF DialogInv, DialogBusyIsAwaited, ListIsOfGroup

LEMMA GroupsLoadedKeeps ==
    ASSUME DialogInv, NEW n \in Busy(calls), NEW ok, NEW groups, UNCHANGED dialog,
           HandleCurrentUserGroupsLoaded(n, ok, groups)
    PROVE  DialogInv'
  <1>1. CASE dialog = "groups" /\ Fails(n)
    BY <1>1, FailsKeeps
  <1>2. CASE Hang(n) /\ busy' = FALSE /\ users' = {}
    BY <1>2, HangShaped DEF DialogInv, DialogBusyIsAwaited, ListIsOfGroup
  <1>3. ASSUME NEW g \in groups, HangAndRing(n, LoadUsers(g)), busy' = TRUE, selected' = g
        PROVE  DialogInv'
    BY <1>3, NextCallKeeps DEF LoadUsers
  <1>4. CASE dialog # "groups" /\ Ignores(n)
    BY <1>4, IgnoresKeeps
  <1> QED BY <1>1, <1>2, <1>3, <1>4 DEF HandleCurrentUserGroupsLoaded

LEMMA UsersLoadedKeeps ==
    ASSUME DialogInv, NEW n \in Busy(calls), NEW ok, NEW loaded, UNCHANGED dialog,
           calls[n].kind = "users", HandleGroupUsersLoaded(n, calls[n].group, ok, loaded)
    PROVE  DialogInv'
  <1>1. CASE ~ForSelected(calls[n].group) /\ Ignores(n)
    BY <1>1, IgnoresKeeps DEF ForSelected
  <1>2. CASE Fails(n)
    BY <1>2, FailsKeeps
  <1>3. CASE /\ ForSelected(calls[n].group) /\ Hang(n) /\ busy' = FALSE
             /\ usersOf' = calls[n].group /\ selected' = selected
    BY <1>3, HangShaped DEF ForSelected, DialogInv, DialogBusyIsAwaited, ListIsOfGroup
  <1> QED BY <1>1, <1>2, <1>3 DEF HandleGroupUsersLoaded

LEMMA MembershipKeeps ==
    ASSUME DialogInv, NEW n \in Busy(calls), NEW ok, UNCHANGED dialog,
           calls[n].kind \in {"add", "remove"}, HandleMembership(n, calls[n].group, ok)
    PROVE  DialogInv'
  <1>1. CASE ~ForSelected(calls[n].group) /\ Ignores(n)
    BY <1>1, IgnoresKeeps DEF ForSelected
  <1>2. CASE Fails(n)
    BY <1>2, FailsKeeps
  <1>3. CASE /\ ForSelected(calls[n].group) /\ HangAndRing(n, LoadUsers(calls[n].group))
             /\ busy' = TRUE /\ selected' = selected
    BY <1>3, NextCallKeeps DEF ForSelected, LoadUsers
  <1> QED BY <1>1, <1>2, <1>3 DEF HandleMembership

LEMMA GroupCreatedKeeps ==
    ASSUME DialogInv, NEW n \in Busy(calls), NEW ok, UNCHANGED dialog,
           HandleGroupCreated(n, ok)
    PROVE  DialogInv'
  <1>1. CASE dialog # "groups" /\ Ignores(n)
    BY <1>1, IgnoresKeeps
  <1>2. CASE Fails(n)
    BY <1>2, FailsKeeps
  <1>3. CASE HangAndRing(n, LoadGroups) /\ busy' = TRUE
    BY <1>3, NextCallKeeps DEF LoadGroups
  <1> QED BY <1>1, <1>2, <1>3 DEF HandleGroupCreated

LEMMA HandleKeeps ==
    ASSUME DialogInv, NEW n \in Busy(calls), NEW ok, NEW loaded, UNCHANGED dialog,
           Handle(n, ok, loaded)
    PROVE  DialogInv'
  BY GroupsLoadedKeeps, UsersLoadedKeeps, MembershipKeeps, GroupCreatedKeeps DEF Handle

-----------------------------------------------------------------------------
(* Steps of the user and of the server.                                    *)

\* A widget that asks for something disables the dialog until its result.
LEMMA AskKeeps ==
    ASSUME DialogInv, NEW kind, NEW g, NEW stage, NEW u, stage # "idle",
           Ring([stage |-> stage, kind |-> kind, group |-> g, user |-> u]),
           busy' = TRUE, kind \in {"groups", "create"} \/ g = selected'
    PROVE  DialogInv'
  BY RingShaped DEF DialogInv, DialogBusyIsAwaited, ListIsOfGroup

LEMMA UserKeeps == ASSUME DialogInv, UserSteps PROVE DialogInv'
  <1> USE DEF Call, LoadGroups, LoadUsers
  <1>1. CASE ShowGroups \/ RefreshGroups \/ CreateGroup
    BY <1>1, AskKeeps DEF ShowGroups, RefreshGroups, CreateGroup
  <1>2. CASE ShowCreateFile
    BY <1>2, RingShaped DEF ShowCreateFile, DialogInv, DialogBusyIsAwaited, ListIsOfGroup
  <1>3. ASSUME NEW g \in Groups, SelectGroup(g) PROVE DialogInv'
    BY <1>3, AskKeeps DEF SelectGroup
  <1>4. ASSUME NEW u \in {Me, Peer}, AddUser(u) PROVE DialogInv'
    BY <1>4, AskKeeps DEF AddUser
  <1>5. ASSUME NEW u \in {Me, Peer}, RemoveUser(u) PROVE DialogInv'
    BY <1>5, AskKeeps DEF RemoveUser
  <1>6. CASE CloseDialog /\ UNCHANGED calls
    BY <1>6 DEF CloseDialog, DialogInv, CallsShaped, DialogBusyIsAwaited, ListIsOfGroup
  <1> QED BY <1>1, <1>2, <1>3, <1>4, <1>5, <1>6 DEF UserSteps

LEMMA MembersKeep == ASSUME DialogInv, MembersChange PROVE DialogInv'
  <1> PICK n \in DOMAIN calls : ServeMembership(n) \/ ServeJoin(n)
    BY DEF MembersChange
  <1>1. UNCHANGED dialog
    BY DEF MembersChange
  <1>2. Goes(n) /\ UNCHANGED widgets
    BY ProceedGoes DEF ServeMembership, ServeJoin, Proceed, DialogInv
  <1> QED BY <1>1, <1>2, GoesKeeps

LEMMA ServedKeeps == ASSUME DialogInv, CallServed PROVE DialogInv'
  <1> PICK n \in DOMAIN calls :
          FindUser(n) \/ ServeCreateGroup(n) \/ LoadIds(n) \/ LoadName(n) \/ CallDone(n)
             \/ CallRefused(n)
    BY DEF CallServed
  <1>1. UNCHANGED dialog
    BY DEF CallServed
  <1>2. CASE FindUser(n)
    BY <1>1, <1>2, ProceedGoes, GoesKeeps DEF FindUser, Proceed, DialogInv
  <1>3. CASE ServeCreateGroup(n)
    <2> n \in Busy(calls) /\ calls[n].kind = "create"
      BY <1>3 DEF ServeCreateGroup, Busy, Free
    <2> {"stage", "kind", "group"} \subseteq DOMAIN calls[n]
      BY DEF DialogInv, CallsShaped, Busy, Free
    <2> PICK g : calls' = [calls EXCEPT ![n].stage = "join", ![n].group = g]
      BY <1>3 DEF ServeCreateGroup
    <2> /\ DOMAIN calls' = DOMAIN calls
        /\ DOMAIN calls'[n] = DOMAIN calls[n]
        /\ calls'[n].stage = "join"
        /\ calls'[n].kind = "create"
        /\ \A m \in DOMAIN calls \ {n} : calls'[m] = calls[m]
      OBVIOUS
    <2>1. Goes(n)
      BY DEF Goes, DialogInv, CallsShaped, Busy, Free
    <2> QED BY <1>1, <1>3, <2>1, GoesKeeps DEF ServeCreateGroup
  <1>4. CASE LoadIds(n)
    <2> n \in Busy(calls)
      BY <1>4 DEF LoadIds, IsLoad, Busy, Free
    <2>1. CASE Handle(n, TRUE, {})
      BY <1>1, <2>1, HandleKeeps
    <2>2. CASE /\ calls' = [calls EXCEPT ![n] =
                    [stage |-> "names", kind |-> @.kind, group |-> @.group,
                     ids |-> IdsOf(calls[n]), pending |-> Cardinality(IdsOf(calls[n]))]]
               /\ UNCHANGED widgets
      <3>1. Goes(n)
        BY <2>2 DEF Goes, DialogInv, CallsShaped, Busy, Free
      <3> QED BY <1>1, <2>2, <3>1, GoesKeeps
    <2> QED BY <1>4, <2>1, <2>2 DEF LoadIds
  <1>5. CASE LoadName(n)
    <2> n \in Busy(calls)
      BY <1>5 DEF LoadName, Busy, Free
    <2>1. CASE Handle(n, TRUE, calls[n].ids)
      BY <1>1, <2>1, HandleKeeps
    <2>2. CASE calls' = [calls EXCEPT ![n].pending = @ - 1] /\ UNCHANGED widgets
      <3>1. Goes(n)
        BY <2>2 DEF Goes, DialogInv, CallsShaped, Busy, Free
      <3> QED BY <1>1, <2>2, <3>1, GoesKeeps
    <2> QED BY <1>5, <2>1, <2>2 DEF LoadName
  <1>6. CASE CallDone(n) \/ CallRefused(n)
    <2> n \in Busy(calls)
      BY <1>6 DEF CallDone, CallRefused, Busy, Free
    <2> QED BY <1>1, <1>6, HandleKeeps DEF CallDone, CallRefused
  <1> QED BY <1>2, <1>3, <1>4, <1>5, <1>6

LEMMA ErrorKeeps == ASSUME DialogInv, CallError PROVE DialogInv'
  <1> PICK n \in DOMAIN calls : CallFails(n)
    BY DEF CallError
  <1>1. n \in Busy(calls) /\ UNCHANGED dialog
    BY DEF CallError, CallFails, Busy, Free
  <1> QED BY <1>1, HandleKeeps DEF CallFails

-----------------------------------------------------------------------------
LEMMA DialogUnchanged == ASSUME DialogInv, UNCHANGED dialogVars PROVE DialogInv'
  BY DEF dialogVars, widgets, DialogInv, CallsShaped, DialogBusyIsAwaited, ListIsOfGroup, Busy, Free

LEMMA QuitKeeps == ASSUME DialogInv, Quit PROVE DialogInv'
  BY DEF Quit, Leave, Idle, DialogInv, CallsShaped, DialogBusyIsAwaited, ListIsOfGroup

LEMMA CreatesKeeps == ASSUME DialogInv, UserCreates PROVE DialogInv'
  BY DEF UserCreates, CloseDialog, DialogInv, CallsShaped, DialogBusyIsAwaited, ListIsOfGroup

LEMMA NextDialog == DialogInv /\ [Next]_clientVars => DialogInv'
  <1> SUFFICES ASSUME DialogInv, [Next]_clientVars PROVE DialogInv'
    OBVIOUS
  <1> USE DEF dialogVars
  <1>1. CASE SessionSteps \/ EnterMainWindow \/ StreamLost
    BY <1>1, DialogUnchanged DEF SessionSteps, Authenticate, AuthenticationFails, StreamOpens,
       EnterMainWindow, LoggedIn, StreamLost, StreamEnds, sharingVars, widgets
  <1>2. CASE Notified \/ RefreshAnswered \/ ChangeServed \/ ChangeRefused
    BY <1>2, DialogUnchanged DEF Notified, RefreshAnswered, ChangeServed, ChangeRefused,
       Catalog, sessionOnly, sharingVars, widgets
  <1>3. CASE UserRefreshes \/ UserChanges \/ PeerSteps
    BY <1>3, DialogUnchanged DEF UserRefreshes, UserChanges, PeerSteps, sharingVars, widgets
  <1>4. CASE UNCHANGED clientVars
    BY <1>4, DialogUnchanged DEF clientVars, sessionVars, sharingVars, widgets
  <1>5. CASE Quit \/ UserCreates \/ UserSteps
    BY <1>5, QuitKeeps, CreatesKeeps, UserKeeps
  <1>6. CASE MembersChange \/ CallServed \/ CallError
    BY <1>6, MembersKeep, ServedKeeps, ErrorKeeps
  <1> QED BY <1>1, <1>2, <1>3, <1>4, <1>5, <1>6 DEF Next, Answers

\* Who waits for the groups dialog does not wait in vain, with any number of
\* groups, calls and failures (GroupManagementDialog::setBusy).
THEOREM DialogIsAwaited == Spec => []DialogBusyIsAwaited
  BY InitDialog, NextDialog, PTL DEF Spec, DialogInv

\* The users in the groups dialog belong to the selected group, unless a failure
\* has enabled the dialog too early, in whatever order results arrive.
THEOREM ListBelongsToGroup == Spec => []ListIsOfGroup
  BY InitDialog, NextDialog, PTL DEF Spec, DialogInv

-----------------------------------------------------------------------------
(* The tree of files.  What it shows, and what a refresh has found so far, *)
(* is what there is, unless a refresh is owed.                             *)

\* What a tree without a fault shows.
Latest == [f \in Visible |-> holder[f]]

\* A refresh is still to come: for an event on its way, or a change of this
\* client that the server has made and whose answer is not in.
Owed ==
    \/ \E i \in 1..Len(events) : events[i] \in RefreshingEvents
    \/ \E n \in DOMAIN changes : changes[n].stage \in {"created", "done"}

\* The locks a refresh still asks for.
Open(r) == {f \in DOMAIN r.lookup : r.lookup[f] # "done"}

\* A refresh in its lookups; found is to be shown when the last one has ended.
Hydration(r) ==
    /\ r = [stage |-> "hydrate", fresh |-> r.fresh, pending |-> r.pending,
            plain |-> r.plain, lookup |-> r.lookup, found |-> r.found]
    /\ r.fresh \in BOOLEAN
    /\ r.plain \in Nat
    /\ r.lookup = [f \in DOMAIN r.lookup |-> r.lookup[f]]
    /\ r.found = [f \in DOMAIN r.lookup |-> r.found[f]]
    /\ DOMAIN r.lookup \subseteq Files

\* What is awaited: creators and accesses, and one answer or two for each lock.
Counted(r) == r.pending = r.plain + Cardinality(Open(r))

RefreshShaped(r) ==
    \/ r = Idle
    \/ r = [stage |-> "list", fresh |-> r.fresh] /\ r.fresh \in BOOLEAN
    \/ Hydration(r) /\ Counted(r)

\* What a refresh has found, and has still to find, is what there is.
Truth(r) ==
    /\ DOMAIN r.lookup = Visible
    /\ \A f \in Visible : r.found[f] = IF r.lookup[f] = "active" THEN None ELSE holder[f]

\* A refresh that counts as fresh finds the truth, unless another one is owed.
Shaped == \A n \in DOMAIN refreshes : RefreshShaped(refreshes[n])

Finds == \A n \in DOMAIN refreshes :
    refreshes[n].stage = "hydrate" /\ refreshes[n].fresh => Owed \/ Truth(refreshes[n])

Refreshes == Shaped /\ Finds

Shown == fresh => Owed \/ shown = Latest

\* There are events for an open stream only, which opens after the login.
Events == RefreshingEvents \cup {"connected"}

Announced ==
    /\ events \in Seq(Events)
    /\ stream # "open" => events = <<>>
    /\ window = "login" => stream = "off"
    /\ authenticating => window = "login"

\* The groups of the files, and of the creations under way, are known.
Changes ==
    /\ granted \in [Files -> SUBSET Groups]
    /\ \A n \in DOMAIN changes : changes[n].stage # "idle" =>
          /\ {"stage", "kind", "file", "group"} \subseteq DOMAIN changes[n]
          /\ changes[n].kind = "create" => changes[n].group \in Groups
          /\ changes[n].stage = "created" => changes[n].kind = "create"

\* Who creates a group is to be its member.
CallKnown(c) == c.stage # "idle" =>
    /\ {"stage", "kind", "group"} \subseteq DOMAIN c
    /\ c.kind = "create" => "user" \in DOMAIN c /\ c.user = Me
    /\ c.stage = "join" => c.kind = "create"
    /\ c.stage = "names" /\ c.kind = "groups" => c.ids \subseteq Groups

\* The groups are those there can be.
Memberships ==
    /\ made \subseteq Groups
    /\ choices \subseteq Groups
    /\ DOMAIN members = Groups
    /\ \A n \in DOMAIN calls : CallKnown(calls[n])

CatalogInv == Refreshes /\ Shown /\ Announced /\ Changes /\ Memberships

\* Nothing is shown at the beginning.
LEMMA InitCatalog == Init => CatalogInv
  BY GroupsAssumption
     DEF CallKnown, Init, SessionInit, CatalogInit, SharingInit, CatalogInv, Refreshes, Shaped,
     Finds, RefreshShaped, Shown, Announced, Changes, Memberships, Idle

-----------------------------------------------------------------------------
\* A record in the hydration has the six fields.
LEMMA RecordOf ==
    ASSUME NEW r, Hydration(r)
    PROVE  \E b, d, l, k, u : r = [stage |-> "hydrate", fresh |-> b, pending |-> d,
                                   plain |-> l, lookup |-> k, found |-> u]
  BY DEF Hydration

\* Its mark can be replaced.
LEMMA FreshIs ==
    ASSUME NEW q, NEW b, NEW d, NEW l, NEW k, NEW u, NEW c,
           q = [stage |-> "hydrate", fresh |-> b, pending |-> d, plain |-> l, lookup |-> k, found |-> u]
    PROVE  [q EXCEPT !.fresh = c] =
           [stage |-> "hydrate", fresh |-> c, pending |-> d, plain |-> l, lookup |-> k, found |-> u]
  OBVIOUS

\* There are finitely many files, and locks to be asked for.
LEMMA OpenIsFinite ==
    ASSUME NEW r, DOMAIN r.lookup \subseteq Files
    PROVE  IsFiniteSet(Open(r)) /\ Cardinality(Open(r)) \in Nat
  <1>1. IsFiniteSet(DOMAIN r.lookup)
    BY FilesAssumption, FS_Subset
  <1>2. Open(r) \in SUBSET (DOMAIN r.lookup)
    BY DEF Open
  <1> QED BY <1>1, <1>2, FS_Subset, FS_CardinalityType

\* A refresh that is outdated goes on, but is not fresh.
LEMMA OutdatedShaped ==
    ASSUME NEW r, RefreshShaped(r)
    PROVE  /\ RefreshShaped(Outdated(r))
           /\ Outdated(r).stage = "hydrate" => ~Outdated(r).fresh
  <1>1. CASE r = Idle
    BY <1>1 DEF Idle, Outdated, RefreshShaped
  <1>2. CASE r = [stage |-> "list", fresh |-> r.fresh] /\ r.fresh \in BOOLEAN
    <2> PICK b \in BOOLEAN : r = [stage |-> "list", fresh |-> b]
      BY <1>2
    <2>1. Outdated(r) = [stage |-> "list", fresh |-> FALSE]
      BY DEF Outdated
    <2>2. Outdated(r).stage = "list" /\ Outdated(r).fresh = FALSE
      BY <2>1
    <2> QED BY <2>1, <2>2 DEF RefreshShaped
  <1>3. CASE Hydration(r) /\ Counted(r)
    <2> DEFINE q == Outdated(r)
    <2>1. q = [stage |-> "hydrate", fresh |-> FALSE, pending |-> r.pending,
               plain |-> r.plain, lookup |-> r.lookup, found |-> r.found]
      <3> HIDE DEF q
      <3> PICK b, d, p, k, u : r = [stage |-> "hydrate", fresh |-> b, pending |-> d,
                                    plain |-> p, lookup |-> k, found |-> u]
        BY <1>3 DEF Hydration
      <3> QED BY DEF q, Outdated
    <2>2. /\ q.stage = "hydrate" /\ q.fresh = FALSE /\ q.pending = r.pending
          /\ q.plain = r.plain /\ q.lookup = r.lookup /\ q.found = r.found
      BY <2>1
    <2>3. Open(q) = Open(r)
      BY <2>2 DEF Open
    <2> HIDE DEF q
    <2>4. Hydration(q)
      BY <1>3, <2>1, <2>2 DEF Hydration
    <2>5. Counted(q)
      BY <1>3, <2>2, <2>3 DEF Counted
    <2> QED BY <2>2, <2>4, <2>5 DEF q, RefreshShaped
  <1> QED BY <1>1, <1>2, <1>3 DEF RefreshShaped

\* After a refresh has begun, or a change was missed, nothing is taken for the
\* latest that was found before.
LEMMA OutdatedKeeps ==
    ASSUME Shaped, RefreshFiles \/ Missed
    PROVE  Refreshes' /\ Shown'
  <1>1. Shown'
    BY DEF RefreshFiles, Missed, Shown
  <1>2. ASSUME NEW n \in DOMAIN refreshes
        PROVE  /\ RefreshShaped(refreshes'[n])
               /\ refreshes'[n].stage = "hydrate" => ~refreshes'[n].fresh
    <2>1. CASE refreshes'[n] = Outdated(refreshes[n])
      BY <2>1, OutdatedShaped DEF Shaped
    <2>2. CASE refreshes'[n] = [stage |-> "list", fresh |-> TRUE]
      BY <2>2 DEF RefreshShaped
    <2> QED BY <2>1, <2>2 DEF RefreshFiles, Missed
  <1>3. DOMAIN refreshes' = DOMAIN refreshes
    BY DEF RefreshFiles, Missed
  <1>4. Shaped'
    BY <1>2, <1>3 DEF Shaped
  <1>5. Finds'
    BY <1>2, <1>3 DEF Finds
  <1> QED BY <1>1, <1>4, <1>5 DEF Refreshes

\* What the server announces is owed; what it does not change is still the truth.
LEMMA SeenKeeps ==
    ASSUME Refreshes, Shown, Seen, UNCHANGED shown,
           Owed' \/ (UNCHANGED <<Visible, holder>> /\ (Owed => Owed'))
    PROVE  Refreshes' /\ Shown'
  <1>1. Shaped'
    BY DEF Seen, Refreshes, Shaped
  <1>2. CASE Owed'
    BY <1>1, <1>2 DEF Seen, Refreshes, Finds, Shown
  <1>3. CASE ~Owed /\ UNCHANGED <<Visible, holder>>
    BY <1>1, <1>3 DEF Seen, Refreshes, Finds, Truth, Shown, Latest
  <1> QED BY <1>2, <1>3

-----------------------------------------------------------------------------
\* The server and what it has announced stay as they are.
ServerStays == UNCHANGED <<status, granted, holder, changes, events, members>>

\* Then the truth stays, and what is owed.
LEMMA StaysKnown ==
    ASSUME ServerStays
    PROVE  UNCHANGED Visible /\ Latest' = Latest /\ (Owed' <=> Owed)
  BY DEF ServerStays, Visible, Latest, Owed

\* A step of one refresh leaves the others alone.
LEMMA ReplaceKeeps ==
    ASSUME Refreshes, ServerStays, NEW n \in DOMAIN refreshes, NEW q,
           refreshes' = [refreshes EXCEPT ![n] = q], RefreshShaped(q),
           q.stage = "hydrate" /\ q.fresh => Owed \/ Truth(q)
    PROVE  Refreshes'
  <1>1. DOMAIN refreshes' = DOMAIN refreshes /\ refreshes'[n] = q
        /\ \A m \in DOMAIN refreshes \ {n} : refreshes'[m] = refreshes[m]
    OBVIOUS
  <1>2. Shaped'
    BY <1>1 DEF Refreshes, Shaped
  <1>3. Finds'
    BY <1>1, StaysKnown DEF Refreshes, Finds, ServerStays, Truth
  <1> QED BY <1>2, <1>3 DEF Refreshes

\* A refresh that has ended owes nothing.
LEMMA IdleShaped == RefreshShaped(Idle) /\ Idle.stage # "hydrate"
  BY DEF RefreshShaped, Idle

\* A lookup that ends leaves one less to be waited for; the last one shows what
\* all have found.
LEMMA FinishKeeps ==
    ASSUME Refreshes, Shown, ServerStays, NEW n \in DOMAIN refreshes, NEW q,
           Hydration(q), q.pending = q.plain + 1 + Cardinality(Open(q)),
           q.fresh => Owed \/ Truth(q), FinishFileHydration(n, q)
    PROVE  Refreshes' /\ Shown'
  <1>1. IsFiniteSet(Open(q)) /\ Cardinality(Open(q)) \in Nat /\ q.plain \in Nat
    BY OpenIsFinite DEF Hydration
  <1>2. CASE q.pending > 1
    <2> DEFINE p == [q EXCEPT !.pending = @ - 1]
    <2>1. refreshes' = [refreshes EXCEPT ![n] = p] /\ UNCHANGED <<shown, fresh>>
      BY <1>2 DEF FinishFileHydration
    <2>2. p = [stage |-> "hydrate", fresh |-> q.fresh, pending |-> q.pending - 1,
               plain |-> q.plain, lookup |-> q.lookup, found |-> q.found]
      <3> PICK b, d, l, k, u : q = [stage |-> "hydrate", fresh |-> b, pending |-> d,
                                    plain |-> l, lookup |-> k, found |-> u]
        BY DEF Hydration
      <3> QED OBVIOUS
    <2> HIDE DEF p
    <2>3. /\ p.stage = "hydrate" /\ p.fresh = q.fresh /\ p.pending = q.pending - 1
          /\ p.plain = q.plain /\ p.lookup = q.lookup /\ p.found = q.found
      BY <2>2
    <2>4. Open(p) = Open(q) /\ (Truth(q) => Truth(p))
      BY <2>3 DEF Open, Truth
    <2>5. Hydration(p)
      BY <2>2, <2>3 DEF Hydration
    <2>6. Counted(p)
      BY <1>1, <2>3, <2>4 DEF Counted
    <2>7. RefreshShaped(p)
      BY <2>5, <2>6 DEF RefreshShaped
    <2>8. Refreshes'
      BY <2>1, <2>3, <2>4, <2>7, ReplaceKeeps
    <2> QED BY <2>1, <2>8, StaysKnown DEF Shown
  <1>3. CASE ~(q.pending > 1)
    <2>1. Cardinality(Open(q)) = 0
      BY <1>1, <1>3
    <2>2. Open(q) = {}
      BY <1>1, <2>1, FS_EmptySet
    <2>3. Truth(q) => q.found = Latest
      BY <2>2 DEF Truth, Open, Hydration, Latest
    <2>4. /\ refreshes' = [refreshes EXCEPT ![n] = Idle]
          /\ shown' = q.found /\ fresh' = q.fresh
      BY <1>3 DEF FinishFileHydration
    <2>5. Refreshes'
      BY <2>4, IdleShaped, ReplaceKeeps
    <2>6. Shown'
      BY <2>3, <2>4, StaysKnown DEF Shown
    <2> QED BY <2>5, <2>6
  <1> QED BY <1>2, <1>3

\* What is known of a refresh in its lookups.
LEMMA HydratingShaped ==
    ASSUME Refreshes, NEW n \in DOMAIN refreshes, Hydrating(n)
    PROVE  /\ Hydration(refreshes[n]) /\ Counted(refreshes[n])
           /\ refreshes[n].fresh => Owed \/ Truth(refreshes[n])
  BY DEF Hydrating, Refreshes, Shaped, Finds, RefreshShaped, Idle

\* The lookup of a creator or of an access.
LEMMA PlainKeeps ==
    ASSUME Refreshes, Shown, ServerStays, NEW n \in DOMAIN refreshes, PlainLookup(n)
    PROVE  Refreshes' /\ Shown'
  <1> DEFINE r == refreshes[n]
             q == [r EXCEPT !.plain = @ - 1]
  <1>1. Hydration(r) /\ Counted(r) /\ (r.fresh => Owed \/ Truth(r)) /\ r.plain > 0
    BY HydratingShaped DEF PlainLookup
  <1>2. FinishFileHydration(n, q)
    BY DEF PlainLookup
  <1> HIDE DEF r
  <1>3. q = [stage |-> "hydrate", fresh |-> r.fresh, pending |-> r.pending,
             plain |-> r.plain - 1, lookup |-> r.lookup, found |-> r.found]
    <2> PICK b, d, l, k, u : r = [stage |-> "hydrate", fresh |-> b, pending |-> d,
                                  plain |-> l, lookup |-> k, found |-> u]
      BY <1>1 DEF Hydration
    <2> QED OBVIOUS
  <1> HIDE DEF q
  <1>4. /\ q.stage = "hydrate" /\ q.fresh = r.fresh /\ q.pending = r.pending
        /\ q.plain = r.plain - 1 /\ q.lookup = r.lookup /\ q.found = r.found
    BY <1>3
  <1>5. Open(q) = Open(r) /\ (Truth(r) => Truth(q))
    BY <1>4 DEF Open, Truth
  <1>6. Hydration(q)
    BY <1>1, <1>3, <1>4 DEF Hydration
  <1>7. r.plain \in Nat /\ Cardinality(Open(r)) \in Nat
    BY <1>1, OpenIsFinite DEF Hydration
  <1>8. q.pending = q.plain + 1 + Cardinality(Open(q))
    BY <1>1, <1>4, <1>5, <1>7 DEF Counted
  <1> QED BY <1>1, <1>2, <1>4, <1>5, <1>6, <1>8, FinishKeeps

\* The lookup of a lock that ends with what it has found.
LEMMA LockKeeps ==
    ASSUME Refreshes, Shown, ServerStays, NEW n \in DOMAIN refreshes, Hydrating(n),
           NEW f \in DOMAIN refreshes[n].lookup, NEW b \in BOOLEAN,
           NEW q, q = [stage |-> "hydrate", fresh |-> b, pending |-> refreshes[n].pending,
                       plain |-> refreshes[n].plain,
                       lookup |-> [refreshes[n].lookup EXCEPT ![f] = "done"],
                       found |-> refreshes[n].found],
           refreshes[n].lookup[f] # "done",
           b => refreshes[n].fresh /\ (refreshes[n].lookup[f] = "active" => holder[f] = None),
           FinishFileHydration(n, q)
    PROVE  Refreshes' /\ Shown'
  <1> DEFINE r == refreshes[n]
  <1>1. Hydration(r) /\ Counted(r) /\ (r.fresh => Owed \/ Truth(r))
    BY HydratingShaped
  <1> HIDE DEF r
  <1>4. /\ q.stage = "hydrate" /\ q.fresh = b /\ q.pending = r.pending
        /\ q.plain = r.plain /\ q.lookup = [r.lookup EXCEPT ![f] = "done"] /\ q.found = r.found
    BY DEF r
  <1>5. f \in DOMAIN r.lookup /\ r.lookup[f] # "done"
    BY DEF r
  <1>6. DOMAIN q.lookup = DOMAIN r.lookup
    BY <1>4
  <1>7. Open(q) = Open(r) \ {f} /\ f \in Open(r)
    BY <1>4, <1>5, <1>6 DEF Open
  <1>8. IsFiniteSet(Open(r)) /\ Cardinality(Open(r)) \in Nat /\ r.plain \in Nat
    BY <1>1, OpenIsFinite DEF Hydration
  <1>9. Cardinality(Open(q)) = Cardinality(Open(r)) - 1
    BY <1>7, <1>8, FS_RemoveElement
  <1>10. q.pending = q.plain + 1 + Cardinality(Open(q))
    BY <1>1, <1>4, <1>8, <1>9 DEF Counted
  <1>11. Hydration(q)
    <2>1. q.lookup = [g \in DOMAIN q.lookup |-> q.lookup[g]]
      BY <1>4
    <2>2. q.found = [g \in DOMAIN q.lookup |-> q.found[g]]
      BY <1>1, <1>4, <1>6 DEF Hydration
    <2>3. q = [stage |-> "hydrate", fresh |-> q.fresh, pending |-> q.pending,
               plain |-> q.plain, lookup |-> q.lookup, found |-> q.found]
      BY <1>4
    <2> QED BY <1>1, <1>4, <1>6, <1>8, <2>1, <2>2, <2>3 DEF Hydration
  <1>12. b /\ Truth(r) => Truth(q)
    BY <1>4, <1>5, <1>6 DEF Truth, r
  <1>13. q.fresh => Owed \/ Truth(q)
    BY <1>1, <1>4, <1>12 DEF r
  <1> QED BY <1>10, <1>11, <1>13, FinishKeeps

\* A record of a hydration whose lookup of f is at its end, fresh or not.
LEMMA DoneIsShaped ==
    ASSUME NEW r, Hydration(r), NEW f
    PROVE  /\ [r EXCEPT !.lookup[f] = "done"] =
                  [stage |-> "hydrate", fresh |-> r.fresh, pending |-> r.pending, plain |-> r.plain,
                   lookup |-> [r.lookup EXCEPT ![f] = "done"], found |-> r.found]
           /\ [r EXCEPT !.lookup[f] = "done", !.fresh = FALSE] =
                  [stage |-> "hydrate", fresh |-> FALSE, pending |-> r.pending, plain |-> r.plain,
                   lookup |-> [r.lookup EXCEPT ![f] = "done"], found |-> r.found]
  <1> DEFINE k == [r.lookup EXCEPT ![f] = "done"]
             q == [r EXCEPT !.lookup = k]
  <1>1. /\ [r EXCEPT !.lookup[f] = "done"] = q
        /\ [r EXCEPT !.lookup[f] = "done", !.fresh = FALSE] = [q EXCEPT !.fresh = FALSE]
    OBVIOUS
  <1> HIDE DEF k
  <1>2. q = [stage |-> "hydrate", fresh |-> r.fresh, pending |-> r.pending,
             plain |-> r.plain, lookup |-> k, found |-> r.found]
    BY RecordOf
  <1> HIDE DEF q
  <1>3. [q EXCEPT !.fresh = FALSE] =
            [stage |-> "hydrate", fresh |-> FALSE, pending |-> r.pending,
             plain |-> r.plain, lookup |-> k, found |-> r.found]
    <2> DEFINE c == FALSE
    <2> HIDE DEF c
    <2>1. [q EXCEPT !.fresh = c] =
              [stage |-> "hydrate", fresh |-> c, pending |-> r.pending,
               plain |-> r.plain, lookup |-> k, found |-> r.found]
      BY <1>2, FreshIs
    <2> QED BY <2>1, Zenon DEF c
  <1> QED BY <1>1, <1>2, <1>3 DEF k

\* A record of a hydration that has found the holder v of the lock of f.
LEMMA NameIsShaped ==
    ASSUME NEW r, Hydration(r), NEW f, NEW v
    PROVE  [r EXCEPT !.lookup[f] = "name", !.found[f] = v] =
               [stage |-> "hydrate", fresh |-> r.fresh, pending |-> r.pending, plain |-> r.plain,
                lookup |-> [r.lookup EXCEPT ![f] = "name"], found |-> [r.found EXCEPT ![f] = v]]
  <1> DEFINE k == [r.lookup EXCEPT ![f] = "name"]
             u == [r.found EXCEPT ![f] = v]
             q == [r EXCEPT !.lookup = k]
  <1>1. [r EXCEPT !.lookup[f] = "name", !.found[f] = v] = [q EXCEPT !.found[f] = v]
    OBVIOUS
  <1> HIDE DEF k
  <1>2. q = [stage |-> "hydrate", fresh |-> r.fresh, pending |-> r.pending,
             plain |-> r.plain, lookup |-> k, found |-> r.found]
    BY RecordOf
  <1> HIDE DEF q
  <1>3. q.found = r.found
    BY <1>2
  <1>4. [q EXCEPT !.found[f] = v] = [q EXCEPT !.found = u]
    BY <1>3
  <1> HIDE DEF u
  <1>5. [q EXCEPT !.found = u] =
            [stage |-> "hydrate", fresh |-> r.fresh, pending |-> r.pending,
             plain |-> r.plain, lookup |-> k, found |-> u]
    BY <1>2
  <1> QED BY <1>1, <1>4, <1>5 DEF k, u

\* Every lookup, whether it succeeds or fails.
LEMMA HydrateKeeps ==
    ASSUME Refreshes, Shown, ServerStays, NEW n \in DOMAIN refreshes, Hydrate(n)
    PROVE  Refreshes' /\ Shown'
  <1> DEFINE r == refreshes[n]
  <1>1. CASE PlainLookup(n)
    BY <1>1, PlainKeeps
  <1>2. ASSUME NEW f \in Files, NoActiveLock(n, f) PROVE Refreshes' /\ Shown'
    <2>1. /\ Hydrating(n) /\ f \in DOMAIN r.lookup /\ r.lookup[f] = "active" /\ holder[f] = None
          /\ FinishFileHydration(n, [r EXCEPT !.lookup[f] = "done"])
      BY <1>2 DEF NoActiveLock, ActiveLock
    <2>2. Hydration(r) /\ r.fresh \in BOOLEAN
      BY <2>1, HydratingShaped DEF Hydration
    <2> DEFINE q == [stage |-> "hydrate", fresh |-> r.fresh, pending |-> r.pending, plain |-> r.plain,
                     lookup |-> [r.lookup EXCEPT ![f] = "done"], found |-> r.found]
    <2>3. FinishFileHydration(n, q)
      BY <2>1, <2>2, DoneIsShaped
    <2>4. r.lookup[f] # "done"
      BY <2>1
    <2> HIDE DEF q
    <2> QED BY <2>1, <2>2, <2>3, <2>4, LockKeeps DEF q
  <1>3. ASSUME NEW f \in Files, ActiveLockFails(n, f) PROVE Refreshes' /\ Shown'
    <2>1. /\ Hydrating(n) /\ f \in DOMAIN r.lookup /\ r.lookup[f] = "active"
          /\ FinishFileHydration(n, [r EXCEPT !.lookup[f] = "done", !.fresh = FALSE])
      BY <1>3 DEF ActiveLockFails, ActiveLock
    <2>2. Hydration(r)
      BY <2>1, HydratingShaped
    <2> DEFINE q == [stage |-> "hydrate", fresh |-> FALSE, pending |-> r.pending, plain |-> r.plain,
                     lookup |-> [r.lookup EXCEPT ![f] = "done"], found |-> r.found]
    <2>3. FinishFileHydration(n, q)
      BY <2>1, <2>2, DoneIsShaped
    <2>4. r.lookup[f] # "done"
      BY <2>1
    <2> HIDE DEF q
    <2> QED BY <2>1, <2>2, <2>3, <2>4, LockKeeps DEF q
  <1>4. ASSUME NEW f \in Files, LockerName(n, f) PROVE Refreshes' /\ Shown'
    <2>1. /\ Hydrating(n) /\ f \in DOMAIN r.lookup /\ r.lookup[f] = "name"
          /\ FinishFileHydration(n, [r EXCEPT !.lookup[f] = "done"])
      BY <1>4 DEF LockerName
    <2>2. Hydration(r) /\ r.fresh \in BOOLEAN
      BY <2>1, HydratingShaped DEF Hydration
    <2> DEFINE q == [stage |-> "hydrate", fresh |-> r.fresh, pending |-> r.pending, plain |-> r.plain,
                     lookup |-> [r.lookup EXCEPT ![f] = "done"], found |-> r.found]
    <2>3. FinishFileHydration(n, q)
      BY <2>1, <2>2, DoneIsShaped
    <2>4. r.lookup[f] # "done"
      BY <2>1
    <2> HIDE DEF q
    <2> QED BY <2>1, <2>2, <2>3, <2>4, LockKeeps DEF q
  <1>5. ASSUME NEW f \in Files, HasActiveLock(n, f) PROVE Refreshes' /\ Shown'
    <2> DEFINE q == [r EXCEPT !.lookup[f] = "name", !.found[f] = holder[f]]
    <2>1. /\ Hydrating(n) /\ f \in DOMAIN r.lookup /\ r.lookup[f] = "active"
          /\ refreshes' = [refreshes EXCEPT ![n] = q]
          /\ UNCHANGED <<shown, fresh>>
      BY <1>5 DEF HasActiveLock, ActiveLock
    <2>2. Hydration(r) /\ Counted(r) /\ (r.fresh => Owed \/ Truth(r))
      BY <2>1, HydratingShaped
    <2> HIDE DEF r
    <2>3. q = [stage |-> "hydrate", fresh |-> r.fresh, pending |-> r.pending, plain |-> r.plain,
               lookup |-> [r.lookup EXCEPT ![f] = "name"],
               found |-> [r.found EXCEPT ![f] = holder[f]]]
      BY <2>2, NameIsShaped
    <2> HIDE DEF q
    <2>4. /\ q.stage = "hydrate" /\ q.fresh = r.fresh /\ q.pending = r.pending
          /\ q.plain = r.plain /\ q.lookup = [r.lookup EXCEPT ![f] = "name"]
          /\ q.found = [r.found EXCEPT ![f] = holder[f]]
      BY <2>3
    <2>5. DOMAIN q.lookup = DOMAIN r.lookup /\ DOMAIN r.found = DOMAIN r.lookup
      BY <2>2, <2>4 DEF Hydration
    <2>6. Open(q) = Open(r)
      BY <2>1, <2>4, <2>5 DEF Open
    <2>7. Hydration(q)
      <3>1. q.found = [g \in DOMAIN q.lookup |-> q.found[g]]
        BY <2>4, <2>5
      <3>2. q.lookup = [g \in DOMAIN q.lookup |-> q.lookup[g]]
        BY <2>4
      <3> QED BY <2>2, <2>3, <2>4, <2>5, <3>1, <3>2 DEF Hydration
    <2>8. RefreshShaped(q)
      BY <2>2, <2>4, <2>6, <2>7 DEF Counted, RefreshShaped
    <2>9. Truth(r) => Truth(q)
      BY <2>1, <2>4, <2>5 DEF Truth
    <2>10. Refreshes'
      BY <2>1, <2>2, <2>4, <2>8, <2>9, ReplaceKeeps
    <2> QED BY <2>1, <2>10, StaysKnown DEF Shown
  <1> QED BY <1>1, <1>2, <1>3, <1>4, <1>5 DEF Hydrate

\* The list of the server is the beginning of a truth.
LEMMA ListKeeps ==
    ASSUME Refreshes, Shown, ServerStays, NEW n \in DOMAIN refreshes, ListFiles(n)
    PROVE  Refreshes' /\ Shown'
  <1> DEFINE r == refreshes[n]
  <1>1. r.stage = "list" /\ r.fresh \in BOOLEAN
    <2>1. r.stage = "list" /\ RefreshShaped(r)
      BY DEF ListFiles, Refreshes, Shaped
    <2>2. ~Hydration(r)
      BY <2>1, RecordOf
    <2> HIDE DEF r
    <2> QED BY <2>1, <2>2 DEF RefreshShaped, Idle
  <1>2. CASE refreshes' = [refreshes EXCEPT ![n] = Idle] /\ UNCHANGED <<shown, fresh>>
    <2>1. Refreshes'
      BY <1>2, IdleShaped, ReplaceKeeps
    <2> QED BY <1>2, <2>1, StaysKnown DEF Shown
  <1>3. CASE Visible = {} /\ HandleFilesLoaded(n, <<>>)
    <2>1. refreshes' = [refreshes EXCEPT ![n] = Idle] /\ shown' = <<>>
      BY <1>3 DEF HandleFilesLoaded
    <2>2. <<>> = Latest
      BY <1>3 DEF Latest
    <2>3. Refreshes'
      BY <2>1, IdleShaped, ReplaceKeeps
    <2> QED BY <2>1, <2>2, <2>3, StaysKnown DEF Shown
  <1>4. CASE Visible # {} /\ HydrateFiles(n, Visible)
    <2> DEFINE q == [stage |-> "hydrate", fresh |-> r.fresh, pending |-> 3 * Cardinality(Visible),
                     plain |-> 2 * Cardinality(Visible),
                     lookup |-> [f \in Visible |-> "active"], found |-> [f \in Visible |-> None]]
    <2>1. refreshes' = [refreshes EXCEPT ![n] = q] /\ UNCHANGED <<shown, fresh>>
      BY <1>4 DEF HydrateFiles
    <2>2. Visible \subseteq Files
      BY DEF Visible
    <2>3. Cardinality(Visible) \in Nat
      BY <2>2, FilesAssumption, FS_Subset, FS_CardinalityType
    <2>4. /\ q.stage = "hydrate" /\ q.fresh = r.fresh
          /\ q.pending = 3 * Cardinality(Visible) /\ q.plain = 2 * Cardinality(Visible)
          /\ q.lookup = [f \in Visible |-> "active"] /\ q.found = [f \in Visible |-> None]
          /\ q = [stage |-> "hydrate", fresh |-> q.fresh, pending |-> q.pending,
                  plain |-> q.plain, lookup |-> q.lookup, found |-> q.found]
      OBVIOUS
    <2> HIDE DEF q, r
    <2>5. Open(q) = Visible
      BY <2>4 DEF Open
    <2>6. RefreshShaped(q)
      BY <1>1, <2>2, <2>3, <2>4, <2>5 DEF RefreshShaped, Hydration, Counted
    <2>7. Truth(q)
      BY <2>4 DEF Truth
    <2>8. Refreshes'
      BY <2>1, <2>6, <2>7, ReplaceKeeps
    <2> QED BY <2>1, <2>8, StaysKnown DEF Shown
  <1> QED BY <1>2, <1>3, <1>4 DEF ListFiles, HydrateFiles

-----------------------------------------------------------------------------
(* Events.                                                                 *)

\* A change that is announced to an open stream is owed a refresh.
LEMMA AnnounceKeeps ==
    ASSUME Announced, NEW event \in RefreshingEvents, Announce(event),
           UNCHANGED <<window, authenticating, stream>>
    PROVE  Announced' /\ (stream = "open" => Owed')
                      /\ (Owed /\ UNCHANGED changes => Owed')
  <1>1. event \in Events
    BY DEF Events
  <1>2. CASE stream = "open"
    <2>1. /\ events' = Append(events, event) /\ events \in Seq(Events)
          /\ Len(events) \in Nat
      BY <1>2 DEF Announce, Announced
    <2>2. events' \in Seq(Events) /\ Len(events') = Len(events) + 1
          /\ events'[Len(events) + 1] = event
      BY <1>1, <2>1
    <2>3. Len(events) + 1 \in 1..Len(events')
      BY <2>1, <2>2
    <2> QED BY <1>2, <2>2, <2>3 DEF Announced, Owed
  <1>3. CASE stream # "open"
    BY <1>3 DEF Announced, Announce, Owed
  <1> QED BY <1>2, <1>3

\* A notification that matters is what was owed: the refresh has begun.
LEMMA NotificationKeeps ==
    ASSUME CatalogInv, Notified
    PROVE  Announced' /\ Refreshes' /\ Shown'
  <1>1. /\ events # <<>> /\ events' = Tail(events) /\ events \in Seq(Events)
        /\ UNCHANGED <<window, authenticating, stream, shown, holder, changes, Visible>>
    BY DEF Notified, Catalog, HandleNotification, sessionOnly, CatalogInv, Announced, Visible
  <1>2. events' \in Seq(Events)
    BY <1>1
  <1>3. Announced'
    BY <1>1, <1>2 DEF CatalogInv, Announced
  <1>4. CASE RefreshFiles
    BY <1>3, <1>4, OutdatedKeeps DEF CatalogInv, Refreshes
  <1>5. CASE NextEvent \notin RefreshingEvents /\ Seen
    <2>1. Owed => Owed'
      <3> SUFFICES ASSUME NEW i \in 1..Len(events), events[i] \in RefreshingEvents PROVE Owed'
        BY <1>1 DEF Owed
      <3>1. i # 1 /\ Len(events) \in Nat
        BY <1>1, <1>5 DEF NextEvent
      <3>2. i - 1 \in 1..Len(events') /\ events'[i - 1] = events[i]
        BY <1>1, <3>1
      <3> QED BY <3>2 DEF Owed
    <2> QED BY <1>1, <1>3, <1>5, <2>1, SeenKeeps DEF CatalogInv
  <1> QED BY <1>3, <1>4, <1>5 DEF Notified, Catalog, HandleNotification

-----------------------------------------------------------------------------
(* Steps of the session and of the user.                                   *)

\* The login, the first refresh and the end of the stream.
LEMMA SessionKeeps ==
    ASSUME CatalogInv, SessionSteps \/ EnterMainWindow \/ StreamLost
    PROVE  Announced' /\ Refreshes' /\ Shown'
  <1>1. CASE SessionSteps
    <2>1. Announced' /\ (Owed => Owed')
      <3>1. CASE Authenticate \/ AuthenticationFails
        BY <1>1, <3>1 DEF SessionSteps, catalogVars, Authenticate, AuthenticationFails,
           CatalogInv, Announced, Owed
      <3>2. CASE StreamOpens
        <4>1. events = <<>> /\ events' = <<"connected">> /\ UNCHANGED changes
          BY <1>1, <3>2 DEF SessionSteps, catalogVars, StreamOpens, CatalogInv, Announced
        <4>2. events' \in Seq(Events)
          BY <4>1 DEF Events
        <4>3. Announced'
          BY <3>2, <4>2 DEF StreamOpens, CatalogInv, Announced
        <4>4. Owed => Owed'
          BY <4>1 DEF Owed
        <4> QED BY <4>3, <4>4
      <3> QED BY <1>1, <3>1, <3>2 DEF SessionSteps
    <2>2. UNCHANGED <<Visible, holder, shown, refreshes, fresh>>
      BY <1>1 DEF SessionSteps, catalogVars, Authenticate, AuthenticationFails, StreamOpens,
         Visible
    <2> QED BY <2>1, <2>2, SeenKeeps DEF CatalogInv, Seen
  <1>2. CASE EnterMainWindow
    <2>1. Announced'
      BY <1>2 DEF EnterMainWindow, LoggedIn, CatalogInv, Announced
    <2> QED BY <1>2, <2>1, OutdatedKeeps DEF EnterMainWindow, CatalogInv, Refreshes
  <1>3. CASE StreamLost
    <2>1. Announced'
      BY <1>3 DEF StreamLost, StreamEnds, CatalogInv, Announced
    <2> QED BY <1>3, <2>1, OutdatedKeeps DEF StreamLost, CatalogInv, Refreshes
  <1> QED BY <1>1, <1>2, <1>3

\* After the end of main() nothing is shown.
LEMMA QuitKeepsCatalog ==
    ASSUME CatalogInv, Quit
    PROVE  CatalogInv'
  <1>1. Announced' /\ Shown'
    BY DEF Quit, Leave, Announced, Shown
  <1>2. Refreshes'
    BY IdleShaped DEF Quit, Refreshes, Shaped, Finds
  <1>3. Changes'
    BY DEF Quit, CatalogInv, Changes, Idle
  <1>4. Memberships'
    BY DEF Quit, Leave, CatalogInv, Memberships, CallKnown, Idle
  <1> QED BY <1>1, <1>2, <1>3, <1>4 DEF CatalogInv

\* A request for a change is nothing that is owed.
LEMMA AskKeepsCatalog ==
    ASSUME CatalogInv, NEW kind, NEW f, NEW g, Ask(kind, f, g), UNCHANGED <<members, events>>,
           kind = "create" => g \in Groups
    PROVE  Refreshes' /\ Shown' /\ Changes'
  <1>0. Slot(changes) \in DOMAIN changes /\ changes[Slot(changes)].stage = "idle"
    BY DEF Ask, Slot, Free
  <1>1. Owed => Owed'
    BY <1>0 DEF Ask, Owed
  <1>2. UNCHANGED Visible
    BY DEF Ask, Visible
  <1>3. Refreshes' /\ Shown'
    BY <1>1, <1>2, SeenKeeps DEF Ask, Seen, CatalogInv
  <1>4. Changes'
    BY <1>0 DEF Ask, CatalogInv, Changes
  <1> QED BY <1>3, <1>4

\* The menu, or the end of an editor.
LEMMA RefreshesKeep ==
    ASSUME CatalogInv, UserRefreshes
    PROVE  CatalogInv'
  <1>1. Refreshes' /\ Shown'
    BY OutdatedKeeps DEF UserRefreshes, Refresh, CatalogInv, Refreshes
  <1>2. Announced' /\ Changes' /\ Memberships'
    BY DEF UserRefreshes, Refresh, CatalogInv, Announced, Changes, Memberships, sharingVars
  <1> QED BY <1>1, <1>2 DEF CatalogInv

\* A creation, a renaming or a deletion is asked for.
LEMMA ChangesKeep ==
    ASSUME CatalogInv, UserChanges \/ UserCreates
    PROVE  CatalogInv'
  <1>1. Refreshes' /\ Shown' /\ Changes'
    <2>1. CASE UserChanges
      BY <2>1, AskKeepsCatalog DEF UserChanges, RenameOrDelete
    <2>2. CASE UserCreates
      <3> PICK g \in choices : CreateFile(g)
        BY <2>2 DEF UserCreates
      <3> g \in Groups
        BY DEF CatalogInv, Memberships
      <3> QED BY <2>2, AskKeepsCatalog DEF UserCreates, CreateFile
    <2> QED BY <2>1, <2>2
  <1>2. Announced' /\ Memberships'
    BY DEF UserChanges, UserCreates, CloseDialog, CatalogInv, Announced, Memberships, sharingVars
  <1> QED BY <1>1, <1>2 DEF CatalogInv

\* The other user locks and unlocks.
LEMMA PeerKeeps ==
    ASSUME CatalogInv, PeerSteps
    PROVE  CatalogInv'
  <1> PICK f \in Files : PeerLocks(f) \/ PeerUnlocks(f)
    BY DEF PeerSteps
  <1> PICK who, event : event \in RefreshingEvents /\ PeerChanges(f, who, event)
    <2>1. "file_locked" \in RefreshingEvents /\ "file_unlocked" \in RefreshingEvents
      BY DEF RefreshingEvents
    <2> QED BY <2>1 DEF PeerLocks, PeerUnlocks
  <1>1. /\ Announce(event) /\ UNCHANGED <<window, authenticating, stream, changes, shown>>
    BY DEF PeerChanges, PeerSteps
  <1>2. Announced' /\ (stream = "open" => Owed')
    BY <1>1, AnnounceKeeps DEF CatalogInv
  <1>3. Refreshes' /\ Shown'
    BY <1>1, <1>2, SeenKeeps, OutdatedKeeps DEF PeerChanges, CatalogInv, Refreshes
  <1>4. Changes' /\ Memberships'
    BY DEF PeerChanges, PeerSteps, CatalogInv, Changes, Memberships, sharingVars
  <1> QED BY <1>2, <1>3, <1>4 DEF CatalogInv

-----------------------------------------------------------------------------
(* Answers about files.                                                    *)

\* The answers to a refresh.
LEMMA AnsweredKeeps ==
    ASSUME CatalogInv, RefreshAnswered
    PROVE  CatalogInv'
  <1> PICK n \in DOMAIN refreshes : Catalog(ListFiles(n) \/ Hydrate(n)) /\ UNCHANGED events
    BY DEF RefreshAnswered
  <1>1. UNCHANGED <<status, granted, holder, changes>>
    BY DEF Catalog, ListFiles, Hydrate, PlainLookup, NoActiveLock, ActiveLockFails, HasActiveLock,
       LockerName
  <1>2. ServerStays
    BY <1>1 DEF Catalog, sessionOnly, ServerStays
  <1>3. Refreshes' /\ Shown'
    BY <1>2, ListKeeps, HydrateKeeps DEF Catalog, CatalogInv
  <1>4. Announced' /\ Changes' /\ Memberships'
    BY <1>1 DEF Catalog, sessionOnly, sharingVars, CatalogInv, Announced, Changes, Memberships
  <1> QED BY <1>3, <1>4 DEF CatalogInv

\* Between what the server has done for a change and the refresh that its answer
\* causes, that refresh is owed.
LEMMA ServedKeepsCatalog ==
    ASSUME CatalogInv, ChangeServed
    PROVE  CatalogInv'
  <1> PICK n \in DOMAIN changes :
          ServeCreate(n) \/ ServeChange(n) \/ ServeGrant(n) \/ ChangeDone(n)
    BY DEF ChangeServed, Catalog
  <1>1. /\ UNCHANGED <<window, authenticating, stream, members, shown>>
        /\ Memberships'
    BY DEF ChangeServed, Catalog, sessionOnly, sharingVars, CatalogInv, Memberships,
       ServeCreate, ServeChange, ServeGrant, ChangeDone
  <1>2. CASE ServeCreate(n)
    <2>1. changes[n].stage = "asked" /\ changes' = [changes EXCEPT ![n].stage = "created"]
          /\ changes[n].kind = "create" /\ Seen /\ Announce("file_created")
      BY <1>2 DEF ServeCreate, Seen
    <2>2. {"stage", "kind", "file", "group"} \subseteq DOMAIN changes[n]
      BY <2>1 DEF CatalogInv, Changes
    <2>3. Owed'
      BY <2>1, <2>2 DEF Owed
    <2>4. Announced'
      BY <1>1, <2>1, AnnounceKeeps DEF CatalogInv, RefreshingEvents
    <2>5. granted' \in [Files -> SUBSET Groups]
      BY <1>2, GroupsAssumption DEF ServeCreate, CatalogInv, Changes
    <2>6. Changes'
      BY <2>1, <2>2, <2>5 DEF CatalogInv, Changes
    <2> QED BY <1>1, <2>1, <2>3, <2>4, <2>6, SeenKeeps DEF CatalogInv
  <1>3. CASE ServeChange(n)
    <2>1. changes[n].stage = "asked" /\ changes' = [changes EXCEPT ![n].stage = "done"]
          /\ Seen /\ UNCHANGED events
      BY <1>3 DEF ServeChange, Seen
    <2>2. {"stage", "kind", "file", "group"} \subseteq DOMAIN changes[n]
      BY <2>1 DEF CatalogInv, Changes
    <2>3. Owed'
      BY <2>1, <2>2 DEF Owed
    <2>4. Announced'
      BY <1>1, <2>1 DEF CatalogInv, Announced
    <2>5. granted' \in [Files -> SUBSET Groups]
      BY <1>3 DEF ServeChange, CatalogInv, Changes
    <2>6. Changes'
      BY <2>1, <2>2, <2>5 DEF CatalogInv, Changes
    <2> QED BY <1>1, <2>1, <2>3, <2>4, <2>6, SeenKeeps DEF CatalogInv
  <1>4. CASE ServeGrant(n)
    <2>1. changes[n].stage = "created" /\ changes' = [changes EXCEPT ![n].stage = "done"]
          /\ Seen /\ UNCHANGED events
      BY <1>4 DEF ServeGrant, Seen
    <2>2. {"stage", "kind", "file", "group"} \subseteq DOMAIN changes[n]
          /\ changes[n].group \in Groups
      BY <2>1 DEF CatalogInv, Changes
    <2>3. Owed'
      BY <2>1, <2>2 DEF Owed
    <2>4. Announced'
      BY <1>1, <2>1 DEF CatalogInv, Announced
    <2>5. granted' \in [Files -> SUBSET Groups]
      BY <1>4, <2>2 DEF ServeGrant, CatalogInv, Changes
    <2>6. Changes'
      BY <2>1, <2>2, <2>5 DEF CatalogInv, Changes
    <2> QED BY <1>1, <2>1, <2>3, <2>4, <2>6, SeenKeeps DEF CatalogInv
  <1>5. CASE ChangeDone(n)
    <2>1. Announced' /\ Changes'
      BY <1>1, <1>5 DEF ChangeDone, Idle, CatalogInv, Announced, Changes
    <2> QED BY <1>1, <1>5, <2>1, OutdatedKeeps DEF ChangeDone, CatalogInv, Refreshes
  <1> QED BY <1>2, <1>3, <1>4, <1>5

\* An error after the server has changed causes no refresh: the change is missed.
LEMMA RefusedKeepsCatalog ==
    ASSUME CatalogInv, ChangeRefused
    PROVE  CatalogInv'
  <1> PICK n \in DOMAIN changes : Catalog(ChangeFails(n))
    BY DEF ChangeRefused
  <1>1. Announced' /\ Memberships'
    BY DEF Catalog, sessionOnly, sharingVars, ChangeFails, CatalogInv, Announced, Memberships
  <1>2. Changes'
    BY DEF Catalog, ChangeFails, Idle, CatalogInv, Changes
  <1>3. CASE changes[n].stage = "asked" /\ Seen
    <2>1. Owed => Owed'
      BY <1>3 DEF Catalog, ChangeFails, Owed
    <2>2. UNCHANGED <<Visible, holder, shown>>
      BY DEF Catalog, sessionOnly, ChangeFails, Visible
    <2> QED BY <1>1, <1>2, <1>3, <2>1, <2>2, SeenKeeps DEF CatalogInv
  <1>4. CASE Missed
    BY <1>1, <1>2, <1>4, OutdatedKeeps DEF CatalogInv, Refreshes
  <1> QED BY <1>3, <1>4 DEF Catalog, ChangeFails

-----------------------------------------------------------------------------
(* Calls of the groups.                                                    *)

\* A step of one call leaves the others alone.
LEMMA CallChanges ==
    ASSUME Memberships, NEW n, NEW c, calls' = [calls EXCEPT ![n] = c], CallKnown(c),
           UNCHANGED <<made, members>>, choices' \subseteq Groups
    PROVE  Memberships'
  BY DEF Memberships, CallKnown

\* A new call is known.
LEMMA CallsAreKnown ==
    ASSUME NEW kind, NEW g, NEW u, NEW stage \in {"asked", "find"}, kind = "create" => u = Me
    PROVE  CallKnown([stage |-> stage, kind |-> kind, group |-> g, user |-> u])
  BY DEF CallKnown

\* A result ends its call, or replaces it by a load.
LEMMA HandleKeepsMemberships ==
    ASSUME Memberships, NEW n \in DOMAIN calls, NEW ok, NEW loaded, Handle(n, ok, loaded),
           calls[n].kind = "groups" => loaded \subseteq Groups, UNCHANGED <<made, members>>
    PROVE  Memberships'
  <1>1. choices' \subseteq Groups
    BY DEF Handle, HandleCurrentUserGroupsLoaded, SetGroups, HandleGroupUsersLoaded,
       HandleMembership, HandleGroupCreated, Memberships
  <1>2. PICK c : /\ calls' = [calls EXCEPT ![n] = c]
                 /\ c = Idle \/ c = LoadGroups \/ \E g : c = LoadUsers(g)
    BY DEF Handle, HandleCurrentUserGroupsLoaded, HandleGroupUsersLoaded, HandleMembership,
       HandleGroupCreated, Fails, Ignores, Hang, HangAndRing
  <1>3. CallKnown(c)
    BY <1>2 DEF Idle, LoadGroups, LoadUsers, Call, CallKnown
  <1> QED BY <1>1, <1>2, <1>3, CallChanges

\* The catalogue does not depend on the calls under way.
LEMMA CallsOnly ==
    ASSUME CatalogInv, Memberships',
           UNCHANGED <<window, authenticating, stream, events, members, catalogVars>>
    PROVE  CatalogInv'
  <1>1. Announced' /\ Changes'
    BY DEF catalogVars, CatalogInv, Announced, Changes
  <1>2. Refreshes' /\ Shown'
    <2>1. UNCHANGED <<Visible, holder, shown>> /\ Seen /\ (Owed => Owed')
      BY DEF catalogVars, Visible, Seen, Owed
    <2> QED BY <2>1, SeenKeeps DEF CatalogInv
  <1> QED BY <1>1, <1>2 DEF CatalogInv

\* The dialogs of the groups do not touch the tree.
LEMMA UserKeepsCatalog ==
    ASSUME CatalogInv, UserSteps
    PROVE  CatalogInv'
  <1>1. UNCHANGED <<window, authenticating, stream, events, made, members, catalogVars>>
    BY DEF UserSteps
  <1>2. choices' \subseteq Groups
    BY DEF UserSteps, ShowGroups, ShowCreateFile, RefreshGroups, CreateGroup, SelectGroup, AddUser,
       RemoveUser, CloseDialog, CatalogInv, Memberships
  <1>3. CASE UNCHANGED calls
    BY <1>1, <1>2, <1>3, CallsOnly DEF CatalogInv, Memberships
  <1>4. ASSUME NEW kind, NEW g, NEW u, NEW stage \in {"asked", "find"}, kind = "create" => u = Me,
               Ring([stage |-> stage, kind |-> kind, group |-> g, user |-> u])
        PROVE  CatalogInv'
    <2>1. Memberships'
      BY <1>1, <1>2, <1>4, CallsAreKnown, CallChanges DEF Ring, CatalogInv
    <2> QED BY <1>1, <2>1, CallsOnly
  <1>5. ASSUME NEW kind, NEW g, NEW u, kind = "create" => u = Me, Ring(Call(kind, g, u))
        PROVE  CatalogInv'
    BY <1>4, <1>5 DEF Call
  <1>6. CASE ShowGroups \/ ShowCreateFile \/ RefreshGroups
    <2>1. Ring(Call("groups", None, None))
      BY <1>6 DEF ShowGroups, ShowCreateFile, RefreshGroups, LoadGroups
    <2> QED BY <2>1, <1>5
  <1>7. CASE CreateGroup
    <2>1. Ring(Call("create", None, Me))
      BY <1>7 DEF CreateGroup
    <2> QED BY <2>1, <1>5
  <1>8. ASSUME NEW g \in Groups, SelectGroup(g) PROVE CatalogInv'
    <2>1. Ring(Call("users", g, None))
      BY <1>8 DEF SelectGroup, LoadUsers
    <2> QED BY <2>1, <1>5
  <1>9. ASSUME NEW u \in {Me, Peer}, RemoveUser(u) PROVE CatalogInv'
    <2>1. Ring(Call("remove", selected, u))
      BY <1>9 DEF RemoveUser
    <2> QED BY <2>1, <1>5
  <1>10. ASSUME NEW u \in {Me, Peer}, AddUser(u) PROVE CatalogInv'
    <2>1. Ring([stage |-> "find", kind |-> "add", group |-> selected, user |-> u])
      BY <1>10 DEF AddUser, Call
    <2>2. "find" \in {"asked", "find"} /\ "add" # "create"
      OBVIOUS
    <2> QED BY <2>1, <2>2, <1>4
  <1> QED BY <1>3, <1>6, <1>7, <1>8, <1>9, <1>10 DEF UserSteps

\* Neither does an error of a call.
LEMMA ErrorKeepsCatalog ==
    ASSUME CatalogInv, CallError
    PROVE  CatalogInv'
  <1> PICK n \in DOMAIN calls : CallFails(n)
    BY DEF CallError
  <1>1. Memberships'
    BY HandleKeepsMemberships DEF CallError, CallFails, CatalogInv
  <1> QED BY <1>1, CallsOnly DEF CallError

\* Who is added is told, who is removed is not; others do not see different files.
LEMMA MembersKeepCatalog ==
    ASSUME CatalogInv, MembersChange
    PROVE  CatalogInv'
  <1> PICK n \in DOMAIN calls : (ServeMembership(n) \/ ServeJoin(n)) /\ TellMembers(n)
    BY DEF MembersChange
  <1> DEFINE c == calls[n]
  <1>1. /\ UNCHANGED <<window, authenticating, stream, status, granted, holder, shown, changes>>
        /\ UNCHANGED <<made, choices>> /\ c.stage # "idle"
    BY DEF MembersChange, ServeMembership, ServeJoin, Proceed
  <1>2. PICK us : members' = [members EXCEPT ![c.group] = us]
    BY DEF ServeMembership, ServeJoin
  <1>3. c.user # Me => \A g \in Groups : Me \in members'[g] <=> Me \in members[g]
    BY DEF ServeMembership, ServeJoin, CatalogInv, Memberships, CallKnown
  <1>4. Memberships'
    BY <1>1, <1>2 DEF ServeMembership, ServeJoin, Proceed, CatalogInv, Memberships, CallKnown
  <1>5. Changes'
    BY <1>1 DEF CatalogInv, Changes
  <1>6. CASE c.user = Me /\ c.kind # "remove"
    <2>1. Announce("group_assigned") /\ IF stream = "open" THEN Seen ELSE Missed
      BY <1>6 DEF TellMembers
    <2>2. Announced' /\ (stream = "open" => Owed')
      BY <1>1, <2>1, AnnounceKeeps DEF CatalogInv, RefreshingEvents
    <2> QED BY <1>1, <1>4, <1>5, <2>1, <2>2, SeenKeeps, OutdatedKeeps DEF CatalogInv, Refreshes
  <1>7. CASE c.user = Me /\ c.kind = "remove"
    BY <1>1, <1>4, <1>5, <1>7, OutdatedKeeps DEF TellMembers, CatalogInv, Refreshes, Announced
  <1>8. CASE c.user # Me
    <2>1. Seen /\ UNCHANGED events
      BY <1>8 DEF TellMembers
    <2>2. Announced' /\ (Owed => Owed')
      BY <1>1, <2>1 DEF CatalogInv, Announced, Owed
    <2>3. Visible' = Visible
      BY <1>1, <1>3, <1>8 DEF Visible, CatalogInv, Changes
    <2> QED BY <1>1, <1>4, <1>5, <2>1, <2>2, <2>3, SeenKeeps DEF CatalogInv
  <1> QED BY <1>6, <1>7, <1>8

\* The other answers to calls.
LEMMA CallServedKeeps ==
    ASSUME CatalogInv, CallServed
    PROVE  CatalogInv'
  <1> PICK n \in DOMAIN calls :
          \/ FindUser(n) \/ ServeCreateGroup(n)
          \/ (LoadIds(n) \/ LoadName(n) \/ CallDone(n) \/ CallRefused(n))
                /\ UNCHANGED <<made, members>>
    BY DEF CallServed
  <1> DEFINE c == calls[n]
  <1>1. UNCHANGED <<window, authenticating, stream, events, members, catalogVars>>
    BY DEF CallServed, FindUser, ServeCreateGroup
  <1>2. CASE FindUser(n)
    <2>1. Memberships'
      BY <1>2 DEF FindUser, Proceed, CatalogInv, Memberships, CallKnown
    <2> QED BY <1>1, <2>1, CallsOnly
  <1>3. CASE ServeCreateGroup(n)
    <2>1. c.stage = "asked" /\ c.kind = "create"
      BY <1>3 DEF ServeCreateGroup
    <2>2. {"stage", "kind", "group", "user"} \subseteq DOMAIN c /\ c.user = Me
      BY <2>1 DEF CatalogInv, Memberships, CallKnown
    <2> PICK g \in Groups \ made : /\ made' = made \cup {g}
                                  /\ calls' = [calls EXCEPT ![n].stage = "join", ![n].group = g]
      BY <1>3 DEF ServeCreateGroup
    <2>3. /\ DOMAIN calls' = DOMAIN calls
          /\ DOMAIN calls'[n] = DOMAIN c
          /\ calls'[n].stage = "join" /\ calls'[n].kind = "create" /\ calls'[n].user = Me
          /\ \A m \in DOMAIN calls \ {n} : calls'[m] = calls[m]
      BY <2>1, <2>2
    <2>4. UNCHANGED <<members, choices>>
      BY <1>3 DEF ServeCreateGroup
    <2>5. Memberships'
      BY <2>2, <2>3, <2>4 DEF CatalogInv, Memberships, CallKnown
    <2> QED BY <1>1, <2>5, CallsOnly
  <1>4. CASE UNCHANGED <<made, members>> /\ LoadIds(n)
    <2>1. CASE IdsOf(c) = {} /\ Handle(n, TRUE, {})
      <3>1. Memberships'
        BY <1>4, <2>1, HandleKeepsMemberships DEF CatalogInv
      <3> QED BY <1>1, <3>1, CallsOnly
    <2>2. CASE calls' = [calls EXCEPT ![n] =
                    [stage |-> "names", kind |-> c.kind, group |-> c.group,
                     ids |-> IdsOf(c), pending |-> Cardinality(IdsOf(c))]] /\ UNCHANGED choices
      <3>1. c.kind \in {"groups", "users"}
        BY <1>4 DEF LoadIds, IsLoad
      <3>2. c.kind = "groups" => IdsOf(c) \subseteq Groups
        BY DEF IdsOf, GroupsOfMe, CatalogInv, Memberships
      <3>3. CallKnown([stage |-> "names", kind |-> c.kind, group |-> c.group,
                       ids |-> IdsOf(c), pending |-> Cardinality(IdsOf(c))])
        BY <3>1, <3>2 DEF CallKnown
      <3>4. Memberships'
        BY <1>4, <2>2, <3>3, CallChanges DEF CatalogInv, Memberships
      <3> QED BY <1>1, <3>4, CallsOnly
    <2> QED BY <1>4, <2>1, <2>2 DEF LoadIds
  <1>5. CASE UNCHANGED <<made, members>> /\ LoadName(n)
    <2>1. CASE calls' = [calls EXCEPT ![n].pending = @ - 1] /\ UNCHANGED choices
      <3>1. Memberships'
        BY <1>5, <2>1 DEF CatalogInv, Memberships, CallKnown
      <3> QED BY <1>1, <3>1, CallsOnly
    <2>2. CASE Handle(n, TRUE, c.ids)
      <3>1. c.kind = "groups" => c.ids \subseteq Groups
        BY <1>5 DEF LoadName, CatalogInv, Memberships, CallKnown
      <3>2. Memberships'
        BY <1>5, <2>2, <3>1, HandleKeepsMemberships DEF CatalogInv
      <3> QED BY <1>1, <3>2, CallsOnly
    <2> QED BY <1>5, <2>1, <2>2 DEF LoadName
  <1>6. CASE UNCHANGED <<made, members>> /\ (CallDone(n) \/ CallRefused(n))
    <2>1. Memberships'
      BY <1>6, HandleKeepsMemberships DEF CallDone, CallRefused, CatalogInv
    <2> QED BY <1>1, <2>1, CallsOnly
  <1> QED BY <1>2, <1>3, <1>4, <1>5, <1>6

-----------------------------------------------------------------------------
\* Every step keeps the invariant of the tree.
LEMMA NextCatalog == CatalogInv /\ [Next]_clientVars => CatalogInv'
  <1> SUFFICES ASSUME CatalogInv, [Next]_clientVars PROVE CatalogInv'
    OBVIOUS
  <1>1. CASE SessionSteps \/ EnterMainWindow \/ StreamLost
    <2>1. Changes' /\ Memberships'
      BY <1>1 DEF SessionSteps, Authenticate, AuthenticationFails, StreamOpens, EnterMainWindow,
         LoggedIn, StreamLost, StreamEnds, catalogVars, sharingVars, CatalogInv, Changes, Memberships
    <2> QED BY <1>1, <2>1, SessionKeeps DEF CatalogInv
  <1>2. CASE Notified
    <2>1. Changes' /\ Memberships'
      BY <1>2 DEF Notified, Catalog, HandleNotification, sessionOnly, sharingVars, CatalogInv,
         Changes, Memberships
    <2> QED BY <1>2, <2>1, NotificationKeeps DEF CatalogInv
  <1>3. CASE UNCHANGED clientVars
    <2>1. UNCHANGED <<window, authenticating, stream, events, made, members, catalogVars, sharingVars>>
      BY <1>3 DEF clientVars, sessionVars
    <2>2. Memberships'
      BY <2>1 DEF sharingVars, CatalogInv, Memberships
    <2> QED BY <2>1, <2>2, CallsOnly
  <1> QED BY <1>1, <1>2, <1>3, QuitKeepsCatalog, RefreshesKeep, ChangesKeep, PeerKeeps,
             UserKeepsCatalog, AnsweredKeeps, ServedKeepsCatalog, RefusedKeepsCatalog,
             MembersKeepCatalog, CallServedKeeps, ErrorKeepsCatalog DEF Next, Answers

\* When nothing is under way the tree shows the files the server lists and who has
\* locked them, with any number of files, refreshes, lookups that fail and changes
\* of either user (MainWindow::handleNotification, FileCatalogService::
\* finishFileHydration).
THEOREM TreeShowsLatest == Spec => []ShowsLatest
  <1>1. CatalogInv => ShowsLatest
    BY DEF CatalogInv, Shown, ShowsLatest, Quiet, Owed, Latest, Busy, Free
  <1> QED BY InitCatalog, NextCatalog, <1>1, PTL DEF Spec
=============================================================================
