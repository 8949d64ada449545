---------------------------- MODULE ClientWindows ----------------------------
(***************************************************************************)
(* The client with its main window and the modal dialogs over it: the      *)
(* catalogue is refreshed while groups are changed, whose members decide   *)
(* what the server lists.                                                  *)
(***************************************************************************)
EXTENDS FileCatalog, GroupSharing

clientVars == <<sessionVars, catalogVars, sharingVars>>

Init == SessionInit /\ CatalogInit /\ SharingInit

\* A step of the catalogue or of the groups, and what it leaves alone.
sessionOnly == <<window, authenticating, dialog, stream, made, members, steps>>
Catalog(A) == A /\ UNCHANGED <<sharingVars, sessionOnly>>

-----------------------------------------------------------------------------
SessionSteps ==
    /\ Authenticate \/ AuthenticationFails \/ StreamOpens
    /\ UNCHANGED <<catalogVars, sharingVars>>

EnterMainWindow ==
    /\ LoggedIn
    /\ RefreshFiles
    /\ UNCHANGED <<status, granted, holder, shown, changes, sharingVars>>

StreamLost ==
    /\ StreamEnds
    /\ Missed
    /\ UNCHANGED <<status, granted, holder, shown, changes, sharingVars>>

Quit ==
    /\ Leave
    /\ refreshes' = [n \in DOMAIN refreshes |-> Idle]
    /\ changes' = [n \in DOMAIN changes |-> Idle]
    /\ calls' = [n \in DOMAIN calls |-> Idle]
    /\ shown' = <<>>
    /\ fresh' = FALSE
    /\ UNCHANGED <<status, granted, holder, widgets, choices>>

Notified == Catalog(HandleNotification /\ UNCHANGED failures)

-----------------------------------------------------------------------------
UserRefreshes ==
    /\ Refresh
    /\ UNCHANGED <<sharingVars, window, authenticating, dialog, stream, events, made,
                   members, failures>>

UserChanges ==
    /\ RenameOrDelete
    /\ UNCHANGED <<sharingVars, window, authenticating, dialog, stream, events, made,
                   members, failures>>

\* The dialog is accepted with a group of its list.
UserCreates ==
    /\ dialog = "create"
    /\ \E g \in choices : CreateFile(g)
    /\ CloseDialog
    /\ UNCHANGED <<calls, window, authenticating, stream, events, made, members, steps,
                   failures>>

UserSteps ==
    /\ \/ ShowGroups \/ ShowCreateFile \/ RefreshGroups \/ CreateGroup
       \/ \E g \in Groups : SelectGroup(g)
       \/ \E u \in {Me, Peer} : AddUser(u) \/ RemoveUser(u)
       \/ CloseDialog /\ UNCHANGED <<calls, steps>>
    /\ UNCHANGED <<catalogVars, window, authenticating, stream, events, made, members,
                   failures>>

PeerSteps ==
    /\ window = "main"
    /\ Act
    /\ \E f \in Files : PeerLocks(f) \/ PeerUnlocks(f)
    /\ UNCHANGED <<sharingVars, window, authenticating, dialog, stream, made, members,
                   failures>>

-----------------------------------------------------------------------------
(* The server and its answers.                                             *)

RefreshAnswered == \E n \in DOMAIN refreshes :
    Catalog(ListFiles(n) \/ Hydrate(n)) /\ UNCHANGED events

ChangeServed == \E n \in DOMAIN changes :
    Catalog((ServeCreate(n) \/ ServeChange(n) \/ ServeGrant(n) \/ ChangeDone(n)) /\ UNCHANGED failures)

ChangeRefused == \E n \in DOMAIN changes : Catalog(ChangeFails(n))

\* Of the members only those who are added are told.
TellMembers(n) ==
    IF calls[n].user = Me /\ calls[n].kind # "remove"
    THEN Announce("group_assigned") /\ IF stream = "open" THEN Seen ELSE Missed
    ELSE UNCHANGED events /\ IF calls[n].user = Me THEN Missed ELSE Seen

MembersChange == \E n \in DOMAIN calls :
    /\ ServeMembership(n) \/ ServeJoin(n)
    /\ TellMembers(n)
    /\ UNCHANGED <<window, authenticating, dialog, stream, steps, failures,
                   status, granted, holder, shown, changes>>

CallServed == \E n \in DOMAIN calls :
    /\ \/ FindUser(n) \/ ServeCreateGroup(n)
       \/ (LoadIds(n) \/ LoadName(n) \/ CallDone(n) \/ CallRefused(n))
            /\ UNCHANGED <<made, members>>
    /\ UNCHANGED <<window, authenticating, dialog, stream, events, steps, failures,
                   catalogVars>>

CallError == \E n \in DOMAIN calls :
    /\ CallFails(n)
    /\ UNCHANGED <<window, authenticating, dialog, stream, events, made, members, steps,
                   catalogVars>>

-----------------------------------------------------------------------------
Answers == RefreshAnswered \/ ChangeServed \/ ChangeRefused \/ MembersChange
              \/ CallServed \/ CallError

Next ==
    \/ SessionSteps \/ EnterMainWindow \/ StreamLost \/ Quit \/ Notified
    \/ UserRefreshes \/ UserChanges \/ UserCreates \/ UserSteps \/ PeerSteps
    \/ Answers

Spec == Init /\ [][Next]_clientVars

\* The requests of a refresh are answered in the end: by the server, or by the
\* network with an error.
Fairness == WF_clientVars(RefreshAnswered)

FairSpec == Spec /\ Fairness

-----------------------------------------------------------------------------
\* Loading comes to an end, whatever part of a refresh fails and in whatever order
\* the answers of one or of several arrive (FileCatalogService::finishFileHydration).
RefreshEnds == Busy(refreshes) # {} ~> Busy(refreshes) = {}

Quiet ==
    /\ window = "main"
    /\ events = <<>>
    /\ Busy(refreshes) = {}
    /\ Busy(changes) = {}

\* When nothing is under way the tree shows the files of the server and who has
\* locked them, if the last refresh that was begun is the last that ended, its
\* lookups did not fail, and the server has announced every change since: the
\* window refreshes after each of its own changes and after the notifications that
\* matter (MainWindow::handleNotification).
ShowsLatest == Quiet /\ fresh => shown = [f \in Visible |-> holder[f]]

\* Who waits for the dialog of groups does not wait in vain: a call is under way
\* whose result enables it, although a signal may be meant for an earlier dialog
\* and a handler ignores those of another group (GroupManagementDialog::setBusy).
DialogBusyIsAwaited == dialog = "groups" /\ busy =>
    \E n \in Busy(calls) :
        calls[n].kind \in {"groups", "create"} \/ calls[n].group = selected

\* The users who can be removed from the selected group were loaded as its members,
\* unless an error has enabled the dialog after the selection had changed
\* (GroupManagementDialog::removeSelectedUserFromGroup).
ListIsOfGroup == dialog = "groups" /\ ~busy /\ users # {} /\ ~misled => usersOf = selected

=============================================================================
