----------------------------- MODULE EditSession -----------------------------
(***************************************************************************)
(* The desktop client's editing of files: "Take edit" acquires the lock,   *)
(* downloads the content and opens an editor, which saves, renews and      *)
(* releases.  Each step asks the server and goes on in a slot when the     *)
(* answer comes.  Several requests are under way at once, on connections   *)
(* of their own, so that the server may take them, and the slots get their *)
(* answers, in any order.                                                  *)
(*                                                                         *)
(* The server is what the client can tell of it: the files there are, the  *)
(* lock of a file and the session that wrote its content.  A session is a  *)
(* grant of the lock to this client, named by its token; all other clients *)
(* count as one.  A file may be deleted while it is edited, by this user   *)
(* or another: the lock goes with it, and nobody asks for the lock.        *)
(***************************************************************************)
EXTENDS Naturals, FiniteSets, Bags, BagsExt

CONSTANTS
    Files,
    NoFile,        \* an empty pending slot
    Other,         \* the session of another client
    MaxTakes,      \* bound of the model: "Take edit" commands
    MaxExtras      \* bound of the model: read-only downloads, renewals,
                   \* deletions and failed connections, together

ASSUME BoundsAssumption == MaxTakes \in Nat /\ MaxExtras \in Nat
ASSUME NamesAssumption == NoFile \notin Files /\ Other \notin Nat

VARIABLES
    files,           \* server: the files that exist
    lock,            \* server: file -> session, 0 when it is free
    content,         \* server: file -> session whose content is current
    issued,          \* server: tokens given to this client
    requests,        \* bag of the requests the server has not answered
    answers,         \* bag of the answers no slot has seen
    pendingEditFile, \* m_pendingEditFile
    pendingEditLock, \* m_pendingEditLock, 0 for none
    pendingReadOnlyFile,
    refused,         \* the release to come when the message of a failed
                     \* download is closed: a set of at most one request
    editors,         \* token -> the editor that was opened with it
    running,         \* the application has not been closed
    takes, extras,   \* counters for the bounds
    failed,          \* history: requests about a lock that the client saw fail
    strayed,         \* history: sessions that wrote a file without its lock
    hasty            \* history: "Take edit" while another one was pending

server  == <<files, lock, content, issued>>
network == <<requests, answers>>
pending == <<pendingEditFile, pendingEditLock, pendingReadOnlyFile>>
client  == <<pending, refused, editors, running>>
history == <<failed, strayed, hasty>>
vars    == <<server, network, client, takes, extras, history>>

Tokens == 1..MaxTakes

\* m_fileId, m_lockToken (has a value), m_releaseStarted, m_renewTimer, the
\* state of the buttons, the content shown, and (history) whether the content
\* came with the answer to another command, and whether the answer to another
\* window's save has enabled the window while it was busy.
NoEditor == [open |-> FALSE, file |-> NoFile, lockToken |-> FALSE,
             releaseStarted |-> FALSE, renewTimer |-> FALSE, busy |-> FALSE,
             base |-> 0, mixed |-> FALSE, woken |-> FALSE]

\* An awaited request gets an answer; one whose connection has failed does not.
Request(op, f, t) == [op |-> op, file |-> f, token |-> t, awaited |-> TRUE]
Reply(r, ok, got) == [op |-> r.op, file |-> r.file, token |-> r.token, ok |-> ok, got |-> got]

Ask(op, f, t) == requests' = BagAdd(requests, Request(op, f, t)) /\ UNCHANGED answers

Extra == extras < MaxExtras /\ extras' = extras + 1

-----------------------------------------------------------------------------
(* The server, and the clients of other users, which save under the lock.  *)

Respond(r, ok, got) ==
    /\ requests' = BagRemove(requests, r)
    /\ answers' = IF r.awaited THEN BagAdd(answers, Reply(r, ok, got)) ELSE answers

Fails(r) ==
    failed' = IF r.op \in {"renew", "release"} THEN failed \cup {<<r.op, r.token>>} ELSE failed

ServeAcquire(r) ==
    /\ r.op = "acquire"
    /\ \/ /\ r.file \in files /\ lock[r.file] = 0
          /\ lock' = [lock EXCEPT ![r.file] = issued + 1]
          /\ issued' = issued + 1
          /\ Respond(r, TRUE, issued + 1)
          /\ failed' = IF r.awaited THEN failed ELSE failed \cup {<<"acquire", issued + 1>>}
       \/ /\ r.file \notin files \/ lock[r.file] # 0
          /\ Respond(r, FALSE, 0)
          /\ UNCHANGED <<lock, issued, failed>>
    /\ UNCHANGED <<files, content, strayed>>

ServeDownload(r) ==
    /\ r.op = "download"
    /\ IF r.file \in files THEN Respond(r, TRUE, content[r.file]) ELSE Respond(r, FALSE, 0)
    /\ UNCHANGED <<server, failed, strayed>>

\* The server does not ask for the lock (FileContentController).
ServeUpload(r) ==
    /\ r.op = "upload"
    /\ \/ /\ r.file \in files
          /\ content' = [content EXCEPT ![r.file] = r.token]
          /\ strayed' = IF lock[r.file] = r.token THEN strayed ELSE strayed \cup {r.token}
          /\ Respond(r, TRUE, 0)
       \/ /\ r.file \notin files
          /\ Respond(r, FALSE, 0)
          /\ UNCHANGED <<content, strayed>>
    /\ UNCHANGED <<files, lock, issued, failed>>

\* A renewal also fails when the lease has run out.
ServeRenew(r) ==
    /\ r.op = "renew"
    /\ \/ lock[r.file] = r.token /\ Respond(r, TRUE, 0) /\ UNCHANGED failed
       \/ Respond(r, FALSE, 0) /\ Fails(r)
    /\ UNCHANGED <<server, strayed>>

ServeRelease(r) ==
    /\ r.op = "release"
    /\ \/ /\ lock[r.file] = r.token
          /\ lock' = [lock EXCEPT ![r.file] = 0]
          /\ Respond(r, TRUE, 0)
          /\ UNCHANGED failed
       \/ lock[r.file] # r.token /\ Respond(r, FALSE, 0) /\ Fails(r) /\ UNCHANGED lock
    /\ UNCHANGED <<files, content, issued, strayed>>

\* A file is removed without its lock, and the lock goes with it.
Remove(f) == files' = files \ {f} /\ lock' = [lock EXCEPT ![f] = 0]

ServeDelete(r) ==
    /\ r.op = "delete"
    /\ Remove(r.file)
    /\ Respond(r, TRUE, 0)
    /\ UNCHANGED <<content, issued, failed, strayed>>

Serve(r) ==
    /\ \/ ServeAcquire(r) \/ ServeDownload(r) \/ ServeUpload(r)
       \/ ServeRenew(r) \/ ServeRelease(r) \/ ServeDelete(r)
    /\ UNCHANGED <<client, takes, extras, hasty>>

\* What a request does that gets no answer; a download or a renewal does nothing
\* then that anybody could tell.
Lasting(r) == r.op \in {"acquire", "upload", "release", "delete"}

\* The connection fails: the client sees an error, the server may still get the
\* request.
Abandon(r) ==
    /\ r.awaited /\ Extra
    /\ LET rest == BagRemove(requests, r)
       IN  requests' = IF Lasting(r) THEN BagAdd(rest, [r EXCEPT !.awaited = FALSE]) ELSE rest
    /\ answers' = BagAdd(answers, Reply(r, FALSE, 0))
    /\ Fails(r)
    /\ UNCHANGED <<server, client, takes, strayed, hasty>>

Drop(r) ==
    /\ ~r.awaited
    /\ requests' = BagRemove(requests, r)
    /\ UNCHANGED <<server, answers, client, takes, extras, history>>

OtherClients(f) ==
    /\ f \in files
    /\ \/ /\ \/ lock[f] = 0 /\ lock' = [lock EXCEPT ![f] = Other] /\ UNCHANGED content
             \/ lock[f] = Other /\ content' = [content EXCEPT ![f] = Other] /\ UNCHANGED lock
             \/ lock[f] = Other /\ lock' = [lock EXCEPT ![f] = 0] /\ UNCHANGED content
          /\ UNCHANGED <<files, extras>>
       \/ Remove(f) /\ Extra /\ UNCHANGED content
    /\ UNCHANGED <<issued, network, client, takes, history>>

-----------------------------------------------------------------------------
(* MainWindow.  While a message is shown the user can do nothing else.     *)

UserIsFree == running /\ refused = {}

OpenSelectedForEdit(f) ==
    /\ UserIsFree /\ takes < MaxTakes
    /\ pendingEditFile' = f
    /\ pendingEditLock' = 0
    /\ Ask("acquire", f, 0)
    /\ takes' = takes + 1
    /\ hasty' = (hasty \/ pendingEditFile # NoFile)
    /\ UNCHANGED <<server, pendingReadOnlyFile, refused, editors, running, extras,
                   failed, strayed>>

OpenSelectedReadOnly(f) ==
    /\ UserIsFree /\ Extra
    /\ pendingReadOnlyFile' = f
    /\ Ask("download", f, 0)
    /\ UNCHANGED <<server, pendingEditFile, pendingEditLock, refused, editors, running,
                   takes, history>>

\* The list may show a file that is gone.  The answer only has the list loaded
\* again, or an error shown: nobody waits for it.
DeleteFile(f) ==
    /\ UserIsFree /\ Extra
    /\ requests' = BagAdd(requests, [Request("delete", f, 0) EXCEPT !.awaited = FALSE])
    /\ UNCHANGED <<server, answers, client, takes, history>>

Take(a) == answers' = BagRemove(answers, a)

HandleLockAcquired(a) ==
    /\ a.op = "acquire"
    /\ Take(a)
    /\ \/ pendingEditFile # a.file /\ UNCHANGED <<requests, pending>>
       \/ /\ pendingEditFile = a.file /\ ~a.ok
          /\ pendingEditFile' = NoFile /\ pendingEditLock' = 0
          /\ UNCHANGED <<requests, pendingReadOnlyFile>>
       \/ /\ pendingEditFile = a.file /\ a.ok
          /\ pendingEditLock' = a.got
          /\ requests' = BagAdd(requests, Request("download", a.file, a.got))
          /\ UNCHANGED <<pendingEditFile, pendingReadOnlyFile>>
    /\ UNCHANGED <<server, refused, editors, running, takes, extras, history>>

\* The lock of the pending edit when a is an answer about its file.
EditFor(a) == IF pendingEditFile = a.file THEN pendingEditLock ELSE 0

\* Mutant: the lock is not released when the download has failed.
HandleEditDownloaded_KeepsLock(a) ==
    /\ a.op = "download" /\ EditFor(a) # 0
    /\ Take(a)
    /\ pendingEditFile' = NoFile /\ pendingEditLock' = 0
    /\ editors' = IF ~a.ok THEN editors
                  ELSE [editors EXCEPT ![pendingEditLock] =
                           [NoEditor EXCEPT !.open = TRUE, !.file = a.file, !.lockToken = TRUE,
                                            !.renewTimer = TRUE, !.base = a.got,
                                            !.mixed = (a.token # pendingEditLock)]]
    /\ UNCHANGED <<server, requests, pendingReadOnlyFile, refused, running, takes, extras,
                   history>>

\* A download for the editor: it opens, or an error message is shown, after
\* which the lock is released.
HandleEditDownloaded(a) ==
    /\ a.op = "download" /\ EditFor(a) # 0
    /\ Take(a)
    /\ pendingEditFile' = NoFile /\ pendingEditLock' = 0
    /\ \/ /\ a.ok
          /\ editors' = [editors EXCEPT ![pendingEditLock] =
                [NoEditor EXCEPT !.open = TRUE, !.file = a.file, !.lockToken = TRUE,
                                 !.renewTimer = TRUE, !.base = a.got,
                                 !.mixed = (a.token # pendingEditLock)]]
          /\ UNCHANGED refused
       \/ /\ ~a.ok
          /\ UNCHANGED editors
          /\ refused' = refused \cup {Request("release", a.file, pendingEditLock)}
    /\ UNCHANGED <<server, requests, pendingReadOnlyFile, running, takes, extras, history>>

\* Any other download: a window without a lock opens, or nothing happens.
HandleReadOnlyDownloaded(a) ==
    /\ a.op = "download" /\ EditFor(a) = 0
    /\ Take(a)
    /\ pendingReadOnlyFile' = IF pendingReadOnlyFile = a.file THEN NoFile ELSE pendingReadOnlyFile
    /\ UNCHANGED <<server, requests, pendingEditFile, pendingEditLock, refused, editors,
                   running, takes, extras, history>>

\* The message is closed, and the lock of the failed download released.
CloseMessage ==
    /\ \E r \in refused : Ask(r.op, r.file, r.token) /\ refused' = refused \ {r}
    /\ UNCHANGED <<server, pending, editors, running, takes, extras, history>>

-----------------------------------------------------------------------------
(* EditorWindow.                                                           *)

Holds(t) == editors[t].open /\ editors[t].lockToken

\* Bound of the model: a window has one save and one renewal under way.
NoneUnderWay(op, t) ==
    \A x \in DOMAIN requests \cup DOMAIN answers : x.op = op => x.token # t

\* Mutant: without setBusy(true).
Save_StaysIdle(t) ==
    /\ UserIsFree /\ Holds(t) /\ ~editors[t].busy /\ NoneUnderWay("upload", t)
    /\ Ask("upload", editors[t].file, t)
    /\ UNCHANGED <<server, client, takes, extras, history>>

Save(t) ==
    /\ UserIsFree /\ Holds(t) /\ ~editors[t].busy /\ NoneUnderWay("upload", t)
    /\ editors' = [editors EXCEPT ![t].busy = TRUE]
    /\ Ask("upload", editors[t].file, t)
    /\ UNCHANGED <<server, pending, refused, running, takes, extras, history>>

ReleaseLock(t) ==
    /\ UserIsFree /\ Holds(t) /\ ~editors[t].busy /\ ~editors[t].releaseStarted
    /\ editors' = [editors EXCEPT ![t].releaseStarted = TRUE, ![t].renewTimer = FALSE,
                                  ![t].busy = TRUE]
    /\ Ask("release", editors[t].file, t)
    /\ UNCHANGED <<server, pending, refused, running, takes, extras, history>>

RenewLock(t) ==
    /\ Holds(t) /\ editors[t].renewTimer /\ NoneUnderWay("renew", t) /\ Extra
    /\ Ask("renew", editors[t].file, t)
    /\ UNCHANGED <<server, client, takes, history>>

\* A window that is closed releases its lock, unless it has asked for that.
Releases(t) == Holds(t) /\ ~editors[t].releaseStarted

CloseEvent(t) ==
    /\ UserIsFree /\ editors[t].open
    /\ IF Releases(t) THEN Ask("release", editors[t].file, t) ELSE UNCHANGED network
    /\ editors' = [editors EXCEPT ![t] = NoEditor]
    /\ UNCHANGED <<server, pending, refused, running, takes, extras, history>>

\* Mutant: setBusy(false) only after the return of the error branch.
HandleCurrentUploaded_ErrorStaysBusy(a) ==
    /\ a.op = "upload"
    /\ Take(a)
    /\ editors' = [t \in Tokens |->
            IF a.ok /\ editors[t].open /\ editors[t].file = a.file
              THEN [editors[t] EXCEPT !.busy = FALSE,
                                      !.woken = @ \/ (editors[t].busy /\ a.token # t)]
              ELSE editors[t]]
    /\ UNCHANGED <<server, requests, pending, refused, running, takes, extras, history>>

\* setBusy(false), whichever window of the file had saved.
HandleCurrentUploaded(a) ==
    /\ a.op = "upload"
    /\ Take(a)
    /\ editors' = [t \in Tokens |->
            IF editors[t].open /\ editors[t].file = a.file
              THEN [editors[t] EXCEPT !.busy = FALSE,
                                      !.woken = @ \/ (editors[t].busy /\ a.token # t)]
              ELSE editors[t]]
    /\ UNCHANGED <<server, requests, pending, refused, running, takes, extras, history>>

\* Mutant: the token of the answer is not compared.
Concerned_AnyToken(t, a) == editors[t].open /\ editors[t].file = a.file

\* The windows that react: those of the file with this lock, or with none.
Concerned(t, a) ==
    /\ editors[t].open /\ editors[t].file = a.file
    /\ editors[t].lockToken => t = a.token

\* A window that has given its lock back.
ReadOnly(f) == [NoEditor EXCEPT !.open = TRUE, !.file = f]

HandleLockReleased(a) ==
    /\ a.op = "release"
    /\ Take(a)
    /\ editors' = [t \in Tokens |->
            IF ~Concerned(t, a) THEN editors[t]
              ELSE IF a.ok THEN ReadOnly(a.file)
              ELSE [editors[t] EXCEPT !.busy = FALSE, !.releaseStarted = FALSE]]
    /\ UNCHANGED <<server, requests, pending, refused, running, takes, extras, history>>

HandleLockRenewed(a) ==
    /\ a.op = "renew"
    /\ Take(a)
    /\ editors' = IF Holds(a.token) /\ ~a.ok
                    THEN [editors EXCEPT ![a.token].renewTimer = FALSE] ELSE editors
    /\ UNCHANGED <<server, requests, pending, refused, running, takes, extras, history>>

\* How often a bag has r.
Copies(r, bag) == IF r \in DOMAIN bag THEN bag[r] ELSE 0

\* The main window is closed, and the editors with it; the process ends, and
\* what is under way may or may not reach the server.
Quit ==
    /\ UserIsFree
    /\ LET all == requests (+) SetToBag({Request("release", editors[t].file, t) :
                                           t \in {u \in Tokens : Releases(u)}})
           late == {[r EXCEPT !.awaited = FALSE] : r \in {x \in DOMAIN all : Lasting(x)}}
       IN  requests' = [r \in late |-> Copies(r, all) + Copies([r EXCEPT !.awaited = TRUE], all)]
    /\ answers' = EmptyBag
    /\ editors' = [t \in Tokens |-> NoEditor]
    /\ pendingEditFile' = NoFile /\ pendingEditLock' = 0 /\ pendingReadOnlyFile' = NoFile
    /\ running' = FALSE
    /\ UNCHANGED <<server, refused, takes, extras, history>>

-----------------------------------------------------------------------------
Init ==
    /\ files = Files
    /\ lock = [f \in Files |-> 0]
    /\ content = [f \in Files |-> 0]
    /\ issued = 0
    /\ requests = EmptyBag
    /\ answers = EmptyBag
    /\ pendingEditFile = NoFile
    /\ pendingEditLock = 0
    /\ pendingReadOnlyFile = NoFile
    /\ refused = {}
    /\ editors = [t \in Tokens |-> NoEditor]
    /\ running = TRUE
    /\ takes = 0
    /\ extras = 0
    /\ failed = {}
    /\ strayed = {}
    /\ hasty = FALSE

Handle(a) ==
    \/ HandleLockAcquired(a) \/ HandleEditDownloaded(a) \/ HandleReadOnlyDownloaded(a)
    \/ HandleCurrentUploaded(a) \/ HandleLockReleased(a) \/ HandleLockRenewed(a)

User ==
    \/ \E f \in Files : OpenSelectedForEdit(f) \/ OpenSelectedReadOnly(f) \/ DeleteFile(f)
    \/ \E t \in Tokens : Save(t) \/ ReleaseLock(t) \/ CloseEvent(t)
    \/ CloseMessage
    \/ Quit

Next ==
    \/ User
    \/ \E t \in Tokens : RenewLock(t)
    \/ \E r \in DOMAIN requests : Serve(r) \/ Abandon(r) \/ Drop(r)
    \/ \E a \in DOMAIN answers : Handle(a)
    \/ \E f \in Files : OtherClients(f)

Spec == Init /\ [][Next]_vars

-----------------------------------------------------------------------------
(* Properties.                                                             *)

\* A window opened for editing has the lock of its file and renews it, until it
\* asks to release the lock; from then on the user cannot type or save in it.
\* The ways out: a release or a renewal of the lock was seen to fail; the file was
\* deleted, by this user or another; the answer to the save of another window of
\* the file has enabled the window while it was busy, so that the user may save
\* after the lock was given back (editor-window.cpp:105, :129, :144, :170).
EditsUnderLock ==
    \A t \in Tokens :
        LET e == editors[t]
        IN  Holds(t) /\ e.file \in files /\ <<"release", t>> \notin failed =>
                \/ lock[e.file] = t /\ (e.renewTimer \/ <<"renew", t>> \in failed)
                \/ e.releaseStarted /\ (e.busy \/ e.woken)

\* What will give a lock back or use it: a window, the pending edit, a message
\* on the screen, a request or an answer under way.
Keeper(t) ==
    \/ Holds(t)
    \/ pendingEditLock = t
    \/ \E r \in refused : r.token = t
    \/ \E r \in DOMAIN requests : r.op = "release" /\ r.token = t
    \/ \E a \in DOMAIN answers : a.op = "acquire" /\ a.got = t

\* No lock of this client stays on the server without anybody to release it,
\* unless a request about it failed, the application was closed, or the user
\* chose "Take edit" while an earlier one was pending (main-window.cpp:247).
LocksKept ==
    running /\ ~hasty =>
        \A f \in Files :
            \/ lock[f] \notin Tokens
            \/ Keeper(lock[f])
            \/ \E op \in {"acquire", "release"} : <<op, lock[f]>> \in failed

\* The save of an open window is done before its lock is released, and replaces
\* the content the window was opened with, or its own.  The ways out: the file
\* was deleted, and the server will refuse the save; the window was opened with
\* the answer to a read-only download, or another window's answer enabled it; a
\* save of another window, closed or with a failed release before its save was
\* done, came first (main-window.cpp:338, editor-window.cpp:83, :125).
SavesOwnWork ==
    \A r \in DOMAIN requests :
        r.op = "upload" /\ r.awaited =>
            LET e == editors[r.token]
            IN  ( /\ Holds(r.token) /\ r.file \in files /\ ~e.mixed /\ ~e.woken
                  /\ <<"release", r.token>> \notin failed ) =>
                    /\ lock[r.file] = r.token
                    /\ content[r.file] \in {e.base, r.token} \cup strayed

\* A window that is busy, with its buttons disabled, waits for the answer to a
\* save or a release of its own, which will enable it again
\* (editor-window.cpp:129, :148).
BusyIsAwaited ==
    \A t \in Tokens :
        editors[t].open /\ editors[t].busy =>
            \/ \E r \in DOMAIN requests :
                  r.op \in {"upload", "release"} /\ r.token = t /\ r.awaited
            \/ \E a \in DOMAIN answers : a.op \in {"upload", "release"} /\ a.token = t
=============================================================================
