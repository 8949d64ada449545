------------------------- MODULE EditSessionProofs -------------------------
(***************************************************************************)
(* What a window, a lock and a save can rely on while requests and answers *)
(* overtake each other: the token of a grant is always in one place - an   *)
(* answer, the pending edit, a window, a message, or a request - and goes  *)
(* from place to place, whatever fails in between.                         *)
(***************************************************************************)
EXTENDS EditSession, TLAPS

Ops == {"acquire", "download", "upload", "renew", "release", "delete"}

\* What a window asks for, with the token of its lock.
Editing == {"upload", "renew", "release"}

Requests == [op : Ops, file : Files, token : Nat, awaited : BOOLEAN]
Replies == [op : Ops, file : Files, token : Nat, ok : BOOLEAN, got : Nat \cup {Other}]
Editors == [open : BOOLEAN, file : Files \cup {NoFile}, lockToken : BOOLEAN,
            releaseStarted : BOOLEAN, renewTimer : BOOLEAN, busy : BOOLEAN,
            base : Nat \cup {Other}, mixed : BOOLEAN, woken : BOOLEAN]

Kinds ==
    /\ files \subseteq Files
    /\ lock \in [Files -> Nat \cup {Other}]
    /\ content \in [Files -> Nat \cup {Other}]
    /\ issued \in Nat
    /\ DOMAIN requests \subseteq Requests
    /\ DOMAIN answers \subseteq Replies
    /\ pendingEditFile \in Files \cup {NoFile}
    /\ pendingEditLock \in Nat
    /\ refused \subseteq Requests
    /\ editors \in [Tokens -> Editors]

\* Tokens were issued, each for one file.
Issued ==
    /\ \A f \in Files : lock[f] \in Nat => lock[f] <= issued
    /\ \A f, g \in Files : lock[f] = lock[g] /\ lock[f] \in Nat \ {0} => f = g
    /\ \A r \in DOMAIN requests : r.token <= issued /\ (r.op \in Editing => r.token > 0)
    /\ \A r \in DOMAIN requests : r.op = "upload" => r.token \in Tokens
    /\ \A a \in DOMAIN answers : a.token <= issued /\ (a.op \in Editing => a.token > 0)
    /\ \A r \in refused : r.token <= issued /\ r.token > 0 /\ r.op = "release"
    /\ pendingEditLock <= issued
    /\ \A t \in Tokens : editors[t].open => t <= issued

\* A token has come to a window, or to the message of a failed download.
Used(t) ==
    \/ t \in Tokens /\ editors[t].open
    \/ \E r \in refused : r.token = t
    \/ \E r \in DOMAIN requests : r.op \in Editing /\ r.token = t
    \/ \E a \in DOMAIN answers : a.op \in Editing /\ a.token = t

\* Until then it is in one place, and its lock is held unless the file is gone.
GrantHeld(a) ==
    /\ a.got \in Nat \ {0} /\ a.got <= issued
    /\ answers[a] = 1
    /\ a.file \in files => lock[a.file] = a.got
    /\ a.got # pendingEditLock
    /\ ~Used(a.got)
    /\ \A b \in DOMAIN answers : b.op = "acquire" /\ b.ok /\ b.got = a.got => b = a

Coming ==
    /\ \A a \in DOMAIN answers : a.op = "acquire" =>
          IF a.ok THEN GrantHeld(a) ELSE a.got = 0
    /\ pendingEditLock # 0 =>
          /\ pendingEditFile \in Files
          /\ pendingEditFile \in files => lock[pendingEditFile] = pendingEditLock
          /\ ~Used(pendingEditLock)
    /\ \A r \in refused : r.token \in Tokens => ~editors[r.token].open

\* A window that has a release under way has begun it; what was refused is known
\* to have failed, and a lock whose release was answered is free.
ReleaseFailed(t) == <<"release", t>> \in failed

Releasing ==
    /\ \A r \in DOMAIN requests : r.op = "release" /\ r.token \in Tokens /\ Holds(r.token) =>
          editors[r.token].releaseStarted \/ ReleaseFailed(r.token)
    /\ \A a \in DOMAIN answers :
          /\ a.op \in {"release", "renew"} /\ ~a.ok => <<a.op, a.token>> \in failed
          /\ a.op = "release" /\ a.ok => \A f \in Files : lock[f] # a.token

\* Requests and answers are about the file of their window.
OfWindow ==
    /\ \A r \in DOMAIN requests : r.op \in Editing /\ r.token \in Tokens /\
          editors[r.token].open => r.file = editors[r.token].file
    /\ \A a \in DOMAIN answers : a.op \in Editing /\ a.token \in Tokens /\
          editors[a.token].open => a.file = editors[a.token].file
    /\ \A t \in Tokens : editors[t].open => editors[t].file \in Files

\* A window has one save under way, for which it is busy.
Saves(r) == r \in DOMAIN requests /\ r.op = "upload" /\ r.awaited
Saved(a) == a \in DOMAIN answers /\ a.op = "upload"

Clean(t) == t \in Tokens /\ Holds(t) /\ ~editors[t].woken /\ ~ReleaseFailed(t)

LoneSave(r) ==
    /\ requests[r] = 1
    /\ \A s \in DOMAIN requests : Saves(s) /\ s.token = r.token => s = r
    /\ \A a \in DOMAIN answers : Saved(a) => a.token # r.token
    /\ Clean(r.token) => editors[r.token].busy /\ ~editors[r.token].releaseStarted

LoneSaved(a) ==
    /\ answers[a] = 1
    /\ \A b \in DOMAIN answers : Saved(b) /\ b.token = a.token => b = a
    /\ Clean(a.token) => editors[a.token].busy /\ ~editors[a.token].releaseStarted

OneSave ==
    /\ \A r \in DOMAIN requests : Saves(r) => LoneSave(r)
    /\ \A a \in DOMAIN answers : Saved(a) => LoneSaved(a)
    /\ \A t \in Tokens : Clean(t) /\ editors[t].releaseStarted => editors[t].busy

\* While a lock is held the content of its file is what its holder has got, or its own.
Contents ==
    /\ \A a \in DOMAIN answers :
          a.op = "download" /\ a.ok /\ a.token # 0 /\ lock[a.file] = a.token =>
              content[a.file] \in {a.got, a.token} \cup strayed
    /\ \A t \in Tokens :
          Holds(t) /\ ~editors[t].mixed /\ lock[editors[t].file] = t =>
              content[editors[t].file] \in {editors[t].base, t} \cup strayed

\* Without haste there is one edit at a time on its way to a window.
OneTake == running /\ ~hasty =>
    /\ \A r \in DOMAIN requests : r.op = "acquire" /\ r.awaited =>
          /\ requests[r] = 1
          /\ r.file = pendingEditFile /\ pendingEditLock = 0
          /\ \A s \in DOMAIN requests : s.op = "acquire" /\ s.awaited => s = r
          /\ \A a \in DOMAIN answers : a.op # "acquire"
    /\ \A a \in DOMAIN answers : a.op = "acquire" =>
          /\ answers[a] = 1
          /\ a.file = pendingEditFile /\ pendingEditLock = 0
          /\ \A b \in DOMAIN answers : b.op = "acquire" => b = a
    /\ pendingEditFile = NoFile => pendingEditLock = 0

\* A release that was begun is under way until it was seen to fail, or the lock is free.
Returning == running =>
    /\ \A r \in DOMAIN requests : r.op = "release" /\ ~r.awaited => ReleaseFailed(r.token)
    /\ \A t \in Tokens : Holds(t) /\ editors[t].releaseStarted =>
          \/ \E r \in DOMAIN requests : r.op = "release" /\ r.token = t
          \/ ReleaseFailed(t)
          \/ \A f \in Files : lock[f] # t

\* A window that has not begun to release its lock has it, and renews it.
Locked == \A t \in Tokens :
    Releases(t) /\ editors[t].file \in files /\ <<"release", t>> \notin failed =>
        lock[editors[t].file] = t /\ (editors[t].renewTimer \/ <<"renew", t>> \in failed)

\* The inductive invariant.
IInv ==
    /\ Kinds /\ Issued /\ Coming /\ Releasing /\ OfWindow /\ OneSave /\ Contents
    /\ OneTake /\ Returning
    /\ Locked /\ LocksKept /\ BusyIsAwaited

-----------------------------------------------------------------------------
(* The network.                                                            *)

\* C is B with one more x, or with one less.
Added(C, B, x) ==
    /\ DOMAIN C = DOMAIN B \cup {x}
    /\ \A e \in DOMAIN B \ {x} : C[e] = B[e]
    /\ x \notin DOMAIN B => C[x] = 1

Removed(C, B, x) ==
    /\ DOMAIN B \ {x} \subseteq DOMAIN C
    /\ DOMAIN C \subseteq DOMAIN B
    /\ \A e \in DOMAIN B \ {x} : C[e] = B[e]
    /\ B[x] = 1 => x \notin DOMAIN C

\* What BagAdd and BagRemove of BagsExt do.
LEMMA BagAddAdds == ASSUME NEW B, NEW x PROVE Added(BagAdd(B, x), B, x)
  BY DEF BagAdd, Added

LEMMA BagRemoveRemoves == ASSUME NEW B, NEW x \in DOMAIN B PROVE Removed(BagRemove(B, x), B, x)
  BY DEF BagRemove, Removed

\* The initial state satisfies the invariant.
LEMMA InitIInv == Init => IInv
  <1> SUFFICES ASSUME Init PROVE IInv
    OBVIOUS
  <1>1. DOMAIN requests = {} /\ DOMAIN answers = {}
    BY DEF Init, EmptyBag, SetToBag
  <1> USE <1>1, NamesAssumption, BoundsAssumption DEF Init
  <1>2. Kinds
    BY DEF Kinds, Editors, NoEditor
  <1>3. Issued /\ Coming /\ Releasing /\ OfWindow
    BY DEF Issued, Coming, Releasing, OfWindow, NoEditor, Holds
  <1>4. OneSave /\ Contents /\ OneTake /\ Returning
    BY DEF OneSave, LoneSave, LoneSaved, Contents, OneTake, Returning, NoEditor, Holds,
       Clean
  <1>5. Locked /\ LocksKept /\ BusyIsAwaited
    BY DEF Locked, LocksKept, BusyIsAwaited, NoEditor, Releases, Holds, Tokens
  <1> QED BY <1>2, <1>3, <1>4, <1>5 DEF IInv

-----------------------------------------------------------------------------
(* The server.                                                             *)

\* What the answer to a request does to the network.
LEMMA Served ==
    ASSUME NEW r \in DOMAIN requests, NEW ok, NEW got, Respond(r, ok, got)
    PROVE  /\ Removed(requests', requests, r)
           /\ r.awaited => Added(answers', answers, Reply(r, ok, got))
           /\ ~r.awaited => answers' = answers
  BY BagAddAdds, BagRemoveRemoves DEF Respond

\* A grant: the token is new, and goes to the one answer that carries it.
LEMMA ServeAcquireKeeps ==
    ASSUME IInv, NEW r \in DOMAIN requests, ServeAcquire(r),
           UNCHANGED <<client, takes, extras, hasty>>
    PROVE  IInv'
  <1>1. r \in Requests /\ r.op = "acquire" /\ r.file \in Files /\ r.token \in Nat
    BY DEF IInv, Kinds, ServeAcquire, Requests
  <1>2. UNCHANGED <<files, content, strayed, hasty, pendingEditFile, pendingEditLock, refused,
                    editors, running>>
    BY DEF ServeAcquire, client, pending
  <1>3. CASE /\ r.file \in files /\ lock[r.file] = 0 /\ lock' = [lock EXCEPT ![r.file] = issued + 1]
             /\ issued' = issued + 1 /\ Respond(r, TRUE, issued + 1)
             /\ failed' = IF r.awaited THEN failed ELSE failed \cup {<<"acquire", issued + 1>>}
    <2> DEFINE a == Reply(r, TRUE, issued + 1)
    <2>0. /\ Removed(requests', requests, r)
          /\ IF r.awaited THEN Added(answers', answers, a) ELSE answers' = answers
      BY <1>3, Served
    <2>1. /\ a.op = "acquire" /\ a.file = r.file /\ a.token = r.token /\ a.ok /\ a.got = issued + 1
          /\ a \in Replies /\ issued \in Nat
      BY <1>1 DEF Reply, Replies, Requests, IInv, Kinds, Ops
    <2> HIDE DEF a
    <2>2. Kinds'
      BY <1>1, <1>2, <1>3, <2>0, <2>1 DEF IInv, Kinds, Removed, Added
    <2>3. Issued'
      <3>1. /\ \A f \in Files : lock'[f] \in Nat => lock'[f] <= issued'
            /\ \A f, g \in Files : lock'[f] = lock'[g] /\ lock'[f] \in Nat \ {0} => f = g
        BY <1>1, <1>3, <2>1 DEF IInv, Kinds, Issued
      <3>2. /\ \A x \in DOMAIN requests' : x.token <= issued' /\ (x.op \in Editing => x.token > 0)
            /\ \A x \in DOMAIN answers' : x.token <= issued' /\ (x.op \in Editing => x.token > 0)
            /\ \A x \in DOMAIN requests' : x.op = "upload" => x.token \in Tokens
        BY <1>1, <1>3, <2>0, <2>1 DEF IInv, Kinds, Issued, Removed, Added, Editing,
           Requests, Replies
      <3>3. /\ \A x \in refused' : x.token <= issued' /\ x.token > 0 /\ x.op = "release"
            /\ pendingEditLock' <= issued'
            /\ \A t \in Tokens : editors'[t].open => t <= issued'
        BY <1>2, <1>3, <2>1, BoundsAssumption DEF IInv, Kinds, Issued, Requests, Tokens
      <3> QED BY <3>1, <3>2, <3>3 DEF Issued
    <2>4. Coming'
      BY <1>1, <1>2, <1>3, <2>0, <2>1 DEF IInv, Kinds, Issued, Coming, GrantHeld, Used,
         Removed, Added, Editing
    <2>5. Releasing'
      BY <1>1, <1>2, <1>3, <2>0, <2>1 DEF IInv, Kinds, Issued, Releasing,
         ReleaseFailed, Holds, Removed, Added, Editing
    <2>6. OfWindow'
      BY <1>1, <1>2, <1>3, <2>0, <2>1 DEF IInv, Kinds, OfWindow, Removed, Added, Editing
    <2>7. OneSave'
      BY <1>1, <1>2, <1>3, <2>0, <2>1 DEF IInv, Kinds, OneSave, LoneSave, LoneSaved,
         Saves, Saved, Clean, Holds, ReleaseFailed, Removed, Added
    <2>8. Contents'
      BY <1>1, <1>2, <1>3, <2>0, <2>1 DEF IInv, Kinds, Issued, Contents, Holds,
         Removed, Added
    <2>9. OneTake'
      BY <1>1, <1>2, <1>3, <2>0, <2>1 DEF IInv, Kinds, OneTake, Removed, Added
    <2>10. Returning'
      BY <1>1, <1>2, <1>3, <2>0, <2>1 DEF IInv, Kinds, Issued, Returning, Holds,
         ReleaseFailed, Removed, Added
    <2>11. Locked'
      BY <1>1, <1>2, <1>3, BoundsAssumption DEF IInv, Kinds, Locked, OfWindow,
         Releases, Holds, Tokens
    <2>12. LocksKept'
      BY <1>1, <1>2, <1>3, <2>0, <2>1 DEF IInv, Kinds, LocksKept, Keeper, Holds,
         Removed, Added
    <2>13. BusyIsAwaited'
      BY <1>1, <1>2, <1>3, <2>0, <2>1 DEF IInv, Kinds, BusyIsAwaited, Removed, Added
    <2> QED BY <2>2, <2>3, <2>4, <2>5, <2>6, <2>7, <2>8, <2>9, <2>10, <2>11, <2>12,
            <2>13 DEF IInv
  <1>4. CASE Respond(r, FALSE, 0) /\ UNCHANGED <<lock, issued, failed>>
    <2> DEFINE a == Reply(r, FALSE, 0)
    <2>0. /\ Removed(requests', requests, r)
          /\ IF r.awaited THEN Added(answers', answers, a) ELSE answers' = answers
      BY <1>4, Served
    <2>1. /\ a.op = "acquire" /\ a.file = r.file /\ a.token = r.token /\ ~a.ok /\ a.got = 0
          /\ a \in Replies
      BY <1>1 DEF Reply, Replies, Requests, IInv, Kinds, Ops
    <2> HIDE DEF a
    <2>2. Kinds'
      BY <1>1, <1>2, <1>4, <2>0, <2>1 DEF IInv, Kinds, Removed, Added
    <2>3. Issued'
      BY <1>1, <1>2, <1>4, <2>0, <2>1 DEF IInv, Kinds, Issued, Removed, Added, Editing
    <2>4. Coming'
      BY <1>1, <1>2, <1>4, <2>0, <2>1 DEF IInv, Kinds, Coming, GrantHeld, Used,
         Removed, Added, Editing
    <2>5. Releasing'
      BY <1>1, <1>2, <1>4, <2>0, <2>1 DEF IInv, Kinds, Releasing, ReleaseFailed, Holds,
         Removed, Added, Editing
    <2>6. OfWindow'
      BY <1>1, <1>2, <1>4, <2>0, <2>1 DEF IInv, Kinds, OfWindow, Removed, Added, Editing
    <2>7. OneSave'
      BY <1>1, <1>2, <1>4, <2>0, <2>1 DEF IInv, Kinds, OneSave, LoneSave, LoneSaved,
         Saves, Saved, Clean, Holds, ReleaseFailed, Removed, Added
    <2>8. Contents'
      BY <1>1, <1>2, <1>4, <2>0, <2>1 DEF IInv, Kinds, Contents, Holds, Removed, Added
    <2>9. OneTake'
      BY <1>1, <1>2, <1>4, <2>0, <2>1 DEF IInv, Kinds, OneTake, Removed, Added
    <2>10. Returning'
      BY <1>1, <1>2, <1>4, <2>0, <2>1 DEF IInv, Kinds, Returning, Holds, ReleaseFailed,
         Removed, Added
    <2>11. Locked'
      BY <1>2, <1>4 DEF IInv, Locked, Releases, Holds
    <2>12. LocksKept'
      BY <1>1, <1>2, <1>4, <2>0, <2>1 DEF IInv, Kinds, LocksKept, Keeper, Holds,
         Removed, Added
    <2>13. BusyIsAwaited'
      BY <1>1, <1>2, <1>4, <2>0, <2>1 DEF IInv, Kinds, BusyIsAwaited, Removed, Added
    <2> QED BY <2>2, <2>3, <2>4, <2>5, <2>6, <2>7, <2>8, <2>9, <2>10, <2>11, <2>12,
            <2>13 DEF IInv
  <1> QED BY <1>3, <1>4 DEF ServeAcquire

\* A download answers with the content of the moment.
LEMMA ServeDownloadKeeps ==
    ASSUME IInv, NEW r \in DOMAIN requests, ServeDownload(r),
           UNCHANGED <<client, takes, extras, hasty>>
    PROVE  IInv'
  <1>1. r \in Requests /\ r.op = "download" /\ r.file \in Files /\ r.token \in Nat
    BY DEF IInv, Kinds, ServeDownload, Requests
  <1>2. UNCHANGED <<files, lock, content, issued, failed, strayed, hasty, pendingEditFile,
                   pendingEditLock, refused, editors, running>>
    BY DEF ServeDownload, server, client, pending
  <1> PICK ok \in BOOLEAN, got \in Nat \cup {Other} :
         Respond(r, ok, got) /\ (ok => got = content[r.file])
    BY <1>1 DEF ServeDownload, IInv, Kinds
  <1> DEFINE a == Reply(r, ok, got)
  <1>3. /\ Removed(requests', requests, r)
        /\ IF r.awaited THEN Added(answers', answers, a) ELSE answers' = answers
    BY Served
  <1>4. /\ a.op = "download" /\ a.file = r.file /\ a.token = r.token
        /\ (a.ok => a.got = content[r.file]) /\ a \in Replies
    BY <1>1 DEF Reply, Replies, Requests, IInv, Kinds, Ops
  <1> HIDE DEF a
  <1>Kinds. Kinds'
    BY <1>1, <1>2, <1>3, <1>4 DEF IInv, Kinds, Removed, Added
  <1>Issued. Issued'
    BY <1>1, <1>2, <1>3, <1>4 DEF IInv, Kinds, Issued, Editing, Removed, Added
  <1>Coming. Coming'
    BY <1>1, <1>2, <1>3, <1>4 DEF IInv, Kinds, Coming, GrantHeld, Used, Editing,
       Removed, Added
  <1>Releasing. Releasing'
    BY <1>1, <1>2, <1>3, <1>4 DEF IInv, Kinds, Releasing, ReleaseFailed, Holds,
       Editing, Removed, Added
  <1>OfWindow. OfWindow'
    BY <1>1, <1>2, <1>3, <1>4 DEF IInv, Kinds, OfWindow, Editing, Removed, Added
  <1>OneSave. OneSave'
    BY <1>1, <1>2, <1>3, <1>4 DEF IInv, Kinds, OneSave, LoneSave, LoneSaved, Saves,
       Saved, Clean, Holds, ReleaseFailed, Removed, Added
  <1>Contents. Contents'
    BY <1>1, <1>2, <1>3, <1>4 DEF IInv, Kinds, Contents, Holds, Removed, Added
  <1>OneTake. OneTake'
    BY <1>1, <1>2, <1>3, <1>4 DEF IInv, Kinds, OneTake, Removed, Added
  <1>Returning. Returning'
    BY <1>1, <1>2, <1>3, <1>4 DEF IInv, Kinds, Returning, Holds, ReleaseFailed,
       Removed, Added
  <1>Locked. Locked'
    BY <1>1, <1>2, <1>3, <1>4 DEF IInv, Kinds, Locked, Releases, Holds,
       Removed, Added
  <1>LocksKept. LocksKept'
    BY <1>1, <1>2, <1>3, <1>4 DEF IInv, Kinds, LocksKept, Keeper, Holds, Removed, Added
  <1>BusyIsAwaited. BusyIsAwaited'
    BY <1>1, <1>2, <1>3, <1>4 DEF IInv, Kinds, BusyIsAwaited, Removed, Added
  <1> QED BY <1>Kinds, <1>Issued, <1>Coming, <1>Releasing, <1>OfWindow, <1>OneSave,
          <1>Contents, <1>OneTake, <1>Returning, <1>Locked, <1>LocksKept,
          <1>BusyIsAwaited DEF IInv

\* An upload without the lock strays; any other is by the holder.
LEMMA ServeUploadKeeps ==
    ASSUME IInv, NEW r \in DOMAIN requests, ServeUpload(r),
           UNCHANGED <<client, takes, extras, hasty>>
    PROVE  IInv'
  <1>1. r \in Requests /\ r.op = "upload" /\ r.file \in Files /\ r.token \in Nat
    BY DEF IInv, Kinds, ServeUpload, Requests
  <1>2. /\ UNCHANGED <<files, lock, issued, failed, hasty, pendingEditFile,
                      pendingEditLock, refused, editors, running>>
        /\ \/ /\ content' = [content EXCEPT ![r.file] = r.token]
              /\ strayed' = IF lock[r.file] = r.token THEN strayed ELSE strayed \cup {r.token}
           \/ UNCHANGED <<content, strayed>>
    BY DEF ServeUpload, server, client, pending
  <1> PICK ok \in BOOLEAN : Respond(r, ok, 0)
    BY DEF ServeUpload
  <1> DEFINE a == Reply(r, ok, 0)
  <1>3. /\ Removed(requests', requests, r)
        /\ IF r.awaited THEN Added(answers', answers, a) ELSE answers' = answers
    BY Served
  <1>4. /\ a.op = "upload" /\ a.file = r.file /\ a.token = r.token
        /\ a.got = 0 /\ a \in Replies
    BY <1>1 DEF Reply, Replies, Requests, IInv, Kinds, Ops
  <1> HIDE DEF a
  <1>Kinds. Kinds'
    BY <1>1, <1>2, <1>3, <1>4 DEF IInv, Kinds, Removed, Added
  <1>Issued. Issued'
    BY <1>1, <1>2, <1>3, <1>4 DEF IInv, Kinds, Issued, Editing, Removed, Added
  <1>Coming. Coming'
    BY <1>1, <1>2, <1>3, <1>4 DEF IInv, Kinds, Coming, GrantHeld, Used, Editing,
       Removed, Added
  <1>Releasing. Releasing'
    BY <1>1, <1>2, <1>3, <1>4 DEF IInv, Kinds, Releasing, ReleaseFailed, Holds,
       Editing, Removed, Added
  <1>OfWindow. OfWindow'
    BY <1>1, <1>2, <1>3, <1>4 DEF IInv, Kinds, OfWindow, Editing, Removed, Added
  <1>OneSave. OneSave'
    <2>1. ASSUME NEW x \in DOMAIN requests', Saves(x)'
          PROVE  /\ Saves(x) /\ x # r /\ requests'[x] = requests[x]
                 /\ x.token # r.token \/ ~r.awaited
      BY <2>1, <1>1, <1>3 DEF IInv, OneSave, LoneSave, LoneSaved, Saves, Removed,
         Requests
    <2>2. ASSUME NEW x \in DOMAIN answers', Saved(x)'
          PROVE  \/ /\ Saved(x) /\ answers'[x] = answers[x]
                    /\ x.token # r.token \/ ~r.awaited
                 \/ x = a /\ r.awaited /\ Saves(r) /\ answers'[x] = 1
      BY <2>2, <1>1, <1>3, <1>4 DEF IInv, OneSave, LoneSave, LoneSaved, Saves, Saved,
         Added
    <2>3. \A t : Clean(t)' <=> Clean(t)
      BY <1>2 DEF Clean, Holds, ReleaseFailed
    <2>4. \A x \in DOMAIN requests' : Saves(x)' =>
            /\ requests'[x] = 1
            /\ \A y \in DOMAIN requests' : Saves(y)' /\ y.token = x.token => y = x
            /\ Clean(x.token)' => editors'[x.token].busy /\ ~editors'[x.token].releaseStarted
      BY <2>1, <2>3, <1>2 DEF IInv, OneSave, LoneSave, LoneSaved, Saves
    <2>5. \A x \in DOMAIN requests' : Saves(x)' =>
              \A y \in DOMAIN answers' : Saved(y)' => y.token # x.token
      BY <2>1, <2>2, <1>4 DEF IInv, OneSave, LoneSave, LoneSaved, Saves, Saved
    <2>6. \A x \in DOMAIN answers' : Saved(x)' => LoneSaved(x)'
      BY <2>2, <2>3, <1>2, <1>4 DEF IInv, OneSave, LoneSave, LoneSaved, Saves, Saved
    <2>7. \A t \in Tokens : Clean(t)' /\ editors'[t].releaseStarted => editors'[t].busy
      BY <2>3, <1>2 DEF IInv, OneSave, LoneSave, LoneSaved
    <2> QED BY <2>4, <2>5, <2>6, <2>7 DEF OneSave, LoneSave, LoneSaved
  <1>Contents. Contents'
    <2>1. \A f \in Files : /\ f # r.file => content'[f] = content[f]
                          /\ content'[r.file] \in {content[r.file], r.token}
      BY <1>1, <1>2 DEF IInv, Kinds
    <2>2. /\ strayed \subseteq strayed'
          /\ content'[r.file] = content[r.file] \/ lock[r.file] = r.token \/ r.token \in strayed'
      BY <1>2
    <2>3. \A x \in DOMAIN answers' : x = a \/ x \in DOMAIN answers
      BY <1>3 DEF Added
    <2>4. \A x \in DOMAIN answers : x.file \in Files
      BY DEF IInv, Kinds, Replies
    <2>5. \A t \in Tokens : editors[t].open => editors[t].file \in Files
      BY DEF IInv, OfWindow
    <2>6. \A f \in Files : \A n, g : content[f] \in {g, n} \cup strayed /\ lock[f] = n =>
             content'[f] \in {g, n} \cup strayed'
      BY <2>1, <2>2
    <2> QED BY <1>2, <1>4, <2>3, <2>4, <2>5, <2>6 DEF IInv, Contents, Holds
  <1>OneTake. OneTake'
    BY <1>1, <1>2, <1>3, <1>4 DEF IInv, Kinds, OneTake, Removed, Added
  <1>Returning. Returning'
    BY <1>1, <1>2, <1>3, <1>4 DEF IInv, Kinds, Returning, Holds, ReleaseFailed,
       Removed, Added
  <1>Locked. Locked'
    BY <1>1, <1>2, <1>3, <1>4 DEF IInv, Kinds, Locked, Releases, Holds,
       Removed, Added
  <1>LocksKept. LocksKept'
    BY <1>1, <1>2, <1>3, <1>4 DEF IInv, Kinds, LocksKept, Keeper, Holds, Removed, Added
  <1>BusyIsAwaited. BusyIsAwaited'
    BY <1>1, <1>2, <1>3, <1>4 DEF IInv, Kinds, BusyIsAwaited, Removed, Added
  <1> QED BY <1>Kinds, <1>Issued, <1>Coming, <1>Releasing, <1>OfWindow, <1>OneSave,
          <1>Contents, <1>OneTake, <1>Returning, <1>Locked, <1>LocksKept,
          <1>BusyIsAwaited DEF IInv

\* A renewal that fails is in "failed" before its answer is there.
LEMMA ServeRenewKeeps ==
    ASSUME IInv, NEW r \in DOMAIN requests, ServeRenew(r),
           UNCHANGED <<client, takes, extras, hasty>>
    PROVE  IInv'
  <1>1. r \in Requests /\ r.op = "renew" /\ r.file \in Files /\ r.token \in Nat
    BY DEF IInv, Kinds, ServeRenew, Requests
  <1>2. UNCHANGED <<files, lock, content, issued, strayed, hasty, pendingEditFile,
                   pendingEditLock, refused, editors, running>>
    BY DEF ServeRenew, server, client, pending
  <1>3. CASE lock[r.file] = r.token /\ Respond(r, TRUE, 0) /\ UNCHANGED failed
    <2> DEFINE a == Reply(r, TRUE, 0)
    <2>1. /\ Removed(requests', requests, r)
          /\ IF r.awaited THEN Added(answers', answers, a) ELSE answers' = answers
      BY <1>3, Served
    <2>2. /\ a.op = "renew" /\ a.file = r.file /\ a.token = r.token
          /\ a.ok = TRUE /\ a.got = 0 /\ a \in Replies
      BY <1>1 DEF Reply, Replies, Requests, IInv, Kinds, Ops
    <2>3. UNCHANGED failed
      BY <1>1, <1>3 DEF Fails
    <2> HIDE DEF a
    <2>Kinds. Kinds'
      BY <1>1, <1>2, <1>3, <2>1, <2>2, <2>3 DEF IInv, Kinds, Removed, Added
    <2>Issued. Issued'
      BY <1>1, <1>2, <1>3, <2>1, <2>2, <2>3 DEF IInv, Kinds, Issued, Editing, Removed,
         Added
    <2>Coming. Coming'
      BY <1>1, <1>2, <1>3, <2>1, <2>2, <2>3 DEF IInv, Kinds, Coming, GrantHeld, Used,
         Editing, Removed, Added
    <2>Releasing. Releasing'
      BY <1>1, <1>2, <1>3, <2>1, <2>2, <2>3 DEF IInv, Kinds, Releasing, ReleaseFailed,
         Holds, Editing, Removed, Added
    <2>OfWindow. OfWindow'
      BY <1>1, <1>2, <1>3, <2>1, <2>2, <2>3 DEF IInv, Kinds, OfWindow, Editing,
         Removed, Added
    <2>OneSave. OneSave'
      BY <1>1, <1>2, <1>3, <2>1, <2>2, <2>3 DEF IInv, Kinds, OneSave, LoneSave,
         LoneSaved, Saves, Saved, Clean, Holds, ReleaseFailed, Removed, Added
    <2>Contents. Contents'
      BY <1>1, <1>2, <1>3, <2>1, <2>2, <2>3 DEF IInv, Kinds, Contents, Holds, Removed,
         Added
    <2>OneTake. OneTake'
      BY <1>1, <1>2, <1>3, <2>1, <2>2, <2>3 DEF IInv, Kinds, OneTake, Removed, Added
    <2>Returning. Returning'
      BY <1>1, <1>2, <1>3, <2>1, <2>2, <2>3 DEF IInv, Kinds, Returning, Holds,
         ReleaseFailed, Removed, Added
    <2>Locked. Locked'
      BY <1>1, <1>2, <1>3, <2>1, <2>2, <2>3 DEF IInv, Kinds, Locked, Releases,
         Holds, Removed, Added
    <2>LocksKept. LocksKept'
      BY <1>1, <1>2, <1>3, <2>1, <2>2, <2>3 DEF IInv, Kinds, LocksKept, Keeper, Holds,
         Removed, Added
    <2>BusyIsAwaited. BusyIsAwaited'
      BY <1>1, <1>2, <1>3, <2>1, <2>2, <2>3 DEF IInv, Kinds, BusyIsAwaited, Removed,
         Added
    <2> QED BY <2>Kinds, <2>Issued, <2>Coming, <2>Releasing, <2>OfWindow, <2>OneSave,
            <2>Contents, <2>OneTake, <2>Returning, <2>Locked, <2>LocksKept,
            <2>BusyIsAwaited DEF IInv
  <1>4. CASE Respond(r, FALSE, 0) /\ Fails(r)
    <2> DEFINE a == Reply(r, FALSE, 0)
    <2>1. /\ Removed(requests', requests, r)
          /\ IF r.awaited THEN Added(answers', answers, a) ELSE answers' = answers
      BY <1>4, Served
    <2>2. /\ a.op = "renew" /\ a.file = r.file /\ a.token = r.token
          /\ a.ok = FALSE /\ a.got = 0 /\ a \in Replies
      BY <1>1 DEF Reply, Replies, Requests, IInv, Kinds, Ops
    <2>3. failed' = failed \cup {<<"renew", r.token>>}
      BY <1>1, <1>4 DEF Fails
    <2> HIDE DEF a
    <2>Kinds. Kinds'
      BY <1>1, <1>2, <1>4, <2>1, <2>2, <2>3 DEF IInv, Kinds, Removed, Added
    <2>Issued. Issued'
      BY <1>1, <1>2, <1>4, <2>1, <2>2, <2>3 DEF IInv, Kinds, Issued, Editing, Removed,
         Added
    <2>Coming. Coming'
      BY <1>1, <1>2, <1>4, <2>1, <2>2, <2>3 DEF IInv, Kinds, Coming, GrantHeld, Used,
         Editing, Removed, Added
    <2>Releasing. Releasing'
      BY <1>1, <1>2, <1>4, <2>1, <2>2, <2>3 DEF IInv, Kinds, Releasing, ReleaseFailed,
         Holds, Editing, Removed, Added
    <2>OfWindow. OfWindow'
      BY <1>1, <1>2, <1>4, <2>1, <2>2, <2>3 DEF IInv, Kinds, OfWindow, Editing,
         Removed, Added
    <2>OneSave. OneSave'
      BY <1>1, <1>2, <1>4, <2>1, <2>2, <2>3 DEF IInv, Kinds, OneSave, LoneSave,
         LoneSaved, Saves, Saved, Clean, Holds, ReleaseFailed, Removed, Added
    <2>Contents. Contents'
      BY <1>1, <1>2, <1>4, <2>1, <2>2, <2>3 DEF IInv, Kinds, Contents, Holds, Removed,
         Added
    <2>OneTake. OneTake'
      BY <1>1, <1>2, <1>4, <2>1, <2>2, <2>3 DEF IInv, Kinds, OneTake, Removed, Added
    <2>Returning. Returning'
      BY <1>1, <1>2, <1>4, <2>1, <2>2, <2>3 DEF IInv, Kinds, Returning, Holds,
         ReleaseFailed, Removed, Added
    <2>Locked. Locked'
      BY <1>1, <1>2, <1>4, <2>1, <2>2, <2>3 DEF IInv, Kinds, Locked, Releases,
         Holds, Removed, Added
    <2>LocksKept. LocksKept'
      BY <1>1, <1>2, <1>4, <2>1, <2>2, <2>3 DEF IInv, Kinds, LocksKept, Keeper, Holds,
         Removed, Added
    <2>BusyIsAwaited. BusyIsAwaited'
      BY <1>1, <1>2, <1>4, <2>1, <2>2, <2>3 DEF IInv, Kinds, BusyIsAwaited, Removed,
         Added
    <2> QED BY <2>Kinds, <2>Issued, <2>Coming, <2>Releasing, <2>OfWindow, <2>OneSave,
            <2>Contents, <2>OneTake, <2>Returning, <2>Locked, <2>LocksKept,
            <2>BusyIsAwaited DEF IInv
  <1> QED BY <1>3, <1>4 DEF ServeRenew

\* A lock is freed only when its window has begun to release it.
LEMMA ServeReleaseKeeps ==
    ASSUME IInv, NEW r \in DOMAIN requests, ServeRelease(r),
           UNCHANGED <<client, takes, extras, hasty>>
    PROVE  IInv'
  <1>1. r \in Requests /\ r.op = "release" /\ r.file \in Files /\ r.token \in Nat
    BY DEF IInv, Kinds, ServeRelease, Requests
  <1>2. UNCHANGED <<files, content, issued, strayed, hasty, pendingEditFile,
                   pendingEditLock, refused, editors, running>>
    BY DEF ServeRelease, server, client, pending
  <1>3. CASE /\ lock[r.file] = r.token /\ lock' = [lock EXCEPT ![r.file] = 0]
             /\ Respond(r, TRUE, 0) /\ UNCHANGED failed
    <2> DEFINE a == Reply(r, TRUE, 0)
    <2>1. /\ Removed(requests', requests, r)
          /\ IF r.awaited THEN Added(answers', answers, a) ELSE answers' = answers
      BY <1>3, Served
    <2>2. /\ a.op = "release" /\ a.file = r.file /\ a.token = r.token
          /\ a.ok = TRUE /\ a.got = 0 /\ a \in Replies
      BY <1>1 DEF Reply, Replies, Requests, IInv, Kinds, Ops
    <2>3. UNCHANGED failed
      BY <1>1, <1>3 DEF Fails
    <2> HIDE DEF a
    <2>4. /\ r.token \in Nat \ {0}
          /\ \A f \in Files : /\ lock'[f] # r.token
                             /\ IF f = r.file THEN lock'[f] = 0 ELSE lock'[f] = lock[f]
      BY <1>1, <1>3 DEF IInv, Kinds, Issued, Editing
    <2>Kinds. Kinds'
      BY <1>1, <1>2, <1>3, <2>1, <2>2, <2>3 DEF IInv, Kinds, Removed, Added
    <2>Issued. Issued'
      BY <1>1, <1>2, <1>3, <2>1, <2>2, <2>3 DEF IInv, Kinds, Issued, Editing, Removed,
         Added
    <2>Coming. Coming'
      BY <1>1, <1>2, <1>3, <2>1, <2>2, <2>3 DEF IInv, Kinds, Coming, GrantHeld, Used,
         Editing, Removed, Added, Issued
    <2>Releasing. Releasing'
      <3>1. \A x \in DOMAIN requests' : x \in DOMAIN requests
        BY <2>1 DEF Removed
      <3>2. \A x \in DOMAIN answers' : x = a \/ x \in DOMAIN answers
        BY <2>1 DEF Added
      <3>3. \A x \in DOMAIN answers : x.op = "release" /\ x.ok =>
               \A f \in Files : lock'[f] # x.token
        <4> SUFFICES ASSUME NEW x \in DOMAIN answers, x.op = "release", x.ok,
            NEW f \in Files
                     PROVE  lock'[f] # x.token
          OBVIOUS
        <4>1. x.token > 0 /\ x.token \in Nat
          BY DEF IInv, Kinds, Issued, Editing, Replies
        <4>2. lock[f] # x.token
          BY DEF IInv, Releasing
        <4> QED BY <4>1, <4>2, <2>4
      <3> QED BY <1>2, <2>2, <2>3, <2>4, <3>1, <3>2, <3>3 DEF IInv, Releasing,
              ReleaseFailed, Holds
    <2>OfWindow. OfWindow'
      BY <1>1, <1>2, <1>3, <2>1, <2>2, <2>3 DEF IInv, Kinds, OfWindow, Editing,
         Removed, Added
    <2>OneSave. OneSave'
      BY <1>1, <1>2, <1>3, <2>1, <2>2, <2>3 DEF IInv, Kinds, OneSave, LoneSave,
         LoneSaved, Saves, Saved, Clean, Holds, ReleaseFailed, Removed, Added
    <2>Contents. Contents'
      <3>1. \A x \in DOMAIN answers' : x = a \/ x \in DOMAIN answers
        BY <2>1 DEF Added
      <3>2. \A x \in DOMAIN answers : x.op = "download" /\ x.token # 0 /\ lock'[x.file] = x.token =>
               lock[x.file] = x.token
        BY <2>4 DEF IInv, Kinds, Replies
      <3>3. \A t \in Tokens :
               editors[t].open /\ lock'[editors[t].file] = t => lock[editors[t].file] = t
        BY <2>4 DEF IInv, OfWindow, Tokens
      <3> QED BY <1>2, <2>2, <3>1, <3>2, <3>3 DEF IInv, Contents, Holds
    <2>OneTake. OneTake'
      BY <1>1, <1>2, <1>3, <2>1, <2>2, <2>3 DEF IInv, Kinds, OneTake, Removed, Added
    <2>Returning. Returning'
      <3>1. \A x \in DOMAIN requests : x = r \/ x \in DOMAIN requests'
        BY <2>1 DEF Removed
      <3>2. \A x \in DOMAIN requests' : x \in DOMAIN requests
        BY <2>1 DEF Removed
      <3>3. \A t \in Tokens : (\A f \in Files : lock[f] # t) => \A f \in Files : lock'[f] # t
        BY <2>4 DEF Tokens
      <3> QED BY <1>2, <2>3, <2>4, <3>1, <3>2, <3>3 DEF IInv, Returning, Holds,
              ReleaseFailed
    <2>Locked. Locked'
      <3> SUFFICES ASSUME NEW t \in Tokens, Releases(t)', editors'[t].file \in files',
                          <<"release", t>> \notin failed'
                   PROVE  /\ lock'[editors'[t].file] = t
                          /\ editors'[t].renewTimer \/ <<"renew", t>> \in failed'
        BY DEF Locked
      <3>1. /\ Releases(t) /\ ~ReleaseFailed(t)
            /\ editors[t].file \in Files /\ editors[t].file \in files
        BY <1>2, <2>3 DEF IInv, Releases, Holds, ReleaseFailed, OfWindow
      <3>2. lock[editors[t].file] = t /\ (editors[t].renewTimer \/ <<"renew",
          t>> \in failed)
        BY <3>1 DEF IInv, Locked, ReleaseFailed
      <3>3. t # r.token
        BY <3>1, <1>1 DEF IInv, Releasing, Releases
      <3>4. editors[t].file # r.file
        BY <3>2, <3>3, <1>3
      <3> QED BY <3>1, <3>2, <3>4, <1>2, <2>3, <2>4
    <2>LocksKept. LocksKept'
      <3> SUFFICES ASSUME running', ~hasty', NEW f \in Files, lock'[f] \in Tokens
                   PROVE  \/ Keeper(lock[f])'
                          \/ \E op \in {"acquire", "release"} : <<op, lock'[f]>> \in failed'
        BY DEF LocksKept
      <3>1. lock'[f] = lock[f] /\ lock[f] # r.token
        BY <2>4 DEF Tokens
      <3>2. \/ Keeper(lock[f])
            \/ \E op \in {"acquire", "release"} : <<op, lock[f]>> \in failed
        BY <3>1, <1>2 DEF IInv, LocksKept
      <3>3. Keeper(lock[f]) => Keeper(lock[f])'
        BY <3>1, <1>2, <2>1 DEF Keeper, Holds, Removed, Added
      <3> QED BY <3>1, <3>2, <3>3, <2>3
    <2>BusyIsAwaited. BusyIsAwaited'
      BY <1>1, <1>2, <1>3, <2>1, <2>2, <2>3 DEF IInv, Kinds, BusyIsAwaited, Removed,
         Added
    <2> QED BY <2>Kinds, <2>Issued, <2>Coming, <2>Releasing, <2>OfWindow, <2>OneSave,
            <2>Contents, <2>OneTake, <2>Returning, <2>Locked, <2>LocksKept,
            <2>BusyIsAwaited DEF IInv
  <1>4. CASE /\ lock[r.file] # r.token /\ Respond(r, FALSE, 0)
             /\ Fails(r) /\ UNCHANGED lock
    <2> DEFINE a == Reply(r, FALSE, 0)
    <2>1. /\ Removed(requests', requests, r)
          /\ IF r.awaited THEN Added(answers', answers, a) ELSE answers' = answers
      BY <1>4, Served
    <2>2. /\ a.op = "release" /\ a.file = r.file /\ a.token = r.token
          /\ a.ok = FALSE /\ a.got = 0 /\ a \in Replies
      BY <1>1 DEF Reply, Replies, Requests, IInv, Kinds, Ops
    <2>3. failed' = failed \cup {<<"release", r.token>>}
      BY <1>1, <1>4 DEF Fails
    <2> HIDE DEF a
    <2>Kinds. Kinds'
      BY <1>1, <1>2, <1>4, <2>1, <2>2, <2>3 DEF IInv, Kinds, Removed, Added
    <2>Issued. Issued'
      BY <1>1, <1>2, <1>4, <2>1, <2>2, <2>3 DEF IInv, Kinds, Issued, Editing, Removed,
         Added
    <2>Coming. Coming'
      BY <1>1, <1>2, <1>4, <2>1, <2>2, <2>3 DEF IInv, Kinds, Coming, GrantHeld, Used,
         Editing, Removed, Added
    <2>Releasing. Releasing'
      BY <1>1, <1>2, <1>4, <2>1, <2>2, <2>3 DEF IInv, Kinds, Releasing, ReleaseFailed,
         Holds, Editing, Removed, Added
    <2>OfWindow. OfWindow'
      BY <1>1, <1>2, <1>4, <2>1, <2>2, <2>3 DEF IInv, Kinds, OfWindow, Editing,
         Removed, Added
    <2>OneSave. OneSave'
      BY <1>1, <1>2, <1>4, <2>1, <2>2, <2>3 DEF IInv, Kinds, OneSave, LoneSave,
         LoneSaved, Saves, Saved, Clean, Holds, ReleaseFailed, Removed, Added
    <2>Contents. Contents'
      BY <1>1, <1>2, <1>4, <2>1, <2>2, <2>3 DEF IInv, Kinds, Contents, Holds, Removed,
         Added
    <2>OneTake. OneTake'
      BY <1>1, <1>2, <1>4, <2>1, <2>2, <2>3 DEF IInv, Kinds, OneTake, Removed, Added
    <2>Returning. Returning'
      BY <1>1, <1>2, <1>4, <2>1, <2>2, <2>3 DEF IInv, Kinds, Returning, Holds,
         ReleaseFailed, Removed, Added
    <2>Locked. Locked'
      BY <1>1, <1>2, <1>4, <2>1, <2>2, <2>3 DEF IInv, Kinds, Locked, Releases,
         Holds, Removed, Added
    <2>LocksKept. LocksKept'
      BY <1>1, <1>2, <1>4, <2>1, <2>2, <2>3 DEF IInv, Kinds, LocksKept, Keeper, Holds,
         Removed, Added
    <2>BusyIsAwaited. BusyIsAwaited'
      BY <1>1, <1>2, <1>4, <2>1, <2>2, <2>3 DEF IInv, Kinds, BusyIsAwaited, Removed,
         Added
    <2> QED BY <2>Kinds, <2>Issued, <2>Coming, <2>Releasing, <2>OfWindow, <2>OneSave,
            <2>Contents, <2>OneTake, <2>Returning, <2>Locked, <2>LocksKept,
            <2>BusyIsAwaited DEF IInv
  <1> QED BY <1>3, <1>4 DEF ServeRelease

-----------------------------------------------------------------------------
(* Connections that fail, and other clients.                              *)

\* A failed connection answers with an error; its request stays, unanswered.
LEMMA AbandonKeeps ==
    ASSUME IInv, NEW r \in DOMAIN requests, Abandon(r)
    PROVE  IInv'
  <1>1. /\ r \in Requests /\ r.op \in Ops /\ r.file \in Files /\ r.token \in Nat /\ r.awaited = TRUE
    BY DEF IInv, Kinds, Abandon, Requests
  <1>2. UNCHANGED <<files, lock, content, issued, strayed, hasty, pendingEditFile,
                   pendingEditLock, refused, editors, running>>
    BY DEF Abandon, server, client, pending
  <1> DEFINE a == Reply(r, FALSE, 0)
  <1> DEFINE q == [r EXCEPT !.awaited = FALSE]
  <1> DEFINE rest == BagRemove(requests, r)
  <1>3. Added(answers', answers, a)
    BY BagAddAdds DEF Abandon
  <1>4. /\ \A x \in DOMAIN requests' :
              x = q \/ (x \in DOMAIN requests /\ (x # r => requests'[x] = requests[x]))
        /\ DOMAIN requests \ {r} \subseteq DOMAIN requests'
        /\ r.op \in {"acquire", "upload", "release", "delete"} => q \in DOMAIN requests'
        /\ requests[r] = 1 => r \notin DOMAIN requests'
    <2>1. Removed(rest, requests, r)
      BY BagRemoveRemoves
    <2>2. IF r.op \in {"acquire", "upload", "release", "delete"} THEN Added(requests', rest,
        q) ELSE requests' = rest
      BY BagAddAdds DEF Abandon, Lasting
    <2>3. q # r
      <3>1. q.awaited = FALSE
        BY <1>1 DEF Requests
      <3> HIDE DEF q
      <3> QED BY <3>1, <1>1
    <2> HIDE DEF rest, q
    <2> QED BY <2>1, <2>2, <2>3 DEF Removed, Added
  <1>5. /\ a.op = r.op /\ a.file = r.file /\ a.token = r.token
        /\ a.ok = FALSE /\ a.got = 0 /\ a \in Replies
        /\ q.op = r.op /\ q.file = r.file /\ q.token = r.token
        /\ q.awaited = FALSE /\ q \in Requests
    BY <1>1 DEF Reply, Replies, Requests
  <1>6. failed' = IF r.op \in {"renew", "release"} THEN failed \cup {<<r.op,
      r.token>>} ELSE failed
    BY DEF Abandon, Fails
  <1> HIDE DEF a, q
  <1>Kinds. Kinds'
    BY <1>1, <1>2, <1>3, <1>4, <1>5, <1>6 DEF IInv, Kinds, Added
  <1>Issued. Issued'
    BY <1>1, <1>2, <1>3, <1>4, <1>5, <1>6 DEF IInv, Kinds, Issued, Editing, Added
  <1>Coming. Coming'
    BY <1>1, <1>2, <1>3, <1>4, <1>5, <1>6 DEF IInv, Kinds, Coming, GrantHeld, Used,
       Editing, Added
  <1>Releasing. Releasing'
    BY <1>1, <1>2, <1>3, <1>4, <1>5, <1>6 DEF IInv, Kinds, Releasing, ReleaseFailed,
       Holds, Editing, Added
  <1>OfWindow. OfWindow'
    BY <1>1, <1>2, <1>3, <1>4, <1>5, <1>6 DEF IInv, Kinds, OfWindow, Editing, Added
  <1>OneSave. OneSave'
    <2>1. ASSUME NEW x \in DOMAIN requests', Saves(x)'
          PROVE  Saves(x) /\ x # r /\ requests'[x] = requests[x]
      BY <2>1, <1>4, <1>5 DEF IInv, OneSave, LoneSave, Saves
    <2>2. ASSUME NEW x \in DOMAIN answers', Saved(x)'
          PROVE  \/ Saved(x) /\ answers'[x] = answers[x] /\ x # a
                 \/ x = a /\ Saves(r)
      BY <2>2, <1>1, <1>3, <1>5 DEF Saves, Saved, Added
    <2>3. \A t : Clean(t)' => Clean(t)
      BY <1>2, <1>6 DEF Clean, Holds, ReleaseFailed
    <2>4. Saves(r) => a \notin DOMAIN answers /\ answers'[a] = 1
      BY <1>3, <1>5 DEF IInv, OneSave, LoneSave, Saves, Saved, Added
    <2>5. \A x \in DOMAIN requests' : Saves(x)' =>
            /\ requests'[x] = 1
            /\ \A y \in DOMAIN requests' : Saves(y)' /\ y.token = x.token => y = x
            /\ Clean(x.token)' => editors'[x.token].busy /\ ~editors'[x.token].releaseStarted
      <3>1. \A x \in DOMAIN requests' : Saves(x)' => Saves(x) /\ LoneSave(x)
        BY <2>1 DEF IInv, OneSave, Saves
      <3> QED BY <2>1, <2>3, <3>1, <1>2 DEF LoneSave, Saves
    <2>6. \A x \in DOMAIN requests' : Saves(x)' =>
              \A y \in DOMAIN answers' : Saved(y)' => y.token # x.token
      BY <2>1, <2>2, <1>5 DEF IInv, OneSave, LoneSave, Saves, Saved
    <2>7. ASSUME NEW x \in DOMAIN answers', Saved(x)' PROVE LoneSaved(x)'
      <3>1. CASE Saved(x) /\ answers'[x] = answers[x] /\ x # a
        BY <2>2, <2>3, <3>1, <1>2, <1>5 DEF IInv, OneSave, LoneSave, LoneSaved, Saves, Saved
      <3>2. CASE x = a /\ Saves(r)
        BY <2>2, <2>3, <2>4, <3>2, <1>2, <1>5 DEF IInv, OneSave, LoneSave, LoneSaved, Saves, Saved
      <3> QED BY <2>2, <2>7, <3>1, <3>2
    <2>8. \A t \in Tokens : Clean(t)' /\ editors'[t].releaseStarted => editors'[t].busy
      BY <2>3, <1>2 DEF IInv, OneSave
    <2> QED BY <2>5, <2>6, <2>7, <2>8 DEF OneSave, LoneSave, LoneSaved
  <1>Contents. Contents'
    BY <1>1, <1>2, <1>3, <1>4, <1>5, <1>6 DEF IInv, Kinds, Contents, Holds, Added
  <1>OneTake. OneTake'
    BY <1>1, <1>2, <1>3, <1>4, <1>5, <1>6 DEF IInv, Kinds, OneTake, Added
  <1>Returning. Returning'
    BY <1>1, <1>2, <1>3, <1>4, <1>5, <1>6 DEF IInv, Kinds, Returning, Holds,
       ReleaseFailed, Added
  <1>Locked. Locked'
    BY <1>1, <1>2, <1>3, <1>4, <1>5, <1>6 DEF IInv, Kinds, Locked, Releases,
       Holds, Added
  <1>LocksKept. LocksKept'
    BY <1>1, <1>2, <1>3, <1>4, <1>5, <1>6 DEF IInv, Kinds, LocksKept, Keeper, Holds,
       Added
  <1>BusyIsAwaited. BusyIsAwaited'
    BY <1>1, <1>2, <1>3, <1>4, <1>5, <1>6 DEF IInv, Kinds, BusyIsAwaited, Added
  <1> QED BY <1>Kinds, <1>Issued, <1>Coming, <1>Releasing, <1>OfWindow, <1>OneSave,
          <1>Contents, <1>OneTake, <1>Returning, <1>Locked, <1>LocksKept,
          <1>BusyIsAwaited DEF IInv

\* A release that is lost was seen to fail.
LEMMA DropKeeps ==
    ASSUME IInv, NEW r \in DOMAIN requests, Drop(r)
    PROVE  IInv'
  <1>1. UNCHANGED <<files, lock, content, issued, failed, strayed, hasty, pendingEditFile,
                   pendingEditLock, refused, editors, running, answers>>
    BY DEF Drop, server, client, pending, history
  <1>2. ~r.awaited /\ Removed(requests', requests, r) /\ r \in Requests
    BY BagRemoveRemoves DEF Drop, IInv, Kinds
  <1>Kinds. Kinds'
    BY <1>1, <1>2 DEF IInv, Kinds, Removed
  <1>Issued. Issued'
    BY <1>1, <1>2 DEF IInv, Kinds, Issued, Editing, Removed
  <1>Coming. Coming'
    BY <1>1, <1>2 DEF IInv, Kinds, Coming, GrantHeld, Used, Editing, Removed
  <1>Releasing. Releasing'
    BY <1>1, <1>2 DEF IInv, Kinds, Releasing, ReleaseFailed, Holds, Editing, Removed
  <1>OfWindow. OfWindow'
    BY <1>1, <1>2 DEF IInv, Kinds, OfWindow, Editing, Removed
  <1>OneSave. OneSave'
    BY <1>1, <1>2 DEF IInv, Kinds, OneSave, LoneSave, LoneSaved, Saves, Saved, Clean,
       Holds, ReleaseFailed, Removed
  <1>Contents. Contents'
    BY <1>1, <1>2 DEF IInv, Kinds, Contents, Holds, Removed
  <1>OneTake. OneTake'
    BY <1>1, <1>2 DEF IInv, Kinds, OneTake, Removed
  <1>Returning. Returning'
    BY <1>1, <1>2 DEF IInv, Kinds, Returning, Holds, ReleaseFailed, Removed
  <1>Locked. Locked'
    BY <1>1, <1>2 DEF IInv, Kinds, Locked, Releases, Holds, Removed
  <1>LocksKept. LocksKept'
    BY <1>1, <1>2 DEF IInv, Kinds, LocksKept, Keeper, Holds, Removed, Returning,
       ReleaseFailed
  <1>BusyIsAwaited. BusyIsAwaited'
    BY <1>1, <1>2 DEF IInv, Kinds, BusyIsAwaited, Removed
  <1> QED BY <1>Kinds, <1>Issued, <1>Coming, <1>Releasing, <1>OfWindow, <1>OneSave,
          <1>Contents, <1>OneTake, <1>Returning, <1>Locked, <1>LocksKept,
          <1>BusyIsAwaited DEF IInv

\* A file goes with its lock; only requests and answers about deletions come and go.
LEMMA RemoveKeeps ==
    ASSUME IInv, NEW f \in Files, Remove(f),
           UNCHANGED <<issued, content, failed, strayed, hasty, pendingEditFile,
                       pendingEditLock, refused, editors, running>>,
           /\ DOMAIN requests' \subseteq DOMAIN requests
           /\ \A x \in DOMAIN requests :
                 x.op # "delete" => x \in DOMAIN requests' /\ requests'[x] = requests[x],
           /\ \A x \in DOMAIN answers' :
                 \/ x.op = "delete" /\ x \in Replies /\ x.token <= issued
                 \/ x.op # "delete" /\ x \in DOMAIN answers /\ answers'[x] = answers[x]
           /\ DOMAIN answers \subseteq DOMAIN answers'
    PROVE  IInv'
  <1>1. UNCHANGED <<issued, content, failed, strayed, hasty, pendingEditFile,
                   pendingEditLock, refused, editors, running>>
    OBVIOUS
  <1>2. /\ files' \subseteq files /\ f \notin files'
        /\ lock' \in [Files -> Nat \cup {Other}]
        /\ \A g \in Files : lock'[g] = IF g = f THEN 0 ELSE lock[g]
        /\ Tokens \subseteq Nat \ {0}
    BY BoundsAssumption DEF Remove, IInv, Kinds, Tokens
  <1>3. /\ \A x \in DOMAIN requests' : x \in DOMAIN requests
        /\ \A x \in DOMAIN requests' : x.op # "delete" => requests'[x] = requests[x]
        /\ \A x \in DOMAIN requests : x.op # "delete" => x \in DOMAIN requests'
    OBVIOUS
  <1>4. /\ \A x \in DOMAIN answers' :
              x.op # "delete" => x \in DOMAIN answers /\ answers'[x] = answers[x]
        /\ \A x \in DOMAIN answers' : x.op = "delete" => x \in Replies /\ x.token <= issued
        /\ \A x \in DOMAIN answers : x \in DOMAIN answers'
        /\ "delete" \notin Editing
    BY DEF Editing
  <1>Kinds. Kinds'
    <2>1. DOMAIN answers' \subseteq Replies
      BY <1>4 DEF IInv, Kinds
    <2> QED BY <1>1, <1>2, <1>3, <2>1 DEF IInv, Kinds
  <1>Issued. Issued'
    <2>1. /\ \A g \in Files : lock'[g] \in Nat => lock'[g] <= issued
          /\ \A g, h \in Files : lock'[g] = lock'[h] /\ lock'[g] \in Nat \ {0} => g = h
      BY <1>2 DEF IInv, Kinds, Issued
    <2>2. \A x \in DOMAIN answers' : x.token <= issued /\ (x.op \in Editing => x.token > 0)
      BY <1>4 DEF IInv, Issued
    <2> QED BY <1>1, <1>3, <2>1, <2>2 DEF IInv, Issued
  <1>Coming. Coming'
    <2>1. \A x : Used(x)' => Used(x)
      BY <1>1, <1>3, <1>4 DEF Used
    <2>2. \A x \in DOMAIN answers' : x.op = "acquire" /\ GrantHeld(x) => GrantHeld(x)'
      BY <1>1, <1>2, <1>4, <2>1 DEF IInv, Kinds, GrantHeld
    <2> QED BY <1>1, <1>2, <1>4, <2>1, <2>2 DEF IInv, Kinds, Coming
  <1>Releasing. Releasing'
    <2>1. \A x \in DOMAIN answers : x.op = "release" => x.token # 0
      BY DEF IInv, Kinds, Issued, Editing, Replies
    <2> QED BY <1>1, <1>2, <1>3, <1>4, <2>1 DEF IInv, Releasing, ReleaseFailed, Holds
  <1>OfWindow. OfWindow'
    BY <1>1, <1>3, <1>4 DEF IInv, OfWindow
  <1>OneSave. OneSave'
    <2>1. \A u : Clean(u)' <=> Clean(u)
      BY <1>1 DEF Clean, Holds, ReleaseFailed
    <2>2. \A x \in DOMAIN requests' : Saves(x)' => Saves(x) /\ requests'[x] = requests[x]
      BY <1>3 DEF Saves
    <2>3. \A x \in DOMAIN answers' : Saved(x)' => Saved(x) /\ answers'[x] = answers[x]
      BY <1>4 DEF Saved
    <2>4. \A x \in DOMAIN requests' : Saves(x)' => LoneSave(x)'
      BY <2>1, <2>2, <2>3, <1>1, <1>3 DEF IInv, OneSave, LoneSave, Saves, Saved
    <2>5. \A x \in DOMAIN answers' : Saved(x)' => LoneSaved(x)'
      BY <2>1, <2>3, <1>1 DEF IInv, OneSave, LoneSaved, Saved
    <2>6. \A u \in Tokens : Clean(u)' /\ editors'[u].releaseStarted => editors'[u].busy
      BY <2>1, <1>1 DEF IInv, OneSave
    <2> QED BY <2>4, <2>5, <2>6 DEF OneSave
  <1>Contents. Contents'
    <2>1. \A g \in Files : lock'[g] # 0 => lock'[g] = lock[g]
      BY <1>2
    <2>2. ASSUME NEW x \in DOMAIN answers', x.op = "download", x.ok, x.token # 0,
                 lock'[x.file] = x.token
          PROVE  content'[x.file] \in {x.got, x.token} \cup strayed'
      BY <1>1, <1>4, <2>1, <2>2 DEF IInv, Kinds, Contents, Replies
    <2>3. ASSUME NEW t \in Tokens, Holds(t)', ~editors'[t].mixed, lock'[editors'[t].file] = t
          PROVE  content'[editors'[t].file] \in {editors'[t].base, t} \cup strayed'
      <3>1. Holds(t) /\ editors[t].file \in Files /\ t # 0
        BY <1>1, <1>2, <2>3 DEF IInv, OfWindow, Holds
      <3> QED BY <1>1, <2>1, <2>3, <3>1 DEF IInv, Contents
    <2> QED BY <2>2, <2>3 DEF Contents
  <1>OneTake. OneTake'
    BY <1>1, <1>3, <1>4 DEF IInv, OneTake
  <1>Returning. Returning'
    <2>1. \A t \in Tokens : (\A g \in Files : lock[g] # t) => \A g \in Files : lock'[g] # t
      BY <1>2
    <2> QED BY <1>1, <1>3, <2>1 DEF IInv, Returning, Holds, ReleaseFailed
  <1>Locked. Locked'
    BY <1>1, <1>2 DEF IInv, Kinds, Locked, Releases, Holds
  <1>LocksKept. LocksKept'
    <2>1. \A g \in Files : lock'[g] \in Tokens => lock'[g] = lock[g]
      BY <1>2
    <2>2. \A t : Keeper(t) => Keeper(t)'
      BY <1>1, <1>3, <1>4 DEF Keeper, Holds
    <2> QED BY <1>1, <2>1, <2>2 DEF IInv, LocksKept
  <1>BusyIsAwaited. BusyIsAwaited'
    BY <1>1, <1>3, <1>4 DEF IInv, BusyIsAwaited
  <1> QED BY <1>Kinds, <1>Issued, <1>Coming, <1>Releasing, <1>OfWindow, <1>OneSave,
          <1>Contents, <1>OneTake, <1>Returning, <1>Locked, <1>LocksKept,
          <1>BusyIsAwaited DEF IInv

\* The server removes a file; an open window keeps its token, which is worth nothing.
LEMMA ServeDeleteKeeps ==
    ASSUME IInv, NEW r \in DOMAIN requests, ServeDelete(r),
           UNCHANGED <<client, takes, extras, hasty>>
    PROVE  IInv'
  <1>1. /\ r \in Requests /\ r.op = "delete" /\ r.file \in Files
        /\ r.token \in Nat /\ r.token <= issued
    BY DEF IInv, Kinds, Issued, ServeDelete, Requests
  <1>2. UNCHANGED <<issued, content, failed, strayed, hasty, pendingEditFile,
                   pendingEditLock, refused, editors, running>>
    BY DEF ServeDelete, client, pending
  <1> DEFINE a == Reply(r, TRUE, 0)
  <1>3. /\ Removed(requests', requests, r)
        /\ IF r.awaited THEN Added(answers', answers, a) ELSE answers' = answers
    BY Served DEF ServeDelete
  <1>4. a.op = "delete" /\ a.token = r.token /\ a \in Replies
    BY <1>1 DEF Reply, Replies, Requests, Ops
  <1> HIDE DEF a
  <1>5. /\ DOMAIN requests' \subseteq DOMAIN requests
        /\ \A x \in DOMAIN requests :
              x.op # "delete" => x \in DOMAIN requests' /\ requests'[x] = requests[x]
    BY <1>1, <1>3 DEF Removed
  <1>6. \A x \in DOMAIN answers : x.op = "delete" => x \in Replies /\ x.token <= issued
    BY DEF IInv, Kinds, Issued
  <1>7. /\ \A x \in DOMAIN answers' :
              \/ x.op = "delete" /\ x \in Replies /\ x.token <= issued
              \/ x.op # "delete" /\ x \in DOMAIN answers /\ answers'[x] = answers[x]
        /\ DOMAIN answers \subseteq DOMAIN answers'
    BY <1>1, <1>3, <1>4, <1>6 DEF Added
  <1>8. Remove(r.file)
    BY DEF ServeDelete
  <1> QED BY <1>1, <1>2, <1>5, <1>7, <1>8, RemoveKeeps

\* Other clients touch only files that are free or theirs, or remove one.
LEMMA OtherClientsKeeps ==
    ASSUME IInv, NEW f \in Files, OtherClients(f)
    PROVE  IInv'
  <1>1. UNCHANGED <<issued, requests, answers, failed, strayed, hasty, pendingEditFile,
                   pendingEditLock, refused, editors, running>>
    BY DEF OtherClients, network, client, pending, history
  <1>2. CASE Remove(f) /\ UNCHANGED content
    <2>1. \A x \in DOMAIN answers' :
             \/ x.op = "delete" /\ x \in Replies /\ x.token <= issued
             \/ x.op # "delete" /\ x \in DOMAIN answers /\ answers'[x] = answers[x]
      BY <1>1 DEF IInv, Kinds, Issued
    <2> QED BY <1>1, <1>2, <2>1, RemoveKeeps
  <1>3. CASE /\ \/ lock[f] = 0 /\ lock' = [lock EXCEPT ![f] = Other] /\ UNCHANGED content
                \/ lock[f] = Other /\ content' = [content EXCEPT ![f] = Other] /\ UNCHANGED lock
                \/ lock[f] = Other /\ lock' = [lock EXCEPT ![f] = 0] /\ UNCHANGED content
             /\ UNCHANGED files
    <2>1. UNCHANGED <<files, issued, requests, answers, failed, strayed, hasty, pendingEditFile,
                     pendingEditLock, refused, editors, running>>
      BY <1>1, <1>3
    <2>2. /\ \A g \in Files : \A n \in Nat \ {0} : lock'[g] = n <=> lock[g] = n
          /\ \A g \in Files :
                lock'[g] \in Nat \ {0} => lock'[g] = lock[g] /\ content'[g] = content[g]
          /\ Tokens \subseteq Nat \ {0}
          /\ lock' \in [Files -> Nat \cup {Other}] /\ content' \in [Files -> Nat \cup {Other}]
      BY <1>3, NamesAssumption, BoundsAssumption DEF IInv, Kinds, Tokens
    <2>Kinds. Kinds'
      BY <2>1, <2>2 DEF IInv, Kinds
    <2>Issued. Issued'
      BY <2>1, <2>2 DEF IInv, Kinds, Issued, Editing
    <2>Coming. Coming'
      <3>1. \A x \in DOMAIN answers : GrantHeld(x) => GrantHeld(x)'
        BY <2>1, <2>2 DEF IInv, Kinds, Replies, GrantHeld, Used
      <3>2. \A x : Used(x)' => Used(x)
        BY <2>1 DEF Used
      <3> QED BY <2>1, <2>2, <3>1, <3>2 DEF IInv, Kinds, Coming
    <2>Releasing. Releasing'
      BY <2>1, <2>2 DEF IInv, Kinds, Releasing, ReleaseFailed, Holds, Editing, Issued,
         Replies
    <2>OfWindow. OfWindow'
      BY <2>1, <2>2 DEF IInv, Kinds, OfWindow, Editing
    <2>OneSave. OneSave'
      BY <2>1, <2>2 DEF IInv, Kinds, OneSave, LoneSave, LoneSaved, Saves, Saved, Clean,
         Holds, ReleaseFailed
    <2>Contents. Contents'
      BY <2>1, <2>2 DEF IInv, Kinds, Contents, Holds, Issued, Replies, OfWindow
    <2>OneTake. OneTake'
      BY <2>1, <2>2 DEF IInv, Kinds, OneTake
    <2>Returning. Returning'
      BY <2>1, <2>2 DEF IInv, Kinds, Returning, Holds, ReleaseFailed
    <2>Locked. Locked'
      BY <2>1, <2>2 DEF IInv, Kinds, Locked, Releases, Holds, OfWindow
    <2>LocksKept. LocksKept'
      BY <2>1, <2>2 DEF IInv, Kinds, LocksKept, Keeper, Holds
    <2>BusyIsAwaited. BusyIsAwaited'
      BY <2>1, <2>2 DEF IInv, Kinds, BusyIsAwaited
    <2> QED BY <2>Kinds, <2>Issued, <2>Coming, <2>Releasing, <2>OfWindow, <2>OneSave,
            <2>Contents, <2>OneTake, <2>Returning, <2>Locked, <2>LocksKept,
            <2>BusyIsAwaited DEF IInv
  <1> QED BY <1>2, <1>3 DEF OtherClients

-----------------------------------------------------------------------------
(* The user.                                                               *)

\* "Take edit" begins without a lock; while another one is pending it is hasty.
LEMMA OpenSelectedForEditKeeps ==
    ASSUME IInv, NEW f \in Files, OpenSelectedForEdit(f)
    PROVE  IInv'
  <1>1. /\ UNCHANGED <<files, lock, content, issued, failed, strayed, refused, editors, running>>
        /\ pendingEditFile' = f /\ pendingEditLock' = 0
        /\ ~hasty' => ~hasty /\ pendingEditFile = NoFile
    BY DEF OpenSelectedForEdit, server
  <1> DEFINE q == Request("acquire", f, 0)
  <1>2. Added(requests', requests, q) /\ answers' = answers
    BY BagAddAdds DEF OpenSelectedForEdit, Ask
  <1>3. /\ q.op = "acquire" /\ q.file = f /\ q.token = 0 /\ q.awaited = TRUE
        /\ q \in Requests
    BY DEF Request, Requests, Ops
  <1> HIDE DEF q
  <1>Kinds. Kinds'
    BY <1>1, <1>2, <1>3, NamesAssumption DEF IInv, Kinds, Added
  <1>Issued. Issued'
    BY <1>1, <1>2, <1>3, NamesAssumption DEF IInv, Kinds, Issued, Editing, Added
  <1>Coming. Coming'
    BY <1>1, <1>2, <1>3, NamesAssumption DEF IInv, Kinds, Coming, GrantHeld, Used,
       Editing, Added
  <1>Releasing. Releasing'
    BY <1>1, <1>2, <1>3, NamesAssumption DEF IInv, Kinds, Releasing, ReleaseFailed,
       Holds, Editing, Added
  <1>OfWindow. OfWindow'
    BY <1>1, <1>2, <1>3, NamesAssumption DEF IInv, Kinds, OfWindow, Editing, Added
  <1>OneSave. OneSave'
    BY <1>1, <1>2, <1>3, NamesAssumption DEF IInv, Kinds, OneSave, LoneSave, LoneSaved,
       Saves, Saved, Clean, Holds, ReleaseFailed, Added
  <1>Contents. Contents'
    BY <1>1, <1>2, <1>3, NamesAssumption DEF IInv, Kinds, Contents, Holds, Added
  <1>OneTake. OneTake'
    BY <1>1, <1>2, <1>3, NamesAssumption DEF IInv, Kinds, OneTake, Added, Requests,
       Replies
  <1>Returning. Returning'
    BY <1>1, <1>2, <1>3, NamesAssumption DEF IInv, Kinds, Returning, Holds,
       ReleaseFailed, Added
  <1>Locked. Locked'
    BY <1>1, <1>2, <1>3, NamesAssumption DEF IInv, Kinds, Locked, Releases,
       Holds, Added
  <1>LocksKept. LocksKept'
    BY <1>1, <1>2, <1>3, NamesAssumption, BoundsAssumption DEF IInv, Kinds, LocksKept,
       Keeper, Holds, Added, OneTake, Tokens
  <1>BusyIsAwaited. BusyIsAwaited'
    BY <1>1, <1>2, <1>3, NamesAssumption DEF IInv, Kinds, BusyIsAwaited, Added
  <1> QED BY <1>Kinds, <1>Issued, <1>Coming, <1>Releasing, <1>OfWindow, <1>OneSave,
          <1>Contents, <1>OneTake, <1>Returning, <1>Locked, <1>LocksKept,
          <1>BusyIsAwaited DEF IInv

\* A read-only download carries no token.
LEMMA OpenSelectedReadOnlyKeeps ==
    ASSUME IInv, NEW f \in Files, OpenSelectedReadOnly(f)
    PROVE  IInv'
  <1>1. UNCHANGED <<files, lock, content, issued, failed, strayed, hasty, pendingEditFile,
                   pendingEditLock, refused, editors, running>>
    BY DEF OpenSelectedReadOnly, server, history
  <1> DEFINE q == Request("download", f, 0)
  <1>2. Added(requests', requests, q) /\ answers' = answers
    BY BagAddAdds DEF OpenSelectedReadOnly, Ask
  <1>3. /\ q.op = "download" /\ q.file = f /\ q.token = 0 /\ q.awaited = TRUE
        /\ q \in Requests
    BY DEF Request, Requests, Ops
  <1> HIDE DEF q
  <1>Kinds. Kinds'
    BY <1>1, <1>2, <1>3 DEF IInv, Kinds, Added
  <1>Issued. Issued'
    BY <1>1, <1>2, <1>3 DEF IInv, Kinds, Issued, Editing, Added
  <1>Coming. Coming'
    BY <1>1, <1>2, <1>3 DEF IInv, Kinds, Coming, GrantHeld, Used, Editing, Added
  <1>Releasing. Releasing'
    BY <1>1, <1>2, <1>3 DEF IInv, Kinds, Releasing, ReleaseFailed, Holds, Editing, Added
  <1>OfWindow. OfWindow'
    BY <1>1, <1>2, <1>3 DEF IInv, Kinds, OfWindow, Editing, Added
  <1>OneSave. OneSave'
    BY <1>1, <1>2, <1>3 DEF IInv, Kinds, OneSave, LoneSave, LoneSaved, Saves, Saved,
       Clean, Holds, ReleaseFailed, Added
  <1>Contents. Contents'
    BY <1>1, <1>2, <1>3 DEF IInv, Kinds, Contents, Holds, Added
  <1>OneTake. OneTake'
    BY <1>1, <1>2, <1>3 DEF IInv, Kinds, OneTake, Added
  <1>Returning. Returning'
    BY <1>1, <1>2, <1>3 DEF IInv, Kinds, Returning, Holds, ReleaseFailed, Added
  <1>Locked. Locked'
    BY <1>1, <1>2, <1>3 DEF IInv, Kinds, Locked, Releases, Holds, Added
  <1>LocksKept. LocksKept'
    BY <1>1, <1>2, <1>3 DEF IInv, Kinds, LocksKept, Keeper, Holds, Added
  <1>BusyIsAwaited. BusyIsAwaited'
    BY <1>1, <1>2, <1>3 DEF IInv, Kinds, BusyIsAwaited, Added
  <1> QED BY <1>Kinds, <1>Issued, <1>Coming, <1>Releasing, <1>OfWindow, <1>OneSave,
          <1>Contents, <1>OneTake, <1>Returning, <1>Locked, <1>LocksKept,
          <1>BusyIsAwaited DEF IInv

\* A deletion carries no token, and its answer matters to nobody.
LEMMA DeleteFileKeeps ==
    ASSUME IInv, NEW f \in Files, DeleteFile(f)
    PROVE  IInv'
  <1>1. UNCHANGED <<files, lock, content, issued, failed, strayed, hasty, pendingEditFile,
                   pendingEditLock, refused, editors, running>>
    BY DEF DeleteFile, server, client, pending, history
  <1> DEFINE q == [Request("delete", f, 0) EXCEPT !.awaited = FALSE]
  <1>2. Added(requests', requests, q) /\ answers' = answers
    BY BagAddAdds DEF DeleteFile
  <1>3. /\ q.op = "delete" /\ q.file = f /\ q.token = 0 /\ q.awaited = FALSE
        /\ q \in Requests
    BY DEF Request, Requests, Ops
  <1> HIDE DEF q
  <1>Kinds. Kinds'
    BY <1>1, <1>2, <1>3 DEF IInv, Kinds, Added
  <1>Issued. Issued'
    BY <1>1, <1>2, <1>3 DEF IInv, Kinds, Issued, Editing, Added
  <1>Coming. Coming'
    BY <1>1, <1>2, <1>3 DEF IInv, Kinds, Coming, GrantHeld, Used, Editing, Added
  <1>Releasing. Releasing'
    BY <1>1, <1>2, <1>3 DEF IInv, Kinds, Releasing, ReleaseFailed, Holds, Editing, Added
  <1>OfWindow. OfWindow'
    BY <1>1, <1>2, <1>3 DEF IInv, Kinds, OfWindow, Editing, Added
  <1>OneSave. OneSave'
    BY <1>1, <1>2, <1>3 DEF IInv, Kinds, OneSave, LoneSave, LoneSaved, Saves, Saved,
       Clean, Holds, ReleaseFailed, Added
  <1>Contents. Contents'
    BY <1>1, <1>2, <1>3 DEF IInv, Kinds, Contents, Holds, Added
  <1>OneTake. OneTake'
    BY <1>1, <1>2, <1>3 DEF IInv, Kinds, OneTake, Added
  <1>Returning. Returning'
    BY <1>1, <1>2, <1>3 DEF IInv, Kinds, Returning, Holds, ReleaseFailed, Added
  <1>Locked. Locked'
    BY <1>1, <1>2, <1>3 DEF IInv, Kinds, Locked, Releases, Holds, Added
  <1>LocksKept. LocksKept'
    BY <1>1, <1>2, <1>3 DEF IInv, Kinds, LocksKept, Keeper, Holds, Added
  <1>BusyIsAwaited. BusyIsAwaited'
    BY <1>1, <1>2, <1>3 DEF IInv, Kinds, BusyIsAwaited, Added
  <1> QED BY <1>Kinds, <1>Issued, <1>Coming, <1>Releasing, <1>OfWindow, <1>OneSave,
          <1>Contents, <1>OneTake, <1>Returning, <1>Locked, <1>LocksKept,
          <1>BusyIsAwaited DEF IInv

\* A save finds no other one of its window under way.
LEMMA SaveKeeps ==
    ASSUME IInv, NEW t \in Tokens, Save(t)
    PROVE  IInv'
  <1>1. UNCHANGED <<files, lock, content, issued, failed, strayed, hasty, pendingEditFile,
                   pendingEditLock, refused, running>>
    BY DEF Save, server, client, pending, history
  <1> DEFINE q == Request("upload", editors[t].file, t)
  <1>2. Added(requests', requests, q) /\ answers' = answers
    BY BagAddAdds DEF Save, Ask
  <1>3. /\ editors[t].open /\ editors[t].lockToken /\ t \in Nat \ {0} /\ t <= issued
        /\ editors[t].file \in Files /\ editors[t] \in Editors
    BY BoundsAssumption DEF Save, Holds, IInv, Kinds, Issued, OfWindow, Tokens
  <1>4. /\ q.op = "upload" /\ q.file = editors[t].file /\ q.token = t /\ q.awaited = TRUE
        /\ q \in Requests
    BY <1>3 DEF Request, Requests, Ops
  <1>5. /\ editors'[t].busy = TRUE /\ ~editors[t].busy
        /\ \A u \in Tokens : /\ editors'[u].releaseStarted = editors[u].releaseStarted
                             /\ editors'[u].renewTimer = editors[u].renewTimer
        /\ \A u \in Tokens :
              /\ editors'[u].open = editors[u].open /\ editors'[u].file = editors[u].file
              /\ editors'[u].lockToken = editors[u].lockToken
              /\ editors'[u].base = editors[u].base /\ editors'[u].mixed = editors[u].mixed
              /\ editors'[u].woken = editors[u].woken
              /\ u # t => editors'[u] = editors[u]
        /\ editors' \in [Tokens -> Editors]
    BY <1>3 DEF Save, IInv, Kinds, Editors
  <1>6. /\ \A x \in DOMAIN requests : x.op = "upload" => x.token # t
        /\ \A x \in DOMAIN answers : x.op = "upload" => x.token # t
    BY DEF Save, NoneUnderWay
  <1> HIDE DEF q
  <1>Kinds. Kinds'
    BY <1>1, <1>2, <1>3, <1>4, <1>5, <1>6 DEF IInv, Kinds, Added
  <1>Issued. Issued'
    BY <1>1, <1>2, <1>3, <1>4, <1>5, <1>6 DEF IInv, Kinds, Issued, Editing, Added
  <1>Coming. Coming'
    <2>1. \A x : Used(x)' => Used(x) \/ x = t
      BY <1>1, <1>2, <1>4, <1>5 DEF Used, Added
    <2>2. Used(t)
      BY <1>3 DEF Used
    <2>3. \A x \in DOMAIN answers : GrantHeld(x) => GrantHeld(x)'
      BY <1>1, <1>2, <2>1, <2>2 DEF GrantHeld
    <2> QED BY <1>1, <1>2, <1>5, <2>1, <2>2, <2>3 DEF IInv, Coming
  <1>Releasing. Releasing'
    BY <1>1, <1>2, <1>3, <1>4, <1>5, <1>6 DEF IInv, Kinds, Releasing, ReleaseFailed,
       Holds, Editing, Added
  <1>OfWindow. OfWindow'
    BY <1>1, <1>2, <1>4, <1>5 DEF IInv, OfWindow, Editing, Added
  <1>OneSave. OneSave'
    <2>1. ASSUME NEW x \in DOMAIN requests', Saves(x)'
          PROVE  \/ Saves(x) /\ x # q /\ requests'[x] = requests[x] /\ x.token # t
                 \/ x = q /\ x.token = t /\ requests'[x] = 1
      BY <2>1, <1>2, <1>4, <1>6 DEF Saves, Added
    <2>2. \A u : Clean(u)' => Clean(u)
      BY <1>1, <1>5 DEF Clean, Holds, ReleaseFailed
    <2>3. \A x \in DOMAIN requests' : Saves(x)' =>
            /\ requests'[x] = 1
            /\ \A y \in DOMAIN requests' : Saves(y)' /\ y.token = x.token => y = x
      BY <2>1 DEF IInv, OneSave, LoneSave, LoneSaved, Saves
    <2>4. \A x \in DOMAIN requests' : Saves(x)' =>
             \A y \in DOMAIN answers' : Saved(y)' => y.token # x.token
      BY <2>1, <1>2, <1>6 DEF IInv, OneSave, LoneSave, LoneSaved, Saves, Saved
    <2>5. Clean(t)' => editors'[t].busy /\ ~editors'[t].releaseStarted
      BY <2>2, <1>5 DEF IInv, OneSave, LoneSave, LoneSaved
    <2>6. \A x \in DOMAIN requests' : Saves(x)' /\ Clean(x.token)' =>
             editors'[x.token].busy /\ ~editors'[x.token].releaseStarted
      BY <2>1, <2>2, <2>5, <1>5 DEF IInv, OneSave, LoneSave, LoneSaved, Saves, Clean
    <2>7. \A x \in DOMAIN answers' : Saved(x)' => LoneSaved(x)'
      BY <2>2, <1>2, <1>5, <1>6 DEF IInv, OneSave, LoneSave, LoneSaved, Saved, Clean
    <2>8. \A u \in Tokens : Clean(u)' /\ editors'[u].releaseStarted => editors'[u].busy
      BY <2>2, <1>5 DEF IInv, OneSave, LoneSave, LoneSaved
    <2> QED BY <2>3, <2>4, <2>6, <2>7, <2>8 DEF OneSave, LoneSave, LoneSaved
  <1>Contents. Contents'
    BY <1>1, <1>2, <1>3, <1>4, <1>5, <1>6 DEF IInv, Kinds, Contents, Holds, Added
  <1>OneTake. OneTake'
    BY <1>1, <1>2, <1>3, <1>4, <1>5, <1>6 DEF IInv, Kinds, OneTake, Added
  <1>Returning. Returning'
    BY <1>1, <1>2, <1>3, <1>4, <1>5, <1>6 DEF IInv, Kinds, Returning, Holds,
       ReleaseFailed, Added
  <1>Locked. Locked'
    BY <1>1, <1>2, <1>3, <1>4, <1>5, <1>6 DEF IInv, Kinds, Locked, Releases,
       Holds, Added
  <1>LocksKept. LocksKept'
    <2>1. \A u \in Tokens : Keeper(u) => Keeper(u)'
      BY <1>1, <1>2, <1>4, <1>5 DEF Keeper, Holds, Added
    <2> QED BY <1>1, <2>1 DEF IInv, LocksKept
  <1>BusyIsAwaited. BusyIsAwaited'
    BY <1>1, <1>2, <1>3, <1>4, <1>5, <1>6 DEF IInv, Kinds, BusyIsAwaited, Added
  <1> QED BY <1>Kinds, <1>Issued, <1>Coming, <1>Releasing, <1>OfWindow, <1>OneSave,
          <1>Contents, <1>OneTake, <1>Returning, <1>Locked, <1>LocksKept,
          <1>BusyIsAwaited DEF IInv

\* A release is not begun while a save is under way: the window is busy.
LEMMA ReleaseLockKeeps ==
    ASSUME IInv, NEW t \in Tokens, ReleaseLock(t)
    PROVE  IInv'
  <1>1. UNCHANGED <<files, lock, content, issued, failed, strayed, hasty, pendingEditFile,
                   pendingEditLock, refused, running>>
    BY DEF ReleaseLock, server, client, pending, history
  <1> DEFINE q == Request("release", editors[t].file, t)
  <1>2. Added(requests', requests, q) /\ answers' = answers
    BY BagAddAdds DEF ReleaseLock, Ask
  <1>3. /\ editors[t].open /\ editors[t].lockToken /\ t \in Nat \ {0} /\ t <= issued
        /\ editors[t].file \in Files /\ editors[t] \in Editors
    BY BoundsAssumption DEF ReleaseLock, Holds, IInv, Kinds, Issued, OfWindow, Tokens
  <1>4. /\ q.op = "release" /\ q.file = editors[t].file /\ q.token = t /\ q.awaited = TRUE
        /\ q \in Requests
    BY <1>3 DEF Request, Requests, Ops
  <1>5. /\ editors'[t].busy = TRUE /\ editors'[t].releaseStarted = TRUE
        /\ ~editors[t].busy /\ ~editors[t].releaseStarted
        /\ \A u \in Tokens :
              /\ editors'[u].open = editors[u].open /\ editors'[u].file = editors[u].file
              /\ editors'[u].lockToken = editors[u].lockToken
              /\ editors'[u].base = editors[u].base /\ editors'[u].mixed = editors[u].mixed
              /\ editors'[u].woken = editors[u].woken
              /\ u # t => editors'[u] = editors[u]
        /\ editors' \in [Tokens -> Editors]
    BY <1>3 DEF ReleaseLock, IInv, Kinds, Editors
  <1> HIDE DEF q
  <1>Kinds. Kinds'
    BY <1>1, <1>2, <1>3, <1>4, <1>5 DEF IInv, Kinds, Added
  <1>Issued. Issued'
    BY <1>1, <1>2, <1>3, <1>4, <1>5 DEF IInv, Kinds, Issued, Editing, Added
  <1>Coming. Coming'
    <2>1. \A x : Used(x)' => Used(x) \/ x = t
      BY <1>1, <1>2, <1>4, <1>5 DEF Used, Added
    <2>2. Used(t)
      BY <1>3 DEF Used
    <2>3. \A x \in DOMAIN answers : GrantHeld(x) => GrantHeld(x)'
      BY <1>1, <1>2, <2>1, <2>2 DEF GrantHeld
    <2> QED BY <1>1, <1>2, <1>5, <2>1, <2>2, <2>3 DEF IInv, Coming
  <1>Releasing. Releasing'
    BY <1>1, <1>2, <1>3, <1>4, <1>5 DEF IInv, Kinds, Releasing, ReleaseFailed, Holds,
       Editing, Added
  <1>OfWindow. OfWindow'
    BY <1>1, <1>2, <1>4, <1>5 DEF IInv, OfWindow, Editing, Added
  <1>OneSave. OneSave'
    <2>1. \A x \in DOMAIN requests' : Saves(x)' => Saves(x) /\ requests'[x] = requests[x]
      BY <1>2, <1>4 DEF Saves, Added
    <2>2. \A u : Clean(u)' => Clean(u)
      BY <1>1, <1>5 DEF Clean, Holds, ReleaseFailed
    <2>3. /\ \A x \in DOMAIN requests : Saves(x) /\ Clean(x.token) => x.token # t
          /\ \A x \in DOMAIN answers : Saved(x) /\ Clean(x.token) => x.token # t
      BY <1>5 DEF IInv, OneSave, LoneSave, LoneSaved
    <2>4. \A x \in DOMAIN requests' : Saves(x)' => LoneSave(x)'
      BY <2>1, <2>2, <2>3, <1>2, <1>5 DEF IInv, OneSave, LoneSave, LoneSaved, Saves,
         Saved, Clean
    <2>5. \A x \in DOMAIN answers' : Saved(x)' => LoneSaved(x)'
      BY <2>2, <2>3, <1>2, <1>5 DEF IInv, OneSave, LoneSave, LoneSaved, Saved, Clean
    <2>6. \A u \in Tokens : Clean(u)' /\ editors'[u].releaseStarted => editors'[u].busy
      BY <2>2, <1>5 DEF IInv, OneSave, LoneSave, LoneSaved
    <2> QED BY <2>4, <2>5, <2>6 DEF OneSave, LoneSave, LoneSaved
  <1>Contents. Contents'
    BY <1>1, <1>2, <1>3, <1>4, <1>5 DEF IInv, Kinds, Contents, Holds, Added
  <1>OneTake. OneTake'
    BY <1>1, <1>2, <1>3, <1>4, <1>5 DEF IInv, Kinds, OneTake, Added
  <1>Returning. Returning'
    BY <1>1, <1>2, <1>3, <1>4, <1>5 DEF IInv, Kinds, Returning, Holds, ReleaseFailed,
       Added
  <1>Locked. Locked'
    BY <1>1, <1>2, <1>3, <1>4, <1>5 DEF IInv, Kinds, Locked, Releases, Holds,
       Added
  <1>LocksKept. LocksKept'
    <2>1. \A u \in Tokens : Keeper(u) => Keeper(u)'
      BY <1>1, <1>2, <1>4, <1>5 DEF Keeper, Holds, Added
    <2> QED BY <1>1, <2>1 DEF IInv, LocksKept
  <1>BusyIsAwaited. BusyIsAwaited'
    BY <1>1, <1>2, <1>3, <1>4, <1>5 DEF IInv, Kinds, BusyIsAwaited, Added
  <1> QED BY <1>Kinds, <1>Issued, <1>Coming, <1>Releasing, <1>OfWindow, <1>OneSave,
          <1>Contents, <1>OneTake, <1>Returning, <1>Locked, <1>LocksKept,
          <1>BusyIsAwaited DEF IInv

\* A renewal carries the token of its window.
LEMMA RenewLockKeeps ==
    ASSUME IInv, NEW t \in Tokens, RenewLock(t)
    PROVE  IInv'
  <1>1. UNCHANGED <<files, lock, content, issued, failed, strayed, hasty, pendingEditFile,
                   pendingEditLock, refused, running, editors>>
    BY DEF RenewLock, server, client, pending, history
  <1> DEFINE q == Request("renew", editors[t].file, t)
  <1>2. Added(requests', requests, q) /\ answers' = answers
    BY BagAddAdds DEF RenewLock, Ask
  <1>3. /\ editors[t].open /\ editors[t].lockToken /\ t \in Nat \ {0} /\ t <= issued
        /\ editors[t].file \in Files /\ editors[t] \in Editors
    BY BoundsAssumption DEF RenewLock, Holds, IInv, Kinds, Issued, OfWindow, Tokens
  <1>4. /\ q.op = "renew" /\ q.file = editors[t].file /\ q.token = t /\ q.awaited = TRUE
        /\ q \in Requests
    BY <1>3 DEF Request, Requests, Ops
  <1> HIDE DEF q
  <1>Kinds. Kinds'
    BY <1>1, <1>2, <1>3, <1>4 DEF IInv, Kinds, Added
  <1>Issued. Issued'
    BY <1>1, <1>2, <1>3, <1>4 DEF IInv, Kinds, Issued, Editing, Added
  <1>Coming. Coming'
    BY <1>1, <1>2, <1>3, <1>4 DEF IInv, Kinds, Coming, GrantHeld, Used, Editing, Added
  <1>Releasing. Releasing'
    BY <1>1, <1>2, <1>3, <1>4 DEF IInv, Kinds, Releasing, ReleaseFailed, Holds,
       Editing, Added
  <1>OfWindow. OfWindow'
    BY <1>1, <1>2, <1>3, <1>4 DEF IInv, Kinds, OfWindow, Editing, Added
  <1>OneSave. OneSave'
    BY <1>1, <1>2, <1>3, <1>4 DEF IInv, Kinds, OneSave, LoneSave, LoneSaved, Saves,
       Saved, Clean, Holds, ReleaseFailed, Added
  <1>Contents. Contents'
    BY <1>1, <1>2, <1>3, <1>4 DEF IInv, Kinds, Contents, Holds, Added
  <1>OneTake. OneTake'
    BY <1>1, <1>2, <1>3, <1>4 DEF IInv, Kinds, OneTake, Added
  <1>Returning. Returning'
    BY <1>1, <1>2, <1>3, <1>4 DEF IInv, Kinds, Returning, Holds, ReleaseFailed, Added
  <1>Locked. Locked'
    BY <1>1, <1>2, <1>3, <1>4 DEF IInv, Kinds, Locked, Releases, Holds, Added
  <1>LocksKept. LocksKept'
    BY <1>1, <1>2, <1>3, <1>4 DEF IInv, Kinds, LocksKept, Keeper, Holds, Added
  <1>BusyIsAwaited. BusyIsAwaited'
    BY <1>1, <1>2, <1>3, <1>4 DEF IInv, Kinds, BusyIsAwaited, Added
  <1> QED BY <1>Kinds, <1>Issued, <1>Coming, <1>Releasing, <1>OfWindow, <1>OneSave,
          <1>Contents, <1>OneTake, <1>Returning, <1>Locked, <1>LocksKept,
          <1>BusyIsAwaited DEF IInv

\* The lock of a failed download passes from the message to a request.
LEMMA CloseMessageKeeps ==
    ASSUME IInv, NEW r \in refused, Ask(r.op, r.file, r.token), refused' = refused \ {r},
           UNCHANGED <<server, pending, editors, running, takes, extras, history>>
    PROVE  IInv'
  <1>1. UNCHANGED <<files, lock, content, issued, failed, strayed, hasty, pendingEditFile,
                   pendingEditLock, editors, running>>
    BY DEF server, pending, history
  <1> DEFINE q == Request(r.op, r.file, r.token)
  <1>2. Added(requests', requests, q) /\ answers' = answers
    BY BagAddAdds DEF Ask
  <1>3. /\ r.op = "release" /\ r.file \in Files /\ r.token \in Nat \ {0} /\ r.token <= issued
        /\ r.token \in Tokens => ~editors[r.token].open
    BY DEF IInv, Kinds, Issued, Requests, Coming
  <1>4. /\ q.op = "release" /\ q.file = r.file /\ q.token = r.token /\ q.awaited = TRUE
        /\ q \in Requests
    BY <1>3 DEF Request, Requests, Ops
  <1> HIDE DEF q
  <1>Kinds. Kinds'
    BY <1>1, <1>2, <1>3, <1>4 DEF IInv, Kinds, Added
  <1>Issued. Issued'
    BY <1>1, <1>2, <1>3, <1>4 DEF IInv, Kinds, Issued, Editing, Added
  <1>Coming. Coming'
    BY <1>1, <1>2, <1>3, <1>4 DEF IInv, Kinds, Coming, GrantHeld, Used, Editing, Added
  <1>Releasing. Releasing'
    BY <1>1, <1>2, <1>3, <1>4 DEF IInv, Kinds, Releasing, ReleaseFailed, Holds,
       Editing, Added
  <1>OfWindow. OfWindow'
    BY <1>1, <1>2, <1>3, <1>4 DEF IInv, Kinds, OfWindow, Editing, Added
  <1>OneSave. OneSave'
    BY <1>1, <1>2, <1>3, <1>4 DEF IInv, Kinds, OneSave, LoneSave, LoneSaved, Saves,
       Saved, Clean, Holds, ReleaseFailed, Added
  <1>Contents. Contents'
    BY <1>1, <1>2, <1>3, <1>4 DEF IInv, Kinds, Contents, Holds, Added
  <1>OneTake. OneTake'
    BY <1>1, <1>2, <1>3, <1>4 DEF IInv, Kinds, OneTake, Added
  <1>Returning. Returning'
    BY <1>1, <1>2, <1>3, <1>4 DEF IInv, Kinds, Returning, Holds, ReleaseFailed, Added
  <1>Locked. Locked'
    BY <1>1, <1>2, <1>3, <1>4 DEF IInv, Kinds, Locked, Releases, Holds, Added
  <1>LocksKept. LocksKept'
    BY <1>1, <1>2, <1>3, <1>4 DEF IInv, Kinds, LocksKept, Keeper, Holds, Added
  <1>BusyIsAwaited. BusyIsAwaited'
    BY <1>1, <1>2, <1>3, <1>4 DEF IInv, Kinds, BusyIsAwaited, Added
  <1> QED BY <1>Kinds, <1>Issued, <1>Coming, <1>Releasing, <1>OfWindow, <1>OneSave,
          <1>Contents, <1>OneTake, <1>Returning, <1>Locked, <1>LocksKept,
          <1>BusyIsAwaited DEF IInv

\* The lock of a closed window passes to a request, unless one is under way.
LEMMA CloseEventKeeps ==
    ASSUME IInv, NEW t \in Tokens, CloseEvent(t)
    PROVE  IInv'
  <1>1. UNCHANGED <<files, lock, content, issued, failed, strayed, hasty, pendingEditFile,
                   pendingEditLock, refused, running>>
    BY DEF CloseEvent, server, pending, history
  <1>2. /\ t \in Nat \ {0} /\ t <= issued /\ editors[t].open
        /\ editors[t].file \in Files /\ editors[t] \in Editors
    BY BoundsAssumption DEF CloseEvent, IInv, Kinds, Issued, OfWindow, Tokens
  <1>3. /\ \A u \in Tokens : IF u = t THEN ~editors'[u].open /\ ~editors'[u].lockToken
                                       ELSE editors'[u] = editors[u]
        /\ editors' \in [Tokens -> Editors]
    BY DEF CloseEvent, NoEditor, IInv, Kinds, Editors
  <1>4. CASE Releases(t)
    <2> DEFINE q == Request("release", editors[t].file, t)
    <2>1. Added(requests', requests, q) /\ answers' = answers
      BY <1>4, BagAddAdds DEF CloseEvent, Ask
    <2>2. /\ q.op = "release" /\ q.file = editors[t].file /\ q.token = t /\ q.awaited = TRUE
          /\ q \in Requests
      BY <1>2 DEF Request, Requests, Ops
    <2> HIDE DEF q
    <2>Kinds. Kinds'
      BY <1>1, <1>2, <1>3, <1>4, <2>1, <2>2 DEF IInv, Kinds, Added
    <2>Issued. Issued'
      BY <1>1, <1>2, <1>3, <1>4, <2>1, <2>2 DEF IInv, Kinds, Issued, Editing, Added
    <2>Coming. Coming'
      <3>1. \A x : Used(x)' => Used(x)
        BY <1>1, <1>2, <1>3, <2>1, <2>2 DEF Used, Added
      <3>2. \A x \in DOMAIN answers : GrantHeld(x) => GrantHeld(x)'
        BY <1>1, <2>1, <3>1 DEF GrantHeld
      <3> QED BY <1>1, <1>3, <2>1, <3>1, <3>2 DEF IInv, Coming
    <2>Releasing. Releasing'
      BY <1>1, <1>2, <1>3, <1>4, <2>1, <2>2 DEF IInv, Kinds, Releasing, ReleaseFailed,
         Holds, Editing, Added
    <2>OfWindow. OfWindow'
      BY <1>1, <1>3, <2>1, <2>2 DEF IInv, Kinds, OfWindow, Editing, Added
    <2>OneSave. OneSave'
      <3>1. \A u : Clean(u)' => Clean(u) /\ editors'[u] = editors[u]
        BY <1>1, <1>3 DEF Clean, Holds, ReleaseFailed
      <3>2. \A x \in DOMAIN requests' : Saves(x)' => Saves(x) /\ requests'[x] = requests[x]
        BY <2>1, <2>2 DEF Saves, Added
      <3>3. \A x \in DOMAIN answers' : Saved(x)' <=> Saved(x)
        BY <2>1 DEF Saved
      <3>4. \A u \in Tokens : Clean(u)' /\ editors'[u].releaseStarted => editors'[u].busy
        BY <3>1 DEF IInv, OneSave, LoneSave, LoneSaved
      <3>5. \A x \in DOMAIN requests' : Saves(x)' => LoneSave(x)'
        BY <3>1, <3>2, <3>3, <2>1 DEF IInv, OneSave, LoneSave, LoneSaved, Saves
      <3>6. \A x \in DOMAIN answers' : Saved(x)' => LoneSaved(x)'
        BY <3>1, <3>3, <2>1 DEF IInv, OneSave, LoneSave, LoneSaved
      <3> QED BY <3>4, <3>5, <3>6 DEF OneSave, LoneSave, LoneSaved
    <2>Contents. Contents'
      BY <1>1, <1>2, <1>3, <1>4, <2>1, <2>2 DEF IInv, Kinds, Contents, Holds, Added
    <2>OneTake. OneTake'
      BY <1>1, <1>2, <1>3, <1>4, <2>1, <2>2 DEF IInv, Kinds, OneTake, Added
    <2>Returning. Returning'
      BY <1>1, <1>2, <1>3, <1>4, <2>1, <2>2 DEF IInv, Kinds, Returning, Holds,
         ReleaseFailed, Added
    <2>Locked. Locked'
      BY <1>1, <1>2, <1>3, <1>4, <2>1, <2>2 DEF IInv, Kinds, Locked, Releases,
         Holds, Added
    <2>LocksKept. LocksKept'
      BY <1>1, <1>2, <1>3, <1>4, <2>1, <2>2 DEF IInv, Kinds, LocksKept, Keeper, Holds,
         Added
    <2>BusyIsAwaited. BusyIsAwaited'
      BY <1>1, <1>2, <1>3, <1>4, <2>1, <2>2 DEF IInv, Kinds, BusyIsAwaited, Added
    <2> QED BY <2>Kinds, <2>Issued, <2>Coming, <2>Releasing, <2>OfWindow, <2>OneSave,
            <2>Contents, <2>OneTake, <2>Returning, <2>Locked, <2>LocksKept,
            <2>BusyIsAwaited DEF IInv
  <1>5. CASE ~Releases(t)
    <2>1. requests' = requests /\ answers' = answers
      BY <1>5 DEF CloseEvent, network
    <2>Kinds. Kinds'
      BY <1>1, <1>2, <1>3, <1>5, <2>1 DEF IInv, Kinds
    <2>Issued. Issued'
      BY <1>1, <1>2, <1>3, <1>5, <2>1 DEF IInv, Kinds, Issued, Editing
    <2>Coming. Coming'
      BY <1>1, <1>2, <1>3, <1>5, <2>1 DEF IInv, Kinds, Coming, GrantHeld, Used, Editing
    <2>Releasing. Releasing'
      BY <1>1, <1>2, <1>3, <1>5, <2>1 DEF IInv, Kinds, Releasing, ReleaseFailed, Holds,
         Editing
    <2>OfWindow. OfWindow'
      BY <1>1, <1>2, <1>3, <1>5, <2>1 DEF IInv, Kinds, OfWindow, Editing
    <2>OneSave. OneSave'
      BY <1>1, <1>2, <1>3, <1>5, <2>1 DEF IInv, Kinds, OneSave, LoneSave, LoneSaved,
         Saves, Saved, Clean, Holds, ReleaseFailed
    <2>Contents. Contents'
      BY <1>1, <1>2, <1>3, <1>5, <2>1 DEF IInv, Kinds, Contents, Holds
    <2>OneTake. OneTake'
      BY <1>1, <1>2, <1>3, <1>5, <2>1 DEF IInv, Kinds, OneTake
    <2>Returning. Returning'
      BY <1>1, <1>2, <1>3, <1>5, <2>1 DEF IInv, Kinds, Returning, Holds, ReleaseFailed
    <2>Locked. Locked'
      BY <1>1, <1>2, <1>3, <1>5, <2>1 DEF IInv, Kinds, Locked, Releases, Holds
    <2>LocksKept. LocksKept'
      BY <1>1, <1>2, <1>3, <1>5, <2>1 DEF IInv, Kinds, LocksKept, Keeper, Holds,
         Returning, ReleaseFailed, Releases
    <2>BusyIsAwaited. BusyIsAwaited'
      BY <1>1, <1>2, <1>3, <1>5, <2>1 DEF IInv, Kinds, BusyIsAwaited
    <2> QED BY <2>Kinds, <2>Issued, <2>Coming, <2>Releasing, <2>OfWindow, <2>OneSave,
            <2>Contents, <2>OneTake, <2>Returning, <2>Locked, <2>LocksKept,
            <2>BusyIsAwaited DEF IInv
  <1> QED BY <1>4, <1>5

-----------------------------------------------------------------------------
(* The slots.                                                              *)

\* A granted lock passes from its answer to the pending edit.
LEMMA HandleLockAcquiredKeeps ==
    ASSUME IInv, NEW a \in DOMAIN answers, HandleLockAcquired(a)
    PROVE  IInv'
  <1>1. UNCHANGED <<files, lock, content, issued, failed, strayed, hasty, running, refused,
      editors>>
    BY DEF HandleLockAcquired, server, pending, history
  <1>2. Removed(answers', answers, a)
    BY BagRemoveRemoves DEF HandleLockAcquired, Take
  <1>3. a \in Replies /\ a.op = "acquire" /\ a.file \in Files /\ a.token \in Nat
    BY DEF HandleLockAcquired, IInv, Kinds, Replies
  <1>4. CASE pendingEditFile # a.file /\ UNCHANGED <<requests, pending>>
    <2>1. UNCHANGED <<requests, pendingEditFile, pendingEditLock>>
      BY <1>4 DEF pending
    <2>Kinds. Kinds'
      BY <1>1, <1>2, <1>3, <1>4, <2>1 DEF IInv, Kinds, Removed
    <2>Issued. Issued'
      BY <1>1, <1>2, <1>3, <1>4, <2>1 DEF IInv, Kinds, Issued, Editing, Removed
    <2>Coming. Coming'
      BY <1>1, <1>2, <1>3, <1>4, <2>1 DEF IInv, Kinds, Coming, GrantHeld, Used,
         Editing, Removed
    <2>Releasing. Releasing'
      BY <1>1, <1>2, <1>3, <1>4, <2>1 DEF IInv, Kinds, Releasing, ReleaseFailed, Holds,
         Editing, Removed
    <2>OfWindow. OfWindow'
      BY <1>1, <1>2, <1>3, <1>4, <2>1 DEF IInv, Kinds, OfWindow, Editing, Removed
    <2>OneSave. OneSave'
      BY <1>1, <1>2, <1>3, <1>4, <2>1 DEF IInv, Kinds, OneSave, LoneSave, LoneSaved,
         Saves, Saved, Clean, Holds, ReleaseFailed, Removed
    <2>Contents. Contents'
      BY <1>1, <1>2, <1>3, <1>4, <2>1 DEF IInv, Kinds, Contents, Holds, Removed
    <2>OneTake. OneTake'
      BY <1>1, <1>2, <1>3, <1>4, <2>1 DEF IInv, Kinds, OneTake, Removed
    <2>Returning. Returning'
      BY <1>1, <1>2, <1>3, <1>4, <2>1 DEF IInv, Kinds, Returning, Holds, ReleaseFailed,
         Removed
    <2>Locked. Locked'
      BY <1>1, <1>2, <1>3, <1>4, <2>1 DEF IInv, Kinds, Locked, Releases, Holds,
         Removed
    <2>LocksKept. LocksKept'
      BY <1>1, <1>2, <1>3, <1>4, <2>1 DEF IInv, Kinds, LocksKept, Keeper, Holds,
         Removed, OneTake
    <2>BusyIsAwaited. BusyIsAwaited'
      BY <1>1, <1>2, <1>3, <1>4, <2>1 DEF IInv, Kinds, BusyIsAwaited, Removed
    <2> QED BY <2>Kinds, <2>Issued, <2>Coming, <2>Releasing, <2>OfWindow, <2>OneSave,
            <2>Contents, <2>OneTake, <2>Returning, <2>Locked, <2>LocksKept,
            <2>BusyIsAwaited DEF IInv
  <1>5. CASE /\ pendingEditFile = a.file /\ ~a.ok
             /\ pendingEditFile' = NoFile /\ pendingEditLock' = 0
             /\ UNCHANGED <<requests, pendingReadOnlyFile>>
    <2>Kinds. Kinds'
      BY <1>1, <1>2, <1>3, <1>5 DEF IInv, Kinds, Removed
    <2>Issued. Issued'
      BY <1>1, <1>2, <1>3, <1>5 DEF IInv, Kinds, Issued, Editing, Removed
    <2>Coming. Coming'
      BY <1>1, <1>2, <1>3, <1>5 DEF IInv, Kinds, Coming, GrantHeld, Used, Editing,
         Removed
    <2>Releasing. Releasing'
      BY <1>1, <1>2, <1>3, <1>5 DEF IInv, Kinds, Releasing, ReleaseFailed, Holds,
         Editing, Removed
    <2>OfWindow. OfWindow'
      BY <1>1, <1>2, <1>3, <1>5 DEF IInv, Kinds, OfWindow, Editing, Removed
    <2>OneSave. OneSave'
      BY <1>1, <1>2, <1>3, <1>5 DEF IInv, Kinds, OneSave, LoneSave, LoneSaved, Saves,
         Saved, Clean, Holds, ReleaseFailed, Removed
    <2>Contents. Contents'
      BY <1>1, <1>2, <1>3, <1>5 DEF IInv, Kinds, Contents, Holds, Removed
    <2>OneTake. OneTake'
      BY <1>1, <1>2, <1>3, <1>5 DEF IInv, Kinds, OneTake, Removed
    <2>Returning. Returning'
      BY <1>1, <1>2, <1>3, <1>5 DEF IInv, Kinds, Returning, Holds, ReleaseFailed,
         Removed
    <2>Locked. Locked'
      BY <1>1, <1>2, <1>3, <1>5 DEF IInv, Kinds, Locked, Releases, Holds,
         Removed
    <2>LocksKept. LocksKept'
      BY <1>1, <1>2, <1>3, <1>5, BoundsAssumption DEF IInv, Kinds, LocksKept, Keeper,
         Holds, Removed, OneTake, Coming, Tokens
    <2>BusyIsAwaited. BusyIsAwaited'
      BY <1>1, <1>2, <1>3, <1>5 DEF IInv, Kinds, BusyIsAwaited, Removed
    <2> QED BY <2>Kinds, <2>Issued, <2>Coming, <2>Releasing, <2>OfWindow, <2>OneSave,
            <2>Contents, <2>OneTake, <2>Returning, <2>Locked, <2>LocksKept,
            <2>BusyIsAwaited DEF IInv
  <1>6. CASE /\ pendingEditFile = a.file /\ a.ok /\ pendingEditLock' = a.got
             /\ requests' = BagAdd(requests, Request("download", a.file, a.got))
             /\ UNCHANGED <<pendingEditFile, pendingReadOnlyFile>>
    <2> DEFINE q == Request("download", a.file, a.got)
    <2>1. Added(requests', requests, q)
      BY <1>6, BagAddAdds
    <2>2. GrantHeld(a)
      BY <1>3, <1>6 DEF IInv, Coming
    <2>3. /\ q.op = "download" /\ q.file = a.file /\ q.token = a.got /\ q \in Requests
      BY <1>3, <2>2 DEF Request, Requests, Ops, GrantHeld
    <2> HIDE DEF q
    <2>Kinds. Kinds'
      BY <1>1, <1>2, <1>3, <1>6, <2>1, <2>2, <2>3 DEF IInv, Kinds, Removed, Added,
         GrantHeld
    <2>Issued. Issued'
      BY <1>1, <1>2, <1>3, <1>6, <2>1, <2>2, <2>3 DEF IInv, Kinds, Issued, Editing,
         Removed, Added, GrantHeld
    <2>Coming. Coming'
      BY <1>1, <1>2, <1>3, <1>6, <2>1, <2>2, <2>3 DEF IInv, Kinds, Coming, GrantHeld,
         Used, Editing, Removed, Added, GrantHeld
    <2>Releasing. Releasing'
      BY <1>1, <1>2, <1>3, <1>6, <2>1, <2>2, <2>3 DEF IInv, Kinds, Releasing,
         ReleaseFailed, Holds, Editing, Removed, Added, GrantHeld
    <2>OfWindow. OfWindow'
      BY <1>1, <1>2, <1>3, <1>6, <2>1, <2>2, <2>3 DEF IInv, Kinds, OfWindow, Editing,
         Removed, Added, GrantHeld
    <2>OneSave. OneSave'
      BY <1>1, <1>2, <1>3, <1>6, <2>1, <2>2, <2>3 DEF IInv, Kinds, OneSave, LoneSave,
         LoneSaved, Saves, Saved, Clean, Holds, ReleaseFailed, Removed, Added, GrantHeld
    <2>Contents. Contents'
      BY <1>1, <1>2, <1>3, <1>6, <2>1, <2>2, <2>3 DEF IInv, Kinds, Contents, Holds,
         Removed, Added, GrantHeld
    <2>OneTake. OneTake'
      BY <1>1, <1>2, <1>3, <1>6, <2>1, <2>2, <2>3, NamesAssumption DEF IInv, Kinds,
         OneTake, Removed, Added, GrantHeld
    <2>Returning. Returning'
      BY <1>1, <1>2, <1>3, <1>6, <2>1, <2>2, <2>3 DEF IInv, Kinds, Returning, Holds,
         ReleaseFailed, Removed, Added, GrantHeld
    <2>Locked. Locked'
      BY <1>1, <1>2, <1>3, <1>6, <2>1, <2>2, <2>3 DEF IInv, Kinds, Locked,
         Releases, Holds, Removed, Added, GrantHeld
    <2>LocksKept. LocksKept'
      <3> SUFFICES ASSUME running', ~hasty', NEW f \in Files, lock'[f] \in Tokens,
          Keeper(lock[f])
                   PROVE  Keeper(lock[f])'
        BY <1>1 DEF IInv, LocksKept
      <3>1. pendingEditLock = 0 /\ \A x \in DOMAIN answers : x.op = "acquire" => x = a
        BY <1>1, <1>3 DEF IInv, OneTake
      <3>2. lock[f] # 0
        BY <1>1, BoundsAssumption DEF Tokens
      <3> QED BY <1>1, <1>6, <2>1, <3>1, <3>2 DEF Keeper, Holds, Added
    <2>BusyIsAwaited. BusyIsAwaited'
      BY <1>1, <1>2, <1>3, <1>6, <2>1, <2>2, <2>3 DEF IInv, Kinds, BusyIsAwaited,
         Removed, Added, GrantHeld
    <2> QED BY <2>Kinds, <2>Issued, <2>Coming, <2>Releasing, <2>OfWindow, <2>OneSave,
            <2>Contents, <2>OneTake, <2>Returning, <2>Locked, <2>LocksKept,
            <2>BusyIsAwaited DEF IInv
  <1> QED BY <1>4, <1>5, <1>6 DEF HandleLockAcquired

\* The pending lock passes to the window, or to the message of a failure.
LEMMA HandleEditDownloadedKeeps ==
    ASSUME IInv, NEW a \in DOMAIN answers, HandleEditDownloaded(a)
    PROVE  IInv'
  <1>1. UNCHANGED <<files, lock, content, issued, failed, strayed, hasty, running, requests>>
    BY DEF HandleEditDownloaded, server, pending, history
  <1>2. Removed(answers', answers, a)
    BY BagRemoveRemoves DEF HandleEditDownloaded, Take
  <1>3. a \in Replies /\ a.op = "download" /\ a.file \in Files /\ a.token \in Nat
    BY DEF HandleEditDownloaded, IInv, Kinds, Replies
  <1>4. /\ a.file = pendingEditFile /\ pendingEditLock \in Nat \ {0} /\ pendingEditFile \in Files
        /\ a.file \in files => lock[a.file] = pendingEditLock
        /\ ~Used(pendingEditLock)
        /\ pendingEditFile' = NoFile /\ pendingEditLock' = 0
    BY DEF HandleEditDownloaded, EditFor, IInv, Kinds, Coming
  <1>5. CASE /\ a.ok /\ UNCHANGED refused
             /\ editors' = [editors EXCEPT ![pendingEditLock] =
                  [NoEditor EXCEPT !.open = TRUE, !.file = a.file, !.lockToken = TRUE,
                                   !.renewTimer = TRUE, !.base = a.got,
                                   !.mixed = (a.token # pendingEditLock)]]
    <2> DEFINE e == [NoEditor EXCEPT !.open = TRUE, !.file = a.file, !.lockToken = TRUE,
                                     !.renewTimer = TRUE, !.base = a.got,
                                     !.mixed = (a.token # pendingEditLock)]
    <2>1. /\ e.open = TRUE /\ e.file = a.file /\ e.lockToken = TRUE /\ e.renewTimer = TRUE
          /\ e.base = a.got /\ e.releaseStarted = FALSE /\ e.busy = FALSE
          /\ e.woken = FALSE /\ (~e.mixed => a.token = pendingEditLock)
          /\ e \in Editors
      BY <1>3 DEF NoEditor, Editors, Replies
    <2>2. /\ \A u \in Tokens : editors'[u] = IF u = pendingEditLock THEN e ELSE editors[u]
          /\ editors' \in [Tokens -> Editors]
      BY <1>5, <2>1 DEF IInv, Kinds
    <2>3. /\ \A x \in DOMAIN requests : x.op \in Editing => x.token # pendingEditLock
          /\ \A x \in DOMAIN answers : x.op \in Editing => x.token # pendingEditLock
          /\ \A x \in refused : x.token # pendingEditLock
          /\ "release" \in Editing /\ "upload" \in Editing /\ "renew" \in Editing
      BY <1>4 DEF Used, Editing
    <2> HIDE DEF e
    <2>Kinds. Kinds'
      BY <1>1, <1>2, <1>3, <1>4, <1>5, <2>1, <2>2, <2>3 DEF IInv, Kinds, Removed
    <2>Issued. Issued'
      BY <1>1, <1>2, <1>3, <1>4, <1>5, <2>1, <2>2, <2>3 DEF IInv, Kinds, Issued,
         Editing, Removed
    <2>Coming. Coming'
      BY <1>1, <1>2, <1>3, <1>4, <1>5, <2>1, <2>2, <2>3 DEF IInv, Kinds, Coming,
         GrantHeld, Used, Editing, Removed
    <2>Releasing. Releasing'
      BY <1>1, <1>2, <1>3, <1>4, <1>5, <2>1, <2>2, <2>3 DEF IInv, Kinds, Releasing,
         ReleaseFailed, Holds, Removed
    <2>OfWindow. OfWindow'
      BY <1>1, <1>2, <1>3, <1>4, <1>5, <2>1, <2>2, <2>3 DEF IInv, Kinds, OfWindow,
         Removed
    <2>OneSave. OneSave'
      <3>1. \A u : Clean(u)' /\ u # pendingEditLock => Clean(u) /\ editors'[u] = editors[u]
        BY <1>1, <2>2 DEF Clean, Holds, ReleaseFailed
      <3>2. \A x \in DOMAIN answers' : Saved(x)' => Saved(x) /\ answers'[x] = answers[x]
        BY <1>2, <1>3 DEF Saved, Removed
      <3>3. \A x \in DOMAIN requests' : Saves(x)' => Saves(x) /\ requests'[x] = requests[x]
        BY <1>1 DEF Saves
      <3>4. \A u \in Tokens : Clean(u)' /\ editors'[u].releaseStarted => editors'[u].busy
        BY <3>1, <2>1, <2>2 DEF IInv, OneSave, LoneSave, LoneSaved
      <3>5. \A x \in DOMAIN requests' : Saves(x)' => LoneSave(x)'
        BY <3>1, <3>2, <3>3, <2>3, <1>1 DEF IInv, OneSave, LoneSave, LoneSaved, Saves,
           Saved
      <3>6. \A x \in DOMAIN answers' : Saved(x)' => LoneSaved(x)'
        BY <3>1, <3>2, <2>3 DEF IInv, OneSave, LoneSave, LoneSaved, Saved
      <3> QED BY <3>4, <3>5, <3>6 DEF OneSave, LoneSave, LoneSaved
    <2>Contents. Contents'
      <3>1. \A x \in DOMAIN answers' : x \in DOMAIN answers
        BY <1>2 DEF Removed
      <3>2. ASSUME NEW u \in Tokens, Holds(u)', ~editors'[u].mixed,
          lock'[editors'[u].file] = u
            PROVE  content'[editors'[u].file] \in {editors'[u].base, u} \cup strayed'
        <4>1. CASE u = pendingEditLock
          <5>1. ~e.mixed /\ editors'[u].base = a.got /\ editors'[u].file = a.file
            BY <3>2, <4>1, <2>1, <2>2
          <5>2. a.token = u /\ u # 0
            BY <5>1, <4>1, <2>1, <1>4
          <5>3. content[a.file] \in {a.got, a.token} \cup strayed
            BY <5>1, <5>2, <4>1, <3>2, <1>1, <1>3, <1>5 DEF IInv, Contents
          <5> QED BY <5>1, <5>2, <5>3, <1>1
        <4>2. CASE u # pendingEditLock
          BY <3>2, <4>2, <2>2, <1>1 DEF IInv, Contents, Holds
        <4> QED BY <4>1, <4>2
      <3> QED BY <3>1, <3>2, <1>1 DEF IInv, Contents
    <2>OneTake. OneTake'
      BY <1>1, <1>2, <1>3, <1>4, <1>5, <2>1, <2>2, <2>3 DEF IInv, Kinds, OneTake,
         Removed
    <2>Returning. Returning'
      BY <1>1, <1>2, <1>3, <1>4, <1>5, <2>1, <2>2, <2>3 DEF IInv, Kinds, Returning,
         Holds, ReleaseFailed, Removed
    <2>Locked. Locked'
      BY <1>1, <1>2, <1>3, <1>4, <1>5, <2>1, <2>2, <2>3 DEF IInv, Kinds,
         Locked, Releases, Holds, Removed
    <2>LocksKept. LocksKept'
      BY <1>1, <1>2, <1>3, <1>4, <1>5, <2>1, <2>2, <2>3 DEF IInv, Kinds, LocksKept,
         Keeper, Holds, Removed
    <2>BusyIsAwaited. BusyIsAwaited'
      <3>1. \A u \in Tokens : editors'[u].open /\ editors'[u].busy =>
               editors[u].open /\ editors[u].busy
        BY <2>1, <2>2
      <3>2. \A x \in DOMAIN answers : x.op \in {"upload",
          "release"} => x \in DOMAIN answers'
        BY <1>2, <1>3 DEF Removed
      <3> QED BY <1>1, <3>1, <3>2 DEF IInv, BusyIsAwaited
    <2> QED BY <2>Kinds, <2>Issued, <2>Coming, <2>Releasing, <2>OfWindow, <2>OneSave,
            <2>Contents, <2>OneTake, <2>Returning, <2>Locked, <2>LocksKept,
            <2>BusyIsAwaited DEF IInv
  <1>6. CASE /\ ~a.ok /\ UNCHANGED editors
             /\ refused' = refused \cup {Request("release", a.file, pendingEditLock)}
    <2> DEFINE q == Request("release", a.file, pendingEditLock)
    <2>1. refused' = refused \cup {q}
      BY <1>6
    <2>2. q.op = "release" /\ q.file = a.file /\ q.token = pendingEditLock /\ q \in Requests
      BY <1>3, <1>4 DEF Request, Requests, Ops
    <2> HIDE DEF q
    <2>Kinds. Kinds'
      BY <1>1, <1>2, <1>3, <1>4, <1>6, <2>1, <2>2 DEF IInv, Kinds, Removed
    <2>Issued. Issued'
      BY <1>1, <1>2, <1>3, <1>4, <1>6, <2>1, <2>2 DEF IInv, Kinds, Issued, Editing,
         Removed
    <2>Coming. Coming'
      BY <1>1, <1>2, <1>3, <1>4, <1>6, <2>1, <2>2 DEF IInv, Kinds, Coming, GrantHeld,
         Used, Editing, Removed
    <2>Releasing. Releasing'
      BY <1>1, <1>2, <1>3, <1>4, <1>6, <2>1, <2>2 DEF IInv, Kinds, Releasing,
         ReleaseFailed, Holds, Editing, Removed
    <2>OfWindow. OfWindow'
      BY <1>1, <1>2, <1>3, <1>4, <1>6, <2>1, <2>2 DEF IInv, Kinds, OfWindow, Editing,
         Removed
    <2>OneSave. OneSave'
      <3>1. \A u : Clean(u)' <=> Clean(u)
        BY <1>1, <1>6 DEF Clean, Holds, ReleaseFailed
      <3>2. \A x \in DOMAIN answers' : Saved(x)' => Saved(x) /\ answers'[x] = answers[x]
        BY <1>2, <1>3 DEF Saved, Removed
      <3>3. \A x \in DOMAIN requests' : Saves(x)' <=> Saves(x)
        BY <1>1 DEF Saves
      <3>4. \A x \in DOMAIN requests' : Saves(x)' => LoneSave(x)'
        BY <3>1, <3>2, <3>3, <1>1, <1>6 DEF IInv, OneSave, LoneSave, LoneSaved, Saves,
           Saved
      <3>5. \A x \in DOMAIN answers' : Saved(x)' => LoneSaved(x)'
        BY <3>1, <3>2, <1>6 DEF IInv, OneSave, LoneSave, LoneSaved, Saved
      <3> QED BY <3>1, <3>4, <3>5, <1>6 DEF IInv, OneSave, LoneSave, LoneSaved
    <2>Contents. Contents'
      BY <1>1, <1>2, <1>3, <1>4, <1>6, <2>1, <2>2 DEF IInv, Kinds, Contents, Holds,
         Removed
    <2>OneTake. OneTake'
      BY <1>1, <1>2, <1>3, <1>4, <1>6, <2>1, <2>2 DEF IInv, Kinds, OneTake, Removed
    <2>Returning. Returning'
      BY <1>1, <1>2, <1>3, <1>4, <1>6, <2>1, <2>2 DEF IInv, Kinds, Returning, Holds,
         ReleaseFailed, Removed
    <2>Locked. Locked'
      BY <1>1, <1>2, <1>3, <1>4, <1>6, <2>1, <2>2 DEF IInv, Kinds, Locked,
         Releases, Holds, Removed
    <2>LocksKept. LocksKept'
      BY <1>1, <1>2, <1>3, <1>4, <1>6, <2>1, <2>2 DEF IInv, Kinds, LocksKept, Keeper,
         Holds, Removed
    <2>BusyIsAwaited. BusyIsAwaited'
      BY <1>1, <1>2, <1>3, <1>4, <1>6, <2>1, <2>2 DEF IInv, Kinds, BusyIsAwaited,
         Removed
    <2> QED BY <2>Kinds, <2>Issued, <2>Coming, <2>Releasing, <2>OfWindow, <2>OneSave,
            <2>Contents, <2>OneTake, <2>Returning, <2>Locked, <2>LocksKept,
            <2>BusyIsAwaited DEF IInv
  <1> QED BY <1>5, <1>6 DEF HandleEditDownloaded

\* A window without a lock changes nothing of this.
LEMMA HandleReadOnlyDownloadedKeeps ==
    ASSUME IInv, NEW a \in DOMAIN answers, HandleReadOnlyDownloaded(a)
    PROVE  IInv'
  <1>1. UNCHANGED <<files, lock, content, issued, failed, strayed, hasty, running, refused,
      requests, editors,
                   pendingEditFile, pendingEditLock>>
    BY DEF HandleReadOnlyDownloaded, server, pending, history
  <1>2. Removed(answers', answers, a)
    BY BagRemoveRemoves DEF HandleReadOnlyDownloaded, Take
  <1>3. a \in Replies /\ a.op = "download" /\ a.file \in Files /\ a.token \in Nat
    BY DEF HandleReadOnlyDownloaded, IInv, Kinds, Replies
  <1>Kinds. Kinds'
    BY <1>1, <1>2, <1>3 DEF IInv, Kinds, Removed
  <1>Issued. Issued'
    BY <1>1, <1>2, <1>3 DEF IInv, Kinds, Issued, Editing, Removed
  <1>Coming. Coming'
    BY <1>1, <1>2, <1>3 DEF IInv, Kinds, Coming, GrantHeld, Used, Editing, Removed
  <1>Releasing. Releasing'
    BY <1>1, <1>2, <1>3 DEF IInv, Kinds, Releasing, ReleaseFailed, Holds, Editing,
       Removed
  <1>OfWindow. OfWindow'
    BY <1>1, <1>2, <1>3 DEF IInv, Kinds, OfWindow, Editing, Removed
  <1>OneSave. OneSave'
    BY <1>1, <1>2, <1>3 DEF IInv, Kinds, OneSave, LoneSave, LoneSaved, Saves, Saved,
       Clean, Holds, ReleaseFailed, Removed
  <1>Contents. Contents'
    BY <1>1, <1>2, <1>3 DEF IInv, Kinds, Contents, Holds, Removed
  <1>OneTake. OneTake'
    BY <1>1, <1>2, <1>3 DEF IInv, Kinds, OneTake, Removed
  <1>Returning. Returning'
    BY <1>1, <1>2, <1>3 DEF IInv, Kinds, Returning, Holds, ReleaseFailed, Removed
  <1>Locked. Locked'
    BY <1>1, <1>2, <1>3 DEF IInv, Kinds, Locked, Releases, Holds, Removed
  <1>LocksKept. LocksKept'
    BY <1>1, <1>2, <1>3 DEF IInv, Kinds, LocksKept, Keeper, Holds, Removed
  <1>BusyIsAwaited. BusyIsAwaited'
    BY <1>1, <1>2, <1>3 DEF IInv, Kinds, BusyIsAwaited, Removed
  <1> QED BY <1>Kinds, <1>Issued, <1>Coming, <1>Releasing, <1>OfWindow, <1>OneSave,
          <1>Contents, <1>OneTake, <1>Returning, <1>Locked, <1>LocksKept,
          <1>BusyIsAwaited DEF IInv

\* A busy window that takes another one's answer for its own is woken.
LEMMA HandleCurrentUploadedKeeps ==
    ASSUME IInv, NEW a \in DOMAIN answers, HandleCurrentUploaded(a)
    PROVE  IInv'
  <1>1. UNCHANGED <<files, lock, content, issued, failed, strayed, hasty, running, refused,
      requests,
                   pendingEditFile, pendingEditLock>>
    BY DEF HandleCurrentUploaded, server, pending, history
  <1>2. Removed(answers', answers, a)
    BY BagRemoveRemoves DEF HandleCurrentUploaded, Take
  <1>3. a \in Replies /\ a.op = "upload" /\ a.file \in Files /\ a.token \in Nat
    BY DEF HandleCurrentUploaded, IInv, Kinds, Replies
  <1>4. /\ \A t \in Tokens :
              /\ editors'[t].open = editors[t].open /\ editors'[t].file = editors[t].file
              /\ editors'[t].lockToken = editors[t].lockToken
              /\ editors'[t].base = editors[t].base /\ editors'[t].mixed = editors[t].mixed
              /\ editors'[t].releaseStarted = editors[t].releaseStarted
              /\ editors'[t].renewTimer = editors[t].renewTimer
              /\ ~editors'[t].woken => ~editors[t].woken
              /\ editors'[t].busy # editors[t].busy =>
                    ~editors'[t].busy /\ editors[t].open /\ editors[t].file = a.file
              /\ editors[t].open /\ editors[t].file = a.file => ~editors'[t].busy
              /\ ~editors'[t].woken /\ editors'[t].busy # editors[t].busy => a.token = t
        /\ editors' \in [Tokens -> Editors]
    <2>1. \A t \in Tokens : editors[t] \in Editors
      BY DEF IInv, Kinds
    <2>2. editors' = [t \in Tokens |->
            IF editors[t].open /\ editors[t].file = a.file
              THEN [editors[t] EXCEPT !.busy = FALSE,
                                      !.woken = @ \/ (editors[t].busy /\ a.token # t)]
              ELSE editors[t]]
      BY DEF HandleCurrentUploaded
    <2>3. ASSUME NEW t \in Tokens, editors[t].open /\ editors[t].file = a.file
          PROVE  /\ editors'[t] \in Editors
                 /\ editors'[t] = [editors[t] EXCEPT !.busy = FALSE,
                                      !.woken = @ \/ (editors[t].busy /\ a.token # t)]
      BY <2>1, <2>2, <2>3 DEF Editors
    <2>4. ASSUME NEW t \in Tokens, ~(editors[t].open /\ editors[t].file = a.file)
          PROVE  editors'[t] = editors[t]
      BY <2>2, <2>4
    <2>5. editors' \in [Tokens -> Editors]
      <3>1. \A t \in Tokens : editors'[t] \in Editors
        BY <2>1, <2>3, <2>4
      <3> QED BY <2>2, <3>1
    <2>6. ASSUME NEW t \in Tokens, editors[t].open /\ editors[t].file = a.file
          PROVE  /\ editors'[t].open = editors[t].open /\ editors'[t].file = editors[t].file
                 /\ editors'[t].lockToken = editors[t].lockToken
                 /\ editors'[t].base = editors[t].base /\ editors'[t].mixed = editors[t].mixed
                 /\ editors'[t].releaseStarted = editors[t].releaseStarted
                 /\ editors'[t].renewTimer = editors[t].renewTimer
                 /\ editors'[t].busy = FALSE
                 /\ ~editors'[t].woken => ~editors[t].woken /\ (editors[t].busy => a.token = t)
      <3> DEFINE m == editors[t].woken \/ (editors[t].busy /\ a.token # t)
      <3>1. editors[t] \in Editors /\ editors'[t] = [editors[t] EXCEPT !.busy = FALSE, !.woken = m]
        BY <2>1, <2>3, <2>6
      <3>2. ~m => ~editors[t].woken /\ (editors[t].busy => a.token = t)
        OBVIOUS
      <3> HIDE DEF m
      <3>3. /\ editors'[t].open = editors[t].open /\ editors'[t].file = editors[t].file
            /\ editors'[t].lockToken = editors[t].lockToken
            /\ editors'[t].base = editors[t].base /\ editors'[t].mixed = editors[t].mixed
            /\ editors'[t].releaseStarted = editors[t].releaseStarted
            /\ editors'[t].renewTimer = editors[t].renewTimer
        BY <3>1 DEF Editors
      <3>4. editors'[t].busy = FALSE /\ editors'[t].woken = m
        BY <3>1 DEF Editors
      <3> QED BY <3>2, <3>3, <3>4
    <2>7. ASSUME NEW t \in Tokens
          PROVE  editors[t].busy \in BOOLEAN
      BY <2>1 DEF Editors
    <2>8. ASSUME NEW t \in Tokens
          PROVE  /\ editors'[t].open = editors[t].open /\ editors'[t].file = editors[t].file
                 /\ editors'[t].lockToken = editors[t].lockToken
                 /\ editors'[t].base = editors[t].base /\ editors'[t].mixed = editors[t].mixed
                 /\ editors'[t].releaseStarted = editors[t].releaseStarted
                 /\ editors'[t].renewTimer = editors[t].renewTimer
                 /\ ~editors'[t].woken => ~editors[t].woken
                 /\ editors'[t].busy # editors[t].busy =>
                       ~editors'[t].busy /\ editors[t].open /\ editors[t].file = a.file
                 /\ editors[t].open /\ editors[t].file = a.file => ~editors'[t].busy
                 /\ ~editors'[t].woken /\ editors'[t].busy # editors[t].busy => a.token = t
      <3>1. CASE editors[t].open /\ editors[t].file = a.file
        BY <2>6, <2>7, <3>1
      <3>2. CASE ~(editors[t].open /\ editors[t].file = a.file)
        BY <2>4, <3>2
      <3> QED BY <3>1, <3>2
    <2> QED BY <2>5, <2>8
  <1>5. Saved(a)
    BY <1>3 DEF Saved
  <1>Kinds. Kinds'
    BY <1>1, <1>2, <1>3, <1>4, <1>5 DEF IInv, Kinds, Removed
  <1>Issued. Issued'
    BY <1>1, <1>2, <1>3, <1>4, <1>5 DEF IInv, Kinds, Issued, Editing, Removed
  <1>Coming. Coming'
    <2>1. \A x : Used(x)' => Used(x)
      BY <1>1, <1>2, <1>4 DEF Used, Removed
    <2>2. \A x \in DOMAIN answers' : x.op = "acquire" =>
            /\ x \in DOMAIN answers /\ answers'[x] = answers[x]
      BY <1>2, <1>3 DEF Removed
    <2>3. \A x \in DOMAIN answers' : x.op = "acquire" /\ GrantHeld(x) => GrantHeld(x)'
      BY <1>1, <2>1, <2>2 DEF GrantHeld
    <2> QED BY <1>1, <1>4, <2>1, <2>2, <2>3 DEF IInv, Coming
  <1>Releasing. Releasing'
    BY <1>1, <1>2, <1>3, <1>4, <1>5 DEF IInv, Kinds, Releasing, ReleaseFailed, Holds,
       Editing, Removed
  <1>OfWindow. OfWindow'
    BY <1>1, <1>2, <1>3, <1>4, <1>5 DEF IInv, Kinds, OfWindow, Editing, Removed
  <1>OneSave. OneSave'
    <2>1. \A u : Clean(u)' => Clean(u)
      BY <1>1, <1>4 DEF Clean, Holds, ReleaseFailed
    <2>2. \A x \in DOMAIN answers' : Saved(x)' =>
             Saved(x) /\ answers'[x] = answers[x] /\ x.token # a.token
      BY <1>2, <1>3, <1>5 DEF IInv, OneSave, LoneSave, LoneSaved, Saved, Removed
    <2>3. \A x \in DOMAIN requests' : Saves(x)' => Saves(x) /\ x.token # a.token
      BY <1>1, <1>5 DEF IInv, OneSave, LoneSave, LoneSaved, Saves, Saved
    <2>4. \A u \in Tokens : Clean(u)' /\ u # a.token => editors'[u].busy = editors[u].busy
      BY <1>4 DEF Clean
    <2>5. \A u \in Tokens : editors'[u].releaseStarted = editors[u].releaseStarted
      BY <1>4
    <2>6. \A u \in Tokens : Clean(u)' /\ editors'[u].releaseStarted => editors'[u].busy
      BY <2>1, <2>4, <2>5, <1>5 DEF IInv, OneSave, LoneSave, LoneSaved, Saved
    <2>7. \A x \in DOMAIN requests' : Saves(x)' => LoneSave(x)'
      BY <2>1, <2>2, <2>3, <2>4, <2>5, <1>1 DEF IInv, OneSave, LoneSave, LoneSaved,
         Saves, Saved, Clean
    <2>8. \A x \in DOMAIN answers' : Saved(x)' => LoneSaved(x)'
      BY <2>1, <2>2, <2>3, <2>4, <2>5 DEF IInv, OneSave, LoneSave, LoneSaved, Saved,
         Clean
    <2> QED BY <2>6, <2>7, <2>8 DEF OneSave, LoneSave, LoneSaved
  <1>Contents. Contents'
    BY <1>1, <1>2, <1>3, <1>4, <1>5 DEF IInv, Kinds, Contents, Holds, Removed
  <1>OneTake. OneTake'
    BY <1>1, <1>2, <1>3, <1>4, <1>5 DEF IInv, Kinds, OneTake, Removed
  <1>Returning. Returning'
    BY <1>1, <1>2, <1>3, <1>4, <1>5 DEF IInv, Kinds, Returning, Holds, ReleaseFailed,
       Removed
  <1>Locked. Locked'
    BY <1>1, <1>2, <1>3, <1>4, <1>5 DEF IInv, Kinds, Locked, Releases, Holds,
       Removed
  <1>LocksKept. LocksKept'
    BY <1>1, <1>2, <1>3, <1>4, <1>5 DEF IInv, Kinds, LocksKept, Keeper, Holds, Removed
  <1>BusyIsAwaited. BusyIsAwaited'
    <2>1. ASSUME NEW u \in Tokens, editors'[u].open, editors'[u].busy
          PROVE  editors[u].open /\ editors[u].busy /\ a.token # u
      BY <2>1, <1>3, <1>4 DEF IInv, OfWindow, Editing
    <2> QED BY <2>1, <1>1, <1>2 DEF IInv, BusyIsAwaited, Removed
  <1> QED BY <1>Kinds, <1>Issued, <1>Coming, <1>Releasing, <1>OfWindow, <1>OneSave,
          <1>Contents, <1>OneTake, <1>Returning, <1>Locked, <1>LocksKept,
          <1>BusyIsAwaited DEF IInv

\* A window gives up its lock when the server has freed it.
LEMMA HandleLockReleasedKeeps ==
    ASSUME IInv, NEW a \in DOMAIN answers, HandleLockReleased(a)
    PROVE  IInv'
  <1>1. UNCHANGED <<files, lock, content, issued, failed, strayed, hasty, running, refused,
      requests,
                   pendingEditFile, pendingEditLock>>
    BY DEF HandleLockReleased, server, pending, history
  <1>2. Removed(answers', answers, a)
    BY BagRemoveRemoves DEF HandleLockReleased, Take
  <1>3. a \in Replies /\ a.op = "release" /\ a.file \in Files /\ a.token \in Nat
    BY DEF HandleLockReleased, IInv, Kinds, Replies
  <1>4. /\ \A t \in Tokens :
              IF ~Concerned(t, a) THEN editors'[t] = editors[t]
              ELSE IF a.ok
              THEN /\ editors'[t].open /\ editors'[t].file = a.file /\ ~editors'[t].lockToken
                   /\ ~editors'[t].busy
              ELSE /\ editors'[t].open = editors[t].open /\ editors'[t].file = editors[t].file
                   /\ editors'[t].lockToken = editors[t].lockToken
                   /\ editors'[t].base = editors[t].base /\ editors'[t].mixed = editors[t].mixed
                   /\ editors'[t].woken = editors[t].woken
                   /\ editors'[t].renewTimer = editors[t].renewTimer
                   /\ ~editors'[t].busy /\ ~editors'[t].releaseStarted
        /\ editors' \in [Tokens -> Editors]
    <2>1. \A t \in Tokens : editors[t] \in Editors
      BY DEF IInv, Kinds
    <2>2. editors' = [t \in Tokens |->
            IF ~Concerned(t, a) THEN editors[t]
              ELSE IF a.ok THEN ReadOnly(a.file)
              ELSE [editors[t] EXCEPT !.busy = FALSE, !.releaseStarted = FALSE]]
      BY DEF HandleLockReleased
    <2> QED BY <2>1, <2>2, <1>3 DEF Editors, ReadOnly, NoEditor
  <1>5. /\ ~a.ok => ReleaseFailed(a.token)
        /\ a.ok => \A f \in Files : lock[f] # a.token
    BY <1>3 DEF IInv, Releasing, ReleaseFailed
  <1>Kinds. Kinds'
    BY <1>1, <1>2, <1>3, <1>4, <1>5 DEF IInv, Kinds, Removed, Concerned
  <1>Issued. Issued'
    BY <1>1, <1>2, <1>3, <1>4, <1>5 DEF IInv, Kinds, Issued, Editing, Removed, Concerned
  <1>Coming. Coming'
    <2>1. \A x : Used(x)' => Used(x)
      BY <1>1, <1>2, <1>4 DEF Used, Removed, Concerned
    <2>2. \A x \in DOMAIN answers' : x.op = "acquire" =>
            /\ x \in DOMAIN answers /\ answers'[x] = answers[x]
      BY <1>2, <1>3 DEF Removed
    <2>3. \A x \in DOMAIN answers' : x.op = "acquire" /\ GrantHeld(x) => GrantHeld(x)'
      BY <1>1, <2>1, <2>2 DEF GrantHeld
    <2> QED BY <1>1, <1>4, <2>1, <2>2, <2>3 DEF IInv, Coming, Concerned
  <1>Releasing. Releasing'
    BY <1>1, <1>2, <1>3, <1>4, <1>5 DEF IInv, Kinds, Releasing, ReleaseFailed, Holds,
       Editing, Removed, Concerned
  <1>OfWindow. OfWindow'
    BY <1>1, <1>2, <1>3, <1>4, <1>5 DEF IInv, Kinds, OfWindow, Editing, Removed,
       Concerned
  <1>OneSave. OneSave'
    <2>1. \A u : Clean(u)' => Clean(u) /\ editors'[u] = editors[u]
      BY <1>1, <1>4, <1>5 DEF Clean, Holds, ReleaseFailed, Concerned
    <2>2. \A x \in DOMAIN answers' : Saved(x)' => Saved(x) /\ answers'[x] = answers[x]
      BY <1>2, <1>3 DEF Saved, Removed
    <2>3. \A x \in DOMAIN requests' : Saves(x)' => Saves(x)
      BY <1>1 DEF Saves
    <2>4. \A u \in Tokens : Clean(u)' => editors'[u].busy = editors[u].busy
      BY <2>1
    <2>5. \A u \in Tokens : Clean(u)' => editors'[u].releaseStarted = editors[u].releaseStarted
      BY <2>1
    <2>6. \A u \in Tokens : Clean(u)' /\ editors'[u].releaseStarted => editors'[u].busy
      BY <2>1 DEF IInv, OneSave, LoneSave, LoneSaved
    <2>7. \A x \in DOMAIN requests' : Saves(x)' => LoneSave(x)'
      BY <2>1, <2>2, <2>3, <2>4, <2>5, <1>1 DEF IInv, OneSave, LoneSave, LoneSaved,
         Saves, Saved, Clean
    <2>8. \A x \in DOMAIN answers' : Saved(x)' => LoneSaved(x)'
      BY <2>1, <2>2, <2>3, <2>4, <2>5 DEF IInv, OneSave, LoneSave, LoneSaved, Saved,
         Clean
    <2> QED BY <2>6, <2>7, <2>8 DEF OneSave, LoneSave, LoneSaved
  <1>Contents. Contents'
    BY <1>1, <1>2, <1>3, <1>4, <1>5 DEF IInv, Kinds, Contents, Holds, Removed, Concerned
  <1>OneTake. OneTake'
    BY <1>1, <1>2, <1>3, <1>4, <1>5 DEF IInv, Kinds, OneTake, Removed, Concerned
  <1>Returning. Returning'
    BY <1>1, <1>2, <1>3, <1>4, <1>5 DEF IInv, Kinds, Returning, Holds, ReleaseFailed,
       Removed, Concerned
  <1>Locked. Locked'
    <2>1. ASSUME NEW u \in Tokens, Releases(u)', <<"release", u>> \notin failed'
          PROVE  Releases(u) /\ editors'[u] = editors[u]
      BY <2>1, <1>1, <1>4, <1>5 DEF Releases, Holds, Concerned, ReleaseFailed
    <2> QED BY <2>1, <1>1 DEF IInv, Locked
  <1>LocksKept. LocksKept'
    BY <1>1, <1>2, <1>3, <1>4, <1>5 DEF IInv, Kinds, LocksKept, Keeper, Holds, Removed,
       Concerned
  <1>BusyIsAwaited. BusyIsAwaited'
    <2>1. ASSUME NEW u \in Tokens, editors'[u].open, editors'[u].busy
          PROVE  editors[u].open /\ editors[u].busy /\ a.token # u
      BY <2>1, <1>3, <1>4 DEF IInv, OfWindow, Editing, Concerned
    <2> QED BY <2>1, <1>1, <1>2 DEF IInv, BusyIsAwaited, Removed
  <1> QED BY <1>Kinds, <1>Issued, <1>Coming, <1>Releasing, <1>OfWindow, <1>OneSave,
          <1>Contents, <1>OneTake, <1>Returning, <1>Locked, <1>LocksKept,
          <1>BusyIsAwaited DEF IInv

\* A window stops renewing when a renewal of its lock has failed.
LEMMA HandleLockRenewedKeeps ==
    ASSUME IInv, NEW a \in DOMAIN answers, HandleLockRenewed(a)
    PROVE  IInv'
  <1>1. UNCHANGED <<files, lock, content, issued, failed, strayed, hasty, running, refused,
      requests,
                   pendingEditFile, pendingEditLock>>
    BY DEF HandleLockRenewed, server, pending, history
  <1>2. Removed(answers', answers, a)
    BY BagRemoveRemoves DEF HandleLockRenewed, Take
  <1>3. a \in Replies /\ a.op = "renew" /\ a.file \in Files /\ a.token \in Nat
    BY DEF HandleLockRenewed, IInv, Kinds, Replies
  <1>4. /\ \A t \in Tokens :
              /\ editors'[t].open = editors[t].open /\ editors'[t].file = editors[t].file
              /\ editors'[t].lockToken = editors[t].lockToken /\ editors'[t].base = editors[t].base
              /\ editors'[t].releaseStarted = editors[t].releaseStarted
              /\ editors'[t].mixed = editors[t].mixed /\ editors'[t].woken = editors[t].woken
              /\ editors'[t].busy = editors[t].busy
              /\ editors'[t].renewTimer = editors[t].renewTimer \/ (t = a.token /\ ~a.ok)
        /\ editors' \in [Tokens -> Editors]
    <2>1. \A t \in Tokens : editors[t] \in Editors
      BY DEF IInv, Kinds
    <2>2. editors' = [t \in Tokens |->
             IF t = a.token /\ Holds(t) /\ ~a.ok THEN [editors[t] EXCEPT !.renewTimer = FALSE]
             ELSE editors[t]]
      BY DEF HandleLockRenewed, IInv, Kinds
    <2> QED BY <2>1, <2>2 DEF Editors
  <1>5. ~a.ok => <<"renew", a.token>> \in failed
    BY <1>3 DEF IInv, Releasing
  <1>Kinds. Kinds'
    BY <1>1, <1>2, <1>3, <1>4, <1>5 DEF IInv, Kinds, Removed
  <1>Issued. Issued'
    BY <1>1, <1>2, <1>3, <1>4, <1>5 DEF IInv, Kinds, Issued, Editing, Removed
  <1>Coming. Coming'
    <2>1. \A x : Used(x)' => Used(x)
      BY <1>1, <1>2, <1>4 DEF Used, Removed
    <2>2. \A x \in DOMAIN answers' : x.op = "acquire" =>
            /\ x \in DOMAIN answers /\ answers'[x] = answers[x]
      BY <1>2, <1>3 DEF Removed
    <2>3. \A x \in DOMAIN answers' : x.op = "acquire" /\ GrantHeld(x) => GrantHeld(x)'
      BY <1>1, <2>1, <2>2 DEF GrantHeld
    <2> QED BY <1>1, <1>4, <2>1, <2>2, <2>3 DEF IInv, Coming
  <1>Releasing. Releasing'
    BY <1>1, <1>2, <1>3, <1>4, <1>5 DEF IInv, Kinds, Releasing, ReleaseFailed, Holds,
       Editing, Removed
  <1>OfWindow. OfWindow'
    BY <1>1, <1>2, <1>3, <1>4, <1>5 DEF IInv, Kinds, OfWindow, Editing, Removed
  <1>OneSave. OneSave'
    <2>1. \A u : Clean(u)' => Clean(u)
      BY <1>1, <1>4 DEF Clean, Holds, ReleaseFailed
    <2>2. \A x \in DOMAIN answers' : Saved(x)' => Saved(x) /\ answers'[x] = answers[x]
      BY <1>2, <1>3 DEF Saved, Removed
    <2>3. \A x \in DOMAIN requests' : Saves(x)' => Saves(x)
      BY <1>1 DEF Saves
    <2>4. \A u \in Tokens : Clean(u)' => editors'[u].busy = editors[u].busy
      BY <1>4
    <2>5. \A u \in Tokens : Clean(u)' => editors'[u].releaseStarted = editors[u].releaseStarted
      BY <1>4
    <2>6. \A u \in Tokens : Clean(u)' /\ editors'[u].releaseStarted => editors'[u].busy
      BY <2>1, <1>4 DEF IInv, OneSave, LoneSave, LoneSaved
    <2>7. \A x \in DOMAIN requests' : Saves(x)' => LoneSave(x)'
      BY <2>1, <2>2, <2>3, <2>4, <2>5, <1>1 DEF IInv, OneSave, LoneSave, LoneSaved,
         Saves, Saved, Clean
    <2>8. \A x \in DOMAIN answers' : Saved(x)' => LoneSaved(x)'
      BY <2>1, <2>2, <2>3, <2>4, <2>5 DEF IInv, OneSave, LoneSave, LoneSaved, Saved,
         Clean
    <2> QED BY <2>6, <2>7, <2>8 DEF OneSave, LoneSave, LoneSaved
  <1>Contents. Contents'
    BY <1>1, <1>2, <1>3, <1>4, <1>5 DEF IInv, Kinds, Contents, Holds, Removed
  <1>OneTake. OneTake'
    BY <1>1, <1>2, <1>3, <1>4, <1>5 DEF IInv, Kinds, OneTake, Removed
  <1>Returning. Returning'
    BY <1>1, <1>2, <1>3, <1>4, <1>5 DEF IInv, Kinds, Returning, Holds, ReleaseFailed,
       Removed
  <1>Locked. Locked'
    BY <1>1, <1>2, <1>3, <1>4, <1>5 DEF IInv, Kinds, Locked, Releases, Holds,
       Removed
  <1>LocksKept. LocksKept'
    BY <1>1, <1>2, <1>3, <1>4, <1>5 DEF IInv, Kinds, LocksKept, Keeper, Holds, Removed
  <1>BusyIsAwaited. BusyIsAwaited'
    BY <1>1, <1>2, <1>3, <1>4, <1>5 DEF IInv, Kinds, BusyIsAwaited, Removed
  <1> QED BY <1>Kinds, <1>Issued, <1>Coming, <1>Releasing, <1>OfWindow, <1>OneSave,
          <1>Contents, <1>OneTake, <1>Returning, <1>Locked, <1>LocksKept,
          <1>BusyIsAwaited DEF IInv

-----------------------------------------------------------------------------
(* The end, and all steps together.                                        *)

\* Nothing is awaited any more.
LEMMA QuitKeeps ==
    ASSUME IInv, Quit
    PROVE  IInv'
  <1>1. /\ UNCHANGED <<files, lock, content, issued, failed, strayed, hasty, refused>>
        /\ refused = {} /\ pendingEditFile' = NoFile /\ pendingEditLock' = 0 /\ ~running'
        /\ DOMAIN answers' = {}
    BY DEF Quit, UserIsFree, server, history, EmptyBag, SetToBag
  <1>2. /\ \A t \in Tokens : ~editors'[t].open /\ ~editors'[t].lockToken
        /\ editors' \in [Tokens -> Editors]
    BY DEF Quit, NoEditor, Editors
  <1>3. \A x \in DOMAIN requests' :
          /\ x \in Requests /\ ~x.awaited
          /\ x.token <= issued /\ (x.op \in Editing => x.token > 0)
          /\ x.op = "upload" => x.token \in Tokens
    <2> DEFINE asked == {Request("release", editors[t].file,
        t) : t \in {u \in Tokens : Releases(u)}}
    <2> DEFINE all == requests (+) SetToBag(asked)
    <2>1. DOMAIN all = DOMAIN requests \cup asked
      BY DEF (+), SetToBag
    <2>2. \A x \in asked : x \in Requests /\ x.token <= issued /\ x.token > 0 /\ x.op = "release"
      <3> SUFFICES ASSUME NEW t \in Tokens, Releases(t)
                   PROVE  /\ Request("release", editors[t].file, t) \in Requests
                          /\ t <= issued /\ t > 0
        BY DEF Request
      <3> QED BY BoundsAssumption DEF Tokens, Releases, Holds, Request, Requests, Ops,
              IInv, Issued, OfWindow
    <2>3. \A x \in DOMAIN all :
             /\ x \in Requests /\ x.token <= issued /\ (x.op \in Editing => x.token > 0)
             /\ x.op = "upload" => x.token \in Tokens
      BY <2>1, <2>2 DEF IInv, Kinds, Issued
    <2> DEFINE late == {[x EXCEPT !.awaited = FALSE] : x \in {y \in DOMAIN all : Lasting(y)}}
    <2>4. DOMAIN requests' = late
      BY DEF Quit
    <2> HIDE DEF all
    <2>5. \A x \in late : /\ x \in Requests /\ ~x.awaited
                          /\ x.token <= issued /\ (x.op \in Editing => x.token > 0)
                          /\ x.op = "upload" => x.token \in Tokens
      BY <2>3 DEF Requests
    <2> QED BY <2>4, <2>5
  <1>Kinds. Kinds'
    BY <1>1, <1>2, <1>3 DEF IInv, Kinds
  <1>Issued. Issued'
    BY <1>1, <1>2, <1>3 DEF IInv, Kinds, Issued, Editing
  <1>Coming. Coming'
    BY <1>1, <1>2, <1>3 DEF IInv, Kinds, Coming, GrantHeld, Used, Editing
  <1>Releasing. Releasing'
    BY <1>1, <1>2, <1>3 DEF IInv, Kinds, Releasing, ReleaseFailed, Holds, Editing
  <1>OfWindow. OfWindow'
    BY <1>1, <1>2, <1>3 DEF IInv, Kinds, OfWindow, Editing
  <1>OneSave. OneSave'
    BY <1>1, <1>2, <1>3 DEF IInv, Kinds, OneSave, LoneSave, LoneSaved, Saves, Saved,
       Clean, Holds, ReleaseFailed
  <1>Contents. Contents'
    BY <1>1, <1>2, <1>3 DEF IInv, Kinds, Contents, Holds
  <1>OneTake. OneTake'
    BY <1>1, <1>2, <1>3 DEF IInv, Kinds, OneTake
  <1>Returning. Returning'
    BY <1>1, <1>2, <1>3 DEF IInv, Kinds, Returning, Holds, ReleaseFailed
  <1>Locked. Locked'
    BY <1>1, <1>2, <1>3 DEF IInv, Kinds, Locked, Releases, Holds
  <1>LocksKept. LocksKept'
    BY <1>1, <1>2, <1>3 DEF IInv, Kinds, LocksKept, Keeper, Holds
  <1>BusyIsAwaited. BusyIsAwaited'
    BY <1>1, <1>2, <1>3 DEF IInv, Kinds, BusyIsAwaited
  <1> QED BY <1>Kinds, <1>Issued, <1>Coming, <1>Releasing, <1>OfWindow, <1>OneSave,
          <1>Contents, <1>OneTake, <1>Returning, <1>Locked, <1>LocksKept,
          <1>BusyIsAwaited DEF IInv

\* A step that changes nothing.
LEMMA StutteringKeeps == ASSUME IInv, UNCHANGED vars PROVE IInv'
  <1>1. UNCHANGED <<files, lock, content, issued, requests, answers, pendingEditFile,
      pendingEditLock,
                   refused, editors, running, failed, strayed, hasty>>
    BY DEF vars, server, network, client, pending, history
  <1>Kinds. Kinds'
    BY <1>1 DEF IInv, Kinds
  <1>Issued. Issued'
    BY <1>1 DEF IInv, Kinds, Issued, Editing
  <1>Coming. Coming'
    BY <1>1 DEF IInv, Kinds, Coming, GrantHeld, Used, Editing
  <1>Releasing. Releasing'
    BY <1>1 DEF IInv, Kinds, Releasing, ReleaseFailed, Holds, Editing
  <1>OfWindow. OfWindow'
    BY <1>1 DEF IInv, Kinds, OfWindow, Editing
  <1>OneSave. OneSave'
    BY <1>1 DEF IInv, Kinds, OneSave, LoneSave, LoneSaved, Saves, Saved, Clean, Holds,
       ReleaseFailed
  <1>Contents. Contents'
    BY <1>1 DEF IInv, Kinds, Contents, Holds
  <1>OneTake. OneTake'
    BY <1>1 DEF IInv, Kinds, OneTake
  <1>Returning. Returning'
    BY <1>1 DEF IInv, Kinds, Returning, Holds, ReleaseFailed
  <1>Locked. Locked'
    BY <1>1 DEF IInv, Kinds, Locked, Releases, Holds
  <1>LocksKept. LocksKept'
    BY <1>1 DEF IInv, Kinds, LocksKept, Keeper, Holds
  <1>BusyIsAwaited. BusyIsAwaited'
    BY <1>1 DEF IInv, Kinds, BusyIsAwaited
  <1> QED BY <1>Kinds, <1>Issued, <1>Coming, <1>Releasing, <1>OfWindow, <1>OneSave,
          <1>Contents, <1>OneTake, <1>Returning, <1>Locked, <1>LocksKept,
          <1>BusyIsAwaited DEF IInv

\* Every step keeps the invariant.
LEMMA NextKeeps == ASSUME IInv, [Next]_vars PROVE IInv'
  <1>1. CASE UNCHANGED vars
    BY <1>1, StutteringKeeps
  <1>2. ASSUME NEW r \in DOMAIN requests, Serve(r) PROVE IInv'
    BY <1>2, ServeAcquireKeeps, ServeDownloadKeeps, ServeUploadKeeps, ServeRenewKeeps,
       ServeReleaseKeeps, ServeDeleteKeeps DEF Serve
  <1>3. ASSUME NEW a \in DOMAIN answers, Handle(a) PROVE IInv'
    BY <1>3, HandleLockAcquiredKeeps, HandleEditDownloadedKeeps,
       HandleReadOnlyDownloadedKeeps, HandleCurrentUploadedKeeps,
       HandleLockReleasedKeeps, HandleLockRenewedKeeps DEF Handle
  <1>4. CASE User
    <2>1. CASE CloseMessage
      BY <2>1, CloseMessageKeeps DEF CloseMessage
    <2>2. ASSUME NEW t \in Tokens, Save(t) \/ ReleaseLock(t) \/ CloseEvent(t) PROVE IInv'
      BY <2>2, SaveKeeps, ReleaseLockKeeps, CloseEventKeeps
    <2> QED BY <1>4, <2>1, <2>2, OpenSelectedForEditKeeps, OpenSelectedReadOnlyKeeps,
            DeleteFileKeeps, QuitKeeps DEF User
  <1> QED BY <1>1, <1>2, <1>3, <1>4, AbandonKeeps, DropKeeps, OtherClientsKeeps,
          RenewLockKeeps DEF Next

-----------------------------------------------------------------------------
\* The invariant holds in every reachable state.
LEMMA Invariant == Spec => []IInv
  <1> QED BY InitIInv, NextKeeps, PTL DEF Spec

\* A window opened for editing has the lock of its file and renews it until it asks to
\* release the lock, and from then on it is disabled, in whatever order the answers come;
\* the ways out are a failed release or renewal, a deletion of the file, and the answer to
\* another window's save, which enables the window (editor-window.cpp:105, :129, :140, :164).
THEOREM WindowsAreLocked == Spec => []EditsUnderLock
  <1>1. ASSUME IInv PROVE EditsUnderLock
    <2> SUFFICES ASSUME NEW t \in Tokens, Holds(t), editors[t].file \in files, ~ReleaseFailed(t)
                 PROVE  \/ /\ lock[editors[t].file] = t
                           /\ editors[t].renewTimer \/ <<"renew", t>> \in failed
                        \/ editors[t].releaseStarted /\ (editors[t].busy \/ editors[t].woken)
      BY DEF EditsUnderLock, ReleaseFailed
    <2>1. CASE ~editors[t].releaseStarted
      BY <1>1, <2>1 DEF IInv, Locked, Releases, ReleaseFailed
    <2>2. CASE editors[t].releaseStarted /\ ~editors[t].woken
      <3>1. Clean(t)
        BY <2>2 DEF Clean
      <3> QED BY <1>1, <2>2, <3>1 DEF IInv, OneSave
    <2>3. CASE editors[t].releaseStarted /\ editors[t].woken
      BY <2>3
    <2> QED BY <2>1, <2>2, <2>3
  <1> QED BY <1>1, Invariant, PTL

\* No lock of this client stays on the server without a window, a pending edit,
\* a message or a request that will give it back, unless a request about it failed,
\* the application was closed, or "Take edit" was chosen while an earlier one was
\* pending (main-window.cpp:247).
THEOREM LocksAreKept == Spec => []LocksKept
  <1>1. IInv => LocksKept
    BY DEF IInv
  <1> QED BY <1>1, Invariant, PTL

\* A busy window waits for an answer that will enable it again, and the answer of
\* another window never takes that from it (editor-window.cpp:129, :148).
THEOREM BusyWindowsWait == Spec => []BusyIsAwaited
  <1>1. IInv => BusyIsAwaited
    BY DEF IInv
  <1> QED BY <1>1, Invariant, PTL

\* The save of an open window is under its lock, and replaces the content the window
\* was opened with or its own, but for the ways out that the property names
\* (main-window.cpp:338, editor-window.cpp:83, :125).
THEOREM SavesAreOwn == Spec => []SavesOwnWork
  <1>1. ASSUME IInv PROVE SavesOwnWork
    <2> SUFFICES ASSUME NEW r \in DOMAIN requests, r.op = "upload", r.awaited,
                        Holds(r.token), r.file \in files,
                        ~editors[r.token].mixed, ~editors[r.token].woken,
                        <<"release", r.token>> \notin failed
                 PROVE  /\ lock[r.file] = r.token
                        /\ content[r.file] \in {editors[r.token].base, r.token} \cup strayed
      BY DEF SavesOwnWork
    <2>1. r.token \in Tokens /\ Clean(r.token)
      BY <1>1 DEF IInv, Issued, Clean, ReleaseFailed
    <2>2. ~editors[r.token].releaseStarted
      BY <1>1, <2>1 DEF IInv, OneSave, LoneSave, LoneSaved, Saves
    <2>3. r.file = editors[r.token].file
      BY <1>1, <2>1 DEF IInv, OfWindow, Editing, Holds
    <2>4. lock[editors[r.token].file] = r.token
      BY <1>1, <2>1, <2>2, <2>3 DEF IInv, Locked, Releases
    <2>5. content[r.file] \in {editors[r.token].base, r.token} \cup strayed
      BY <1>1, <2>1, <2>3, <2>4 DEF IInv, Contents
    <2> QED BY <2>3, <2>4, <2>5
  <1> QED BY <1>1, Invariant, PTL
=============================================================================
