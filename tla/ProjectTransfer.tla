--------------------------- MODULE ProjectTransfer ---------------------------
(***************************************************************************)
(* Moving a project between this device and the server                     *)
(* (ui/project-actions.ts, ui/db/db-lock.ts): promoting a local-only       *)
(* project into a server-named copy, and removing the local copy of a      *)
(* synchronized one. Both end in destroying a database, after a copy or a  *)
(* push proved that its documents are on the server.                       *)
(*                                                                         *)
(* Several tabs of one browser share the databases and the index. Every    *)
(* step between two awaits is a step here, so another tab's write, its own *)
(* promotion, a failed call or the end of the tab may fall between any two.*)
(*                                                                         *)
(* A document is written once and never changed: update_seq, which moves   *)
(* on every write, is the set of documents itself. The project document,   *)
(* which is never copied, is left out.                                     *)
(***************************************************************************)
EXTENDS Naturals

CONSTANTS
    Tabs,          \* the open tabs of one browser
    Docs,          \* what users may write, each once
    Source,        \* the local-only database
    Projects,      \* projects the server may create, and their databases' names
    None,          \* no project, no database, no tab
    WebLocks,      \* whether the browser has navigator.locks
    MaxFaults      \* bound: tabs that end and calls that fail half way

Databases == {Source} \cup Projects

ASSUME TransferAssumption ==
    /\ Source \notin Projects
    /\ None \notin Databases \cup Tabs
    /\ WebLocks \in BOOLEAN
    /\ MaxFaults \in Nat

TRANSFER_ATTEMPTS == 2

VARIABLES
    local,     \* [Databases -> the documents this browser's database holds]
    server,    \* [Projects -> the documents the server's database holds]
    created,   \* the projects the server lists
    onDisk,    \* the databases this browser has
    entries,   \* the databases the index names
    recorded,  \* the project id on the source's entry
    page,      \* [Tabs -> the projects the tab's page shows as on the server only]
    view,      \* [Tabs -> the database the tab's views write to]
    act,       \* [Tabs -> the project action the tab runs]
    lock,      \* [Databases -> the tab that holds its Web Lock exclusively]
    saved,     \* history: every document some user was told is saved
    late,      \* history: [Databases -> what landed after the last update_seq check]
    faults     \* how many faults have happened

data == <<local, server, created, onDisk>>
index == <<entries, recorded>>
history == <<saved, late>>
vars == <<data, index, page, view, act, lock, history, faults>>
-----------------------------------------------------------------------------
Kinds == {"none", "promote", "remove"}
Steps == {"idle", "post", "record", "leave", "info", "copy", "push", "acquire",
          "verify", "index", "destroy", "forget", "copyBack", "back"}

\* A project action: where it is, what it works for, what update_seq stood for
\* when the transfer began, and whether its handles are on stores that exist.
Work == [kind : Kinds, at : Steps, project : Projects \cup {None}, before : SUBSET Docs,
         left : 0..TRANSFER_ATTEMPTS, moved : BOOLEAN, alive : BOOLEAN]

\* The steps before an action opens its databases.
Unopened == {"idle", "post", "record", "leave"}

Idle == [kind |-> "none", at |-> "idle", project |-> None, before |-> {},
         left |-> 0, moved |-> FALSE, alive |-> TRUE]

\* The database the action of t is about to destroy, and the one it pushes.
Doomed(t) == IF act[t].kind = "promote" THEN Source ELSE act[t].project
Survivor(t) == act[t].project

\* Mutant: a source is hidden as soon as its project id is recorded.
ListedUnlessRecorded == {d \in entries : d = Source => recorded = None}

\* finished(): a source whose server-named copy is indexed is not shown.
Listed == {d \in entries : d = Source => recorded \notin entries}

\* A write to d takes the shared lock: it waits while a tab holds d exclusively.
Writable(d) == lock[d] = None

\* The action of t is over: the page is read again before anything else is asked.
End(t) ==
    /\ act' = [act EXCEPT ![t] = Idle]
    /\ page' = [page EXCEPT ![t] = {}]

\* Documents land in d. Without Web Locks nothing keeps them from landing after
\* an action that destroys d looked last.
Land(d, docs) ==
    /\ local' = [local EXCEPT ![d] = @ \cup docs]
    /\ late' = IF WebLocks THEN late
               ELSE [late EXCEPT ![d] = @ \cup (docs \ local[d])]

Goto(t, step) == act' = [act EXCEPT ![t].at = step]
Release(t) == lock' = [d \in Databases |-> IF lock[d] = t THEN None ELSE lock[d]]

\* A refusal: what the views wrote is copied back before they return, if the
\* action has a survivor; otherwise they return at once.
Refuse(t) == Goto(t, IF act[t].kind = "promote" THEN "copyBack" ELSE "back")

Fault == faults < MaxFaults /\ faults' = faults + 1

Init ==
    /\ local = [d \in Databases |-> {}]
    /\ server = [p \in Projects |-> {}]
    /\ created = {}
    /\ onDisk = {Source} /\ entries = {Source} /\ recorded = None
    /\ page = [t \in Tabs |-> {}]
    /\ view = [t \in Tabs |-> None]
    /\ act = [t \in Tabs |-> Idle]
    /\ lock = [d \in Databases |-> None]
    /\ saved = {} /\ late = [d \in Databases |-> {}]
    /\ faults = 0
-----------------------------------------------------------------------------
(* Views. *)

\* A tab opens a project the page shows. A database that is not there is made.
Open(t, d) ==
    /\ view[t] = None /\ act[t].at = "idle"
    /\ d \in Listed
    /\ view' = [view EXCEPT ![t] = d]
    /\ onDisk' = onDisk \cup {d}
    /\ UNCHANGED <<local, server, created, index, page, act, lock, history, faults>>

\* A view saves a document.
Write(t, doc) ==
    LET d == view[t] IN
    /\ d # None /\ d \in onDisk /\ doc \notin saved
    /\ Writable(d)
    /\ Land(d, {doc})
    /\ saved' = saved \cup {doc}
    /\ UNCHANGED <<server, created, onDisk, index, page, view, act, lock, faults>>
-----------------------------------------------------------------------------
(* promote(): target(), then leave(), then settled(). The page a tab acts on   *)
(* may be older than the index: an action asks for what it looks up, and for  *)
(* nothing more.                                                              *)

Promote(t) ==
    /\ act[t].at = "idle" /\ Source \in entries
    /\ act' = [act EXCEPT ![t] =
                 [Idle EXCEPT !.kind = "promote", !.left = TRANSFER_ATTEMPTS,
                              !.project = recorded,
                              !.at = IF recorded = None THEN "post" ELSE "leave"]]
    /\ UNCHANGED <<data, index, page, view, lock, history, faults>>

\* POST /projects. Its answer may be lost after the server created the project.
Post(t, p) ==
    /\ act[t].at = "post" /\ p \notin created
    /\ created' = created \cup {p}
    /\ act' = [act EXCEPT ![t].at = "record", ![t].project = p]
    /\ UNCHANGED <<local, server, onDisk, index, page, view, lock, history, faults>>

PostFails(t) ==
    /\ act[t].at = "post"
    /\ \/ UNCHANGED created
       \/ \E p \in Projects \ created : created' = created \cup {p}
    /\ End(t)
    /\ UNCHANGED <<local, server, onDisk, index, view, lock, history, faults>>

\* Mutant: the database's name is recorded in place of the project's id.
RecordName(t) ==
    /\ act[t].at = "record"
    /\ recorded' = IF Source \in entries THEN Source ELSE recorded
    /\ Goto(t, "leave")
    /\ UNCHANGED <<data, entries, page, view, lock, history, faults>>

\* The id is recorded on the source's entry, if the entry is still there.
Record(t) ==
    /\ act[t].at = "record"
    /\ recorded' = IF Source \in entries THEN act[t].project ELSE recorded
    /\ Goto(t, "leave")
    /\ UNCHANGED <<data, entries, page, view, lock, history, faults>>

\* The views of this tab move off the database that is about to go. When a
\* copy is removed they move to the source if it is shown, or out of sight. The
\* handles the action works on are opened, which makes a missing database.
Leave(t) ==
    /\ act[t].at = "leave"
    /\ LET elsewhere == IF act[t].kind = "promote" THEN Survivor(t)
                        ELSE IF Source \in Listed THEN Source ELSE None
           moved == view[t] = Doomed(t)
       IN  /\ view' = IF moved THEN [view EXCEPT ![t] = elsewhere] ELSE view
           /\ act' = [act EXCEPT ![t].at = "info", ![t].moved = moved]
    /\ onDisk' = onDisk \cup {Doomed(t), Survivor(t)}
    /\ UNCHANGED <<local, server, created, index, page, lock, history, faults>>

\* settled(): the sequence before the transfer.
Info(t) ==
    /\ act[t].at = "info" /\ act[t].alive
    /\ act' = [act EXCEPT ![t].before = local[Doomed(t)],
                          ![t].at = IF act[t].kind = "promote" THEN "copy" ELSE "push"]
    /\ UNCHANGED <<data, index, page, view, lock, history, faults>>

\* The documents are copied into the server-named database.
Copy(t) ==
    /\ act[t].at = "copy"
    /\ act[t].alive /\ Writable(Survivor(t))
    /\ Land(Survivor(t), local[Source])
    /\ Goto(t, "push")
    /\ UNCHANGED <<server, created, onDisk, index, page, view, lock, saved, faults>>

\* Mutant: the push counts as done before the documents are on the server.
PushUnanswered(t) ==
    /\ act[t].at = "push" /\ act[t].alive
    /\ Goto(t, "acquire")
    /\ UNCHANGED <<data, index, page, view, lock, history, faults>>

\* pushOnce() completes: every document of the copy is on the server.
Push(t) ==
    /\ act[t].at = "push" /\ act[t].alive
    /\ server' = [server EXCEPT ![Survivor(t)] = @ \cup local[Survivor(t)]]
    /\ Goto(t, "acquire")
    /\ UNCHANGED <<local, created, onDisk, index, page, view, lock, history, faults>>

\* One of these fails: its database is gone, a denial, no answer in time.
TransferFails(t) ==
    /\ act[t].at \in {"info", "copy", "push"}
    /\ Refuse(t)
    /\ UNCHANGED <<data, index, page, view, lock, history, faults>>

\* Mutant: the lock is asked for, but not held while the action finishes.
AcquireAndLetGo(t) ==
    /\ act[t].at = "acquire"
    /\ lock[Doomed(t)] = None
    /\ Goto(t, "verify")
    /\ UNCHANGED <<data, index, page, view, lock, history, faults>>

\* The exclusive Web Lock is granted, or the browser has none.
Acquire(t) ==
    /\ act[t].at = "acquire"
    /\ IF WebLocks
       THEN /\ lock[Doomed(t)] = None
            /\ lock' = [lock EXCEPT ![Doomed(t)] = t]
       ELSE UNCHANGED lock
    /\ Goto(t, "verify")
    /\ UNCHANGED <<data, index, page, view, history, faults>>

\* Mutant: the sequence is not compared before the action finishes.
VerifyNothing(t) ==
    /\ act[t].at = "verify"
    /\ Goto(t, IF act[t].kind = "promote" THEN "index" ELSE "destroy")
    /\ late' = [late EXCEPT ![Doomed(t)] = {}]
    /\ UNCHANGED <<data, index, page, view, lock, saved, faults>>

\* The sequence is read again, under the lock: unchanged, the action finishes;
\* changed, it transfers once more or is refused.
Verify(t) ==
    /\ act[t].at = "verify"
    /\ IF act[t].alive /\ local[Doomed(t)] = act[t].before
       THEN /\ Goto(t, IF act[t].kind = "promote" THEN "index" ELSE "destroy")
            /\ late' = [late EXCEPT ![Doomed(t)] = {}]
            /\ UNCHANGED lock
       ELSE /\ Release(t)
            /\ UNCHANGED late
            /\ IF act[t].alive /\ act[t].left > 1
               THEN act' = [act EXCEPT ![t].at = "info", ![t].left = @ - 1]
               ELSE Refuse(t)
    /\ UNCHANGED <<data, index, page, view, saved, faults>>

\* indexServerProject(): the copy is listed before its source is destroyed.
Index(t) ==
    /\ act[t].at = "index"
    /\ entries' = entries \cup {Survivor(t)}
    /\ Goto(t, "destroy")
    /\ UNCHANGED <<data, recorded, page, view, lock, history, faults>>

IndexFails(t) ==
    /\ act[t].at = "index"
    /\ Fault
    /\ Release(t) /\ Refuse(t)
    /\ UNCHANGED <<data, index, page, view, history>>

\* Mutant: the destroy takes the shared lock, as every write does.
DestroyAsWrite(t) ==
    /\ act[t].at = "destroy" /\ Writable(Doomed(t))
    /\ local' = [local EXCEPT ![Doomed(t)] = {}]
    /\ onDisk' = onDisk \ {Doomed(t)}
    /\ view' = [u \in Tabs |-> IF view[u] = Doomed(t) THEN None ELSE view[u]]
    /\ Goto(t, "forget")
    /\ UNCHANGED <<server, created, index, page, lock, history, faults>>

\* destroyLocalProject(): the data first. Handles other tabs hold on it are dead,
\* even if a database of that name is made again.
Destroy(t) ==
    /\ act[t].at = "destroy"
    /\ local' = [local EXCEPT ![Doomed(t)] = {}]
    /\ onDisk' = onDisk \ {Doomed(t)}
    /\ view' = [u \in Tabs |-> IF view[u] = Doomed(t) THEN None ELSE view[u]]
    /\ act' = [u \in Tabs |->
                 IF u = t THEN [act[u] EXCEPT !.at = "forget"]
                 ELSE IF act[u].at \notin Unopened /\ Doomed(t) \in {Doomed(u), Survivor(u)}
                 THEN [act[u] EXCEPT !.alive = FALSE] ELSE act[u]]
    /\ UNCHANGED <<server, created, index, page, lock, history, faults>>

\* Then the entry, and the lock is let go.
Forget(t) ==
    /\ act[t].at = "forget"
    /\ entries' = entries \ {Doomed(t)}
    /\ recorded' = IF Doomed(t) = Source THEN None ELSE recorded
    /\ Release(t)
    /\ End(t)
    /\ UNCHANGED <<data, view, history, faults>>

\* The destroy fails, or forgetting the entry does: the action ends there.
FinishFails(t) ==
    /\ act[t].at \in {"destroy", "forget"}
    /\ Fault
    /\ Release(t)
    /\ End(t)
    /\ UNCHANGED <<data, index, view, history>>

\* A refused promotion: what the views wrote meanwhile is copied back.
CopyBack(t) ==
    /\ act[t].at = "copyBack"
    /\ act[t].alive /\ Writable(Source)
    /\ Land(Source, local[Survivor(t)])
    /\ Goto(t, "back")
    /\ UNCHANGED <<server, created, onDisk, index, page, view, lock, saved, faults>>

CopyBackFails(t) ==
    /\ act[t].at = "copyBack"
    /\ \/ /\ ~act[t].alive
          /\ UNCHANGED faults
       \/ Fault
    /\ Goto(t, "back")
    /\ UNCHANGED <<data, index, page, view, lock, history>>

Back(t) ==
    /\ act[t].at = "back"
    /\ view' = IF act[t].moved THEN [view EXCEPT ![t] = Doomed(t)] ELSE view
    /\ End(t)
    /\ UNCHANGED <<data, index, lock, history, faults>>
-----------------------------------------------------------------------------
(* removeLocalCopy(), download(), live replication, and the end of a tab. *)

RemoveLocalCopy(t, p) ==
    /\ act[t].at = "idle" /\ p \in entries \cap created
    /\ act' = [act EXCEPT ![t] = [Idle EXCEPT !.kind = "remove", !.project = p,
                                  !.left = TRANSFER_ATTEMPTS, !.at = "leave"]]
    /\ UNCHANGED <<data, index, page, view, lock, history, faults>>

\* The page is read: the server's projects that no entry matches, by name or id.
Refresh(t) ==
    /\ page' = [page EXCEPT ![t] =
                  {p \in created \ entries : ~(Source \in entries /\ recorded = p)}]
    /\ UNCHANGED <<data, index, view, act, lock, history, faults>>

\* A project the page shows on the server only, as that page was read.
Download(t, p) ==
    /\ act[t].at = "idle" /\ p \in page[t]
    /\ entries' = entries \cup {p}
    /\ onDisk' = onDisk \cup {p}
    /\ UNCHANGED <<local, server, created, recorded, page, view, act, lock, history, faults>>

\* The live sync of a tab that replicates p, in either direction. The tab that
\* removes p has suspended its own; other tabs have not.
SyncedBy(t, p) ==
    /\ p \in onDisk
    /\ ~(act[t].kind = "remove" /\ act[t].project = p)
    /\ \/ p \in Listed
       \/ act[t].kind = "promote" /\ act[t].project = p
LivePush(t, p) ==
    /\ SyncedBy(t, p) /\ ~(local[p] \subseteq server[p])
    /\ server' = [server EXCEPT ![p] = @ \cup local[p]]
    /\ UNCHANGED <<local, created, onDisk, index, page, view, act, lock, history, faults>>
LivePull(t, p) ==
    /\ SyncedBy(t, p) /\ ~(server[p] \subseteq local[p]) /\ Writable(p)
    /\ Land(p, server[p])
    /\ UNCHANGED <<server, created, onDisk, index, page, view, act, lock, saved, faults>>

\* The tab is closed or crashes. The browser lets its locks go.
EndTab(t) ==
    /\ Fault
    /\ Release(t)
    /\ End(t)
    /\ view' = [view EXCEPT ![t] = None]
    /\ UNCHANGED <<data, index, history>>
-----------------------------------------------------------------------------
Proceed(t) ==
    \/ \E p \in Projects : Post(t, p)
    \/ PostFails(t) \/ Record(t) \/ Leave(t) \/ Info(t) \/ Copy(t) \/ Push(t)
    \/ TransferFails(t) \/ Verify(t) \/ Index(t) \/ IndexFails(t)
    \/ Destroy(t) \/ Forget(t) \/ FinishFails(t)
    \/ CopyBack(t) \/ CopyBackFails(t) \/ Back(t)

Next ==
    \E t \in Tabs :
        \/ \E d \in Databases : Open(t, d)
        \/ \E doc \in Docs : Write(t, doc)
        \/ Promote(t)
        \/ Proceed(t)
        \/ Acquire(t)
        \/ \E p \in Projects :
              RemoveLocalCopy(t, p) \/ Download(t, p) \/ LivePush(t, p) \/ LivePull(t, p)
        \/ Refresh(t) \/ EndTab(t)

Spec == Init /\ [][Next]_vars

\* An action that can go on does, and every push ends within its timeout. The
\* browser grants a Web Lock in the order it was asked for: a request that is
\* free to be granted again and again is granted.
Fairness == \A t \in Tabs : WF_vars(Proceed(t)) /\ SF_vars(Acquire(t))
FairSpec == Spec /\ Fairness
-----------------------------------------------------------------------------
(* Properties. *)

TypeOK ==
    /\ local \in [Databases -> SUBSET Docs]
    /\ server \in [Projects -> SUBSET Docs]
    /\ created \subseteq Projects
    /\ onDisk \subseteq Databases
    /\ entries \subseteq Databases
    /\ recorded \in Projects \cup {None}
    /\ page \in [Tabs -> SUBSET Projects]
    /\ view \in [Tabs -> Databases \cup {None}]
    /\ act \in [Tabs -> Work]
    /\ lock \in [Databases -> Tabs \cup {None}]
    /\ saved \subseteq Docs
    /\ late \in [Databases -> SUBSET Docs]
    /\ faults \in 0..MaxFaults

OnServer == UNION {server[p] : p \in created}

\* A database goes only when the server has every document in it. Without Web
\* Locks, all but those saved after the last check of update_seq.
DestroyedIsOnServer ==
    [][\A d \in onDisk \ onDisk' : local[d] \subseteq OnServer \cup late[d]]_vars

\* What a user was told is saved is in some database: the server's, or one this
\* browser still has.
NothingLost ==
    WebLocks => saved \subseteq OnServer \cup UNION {local[d] : d \in onDisk}

\* With one tab, it stays within reach: on the server, in a project the page
\* shows, or in the copy that opening a project of the server opens.
WithinReach ==
    WebLocks => saved \subseteq OnServer \cup UNION {local[d] : d \in Listed \cup created}

\* Actions end: no tab waits for a lock for ever, or for itself.
ActionsEnd == \A t \in Tabs : []<>(act[t].at = "idle")

\* The source that stays behind when only its destroy failed: "its data is on
\* the server".
\* Meant, and not kept: the README says how the code breaks it.
HiddenSourceIsOnServer ==
    Source \in entries \ Listed => local[Source] \subseteq OnServer

\* An unlisted copy a refused promotion leaves "holds nothing the source lacks
\* unless that copy-back itself failed".
\* Meant, and not kept: the README says how the code breaks it.
LeftoverHoldsNothingMore ==
    (\A t \in Tabs : act[t].at = "idle") /\ faults = 0 =>
        \A p \in (onDisk \cap Projects) \ entries : local[p] \subseteq local[Source]
-----------------------------------------------------------------------------
(* The inductive invariant behind DestroyedIsOnServer and NothingLost. *)

\* From the last check of update_seq until the entry is forgotten.
Holding == {"verify", "index", "destroy", "forget"}

\* What the action of t has proved so far: before is what its database held,
\* then what the survivor holds, then what the server holds.
Sound(t) ==
    LET a == act[t] IN
    /\ a.at \notin {"idle", "post"} => a.project \in created
    /\ a.at = "copy" => a.kind = "promote"
    /\ a.at = "copy" /\ a.alive => a.before \subseteq local[Source]
    /\ a.at = "push" /\ a.alive => a.before \subseteq local[a.project]
    /\ a.at \in {"acquire", "verify"} => a.before \subseteq server[a.project]
    /\ a.at \in {"index", "destroy"} =>
          local[Doomed(t)] \subseteq OnServer \cup late[Doomed(t)]
    /\ WebLocks /\ a.at \in Holding => lock[Doomed(t)] = t

IndInv ==
    /\ TypeOK
    /\ recorded \in created \cup {None}
    /\ WebLocks => \A d \in Databases : late[d] = {}
    /\ \A t \in Tabs : Sound(t)
    /\ NothingLost
=============================================================================
