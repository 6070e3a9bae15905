---------------------------- MODULE LocalProjects ----------------------------
(***************************************************************************)
(* The databases of one browser and the index that names them              *)
(* (ui/local-projects.ts, removeLocalDatabases of ui/db/project-database): *)
(* creating, importing, renaming, deleting and adopting a project,         *)
(* detaching the copy of one the server deleted, and signing out.          *)
(*                                                                         *)
(* IndexedDB cannot be enumerated, so a database that no entry names is    *)
(* lost. Every operation therefore orders its writes, and every step       *)
(* between two awaits is a step here. An entry is read and written as      *)
(* AtomicCache says.                                                       *)
(***************************************************************************)
EXTENDS Naturals, Sequences

CONSTANTS
    Tabs,          \* the open tabs of one browser
    Legacy,        \* project_local, the catalogue from before there were projects
    Copy,          \* a copy whose project the server has deleted
    Fresh,         \* names project_local_<uuid> may make
    Docs,          \* devices, each written once
    Archive,       \* the devices of the file an import reads
    MaxAsked,      \* bound: how many operations are asked for
    None           \* no database, no tab

Databases == {Legacy, Copy} \cup Fresh
LocalOnly == {Legacy} \cup Fresh

VARIABLES
    store,         \* [Databases -> what the database holds]
    index,         \* the databases an entry names
    orphan,        \* the databases whose entry has a project id: copies of the server's
    op,            \* [Tabs -> the operation under way]
    lock,          \* [Databases -> the tab that holds its Web Lock exclusively]
    asked,         \* how many operations have been asked for
    saved,         \* history: every device a user was told is saved, and did not delete
    revived,       \* history: databases written after their destruction, and so made again
    cut            \* history: databases an operation was cut off from half way

history == <<saved, revived, cut>>
vars == <<store, index, orphan, op, lock, asked, history>>
-----------------------------------------------------------------------------
\* A database: whether it is there, has its keys and its project document, its
\* devices, and those of them whose codes are not encrypted.
Absent == [there |-> FALSE, keyed |-> FALSE, titled |-> FALSE, docs |-> {}, plain |-> {}]

\* The steps of every operation, in order.
Steps(kind) ==
    CASE kind = "create" -> <<"account", "keys", "title", "list">>
      [] kind = "import" -> <<"account", "keys", "title", "devices", "list">>
      [] kind = "rename" -> <<"entry", "title", "patch">>
      [] kind = "setClient" -> <<"entry", "title", "rewrite">>
      [] kind = "delete" -> <<"lock", "destroy", "unlist">>
      [] kind = "detach" -> <<"entry", "info", "copy", "title", "lock", "verify", "list",
                              "unlist", "destroy">>
      [] kind = "adopt" -> <<"entry", "keys", "title", "seal", "list">>
      [] kind = "signOut" -> <<"entry", "clear", "relist">>
      [] OTHER -> <<"idle">>

Kinds == {"none", "create", "import", "rename", "setClient", "delete", "detach",
          "adopt", "signOut"}

\* An operation: its subject, the database it makes, what it read before (the
\* devices there were, the projects a sign-out keeps), and the attempts it has left.
\* What names and clients say is left out.
Idle == [kind |-> "none", at |-> "idle", on |-> None, makes |-> None,
         before |-> {}, left |-> 0]

\* The database the operation of t writes to, or destroys.
Target(o) == IF o.kind \in {"create", "import", "detach"} THEN o.makes ELSE o.on

DETACH_ATTEMPTS == 2

Position(o) == CHOOSE i \in DOMAIN Steps(o.kind) : Steps(o.kind)[i] = o.at

\* The operation of t goes on, or is done.
Advance(o) ==
    IF Position(o) = Len(Steps(o.kind)) THEN Idle
    ELSE [o EXCEPT !.at = Steps(o.kind)[Position(o) + 1]]
On(t) == op' = [op EXCEPT ![t] = Advance(op[t])]
Release(t) == lock' = [d \in Databases |-> IF lock[d] = t THEN None ELSE lock[d]]

\* A write takes the shared lock of its database.
Writable(d) == lock[d] = None

\* uuid(): a name nothing has used yet.
Unused(d) == d \in Fresh /\ ~store[d].there /\ d \notin index
             /\ \A u \in Tabs : d \notin {op[u].makes, op[u].on} \cup op[u].before

Init ==
    /\ \E old \in SUBSET Docs, theirs \in SUBSET Docs :
          /\ old \cap theirs = {}
          /\ store = [d \in Databases |->
                        CASE d = Legacy -> [Absent EXCEPT !.there = TRUE, !.docs = old,
                                                          !.plain = old]
                          [] d = Copy -> [Absent EXCEPT !.there = TRUE, !.keyed = TRUE,
                                                        !.titled = TRUE, !.docs = theirs]
                          [] OTHER -> Absent]
          /\ saved = old \cup theirs
    /\ index = {Copy}
    /\ orphan = {Copy}
    /\ op = [t \in Tabs |-> Idle]
    /\ lock = [d \in Databases |-> None]
    /\ asked = 0
    /\ revived = {} /\ cut = {}
-----------------------------------------------------------------------------
(* Views, and the beginning of every operation. *)

\* A view saves a device in a listed project, sealed under the project's keys.
Save(d, doc) ==
    /\ d \in index /\ store[d].there /\ Writable(d)
    /\ \A e \in Databases : doc \notin store[e].docs
    /\ doc \notin saved
    /\ store' = [store EXCEPT ![d].docs = @ \cup {doc}]
    /\ saved' = saved \cup {doc}
    /\ UNCHANGED <<asked, index, orphan, op, lock, revived, cut>>

Begin(t, o) ==
    /\ op[t].kind = "none"
    /\ asked < MaxAsked /\ asked' = asked + 1
    /\ op' = [op EXCEPT ![t] = [o EXCEPT !.at = Steps(o.kind)[1]]]
    /\ UNCHANGED <<store, index, orphan, lock, history>>

\* An operation is asked for. Renaming and deleting ask for a listed project,
\* detaching for a listed copy, and adoption runs with every page that is read.
Ask(t) ==
    \/ \E d \in Fresh, kind \in {"create", "import"} :
          Unused(d) /\ Begin(t, [Idle EXCEPT !.kind = kind, !.makes = d])
    \/ \E d \in index \cap LocalOnly, kind \in {"rename", "setClient"} :
          Begin(t, [Idle EXCEPT !.kind = kind, !.on = d])
    \/ \E d \in index : Begin(t, [Idle EXCEPT !.kind = "delete", !.on = d])
    \/ \E d \in Fresh :
          /\ Unused(d) /\ Copy \in index
          /\ Begin(t, [Idle EXCEPT !.kind = "detach", !.on = Copy, !.makes = d,
                                   !.left = DETACH_ATTEMPTS])
    \/ Begin(t, [Idle EXCEPT !.kind = "adopt", !.on = Legacy])
    \/ Begin(t, [Idle EXCEPT !.kind = "signOut"])
-----------------------------------------------------------------------------
(* The steps. *)

\* account(): who is signed in is known, before anything is written.
Account(t) ==
    /\ op[t].at = "account"
    /\ On(t)
    /\ UNCHANGED <<asked, store, index, orphan, lock, history>>

\* The entry, or the whole index, is read. An operation whose entry is gone
\* fails, and a catalogue that is listed is not adopted again; nor is an empty
\* one, on a device that has known a project (if only from a server list, which
\* is not modelled: adoption may end here anyway, as Fail says).
Entry(t) ==
    /\ op[t].at = "entry"
    /\ LET o == op[t]
           goesOn == CASE o.kind = "adopt" ->
                            /\ Legacy \notin index
                            /\ store[Legacy].titled \/ store[Legacy].docs # {} \/ index = {}
                       [] o.kind = "signOut" -> TRUE
                       [] OTHER -> o.on \in index
           kept == IF o.kind = "signOut" THEN index \cap LocalOnly ELSE o.before
       IN  op' = [op EXCEPT ![t] =
                    IF goesOn THEN Advance([o EXCEPT !.before = kept])
                    ELSE Idle]
    /\ UNCHANGED <<asked, store, index, orphan, lock, history>>

\* The keys come before anything they protect. A catalogue keeps the ones it has.
EnsureKeys(t) ==
    LET d == Target(op[t]) IN
    /\ op[t].at = "keys" /\ Writable(d)
    /\ store' = [store EXCEPT ![d].there = TRUE, ![d].keyed = TRUE]
    /\ revived' = IF d = Legacy /\ ~store[d].there THEN revived \cup {d} ELSE revived
    /\ On(t)
    /\ UNCHANGED <<asked, index, orphan, lock, saved, cut>>

\* writeProjectDocument(): opening a database that is gone makes it again.
Title(t) ==
    LET d == Target(op[t]) IN
    /\ op[t].at = "title" /\ Writable(d)
    /\ store' = [store EXCEPT ![d].there = TRUE, ![d].titled = TRUE]
    /\ revived' = IF store[d].there THEN revived ELSE revived \cup {d}
    /\ On(t)
    /\ UNCHANGED <<asked, index, orphan, lock, saved, cut>>

\* The devices of an import are written one after another.
Devices(t) ==
    LET d == op[t].makes
        missing == Archive \ store[d].docs
    IN  /\ op[t].at = "devices" /\ Writable(d)
        /\ IF missing = {} THEN On(t) /\ UNCHANGED store
           ELSE /\ \E doc \in missing : store' = [store EXCEPT ![d].docs = @ \cup {doc}]
                /\ UNCHANGED op
        /\ UNCHANGED <<asked, index, orphan, lock, history>>

\* encryptPlaintextDevices(): only what is not sealed yet is written again.
Seal(t) ==
    /\ op[t].at = "seal" /\ Writable(Legacy)
    /\ IF store[Legacy].plain = {} THEN On(t) /\ UNCHANGED store
       ELSE /\ \E doc \in store[Legacy].plain :
                  store' = [store EXCEPT ![Legacy].plain = @ \ {doc}]
            /\ UNCHANGED op
    /\ UNCHANGED <<asked, index, orphan, lock, history>>

\* addLocalProject(): whatever the entry said, or did not, it says this now.
List(t) ==
    LET d == Target(op[t]) IN
    /\ op[t].at \in {"list", "rewrite"}
    /\ index' = index \cup {d}
    /\ orphan' = orphan \ {d}
    /\ On(t)
    /\ UNCHANGED <<asked, store, lock, history>>

\* updateLocalProject(): an entry that is gone stays gone.
Patch(t) ==
    /\ op[t].at = "patch"
    /\ On(t)
    /\ UNCHANGED <<asked, store, index, orphan, lock, history>>
-----------------------------------------------------------------------------
(* detachOrphanedProject(), and destroying. *)

\* update_seq before the copy: it moves with every write.
Info(t) ==
    /\ op[t].at = "info" /\ store[op[t].on].there
    /\ op' = [op EXCEPT ![t] = Advance([op[t] EXCEPT !.before = store[op[t].on].docs])]
    /\ UNCHANGED <<asked, store, index, orphan, lock, history>>

\* Everything but the project document is copied; copying again adds what is missing.
CopyOver(t) ==
    LET o == op[t] IN
    /\ o.at = "copy" /\ store[o.on].there
    /\ store' = [store EXCEPT ![o.makes].there = TRUE, ![o.makes].keyed = store[o.on].keyed,
                              ![o.makes].docs = @ \cup store[o.on].docs]
    /\ On(t)
    /\ UNCHANGED <<asked, index, orphan, lock, history>>

\* The exclusive lock is granted.
Lock(t) ==
    LET d == op[t].on IN
    /\ op[t].at = "lock" /\ lock[d] = None
    /\ lock' = [lock EXCEPT ![d] = t]
    /\ On(t)
    /\ UNCHANGED <<asked, store, index, orphan, history>>

\* Mutant: the sequence is compared, and the entry is not read again.
VerifySequenceOnly(t) ==
    LET o == op[t] IN
    /\ o.at = "verify"
    /\ IF store[o.on].docs # o.before
       THEN /\ Release(t)
            /\ op' = [op EXCEPT ![t] = [o EXCEPT !.at = "info", !.left = @ - 1]]
       ELSE On(t) /\ UNCHANGED lock
    /\ UNCHANGED <<asked, store, index, orphan, history>>

\* Under the lock: the copy is given up if another tab's detachment is done,
\* made again, once, if the source has been written to, and else it is whole.
Verify(t) ==
    LET o == op[t] IN
    /\ o.at = "verify"
    /\ IF o.on \notin index \cap orphan
       THEN Release(t) /\ op' = [op EXCEPT ![t].at = "discard"]
       ELSE IF ~store[o.on].there \/ store[o.on].docs # o.before
       THEN /\ Release(t)
            /\ op' = [op EXCEPT ![t] =
                        IF o.left > 1 THEN [o EXCEPT !.at = "info", !.left = @ - 1]
                        ELSE [o EXCEPT !.at = "discard"]]
       ELSE On(t) /\ UNCHANGED lock
    /\ UNCHANGED <<asked, store, index, orphan, history>>

\* removeLocalProject().
Unlist(t) ==
    LET d == op[t].on IN
    /\ op[t].at = "unlist"
    /\ index' = index \ {d}
    /\ orphan' = orphan \ {d}
    /\ IF op[t].kind = "delete" THEN Release(t) ELSE UNCHANGED lock
    /\ On(t)
    /\ UNCHANGED <<asked, store, history>>

\* A database is destroyed. What a user deletes is deleted on purpose; what a
\* detachment destroys has been copied. Its failure is swallowed by the latter.
Destroy(t) ==
    LET d == op[t].on IN
    /\ op[t].at = "destroy"
    /\ \/ store' = [store EXCEPT ![d] = Absent]
       \/ op[t].kind = "detach" /\ UNCHANGED store
    /\ saved' = IF op[t].kind = "delete" THEN saved \ store[d].docs ELSE saved
    /\ IF op[t].kind = "detach" THEN Release(t) ELSE UNCHANGED lock
    /\ On(t)
    /\ UNCHANGED <<asked, index, orphan, revived, cut>>

\* A copy or an import that did not become a project leaves no trace, unless its
\* destruction fails as well.
Discard(t) ==
    /\ op[t].at = "discard"
    /\ \/ store' = [store EXCEPT ![op[t].makes] = Absent]
       \/ UNCHANGED store
    /\ op' = [op EXCEPT ![t] = Idle]
    /\ UNCHANGED <<asked, index, orphan, lock, history>>
-----------------------------------------------------------------------------
(* removeLocalDatabases(): signing out, with the local catalogue left alone. *)

\* mm-local and every copy of a server project go. An entry made since the index
\* was read goes with it, and so does what an operation of another tab does next.
Clear(t) ==
    /\ op[t].at = "clear"
    /\ index' = {}
    /\ store' = [store EXCEPT ![Copy] = Absent]
    /\ saved' = saved \ store[Copy].docs
    /\ orphan' = {}
    /\ cut' = cut \cup ((index \cap LocalOnly) \ op[t].before)
    /\ On(t)
    /\ UNCHANGED <<asked, lock, revived>>

\* The local projects are listed again, one by one, in the new mm-local.
Relist(t) ==
    /\ op[t].at = "relist"
    /\ IF op[t].before = {} THEN On(t) /\ UNCHANGED index
       ELSE \E d \in op[t].before :
              /\ index' = index \cup {d}
              /\ op' = [op EXCEPT ![t].before = @ \ {d}]
    /\ UNCHANGED <<asked, store, orphan, lock, history>>
-----------------------------------------------------------------------------
(* Failure. *)

\* What is left half done when the operation of t is cut off: the source of a
\* detachment whose copy is listed, and the entries a sign-out has not restored.
HalfDone(t) ==
    CASE op[t].kind = "detach" /\ op[t].at \in {"unlist", "destroy"} -> {op[t].on}
      [] op[t].at = "relist" -> op[t].before
      [] OTHER -> {}

\* A step fails: an import or a copy that is not listed yet is discarded.
Fail(t) ==
    /\ op[t].at \notin {"idle", "discard", "clear"}
    /\ LET discards == \/ op[t].kind = "import" /\ op[t].at # "account"
                       \/ op[t].kind = "detach"
                          /\ op[t].at \notin {"entry", "unlist", "destroy"}
       IN  op' = [op EXCEPT ![t] = IF discards THEN [@ EXCEPT !.at = "discard"] ELSE Idle]
    /\ Release(t)
    /\ cut' = cut \cup HalfDone(t)
    /\ UNCHANGED <<asked, store, index, orphan, saved, revived>>

\* Mutant: a tab that ends takes its locks with it.
EndTabHolding(t) ==
    /\ op[t].at # "idle"
    /\ op' = [op EXCEPT ![t] = Idle]
    /\ cut' = cut \cup HalfDone(t)
    /\ UNCHANGED <<asked, store, index, orphan, lock, saved, revived>>

\* The tab is closed, at any step.
EndTab(t) ==
    /\ op[t].at # "idle"
    /\ op' = [op EXCEPT ![t] = Idle]
    /\ Release(t)
    /\ cut' = cut \cup HalfDone(t)
    /\ UNCHANGED <<asked, store, index, orphan, saved, revived>>

Step(t) ==
    \/ Account(t) \/ Entry(t) \/ EnsureKeys(t) \/ Title(t) \/ Devices(t) \/ Seal(t)
    \/ List(t) \/ Patch(t) \/ Info(t) \/ CopyOver(t) \/ Lock(t) \/ Verify(t)
    \/ Unlist(t) \/ Destroy(t) \/ Discard(t) \/ Clear(t) \/ Relist(t)

Next ==
    \/ \E d \in Databases, doc \in Docs : Save(d, doc)
    \/ \E t \in Tabs : Ask(t) \/ Step(t) \/ Fail(t) \/ EndTab(t)

Spec == Init /\ [][Next]_vars
-----------------------------------------------------------------------------
(* Properties. *)

Tabled == [kind : Kinds, on : Databases \cup {None}, makes : Fresh \cup {None},
           before : SUBSET (Docs \cup Archive \cup Databases), left : 0..DETACH_ATTEMPTS,
           at : {"idle", "account", "keys", "title", "devices", "list", "entry", "patch",
                 "rewrite", "lock", "destroy", "unlist", "info", "copy", "verify", "seal",
                 "clear", "relist", "discard"}]

\* The databases and the index are well typed, and only a lock's holder holds it.
TypeOK ==
    /\ \A d \in Databases : /\ store[d].docs \subseteq Docs \cup Archive
                            /\ store[d].plain \subseteq store[d].docs
                            /\ ~store[d].there => store[d] = Absent
    /\ index \subseteq Databases /\ orphan \subseteq {Copy}
    /\ op \in [Tabs -> Tabled]
    /\ \A d \in Databases : lock[d] # None => op[lock[d]].on = d

\* The databases a page shows, now or once what is under way is done: the listed
\* ones, the catalogue (which the next page adopts), and what a sign-out keeps.
WithinReach == index \cup {Legacy} \cup cut
               \cup UNION {op[t].before : t \in {u \in Tabs : op[u].at = "relist"}}

\* No device a user saved, and did not delete, is left in a database nothing
\* names: copies are listed before their source goes, and databases are
\* destroyed before they are forgotten (detachOrphanedProject, destroyLocalProject).
\* Excepted are the databases an operation was cut off from.
NothingStranded ==
    \A doc \in saved : \E d \in WithinReach \cap Databases : doc \in store[d].docs

\* A detachment never lists a project twice, however many tabs detach it at once:
\* a device is in one listed project, except between the listing of the copy and
\* the removal of its source, and after a detachment cut off between the two.
ListedOnce ==
    \/ cut # {} \/ \E t \in Tabs : op[t].kind = "detach" /\ op[t].at = "unlist"
    \/ \A doc \in saved, d, e \in index :
          doc \in store[d].docs /\ doc \in store[e].docs => d = e

\* A listed project is a whole one: keyed, titled, and with all of its archive
\* if it was imported; and a listed catalogue has no code in the clear. (The entry
\* is written last by every operation that makes a project.)
ListedIsWhole ==
    \A d \in index \cap LocalOnly :
       store[d].there /\ d \notin revived =>
          /\ store[d].keyed /\ store[d].titled /\ store[d].plain = {}
          /\ store[d].docs \cap Archive # {} => Archive \subseteq store[d].docs
=============================================================================
