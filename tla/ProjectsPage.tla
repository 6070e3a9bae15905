---------------------------- MODULE ProjectsPage ----------------------------
(***************************************************************************)
(* The shell's projects in one tab (ui/projects-controller.ts): the facts  *)
(* it reads, the list it fetches, the open project, and which copies it    *)
(* hands to replication (ui/sync/manager.ts), while project actions        *)
(* (ui/project-actions.ts) change the index under it and hold it off       *)
(* (ui/project-busy.ts).                                                   *)
(*                                                                         *)
(* Every step between two awaits is a step here. Promotion, and what a     *)
(* removal proves before it destroys, are ProjectTransfer's.               *)
(***************************************************************************)
EXTENDS ProjectsModel, TLC

CONSTANTS Projects,        \* the server's projects, and their databases' names
          Owned,           \* those that are this account's own
          Home,            \* the first-run catalogue, adopted
          RescuedAs,       \* [Projects -> the database an orphan's data is kept in]
          Workers,         \* the actions the page and the shell can have running
          MaxTurns         \* bound: actions chosen, sessions begun, changes made elsewhere

Databases == Projects \cup LocalOnly
RoleOf(p) == IF p \in Owned THEN "owner" ELSE "write"
Generations == 1..(MaxTurns + 1)

\* A local-only database has no project's name, and there are names for what is kept.
ASSUME PageAssumption ==
    /\ Projects \cap LocalOnly = {} /\ None \notin Projects
    /\ Home \in LocalOnly /\ RescuedAs \in [Projects -> LocalOnly] /\ MaxTurns \in Nat

VARIABLES
    server,      \* [Projects -> what the server says of the project]
    turns,       \* how many actions, sessions and changes elsewhere there were
    index,       \* the databases the local index lists
    cached,      \* the list last remembered
    session, generation,
    manager,     \* [Generations -> its replications: running, known, suspended]
    fresh,       \* this session's list
    undetached,  \* the orphans whose detachment failed under this list
    facts,       \* what was last read: local, list, stale
    fetches,     \* the requests for the list that are under way
    queued,      \* whether a read waits its turn; a second would do what it does
    read,        \* the read whose turn it is
    act,         \* [Workers -> the action it runs]
    view,        \* the database the views are on
    gone,        \* history: the databases destroyed and not opened or downloaded since
    removed      \* history: the copies a reader removed or deleted and did not download since

session_vars == <<session, generation>>
action_vars == <<act, turns>>
history == <<gone, removed>>
shown_vars == <<facts, view>>
list_vars == <<fresh, undetached, cached>>
vars == <<server, index, session_vars, manager, list_vars, shown_vars, fetches,
          queued, read, action_vars, history>>
-----------------------------------------------------------------------------
Entry(d) == IF d \in Projects THEN [db |-> d, id |-> d, role |-> RoleOf(d)]
            ELSE [db |-> d, id |-> None, role |-> None]

ServerList == {[id |-> p, role |-> RoleOf(p), archived |-> server[p] = "archived",
                readOnly |-> FALSE, grace |-> FALSE] : p \in {p \in Projects : server[p] # "gone"}}

\* input(): a list is fresh only in the session that fetched it.
InputOf(f) ==
    Input({Entry(d) : d \in f.local}, f.list, f.stale \/ ~session,
          IF session THEN "signed-in" ELSE "signed-out", TRUE, TRUE, Unlimited)
Page == InputOf(facts)
RowsOf(d) == {row \in Rows(Page) : row.db = d}

Quit == [running |-> {}, known |-> {}, suspended |-> {}]

\* The manager of this session, or none; the manager an action was given.
Sync == IF session THEN generation ELSE 0
With(g, m) == IF g = 0 THEN manager ELSE [manager EXCEPT ![g] = m]
Of(g) == IF g = 0 THEN Quit ELSE manager[g]

\* What is no longer listed stops, what runs is left alone, and what is suspended
\* is known and not started.
SetTo(m, wanted) ==
    [m EXCEPT !.running = (@ \cap wanted) \cup (wanted \ m.suspended), !.known = wanted]

Suspend(m, p) == [m EXCEPT !.suspended = @ \cup {p}, !.running = @ \ {p}]

Resume(m, p) ==
    IF p \notin m.suspended THEN m
    ELSE [m EXCEPT !.suspended = @ \ {p}, !.running = @ \cup ({p} \cap m.known)]

NoRead == [at |-> "idle", generation |-> 0, spanned |-> FALSE, facts |-> {}, todo |-> {},
           current |-> None, detached |-> FALSE]
NoAct == [kind |-> "none", project |-> None, at |-> "idle", sync |-> 0, rows |-> {}, left |-> FALSE]

Running(w) == act[w].at \notin {"idle", "refresh"}
Busy == \E w \in Workers : Running(w)
Detaching == read.at \in {"detach", "detached"}

\* Mutant: the epoch does not move.
SpannedNever == read

\* The epoch moved: a read begun before cannot be applied.
Spanned == IF read.at = "idle" THEN read ELSE [read EXCEPT !.spanned = TRUE]

\* refresh(true) asks for the list; its answer, or failure, queues the read.
Fetch == fetches \cup {[generation |-> generation, list |-> None]}

\* A device that has downloaded every project in an earlier session.
Init ==
    /\ server = [p \in Projects |-> "active"] /\ turns = 0
    /\ index = Projects \cup {Home} /\ cached = None
    /\ session = FALSE /\ generation = 1
    /\ manager = [g \in Generations |-> Quit]
    /\ fresh = None /\ undetached = {}
    /\ facts = [local |-> {}, list |-> None, stale |-> TRUE]
    /\ fetches = {} /\ queued = TRUE /\ read = NoRead
    /\ act = [w \in Workers |-> NoAct]
    /\ view = Home /\ gone = {} /\ removed = {}
-----------------------------------------------------------------------------
(* The server and the network. *)

\* Another device archives, restores or deletes a project, or takes its share back.
ServerMoves(p) ==
    /\ turns < MaxTurns /\ turns' = turns + 1 /\ server[p] # "gone"
    /\ \E s \in {"active", "archived", "gone"} \ {server[p]} : server' = [server EXCEPT ![p] = s]
    /\ UNCHANGED <<index, session_vars, manager, list_vars, shown_vars, fetches, queued, read,
                   act, history>>

\* A connection regained asks for the list. Losing one is seen only in what then fails.
Regains ==
    /\ session /\ fetches = {} /\ fetches' = Fetch
    /\ UNCHANGED <<server, index, session_vars, manager, list_vars, shown_vars,
                   queued, read, action_vars, history>>

\* A list request is answered, and its answer arrives later.
Answered(f) ==
    /\ f \in fetches /\ f.list = None
    /\ fetches' = (fetches \ {f}) \cup {[f EXCEPT !.list = ServerList]}
    /\ UNCHANGED <<server, index, session_vars, manager, list_vars, shown_vars, queued,
                   read, action_vars, history>>

\* The answer, or a failure, arrives. It is remembered whoever asked, and taken for
\* the session's only by the session that did.
Lands(f) ==
    /\ f \in fetches
    /\ fetches' = fetches \ {f}
    /\ cached' = IF f.list = None THEN cached ELSE f.list
    /\ IF f.generation = generation
         THEN fresh' = f.list /\ undetached' = {} /\ queued' = TRUE
         ELSE UNCHANGED <<fresh, undetached, queued>>
    /\ UNCHANGED <<server, index, session_vars, manager, shown_vars, read, action_vars, history>>

-----------------------------------------------------------------------------
(* The session. *)

\* The refresher's first answer since the last session: start().
SignIn ==
    /\ ~session /\ turns < MaxTurns /\ turns' = turns + 1
    /\ session' = TRUE
    /\ fetches' = Fetch
    /\ UNCHANGED <<server, index, generation, manager, list_vars, shown_vars,
                   queued, read, act, history>>

\* end(): the generation first, then whatever it replicated and knew. A sign-out whose
\* session ended by itself has nothing left to end.
EndSession ==
    /\ session' = FALSE
    /\ generation' = IF session THEN generation + 1 ELSE generation
    /\ manager' = With(Sync, Quit)
    /\ fresh' = None /\ undetached' = {}

\* The session ends without a sign-out here; the copies stay.
Expires ==
    /\ session /\ EndSession
    /\ queued' = TRUE
    /\ UNCHANGED <<server, index, cached, shown_vars, fetches, read, action_vars, history>>
-----------------------------------------------------------------------------
(* Reads, one at a time. *)

\* read() begins: the generation and the epoch are taken down.
ReadBegins ==
    /\ queued /\ read.at = "idle"
    /\ queued' = FALSE
    /\ read' = [NoRead EXCEPT !.at = "facts", !.generation = generation]
    /\ UNCHANGED <<server, index, session_vars, manager, list_vars, shown_vars, fetches,
                   action_vars, history>>

\* The list to read by is settled, then the index is read, and the remembered list
\* where there is none of this session's.
ReadFacts ==
    LET list == IF session THEN fresh ELSE None IN
    /\ read.at = "facts"
    /\ read' = [read EXCEPT
                 !.at = "apply",
                 !.facts = [local |-> index, stale |-> list = None,
                            list |-> IF list # None THEN list
                                     ELSE IF cached = {} THEN None ELSE cached]]
    /\ UNCHANGED <<server, index, session_vars, manager, list_vars, shown_vars, fetches,
                   queued, action_vars, history>>

\* apply(): the open project, and what replicates; nothing while an action runs.
Apply(f) ==
    IF Busy THEN UNCHANGED <<view, manager>>
    ELSE /\ \E target \in Resolve(view, InputOf(f), Home) : view' = target.db
         /\ manager' = With(Sync, SetTo(Of(Sync), Synchronized(InputOf(f))))

Stale(r) == r.generation # generation \/ r.spanned

Orphans(f) == {row.db : row \in DetachableOrphans(InputOf(f))} \ undetached

\* The facts are shown; then the orphans go, or the facts are applied.
ReadShows ==
    /\ read.at = "apply"
    /\ IF Stale(read) THEN read' = NoRead /\ UNCHANGED <<facts, view, manager>>
       ELSE /\ facts' = read.facts
            /\ IF Orphans(read.facts) # {}
                 THEN /\ read' = [read EXCEPT !.at = "detach", !.facts = {},
                                              !.todo = Orphans(read.facts)]
                      /\ UNCHANGED <<view, manager>>
                 ELSE read' = NoRead /\ Apply(read.facts)
    /\ UNCHANGED <<server, index, session_vars, list_vars, fetches, queued, action_vars, history>>

\* detachOrphans(): one orphan after another is held still...
DetachBegins(d) ==
    /\ read.at = "detach" /\ read.current = None /\ d \in read.todo
    /\ read.generation = generation
    /\ manager' = With(Sync, Suspend(Of(Sync), d))
    /\ read' = [read EXCEPT !.current = d, !.todo = @ \ {d}]
    /\ UNCHANGED <<server, index, session_vars, list_vars, shown_vars, fetches, queued,
                   action_vars, history>>

\* ...copied and destroyed, if it is still listed, with the views moved onto the copy...
DetachDone ==
    LET d == read.current IN
    /\ read.at = "detach" /\ d # None
    /\ IF d \in index
         THEN /\ index' = (index \ {d}) \cup {RescuedAs[d]}
              /\ gone' = (gone \cup {d}) \ {RescuedAs[d]}
              /\ view' = IF view = d THEN RescuedAs[d] ELSE view
         ELSE UNCHANGED <<index, gone, view>>
    /\ read' = [read EXCEPT !.at = "detached", !.detached = TRUE]
    /\ UNCHANGED <<server, session_vars, manager, list_vars, facts, fetches, queued, action_vars,
                   removed>>

\* ...or left as it was, until another list comes...
DetachFails ==
    /\ read.at = "detach" /\ read.current # None
    /\ undetached' = undetached \cup {read.current}
    /\ read' = [read EXCEPT !.at = "detached"]
    /\ UNCHANGED <<server, index, session_vars, manager, fresh, cached, shown_vars,
                   fetches, queued, action_vars, history>>

\* ...and let go.
DetachResumes ==
    /\ read.at = "detached"
    /\ manager' = With(Sync, Resume(Of(Sync), read.current))
    /\ read' = [read EXCEPT !.at = "detach", !.current = None]
    /\ UNCHANGED <<server, index, session_vars, list_vars, shown_vars, fetches, queued,
                   action_vars, history>>

\* The action ends. If nothing was detached, the facts are applied after all.
DetachEnds ==
    /\ read.at = "detach" /\ read.current = None
    /\ read.todo = {} \/ read.generation # generation
    /\ queued' = (queued \/ ~Busy)
    /\ IF read.detached THEN UNCHANGED <<view, manager>> ELSE Apply(facts)
    /\ read' = NoRead
    /\ UNCHANGED <<server, index, session_vars, list_vars, facts, fetches, action_vars, history>>
-----------------------------------------------------------------------------
(* Project actions. *)

\* A project is opened. A database that is not on this device is made.
Open(d) ==
    /\ \E row \in RowsOf(d) : MayOpen(Page, row)
    /\ view # d /\ view' = d /\ gone' = gone \ {d} /\ UNCHANGED removed
    /\ UNCHANGED <<server, index, session_vars, manager, list_vars, facts, fetches,
                   queued, read, action_vars>>

\* The page's own row of d, and where the views go when d is to be destroyed.
Elsewhere(d) ==
    LET here == {row \in Rows(Page) : row.db # d /\ row.kind \notin {"server", "grace-archived"}}
        local == {row \in here : row.id = None} IN
    IF local # {} THEN {row.db : row \in local}
    ELSE IF here # {} THEN {row.db : row \in here} ELSE {Home}

\* An action that destroys d leaves it first.
Leave(d) == IF view = d THEN view' \in Elsewhere(d) ELSE view' = view

Start(w, kind, d, at) ==
    /\ act[w].at = "idle" /\ turns < MaxTurns /\ turns' = turns + 1
    /\ act' = [act EXCEPT ![w] = [NoAct EXCEPT
                 !.kind = kind, !.project = d, !.at = at, !.sync = Sync,
                 !.rows = Synchronized(Page), !.left = view = d]]
    /\ read' = Spanned

Goto(w, at) == act' = [act EXCEPT ![w].at = at] /\ UNCHANGED turns

\* Mutant: letting go asks for nothing.
LetGoQuietly(w, fetch) ==
    /\ act' = [act EXCEPT ![w] = IF fetch THEN [NoAct EXCEPT !.at = "refresh"] ELSE NoAct]
    /\ UNCHANGED turns
    /\ read' = Spanned
    /\ UNCHANGED <<fetches, queued>>

\* The action of w lets go: the index is read again once none runs, and after a
\* success the list is fetched again too.
LetGo(w, fetch) ==
    LET idle == ~Detaching /\ \A v \in Workers \ {w} : ~Running(v) IN
    /\ act' = [act EXCEPT ![w] = IF fetch THEN [NoAct EXCEPT !.at = "refresh"] ELSE NoAct]
    /\ UNCHANGED turns
    /\ read' = Spanned
    /\ fetches' = IF fetch /\ session THEN Fetch ELSE fetches
    /\ queued' = (queued \/ idle \/ (fetch /\ ~session))

\* The page offers nothing more until its list is there and read.
Refreshed(w) ==
    /\ act[w].at = "refresh" /\ fetches = {} /\ ~queued /\ read.at = "idle"
    /\ act' = [act EXCEPT ![w] = NoAct] /\ UNCHANGED turns
    /\ UNCHANGED <<server, index, session_vars, manager, list_vars, shown_vars, fetches,
                   queued, read, history>>

Download(w, d) ==
    /\ \E row \in RowsOf(d) : MayDownload(Page, row)
    /\ Start(w, "download", d, "list")
    /\ UNCHANGED <<server, index, session_vars, manager, list_vars, shown_vars, fetches,
                   queued, history>>

\* A copy, held still for as long as the action runs.
RemoveLocal(w, d) ==
    /\ \E row \in RowsOf(d) : MayRemoveLocal(Page, row)
    /\ Start(w, "remove", d, "push")
    /\ manager' = With(Sync, Suspend(Of(Sync), d))
    /\ Leave(d)
    /\ UNCHANGED <<server, index, session_vars, list_vars, facts, fetches, queued, history>>

DeleteLocal(w, d) ==
    /\ d # Home /\ \E row \in RowsOf(d) : MayDeleteLocal(row)
    /\ Start(w, "delete", d, "destroy")
    /\ manager' = IF d \in Projects THEN With(Sync, Suspend(Of(Sync), d)) ELSE manager
    /\ Leave(d)
    /\ UNCHANGED <<server, index, session_vars, list_vars, facts, fetches, queued, history>>

RemoveServer(w, d) ==
    /\ \E row \in RowsOf(d) : MayRemoveServer(Page, row)
    /\ Start(w, "archive", d, "ask")
    /\ UNCHANGED <<server, index, session_vars, manager, list_vars, shown_vars, fetches,
                   queued, history>>

Restore(w, d) ==
    /\ \E row \in RowsOf(d) : MayRestore(Page, row)
    /\ Start(w, "restore", d, "ask")
    /\ UNCHANGED <<server, index, session_vars, manager, list_vars, shown_vars, fetches,
                   queued, history>>

\* A downloaded project is listed before it replicates.
Lists(w) ==
    /\ act[w].at = "list"
    /\ index' = index \cup {act[w].project} /\ gone' = gone \ {act[w].project}
    /\ removed' = removed \ {act[w].project}
    /\ Goto(w, "set")
    /\ UNCHANGED <<server, session_vars, manager, list_vars, shown_vars, fetches, queued, read>>

\* A push resolves only when the server took everything.
Pushes(w) ==
    /\ act[w].at = "push"
    /\ server[act[w].project] = "active"
    /\ act[w].project \in Of(act[w].sync).known
    /\ Goto(w, "destroy")
    /\ UNCHANGED <<server, index, session_vars, manager, list_vars, shown_vars, fetches,
                   queued, read, history>>

\* A push, or the check after it, refuses: the views go back. A destroy that fails leaves
\* them where they are, and the project listed (resuming what was not held does nothing).
Refused(w) ==
    /\ act[w].at \in {"push", "destroy"}
    /\ view' = IF act[w].at = "push" /\ act[w].left THEN act[w].project ELSE view
    /\ manager' = With(act[w].sync, Resume(Of(act[w].sync), act[w].project))
    /\ LetGo(w, FALSE)
    /\ UNCHANGED <<server, index, session_vars, list_vars, facts, history>>

Destroys(w) ==
    LET d == act[w].project IN
    /\ act[w].at = "destroy"
    /\ index' = index \ {d} /\ gone' = gone \cup {d} /\ removed' = removed \cup {d}
    /\ Goto(w, "set")
    /\ UNCHANGED <<server, session_vars, manager, list_vars, shown_vars, fetches, queued, read>>

\* PATCH /projects/:id, which the server may refuse or never hear.
Patches(w) ==
    LET d == act[w].project
        wanted == IF act[w].kind = "archive" THEN "archived" ELSE "active" IN
    /\ act[w].at = "ask"
    /\ server[d] # "gone"
    /\ server' = [server EXCEPT ![d] = wanted]
    /\ Goto(w, "set")
    /\ UNCHANGED <<index, session_vars, manager, list_vars, shown_vars, fetches, queued,
                   read, history>>

Fails(w) ==
    /\ act[w].at = "ask"
    /\ LetGo(w, FALSE)
    /\ UNCHANGED <<server, index, session_vars, manager, list_vars, shown_vars, history>>

\* Replication is handed what the page showed when the action was chosen, changed by
\* what it did; dropped before the hold is lifted.
Wanted(a) == IF a.kind \in {"download", "restore"} THEN a.rows \cup {a.project}
             ELSE a.rows \ {a.project}

Sets(w) ==
    LET a == act[w] IN
    /\ a.at = "set"
    /\ manager' = IF a.project \in LocalOnly THEN manager
                  ELSE With(a.sync, Resume(SetTo(Of(a.sync), Wanted(a)), a.project))
    /\ LetGo(w, TRUE)
    /\ UNCHANGED <<server, index, session_vars, list_vars, shown_vars, history>>
-----------------------------------------------------------------------------
(* Signing out is held like a project action (app-shell.ts). *)

SignOut(w) ==
    /\ session
    /\ Start(w, "signOut", None, "check")
    /\ UNCHANGED <<server, index, session_vars, manager, list_vars, shown_vars, fetches,
                   queued, history>>

\* Copies that could not be pushed are named, and the reader may leave it at that.
Declined(w) ==
    /\ act[w].at = "check"
    /\ LetGo(w, FALSE)
    /\ UNCHANGED <<server, index, session_vars, manager, list_vars, shown_vars, history>>

Ends(w) ==
    /\ act[w].at = "check"
    /\ EndSession
    /\ Goto(w, "clear")
    /\ UNCHANGED <<server, index, cached, shown_vars, fetches, queued, read, history>>

\* Mutant: local-only projects are taken as well.
ClearsAll(w) ==
    /\ act[w].at = "clear"
    /\ index' = {} /\ gone' = gone \cup index /\ UNCHANGED removed
    /\ cached' = None
    /\ act' = [act EXCEPT ![w] = NoAct] /\ UNCHANGED turns /\ read' = Spanned
    /\ fetches' = {} /\ queued' = TRUE
    /\ UNCHANGED <<server, session_vars, manager, fresh, undetached, shown_vars>>

\* The account's copies and all that was remembered go; an answer under way finds
\* its cache destroyed.
Clears(w) ==
    /\ act[w].at = "clear"
    /\ index' = index \ Projects /\ gone' = gone \cup (index \cap Projects)
    /\ UNCHANGED removed
    /\ cached' = None
    /\ act' = [act EXCEPT ![w] = NoAct] /\ UNCHANGED turns /\ read' = Spanned
    /\ fetches' = {} /\ queued' = TRUE
    /\ UNCHANGED <<server, session_vars, manager, fresh, undetached, shown_vars>>

-----------------------------------------------------------------------------
Environment ==
    \/ \E p \in Projects : ServerMoves(p)
    \/ Regains \/ SignIn \/ Expires
    \/ \E f \in fetches : Answered(f) \/ Lands(f)

Reading ==
    \/ ReadBegins \/ ReadFacts \/ ReadShows
    \/ \E d \in Projects : DetachBegins(d)
    \/ DetachDone \/ DetachFails \/ DetachResumes \/ DetachEnds

Choosing(w) ==
    \/ \E d \in Databases :
         Download(w, d) \/ RemoveLocal(w, d) \/ DeleteLocal(w, d) \/ RemoveServer(w, d) \/ Restore(w, d)
    \/ SignOut(w)

Acting(w) ==
    \/ Lists(w) \/ Pushes(w) \/ Refused(w) \/ Destroys(w) \/ Patches(w) \/ Fails(w) \/ Sets(w)
    \/ Declined(w) \/ Ends(w) \/ Clears(w) \/ Refreshed(w)

Next ==
    \/ Environment \/ Reading
    \/ \E d \in Databases : Open(d)
    \/ \E w \in Workers : Choosing(w) \/ Acting(w)

Spec == Init /\ [][Next]_vars
-----------------------------------------------------------------------------
(* Properties. *)

TypeOK ==
    /\ server \in [Projects -> {"active", "archived", "gone"}] /\ turns \in 0..MaxTurns
    /\ index \subseteq Databases /\ Home \in index /\ view \in Databases /\ gone \subseteq Databases
    /\ removed \subseteq Databases
    /\ session \in BOOLEAN /\ generation \in Generations
    /\ DOMAIN manager = Generations
    /\ \A g \in Generations :
         manager[g].running \cup manager[g].known \cup manager[g].suspended \subseteq Projects
    /\ undetached \subseteq Projects /\ queued \in BOOLEAN

Quiet == fetches = {} /\ ~queued /\ read.at = "idle" /\ ~Busy

\* Once nothing is under way, what the page shows is what the index lists, exactly
\* what it shows as synchronized replicates, nothing is left held still, and the
\* views are on no database that was destroyed.
Settled ==
    Quiet => /\ facts.local = index
             /\ session => Of(Sync).running = Synchronized(Page) /\ Of(Sync).suspended = {}
             /\ view \notin gone

\* What replicates in a session that is on is a copy this device lists.
\* Meant, and not kept: the README says how the code breaks it.
OnlyCopiesReplicate == session => Of(Sync).running \subseteq index

\* Once the action has let go, a copy the reader removed does not replicate again before it is
\* downloaded again, whatever was read and answered meanwhile. (As long as no project is deleted
\* on the server: the README says what a detachment that fails undoes.)
RemovedStaysStopped ==
    session /\ ~Busy /\ (\A p \in Projects : server[p] # "gone") =>
        Of(Sync).running \cap removed = {}
=============================================================================
