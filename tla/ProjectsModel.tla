---------------------------- MODULE ProjectsModel ----------------------------
(***************************************************************************)
(* What the projects page shows and offers, from what this device knows    *)
(* (ui/projects-model.ts), and which project the views open                *)
(* (ui/current-project.ts).                                                *)
(*                                                                         *)
(* A local entry is [db, id, role]; a project the server lists is [id,     *)
(* role, archived, readOnly, grace], grace saying that the read-only grace *)
(* archived it. A server project's database has the project's id for its   *)
(* name. Names, clients, sorting, exporting and the reasons of refusals    *)
(* are left out: an action is offered or it is not.                        *)
(***************************************************************************)
EXTENDS Integers, FiniteSets

CONSTANTS LocalOnly,   \* the names of local-only databases
          None         \* no id, no role, no list

Sessions == {"checking", "signed-out", "signed-in", "expired"}
Unlimited == -1

\* What the page is computed from.
Input(local, server, stale, session, online, syncs, limit) ==
    [local |-> local, server |-> server, stale |-> stale, session |-> session,
     online |-> online, syncs |-> syncs, limit |-> limit]

SignedIn(in) == in.session = "signed-in"
Heard(in) == IF in.server = None THEN {} ELSE in.server

\* Only this session's own list proves anything.
IsFresh(in) == in.server # None /\ ~in.stale

IsCopy(e) == e.id # None /\ e.db \notin LocalOnly

\* A promotion's source is no project once the copy it was promoted into is listed.
Finished(local) ==
    {e \in local : e.id # None /\ e.db \in LocalOnly => ~\E c \in local : IsCopy(c) /\ c.id = e.id}

Matches(e, c) == c.id = e.db \/ (e.id # None /\ c.id = e.id)

KindOf(e, listed, fresh) ==
    CASE e.id # None /\ e.db \in LocalOnly -> "promoting"
      [] ~(e.id # None /\ e.db \in LocalOnly) /\ listed # {} ->
           IF \E c \in listed : c.archived THEN "remnant" ELSE "synced"
      [] OTHER -> IF e.id = None THEN "local-only" ELSE IF fresh THEN "orphan" ELSE "synced"

\* The service's rule on writing, predicted.
Editable(kind, role, syncs) ==
    \/ kind \in {"local-only", "promoting"}
    \/ kind = "remnant" /\ role \in {None, "owner"}
    \/ /\ kind \in {"synced", "server"} /\ role # "read"
       /\ role \in {None, "owner"} => syncs

Owns(row) == row.role \in {None, "owner"}

LocalRow(e, in) ==
    LET listed == {c \in Heard(in) : Matches(e, c)}
        kind == KindOf(e, listed, IsFresh(in))
        role == IF listed # {} THEN (CHOOSE c \in listed : TRUE).role
                ELSE IF ~IsCopy(e) THEN None
                ELSE IF e.role = None THEN "owner" ELSE e.role
        locked == kind # "promoting" /\ \E c \in listed : c.readOnly /\ ~c.archived IN
    [db |-> e.db, id |-> e.id, kind |-> kind, role |-> role, recorded |-> e.role,
     archived |-> \E c \in listed : c.archived,
     locked |-> locked, editable |-> ~locked /\ Editable(kind, role, in.syncs)]

\* A project nothing here matches. An archived one is not shown, but for an owner's
\* that the grace archived.
ServerRow(c, in) ==
    [db |-> c.id, id |-> c.id, kind |-> IF c.archived THEN "grace-archived" ELSE "server",
     role |-> c.role, recorded |-> None, archived |-> c.archived,
     locked |-> c.readOnly /\ ~c.archived,
     editable |-> ~c.archived /\ ~c.readOnly /\ Editable("server", c.role, in.syncs)]

Rows(in) ==
    LET local == Finished(in.local) IN
    {LocalRow(e, in) : e \in local}
      \cup {ServerRow(c, in) : c \in {c \in Heard(in) :
              /\ ~\E e \in local : Matches(e, c)
              /\ ~c.archived \/ (c.grace /\ c.role = "owner")}}

\* Remnants and orphans are listed and not counted.
Counted == {"synced", "server", "local-only", "promoting"}
OwnedCount(in) == Cardinality({row \in Rows(in) : Owns(row) /\ row.kind \in Counted})
LockedOwn(in) == {row \in Rows(in) : Owns(row) /\ row.locked}

\* canOwnAnother() and exceedsLimit() (data/plan.ts).
RoomForOne(in) == in.limit = Unlimited \/ OwnedCount(in) < in.limit
OverLimit(in) == in.limit # Unlimited /\ OwnedCount(in) > in.limit
-----------------------------------------------------------------------------
(* What a row offers. *)

ServerAnswers(in) == SignedIn(in) /\ in.online /\ IsFresh(in)

MayOpen(in, row) == row.kind # "grace-archived" /\ (row.kind = "server" => ServerAnswers(in))

MayPromote(in, row) ==
    /\ row.kind \in {"local-only", "promoting"} /\ ServerAnswers(in) /\ in.syncs
    /\ row.kind = "promoting" \/ ~OverLimit(in)

MayDownload(in, row) ==
    row.kind = "server" /\ ServerAnswers(in) /\ (in.syncs \/ ~Owns(row))

MayRemoveLocal(in, row) == row.kind = "synced" /\ ServerAnswers(in)

MayDeleteLocal(row) == row.kind \in {"local-only", "promoting", "remnant", "orphan"}

MayRemoveServer(in, row) ==
    row.kind \in {"server", "synced"} /\ ServerAnswers(in) /\ Owns(row)

MayRestore(in, row) ==
    row.kind = "remnant" /\ Owns(row) /\ ServerAnswers(in) /\ in.syncs /\ RoomForOne(in)

MayKeepActive(in, row) ==
    row.kind \in {"server", "synced"} /\ row.locked /\ Owns(row) /\ ServerAnswers(in) /\ in.syncs

MayMakeReadOnly(in, row) ==
    /\ row.kind \in {"server", "synced"} /\ ~row.locked /\ Owns(row)
    /\ LockedOwn(in) # {} /\ ServerAnswers(in)

CreateTarget(in) == IF SignedIn(in) /\ in.online /\ in.syncs THEN "synced" ELSE "local"

MayCreate(in) ==
    SignedIn(in) /\ RoomForOne(in) /\ (CreateTarget(in) = "local" \/ IsFresh(in))
-----------------------------------------------------------------------------

\* What replication covers: the copies the page shows as synchronized, never every
\* server project.
Synchronized(in) == {row.id : row \in {row \in Rows(in) : row.kind = "synced"}}

\* The owner's copies that a fresh list proved orphans.
DetachableOrphans(in) ==
    {row \in Rows(in) : /\ row.kind \in {"promoting", "remnant", "orphan"}
                        /\ row.id # None /\ row.db \notin LocalOnly /\ ~row.archived
                        /\ Owns(row) /\ row.recorded = "owner"}

\* resolveCurrentProject(): by database, by id, any local-only one, any copy, and
\* never nothing. Which of several is first by name is left open.
Resolve(choice, in, catalogue) ==
    LET here == {row \in Rows(in) : row.kind \notin {"server", "grace-archived"}}
        First(fits, otherwise) == IF fits # {} THEN fits ELSE otherwise
        chosen == First({row \in here : row.db = choice},
                  First({row \in here : row.id = choice /\ row.db \notin LocalOnly},
                  First({row \in here : row.id = None}, here))) IN
    First({[db |-> row.db, editable |-> row.editable] : row \in chosen},
          {[db |-> catalogue, editable |-> TRUE]})
=============================================================================
