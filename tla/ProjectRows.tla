---------------------------- MODULE ProjectRows ----------------------------
(***************************************************************************)
(* What the rows of the projects page offer, and what the page shows once  *)
(* it is done: one action that succeeds (ui/project-actions.ts,            *)
(* data/local-cache.ts), from any page. How an action fails, and who else  *)
(* acts, is in ProjectTransfer and ProjectsPage.                           *)
(***************************************************************************)
EXTENDS ProjectsModel

CONSTANTS Inputs,      \* what the page may be computed from at first
          NewLocal,    \* the database of a project created
          NewProject   \* the server's name for one promoted

VARIABLES input, before, done

Init == input \in Inputs /\ before = input /\ done = [is |-> "nothing"]

Copy(row, id) == [db |-> id, id |-> id, role |-> IF row.role = None THEN "owner" ELSE row.role]
EntryOf(row) == CHOOSE e \in input.local : e.db = row.db
ListedAs(id) == {c \in Heard(input) : c.id = id}
OnServer(id) == [id |-> id, role |-> "owner", archived |-> FALSE, readOnly |-> FALSE, grace |-> FALSE]

\* The server's list, with what it says of one project replaced.
Listing(id, now) == (Heard(input) \ ListedAs(id)) \cup now
-----------------------------------------------------------------------------
\* Each follows from what its row offers, and is the next read of both lists.
Does(is, db, local, server) ==
    /\ done.is = "nothing" /\ done' = [is |-> is, db |-> db]
    /\ before' = input /\ input' = [input EXCEPT !.local = local, !.server = server]

\* createLocalProject(): where it is put on the server, createSynced() goes on to promote it.
Creates ==
    /\ MayCreate(input)
    /\ Does("create", NewLocal, input.local \cup {[db |-> NewLocal, id |-> None, role |-> None]},
            input.server)

\* promote(): the project created, or the one an earlier attempt did.
Promotes(row) ==
    LET id == IF row.id = None THEN NewProject ELSE row.id
    IN /\ MayPromote(input, row)
       /\ Does("promote", id, (input.local \ {EntryOf(row)}) \cup {Copy([role |-> None], id)},
               IF ListedAs(id) # {} THEN input.server ELSE Listing(id, {OnServer(id)}))

Downloads(row) ==
    MayDownload(input, row) /\ Does("download", row.db, input.local \cup {Copy(row, row.id)}, input.server)

\* removeLocalCopy() and deleteLocalProject().
Forgets(row) ==
    /\ MayRemoveLocal(input, row) \/ MayDeleteLocal(row)
    /\ Does("forget", row.db, input.local \ {EntryOf(row)}, input.server)

\* removeFromServer() and restore().
Archives(row) ==
    /\ MayRemoveServer(input, row)
    /\ Does("archive", row.db, input.local,
            Listing(row.id, {[c EXCEPT !.archived = TRUE] : c \in ListedAs(row.id)}))

Restores(row) ==
    /\ MayRestore(input, row)
    /\ Does("restore", row.db, input.local,
            Listing(row.id, {[c EXCEPT !.archived = FALSE, !.grace = FALSE] : c \in ListedAs(row.id)}))

\* setReadOnly(): the server has the last word on a slot, and frees or takes one.
SetsReadOnly(row, readOnly) ==
    /\ IF readOnly THEN MayMakeReadOnly(input, row) ELSE MayKeepActive(input, row)
    /\ Does("swap", row.db, input.local,
            Listing(row.id, {[c EXCEPT !.readOnly = readOnly] : c \in ListedAs(row.id)}))

Next ==
    \/ Creates
    \/ \E row \in Rows(input) :
         \/ Promotes(row) \/ Downloads(row) \/ Forgets(row) \/ Archives(row) \/ Restores(row)
         \/ \E readOnly \in BOOLEAN : SetsReadOnly(row, readOnly)
-----------------------------------------------------------------------------
RowFor(db) == {row \in Rows(input) : row.db = db}

\* What a promotion left behind is a project again once the copy that hid it is forgotten.
ShowsLeftover == \E e \in before.local \ Finished(before.local) : e \in Finished(input.local)

\* A project is one row and counts once, whichever of the device and the server know it, and no
\* action the page offers takes an owner over the limit (projects-model.ts 437-568): what is
\* created to be put on the server may then be promoted with itself counted in
\* (project-actions.ts 469-492), and a copy of the caller's own put back is not one too many.
\* What a promotion left behind is the exception, once the copy that hid it is forgotten.
CountedOnce ==
    /\ \A r, s \in Rows(input) : r # s => r.db # s.db /\ (r.id = None \/ r.id # s.id)
    /\ OverLimit(input) =>
         \/ OverLimit(before) /\ OwnedCount(input) <= OwnedCount(before)
         \/ done.is = "forget" /\ ShowsLeftover
    /\ done.is = "create" /\ CreateTarget(before) = "synced" =>
         \E row \in RowFor(NewLocal) : MayPromote(input, row)
-----------------------------------------------------------------------------
\* What both lists are like: names and ids are told apart, a copy bears the name of its project,
\* and a project was promoted from one database.
WellFormed(in) ==
    /\ DOMAIN in = {"local", "server", "stale", "session", "online", "syncs", "limit"}
    /\ in.limit \in Int /\ IsFiniteSet(in.local) /\ IsFiniteSet(Heard(in))
    /\ \A e \in in.local :
          /\ DOMAIN e = {"db", "id", "role"} /\ e.id \notin LocalOnly
          /\ e.db \in LocalOnly \/ (e.id = e.db /\ e.id # None)
    /\ \A e, f \in in.local : e.db = f.db => e = f
    /\ \A e, f \in in.local :
          e.id = f.id /\ e.id # None /\ (e.db \in LocalOnly <=> f.db \in LocalOnly) => e = f
    /\ \A c \in Heard(in) :
          /\ DOMAIN c = {"id", "role", "archived", "readOnly", "grace"}
          /\ c.id \notin LocalOnly \cup {None}
    /\ \A c, d \in Heard(in) : c.id = d.id => c = d

\* What an action can have the server say of one project.
Sayings(in) ==
    {OnServer(id) : id \in {NewProject} \cup {e.id : e \in in.local}}
      \cup UNION {{[c EXCEPT !.archived = TRUE], [c EXCEPT !.archived = FALSE, !.grace = FALSE],
                   [c EXCEPT !.readOnly = TRUE], [c EXCEPT !.readOnly = FALSE]} : c \in Heard(in)}

\* Neither list has the names that are given to what is new, and a list is a list.
Unborn(in) ==
    /\ \A e \in in.local : e.db # NewLocal /\ NewProject \notin {e.db, e.id}
    /\ \A c \in Heard(in) : c.id # NewProject
    /\ \A said \in SUBSET Heard(in), c \in Sayings(in) : said \cup {c} # None

\* The inductive invariant.
IndInv ==
    /\ WellFormed(before) /\ WellFormed(input)
    /\ done.is = "nothing" => input = before /\ Unborn(input)
    /\ CountedOnce
=============================================================================
