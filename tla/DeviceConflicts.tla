--------------------------- MODULE DeviceConflicts ---------------------------
(***************************************************************************)
(* One device document, replicated between browsers and the server, edited *)
(* concurrently, and the resolver that merges its conflicts away           *)
(* (data/conflicts.ts, domain/sync/merge.ts, data/repository.ts).          *)
(*                                                                         *)
(* Each database is the set of revisions of the document it holds. Every   *)
(* open tab has a resolver of its own over its browser's database, a copy  *)
(* of the document its views hold, and no lock: between a read and the     *)
(* write that follows it, any other tab or replication may move.           *)
(*                                                                         *)
(* PouchDB and CouchDB are external: what is modelled of them is the       *)
(* revision tree, the winner rule, that a write must extend a leaf, that   *)
(* equal content on an equal parent is the same revision, and replication  *)
(* that delivers leaves with their ancestry, in any order.                 *)
(***************************************************************************)
EXTENDS Revisions, FiniteSets

CONSTANTS
    Databases,     \* the replicas: browsers' databases and the server's
    Tabs,          \* open tabs, each with a resolver and a view
    DatabaseOf,    \* [Tabs -> Databases]
    Links,         \* the <<source, target>> pairs replication connects
    Remarks,       \* remark ids; each is written at most once
    Names,         \* values of the scalar fields; each edit uses a new one
    Clock,         \* what a browser's clock may say, natural numbers
    Lookups,       \* times at which the catalogue may be consulted
    MaxHash,       \* revision hashes are 0..MaxHash
    MaxGen,        \* bound: no branch grows past this generation
    MaxRemoves     \* bound: how many times users delete the device

Hashes == 0..MaxHash
RevIds == [gen : 1..MaxGen, hash : Hashes]

ASSUME ConstantsAssumption ==
    /\ DatabaseOf \in [Tabs -> Databases]
    /\ Links \subseteq Databases \X Databases
    /\ Clock \subseteq Nat /\ \E last \in Clock : \A c \in Clock : c <= last
    /\ Lookups \subseteq Nat \ {0}
    /\ Lookups = {} \/ \E last \in Lookups : \A l \in Lookups : l <= last
    /\ MaxHash \in Nat
    /\ MaxGen \in Nat \ {0}
    /\ MaxRemoves \in Nat

\* One revision of the document: its id, the ids it descends from, whether it
\* is a tombstone, and what it says.
Revision == [id : RevIds, past : SUBSET RevIds, deleted : BOOLEAN,
             remarks : SUBSET Remarks, name : Names \cup {"first", "none"},
             updatedAt : Clock \cup {0}, checkedAt : Lookups \cup {0}]

RESOLUTION_ATTEMPTS == 3

Phases == {"idle", "merge", "prune", "reread"}

VARIABLES
    store,     \* [Databases -> set of revisions]
    held,      \* [Tabs -> the copy the tab's views hold, as a set of 0 or 1]
    job,       \* [Tabs -> the resolution in flight]
    removed    \* history: the revisions users deleted

vars == <<store, held, job, removed>>
-----------------------------------------------------------------------------
(* The revision tree. *)

All == UNION {store[d] : d \in Databases}

Leaves(S) == {v \in S : \A u \in S : v.id \notin u.past}
Live(S)   == {v \in Leaves(S) : ~v.deleted}

\* The revision a read returns, and the ones it annotates as _conflicts.
Winner(S)    == CHOOSE w \in Live(S) : \A v \in Live(S) \ {w} : RevBefore(v.id, w.id)
Conflicts(S) == Live(S) \ {Winner(S)}
Conflicted(S) == Cardinality(Live(S)) > 1

Content(v) == <<v.remarks, v.name, v.updatedAt, v.checkedAt>>

\* The revisions a write of v's content onto v's parent may become: the one
\* some replica already has, or one with a hash nobody has used.
Minted(parent, v) ==
    LET child(h) == [v EXCEPT !.id = [gen |-> parent.id.gen + 1, hash |-> h],
                              !.past = parent.past \cup {parent.id}]
        twins == {h \in Hashes : child(h) \in All}
        free  == {h \in Hashes : child(h).id \notin {u.id : u \in All}}
    IN  IF parent.id.gen >= MaxGen THEN {}
        ELSE {child(h) : h \in IF twins # {} THEN twins ELSE free}

Tombstone(v) == [v EXCEPT !.deleted = TRUE, !.remarks = {}, !.name = "none",
                          !.updatedAt = 0, !.checkedAt = 0]

\* Replication: every leaf comes with the ancestry it descends from.
Ancestry(S, v) == {u \in S : u.id \in v.past}
-----------------------------------------------------------------------------
(* The merge (domain/sync/merge.ts). *)

\* Mutant: the latest revision replaces the others, remarks included.
MergedLatestOnly(S) == [LatestRevision(S) EXCEPT !.checkedAt = CatalogueOf(S)]

\* mergeDevice: the latest revision's scalars, every remark, and the
\* catalogue block of the newest lookup.
Merged(S) == [LatestRevision(S) EXCEPT
                 !.remarks   = UNION {v.remarks : v \in S},
                 !.checkedAt = CatalogueOf(S)]
-----------------------------------------------------------------------------
Root == [id |-> [gen |-> 1, hash |-> 0], past |-> {}, deleted |-> FALSE,
         remarks |-> {}, name |-> "first", updatedAt |-> 0, checkedAt |-> 0]

NoJob == [phase |-> "idle", subject |-> {}, losers |-> {}, left |-> 0, reader |-> FALSE]

Init ==
    /\ store = [d \in Databases |-> {Root}]
    /\ held = [t \in Tabs |-> {}]
    /\ job = [t \in Tabs |-> NoJob]
    /\ removed = {}

Local(t) == store[DatabaseOf[t]]

\* attempt(): with no conflicts the document itself is the answer, otherwise
\* the losers are read and the merge is prepared.
Attempt(t, left, reader) ==
    job' = [job EXCEPT ![t] =
              [phase |-> "merge", subject |-> {Winner(Local(t))},
               losers |-> Conflicts(Local(t)), left |-> left, reader |-> reader]]

\* resolve(): a reader joins the resolution that is running.
Resolve(t, reader) ==
    IF job[t].phase = "idle"
    THEN Attempt(t, RESOLUTION_ATTEMPTS, reader)
    ELSE job' = [job EXCEPT ![t].reader = @ \/ reader]

\* A read of a document with no conflicts, or of one that is gone.
ReadPlain(t) ==
    /\ ~Conflicted(Local(t))
    /\ held' = [held EXCEPT ![t] = Live(Local(t))]
    /\ UNCHANGED <<store, job, removed>>

\* A read that meets a conflict waits for its resolution.
ReadConflicted(t) ==
    /\ Conflicted(Local(t))
    /\ Resolve(t, TRUE)
    /\ UNCHANGED <<store, held, removed>>

\* The change feed reports a conflicted document.
WatchConflicts(t) ==
    /\ Conflicted(Local(t))
    /\ job[t].phase = "idle"
    /\ Resolve(t, FALSE)
    /\ UNCHANGED <<store, held, removed>>

\* What a resolution that ends hands to the reader that waits for it.
Answer(t, answer) ==
    /\ held' = [held EXCEPT ![t] = IF job[t].reader THEN answer ELSE @]
    /\ job' = [job EXCEPT ![t] = NoJob]

\* The merge says nothing new: nothing is written, the losers go.
MergeUnchanged(t) ==
    /\ job[t].phase = "merge"
    /\ \E w \in job[t].subject :
          Content(Merged({w} \cup job[t].losers)) = Content(w)
    /\ job' = [job EXCEPT ![t].phase = "prune"]
    /\ UNCHANGED <<store, held, removed>>

\* Mutant: the answer is the winner as it was read, not what was put.
MergeWriteStale(t) ==
    /\ job[t].phase = "merge"
    /\ \E w \in job[t].subject :
          LET merged == Merged({w} \cup job[t].losers)
          IN  /\ Content(merged) # Content(w)
              /\ w \in Leaves(Local(t))
              /\ \E m \in Minted(w, merged) :
                    store' = [store EXCEPT ![DatabaseOf[t]] = @ \cup {m}]
    /\ job' = [job EXCEPT ![t].phase = "prune"]
    /\ UNCHANGED <<held, removed>>

\* The merge is put onto the winning branch.
MergeWrite(t) ==
    /\ job[t].phase = "merge"
    /\ \E w \in job[t].subject :
          LET merged == Merged({w} \cup job[t].losers)
          IN  /\ Content(merged) # Content(w)
              /\ w \in Leaves(Local(t))
              /\ \E m \in Minted(w, merged) :
                    /\ store' = [store EXCEPT ![DatabaseOf[t]] = @ \cup {m}]
                    /\ job' = [job EXCEPT ![t].phase = "prune", ![t].subject = {m}]
    /\ UNCHANGED <<held, removed>>

\* The next attempt, as long as one is left.
Retried(j) ==
    IF j.left <= 1 THEN NoJob
    ELSE [j EXCEPT !.phase = "reread", !.left = j.left - 1]

\* Mutant: a 409 is taken to mean that somebody else merged already.
MergeConflictPrunes(t) ==
    /\ job[t].phase = "merge"
    /\ \E w \in job[t].subject :
          /\ Content(Merged({w} \cup job[t].losers)) # Content(w)
          /\ w \notin Leaves(Local(t))
    /\ job' = [job EXCEPT ![t].phase = "prune"]
    /\ UNCHANGED <<store, held, removed>>

\* The put answers 409: the winner is no longer a leaf. Bounded retries, then
\* the error reaches the reader, whose copy stays as it was.
MergeConflict(t) ==
    /\ job[t].phase = "merge"
    /\ \E w \in job[t].subject :
          /\ Content(Merged({w} \cup job[t].losers)) # Content(w)
          /\ w \notin Leaves(Local(t))
    /\ job' = [job EXCEPT ![t] = Retried(job[t])]
    /\ UNCHANGED <<store, held, removed>>

\* Mutant: the merge is written back onto the tombstones.
RereadMissingWritesBack(t) ==
    /\ job[t].phase = "reread"
    /\ Live(Local(t)) = {}
    /\ \E w \in job[t].subject, stone \in Leaves(Local(t)) : \E u \in Minted(stone, w) :
          store' = [store EXCEPT ![DatabaseOf[t]] = @ \cup {u}]
    /\ Answer(t, job[t].subject)
    /\ UNCHANGED removed

\* The document was deleted meanwhile: the stale copy is the answer, and
\* nothing is written back.
RereadMissing(t) ==
    /\ job[t].phase = "reread"
    /\ Live(Local(t)) = {}
    /\ Answer(t, job[t].subject)
    /\ UNCHANGED <<store, removed>>

\* The next attempt finds no conflict any more.
RereadResolved(t) ==
    /\ job[t].phase = "reread"
    /\ Live(Local(t)) # {}
    /\ ~Conflicted(Local(t))
    /\ Answer(t, Live(Local(t)))
    /\ UNCHANGED <<store, removed>>

RereadConflicted(t) ==
    /\ job[t].phase = "reread"
    /\ Conflicted(Local(t))
    /\ Attempt(t, job[t].left, job[t].reader)
    /\ UNCHANGED <<store, held, removed>>

\* Mutant: the merge is put and the losers stay.
PruneNothing(t) ==
    /\ job[t].phase = "prune"
    /\ Answer(t, job[t].subject)
    /\ UNCHANGED <<store, removed>>

\* prune(): one tombstone per loser; a loser that is no longer a leaf answers
\* "conflict", which is ignored. All tombstones of one call are one step.
Prune(t) ==
    /\ job[t].phase = "prune"
    /\ LET leaves == job[t].losers \cap Leaves(Local(t))
       IN  \E stones \in SUBSET UNION {Minted(v, Tombstone(v)) : v \in leaves} :
              /\ \A v \in leaves : \E s \in stones : s.past = v.past \cup {v.id}
              /\ \A s, u \in stones : s.id = u.id \/ s.past = u.past => s = u
              /\ store' = [store EXCEPT ![DatabaseOf[t]] = @ \cup stones]
    /\ Answer(t, job[t].subject)
    /\ UNCHANGED removed
-----------------------------------------------------------------------------
(* What users and background work write, each on the copy the tab holds.   *)
(* A copy that is no longer a leaf is refused with 409 and read again.     *)

Put(t, v, new) ==
    /\ v \in Leaves(Local(t))
    /\ \E u \in Minted(v, new) :
          /\ store' = [store EXCEPT ![DatabaseOf[t]] = @ \cup {u}]
          /\ held' = [held EXCEPT ![t] = {u}]
    /\ UNCHANGED <<job, removed>>

Written == UNION {v.remarks : v \in All}
Named   == {v.name : v \in All}

\* addRemark, saved with the browser's clock.
AddRemark(t, r, now) ==
    /\ r \notin Written
    /\ \E v \in held[t] :
          Put(t, v, [v EXCEPT !.remarks = @ \cup {r}, !.updatedAt = now])

\* planDeviceEdit and the other edits of scalar fields.
Edit(t, n, now) ==
    /\ n \notin Named
    /\ \E v \in held[t] : Put(t, v, [v EXCEPT !.name = n, !.updatedAt = now])

\* Backfill writes a catalogue block and keeps updatedAt.
Backfill(t, now) ==
    \E v \in held[t] :
        /\ v.checkedAt = 0
        /\ Put(t, v, [v EXCEPT !.checkedAt = now])

\* The user deletes the device.
Remove(t) ==
    /\ Cardinality(removed) < MaxRemoves
    /\ \E v \in held[t] :
          /\ v \in Leaves(Local(t))
          /\ \E u \in Minted(v, Tombstone(v)) :
                store' = [store EXCEPT ![DatabaseOf[t]] = @ \cup {u}]
          /\ removed' = removed \cup {v}
    /\ held' = [held EXCEPT ![t] = {}]
    /\ UNCHANGED job

\* One leaf is replicated, with the revisions it descends from.
Replicate(source, target) ==
    /\ \E v \in Leaves(store[source]) \ store[target] :
          store' = [store EXCEPT ![target] = @ \cup {v} \cup Ancestry(store[source], v)]
    /\ UNCHANGED <<held, job, removed>>

\* The tab is closed, or crashes, between any two of its steps.
Close(t) ==
    /\ held[t] # {} \/ job[t].phase # "idle"
    /\ held' = [held EXCEPT ![t] = {}]
    /\ job' = [job EXCEPT ![t] = NoJob]
    /\ UNCHANGED <<store, removed>>
-----------------------------------------------------------------------------
Resolver(t) ==
    \/ MergeUnchanged(t) \/ MergeWrite(t) \/ MergeConflict(t)
    \/ RereadMissing(t) \/ RereadResolved(t) \/ RereadConflicted(t)
    \/ Prune(t)

Next ==
    \/ \E t \in Tabs :
          \/ ReadPlain(t) \/ ReadConflicted(t) \/ WatchConflicts(t)
          \/ Resolver(t)
          \/ \E r \in Remarks, now \in Clock : AddRemark(t, r, now)
          \/ \E n \in Names, now \in Clock : Edit(t, n, now)
          \/ \E now \in Lookups : Backfill(t, now)
          \/ Remove(t)
          \/ Close(t)
    \/ \E link \in Links : Replicate(link[1], link[2])

Spec == Init /\ [][Next]_vars

\* The views of an open tab re-read on every change and its watch reports every
\* conflict that arrives, a resolution under way goes on, and replication is
\* continuous. Nobody is obliged to edit, to delete or to close a tab.
Fairness ==
    /\ \A t \in Tabs : WF_vars(ReadConflicted(t) \/ WatchConflicts(t))
    /\ \A t \in Tabs : WF_vars(Resolver(t))
    /\ \A link \in Links : WF_vars(Replicate(link[1], link[2]))

FairSpec == Spec /\ Fairness
-----------------------------------------------------------------------------
(* Properties. *)

TypeOK ==
    /\ store \in [Databases -> SUBSET Revision]
    /\ held \in [Tabs -> SUBSET Revision]
    /\ job \in [Tabs -> [phase : Phases, subject : SUBSET Revision,
                         losers : SUBSET Revision, left : 0..RESOLUTION_ATTEMPTS,
                         reader : BOOLEAN]]
    /\ removed \subseteq Revision

\* w says at least what v said, apart from what a later edit may replace.
Carries(w, v) == v.remarks \subseteq w.remarks /\ v.checkedAt <= w.checkedAt

\* A revision that is no longer a leaf anywhere was deleted by a user or is
\* carried forward by a greater one: what the resolver prunes, it has merged.
Superseded ==
    \A v, u \in All :
        ~v.deleted /\ v.id \in u.past =>
            \/ v \in removed
            \/ \E w \in All : ~w.deleted /\ RevBefore(v.id, w.id) /\ Carries(w, v)

\* No remark anybody saved ever disappears: it is in a live leaf of some
\* database, unless a user deleted a revision that showed it.
RemarkKept ==
    \A v \in All : \A r \in v.remarks :
        \/ \E u \in removed : r \in u.remarks
        \/ \E w \in Live(All) : r \in w.remarks

\* No lookup is erased by an edit that never saw it: the newest catalogue
\* block written is in a live leaf, unless a user deleted a revision with it.
CatalogueKept ==
    \A v \in All :
        \/ v.checkedAt = 0
        \/ \E u \in removed : v.checkedAt <= u.checkedAt
        \/ \E w \in Live(All) : v.checkedAt <= w.checkedAt

\* While losers wait to be pruned, the revision kept in their place is in the
\* database and was stamped no earlier than any of them.
LatestEditWins ==
    \A t \in Tabs : job[t].phase = "prune" =>
        \A w \in job[t].subject, v \in job[t].losers :
            w \in Local(t) /\ v.updatedAt <= w.updatedAt

\* A deleted device comes back only by replication, never from a local write.
NoResurrection ==
    [][\A d \in Databases : Live(store[d]) = {} =>
          Live(store[d])' \subseteq UNION {store[e] : e \in Databases \ {d}}]_vars

\* The databases implement the remark log: resolving, retrying, pruning and
\* replicating in any order are invisible to it.
Shown  == UNION {w.remarks : w \in Live(All)}
Erased == UNION {v.remarks : v \in removed}
Log == INSTANCE RemarkLog WITH shown <- Shown, erased <- Erased
RemarkLogSpec == Log!Spec

\* Once tabs stay open, every database ends up with the same single revision
\* of the device, or none, and stays there: no two resolvers undo each other.
Converged ==
    \A d, e \in Databases :
        Live(store[d]) = Live(store[e]) /\ ~Conflicted(store[d])
Convergence ==
    <>[][\A t \in Tabs : ~Close(t)]_vars => <>[]Converged
-----------------------------------------------------------------------------
(* The inductive invariant behind Superseded and RemarkKept. *)

\* An id names one revision, everywhere.
IdsUnique == \A u, v \in All : u.id = v.id => u = v

\* Every ancestor is a known revision of an earlier generation.
AncestryKnown ==
    \A v \in All : \A i \in v.past :
        i.gen < v.id.gen /\ \E u \in All : u.id = i

TombstonesBlank == \A v \in All : v.deleted => v.remarks = {} /\ v.checkedAt = 0

\* What a tab holds or resolves was read from its own database.
CopiesKnown ==
    /\ \A t \in Tabs : \A v \in held[t] \cup job[t].subject \cup job[t].losers :
          v \in Local(t) /\ ~v.deleted
    /\ \A v \in removed : v \in All /\ ~v.deleted

\* A resolution keeps one revision, greater than every loser; by the time the
\* losers are pruned it carries all of them.
JobSound ==
    \A t \in Tabs :
        /\ \A w, x \in job[t].subject : w = x
        /\ \A w \in job[t].subject, v \in job[t].losers : RevBefore(v.id, w.id)
        /\ job[t].phase = "prune" =>
              /\ job[t].subject # {}
              /\ \A w \in job[t].subject, v \in job[t].losers :
                    Carries(w, v) /\ v.updatedAt <= w.updatedAt

IndInv ==
    /\ TypeOK /\ IdsUnique /\ AncestryKnown /\ TombstonesBlank
    /\ CopiesKnown /\ JobSound /\ Superseded
=============================================================================
