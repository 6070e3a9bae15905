------------------------------ MODULE Revisions ------------------------------
(***************************************************************************)
(* The orders that conflict handling is built on (domain/sync/merge.ts).   *)
(* A revision id is [gen, hash]: the generation CouchDB counts and the     *)
(* hash it derives from the content, here a natural number.                *)
(***************************************************************************)
EXTENDS Integers

\* compareRevisions(a, b) < 0: generation numerically, then hash.
RevBefore(a, b) ==
    \/ a.gen < b.gen
    \/ a.gen = b.gen /\ a.hash < b.hash

\* Mutant: the revision ids alone decide.
LosesToByRevision(a, b) == RevBefore(a.id, b.id)

\* compareForWinner(a, b) < 0: the pair (updatedAt, _rev).
LosesTo(a, b) ==
    \/ a.updatedAt < b.updatedAt
    \/ a.updatedAt = b.updatedAt /\ RevBefore(a.id, b.id)

\* The revision whose scalar fields win.
LatestRevision(S) == CHOOSE r \in S : \A s \in S \ {r} : LosesTo(s, r)

\* The revisions that carry a catalogue block at all: 0 stands for no block.
Checked(S) == {r \in S : r.checkedAt > 0}

\* The revision whose catalogue block wins: the newest lookup, ties by LosesTo.
CatalogueSource(S) ==
    CHOOSE r \in Checked(S) : \A s \in Checked(S) \ {r} :
        \/ s.checkedAt < r.checkedAt
        \/ s.checkedAt = r.checkedAt /\ LosesTo(s, r)

\* Mutant: the catalogue block is a scalar like the others.
CatalogueOfLatest(S) == LatestRevision(S).checkedAt

CatalogueOf(S) == IF Checked(S) = {} THEN 0 ELSE CatalogueSource(S).checkedAt
=============================================================================
