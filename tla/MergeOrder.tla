----------------------------- MODULE MergeOrder -----------------------------
(***************************************************************************)
(* mergeDevice as its loops run (domain/sync/merge.ts): the revisions come *)
(* in whatever order the winner and _conflicts list them, and each loop    *)
(* keeps the best it has read. Two replicas that read them in different    *)
(* orders must reach the same document, or they would overwrite each other *)
(* for ever; and a replica that merges the result with what it still has   *)
(* must find that it says nothing new.                                     *)
(***************************************************************************)
EXTENDS Revisions

CONSTANTS
    Candidates,    \* revisions of one device that replication may bring together
    RemarkIds,
    Texts,         \* what a remark may say
    NoText         \* a revision does not carry the remark

ASSUME CandidatesAssumption ==
    /\ NoText \notin Texts
    /\ \A v \in Candidates :
          /\ v.id \in [gen : Nat, hash : Nat]
          /\ v.updatedAt \in Nat /\ v.checkedAt \in Nat
          /\ v.remarks \in [RemarkIds -> Texts \cup {NoText}]

VARIABLES
    read,      \* the revisions read so far: the winner and conflicts, in any order
    best,      \* latestRevision: the one kept so far, as a set of 0 or 1
    source,    \* catalogueSource: the one kept so far, as a set of 0 or 1
    byId       \* mergeRemarks: [RemarkIds -> the revision its text is taken from]

vars == <<read, best, source, byId>>

Init ==
    /\ read = {}
    /\ best = {} /\ source = {}
    /\ byId = [r \in RemarkIds |-> {}]

\* Mutant: only the timestamps are compared, and a tie keeps the first read.
KeptByTime(kept, v) == IF \A b \in kept : b.updatedAt < v.updatedAt THEN {v} ELSE kept

\* latestRevision: a candidate that beats the best so far replaces it.
KeptLatest(kept, v) == IF \A b \in kept : LosesTo(b, v) THEN {v} ELSE kept

\* catalogueSource: revisions without a block are passed over.
KeptSource(kept, v) ==
    IF v.checkedAt > 0 /\ \A b \in kept : \/ b.checkedAt < v.checkedAt
                                          \/ b.checkedAt = v.checkedAt /\ LosesTo(b, v)
    THEN {v} ELSE kept

\* mergeRemarks: the text of the revision that would win is the one that stays.
KeptRemark(kept, v, r) ==
    IF v.remarks[r] # NoText /\ \A b \in kept : LosesTo(b, v) THEN {v} ELSE kept

\* One turn of the three loops. No two leaves of a document have one id.
Take(v) ==
    /\ \A u \in read : u.id # v.id
    /\ read' = read \cup {v}
    /\ best' = KeptLatest(best, v)
    /\ source' = KeptSource(source, v)
    /\ byId' = [r \in RemarkIds |-> KeptRemark(byId[r], v, r)]

Next == \E v \in Candidates : Take(v)

Spec == Init /\ [][Next]_vars

\* The revision that a merge is put onto: the one with the greatest id.
IsWinner(w, S) == w \in S /\ \A v \in S \ {w} : RevBefore(v.id, w.id)

\* mergeDevice's answer once everything is read, put with a new hash h.
Merged(h) ==
    LET w == CHOOSE v \in read : IsWinner(v, read)
    IN  [id        |-> [gen |-> w.id.gen + 1, hash |-> h],
         updatedAt |-> (CHOOSE v \in best : TRUE).updatedAt,
         checkedAt |-> IF source = {} THEN 0 ELSE (CHOOSE v \in source : TRUE).checkedAt,
         remarks   |-> [r \in RemarkIds |->
                          IF byId[r] = {} THEN NoText ELSE (CHOOSE v \in byId[r] : TRUE).remarks[r]]]
-----------------------------------------------------------------------------
(* What the loops have to compute, whatever the order. *)

\* b is the one of S that every other loses to.
IsLatest(b, S) == b \in S /\ \A v \in S \ {b} : LosesTo(v, b)

Carrying(S, r) == {v \in S : v.remarks[r] # NoText}

\* The scalars come from the revision latest by (updatedAt, _rev).
LatestWins ==
    read # {} => \E b \in best : best = {b} /\ IsLatest(b, read)

\* The catalogue block comes from the newest lookup, a tie decided as for scalars.
CatalogueWins ==
    LET newest == {v \in Checked(read) : \A u \in Checked(read) : u.checkedAt <= v.checkedAt}
    IN  IF newest = {} THEN source = {}
        ELSE \E b \in source : source = {b} /\ IsLatest(b, newest)

\* Every remark of every revision is kept, with the text of the latest that has it.
RemarksUnited ==
    \A r \in RemarkIds :
        IF Carrying(read, r) = {} THEN byId[r] = {}
        ELSE \E b \in byId[r] : byId[r] = {b} /\ IsLatest(b, Carrying(read, r))

\* The merge outranks everything it was made from and says all of it: merging it
\* again with any of them, on any replica, finds nothing new to write.
Settled ==
    \A v \in read, h \in {u.id.hash : u \in read} :
        LET m == Merged(h) IN
        /\ LosesTo(v, m)
        /\ v.checkedAt <= m.checkedAt
        /\ \A r \in RemarkIds : v.remarks[r] # NoText => m.remarks[r] # NoText

\* mergeDevice has one answer whatever the order the revisions are read in, it is made
\* of all of them, and merging it again finds nothing to write.
OneAnswer == LatestWins /\ CatalogueWins /\ RemarksUnited /\ Settled
-----------------------------------------------------------------------------
\* The revision u would give way to v as the source of the catalogue block.
OlderLookup(u, v) ==
    \/ u.checkedAt < v.checkedAt
    \/ u.checkedAt = v.checkedAt /\ LosesTo(u, v)

\* The inductive invariant: the loops' answers over what is read so far, which has
\* no id twice and therefore a winner.
IndInv ==
    /\ read \subseteq Candidates
    /\ \A u, v \in read : u.id = v.id => u = v
    /\ read # {} => \E w \in read : IsWinner(w, read)
    /\ IF read = {} THEN best = {} ELSE \E b \in best : best = {b} /\ IsLatest(b, read)
    /\ IF Checked(read) = {} THEN source = {}
       ELSE \E b \in Checked(read) :
              source = {b} /\ \A v \in Checked(read) \ {b} : OlderLookup(v, b)
    /\ RemarksUnited
=============================================================================
