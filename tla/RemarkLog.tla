------------------------------ MODULE RemarkLog ------------------------------
(***************************************************************************)
(* What a device's remark history promises its readers (ADR 0010, quoted   *)
(* in domain/sync/merge.ts): a remark, once written, stays readable until  *)
(* somebody deletes the device showing it, whatever conflicts, merges,     *)
(* retries and replication happen underneath.                              *)
(***************************************************************************)
CONSTANT Remarks

VARIABLES
    shown,     \* the remarks some reader can be shown
    erased     \* the remarks on a device somebody deleted

vars == <<shown, erased>>

Init == shown = {} /\ erased = {}

\* A remark is written exactly once.
Write(r) ==
    /\ r \notin shown \cup erased
    /\ (shown \ erased) \cup {r} \subseteq shown'
    /\ shown' \subseteq shown \cup erased \cup {r}
    /\ UNCHANGED erased

\* A device is deleted with the remarks it shows.
Erase(S) ==
    /\ S \subseteq shown \cup erased
    /\ erased' = erased \cup S
    /\ shown \ erased' \subseteq shown'
    /\ shown' \subseteq shown \cup erased'

\* Merging and replication: only an erased remark may come or go, because a
\* concurrent edit of a deleted device survives the deletion.
Settle ==
    /\ shown \ erased \subseteq shown'
    /\ shown' \subseteq shown \cup erased
    /\ UNCHANGED erased

Next ==
    \/ \E r \in Remarks : Write(r)
    \/ \E S \in SUBSET Remarks : Erase(S)
    \/ Settle

Spec == Init /\ [][Next]_vars
=============================================================================
