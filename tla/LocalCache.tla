----------------------------- MODULE LocalCache -----------------------------
(***************************************************************************)
(* The cache every tab of a browser shares (data/local-cache.ts). An       *)
(* operation reads the documents it is about, with their revisions, and    *)
(* puts them back; a put onto a revision that is no longer the last one is *)
(* refused with a 409, and most operations then start over.                *)
(***************************************************************************)
EXTENDS CacheChanges

CONSTANT Tabs

WRITE_ATTEMPTS == 3

VARIABLES
    mm,            \* [Documents -> what the document says, or None]
    op             \* [Tabs -> the operation under way]

vars == <<mm, op>>
-----------------------------------------------------------------------------
\* An operation: what it read, what others have written of that since, and how
\* often it may still try. Nothing is read before at = "put".
Idle == [at |-> "idle", request |-> None, seen |-> [d \in Documents |-> None],
         overtaken |-> {}, left |-> 0]

\* A document that stands alone is written without a second attempt.
Attempts(r) == IF r.about = {Profile} THEN 1 ELSE WRITE_ATTEMPTS

Init ==
    /\ mm = [d \in Documents |-> None]
    /\ op = [t \in Tabs |-> Idle]

\* d has a revision now that the operation of t did not read. A document that
\* was missing is put without a revision, which is refused only if there is one.
Conflict(t, d) ==
    IF op[t].seen[d] = None THEN mm[d] # None ELSE d \in op[t].overtaken

Ask(t, r) ==
    /\ op[t].at = "idle"
    /\ op' = [op EXCEPT ![t] = [Idle EXCEPT !.at = "get", !.request = r,
                                            !.left = Attempts(r)]]
    /\ UNCHANGED mm

\* The documents are read. An operation with nothing to change ends here.
Get(t) ==
    /\ op[t].at = "get"
    /\ LET seen == [d \in Documents |-> IF d \in op[t].request.about THEN mm[d] ELSE None]
       IN  op' = [op EXCEPT ![t] =
                    IF Writes(op[t].request, seen) = {} THEN Idle
                    ELSE [@ EXCEPT !.at = "put", !.seen = seen, !.overtaken = {}]]
    /\ UNCHANGED mm

\* The documents put are new revisions to every other operation that read them.
Landed(t, docs, mine) ==
    /\ mm' = [d \in Documents |->
                IF d \in docs THEN After(op[t].request, d, op[t].seen[d]) ELSE mm[d]]
    /\ op' = [u \in Tabs |->
                IF u = t THEN mine
                ELSE [op[u] EXCEPT !.overtaken =
                        IF op[u].at = "put" THEN @ \cup (docs \cap op[u].request.about)
                        ELSE @]]

\* Mutant: a put whose revision is old is taken all the same.
PutForced(t) ==
    /\ op[t].at = "put"
    /\ Landed(t, Writes(op[t].request, op[t].seen), Idle)

\* put() or bulkDocs(): what has not been overtaken lands. If anything has, the
\* operation starts over, or fails once it has no attempt left.
Put(t) ==
    /\ op[t].at = "put"
    /\ LET put == Writes(op[t].request, op[t].seen)
           refused == {d \in put : Conflict(t, d)}
           again == [Idle EXCEPT !.at = "get", !.request = op[t].request,
                                 !.left = op[t].left - 1]
       IN  Landed(t, put \ refused,
                  IF refused # {} /\ op[t].left > 1 THEN again ELSE Idle)

\* The database refuses a read or a write for another reason: the caller hears it.
Fails(t) ==
    /\ op[t].at # "idle"
    /\ op' = [op EXCEPT ![t] = Idle]
    /\ UNCHANGED mm

\* clear(): the database is destroyed, and with it every handle on it.
Clear ==
    /\ mm' = [d \in Documents |-> None]
    /\ op' = [t \in Tabs |-> Idle]

Next ==
    \/ \E t \in Tabs :
          \/ \E r \in Request : Ask(t, r)
          \/ Get(t) \/ Put(t) \/ Fails(t)
    \/ Clear

Spec == Init /\ [][Next]_vars
-----------------------------------------------------------------------------
(* Properties. *)

\* Every document holds what documents of its kind hold.
TypeOK ==
    /\ \A d \in Documents : mm[d] \in Contents(d) \cup {None}
    /\ \A t \in Tabs : /\ op[t].at \in {"idle", "get", "put"}
                       /\ op[t].left \in 0..WRITE_ATTEMPTS

\* amend(), rewriteEntry() and writeProjects() never apply a change to a document
\* as it once was: another tab's change is kept, or the operation fails.
Atomic == INSTANCE AtomicCache WITH asked <- [t \in Tabs |-> op[t].request]
AtomicChanges == Atomic!Spec

\* A refresh of the list leaves alone what this device knows of its own copies: a
\* downloaded project stays listed and downloaded until its local state is set
\* or the cache is cleared ("The local half, carried across", writeProjects).
LocalHalfKept ==
    [][\A p \in Projects :
          mm[p] # None /\ mm[p].downloaded =>
             \/ mm'[p] # None /\ mm'[p].downloaded
             \/ mm' = [d \in Documents |-> None]
             \/ \E t \in Tabs : op[t].at = "put" /\ op[t].request.op = "setLocalState"
                                /\ op[t].request.about = {p}]_vars

\* A refresh that ends well ends with the whole list, whatever part of an earlier
\* attempt landed: what it lists is there, what it does not list and read is gone
\* or marked. (What another tab added after that reading stays: no revision of
\* it was there to be refused.)
RefreshIsWhole ==
    [][\A t \in Tabs :
          Put(t) /\ op[t].request.op = "writeProjects" /\ op[t].left > 1 /\ op'[t] = Idle
          => \A p \in Projects :
                IF p \in op[t].request.list THEN mm'[p] # None /\ ~mm'[p].accessRemoved
                ELSE op[t].seen[p] = None \/ mm'[p] = None \/ mm'[p].accessRemoved]_vars

\* What writeProjects() promises: the local half is kept, the server's half whole.
RefreshKeeps == LocalHalfKept /\ RefreshIsWhole
=============================================================================
