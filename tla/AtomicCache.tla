----------------------------- MODULE AtomicCache -----------------------------
(***************************************************************************)
(* What the local cache promises its callers: a request asked for is       *)
(* applied, once, to what each document says at that moment, or it fails.  *)
(* A list that is refused may have replaced some of its documents.         *)
(***************************************************************************)
EXTENDS CacheChanges

CONSTANT Tabs

VARIABLES
    mm,            \* [Documents -> what the document says, or None]
    asked          \* [Tabs -> the request under way, or None]

vars == <<mm, asked>>

Init ==
    /\ mm = [d \in Documents |-> None]
    /\ asked = [t \in Tabs |-> None]

Ask(t) ==
    /\ asked[t] = None
    /\ \E r \in Request : asked' = [asked EXCEPT ![t] = r]
    /\ UNCHANGED mm

\* All or some of the documents are replaced, each by what the request makes of it.
Apply(t) ==
    /\ asked[t] # None
    /\ \E docs \in SUBSET asked[t].about :
          mm' = [d \in Documents |->
                   IF d \in docs THEN After(asked[t], d, mm[d]) ELSE mm[d]]
    /\ \/ UNCHANGED asked
       \/ asked' = [asked EXCEPT ![t] = None]

\* clear(): everything goes, and what was under way on the old store fails.
Clear ==
    /\ mm' = [d \in Documents |-> None]
    /\ asked' = [t \in Tabs |-> None]

Next ==
    \/ \E t \in Tabs : Ask(t) \/ Apply(t)
    \/ Clear

Spec == Init /\ [][Next]_vars
=============================================================================
