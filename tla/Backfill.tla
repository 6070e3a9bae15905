------------------------------ MODULE Backfill ------------------------------
(***************************************************************************)
(* The catalogue backfill (ui/catalog-backfill.ts) and what triggers and   *)
(* stops it (ui/app-shell.ts): one pass at a time over the devices of the  *)
(* open project that have no manufacturer yet, while other tabs and        *)
(* replicas write the same devices. "block" is what a device says of its   *)
(* manufacturer.                                                           *)
(***************************************************************************)
EXTENDS Integers, FiniteSets

CONSTANTS Buildings, Devices,
          MaxTurns,   \* bound: what triggers or stops a run, writes elsewhere
          None

VARIABLES
    opened,     \* the project every view reads
    doc,        \* [project -> [device -> [rev, block]]], block "none", "missing", "found", "unusable"
    able,       \* signed in and online, the project editable and not locked
    leaving,    \* endingSession
    run,        \* the pass under way: [of, left, at, id, answer, over, live], or None
    again,      \* whether another pass follows it
    asked,      \* history: the project of the last trigger no pass has begun for, or None
    turns

backfill_vars == <<opened, doc, able, leaving, run, again, asked, turns>>

Turn == turns < MaxTurns /\ turns' = turns + 1

\* needsCatalogLookup(); a miss is asked for again once it is old, as any may be.
Needs(d) == d.block \in {"none", "missing"}

Init ==
    /\ opened \in Buildings /\ doc \in [Buildings -> [Devices -> [rev : {1}, block : {"none", "found"}]]]
    /\ able \in BOOLEAN /\ leaving = FALSE /\ run = None /\ again = FALSE /\ asked = None /\ turns = 0
-----------------------------------------------------------------------------
Pass(p) == [of |-> p, left |-> {}, at |-> "list", id |-> None, answer |-> None, over |-> 0, live |-> TRUE]

\* stop(): the pass under way is told, and none follows it.
Stopped == IF run = None THEN None ELSE [run EXCEPT !.live = FALSE]

\* Mutant: a trigger during a pass is taken for that pass.
TriggerDropped(was, p) ==
    /\ run' = IF was = None THEN Pass(p) ELSE was
    /\ again' = FALSE /\ asked' = IF was = None THEN None ELSE p

\* trigger(): a pass, or one more after the one under way.
Trigger(was, p) ==
    IF was = None THEN run' = Pass(p) /\ again' = FALSE /\ asked' = None
    ELSE run' = was /\ again' = TRUE /\ asked' = p

\* onProjectChanged(): stopped, and begun anew when there is a session for it.
Switch(p) ==
    /\ Turn
    /\ p # opened /\ opened' = p
    /\ IF able /\ ~leaving THEN Trigger(Stopped, p)
       ELSE run' = Stopped /\ again' = FALSE /\ asked' = None
    /\ UNCHANGED <<doc, able, leaving>>

\* A device was saved without its manufacturer, the network is back, a session has begun.
Wanted ==
    /\ Turn
    /\ able' = TRUE /\ leaving = FALSE /\ Trigger(run, opened)
    /\ UNCHANGED <<opened, doc, leaving>>

\* The network goes: nothing is stopped, lookups fail by themselves.
Loses ==
    /\ Turn
    /\ able /\ able' = FALSE
    /\ UNCHANGED <<opened, doc, leaving, run, again, asked>>

\* A session ends, by a sign-out (leaving, until it is through) or by itself.
Ends ==
    /\ Turn
    /\ able /\ able' = FALSE /\ leaving' \in BOOLEAN
    /\ run' = Stopped /\ again' = FALSE /\ asked' = None
    /\ UNCHANGED <<opened, doc>>

\* signOutOf() is through.
Left ==
    /\ leaving /\ leaving' = FALSE
    /\ UNCHANGED <<opened, doc, able, run, again, asked, turns>>

\* Another tab or replica writes a device: an edit, or what it found of the manufacturer.
Elsewhere(p, d) ==
    /\ Turn
    /\ \E block \in {doc[p][d].block, "found"} :
         doc' = [doc EXCEPT ![p][d] = [rev |-> @.rev + 1, block |-> block]]
    /\ UNCHANGED <<opened, able, leaving, run, again, asked>>
-----------------------------------------------------------------------------
\* loop(), at the end of a pass. The pass that follows is over the project open by then.
PassEnds ==
    IF again THEN run' = Pass(opened) /\ again' = FALSE /\ asked' = None
    ELSE run' = None /\ UNCHANGED <<again, asked>>

Step == UNCHANGED <<opened, doc, able, leaving, turns>>

\* runOnce(): the candidates; none, when the project may not be edited, is locked or unreadable.
Lists ==
    /\ run # None /\ run.at = "list" /\ Step
    /\ \E left \in {{}, {d \in Devices : Needs(doc[run.of][d])}} :
         IF left = {} THEN PassEnds
         ELSE run' = [run EXCEPT !.left = left, !.at = "next"] /\ UNCHANGED <<again, asked>>

\* The gap before the next is over, or ended early by the stop.
Chooses ==
    /\ run # None /\ run.at = "next" /\ Step
    /\ IF ~run.live \/ run.left = {} THEN PassEnds
       ELSE /\ \E d \in run.left : run' = [run EXCEPT !.left = @ \ {d}, !.id = d, !.at = "ask"]
            /\ UNCHANGED <<again, asked>>

\* The lookup is answered. Nothing later in the pass fares better offline or signed out. (Asked
\* too often, it pauses as the server says and asks for the same device again.)
Answered ==
    /\ run # None /\ run.at = "ask" /\ Step
    /\ \/ PassEnds
       \/ /\ run.live /\ able
          /\ \E answer \in {"found", "missing", "unusable"} :
               run' = [run EXCEPT !.answer = answer, !.at = "get"]
          /\ UNCHANGED <<again, asked>>

\* fill(), on the fresh read: not over a block written meanwhile.
Fills(d) == Needs(d)

Reads ==
    /\ run # None /\ run.at = "get" /\ Step /\ UNCHANGED <<again, asked>>
    /\ LET fresh == doc[run.of][run.id]
       IN run' = IF run.live /\ Fills(fresh) THEN [run EXCEPT !.at = "save", !.over = fresh.rev]
                 ELSE [run EXCEPT !.at = "next"]

\* saveKeepingUpdatedAt(): a conflict leaves what is stored, anything else ends the pass.
Writes ==
    /\ run # None /\ run.at = "save" /\ UNCHANGED <<opened, able, leaving, turns>>
    /\ \/ UNCHANGED doc /\ PassEnds
       \/ /\ doc' = IF doc[run.of][run.id].rev # run.over THEN doc
                    ELSE [doc EXCEPT ![run.of][run.id] = [rev |-> @.rev + 1, block |-> run.answer]]
          /\ run' = [run EXCEPT !.at = "next"] /\ UNCHANGED <<again, asked>>
-----------------------------------------------------------------------------
Works == Lists \/ Chooses \/ Answered \/ Reads \/ Writes

Next ==
    \/ Works \/ Wanted \/ Loses \/ Ends \/ Left
    \/ \E p \in Buildings : Switch(p) \/ \E d \in Devices : Elsewhere(p, d)

Spec == Init /\ [][Next]_backfill_vars
FairSpec == Spec /\ WF_backfill_vars(Works)
-----------------------------------------------------------------------------
BackfillTypeOK ==
    /\ opened \in Buildings /\ able \in BOOLEAN /\ leaving \in BOOLEAN /\ again \in BOOLEAN
    /\ asked \in Buildings \cup {None}
    /\ again => run # None
    /\ run # None => run.at \in {"list", "next", "ask", "get", "save"} /\ run.left \subseteq Devices

\* A device as stored, and a pass.
Device == [rev : Nat, block : {"none", "missing", "found", "unusable"}]
Passing == [of : Buildings, left : SUBSET Devices, at : {"list", "next", "ask", "get", "save"},
            id : Devices \cup {None}, answer : {"found", "missing", "unusable", None}, over : Nat,
            live : BOOLEAN]

BackfillTyped ==
    /\ opened \in Buildings /\ able \in BOOLEAN /\ leaving \in BOOLEAN /\ again \in BOOLEAN
    /\ asked \in Buildings \cup {None} /\ (again => run # None)
    /\ doc \in [Buildings -> [Devices -> Device]] /\ run \in Passing \cup {None}

\* What a pass is about to write over is no newer than what is stored, and still needs it if it
\* is what is stored.
WritesOverNeed ==
    run # None =>
      /\ run.at \in {"ask", "get", "save"} => run.id \in Devices
      /\ run.at \in {"get", "save"} => run.answer \in {"found", "missing", "unusable"}
      /\ run.at = "save" => LET d == doc[run.of][run.id]
                            IN run.over <= d.rev /\ (run.over = d.rev => Needs(d))

\* A manufacturer that was found, by whichever tab or replica, is not replaced by what a slower
\* pass was told (catalog-backfill.ts 92-123): a pass may take minutes between its list and a
\* write.
KeepsWhatWasFound ==
    \A p \in Buildings, d \in Devices : doc[p][d].block = "found" => doc'[p][d].block = "found"

\* Whatever asks for a pass is followed by one that begins afterwards, over the project open by
\* then, unless it is stopped first (catalog-backfill.ts 173-212, app-shell.ts 383-404): a
\* device saved during a pass is not left without its manufacturer.
Waiting == asked # None
AskedIsServed == Waiting ~> ~Waiting
=============================================================================
