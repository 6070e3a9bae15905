---------------------------- MODULE Replication ----------------------------
(***************************************************************************)
(* What the page and the status bar say of one synchronized project: the   *)
(* replications started for it one after another (ui/sync/replication.ts), *)
(* the probes that say what a pause means, the one-off pushes, and the     *)
(* controller's memory of refusals (ui/projects-controller.ts).            *)
(*                                                                         *)
(* PouchDB is taken as replication.ts takes it: live with retry, a pause   *)
(* that says nothing of its reason, a refusal per document, and a          *)
(* checkpoint that moves past a refused document.                          *)
(***************************************************************************)
EXTENDS Integers

CONSTANTS MaxStarts,   \* bound: replications started for the project
          MaxTurns     \* bound: how often the network or the server changes its mind

SyncStates == {"active", "idle", "offline", "denied", "stopped"}
Handles == 1..MaxStarts

VARIABLES
    listed,      \* whether the project is handed to replication
    state,       \* [Handles -> the state a handle reports, or "none" before it starts]
    live,        \* the handle that runs, or 0
    started,     \* how many were started
    feed,        \* PouchDB under the live handle: working, caughtUp or retrying
    probe,       \* [Handles -> the probe it is waiting for]
    status,      \* the state the controller last heard
    denied,      \* whether the controller remembers a refusal
    push,        \* the one-off push
    unsent,      \* whether a document waits to be sent
    skipped,     \* whether a refused one is behind the checkpoint
    refused,     \* history: "yes" from the first refusal, "over" from the first push that
                 \* answered for it, "no" again when the project leaves
    reachable, refusing, turns

network == <<reachable, refusing, turns>>
documents == <<unsent, skipped, refused>>
replication_vars == <<listed, state, live, started, feed, probe, status, denied, push,
                      documents, network>>
-----------------------------------------------------------------------------

\* What the page shows: a refusal outranks whatever was reported since.
Shown == IF denied THEN "denied" ELSE status

\* The status bar's words for it.
StatusShown(signedIn) ==
    CASE ~listed -> "local"
      [] listed /\ Shown = "denied" -> "denied"
      [] listed /\ Shown # "denied" /\ ~signedIn -> "paused"
      [] OTHER -> IF Shown = "idle" THEN "synced" ELSE "pending"

\* Mutant: a stopped handle still reports.
HearsStopped(h, next, clear) ==
    IF state[h] = next \/ (state[h] = "denied" /\ ~clear)
      THEN UNCHANGED <<state, status, denied>>
      ELSE /\ state' = [state EXCEPT ![h] = next]
           /\ status' = next
           /\ denied' = (denied \/ next = "denied")

\* report(): a stopped handle says nothing more, and a refusal yields to a push that
\* got through.
Hears(h, next, clear) ==
    IF state[h] \in {next, "stopped"} \/ (state[h] = "denied" /\ ~clear)
      THEN UNCHANGED <<state, status, denied>>
      ELSE /\ state' = [state EXCEPT ![h] = next]
           /\ status' = next
           /\ denied' = (denied \/ next = "denied")

Init ==
    /\ listed = FALSE /\ state = [h \in Handles |-> "none"] /\ live = 0 /\ started = 0
    /\ feed = "caughtUp" /\ probe = [h \in Handles |-> "none"]
    /\ status = "none" /\ denied = FALSE /\ push = "none"
    /\ unsent = FALSE /\ skipped = FALSE /\ refused = "no"
    /\ reachable = TRUE /\ refusing = FALSE /\ turns = 0
-----------------------------------------------------------------------------
(* The manager. *)

\* startOne(): a handle reports 'active' at once.
Starts ==
    /\ live = 0 /\ started < MaxStarts
    /\ listed' = TRUE
    /\ started' = started + 1 /\ live' = started'
    /\ state' = [state EXCEPT ![started'] = "active"] /\ status' = "active"
    /\ feed' = "working"
    /\ UNCHANGED <<probe, denied, push, documents, network>>

\* stopOne() for a suspension: the project stays listed, and its refusal remembered.
Suspends ==
    /\ live # 0
    /\ live' = 0 /\ state' = [state EXCEPT ![live] = "stopped"] /\ status' = "stopped"
    /\ UNCHANGED <<listed, started, feed, probe, denied, push, documents, network>>

\* The project leaves the list: what was said of it is forgotten.
Leaves ==
    /\ listed
    /\ listed' = FALSE /\ live' = 0
    /\ state' = IF live = 0 THEN state ELSE [state EXCEPT ![live] = "stopped"]
    /\ status' = "none" /\ denied' = FALSE /\ refused' = "no"
    /\ UNCHANGED <<started, feed, probe, push, unsent, skipped, network>>
-----------------------------------------------------------------------------
(* PouchDB's events. *)

\* A connection that was open is lost. It may take its time to be noticed.
Dropped ==
    /\ live # 0 /\ feed = "caughtUp" /\ ~reachable
    /\ feed' = "retrying"
    /\ UNCHANGED <<listed, state, live, started, probe, status, denied, push, documents, network>>

\* A batch begins: something to send, or a connection to try again.
Works ==
    /\ live # 0
    /\ feed = "retrying" \/ (feed = "caughtUp" /\ unsent)
    /\ feed' = "working"
    /\ Hears(live, "active", FALSE)
    /\ UNCHANGED <<listed, live, started, probe, push, documents, network>>

\* A batch of the server's changes.
Pulled ==
    /\ live # 0 /\ feed = "working" /\ reachable
    /\ Hears(live, "active", FALSE)
    /\ UNCHANGED <<listed, live, started, feed, probe, push, documents, network>>

\* A batch of this copy's changes is taken. A document refused before stays behind.
Pushed ==
    /\ live # 0 /\ feed = "working" /\ reachable /\ ~refusing /\ unsent
    /\ unsent' = FALSE /\ UNCHANGED <<skipped, refused>>
    /\ Hears(live, "active", TRUE)
    /\ UNCHANGED <<listed, live, started, feed, probe, push, network>>

\* It is refused, and not offered again.
Denied ==
    /\ live # 0 /\ feed = "working" /\ reachable /\ refusing /\ unsent
    /\ unsent' = FALSE /\ skipped' = TRUE 
    /\ refused' = IF refused = "no" THEN "yes" ELSE refused
    /\ Hears(live, "denied", TRUE)
    /\ UNCHANGED <<listed, live, started, feed, probe, push, network>>

\* A pause that does not say why: caught up, or no server. One probe at a time asks.
Paused ==
    /\ live # 0 /\ feed = "working"
    /\ reachable => ~unsent
    /\ feed' = IF reachable THEN "caughtUp" ELSE "retrying"
    /\ probe' = [probe EXCEPT ![live] = IF @ = "none" THEN "asked" ELSE @]
    /\ UNCHANGED <<listed, state, live, started, status, denied, push, documents, network>>

\* A pause with an error, or an error.
Errs ==
    /\ live # 0 /\ feed = "working" /\ ~reachable
    /\ feed' = "retrying"
    /\ Hears(live, "offline", FALSE)
    /\ UNCHANGED <<listed, live, started, probe, push, documents, network>>

\* The server answers a probe, or it fails; what comes of it is on its way.
ProbeAsked(h) ==
    /\ probe[h] = "asked"
    /\ probe' = [probe EXCEPT ![h] = IF reachable THEN "reached" ELSE "failed"]
    /\ UNCHANGED <<listed, state, live, started, feed, status, denied, push, documents, network>>

ProbeAnswers(h) ==
    /\ probe[h] \in {"reached", "failed"}
    /\ probe' = [probe EXCEPT ![h] = "none"]
    /\ Hears(h, IF probe[h] = "reached" THEN "idle" ELSE "offline", FALSE)
    /\ UNCHANGED <<listed, live, started, feed, push, documents, network>>
-----------------------------------------------------------------------------
(* The one-off push: the whole copy is offered, whatever the checkpoint says. *)

PushBegins ==
    /\ listed /\ push = "none"
    /\ push' = "asked"
    /\ UNCHANGED <<listed, state, live, started, feed, probe, status, denied, documents, network>>

PushReaches ==
    /\ push = "asked"
    /\ IF reachable /\ (refusing => ~unsent /\ ~skipped)
         THEN unsent' = FALSE /\ skipped' = FALSE /\ push' = "taken"
         ELSE push' = "failed" /\ UNCHANGED <<unsent, skipped>>
    /\ UNCHANGED <<listed, state, live, started, feed, probe, status, denied, refused, network>>

\* Only one that took everything says that a refusal is over.
PushAnswers ==
    /\ push \in {"taken", "failed"}
    /\ denied' = (denied /\ push = "failed") 
    /\ refused' = IF refused = "yes" /\ push = "taken" THEN "over" ELSE refused
    /\ push' = "none"
    /\ UNCHANGED <<listed, state, live, started, feed, probe, status, unsent, skipped, network>>

-----------------------------------------------------------------------------
(* The reader, the network and the server. *)

Writes ==
    /\ ~unsent /\ unsent' = TRUE
    /\ UNCHANGED <<listed, state, live, started, feed, probe, status, denied, push, skipped, refused, network>>

Turn == turns < MaxTurns /\ turns' = turns + 1

Network ==
    /\ Turn /\ reachable' = ~reachable
    /\ UNCHANGED <<listed, state, live, started, feed, probe, status, denied, push, documents, refusing>>

\* The project is archived or its owner's plan lapses, or that is over.
Server ==
    /\ Turn /\ refusing' = ~refusing
    /\ UNCHANGED <<listed, state, live, started, feed, probe, status, denied, push, documents, reachable>>
-----------------------------------------------------------------------------
Answers == \E h \in Handles : ProbeAsked(h) \/ ProbeAnswers(h)

Next ==
    \/ Starts \/ Suspends \/ Leaves
    \/ Dropped \/ Works \/ Pulled \/ Pushed \/ Denied \/ Paused \/ Errs \/ Answers
    \/ PushBegins \/ PushReaches \/ PushAnswers
    \/ Writes \/ Network \/ Server

\* A retry comes, a batch ends, and a request is answered.
Fairness ==
    /\ WF_replication_vars(Works) /\ WF_replication_vars(Paused \/ Errs)
    /\ WF_replication_vars(Answers)

Spec == Init /\ [][Next]_replication_vars /\ Fairness
-----------------------------------------------------------------------------
ReplicationTypeOK ==
    /\ listed \in BOOLEAN /\ live \in 0..started /\ started \in 0..MaxStarts
    /\ \A h \in Handles : state[h] \in SyncStates \cup {"none"}
    /\ status \in SyncStates \cup {"none"}
    /\ live # 0 => listed /\ state[live] # "stopped" /\ status = state[live]

\* A handle is the live one, was stopped, or has not begun, and only the live one is heard; a
\* refusal that is remembered nowhere has been answered for, and what the live handle was
\* refused is remembered.
HandlesInOrder ==
    /\ started \in 0..MaxStarts /\ live \in 0..started
    /\ state \in [Handles -> SyncStates \cup {"none"}]
    /\ probe \in [Handles -> {"none", "asked", "reached", "failed"}]
    /\ \A h \in Handles :
         /\ h = live => state[h] \in SyncStates \ {"stopped"}
         /\ h # live /\ h <= started => state[h] = "stopped"
         /\ h > started => state[h] = "none" /\ probe[h] = "none"

RefusalRemembered ==
    /\ listed \in BOOLEAN /\ status \in SyncStates \cup {"none"}
    /\ live # 0 => listed /\ status = state[live] /\ (state[live] = "denied" => refused # "no")
    /\ refused = "yes" => denied

\* The first refusal is shown until a push that took everything has answered or the project
\* is no longer replicated: through suspensions, restarts, probes and other documents that got
\* through (the controller's `denied`).
RefusalShown ==
    listed /\ refused = "yes" => \A signedIn \in BOOLEAN : StatusShown(signedIn) = "denied"

\* A replication that keeps failing to reach the server does not go on saying it has
\* caught up, though a pause looks the same either way (classifyPause).
CannotReach == ~reachable /\ feed # "caughtUp"
SaysCaughtUp == StatusShown(TRUE) = "synced"
=============================================================================
