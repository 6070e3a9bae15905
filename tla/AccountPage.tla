---------------------------- MODULE AccountPage ----------------------------
(***************************************************************************)
(* The account page (ui/views/account.ts, ui/sign-in-methods.ts): the      *)
(* sign-in methods read when a session begins, the passkeys added, renamed *)
(* and removed one action at a time, and the plan comparison that is asked *)
(* for again when the connection returns.                                  *)
(***************************************************************************)
EXTENDS Integers

CONSTANTS Accounts, Passkeys,
          MaxSessions, \* bound: sessions begun
          MaxActions,  \* bound: actions on passkeys, here or elsewhere
          MaxNetwork,  \* bound: how often the connection comes or goes
          None

Sessions == {"unknown", "in", "held", "out"}

VARIABLES
    session, who,  \* the session the shell reports, and whose it is
    server,        \* [account -> its passkeys]
    loaded,        \* "nothing", "signed-out", "unreachable", or [of, passkeys]
    reading,       \* the reads under way: [of, newest, got, ends], ends for the action's own
    editing, busy,
    action,        \* the action under way: [of, kind, passkey, answer]
    online, matrix,
    plansLoad,     \* the load of the comparison under way: "none", "asked", "failed"
    retryQueued,
    owed,          \* history: the connection returned, with no comparison here and none asked since
    begun, acted, turned

account_vars == <<session, who, server, loaded, reading, editing, busy, action, online, matrix,
                  plansLoad, retryQueued, owed, begun, acted, turned>>
plans == <<online, matrix, plansLoad, retryQueued, owed, turned>>

Methods(of, passkeys) == [of |-> of, passkeys |-> passkeys]
Shows(methods) == methods \in [of : Accounts, passkeys : SUBSET Passkeys]

Init ==
    /\ session = "unknown" /\ who = None /\ server \in [Accounts -> SUBSET Passkeys]
    /\ loaded = [is |-> "nothing"]
    /\ reading = {[of |-> None, newest |-> TRUE, got |-> None, ends |-> FALSE]}
    /\ editing = None /\ busy = FALSE /\ action = None
    /\ online \in BOOLEAN /\ matrix = FALSE /\ plansLoad = "asked" /\ retryQueued = FALSE
    /\ owed = FALSE /\ begun = 0 /\ acted = 0 /\ turned = 0

Says(what) == [is |-> what]
Overtaken == {[r EXCEPT !.newest = FALSE] : r \in reading}

\* refresh(): the newest read alone is heard.
Refreshes(of, ends) ==
    Overtaken \cup {[of |-> of, newest |-> TRUE, got |-> None, ends |-> ends]}
-----------------------------------------------------------------------------
(* The session. *)

Begins(a) ==
    /\ session # "in" /\ begun < MaxSessions /\ begun' = begun + 1
    /\ session = "held" => who = a
    /\ session' = "in" /\ who' = a /\ reading' = Refreshes(a, FALSE)
    /\ UNCHANGED <<server, loaded, editing, busy, action, plans, acted>>

\* The first answer finds a session it cannot confirm. Not an end.
IsHeld ==
    /\ session = "unknown" /\ session' = "held" /\ \E a \in Accounts : who' = a
    /\ UNCHANGED <<server, loaded, reading, editing, busy, action, plans, begun, acted>>

\* forget().
Forgets == loaded' = Says("signed-out") /\ editing' = None /\ reading' = Overtaken

Ends ==
    /\ session # "out" /\ session' = "out" /\ who' = None /\ Forgets
    /\ UNCHANGED <<server, busy, action, plans, begun, acted>>

\* The server, asked with the token of whoever is signed in then.
ReadAnswers ==
    \E r \in reading :
      /\ r.got = None
      /\ \E got \in {Says("unreachable"), IF r.of = None THEN Says("signed-out")
                                          ELSE Methods(r.of, server[r.of])} :
           reading' = (reading \ {r}) \cup {[r EXCEPT !.got = got]}
      /\ UNCHANGED <<session, who, server, loaded, editing, busy, action, plans, begun, acted>>

ReadLands ==
    \E r \in reading :
      /\ r.got # None /\ reading' = reading \ {r}
      /\ loaded' = IF r.newest THEN r.got ELSE loaded
      /\ IF r.ends THEN busy' = FALSE /\ action' = None ELSE UNCHANGED <<busy, action>>
      /\ UNCHANGED <<session, who, server, editing, plans, begun, acted>>
-----------------------------------------------------------------------------
(* Passkeys. *)

HasMethods == "of" \in DOMAIN loaded
Listed == IF HasMethods THEN loaded.passkeys ELSE {}

Edits(passkey) ==
    /\ passkey \in Listed /\ editing = None /\ editing' = passkey
    /\ UNCHANGED <<session, who, server, loaded, reading, busy, action, plans, begun, acted>>

\* run(): one action at a time.
Acts(kind, passkey) ==
    /\ HasMethods /\ ~busy /\ acted < MaxActions /\ acted' = acted + 1
    /\ CASE kind = "add" -> passkey \notin Listed
         [] kind = "rename" -> editing = passkey
         [] kind = "remove" -> passkey \in Listed
    /\ busy' = TRUE
    /\ action' = [of |-> who, kind |-> kind, passkey |-> passkey, answer |-> "none"]
    /\ UNCHANGED <<session, who, server, loaded, reading, editing, plans, begun>>

ActionAnswers ==
    /\ action # None /\ action.answer = "none"
    /\ LET has == action.of # None /\ action.passkey \in server[action.of]
           done == CASE action.kind = "add" -> IF action.of = None THEN "signed-out" ELSE "done"
                     [] action.kind = "rename" -> IF has THEN "done" ELSE "missing"
                     [] action.kind = "remove" -> IF has THEN "done" ELSE "missing"
       IN \E answer \in {done, "signed-out", "unreachable", "dismissed"} :
            /\ answer = "dismissed" => action.kind = "add"
            /\ action' = [action EXCEPT !.answer = answer]
            /\ server' = IF answer # "done" THEN server
                         ELSE [server EXCEPT ![action.of] =
                                 CASE action.kind = "add" -> @ \cup {action.passkey}
                                   [] action.kind = "remove" -> @ \ {action.passkey}
                                   [] OTHER -> @]
    /\ UNCHANGED <<session, who, loaded, reading, editing, busy, plans, begun, acted>>

\* setPasskeys(): nothing, unless methods are shown.
SetPasskeys(passkeys) == IF HasMethods THEN Methods(loaded.of, passkeys) ELSE loaded

\* run() ends.
Over == busy' = FALSE /\ action' = None

ActionLands ==
    /\ action # None /\ action.answer # "none"
    /\ action.answer = "missing" => action.kind = "remove"
    /\ CASE action.answer = "signed-out" ->
              loaded' = Says("signed-out") /\ UNCHANGED editing
         [] action.answer \in {"unreachable", "dismissed"} -> UNCHANGED <<loaded, editing>>
         [] action.kind = "rename" -> editing' = None /\ UNCHANGED loaded
         [] OTHER ->
              /\ loaded' = SetPasskeys(IF action.kind = "add" THEN Listed \cup {action.passkey}
                                       ELSE Listed \ {action.passkey})
              /\ UNCHANGED editing
    /\ Over
    /\ UNCHANGED <<session, who, server, reading, plans, begun, acted>>

\* A passkey to rename that is gone: the list is read again, within the action.
RenameMisses ==
    /\ action # None /\ action.answer = "missing" /\ action.kind = "rename"
    /\ ~\E r \in reading : r.ends
    /\ editing' = None /\ reading' = Refreshes(who, TRUE)
    /\ UNCHANGED <<session, who, server, loaded, busy, action, plans, begun, acted>>

\* A passkey removed on another device.
RemovedElsewhere(a, passkey) ==
    /\ passkey \in server[a] /\ acted < MaxActions /\ acted' = acted + 1
    /\ server' = [server EXCEPT ![a] = @ \ {passkey}]
    /\ UNCHANGED <<session, who, loaded, reading, editing, busy, action, plans, begun>>
-----------------------------------------------------------------------------
(* The comparison of the plans. *)

\* loadPlanMatrix(): one load at a time, one more owed.
Loads == IF plansLoad = "none" THEN plansLoad' = "asked" /\ owed' = FALSE /\ UNCHANGED retryQueued
         ELSE retryQueued' = TRUE /\ owed' = TRUE /\ UNCHANGED plansLoad

\* A connection that returns asks again, as long as nothing is here.
Network ==
    /\ turned < MaxNetwork /\ turned' = turned + 1
    /\ online' = ~online
    /\ IF online' /\ ~matrix THEN Loads ELSE UNCHANGED <<plansLoad, retryQueued, owed>>
    /\ UNCHANGED <<session, who, server, loaded, reading, editing, busy, action, matrix, begun, acted>>

\* The cache or the server answers, or neither does.
LoadEnds ==
    /\ plansLoad = "asked" /\ matrix' \in {matrix, TRUE}
    /\ IF retryQueued /\ ~matrix' THEN plansLoad' = "asked" /\ owed' = FALSE
       ELSE plansLoad' = "none" /\ owed' = (owed /\ ~matrix')
    /\ retryQueued' = FALSE
    /\ UNCHANGED <<session, who, server, loaded, reading, editing, busy, action, online, begun,
                   acted, turned>>
-----------------------------------------------------------------------------
Next ==
    \/ (\E a \in Accounts : Begins(a)) \/ IsHeld \/ Ends \/ ReadAnswers \/ ReadLands
    \/ \E k \in Passkeys : \/ Edits(k)
                           \/ \E kind \in {"add", "rename", "remove"} : Acts(kind, k)
                           \/ \E a \in Accounts : RemovedElsewhere(a, k)
    \/ ActionAnswers \/ ActionLands \/ RenameMisses
    \/ Network \/ LoadEnds

Spec == Init /\ [][Next]_account_vars
-----------------------------------------------------------------------------
AccountPageTypeOK ==
    /\ session \in Sessions /\ (HasMethods => Shows(loaded))
    /\ \A r, s \in reading : r.newest /\ s.newest => r = s

\* What a read, the page and an action may hold.
Said == [is : {"nothing", "signed-out", "unreachable"}]
Shown == [of : Accounts, passkeys : SUBSET Passkeys]
Read == [of : Accounts \cup {None}, newest : BOOLEAN, got : Said \cup Shown \cup {None}, ends : BOOLEAN]
Action == [of : Accounts \cup {None}, kind : {"add", "rename", "remove"}, passkey : Passkeys,
           answer : {"none", "done", "missing", "signed-out", "unreachable", "dismissed"}]

AccountTyped ==
    /\ session \in Sessions /\ who \in Accounts \cup {None} /\ server \in [Accounts -> SUBSET Passkeys]
    /\ loaded \in Said \cup Shown /\ reading \subseteq Read /\ action \in Action \cup {None}
    /\ \A r, s \in reading : r.newest /\ s.newest => r = s

\* A session that is over is nobody's, and neither the page nor the read that will be heard
\* holds, or can still be answered with, the methods of an account.
OverIsNobodys ==
    /\ session = "out" => who = None /\ loaded \in Said /\ \A r \in reading : r.newest => r.of = None
    /\ \A r \in reading : r.of = None => r.got \in Said \cup {None}

\* Once a session is over nothing of its account is on the page, whatever was under way
\* (forget: "a read still in flight would otherwise answer after sign-out and put the previous
\* account's methods back on screen"); and a connection that returned while the comparison was
\* being asked for is not forgotten (retryQueued).
NothingLeftBehind ==
    /\ session = "out" => ~HasMethods
    /\ owed => plansLoad # "none" /\ retryQueued
=============================================================================
