-------------------------- MODULE MCProjectTransfer --------------------------
(***************************************************************************)
(* Project actions in two scenarios: two tabs act on one project and there *)
(* is no fault; or one tab acts, with two projects on the server, and two  *)
(* faults befall it.                                                       *)
(***************************************************************************)
EXTENDS ProjectTransfer

CONSTANTS Main   \* the tab and the project both scenarios have

ASSUME MainAssumption == \E t \in Tabs : Main \cap Tabs = {t}

VARIABLE scenario

allVars == <<vars, scenario>>

\* What a step of the scenario leaves out.
Within ==
    /\ scenario' = scenario
    /\ IF scenario = "tabs"
       THEN faults' = faults /\ created' \subseteq Main
       ELSE \A t \in Tabs \ Main :
              act'[t] = act[t] /\ view'[t] = view[t] /\ page'[t] = page[t]

ScenarioInit == Init /\ scenario \in {"tabs", "faults"}
ScenarioNext == Next /\ Within

\* As Fairness of ProjectTransfer, of the steps the scenario has.
ScenarioSpec ==
    /\ ScenarioInit /\ [][ScenarioNext]_allVars
    /\ \A t \in Tabs : WF_allVars(Proceed(t) /\ Within) /\ SF_allVars(Acquire(t) /\ Within)

\* See WithinReach: promised of one tab only, whatever befalls it.
WithinReachOfOneTab == scenario = "faults" => WithinReach

\* Behind it, of the tab t: the others do nothing; the source is hidden by nothing but the action
\* that destroys it, or by a page older than the id recorded on it, and such a page shows
\* nothing to download; and the views of t write where a reader can get at it.
Alone(t) == \A u \in Tabs \ {t} : act[u] = Idle /\ view[u] = None /\ page[u] = {}

PromoteInOrder(t) ==
    LET a == act[t] IN
    a.kind = "promote" =>
      /\ Source \in entries
      /\ a.at \in {"post", "record"} => recorded = None
      /\ a.at \notin {"post", "record"} => recorded = a.project
      /\ a.at = "record" => a.project \notin entries
      /\ a.at \notin Unopened => view[t] # Source
      /\ a.at \in {"destroy", "forget"} => a.project \in entries
      /\ a.moved /\ a.at \notin {"destroy", "forget"} => a.project \notin entries

OneTabInv(t) ==
    /\ Alone(t) /\ PromoteInOrder(t)
    /\ act[t].at = "idle" => act[t].kind = "none"
    /\ act[t].at \in {"post", "record", "copy", "index", "copyBack"} => act[t].kind = "promote"
    /\ act[t].at \in Unopened => ~act[t].moved
    /\ entries \subseteq created \cup {Source} /\ page[t] \subseteq created
    /\ act[t].at = "idle" /\ Source \in entries => recorded \notin page[t]
    /\ view[t] \in created \cup {Source, None} /\ (view[t] = Source => Source \in Listed)

ReachInv ==
    scenario = "faults" => WithinReach /\ \A t \in Tabs \cap Main : OneTabInv(t)

\* See ActionsEnd: two tabs that promote, download and remove the same project never leave each
\* other waiting for a lock (db/db-lock.ts 44-91).
TabsEnd == scenario = "tabs" => ActionsEnd
=============================================================================
