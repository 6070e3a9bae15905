------------------------------ MODULE AddForm ------------------------------
(***************************************************************************)
(* The form that adds a device (ui/views/add-device.ts over                *)
(* ui/views/device-form.ts): the setup code that is typed, scanned or read *)
(* from an image, the lookup of its manufacturer that follows the typing,  *)
(* and the save, with a change of project or of page in between. A code is *)
(* a member of Codes when a lookup can be made of it.                      *)
(***************************************************************************)
EXTENDS Integers, FiniteSets

CONSTANTS Buildings, Codes,
          MaxTurns,   \* bound: what is typed, switches, submits and outages
          None

VARIABLES
    opened,     \* the project every view reads
    typed,      \* the code in the field, or None when no lookup can be made of it
    lookup,     \* lookupState: [kind, code]
    timer,      \* the code a timer is set for, or None
    fetches,    \* the lookups under way: [code, live], live until aborted
    reachable,  \* whether one is signed in and online
    shown,      \* whether the form is on the page
    repos,      \* the project whose repositories the form has resolved, or None
    saving,     \* the submit under way: [begun, same, at, plan], or None
    saveFailed, \* "no", "locked", "storage"
    wanted,     \* history: whether the backfill has been asked for
    saved,      \* history: [begun, into, code, answer] of what was written
    turns

add_vars == <<opened, typed, lookup, timer, fetches, reachable, shown, repos, saving, saveFailed,
              wanted, saved, turns>>
looking == <<lookup, timer, fetches>>
submit == <<repos, saving, saveFailed, wanted, saved>>

Turn == turns < MaxTurns /\ turns' = turns + 1
Idle == [kind |-> "idle", code |-> None]
Aborted == {[f EXCEPT !.live = FALSE] : f \in fetches}

Init ==
    /\ opened \in Buildings /\ repos = opened /\ typed = None /\ reachable \in BOOLEAN
    /\ lookup = Idle /\ timer = None /\ fetches = {}
    /\ shown = TRUE /\ saving = None /\ saveFailed = "no" /\ wanted = FALSE /\ saved = {} /\ turns = 0
-----------------------------------------------------------------------------
\* stopLookup().
Stop == timer' = None /\ fetches' = Aborted

\* scheduleLookup(), for what is in the field by now.
Schedule(code) ==
    IF lookup.kind # "idle" /\ code # None /\ lookup.code = code THEN UNCHANGED looking
    ELSE /\ lookup' = Idle /\ fetches' = Aborted
         /\ timer' = IF reachable THEN code ELSE None

\* @input, onScan(), onUpload(): the field changes, and the lookup with it.
Types(code) ==
    /\ Turn
    /\ shown /\ code # typed /\ typed' = code /\ Schedule(code)
    /\ UNCHANGED <<opened, reachable, shown, submit>>

\* The debounce is over: runLookup() begins.
Debounced ==
    /\ timer # None /\ timer' = None
    /\ lookup' = [kind |-> "pending", code |-> timer]
    /\ fetches' = fetches \cup {[code |-> timer, live |-> TRUE]}
    /\ UNCHANGED <<opened, typed, reachable, shown, submit, turns>>

\* runLookup(), answered: found, or nothing to show.
Heard(f, found) ==
    IF ~f.live THEN UNCHANGED lookup
    ELSE lookup' = IF found THEN [kind |-> "found", code |-> f.code] ELSE Idle

Answers ==
    \E f \in fetches, found \in BOOLEAN :
      /\ fetches' = fetches \ {f} /\ Heard(f, found)
      /\ UNCHANGED <<opened, typed, timer, reachable, shown, submit, turns>>

\* Signed in and online, or not.
Reaches ==
    /\ Turn
    /\ reachable' = ~reachable
    /\ UNCHANGED <<opened, typed, looking, shown, submit>>
-----------------------------------------------------------------------------
\* answerForSave(): the answer shown, if it is of what is in the field.
AnswerForSave == IF lookup.kind = "found" /\ lookup.code = typed THEN lookup.code ELSE None

\* onSubmit(), up to its first wait; projectSnapshot().
Submits ==
    /\ Turn
    /\ shown /\ saving = None
    /\ repos' = IF repos = None THEN opened ELSE repos
    /\ saving' = [begun |-> opened, same |-> TRUE, at |-> "rooms", plan |-> None]
    /\ UNCHANGED <<opened, typed, looking, reachable, shown, saveFailed, wanted, saved>>

\* write(): after a switch since the submit nothing is written.
Writes == saving.same

\* The rooms are read, the device is planned from the fields as they are by now, and handed to
\* the repository the form holds by now.
Plans ==
    /\ saving # None /\ saving.at = "rooms"
    /\ IF Writes
       THEN /\ repos' = IF repos = None THEN opened ELSE repos
            /\ saving' = [saving EXCEPT !.at = "writing",
                            !.plan = [into |-> repos', code |-> typed, answer |-> AnswerForSave]]
       ELSE UNCHANGED repos /\ saving' = None
    /\ UNCHANGED <<opened, typed, looking, reachable, shown, saveFailed, wanted, saved, turns>>

\* The rooms cannot be read, or a field is refused.
PlanFails ==
    /\ saving # None /\ saving.at = "rooms" /\ saving' = None
    /\ UNCHANGED <<opened, typed, looking, reachable, shown, repos, saveFailed, wanted, saved, turns>>

\* The save leads to the device list, wherever the reader is by then; askForBackfill() when no answer came in time.
Saves ==
    /\ saving # None /\ saving.at = "writing"
    /\ saved' = saved \cup {[begun |-> saving.begun, into |-> saving.plan.into,
                             code |-> saving.plan.code, answer |-> saving.plan.answer]}
    /\ wanted' = (wanted \/ (reachable /\ saving.plan.answer = None /\ saving.plan.code # None))
    /\ saving' = None /\ saveFailed' = "no" /\ shown' = FALSE
    /\ timer' = None /\ fetches' = Aborted /\ lookup' = IF lookup.kind = "pending" THEN Idle ELSE lookup
    /\ UNCHANGED <<opened, typed, reachable, repos, turns>>

SaveFails ==
    \E why \in {"locked", "storage"} :
      /\ saving # None /\ saving.at = "writing" /\ saving' = None /\ saveFailed' = why
      /\ UNCHANGED <<opened, typed, looking, reachable, shown, repos, wanted, saved, turns>>

\* projectDataChanged(): the key may have arrived.
DataChanges ==
    /\ shown /\ saveFailed = "locked" /\ saveFailed' = "no"
    /\ UNCHANGED <<opened, typed, looking, reachable, shown, repos, saving, wanted, saved, turns>>

\* Another project is opened. A form on the page hears of it and leaves; its generation moves.
Switch(p) ==
    /\ Turn
    /\ p # opened /\ opened' = p
    /\ IF shown
       THEN /\ repos' = None /\ saving' = IF saving = None THEN None ELSE [saving EXCEPT !.same = FALSE]
            /\ shown' = FALSE /\ Stop /\ lookup' = IF lookup.kind = "pending" THEN Idle ELSE lookup
       ELSE UNCHANGED <<repos, saving, shown, looking>>
    /\ UNCHANGED <<typed, reachable, saveFailed, wanted, saved>>

\* The reader leaves for another page: disconnectedCallback(). A submit under way goes on.
Leaves ==
    /\ shown /\ shown' = FALSE /\ Stop
    /\ lookup' = IF lookup.kind = "pending" THEN Idle ELSE lookup
    /\ UNCHANGED <<opened, typed, reachable, submit, turns>>
-----------------------------------------------------------------------------
Next ==
    \/ Debounced \/ Answers \/ Reaches \/ Submits \/ Plans \/ PlanFails \/ Saves \/ SaveFails
    \/ DataChanges \/ Leaves
    \/ \E code \in Codes \cup {None} : Types(code)
    \/ \E p \in Buildings : Switch(p)

Spec == Init /\ [][Next]_add_vars
-----------------------------------------------------------------------------
AddFormTypeOK ==
    /\ opened \in Buildings /\ typed \in Codes \cup {None} /\ repos \in Buildings \cup {None}
    /\ lookup.kind \in {"idle", "pending", "found"} /\ lookup.code \in Codes \cup {None}
    /\ timer \in Codes \cup {None} /\ saveFailed \in {"no", "locked", "storage"}
    /\ \A f, g \in fetches : f.live /\ g.live => f = g

Planned == [into : Buildings, code : Codes \cup {None}, answer : Codes \cup {None}]
Saving == [begun : Buildings, same : BOOLEAN, at : {"rooms", "writing"}, plan : Planned \cup {None}]
AddTyped ==
    /\ AddFormTypeOK /\ lookup \in [kind : {"idle", "pending", "found"}, code : Codes \cup {None}]
    /\ fetches \subseteq [code : Codes, live : BOOLEAN]
    /\ saving # None => saving \in Saving

\* Only the lookup of what is in the field is not aborted.
FetchesOwn == \A f \in fetches : f.live => f.code = typed

\* A form on the page resolves the open project, and a submit nobody switched under has kept
\* the one it began in; what is planned is of the code it is planned with.
SavesOwn ==
    /\ shown /\ repos # None => repos = opened
    /\ saving # None =>
         /\ saving.same => repos = saving.begun
         /\ saving.at = "writing" =>
              /\ saving.plan # None /\ saving.plan.into = saving.begun
              /\ saving.plan.answer \in {None, saving.plan.code}

\* What is shown as the manufacturer, and what a timer or a lookup still under way will show,
\* is of the code that is in the field (add-device.ts 179-233).
LookupIsOfTyped ==
    /\ lookup.kind # "idle" => lookup.code = typed
    /\ timer # None => timer = typed /\ lookup = Idle
    /\ lookup.kind = "pending" <=> \E f \in fetches : f.live

\* A device is written into the project it was typed under, with the manufacturer of its own
\* code, however late the rooms are read (device-form.ts 205-251, add-device.ts 330-390).
SavedAsTyped == \A s \in saved : s.into = s.begun /\ s.answer \in {None, s.code}
=============================================================================
