----------------------------- MODULE DeviceList -----------------------------
(***************************************************************************)
(* The device list (ui/views/device-list.ts): reads of the open project,   *)
(* overtaken by newer ones, and the exports built from what is on screen,  *)
(* cancelled by the reader or by a change of project. What a project holds *)
(* on this device is "plain", or "locked" while its key is missing.        *)
(***************************************************************************)
EXTENDS Integers, FiniteSets

CONSTANTS Buildings,
          MaxTurns,   \* bound: changes of project or of what one holds, exports asked for
          None

VARIABLES
    opened,     \* the project every view reads
    held,       \* [project -> "plain", "locked"]: what this device holds of it
    devices,    \* the list: [of, is], or None
    loaded,     \* whether this project has been read
    failed,     \* whether the page says that a read failed
    loading,    \* the reads under way: [of, newest, got]
    token,      \* exportToken
    exporting, progress, exportFailed, exportLocked,
    building,   \* the exports under way: [token, from, reports], from what was on screen
    files,      \* history: [from, under], the files handed over
    failures,   \* history: whether a read of the open project failed since it was opened
    turns

list_vars == <<opened, held, devices, loaded, failed, loading, token, exporting, progress,
               exportFailed, exportLocked, building, files, failures, turns>>
export == <<token, exporting, progress, exportFailed, building, files>>
screen == <<devices, loaded, failed, exportLocked, failures>>

Turn == turns < MaxTurns /\ turns' = turns + 1
Fresh(p) == [of |-> p, newest |-> TRUE, got |-> None]

\* load(): a generation newer than any before.
Load(p) == {[l EXCEPT !.newest = FALSE] : l \in loading} \cup {Fresh(p)}

Init ==
    /\ opened \in Buildings /\ held \in [Buildings -> {"plain", "locked"}]
    /\ devices = None /\ loaded = FALSE /\ failed = FALSE /\ loading = {Fresh(opened)}
    /\ token = 0 /\ exporting = FALSE /\ progress = FALSE
    /\ exportFailed = FALSE /\ exportLocked = FALSE
    /\ building = {} /\ files = {} /\ failures = FALSE /\ turns = 0
-----------------------------------------------------------------------------
LoadTakes ==
    \E l \in loading :
      /\ l.got = None
      /\ loading' = (loading \ {l}) \cup {[l EXCEPT !.got = [of |-> l.of, is |-> held[l.of]]]}
      /\ UNCHANGED <<opened, held, screen, export, turns>>

\* The refusal of an export is over with the first read that has nothing locked in it.
LoadLands ==
    \E l \in loading :
      /\ l.got # None /\ loading' = loading \ {l}
      /\ IF l.newest
         THEN /\ devices' = l.got /\ loaded' = TRUE
              /\ exportLocked' = (exportLocked /\ l.got.is = "locked")
         ELSE UNCHANGED <<devices, loaded, exportLocked>>
      /\ UNCHANGED <<opened, held, failed, failures, export, turns>>

\* load(), in the catch: whatever read it was.
LoadFails ==
    \E l \in loading :
      /\ loading' = loading \ {l} /\ failed' = TRUE
      /\ failures' = (failures \/ l.of = opened)
      /\ UNCHANGED <<opened, held, devices, loaded, exportLocked, export, turns>>

\* What this device holds changes, and the page is told: PROJECT_DATA_CHANGED.
Arrives(p) ==
    /\ Turn
    /\ held' = [held EXCEPT ![p] = IF @ = "plain" THEN "locked" ELSE "plain"]
    /\ loading' = IF p = opened THEN Load(p) ELSE loading
    /\ UNCHANGED <<opened, screen, export>>
-----------------------------------------------------------------------------
\* cancelExport(): what is being built belongs to a token of the past.
Cancelled == token' = token + 1 /\ exporting' = FALSE /\ progress' = FALSE

Cancels ==
    /\ exporting /\ progress /\ Cancelled
    /\ UNCHANGED <<opened, held, screen, loading, exportFailed, building, files, turns>>

\* onProjectChanged(), of an export under way.
SwitchCancels == Cancelled

Switch(p) ==
    /\ Turn
    /\ p # opened /\ opened' = p
    /\ SwitchCancels
    /\ devices' = None /\ loaded' = FALSE /\ failed' = FALSE /\ exportLocked' = FALSE
    /\ failures' = FALSE /\ loading' = Load(p)
    /\ UNCHANGED <<held, exportFailed, building, files>>

\* refusedAsLocked(), over everything read and not over the selection.
Refused == devices.is = "locked"

\* onExport(), onExportXlsx(), onExportLabels(): of the three the spreadsheet reports nothing,
\* and so offers no Cancel.
Exports(reports) ==
    /\ Turn /\ ~exporting /\ loaded
    /\ IF Refused
       THEN /\ exportLocked' = TRUE /\ exportFailed' = FALSE
            /\ UNCHANGED <<token, exporting, progress, building>>
       ELSE /\ token' = token + 1
            /\ exporting' = TRUE /\ progress' = reports /\ exportFailed' = FALSE
            /\ exportLocked' = FALSE
            /\ building' = building \cup {[token |-> token', from |-> devices, reports |-> reports]}
    /\ UNCHANGED <<opened, held, devices, loaded, failed, failures, loading, files>>

\* The finally of each: only for the export of the token that stands.
Settled(b) ==
    IF b.token # token THEN UNCHANGED <<exporting, progress>>
    ELSE exporting' = FALSE /\ progress' = (progress /\ ~b.reports)

\* The builder's progress says nothing, and an abandoned build is told so before it delivers.
Delivers ==
    \E b \in building :
      /\ building' = building \ {b} /\ Settled(b)
      /\ files' = IF b.token = token THEN files \cup {[from |-> b.from, under |-> opened]} ELSE files
      /\ UNCHANGED <<opened, held, screen, loading, token, exportFailed, turns>>

BuildFails ==
    \E b \in building :
      /\ building' = building \ {b} /\ Settled(b)
      /\ exportFailed' = (exportFailed \/ b.token = token)
      /\ UNCHANGED <<opened, held, screen, loading, token, files, turns>>
-----------------------------------------------------------------------------
Next ==
    \/ LoadTakes \/ LoadLands \/ LoadFails \/ Cancels \/ Delivers \/ BuildFails
    \/ \E p \in Buildings : Switch(p) \/ Arrives(p)
    \/ \E reports \in BOOLEAN : Exports(reports)

Spec == Init /\ [][Next]_list_vars
-----------------------------------------------------------------------------
DeviceListTypeOK ==
    /\ opened \in Buildings /\ held \in [Buildings -> {"plain", "locked"}]
    /\ loaded \in BOOLEAN /\ failed \in BOOLEAN /\ token \in Nat
    /\ exporting \in BOOLEAN /\ progress \in BOOLEAN /\ exportFailed \in BOOLEAN /\ exportLocked \in BOOLEAN
    /\ loaded <=> devices # None

Listing == [of : Buildings, is : {"plain", "locked"}]
ListTyped ==
    /\ DeviceListTypeOK /\ devices \in Listing \cup {None}
    /\ loading \subseteq [of : Buildings, newest : BOOLEAN, got : Listing \cup {None}]
    /\ building \subseteq [token : Nat, from : Listing, reports : BOOLEAN]
    /\ files \subseteq [from : Listing, under : Buildings]

\* What is shown, and what the newest read brings, is of the open project.
ListOwns ==
    /\ devices # None => devices.of = opened
    /\ \A l \in loading : (l.newest => l.of = opened) /\ (l.got # None => l.got.of = l.of)

\* Of the exports under way only the one of the token that stands is of what is shown.
BuildsOwn ==
    \A b \in building :
      /\ b.token <= token
      /\ b.token = token => b.from.of = opened /\ b.from.is = "plain"
      /\ \A c \in building : b.token = c.token => b = c

\* A file handed over was built from the project that was open when it was handed over, and
\* from none of its codes missing, whatever was cancelled, switched, read late or unlocked
\* while it was being built (device-list.ts 216-232, 273-298, 556-713).
FilesAreOfTheProject ==
    /\ devices # None => devices.of = opened
    /\ \A f \in files : f.from.of = f.under /\ f.from.is = "plain"

\* The page says that it is exporting for exactly as long as the export it would hand over is
\* under way: one abandoned neither ends the next one nor leaves the buttons dead
\* (device-list.ts 576-580, 589-713).
ExportingIsTrue ==
    /\ exporting <=> \E b \in building : b.token = token
    /\ progress => exporting
    /\ \A b \in building : b.token = token => progress = b.reports

\* What onProjectChanged() says of a read that failed (device-list.ts 225-226).
\* Meant, and not kept: the README says how the code breaks it.
FailureIsThisProjects == failed => failures
=============================================================================
