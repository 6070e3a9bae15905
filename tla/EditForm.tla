------------------------------ MODULE EditForm ------------------------------
(***************************************************************************)
(* The form that edits a device (ui/views/edit-device.ts over              *)
(* ui/views/device-form.ts). The shell keeps one element and changes its   *)
(* uuid with the route; reads of the device, the fields filled from it,    *)
(* and a save in several steps race with that.                             *)
(***************************************************************************)
EXTENDS Integers, FiniteSets

CONSTANTS Uuids,      \* the devices of the project
          MaxTurns,   \* bound: routes followed, submits, changes made elsewhere
          None

VARIABLES
    stored,     \* [uuid -> [rev, locked]]
    uuid,       \* the device of the route
    device,     \* the device the form holds: [id, rev, locked, via], or None
    fields,     \* the device whose values the controls show, or None
    reads,      \* the reads under way: [id, newest, full, got]
    saving,     \* the submit under way: [device, at], at "rooms", "writing", "reread"; or None
    refused,    \* saveFailed
    written,    \* history: [id, typed, locked] of what was written
    turns

edit_vars == <<stored, uuid, device, fields, reads, saving, refused, written, turns>>

Turn == turns < MaxTurns /\ turns' = turns + 1
\* "via" says which read brought a device: that of the route, or that after a refused save.
Held(id, via) == [id |-> id, rev |-> stored[id].rev, locked |-> stored[id].locked, via |-> via]

\* A read of the route's device ("full": it fills the controls), or of the one held.
Read(id, full, via) == [id |-> id, newest |-> TRUE, full |-> full, via |-> via, got |-> None]

\* load(), by willUpdate() of a new uuid: newer than any before.
Load(id) == {[r EXCEPT !.newest = FALSE] : r \in reads} \cup {Read(id, TRUE, "route")}

Init ==
    /\ stored \in [Uuids -> [rev : {1}, locked : BOOLEAN]]
    /\ uuid \in Uuids /\ device = None /\ fields = None
    /\ reads = {Read(uuid, TRUE, "route")}
    /\ saving = None /\ refused = "no" /\ written = {} /\ turns = 0
-----------------------------------------------------------------------------
\* willUpdate(): whatever save is under way goes on.
Follows(id) ==
    /\ Turn
    /\ id # uuid /\ uuid' = id /\ device' = None /\ reads' = Load(id)
    /\ UNCHANGED <<stored, fields, saving, refused, written>>

ReadTakes ==
    \E r \in reads :
      /\ r.got = None
      /\ reads' = (reads \ {r}) \cup {[r EXCEPT !.got = Held(r.id, r.via)]}
      /\ UNCHANGED <<stored, uuid, device, fields, saving, refused, written, turns>>

\* load() fills the controls as well, projectDataChanged() does not.
ReadLands ==
    \E r \in reads :
      /\ r.got # None /\ reads' = reads \ {r}
      /\ IF r.newest THEN device' = r.got /\ fields' = (IF r.full THEN r.id ELSE fields)
         ELSE UNCHANGED <<device, fields>>
      /\ UNCHANGED <<stored, uuid, saving, refused, written, turns>>

\* Another tab or another replica moves the document on, or its key arrives; the page is told.
\* A device held from a locked read is read again, under the token of the load.
Elsewhere(id) ==
    /\ Turn
    /\ stored' = [stored EXCEPT ![id] = [rev |-> @.rev + 1, locked |-> FALSE]]
    /\ refused' = IF refused = "locked" THEN "no" ELSE refused
    /\ reads' = IF device = None THEN reads
                ELSE IF device.locked
                     THEN reads \cup {Read(device.id, FALSE, device.via)}
                     ELSE reads
    /\ UNCHANGED <<uuid, device, fields, saving, written>>
-----------------------------------------------------------------------------
\* onSubmit(), up to its first wait.
Submits ==
    /\ Turn
    /\ device # None /\ saving = None
    /\ saving' = [device |-> device, at |-> "rooms", typed |-> None]
    /\ UNCHANGED <<stored, uuid, device, fields, reads, refused, written>>

\* planDeviceEdit(): the device of the submit, and the fields as they are by now.
Plans ==
    /\ saving # None /\ saving.at = "rooms"
    /\ saving' = [saving EXCEPT !.at = "writing", !.typed = fields]
    /\ UNCHANGED <<stored, uuid, device, fields, reads, refused, written, turns>>

\* The rooms cannot be read, or a field is refused.
PlanFails ==
    /\ saving # None /\ saving.at = "rooms" /\ saving' = None
    /\ UNCHANGED <<stored, uuid, device, fields, reads, refused, written, turns>>

\* save(): over the revision read, and never a device that was read locked.
Accepts(d) == stored[d.id].rev = d.rev /\ ~d.locked

\* write(), taken; the route becomes the device's own page, which leaves the form.
Saves ==
    /\ saving # None /\ saving.at = "writing" /\ Accepts(saving.device)
    /\ stored' = [stored EXCEPT ![saving.device.id].rev = @ + 1]
    /\ written' = written \cup {[id |-> saving.device.id, typed |-> saving.typed,
                                 locked |-> saving.device.locked]}
    /\ saving' = None /\ refused' = "no"
    /\ UNCHANGED <<uuid, device, fields, reads, turns>>

SaveFails ==
    /\ saving # None /\ saving.at = "writing"
    /\ saving' = [saving EXCEPT !.at = "reread"]
    /\ refused' = IF saving.device.locked THEN "locked" ELSE "storage"
    /\ UNCHANGED <<stored, uuid, device, fields, reads, written, turns>>

\* After a save that was refused, the next one plans against what is stored.
Rereads ==
    /\ saving # None /\ saving.at = "reread" /\ saving' = None
    /\ device' = Held(saving.device.id, "reread")
    /\ UNCHANGED <<stored, uuid, fields, reads, refused, written, turns>>
-----------------------------------------------------------------------------
Next ==
    \/ ReadTakes \/ ReadLands \/ Submits \/ Plans \/ PlanFails \/ Saves \/ SaveFails \/ Rereads
    \/ \E id \in Uuids : Follows(id) \/ Elsewhere(id)

Spec == Init /\ [][Next]_edit_vars
-----------------------------------------------------------------------------
EditFormTypeOK ==
    /\ uuid \in Uuids /\ fields \in Uuids \cup {None} /\ refused \in {"no", "locked", "storage"}
    /\ \A id \in Uuids : stored[id].rev \in Nat \ {0}
    /\ device # None => device.id \in Uuids /\ device.rev <= stored[device.id].rev

Version == [id : Uuids, rev : Nat, locked : BOOLEAN, via : {"route", "reread"}]
Known(d) == d.rev <= stored[d.id].rev
EditTyped ==
    /\ EditFormTypeOK /\ stored \in [Uuids -> [rev : Nat, locked : BOOLEAN]]
    /\ device \in Version \cup {None}
    /\ reads \subseteq [id : Uuids, newest : BOOLEAN, full : BOOLEAN, via : {"route", "reread"},
                        got : Version \cup {None}]
    /\ saving # None => saving \in [device : Version, at : {"rooms", "writing", "reread"},
                                    typed : Uuids \cup {None}]

\* The newest reads are of the route's device, or of what the form holds already.
ReadsOwn ==
    \A r \in reads :
      /\ r.newest => r.id = uuid \/ r.via = "reread"
      /\ r.got # None => r.got.id = r.id /\ r.got.via = r.via /\ Known(r.got)

\* The form never holds the device of a route that was left, however late it is read: saving
\* that one would write it (edit-device.ts 44-112). The read after a refused save is the
\* exception: see the README.
HoldsItsOwn == device # None => device.id = uuid \/ device.via = "reread"

\* "Here that does not merely display the wrong thing, it writes it" (edit-device.ts 48-50): a
\* device is written with the values that were shown for it.
WritesItsOwn == \A w \in written : w.typed = w.id
=============================================================================
