----------------------------- MODULE RoomsPage -----------------------------
(***************************************************************************)
(* The Rooms page (ui/views/rooms.ts): a room is renamed by saving its     *)
(* devices one at a time, and a rename that stops half-way is tried again  *)
(* from what was saved. Replication, another tab and a switch of project   *)
(* come in between. A device with no room has the empty path.              *)
(***************************************************************************)
EXTENDS Integers, Sequences, Functions

CONSTANTS Devices, Buildings,
          Paths,      \* the paths devices may carry at first
          Renames,    \* the renames a reader may ask for: [from, to]
          MaxTurns,   \* bound: renames begun, changes made elsewhere, switches of project
          None,
          Trimmed(_), Fold(_), Blank

R == INSTANCE RoomPaths

VARIABLES
    opened,      \* the project every view reads
    room, rev,   \* [project -> [device -> its room, its revision]]
    devices,     \* what the page shows: [of, room, rev], or None
    loading,     \* the reads of the list under way: [of, newest, got]
    renaming,    \* the rename under way: [of, planned, rev, at], at "saving", "reread" or "refused"
    failed,      \* whether the page says that it did not finish
    wish,        \* history: the rename this behaviour is about
    base,        \* history: [project -> [device -> its room as last moved by anyone else]]
    turns

rooms_vars == <<opened, room, rev, devices, loading, renaming, failed, wish, base, turns>>
store == <<room, rev, base>>

Turn == turns < MaxTurns /\ turns' = turns + 1

\* A load that is not the newest says nothing, except to the rename that waits for it.
Overtaken == {[l EXCEPT !.newest = FALSE] : l \in {x \in loading : x.mine}}
Fresh(p, mine) == [of |-> p, newest |-> TRUE, mine |-> mine, got |-> None]

\* load(): a generation newer than any before. "mine" is the one a rename waits for.
Load(p, mine) == Overtaken \cup {Fresh(p, mine)}

Init ==
    /\ opened \in Buildings
    /\ room \in [Buildings -> [Devices -> Paths]] /\ base = room
    /\ rev = [p \in Buildings |-> [d \in Devices |-> 1]]
    /\ devices = None /\ renaming = None /\ failed = FALSE
    /\ loading = {Fresh(opened, FALSE)}
    /\ wish \in Renames /\ turns = 0
-----------------------------------------------------------------------------
LoadTakes ==
    \E l \in loading :
      /\ l.got = None
      /\ loading' = (loading \ {l}) \cup
                    {[l EXCEPT !.got = [of |-> l.of, room |-> room[l.of], rev |-> rev[l.of]]]}
      /\ UNCHANGED <<opened, store, devices, renaming, failed, wish, turns>>

\* onRename() waits for its own reread, and says what went wrong after it.
Ends(l) == /\ renaming' = IF l.mine THEN None ELSE renaming
           /\ failed' = \/ l.mine /\ renaming.at = "refused"
                        \/ IF l.newest THEN l.got = None ELSE failed

\* load(), answered (None: in failure).
LoadEnds ==
    \E l \in loading :
      /\ loading' = loading \ {l} /\ Ends(l)
      /\ devices' = IF l.newest /\ l.got # None THEN l.got ELSE devices
      /\ UNCHANGED <<opened, store, wish, turns>>

\* onProjectChanged(). A rename under way goes on.
Switch(p) ==
    /\ Turn
    /\ p # opened /\ opened' = p /\ devices' = None /\ loading' = Load(p, FALSE)
    /\ UNCHANGED <<store, renaming, failed, wish>>

\* Another device moves one, and replication says so.
Elsewhere(d, path) ==
    /\ Turn
    /\ room' = [room EXCEPT ![opened][d] = path] /\ base' = [base EXCEPT ![opened][d] = path]
    /\ rev' = [rev EXCEPT ![opened][d] = @ + 1]
    /\ loading' = Load(opened, FALSE)
    /\ UNCHANGED <<opened, devices, renaming, failed, wish>>
-----------------------------------------------------------------------------
\* onRename(): planned from what the page shows, whatever has moved since.
Begins ==
    /\ Turn /\ devices # None /\ renaming = None
    /\ R!RoomPathProblem(wish.to) = "none"
    /\ LET planned == R!RenameRoom(devices.room, wish.from, wish.to)
       IN /\ DOMAIN planned # {}
          /\ renaming' = [of |-> devices.of, planned |-> planned, rev |-> devices.rev, at |-> "saving"]
    /\ UNCHANGED <<opened, store, devices, loading, failed, wish>>

\* save(): over the revision planned. The project is the one open by now, which knows no
\* revision of another's devices.
SavesWhat(d) == renaming.of = opened /\ renaming.rev[d] = rev[opened][d]

Saves ==
    /\ renaming # None /\ renaming.at = "saving"
    /\ \E d \in DOMAIN renaming.planned :
         /\ SavesWhat(d)
         /\ room' = [room EXCEPT ![opened][d] = renaming.planned[d]]
         /\ rev' = [rev EXCEPT ![opened][d] = @ + 1]
         /\ renaming' = [renaming EXCEPT !.planned =
                           [x \in DOMAIN @ \ {d} |-> @[x]]]
    /\ UNCHANGED <<opened, base, devices, loading, failed, wish, turns>>

\* The last is saved, or one is refused; the page is read again either way, and busy until
\* that read has answered.
Stops ==
    /\ renaming # None /\ renaming.at = "saving"
    /\ loading' = Load(opened, TRUE)
    /\ renaming' = [renaming EXCEPT !.at = IF DOMAIN renaming.planned = {} THEN "reread" ELSE "refused"]
    /\ UNCHANGED <<opened, store, devices, failed, wish, turns>>
-----------------------------------------------------------------------------
Next ==
    \/ LoadTakes \/ LoadEnds \/ Begins \/ Saves \/ Stops
    \/ \E p \in Buildings : Switch(p)
    \/ \E d \in Devices, path \in Paths : Elsewhere(d, path)

Spec == Init /\ [][Next]_rooms_vars
-----------------------------------------------------------------------------
Segments ==
    LET typed == UNION {Range(x) : x \in Paths \cup {r.from : r \in Renames} \cup {r.to : r \in Renames}}
    IN typed \cup {Trimmed(s) : s \in typed}

RoomsTypeOK ==
    /\ opened \in Buildings /\ wish \in Renames /\ failed \in BOOLEAN
    /\ room \in [Buildings -> [Devices -> Seq(Segments)]]
    /\ \A l, m \in loading : l.mine /\ m.mine => l = m
    /\ renaming # None => renaming.at \in {"saving", "reread", "refused"}

Copy == [of : Buildings, room : [Devices -> Seq(Segments)], rev : [Devices -> Nat]]
Renaming == [of : Buildings, planned : UNION {[D -> Seq(Segments)] : D \in SUBSET Devices},
             rev : [Devices -> Nat], at : {"saving", "reread", "refused"}]
RoomsTyped ==
    /\ RoomsTypeOK /\ base \in [Buildings -> [Devices -> Seq(Segments)]]
    /\ rev \in [Buildings -> [Devices -> Nat]]
    /\ devices \in Copy \cup {None}
    /\ loading \subseteq [of : Buildings, newest : BOOLEAN, mine : BOOLEAN, got : Copy \cup {None}]
    /\ renaming # None => renaming \in Renaming

\* A copy whose revision is still the device's has the device's room.
Current(copy) ==
    \A d \in Devices :
      /\ copy.rev[d] <= rev[copy.of][d]
      /\ copy.rev[d] = rev[copy.of][d] => copy.room[d] = room[copy.of][d]

\* What is shown, and what the newest read brings, is of the open project; the read a rename
\* waits for begins when the saving stops.
RoomsOwn ==
    /\ devices # None => devices.of = opened /\ Current(devices)
    /\ \A l \in loading :
         /\ l.newest => l.of = opened
         /\ l.got # None => l.got.of = l.of /\ Current(l.got)
         /\ l.mine => renaming # None /\ renaming.at # "saving"

\* What a rename would still write over the revision it read is the rename of what is stored.
PlannedOf(p, planned, read) ==
    \A d \in DOMAIN planned :
      /\ read[d] <= rev[p][d]
      /\ read[d] = rev[p][d] => planned[d] = R!RenamedPath(room[p][d], wish.from, wish.to)
PlansOwn == renaming # None => PlannedOf(renaming.of, renaming.planned, renaming.rev)

\* Whatever reads are overtaken by a change of project, the page shows rooms of the project
\* that is open (rooms.ts 97-149): what one project answers late is not put under another's name.
RoomsAreTheProjects == devices # None => devices.of = opened

\* A rename, however often it stops half-way and is tried again, moves every device at most
\* once, and never undoes where another device has put one in the meantime (rooms.ts 156-194,
\* domain/rooms/list.ts 86-115). Renames into the room's own subtree, and to a room it is in,
\* are the exception: see the README.
MovedOnce ==
    R!IsWithinRoom(wish.to, wish.from) \/ R!IsWithinRoom(wish.from, wish.to)
      \/ \A p \in Buildings, d \in Devices :
           room[p][d] \in {base[p][d], R!RenamedPath(base[p][d], wish.from, wish.to)}
=============================================================================
