------------------------------ MODULE RoomList ------------------------------
(***************************************************************************)
(* The rooms a project's devices are in: listed (domain/rooms/list.ts),    *)
(* browsed (domain/documents/browse.ts), typed into a form                 *)
(* (domain/documents/draft.ts, ui/views/device-form.ts) and renamed. A     *)
(* device is its path, the empty one for none, and whether it is disabled. *)
(* Searching by text and the order of devices within a room are left out.  *)
(***************************************************************************)
EXTENDS RoomPaths

CONSTANTS Contents,      \* the sequences of devices a project may hold at first
          Typed,         \* the paths a reader may type
          None,
          ByLocale,      \* [segments -> where each stands in the interface's order]
          ByCodePoint    \* [segments -> where each stands by code point]

VARIABLES devices, before, done
-----------------------------------------------------------------------------
(* Orders. *)

\* foldedOrder().
ByFold == [segment \in DOMAIN ByCodePoint |-> ByCodePoint[Fold(segment)]]

\* byPath: code point breaks a tie.
ByPath(a, b, rank) ==
    \/ Precedes(a, b, rank)
    \/ ~Precedes(b, a, rank) /\ Precedes(a, b, ByCodePoint)

\* Array.sort() is stable.
Sorted(paths, rank) ==
    LET Before(j, i) == \/ ByPath(paths[j], paths[i], rank)
                        \/ ~ByPath(paths[i], paths[j], rank) /\ j <= i
        place == [i \in DOMAIN paths |-> Cardinality({j \in DOMAIN paths : Before(j, i)})]
    IN [n \in DOMAIN paths |-> paths[CHOOSE i \in DOMAIN paths : place[i] = n]]

Distinct(s) == FoldLeft(LAMBDA seen, e : IF e \in Range(seen) THEN seen ELSE Append(seen, e), <<>>, s)
-----------------------------------------------------------------------------
(* Lists. *)

\* One group per key, sorted by its first spelling.
Grouped(all, rank) ==
    LET housed == SelectSeq(all, LAMBDA d : d.room # <<>>)
        Here(key) == SelectSeq(housed, LAMBDA d : Key(d.room) = key)
        Spellings(key) ==
            Sorted(Distinct([i \in DOMAIN Here(key) |-> Here(key)[i].room]), rank)
        keys == Distinct([i \in DOMAIN housed |-> Key(housed[i].room)])
        first == Sorted([i \in DOMAIN keys |-> Spellings(keys[i])[1]], rank)
    IN [n \in DOMAIN first |-> LET key == Key(first[n])
                               IN [key |-> key, devices |-> Here(key), spellings |-> Spellings(key)]]

\* roomsOf(): disabled devices count.
RoomsOf(all, rank) ==
    LET groups == Grouped(all, rank)
    IN [n \in DOMAIN groups |-> [key |-> groups[n].key, spellings |-> groups[n].spellings,
                                 deviceCount |-> Len(groups[n].devices)]]

\* browseDevices(): the devices with no room come last, and are in no room that is asked for.
Browsed(all, room, withDisabled, rank) ==
    LET visible == SelectSeq(all, LAMBDA d :
                     /\ withDisabled \/ ~d.disabled
                     /\ room = None \/ (d.room # <<>> /\ IsWithinRoom(d.room, room)))
        unplaced == SelectSeq(visible, LAMBDA d : d.room = <<>>)
    IN Grouped(visible, rank) \o
       IF unplaced = <<>> THEN <<>> ELSE <<[key |-> <<>>, devices |-> unplaced, spellings |-> <<>>]>>
-----------------------------------------------------------------------------
(* A room typed. *)

\* knownRoomPaths().
KnownRoomPaths(all) ==
    LET rooms == RoomsOf(all, ByLocale) IN FlattenSeq([n \in DOMAIN rooms |-> rooms[n].spellings])

\* matchRoom(): the deepest room or ancestor that is known keeps its first spelling.
MatchRoom(path, existing) ==
    LET Known(n) == {i \in DOMAIN existing : /\ n <= Len(existing[i])
                                              /\ Key(SubSeq(path, 1, n)) = Key(SubSeq(existing[i], 1, n))}
        depths == {n \in DOMAIN path : Known(n) # {}}
        deepest == Max(depths)
    IN IF depths = {} THEN path
       ELSE SubSeq(existing[Min(Known(deepest))], 1, deepest) \o SubSeq(path, deepest + 1, Len(path))
-----------------------------------------------------------------------------
Init == devices \in Contents /\ before = <<>> /\ done = None

\* A form is submitted: the rooms are read again, and the path typed is matched to them.
Files(path) ==
    /\ RoomPathProblem(path) = "none"
    /\ devices' = Append(devices, [room |-> MatchRoom(Normalise(path), KnownRoomPaths(devices)),
                                   disabled |-> FALSE])
    /\ done' = [is |-> "filed", path |-> path]

\* A room is renamed, and every save of it goes through.
Renames(from, to) ==
    /\ RoomPathProblem(from) = "none" /\ RoomPathProblem(to) = "none"
    /\ LET renamed == RenameRoom([i \in DOMAIN devices |-> devices[i].room], from, to)
       IN /\ DOMAIN renamed # {}
          /\ devices' = [i \in DOMAIN devices |->
                           IF i \in DOMAIN renamed THEN [devices[i] EXCEPT !.room = renamed[i]]
                           ELSE devices[i]]
    /\ done' = [is |-> "renamed", from |-> from, to |-> to]

Next ==
    /\ done = None /\ before' = devices
    /\ \E path \in Typed : Files(path) \/ \E to \in Typed : Renames(path, to)
-----------------------------------------------------------------------------
\* Shown is what the screen tells apart: the rooms, their spellings and how many are in each.
Shown(groups) ==
    [n \in DOMAIN groups |-> [key |-> groups[n].key, spellings |-> groups[n].spellings,
                              count |-> Len(groups[n].devices)]]

\* The rooms come out the same on every replica, whatever order the devices came in (list.ts
\* 68-72), and no device is lost from sight: each is in one group, and each that has a room
\* counts in one (browse.ts 116-118).
OneListForAll ==
    LET all == Browsed(devices, None, TRUE, ByLocale)
        Count(groups) == FoldLeft(LAMBDA n, g : n + Len(g.devices), 0, groups)
    IN /\ \A p \in {f \in [DOMAIN devices -> DOMAIN devices] : IsInjective(f)} :
            Shown(Browsed([i \in DOMAIN p |-> devices[p[i]]], None, TRUE, ByLocale)) = Shown(all)
       /\ \A i, j \in DOMAIN all : i # j => all[i].key # all[j].key
       /\ Count(all) = Len(devices)
       /\ FoldLeft(LAMBDA n, r : n + r.deviceCount, 0, RoomsOf(devices, ByLocale))
            = Cardinality({i \in DOMAIN devices : devices[i].room # <<>>})

\* Every room is followed directly by the rooms inside it (path.ts 128), under an order that
\* reads two spellings of a segment as one. That is the default order; see the README for the
\* interface's own.
SubRoomsFollow ==
    LET list == Browsed(devices, None, TRUE, ByFold)
        Inside(i, j) == list[j].key # <<>> /\ IsStrictPrefix(list[j].key, list[i].key)
    IN \A i, j \in DOMAIN list : Inside(i, j) => j < i /\ \A k \in (j + 1)..i : Inside(k, j)

\* What is typed is found where it was typed, under whatever spelling the rooms around it had,
\* and gives none of them a second spelling (draft.ts 180-190).
FiledWhereTyped ==
    done # None /\ done.is = "filed" =>
      LET filed == Last(devices).room
          Known == UNION {Prefixes(d.room) : d \in Range(before)}
      IN /\ Key(filed) = Key(done.path)
         /\ \E g \in Range(Browsed(devices, done.path, FALSE, ByLocale)) : Last(devices) \in Range(g.devices)
         /\ \A p \in Prefixes(filed) : p \in Known \/ \A known \in Known : Key(known) # Key(p)

\* After a rename each room that was at or in the old one is as deep in the new one, under any
\* spelling, none is left where it was, and nothing else has moved (list.ts 82-98). A room renamed
\* into itself, or to one it is in, may leave behind what repeats its name; see the README.
RenamedAway ==
    done # None /\ done.is = "renamed" =>
      \A i \in DOMAIN devices :
        IF before[i].room # <<>> /\ IsWithinRoom(before[i].room, done.from)
          THEN /\ Key(devices[i].room) = Key(done.to) \o
                    SubSeq(Key(before[i].room), Len(done.from) + 1, Len(before[i].room))
               /\ IsWithinRoom(devices[i].room, done.from) =>
                    IsWithinRoom(done.to, done.from) \/ IsWithinRoom(done.from, done.to)
          ELSE devices[i] = before[i]
-----------------------------------------------------------------------------
\* The inductive invariant: nothing is done to the rooms a second time.
IndInv == (done = None => devices \in Contents) /\ RenamedAway
=============================================================================
