------------------------------ MODULE RoomPaths ------------------------------
(***************************************************************************)
(* Room paths and the rooms derived from them (domain/rooms/path.ts,       *)
(* domain/rooms/list.ts). A path is a sequence of segments; a segment is   *)
(* what was typed between two separators, with Trimmed for the white space *)
(* around it and Fold for what foldForComparison() makes of it.            *)
(***************************************************************************)
EXTENDS Integers, Sequences, SequencesExt, FiniteSetsExt

CONSTANTS Trimmed(_), Fold(_), Blank

\* normaliseRoomPath() trims every segment, and joins what it has split: nothing is dropped.
Normalise(path) == [i \in DOMAIN path |-> Trimmed(path[i])]

\* roomPathProblem(): nothing at all, or nothing between two separators.
RoomPathProblem(path) ==
    CASE Normalise(path) = <<Blank>> -> "empty"
      [] Normalise(path) # <<Blank>> /\ Blank \in Range(Normalise(path)) -> "emptySegment"
      [] OTHER -> "none"

\* roomPathKey().
Key(path) == [i \in DOMAIN path |-> Fold(Trimmed(path[i]))]

\* isWithinRoom(), on segment boundaries.
IsWithinRoom(path, root) == IsPrefix(Key(root), Key(path))

\* renameRoomPath(): the ancestor is replaced by its number of segments.
RenamedPath(path, from, to) ==
    IF ~IsWithinRoom(path, from) THEN Normalise(path)
    ELSE Normalise(to) \o SubSeq(Normalise(path), Len(from) + 1, Len(path))

\* compareRoomPaths(): segment by segment, a room before the rooms inside it. rank says where
\* each segment stands in the order.
Precedes(a, b, rank) ==
    LET differ == {i \in DOMAIN a \cap DOMAIN b : rank[a[i]] # rank[b[i]]}
    IN IF differ = {} THEN Len(a) < Len(b) ELSE rank[a[Min(differ)]] < rank[b[Min(differ)]]

\* renameRoom(): the devices that change, and what to.
RenameRoom(paths, from, to) ==
    LET changed == {d \in DOMAIN paths : paths[d] # <<>> /\ RenamedPath(paths[d], from, to) # paths[d]}
    IN [d \in changed |-> RenamedPath(paths[d], from, to)]
=============================================================================
