---------------------------- MODULE CacheChanges ----------------------------
(***************************************************************************)
(* What the operations of data/local-cache.ts make of the documents of     *)
(* mm-local: the cached server list, the index of local databases and the  *)
(* documents that stand alone (profile, plan matrix, escrow key), which    *)
(* are read and written alike and are one here.                            *)
(***************************************************************************)
EXTENDS Naturals

CONSTANTS
    Projects,      \* the projects of the server's list
    Indexed,       \* the databases the index may name
    Profile,       \* the one document that stands alone
    Names,         \* what entries and profiles may say
    None           \* no document, no client, no tab

Documents == Projects \cup Indexed \cup {Profile}

\* A cached project: the server's half is its presence; the local half follows.
CachedProject == [downloaded : BOOLEAN, accessRemoved : BOOLEAN]
LocalProjectEntry == [name : Names, client : Names \cup {None}]

Contents(d) == CASE d \in Projects -> CachedProject
                 [] d \in Indexed -> LocalProjectEntry
                 [] OTHER -> Names

\* A request: the operation, the documents it is about, and its argument.
Request ==
         [op : {"writeProjects"}, about : {Projects}, list : SUBSET Projects]
    \cup [op : {"setLocalState"}, about : {{p} : p \in Projects}, here : BOOLEAN]
    \cup [op : {"markAccessRemoved"}, about : {{p} : p \in Projects}]
    \cup [op : {"addLocalProject"}, about : {{d} : d \in Indexed},
          entry : LocalProjectEntry]
    \cup [op : {"updateLocalProject"}, about : {{d} : d \in Indexed}, name : Names]
    \cup [op : {"removeLocalProject"}, about : {{d} : d \in Indexed}]
    \cup [op : {"writeProfile"}, about : {{Profile}}, says : Names]
    \cup [op : {"clearProfile"}, about : {{Profile}}]

\* Databases and listed projects have ids of their own, and None is no document.
ASSUME CacheAssumption ==
    /\ Projects \cap Indexed = {} /\ Profile \notin Projects \cup Indexed
    /\ None \notin Names /\ None \notin CachedProject /\ None \notin LocalProjectEntry
    /\ None \notin Request

\* Mutant: a refresh takes a project it lists for one that is not downloaded.
DefaultedProject(listed, old) ==
    IF listed THEN [downloaded |-> FALSE, accessRemoved |-> FALSE]
    ELSE IF old # None /\ old.downloaded THEN [old EXCEPT !.accessRemoved = TRUE]
    ELSE None

\* writeProjects(): the server's half is replaced, the local half carried across.
\* A project that is gone is kept, and marked, if this device holds a copy.
RefreshedProject(listed, old) ==
    IF listed THEN [downloaded |-> old # None /\ old.downloaded, accessRemoved |-> FALSE]
    ELSE IF old # None /\ old.downloaded THEN [old EXCEPT !.accessRemoved = TRUE]
    ELSE None

\* setLocalState(): a copy given up of a project that is gone is forgotten with it.
WithLocalState(here, old) ==
    IF old = None \/ (~here /\ old.accessRemoved) THEN None
    ELSE [old EXCEPT !.downloaded = here]

\* What request r makes of document d, which says old (None when it is missing).
After(r, d, old) ==
    CASE r.op = "writeProjects" -> RefreshedProject(d \in r.list, old)
      [] r.op = "setLocalState" -> WithLocalState(r.here, old)
      [] r.op = "markAccessRemoved" ->
            IF old = None THEN None ELSE [old EXCEPT !.accessRemoved = TRUE]
      [] r.op = "addLocalProject" -> r.entry
      [] r.op = "updateLocalProject" ->
            IF old = None THEN None ELSE [old EXCEPT !.name = r.name]
      [] r.op = "writeProfile" -> r.says
      [] r.op \in {"removeLocalProject", "clearProfile"} -> None

\* Nothing is written where nothing is and nothing is to be.
Writes(r, seen) == {d \in r.about : seen[d] # None \/ After(r, d, seen[d]) # None}
=============================================================================
