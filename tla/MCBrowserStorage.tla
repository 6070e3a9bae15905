-------------------------- MODULE MCBrowserStorage --------------------------
(***************************************************************************)
(* What the tabs of one browser share: the cache, the databases with their *)
(* index, the keys, and the session, here of a single tab in good order.   *)
(* They meet in atomic steps only (AtomicCache), so each is explored by    *)
(* itself: part says which, and the others stay as they begin. Two tabs;   *)
(* two listed projects, or one entry and the profile; four databases; two  *)
(* keys of each kind; three names for refresh tokens.                      *)
(***************************************************************************)
EXTENDS LocalCache, TLC

CONSTANTS Legacy, Copy, Fresh, Docs, Archive, MaxAsked,
          Keys, Minted, Shared, MaxMoves,
          Tab, Calls, Accounts, Tokens

\* A key is no string a code or a key state may be.
ASSUME KeysAssumption ==
    /\ None \notin Keys \cup Minted \cup {Shared}
    /\ {"plain", "unread", "keyless", "locked"} \cap (Minted \cup {Shared, None}) = {}

\* A database has one name, and the devices of a file are none of those saved.
ASSUME ProjectsAssumption ==
    /\ Legacy # Copy /\ {Legacy, Copy} \cap Fresh = {} /\ None \notin {Legacy, Copy} \cup Fresh
    /\ None \notin Tabs /\ Docs \cap Archive = {}

\* No token and no account is none of either.
ASSUME SessionAssumption == None \notin Accounts \cup Tokens \cup {Tab}

VARIABLES
    part,
    store, index, orphan, work, lock, asked, saved, revived, cut,
    deviceKey, answered, wraps, code, memo, run, recovery, remote, pulled, registered, seen,
    status, owner, succ, handoff, token, profile, session, held, armed, syncing, usable, job

P == INSTANCE LocalProjects WITH op <- work
K == INSTANCE ProjectKeys
S == INSTANCE Session WITH Tabs <- {Tab}, Jobs <- Calls, Faults <- {}

projectVars == <<store, index, orphan, work, lock, asked, saved, revived, cut>>
keyVars == <<deviceKey, answered, wraps, code, memo, run, recovery, remote, pulled,
             registered, seen>>
sessionVars == <<status, owner, succ, handoff, token, profile, session, held, armed, syncing,
                 usable, job>>

Parts == {"list", "entries", "projects", "catalogue", "project", "session"}
About == [list |-> SUBSET Projects, entries |-> SUBSET (Indexed \cup {Profile})]

\* The parts that stay as they begin begin empty.
StorageInit ==
    /\ part \in Parts /\ Init /\ P!Init /\ K!Init /\ S!Init
    /\ part # "projects" => saved = {}
    /\ part # "catalogue" => \A d \in Docs : code["catalogue"][d] = None

CacheNext ==
    /\ \/ \E t \in Tabs :
             \/ \E r \in Request : r.about \in About[part] /\ Ask(t, r)
             \/ Get(t) \/ Put(t) \/ Fails(t)
       \/ Clear
    /\ UNCHANGED <<part, projectVars, keyVars, sessionVars>>

ProjectsNext == P!Next /\ UNCHANGED <<part, vars, keyVars, sessionVars>>

KeysNext ==
    /\ \/ \E t \in Tabs :
             \/ K!Resolving(t, part)
             \/ part = "project" /\ K!Replicating(t)
       \/ part = "project" /\ K!Move
    /\ UNCHANGED <<part, vars, projectVars, sessionVars>>

SessionNext == S!Next /\ UNCHANGED <<part, vars, projectVars, keyVars>>

StorageNext ==
    \/ part \in {"list", "entries"} /\ CacheNext
    \/ part = "projects" /\ ProjectsNext
    \/ part \in {"catalogue", "project"} /\ KeysNext
    \/ part = "session" /\ SessionNext

StorageSpec == StorageInit /\ [][StorageNext]_<<part, vars, projectVars, keyVars, sessionVars>>

Symmetry == Permutations(Tabs) \cup Permutations(Projects) \cup Permutations(Fresh)
-----------------------------------------------------------------------------
\* Every part is well typed (data/local-cache.ts, ui/local-projects.ts, ui/db, ui/tokens.ts).
StorageTypeOK == TypeOK /\ P!TypeOK /\ K!TypeOK /\ S!TypeOK

\* See LocalProjects: what users saved stays in a listed project, and in one only, and
\* whatever is listed is whole.
ListedOnceAndWhole == P!NothingStranded /\ P!ListedOnce /\ P!ListedIsWhole

\* See ProjectKeys: one device key per browser and one data key per project, and no code is
\* stored in the clear, or taken for one in the clear.
CodesSealed == K!OneDeviceKey /\ K!OneDek /\ K!NothingInTheClear /\ K!ShownIsOpened

\* As long as nothing fails, what a single tab stores is what the server takes, its session can
\* be renewed and never ends by itself, and once it has ended nothing of it is held: see
\* StoredTokenAccepted, RenewableWhileSignedIn, NeverExpires and QuietTabHoldsNothing of Session.
SteadyTabKeepsItsSession ==
    S!StoredTokenAccepted /\ S!RenewableWhileSignedIn /\ S!NeverExpires /\ S!QuietTabHoldsNothing
=============================================================================
