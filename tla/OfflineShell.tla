---------------------------- MODULE OfflineShell ----------------------------
(***************************************************************************)
(* The service worker (public/sw.js), its registration (ui/register-sw.ts, *)
(* ui/main.ts) and the taking of an update (ui/updates.ts, app-shell.ts),  *)
(* with one page of the application. A build is a number, and so is the    *)
(* script of a worker, the build that last changed it; the assets a shell  *)
(* names are one asset, named after its build. The browser's life cycle of *)
(* a worker and the server are external: the server has the assets of the  *)
(* build it serves, and of no earlier one.                                 *)
(***************************************************************************)
EXTENDS Integers, FiniteSets

CONSTANTS MaxBuilds,   \* bound: builds deployed
          MaxDrops,    \* bound: times the connection is lost
          None

VARIABLES
    build,     \* the build the server serves
    script,    \* the build that last changed sw.js
    online, drops,
    shell,     \* the build of the cached shell, or None
    assets,    \* the builds whose assets are cached
    active,    \* the worker in charge
    waiting,   \* the worker installed behind it
    install,   \* the install under way: its worker and the shell it has cached
    page,      \* [at, of, watch]: the document, its build, and whether updates are watched
    offered,   \* the worker the page offers, or None
    taking,    \* whether the page awaits its reload
    cut        \* history: the builds whose assets were asked for and did not arrive

shell_vars == <<build, script, online, drops, shell, assets, active, waiting, install, page,
                offered, taking, cut>>
server == <<build, script>>
network == <<online, drops>>
workers == <<active, waiting, install>>

Closed == [at |-> "closed", of |-> None, watch |-> "no"]

Init ==
    /\ build = 1 /\ script = 1 /\ online = TRUE /\ drops = 0 /\ shell = None /\ assets = {}
    /\ active = None /\ waiting = None /\ install = None /\ page = Closed
    /\ offered = None /\ taking = FALSE /\ cut = {}
-----------------------------------------------------------------------------
(* The server and the connection. *)

Deploys ==
    /\ build < MaxBuilds /\ build' = build + 1 /\ script' \in {script, build'}
    /\ UNCHANGED <<network, shell, assets, workers, page, offered, taking, cut>>

Connection ==
    /\ online' = ~online /\ drops' = drops + (IF online THEN 1 ELSE 0) /\ drops' <= MaxDrops
    /\ UNCHANGED <<server, shell, assets, workers, page, offered, taking, cut>>

Serves(b) == online /\ b = build
-----------------------------------------------------------------------------
(* The page. *)

\* What a document that is left behind had asked for does not arrive.
Abandoned == IF page.at = "document" THEN {page.of} ELSE {}

\* A navigation, networkFirst() where a worker is in charge: the shell comes from the network
\* and is kept, or else from the cache. What the earlier document was waiting for is gone.
Document(b) ==
    /\ page' = IF b = None THEN [Closed EXCEPT !.at = "failed"]
               ELSE [at |-> "document", of |-> b, watch |-> "no"]
    /\ offered' = None /\ taking' = FALSE /\ cut' = cut \cup Abandoned

Navigates ==
    IF online
    THEN Document(build) /\ shell' = IF active = None THEN shell ELSE build
    ELSE Document(IF active = None THEN None ELSE shell) /\ shell' = shell

Opens ==
    /\ Navigates
    /\ UNCHANGED <<server, network, assets, workers>>

\* cacheFirst(), where a worker is in charge: what arrives is kept, and an error is not.
LoadsAsset ==
    /\ page.at = "document"
    /\ LET cached == active # None /\ page.of \in assets
           here == cached \/ Serves(page.of)
       IN /\ page' = [page EXCEPT !.at = IF here THEN "running" ELSE "failed"]
          /\ assets' = IF here /\ active # None THEN assets \cup {page.of} ELSE assets
          /\ cut' = IF here THEN cut ELSE cut \cup {page.of}
    /\ UNCHANGED <<server, network, shell, workers, offered, taking>>

Closes ==
    /\ page.at # "closed" /\ page' = Closed /\ offered' = None /\ taking' = FALSE
    /\ cut' = cut \cup Abandoned
    /\ UNCHANGED <<server, network, shell, assets, workers>>
-----------------------------------------------------------------------------
(* Registering a worker and finding another. *)

Installing(worker) == install' = [of |-> worker, shell |-> None]

\* registerServiceWorker(), which waits for an install under way, and main.ts: whether a worker
\* is in charge is read once, and watchForUpdate() finds the one that waits already.
Registers ==
    /\ page.at = "running" /\ page.watch = "no" /\ install = None
    /\ page' = [page EXCEPT !.watch = IF active # None THEN "updates" ELSE "nothing"]
    /\ offered' = IF active # None THEN waiting ELSE None
    /\ IF active = None /\ waiting = None /\ online THEN Installing(script) ELSE UNCHANGED install
    /\ UNCHANGED <<server, network, shell, assets, active, waiting, taking, cut>>

\* checkForUpdate(), and the browser after a navigation.
Checks ==
    /\ page.at # "closed" /\ active # None /\ install = None /\ online
    /\ script \notin {active, waiting} /\ Installing(script)
    /\ UNCHANGED <<server, network, shell, assets, active, waiting, page, offered, taking, cut>>

\* install, its first half: without a shell there is no worker.
PrecachesShell ==
    /\ install # None /\ install.shell = None
    /\ IF online THEN shell' = build /\ install' = [install EXCEPT !.shell = build]
       ELSE shell' = shell /\ install' = None
    /\ UNCHANGED <<server, network, assets, active, waiting, page, offered, taking, cut>>

\* install, its second half: an asset that cannot be fetched is passed over. The worker is
\* installed, which a page that watches for updates hears of once.
PrecachesAssets ==
    /\ install # None /\ install.shell # None /\ install' = None
    /\ IF Serves(install.shell) THEN assets' = assets \cup {install.shell} /\ cut' = cut
       ELSE assets' = assets /\ cut' = cut \cup {install.shell}
    /\ waiting' = install.of
    /\ offered' = IF page.watch = "updates" /\ offered = None THEN install.of ELSE offered
    /\ UNCHANGED <<server, network, shell, active, page, taking>>

\* A worker with none before it takes over, and claims the page; a later one, once no page is
\* left.
Activates ==
    /\ waiting # None /\ (active = None \/ page.at = "closed")
    /\ active' = waiting /\ waiting' = None
    /\ UNCHANGED <<server, network, shell, assets, install, page, offered, taking, cut>>
-----------------------------------------------------------------------------
(* Taking the update. *)

\* onTakeUpdate(), applyUpdate(): the worker offered is told to take over.
Takes ==
    /\ offered # None /\ ~taking /\ taking' = TRUE
    /\ UNCHANGED <<server, network, shell, assets, workers, page, offered, cut>>

\* The worker steps in if it is still the one that waits, and the page is loaded again.
TakesOver ==
    /\ taking /\ waiting = offered /\ active' = waiting /\ waiting' = None /\ Navigates
    /\ UNCHANGED <<server, network, assets, install>>

\* CONTROL_TIMEOUT: the worker has not answered.
TimesOut ==
    /\ taking /\ Navigates
    /\ UNCHANGED <<server, network, assets, workers>>

Next ==
    \/ Deploys \/ Connection \/ Opens \/ LoadsAsset \/ Closes
    \/ Registers \/ Checks \/ PrecachesShell \/ PrecachesAssets \/ Activates
    \/ Takes \/ TakesOver \/ TimesOut

Spec == Init /\ [][Next]_shell_vars
-----------------------------------------------------------------------------
Builds == 1..MaxBuilds

OfflineShellTypeOK ==
    /\ build \in Builds /\ script \in 1..build /\ online \in BOOLEAN /\ drops \in 0..MaxDrops
    /\ shell \in Builds \cup {None} /\ assets \subseteq Builds /\ cut \subseteq Builds
    /\ active \in Builds \cup {None} /\ waiting \in Builds \cup {None}
    /\ install \in [of : Builds, shell : Builds \cup {None}] \cup {None}
    /\ page \in [at : {"closed", "document", "running", "failed"}, of : Builds \cup {None},
                 watch : {"no", "updates", "nothing"}]
    /\ offered \in Builds \cup {None} /\ taking \in BOOLEAN

\* Before a worker is in charge nothing but an install caches a shell.
CachedByInstall ==
    active = None /\ shell # None /\ shell \notin assets =>
      shell \in cut \/ (install # None /\ install.shell = shell)

\* Workers follow one another as their scripts do; only a page that one was in charge of when
\* it registered watches for the next, and a page that loads has something to load.
InOrder ==
    /\ active # None => active <= script
    /\ waiting # None => waiting <= script /\ (active # None => active < waiting)
    /\ install # None => /\ install.of <= script
                         /\ active # None => active < install.of
                         /\ waiting # None => waiting < install.of
    /\ page.at = "closed" => page.watch = "no"
    /\ offered # None => page.watch = "updates"
    /\ taking => offered # None
    /\ page.watch = "updates" => active # None
    /\ page.at = "document" => page.of # None

\* The visit that installs the worker is enough to open without a connection the next time
\* (sw.js 56-70): the cached shell lacks its assets only while they are on their way, or once
\* they were asked for and the connection, or a new build, came in between.
WholeUnlessCut ==
    shell # None /\ shell \notin assets =>
      \/ shell \in cut
      \/ install # None /\ install.shell = shell
      \/ page.at = "document" /\ page.of = shell

\* "Precaches the shell, so the application opens with no connectivity" (sw.js 8): a worker in
\* charge has cached a shell that can be run.
\* Meant, and not kept: the README says how the code breaks it.
OpensOffline == active # None => shell \in assets

\* A first install is not announced as an update (updates.ts 34-37), and what waits is offered,
\* whether it was installed under the page's eyes or in an earlier visit (updates.ts 55-58).
OfferedWhenReady ==
    /\ offered # None => active # None /\ offered > active
    /\ page.watch = "updates" /\ waiting # None => offered # None
=============================================================================
