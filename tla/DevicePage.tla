----------------------------- MODULE DevicePage -----------------------------
(***************************************************************************)
(* One device's page (ui/views/device.ts) beside the replication, the      *)
(* backfill and the other views that move the document it shows: reads     *)
(* that answer late, writes that are tried again once over a newer copy,   *)
(* and a reader who goes on to another device, project or view meanwhile.  *)
(*                                                                         *)
(* The counters request and reads appear as what they tell apart: a read   *)
(* that is no longer the newest is dropped, a write that is no longer the  *)
(* page's is marked. PouchDB answers a write before it takes the next      *)
(* request, so a write and its answer are one step.                        *)
(***************************************************************************)
EXTENDS Integers

CONSTANTS Uuids,      \* the devices
          Buildings,  \* the projects, which may hold the same devices and revisions
          MaxRevs,    \* bound: revisions of a device
          MaxTurns,   \* bound: navigations, switches of project and actions
          None

Other == None         \* a view that is not a device's page

VARIABLES
    page,       \* the mounted page, or Other
    opened,     \* the project every view reads
    revs, gone, \* [project -> [device -> its revision]]; the devices deleted
    sealed,     \* whether the project is locked on this device
    reading,    \* the page's read under way, if any
    writing,    \* the writes under way, of this page and of pages left
    heard,      \* history: the revision of the last change the page made or was told of
    turns

page_vars == <<page, opened, revs, gone, sealed, reading, writing, heard, turns>>
store == <<revs, gone, sealed>>

Turn == turns < MaxTurns /\ turns' = turns + 1

OnPage == page # Other
Route == IF OnPage THEN page.uuid ELSE Other
Blank(uuid) ==
    [uuid |-> uuid, device |-> None, loaded |-> FALSE, failed |-> FALSE,
     confirming |-> FALSE, busy |-> FALSE,
     failure |-> "none", remarkError |-> "none", refusedLocked |-> FALSE]
Read(p, uuid) == [of |-> p, uuid |-> uuid, taken |-> FALSE, got |-> None]
Found(p, uuid) == IF <<p, uuid>> \in gone THEN None
                  ELSE [of |-> p, uuid |-> uuid, rev |-> revs[p][uuid], locked |-> sealed]

\* Mutant: a newer read does not overtake an older one.
NewestKept(read) == reading \cup {read}

\* load(): the newest read is the only one that may answer.
Newest(read) == {read}

Overtaken == {[w EXCEPT !.current = FALSE] : w \in {x \in writing : x.here}}
             \cup {x \in writing : ~x.here}

Init ==
    /\ page = Other /\ opened \in Buildings
    /\ revs = [p \in Buildings |-> [u \in Uuids |-> 1]] /\ gone = {}
    /\ sealed \in BOOLEAN
    /\ reading = {} /\ writing = {} /\ heard = 0 /\ turns = 0
-----------------------------------------------------------------------------
(* Navigation. *)

\* willUpdate(): another device in the same element, or a new element. That a refusal was
\* for the lock is not cleared with what it was shown for.
Goto(uuid) ==
    /\ Turn
    /\ uuid # Route
    /\ page' = [Blank(uuid) EXCEPT !.refusedLocked = OnPage /\ page.refusedLocked]
    /\ reading' = Newest(Read(opened, uuid)) /\ heard' = 0
    /\ writing' = IF OnPage THEN Overtaken ELSE writing
    /\ UNCHANGED <<opened, store>>

\* The element goes; what it asked for does not.
Leave ==
    /\ OnPage /\ page' = Other /\ reading' = {}
    /\ writing' = {[w EXCEPT !.here = FALSE] : w \in writing}
    /\ UNCHANGED <<opened, store, heard, turns>>

\* onProjectChanged(). Of what the page says, the device, the question and the remark's
\* error are cleared.
Switch(p) ==
    /\ Turn
    /\ p # opened /\ opened' = p
    /\ page' = IF OnPage THEN [page EXCEPT !.device = None, !.confirming = FALSE,
                                           !.remarkError = "none"]
               ELSE page
    /\ reading' = IF OnPage THEN Newest(Read(p, page.uuid)) ELSE reading
    /\ writing' = IF OnPage THEN Overtaken ELSE writing
    /\ heard' = 0 /\ UNCHANGED store
-----------------------------------------------------------------------------
(* The document changes under the page. *)

Moved(p, uuid) ==
    /\ <<p, uuid>> \notin gone /\ revs[p][uuid] < MaxRevs
    /\ revs' = [revs EXCEPT ![p][uuid] = @ + 1]

\* Replication brings a revision, a deletion or the key, and says so (PROJECT_DATA_CHANGED).
News(uuid) ==
    /\ \/ Moved(opened, uuid) /\ UNCHANGED <<gone, sealed>>
       \/ gone' = gone \cup {<<opened, uuid>>} /\ gone' # gone /\ UNCHANGED <<revs, sealed>>
       \/ sealed /\ sealed' = FALSE /\ UNCHANGED <<revs, gone>>
    /\ IF OnPage THEN /\ reading' = Newest(Read(opened, page.uuid))
                      /\ heard' = revs'[opened][page.uuid]
       ELSE UNCHANGED <<reading, heard>>
    /\ UNCHANGED <<page, opened, writing, turns>>

\* The backfill, or another tab, says nothing.
Quietly(uuid) ==
    /\ Moved(opened, uuid)
    /\ UNCHANGED <<page, opened, gone, sealed, reading, writing, heard, turns>>

ReadTakes ==
    \E r \in reading :
      /\ ~r.taken
      /\ reading' = (reading \ {r}) \cup {[r EXCEPT !.taken = TRUE, !.got = Found(r.of, r.uuid)]}
      /\ UNCHANGED <<page, opened, store, writing, heard, turns>>

\* A refusal for the lock is over once the device can be read.
Unlocks(device) == page.refusedLocked /\ device # None /\ ~device.locked

ReadAnswers ==
    \E r \in reading :
      /\ r.taken /\ OnPage
      /\ reading' = reading \ {r}
      /\ page' = [page EXCEPT
           !.device = r.got, !.loaded = TRUE, !.failed = FALSE,
           !.refusedLocked = @ /\ ~Unlocks(r.got),
           !.failure = IF Unlocks(r.got) THEN "none" ELSE @,
           !.remarkError = IF Unlocks(r.got) /\ @ = "storage" THEN "none" ELSE @]
      /\ UNCHANGED <<opened, store, writing, heard, turns>>

ReadFails ==
    \E r \in reading :
      /\ OnPage /\ reading' = reading \ {r}
      /\ page' = [page EXCEPT !.failed = TRUE]
      /\ UNCHANGED <<opened, store, writing, heard, turns>>
-----------------------------------------------------------------------------
(* What the reader asks for. *)

Shown == OnPage /\ page.loaded /\ ~page.failed /\ page.device # None
Looks ==
    /\ Shown
    /\ \/ page' = [page EXCEPT !.confirming = ~@]
       \/ ~page.busy /\ page' = [page EXCEPT !.remarkError = "blank"]
    /\ UNCHANGED <<opened, store, reading, writing, heard, turns>>

Acts(kind) ==
    /\ Turn /\ Shown /\ ~page.busy
    /\ kind = "delete" => page.confirming
    /\ page' = [page EXCEPT !.busy = TRUE]
    /\ writing' = writing \cup {[to |-> opened, seen |-> page.device, rev |-> page.device.rev,
                                 kind |-> kind, tries |-> 1, current |-> TRUE, here |-> TRUE]}
    /\ UNCHANGED <<opened, store, reading, heard>>

\* What becomes of the page once its own write is over.
Mine(w) == w.current /\ w.here
Settles(w) == writing' = writing \ {w}

\* A write moves reads on: one begun before it must not put the old copy back.
Landed(w, rev) ==
    IF ~Mine(w) THEN UNCHANGED <<page, reading, heard>>
    ELSE /\ heard' = rev
         /\ page' = IF w.kind = "remark"
                      THEN [page EXCEPT !.busy = FALSE, !.remarkError = "none",
                              !.device = [w.seen EXCEPT !.rev = rev, !.locked = sealed]]
                      ELSE [page EXCEPT !.busy = FALSE, !.failure = "none",
                              !.device = [w.seen EXCEPT !.rev = rev, !.locked = sealed]]
         /\ reading' = {}

\* Nothing is written to a project that is locked, nor over a copy that was read locked.
Unsealed(w) == ~sealed /\ (w.tries = 1 => ~w.seen.locked)

\* save(): over the revision in hand.
Saves(w) ==
    /\ Unsealed(w)
    /\ w.kind # "delete" /\ w.rev = revs[w.to][w.seen.uuid] /\ Moved(w.to, w.seen.uuid)
    /\ Settles(w) /\ Landed(w, w.rev + 1)
    /\ UNCHANGED <<opened, gone, sealed, turns>>

\* remove(). The page leaves for the list, unless the reader has gone on to another device.
Removes(w) ==
    /\ w.kind = "delete"
    /\ Unsealed(w)
    /\ \/ w.rev = revs[w.to][w.seen.uuid] /\ <<w.to, w.seen.uuid>> \notin gone
       \/ w.tries = 2 /\ <<w.to, w.seen.uuid>> \in gone
    /\ gone' = gone \cup {<<w.to, w.seen.uuid>>}
    /\ IF w.current THEN /\ page' = Other /\ reading' = {}
                         /\ writing' = {[x EXCEPT !.here = FALSE] : x \in writing \ {w}}
                    ELSE Settles(w) /\ UNCHANGED <<page, reading>>
    /\ UNCHANGED <<opened, revs, sealed, heard, turns>>

\* A conflict, the first time: the device is read again and the change made to that.
TriesAgain(w) ==
    /\ w.tries = 1 /\ Unsealed(w)
    /\ w.rev # revs[w.to][w.seen.uuid] \/ <<w.to, w.seen.uuid>> \in gone
    /\ <<w.to, w.seen.uuid>> \in gone => w.kind = "delete"
    /\ writing' = (writing \ {w}) \cup {[w EXCEPT !.tries = 2, !.rev = revs[w.to][w.seen.uuid]]}
    /\ UNCHANGED <<page, opened, store, reading, heard, turns>>

\* Refused: by the lock, by storage, by a second conflict, or with the device gone.
Refused(w) ==
    /\ Settles(w)
    /\ \E lock \in {sealed \/ w.seen.locked, FALSE} :
         page' = IF ~Mine(w) THEN page
                 ELSE IF w.kind = "remark"
                   THEN [page EXCEPT !.busy = FALSE, !.remarkError = "storage",
                                     !.refusedLocked = lock]
                   ELSE [page EXCEPT !.busy = FALSE, !.failure = w.kind,
                                     !.refusedLocked = lock]
    /\ UNCHANGED <<opened, store, reading, heard, turns>>
-----------------------------------------------------------------------------
Next ==
    \/ \E uuid \in Uuids : Goto(uuid) \/ News(uuid) \/ Quietly(uuid)
    \/ Leave \/ \E p \in Buildings : Switch(p)
    \/ ReadTakes \/ ReadAnswers \/ ReadFails
    \/ Looks \/ \E kind \in {"toggle", "delete", "remark"} : Acts(kind)
    \/ \E w \in writing : Saves(w) \/ Removes(w) \/ TriesAgain(w) \/ Refused(w)

Spec == Init /\ [][Next]_page_vars
-----------------------------------------------------------------------------
DevicePageTypeOK ==
    /\ opened \in Buildings /\ revs \in [Buildings -> [Uuids -> 1..MaxRevs]]
    /\ OnPage => page.uuid \in Uuids /\ page.busy \in BOOLEAN

Device == [of : Buildings, uuid : Uuids, rev : Nat, locked : BOOLEAN]
View == [uuid : Uuids, device : Device \cup {None}, loaded : BOOLEAN, failed : BOOLEAN,
         confirming : BOOLEAN, busy : BOOLEAN, failure : {"none", "toggle", "delete"},
         remarkError : {"none", "blank", "storage"}, refusedLocked : BOOLEAN]
ReadOf == [of : Buildings, uuid : Uuids, taken : BOOLEAN, got : Device \cup {None}]
WriteOf == [to : Buildings, seen : Device, rev : Nat, kind : {"toggle", "delete", "remark"},
            tries : {1, 2}, current : BOOLEAN, here : BOOLEAN]
PageTyped ==
    /\ opened \in Buildings /\ revs \in [Buildings -> [Uuids -> 1..MaxRevs]]
    /\ sealed \in BOOLEAN /\ heard \in Nat
    /\ OnPage => page \in View
    /\ reading \subseteq ReadOf /\ writing \subseteq WriteOf

\* A device of the route, in the open project, no older than what the page was told.
Owns(device) == device.of = opened /\ device.uuid = page.uuid

\* What the page shows, what it reads and what it writes are its own.
PageOwns ==
    OnPage =>
      /\ page.device # None => Owns(page.device)
      /\ heard <= revs[opened][page.uuid]
      /\ \A r \in reading : r.of = opened /\ r.uuid = page.uuid
                            /\ (r.got # None => Owns(r.got) /\ r.got.rev >= heard)
      /\ reading = {} /\ page.device # None /\ ~page.failed => page.device.rev >= heard
MineOwned == \A w \in writing : Mine(w) => OnPage /\ w.to = opened /\ Owns(w.seen)

\* What is on the page is the device of the route, in the open project; a code shown under
\* another device's name, or a deletion in another building, would start here.
ShowsItsOwn ==
    OnPage /\ page.device # None => page.device.of = opened /\ page.device.uuid = page.uuid

\* Once its reads have answered, the page is no older than the last change it was told of
\* or made itself (reads).
HeardIsShown ==
    Shown /\ reading = {} => page.device.rev >= heard

\* A page that is busy is waiting for a write of its own (device.ts on reads: "leave `busy`
\* set, so every action on the page stayed disabled").
\* Meant, and not kept: the README says how the code breaks it.
BusyIsWriting == OnPage /\ page.busy => \E w \in writing : Mine(w)
=============================================================================
