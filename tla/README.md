# Formal models of Matter Manager

TLA+ specifications of Matter Manager: of what happens when its tabs, views, requests,
databases and replicas meet in an order nobody chose, and of the computations its data
passes through; with the TLC configurations that check them on small instances and proofs,
checked by TLAPS, that hold for every value of the constants. Paths below are relative to
`frontend/src/` unless they start with `frontend/` or `docs/`.

Run one configuration with `tlc -config DeviceConflicts.cfg MCDeviceConflicts.tla`,
the proofs of one module with `tlapm DeviceConflictsProofs.tla`. `PROJECT.json`
lists the runs with what each shows, the lines every definition models, the
hazards and the properties that cover them, and the theorems.

## 1. Inventory

The program is an offline-first web application: several tabs of several browsers,
each browser with PouchDB databases of its own, replicated with CouchDB databases
on a server that is not part of this repository.

| component | state | operations | hard because |
|---|---|---|---|
| Conflict resolution (`data/conflicts.ts`, `domain/sync/merge.ts`) | revision trees; resolutions in flight, per tab | resolve, watch, merge, prune | several resolvers, retries, replication in any order |
| Repository (`data/repository.ts`) | documents | get, put, remove, list | a copy is read, held and saved later |
| Catalogue backfill (`ui/catalog-backfill.ts`) | the run | list, ask, fill one device | writes behind the user's back, stopped and asked for again |
| Project actions (`ui/project-actions.ts`) | the action under way | promote, remove copy, download, create, delete, archive, restore | destroys data after proving that it is elsewhere |
| Database locks (`ui/db/db-lock.ts`) | Web Locks | shared for a write, exclusive for a destroy | several tabs, browsers without locks |
| Local projects (`ui/local-projects.ts`) | databases, index | create, import, index, rename, destroy, detach, adopt | a database and its entry change in two steps; tabs close |
| Local cache (`data/local-cache.ts`) | one PouchDB of singletons and entries | read, amend, rewrite with retries | two tabs rewrite one document |
| Projects page (`ui/projects-model.ts`, `ui/projects-controller.ts`, `ui/project-inputs.ts`, `ui/project-busy.ts`) | the facts read last, the list, the action's hold | refresh, join, apply, detach orphans | answers that are old when they arrive |
| Replication (`ui/sync/manager.ts`, `ui/sync/replication.ts`) | replications per project, status | set, suspend, resume, push and pull now | denials, pauses, probes, lists from stale models |
| Key state (`ui/db/keyring.ts`, `ui/db/project-database.ts`, `ui/db/device-key.ts`, `ui/escrow-client.ts`) | device key, memoised data keys, wraps | ensure keys, wrap, recover | concurrent creation, late keys |
| Session (`ui/tokens.ts`, `ui/token-refresher.ts`, `ui/composition.ts`, `ui/session.ts`) | tokens, session | sign in, refresh, sign out | a refresh that answers after a sign-out, several tabs |
| Shell (`ui/app-shell.ts`, `ui/sign-in-dialog.ts`) | what is mounted, for whom; the sign-in dialog; plan and profile | start, sign in, confirm and sign out, change the waitlist | answers to what the reader has left or abandoned |
| Offline shell (`frontend/public/sw.js`, `ui/updates.ts`, `ui/register-sw.ts`) | the cache, two workers, the offer | install, answer, take over, reload | deployments and the connection come in between |
| Device views (`ui/views/device.ts`, `add-device.ts`, `edit-device.ts`, `device-list.ts`) | the document shown, the draft, the file being made | load, save, retry, delete, look up, export | several awaits per handler; the route and the project change |
| Rooms (`domain/rooms/*`, `domain/documents/browse.ts`, `ui/views/rooms.ts`) | the room of each device | list, browse, type, rename | spellings, and a rename that fails half way |
| Account page (`ui/views/account.ts`) | sign-in methods, plan comparison | read, add, rename, remove | answers after the account changed |
| Scanner (`ui/scan/*`, `ui/views/scan-dialog.ts`) | camera stream | open, read, close | a camera granted after the dialog closed |
| Codecs (`domain/matter/*`) | none | encode, decode, derive | boundaries of widths, slips of a typist |
| Archives (`domain/archive/*`, `ui/archive/*`) | a file, the import prompt | export, import | limits in two places, damage, passwords |
| Paper (`domain/pdf/*`, `ui/pdf/*`) | none | pages, sheets of labels | page boundaries |
| Spreadsheet, QR encoding, router, theme, API forwarding | none that outlives a call | | not modelled (section 7) |

How they interact: the views read and write through the repository, which hands
conflicted documents to the resolver; the sync manager replicates the databases the
projects page lists; project actions stop and start replication, move the views,
copy and push databases and edit the index in `mm-local`; the session gives every
request its token, and its end stops replication. All tabs of a browser share the
PouchDB databases, the Web Locks, the service worker and its cache, and nothing else.

What makes each part correct:

- Conflict resolution: replicas that hold the same revisions pick the same result; the
  later edit wins; a remark is lost only by its own deletion or the device's; a deleted
  device does not return; once edits cease, every replica ends with one leaf.
- Repository and backfill: a save onto an old copy is refused, never silently applied; a
  lookup does not displace a user's edit or a lookup that was there first; whatever asks for
  a pass is followed by one.
- Project actions and locks: a database is destroyed only when every document in it is
  on the server or in another database; every project can be reached from the projects
  page at any time, after a crash too; one tab never destroys what another writes; no
  two actions wait on each other.
- Local projects and cache: what a user saved stays in one listed project; what is listed is
  whole; a change of an entry is applied to the entry as it is, or fails.
- Projects page: an answer older than an action or a sign-out has no effect for good; what is
  shown as synchronized replicates, and nothing else; a project is one row and counts once.
- Replication: a refusal is shown until it is over; a copy that cannot reach the server does
  not say that it has caught up.
- Key state and escrow: once a project has keys, no secret is stored in plain text, and none
  is taken for plain text; all tabs end with one device key and one key per project.
- Session and shell: one account per tab at a time; after a sign-out no token, no profile
  and no replication; a session that goes on keeps refreshing; nothing is destroyed by a
  sign-out that the reader was not told of; no answer reopens a dialog.
- Offline shell: the visit that installs the worker is enough to open offline; what waits is
  offered, and a first install is not.
- Views and scanner: what is shown, written or handed over belongs to what is open; a save
  that fails half way can be repeated without repeating what succeeded; nothing is read from a
  camera whose dialog is closed.
- Codecs, archives, rooms and paper: decoding what was encoded gives the original; a single
  slip is noticed, and damage to an archive other than a member gone from its list of files
  (section 5); every device is in one room's group and once on paper.

## 2. Modules

| module | models | checked by |
|---|---|---|
| `Revisions` | the orders of revisions of `domain/sync/merge.ts` | every run of the two below |
| `DeviceConflicts` | one device document: resolver, views, lookups, replication | `device_conflicts`, `device_edits`, `device_convergence` |
| `RemarkLog` | abstract: a remark is written once and stays until it is deleted | refined by `DeviceConflicts` (`RemarkLogSpec`) |
| `MergeOrder` | the loops of the merge, one revision at a time | `algorithms` |
| `ProjectTransfer` | promotion, removal of a copy, download, the locks | `transfer_tabs` |
| `LocalCache`, `CacheChanges` | the rewrites of `mm-local`, get by get and put by put | `browser_storage` |
| `AtomicCache` | abstract: a change is applied to what is there, or fails | refined by `LocalCache` (`AtomicChanges`) |
| `LocalProjects` | the databases of a browser and their index | `browser_storage` |
| `ProjectKeys` | the device key, data keys, wraps, recovery | `browser_storage` |
| `ProjectsModel` | the join, the rows and what they offer, the project opened | `projects_page`, `algorithms` |
| `ProjectsPage` | the controller, the manager and the page's actions | `projects_page` |
| `ProjectRows` | one action from any page there can be | `algorithms` |
| `Session` | the tabs of a browser, the token and profile they share, the rotating server | `session_*`, `browser_storage` |
| `Replication`, `SignInDialog`, `SignOut`, `AccountFacts`, `AccountPage`, `DevicePage`, `DeviceList`, `AddForm`, `EditForm`, `RoomsPage`, `ScanDialog`, `Backfill`, `OfflineShell` | a part of the interface each | `interface`; `edit_form` |
| `MatterCodes` | setup codes, as a payload and as digits | `algorithms` |
| `Archives` | a project as a file | `algorithms` |
| `RoomPaths`, `RoomList` | paths of rooms, lists, the room typed, renames | `algorithms` |
| `PaperLayout` | the inventory's pages, the sheets of labels | `algorithms` |
| `DeviceConflictsProofs`, `AlgorithmsProofs`, `ProjectTransferProofs`, `SessionProofs`, `LocalCacheProofs`, `StorageProofs`, `ProjectsPageProofs`, `InterfaceProofs` | proofs | TLAPS |

A module named `MC...` instantiates these for TLC: the sets of a run are in its
`.cfg`, symmetry sets in the module. `Session` is run as it is.

### DeviceConflicts

`store[d]` is the set of revisions of one document that database `d` holds; leaves,
the winner and `_conflicts` are derived from it as PouchDB derives them. PouchDB is
external: modelled are the revision tree, that a put must extend a leaf (409
otherwise), that equal content on an equal parent gets an equal revision id, and
that replication delivers a leaf with its ancestry. `held[t]` is the copy the views
of tab `t` hold (`ui/views/device.ts`), and `job[t]` the resolution in flight in the
tab (the `inFlight` map of `conflictResolver`): `merge` once the losers are read,
`prune` once the merge is put or found unnecessary, `reread` after a 409. Between
any two of these steps other tabs and replication move.

| action | code |
|---|---|
| `ReadPlain`, `ReadConflicted` | `repository.get` without and with `_conflicts` |
| `WatchConflicts` | `watchConflicts` |
| `MergeUnchanged`, `MergeWrite`, `MergeConflict` | the put of `attempt`: not needed, accepted, 409 |
| `RereadMissing`, `RereadResolved`, `RereadConflicted` | `reread` and the next round of `run` |
| `Prune` | `prune` (one `bulkDocs`) |
| `AddRemark`, `Edit`, `Backfill`, `Remove` | `addRemark`, `planDeviceEdit`, `fill`, `repository.remove`, each put onto the held copy |
| `Replicate`, `Close` | replication; the tab ends |

Remarks are ids (their text never changes), the scalar fields one name, the
catalogue block the time it was looked up (0 is none), timestamps members of
`Clock`, so that equal stamps and clocks that disagree happen.

### MergeOrder

`mergeDevice` reads the revisions once and keeps, per loop, the best so far. `Take`
is one turn of all three loops with a revision in any order; the properties say what
has been computed over the set read so far, so they say that the order does not
matter. `Settled` says that the result outranks its sources and adds nothing to
itself, which is what makes a second resolution write nothing.

### ProjectTransfer

`local` and `server` are the documents of each database (`update_seq`, which moves
on every write, is the set itself, as documents are written once), `onDisk` and
`entries` the databases and the index of the browser, `recorded` the project id on
the source's entry, `act[t]` the project action tab `t` runs, one step between two
awaits of `promote`, `removeLocalCopy` and `settled`. `alive` is whether the handles
the action opened still belong to a database that exists. `lock` is the exclusive
Web Lock; a shared lock is held only within one write, so it is the guard
`Writable`. `late` is history: what landed after the last check of `update_seq` in a
browser without Web Locks.

| action | code |
|---|---|
| `Promote`, `Post`, `PostFails`, `Record` | `target`: the recorded id, `POST /projects`, the id recorded |
| `Leave`, `Back` | `leave` and the function it returns |
| `Info`, `Copy`, `Push`, `TransferFails` | one round of `settled`: the sequence, the transfer, its failure |
| `Acquire`, `Verify` | `withDestroyLock` and the second reading of the sequence |
| `Index`, `Destroy`, `Forget` and their failures | `indexServerProject`, `destroyLocalProject` |
| `CopyBack`, `CopyBackFails` | the `catch` of `promote` |
| `RemoveLocalCopy`, `Download`, `Refresh` | the other actions; a page read |
| `Open`, `Write`, `LivePush`, `LivePull`, `EndTab` | the views, live sync, the end of a tab |

### LocalCache and AtomicCache

`mm-local` holds the cached server list, one entry per local database and documents that
stand alone. `op[t]` is the operation of tab `t`: the documents it is about, what it read of
each and whether that is still the last revision, and the attempts left. `Get` and `Put` are
the reads and the `bulkDocs` or put of `amend`, `rewriteEntry`, `writeProjects` and
`writeSingleton`; `PutForced` is the list's last resort. `AtomicCache` says what callers rely
on: a change is applied at one moment to what is there, or fails, where a list that fails may
have replaced some entries. `LocalProjects` and `ProjectTransfer` take the index to be that.

### LocalProjects

`store[d]` is what the database `d` holds (whether it exists, its keys, its project document,
devices, what is sealed), `index` what is listed, `op[t]` the operation of a tab and the step
it waits at. `Steps(kind)` is the order of each operation's awaits: `createLocalProject`,
`importLocalProject`, `renameLocalProject`, `setLocalClient`, `indexServerProject`,
`detachOrphanedProject`, `destroyLocalProject`, `adoptLegacyCatalogue` and the removal of
everything at a sign-out (`removeLocalDatabases`). `Fail` is the `catch` of each, with what it
discards; `EndTab` closes a tab anywhere. A database written after it was destroyed is made
again, empty, as PouchDB does (`revived`).

### ProjectKeys

`memo[t][db]` is what the keyring of a tab remembers of a database (`keyless`, `locked`, or
its key), `run[t][db]` a resolution under way: the device key (`ReadDeviceKey`,
`AddDeviceKey`), the rows of `keys`, unwrapping, minting with its 409, the wrap for escrow,
sealing what is in the clear. `Pull` brings in the server's wraps and documents, `Reopen`,
`PullAll`, `TryUnlock`, `Register`, `Post` and `EndRecovery` are `recover` and the escrow
client. A code carries the key it is sealed under; WebCrypto is external: what is sealed under
a key opens with it alone.

### ProjectsPage, ProjectsModel, ProjectRows

`ProjectsModel` is the pure part: from `[local, server, stale, session, online, syncs, limit]`
the rows, what each offers and whether it counts (`Rows`, `Finished`), the projects to
replicate, the orphans and the project to open. `ProjectsPage` is the controller of one tab:
`fetches` are requests for the list, `read` the turn of the facts with the `generation` it began in
and whether it `spanned` an action (the epoch of `project-busy.ts`), `manager` the
replications of each session, `act` the actions under way. `Lands` is the second half of
`fetchProjectList`, `ReadShows` that of `refresh`, `Detach...` is `detachOrphans`, `Start`,
`LetGo` and `Refreshed` are the hold an action has, `Sets`, `Destroys`, `Patches` its steps and
`Refused` its failing, at the server or, of a destruction, on the device.
`gone` says which projects are deleted on the server; `removed`, kept for the property only,
is what a reader removed from this device and did not download since.
Connectivity is part of what fails and comes back (`Regains`); a push on the server and its
answer are one step; the three reads of `readProjectFacts` are one. Promotion and deletion of
the catalogue are left to `ProjectTransfer` and `LocalProjects`. `ProjectRows` asks of every page there can be
what one successful action of a row makes of it; `ListsAssumption` says what the two lists may be:
a rescued database is promoted as the one project it keeps the id of, and new names are new.

### Session

An asynchronous function is a record in `job` that names the step it waits at; one
action is what runs between two awaits. `token` and `profile` are the two documents of
`mm-local` all tabs share; a job remembers in `rev` and `prev` whether the revision it
read is still the current one, which is all that a 409 depends on. Per tab, `session`
is what the shell shows, `held` the account of the access token in memory, `armed`
whether the refresher has a timer, `syncing` whether replication runs, and `live` of a
refresh whether its `AbortSignal` is still silent. A handle on `mm-local` dies
(`usable`) when any tab destroys the database.

The server is external. `Exchange` is the contract of `POST /auth/token` in
`openapi.yaml`: a handoff cookie wins; a live token is consumed and replaced; a consumed
one is taken again within its window, and each such answer invalidates the one before;
presented later it revokes every token of its account. Names of tokens that nobody
holds any more are used again.

| action | code |
|---|---|
| `RunRefresh`, `Outcome` and its cases | `startRefresher`, `onTokenOutcome` |
| `ReadToken`, `NoAnswer`, `Receive` | `requestTokens` up to the point where state changes |
| `WriteGet`, `ForgetGet`, `ForgetRemove`, `WritePut` | `write` of the token store, one step per await |
| `ClearGet`, `ClearRemove` | `clear` of the token store |
| `StartSignIn`, `Verify`, `Written`, `NotWritten` | the emailed code, the passkey, `commitSignIn` |
| `RedirectSignIn`, `Reload` | the Google and GitHub journeys; a reload |
| `StartSignOut`, `TakeCredentials`, `EndServerSession`, `RemoveLocalData` | `signOut` of the shell, `endSession`, `endServerSessionVia`, `removeLocalDatabases` |
| `FollowProfile`, `StartReread`, `ProfileArrives`, `CacheGet`, `CachePut` | `resolveProfileLocale`, `rereadProfile`, `writeSingleton` |
| `Exchange`, `Verify`, `GraceEnds`, `Revoke` | the server |

`Faults` chooses what may go wrong: a request or answer lost, a rotation window that
closes on an exchange under way, a revocation from elsewhere, a reload, a refused write,
and a second sign-in begun before the first is through.

### The interface

Each module is one component of the shell or one view, with the requests it has under way as
a set (or a record) whose members remember what the handler closed over: the project, the
route, the attempt, the copy. One action is what runs between two awaits; what the code
compares after an await is the guard of the action that follows it. Counters that are only
compared for equality appear as what they tell apart (`mine`, `newest`, `live`).

| module | state | actions |
|---|---|---|
| `Replication` | what is unsent and unread, the state of the handle and of the controller | `Starts`, `Suspends`, `Dropped`, `Works`, `Pulled`, `Pushed`, `Denied`, `Paused`, `Errs`, `ProbeAnswers`, `PushBegins`, `PushReaches`, `PushAnswers` |
| `SignInDialog` | step, attempt, requests, codes mailed | `Opens`, `Sends`, `Sent`, `Verifies`, `Verified`, `Passkey`, `Asserted`, `Back`, `Closes` |
| `SignOut` | step, pushes under way, what is unsent and lost | `Asks`, `Pushes`, `Checked`, `Confirms`, `ConfirmsUnpushed`, `Cancels` |
| `AccountFacts` | the cached profile, a change and the reads under way | `StartupLands`, `Changes`, `ChangeAnswers`, `RereadLands` |
| `AccountPage` | what is loaded, the action and the reads under way | `Begins`, `ReadLands`, `Acts`, `ActionLands`, `Network`, `LoadEnds` |
| `DevicePage` | the page, reads and writes under way, revisions | `Goto`, `Switch`, `ReadAnswers`, `Acts`, `Saves`, `Removes`, `TriesAgain`, `Refused` |
| `DeviceList` | the list shown, the export under way | `LoadLands`, `Exports`, `Delivers`, `Cancels` |
| `AddForm`, `EditForm` | the fields, the lookup, the device held, the save under way | `Types`, `Debounced`, `Answers`, `Submits`, `Plans`, `Saves`, `Rereads` |
| `RoomsPage` | the rooms shown, the rename under way | `LoadEnds`, `Begins`, `Saves`, `Stops` |
| `ScanDialog` | prompts, streams, frames and images | `Opens`, `Granted`, `FrameRead`, `ImageRead`, `Closes`, `Leaves` |
| `Backfill` | the pass, whether another is wanted | `Wanted`, `Works` (list, next, ask, get, save), `Switch`, `Loses`, `Ends` |
| `OfflineShell` | the cache, both workers, the page, the offer | `Opens`, `LoadsAsset`, `Registers`, `Checks`, `PrecachesShell`, `PrecachesAssets`, `Activates`, `Takes`, `TakesOver`, `TimesOut` |

PouchDB, the browser and the server are external and modelled from their use: a put answers
before the next request is taken, a pause gives no reason, a permission prompt stays up as long
as the reader likes, a worker takes over once no page is left or when it is told to. In
`OfflineShell` the server has the assets of the build it serves and of no earlier one.

### The algorithms

`MatterCodes` writes a label as `payload.ts`, `base38.ts`, `manual-code.ts` and `verhoeff.ts`
do, lets one slip befall it (a place mistyped, two swapped, one dropped, spelled or lowered)
and reads it as `credential.ts` does. `Archives` exports a project, lets the file be damaged,
mixed with another or left alone, and imports it; deflate, PBKDF2, AES and HMAC are external.
`RoomPaths` and `RoomList` treat a segment as what was typed, with `Trimmed` and `Fold` for
what the code does to it. `PaperLayout` places blocks on pages and labels on sheets. None
uses a recursive operator, so proofs about them remain possible.

## 3. Runs, bounds, fairness

`PROJECT.json` says of every run what it shows. The bounds, and why they suffice:

- `device_conflicts`: two browsers, the server, two remarks, generations up to 4 and
  two hashes. A conflict needs two branches, a race of two resolvers one more
  generation, and a retry against it another.
- `device_edits`: one rename and two lookups, instead of remarks: the block and the
  scalars travel in different directions through one merge.
- `device_convergence`: no deletions: with two hashes the tombstone of a deletion takes the
  last id of its generation, and a prune would have none left. Two resolvers that undo
  each other, which is what the property excludes, need no deletion.
- `transfer_tabs`: two scenarios over one document, which may be there before a snapshot or
  land after it. `tabs`: two tabs and one server project, no faults. `faults`: one tab, two
  server projects (a retry that creates a second one), two faults. That a browser without Web
  Locks loses at most what lands after the last check is proved.
- `session_two_tabs`: two tabs with a call each, which is enough for any race over the
  shared token, with revocations, reloads and refused writes. `session_one_tab`: a tab
  with two calls in flight, lost and late answers and revocations.
- `browser_storage`: the stores of a browser, one per behaviour (`part`), as they meet in
  atomic steps only; and the session of one tab when nothing fails, with three token names: the
  stored one, its successor, and one whose answer a redirect left behind. Two tabs; two listed
  projects (a list that half lands) or one entry and the profile (two kinds of documents in one
  operation); the legacy catalogue, an orphaned copy and two databases to make, an archive of two
  devices (half of it imported), four operations (each tab interrupts the other and is
  interrupted); two device keys and two data keys, so that both tabs mint, and one move of the
  server's document.
- `projects_page`: the catalogue, one project of the account's own and the database an orphan's
  data goes to; three in all of actions chosen, sessions begun and changes made elsewhere, so
  that a session ends under an action and another begins before its answers are in.
- `interface`: the modules of the interface meet only in stores that other runs explore, so a
  behaviour is one of them (`part`), its variables in slots. Every counter is bounded, by the
  constant `Max` (`Bounds` gives the numbers): two
  projects, devices, accounts or codes; two or three, in the forms four or five, moves of the
  reader or of another device, which lets each await be overtaken once and its retry again;
  three builds and two losses of the connection in `OfflineShell`.
- `algorithms`: three leaves of two generations (9 and 10), two stamps, three lookup times and
  one remark with two texts, so that every comparison of the merge ties and is broken; the
  label with nothing set, with everything set and a real one, with every slip at every place;
  archives of none, one, two or too many devices, plain or sealed, each with every change of
  `Archives` (damaged, mixed, a member gone from the list, rewritten);
  three devices over eight spellings of rooms; every page over three local-only databases and
  two server projects in each state; up to three rooms of up to four devices on pages that
  hold from one device to five, where blocks just fit and just do not.
- `MaxGen`, `MaxRemoves`, `MaxFaults` and the finite sets of documents and remarks bound
  what is otherwise unbounded; the theorems hold for every value of them.

Symmetry. `interface` permutes its projects, devices and codes. It also checks liveness, which
symmetry can upset; the two parts that liveness is about (`Replication`, `Backfill`) hold
no permuted value, and the properties say nothing of the others. Its action properties treat
permuted values alike. `browser_storage` and `session_two_tabs` check safety only.

Deadlock is checked in `Session`, where something can always happen, and not in the
other modules, where users may simply stop.

Fairness. `device_convergence` assumes weak fairness of replication (live, with
retries), of a tab that has a conflict to resolve (the watch reports every change) and
of the steps of a resolution, and the property speaks of tabs that stay open.
`transfer_tabs` assumes weak fairness of an action's own steps — every await ends, a push
because `PUSH_TIMEOUT_MS` aborts it — and strong fairness of the lock: Web Locks queue
their requests, so that one that is free again and again is granted. `session_one_tab`
assumes weak fairness of the timer and of the awaits on this device, and strong fairness
of an exchange and its answer: the backoff retries for ever, so a server that is reached
again and again answers one of them. The sign-out request needs no such assumption, as
`END_SESSION_TIMEOUT_MS` ends it. `interface` assumes, of `Replication`, that a retry comes
(PouchDB's `retry: true`), that a batch ends in a pause or an error and that a probe is
answered or fails, and, of `Backfill`, that a pass goes on: each of its awaits is a request
with an answer or a delay, and a server that says 429 stops saying so.

## 4. Proofs

`DeviceConflictsProofs`: `IndInv` says that an id names one revision in all databases,
that ancestors are known and of an earlier generation, that tombstones are blank, that
what a tab holds or resolves was read from its own database, and, of a resolution
(`JobSound`), that the revision it keeps is greater than each loser and, once it
prunes, carries all of them. The last part is why `Superseded` is preserved by
`Prune`, and `Superseded` alone is not inductive: nothing would relate a job to the
database it was read from. `RemarkKept` and `CatalogueKept` follow by taking, among
the finitely many generations and hashes, the greatest revision that carries what was
written (`BoundedMax`); it must be a live leaf, or a greater one would carry it.
`ImplementsRemarkLog` maps every action to a step of `RemarkLog` or to a stutter.

`AlgorithmsProofs`, five of the computations that answer at once:

- Merge: `(updatedAt, _rev)` is a strict total order of revisions with different ids, so the
  best of a set and one more revision is one of the two; each loop asks just that. `Settled`
  uses that the merge is put onto the winner, whose generation is the greatest.
- `Archive!IndInv`: the file is what the export wrote, or that with what the last change left
  behind, and an answer is the import of the file that is there. Each kind of damage leaves
  what some check of `readZip` or `readProjectArchive` is about, whatever else is in the file
  (`DamageRefused`), except that of the list of files (`Leave`); and reading from left to right what `buildProjectArchive` wrote collects
  its devices in their order (`DevicesRead`), so an export reads back whole (`ArchivesReadBack`).
- `Code!IndInv`: of digits, the text is the label's or that with one slip. The tables of
  `verhoeff.ts` are the dihedral group of the pentagon, written as sums in `Times`: it
  cancels and associates, so what differs in one place differs to the end (`RunsApart`),
  and `NeighboursTell` says that no exchange of two different neighbours is made up for.
  With the check digit the product is zero (`CheckDigitChecks`), and with a slip it is not.
- `Rowed!IndInv`: both lists are `WellFormed` - a name or an id is told once, a copy bears the name
  of its project, a project was promoted from one database - before and after. Of such lists
  `CountedIs` says which names count, and `CountIs` that the rows are as many (`RowsDiffer`). Each
  action then puts one name in the place of another (`PromoteCounts`), none (`DownloadCounts`), or
  one more where there was room (`CreateCounts`, `RelistCounts`); a copy forgotten gives its
  place to its project on the server, unless it hid what a promotion left (`ForgetCounts`).
  So `ProjectsCountOnce`, for any lists and any limit.
- `Rooms!IndInv`: a path renamed is the new name and, segment by segment, what the old one was
  followed by (`RenamedPlaces`), so its key is, and it is in the old room only if that room is in
  the new one or the new one in it (`RenamedMoves`). `RenamesMove` says so of every device.

The folds of the archive and of the codes are recursive functions over the subsets of an index range, which the
definition chooses. `FoldsExist` builds the one to be chosen, by the least set that would have
none, and what it computes follows from index to index (`Climb`).

`ProjectTransferProofs`: `IndInv` follows what an action has proved: `before` is what
its database held, then what the survivor holds, then what the server holds, and from
the last check until the entry is forgotten the tab holds the lock, so that nothing can
have landed since. `ReachInv` (in `MCProjectTransfer`) is about the scenario of one tab: a source is
hidden by nothing but the promotion that is about to destroy it, or by a page read before its id was
recorded, which then has nothing to download; the views leave the source before the copy is
listed, and a write lands where a page finds it. With `IndInv` it gives `WithinReachOfOneTab`
(`OneTabReaches`), with `ReachKeeps` as the one argument about what is hidden or destroyed. With two
tabs the statement is false (section 5, `HiddenSourceIsOnServer`).

`SessionProofs`: the three invariants of a tab are not inductive one by one. That
replication does not outlive a session needs that no refresh is live while a sign-out
runs, or its answer would sign the tab in just before the sign-out ends; that, in turn,
needs that no sign-in is under way then. `TabInv` says all of this of one tab: a live
refresh is alone, a sign-out has stopped the timer, the refresh and replication, and a
sign-in is alone in a signed-out tab. It speaks only of the kind, the tab and the life
of a call, so most steps keep it because they keep these (`Silently`, `Leaves`). It
assumes that sign-ins do not overlap, without which it does not hold (section 5).
With one tab and no faults more can be said (`SteadySession`). A token that is read, asked for
and written in several steps is still the right one in the last because nobody else writes in
between: `InTurn` says that a refresh is the only one, and a stopped one the last until it has ended.
`Writes` then says that a call about to write carries a token that the server takes and has read
the revision that is still stored, `AtRest` that otherwise the stored token is live, and
`SessionSound` that a signed-out tab where no such call runs has no token and holds nothing. With a second tab,
or with a fault, it does not hold: `session_rotation` and section 5 show how.

`LocalCacheProofs`: `ReadStands` says that what an operation read and has not lost since is
what its document holds; a put that lands then applies its change to what is there, which is
the one atomic step of `AtomicCache` (`ImplementsAtomicCache`): a put that landed in part is that step
for the documents it landed on, and a read a stutter. `RefreshesKeep` follows from the
same fact: the local half that is put back is the one that is there.

`StorageProofs` is about the stores of a browser as `browser_storage` explores them, each by
itself. Keys: the key of the catalogue is what this device's wrap of it holds (`CatalogueKey`). What
is wrapped or sealed is so with the one key of its database (`StoredSound`); that is not inductive
by itself, as a step of a resolution writes what an earlier step read: `RunSound` says which device key
and which data key each step holds, and `MemoSound` which key a tab may remember. Projects: an
operation has the database it makes for itself (`ItsOwn`), holds the lock over the steps that need it
(`LocksSound`) and has put into the database what the steps behind it put (`MakesSound`, `OthersSound`).
So every document saved is in a database that is within reach and that nobody is still making
(`NothingLost`), in two of them only while a detachment or a cut says so (`NothingTwice`), and a local
project that is listed, or may be listed again, is whole (`WholeProject`). The part that is a
session has the types and the steadiness of `SessionProofs`, carried over by its instance.

`ProjectsPageProofs`: `Settled` says of a page at rest what five parts of `IInv` say of a
page that is not: everything is of its type; the manager of a session to come replicates nothing, and
an action holds that of a session that was or is on (`Managed`); a project that is held still is
held by an action or a read under way (`Held`); what was read is as the index says, or whatever
made it out of date is under way, or a read is queued behind it (`Awaited`); and no read is of a
session to come (`Behind`). `Awaited` carries the argument, for any number of actions at a time.
`RemovedStaysStopped` rests on `KeptInv`: what a reader removed is in no list that will still be
handed to a manager. Its theorem is about one action at a time, and the property itself about
a server that deletes nothing; without either it is false (section 5).

`InterfaceProofs` takes the parts one by one; `InterfaceInv` says that the part explored keeps its
invariant. Few of the properties are inductive: each is about what is on the screen, and says
nothing of the answers still on their way to it. The invariants say whose these are, and
which of them still counts:

- `PageOwns`, `ListOwns`, `RoomsOwn`, `ReadsOwn`: the read that would be heard is of the project, and
  of the route, that is open, and no older than what the page was told; `BuildsOwn` the same of an
  export, by its token. So `ShownIsOpen` and `ExportingIsTrue`.
- `PlansOwn` (`RoomsPage`): what a rename would still write over a revision is the rename of what
  that revision holds. `MovedOnce` then says that moving twice is moving once: `RenamedPath` of a
  path that was moved leaves it alone, unless one room is in the other, and trimming twice is
  trimming once (`RoomsAssumption`).
- `SavesOwn`, `FetchesOwn` (`AddForm`): a submit over which nobody switched writes where it began.
- `ChecksOwn`, `ToldOfAll` (`SignOut`): of the check that counts, what it found waiting, what failed
  and what came after it looked are together all that was not sent. So `NothingLostUnasked`.
- `CachedByInstall`, `InOrder` (`OfflineShell`): before a worker is in charge only an install caches
  a shell, and workers follow one another as their scripts do. So `WholeUnlessCut`, `OfferedWhenReady`.
- `HandlesInOrder`, `RefusalRemembered` (`Replication`): only the live handle is heard, and what it
  was refused the controller remembers. So `RefusalShown`.
- `SendsInOrder` (`SignInDialog`): a challenge is of the address its code was mailed to, and what is being
  sent for a dialog that is closed is of an earlier attempt. So `OnlyTheReaderOpens`.
- `OverIsNobodys` (`AccountPage`), `FactsInOrder` (`AccountFacts`), `WritesOverNeed` (`Backfill`): a read
  that will be heard is nobody else's; one begun while no change was under way is no older than
  the last change; and a block is written over a revision that still needs it.

Assumptions are named in the modules that declare the constants
(`ConstantsAssumption`, `CandidatesAssumption`, `TransferAssumption`, `FaultsAreKnown`,
`NoneIsNoValue`, `CacheAssumption`, `KeysAssumption`, `ProjectsAssumption`,
`SessionAssumption`, `PageAssumption`, `InterfaceAssumption`, `RoomsAssumption`,
`ShellAssumption`, `MainAssumption`, `LabelsAssumption`, `ArchivesAssumption`, `ListsAssumption`,
`PathsAssumption`) and evaluated by TLC in the runs. Only model-checked: `Convergence`, `TabsEnd`, `SignOutCompletes`,
`SessionResolves` and `AskedIsServed` (liveness), and, of `algorithms`, `WrittenReadsBack` but for
the archive (`ArchivesReadBack`) and renames (`RenamesMove`), and `OneOfEach` but for projects
(`ProjectsCountOnce`): base 38 and the bits of a payload, the sorting of rooms, the room that is
matched to what was typed, and the layout of pages.

## 5. What the code does not keep

Each of these runs ends in a counterexample:

- `session_rotation`: two tabs that refresh at once leave a token in the store that the
  server takes no longer; the next refresh ends the session. The token is shared and
  nothing serialises the exchanges, where `ui/composition.ts:143` says that writing the
  answer back is the complete client rule under rotation.
- `edit_form`: the route of the edit form goes on while a save waits for the rooms; the fields
  of the second device are then written onto the first (`ui/views/edit-device.ts:135-151`). A
  refused save rereads the first device into the form of the second.

The models show the following too; no configuration is kept for them. A property that is named
is in its module, where it is marked "Meant, and not kept", and TLC finds it violated with the
constants of the run that explores the module.

Session (`SessionOneTab.cfg`'s constants and the one named):

- `NeverExpires` fails with `Faults = {"lost", "late"}`: an answer that is lost until the
  rotation window has passed signs the tab out, where `ui/token-refresher.ts:6` says that a
  network blip must never do so.
- `RefreshKeepsProfile` fails without faults: every refresh now stores another token and so
  forgets the cached profile; `ui/tokens.ts:174` still says that a refresh stores the same
  one.
- `NeverBesideAnother` fails with two accounts and `Faults = {"revoke"}`: a profile fetched
  for one account can be cached beside the token of the next, which `ui/tokens.ts:172`
  excludes.
- `StoppedRefreshStoresNothing` fails without faults: a refresh that passed its last abort
  check can store its token after the sign-out has cleared it (`ui/composition.ts:150`). It
  is gone again when the sign-out destroys `mm-local`.
- `QuietTabHoldsNothing` fails with `Faults = {"storage"}`: a first exchange whose refresh
  token cannot be stored ends with a signed-out tab that holds an access token
  (`ui/app-shell.ts:638`).
- `SyncWithinSession` fails with `Faults = {"overlap"}` and a third token name: a passkey sign-in that completes
  during a sign-out leaves replication running in a tab that reads signed out
  (`ui/app-shell.ts:1315`).
- `StartSignOut` asks for a session or one held offline, with which alone the button is shown
  (`ui/shell-header.ts:142`). A dialog left open outlives the session, and confirming it then
  signs out once more, beside a sign-in if there is one (`ui/app-shell.ts:1273`); not modelled.

Project actions (`TransferTabs.cfg`):

- `LeftoverHoldsNothingMore`: a document saved between the copy-back of a refused promotion
  and the return of the views stays in the unlisted copy alone, where
  `ui/project-actions.ts:439` says that nothing is stranded. A retry of the promotion copies
  into the same database and lists it again.
- `HiddenSourceIsOnServer`: another tab can download the server project between its creation
  and the recording of its id on the source; the source is then hidden while its documents are
  in no other place, where `ui/projects-model.ts:664` says that the data is on the server and
  in the copy.

Storage:

- A project that another tab adds between the read and the `bulkDocs` of `writeProjects` stays
  listed although the server's list does not have it, until the next refresh.
- A tab that remembers a database as keyless learns nothing when another tab's replication
  brings in its wraps (`ui/db/keyring.ts:236`); it does when its own replication does.
- `ProjectKeys.Resolve` has one resolution of a database under way in a tab. After a refresh of
  the memo the code lets a second begin beside a late one (`ui/db/keyring.ts:208`); that late
  answer is modelled, two of them are not.
- A tab that signs out between its reading of the index and its destruction of the databases
  strands a project that another tab lists meanwhile; a crash before `relist` leaves a
  detached copy beside its source. Both are what `cut` and `ListedOnce` except.
- `setLocalClient` writes the whole entry it read: an entry removed meanwhile comes back, a
  project id recorded meanwhile is dropped (`AtomicCache` applies it to what is there, the
  reading that decides what to write is earlier).

Projects page (`ProjectsPage.cfg`):

- `OnlyCopiesReplicate`: suspension is a set (`ui/sync/manager.ts:154`). A detachment that ends
  after a removal has destroyed the copy resumes it (`ui/projects-controller.ts:511`), and the
  replication of a destroyed copy runs until the action's own list.
- An action that outlives its session calls `set` on the manager of that session after its
  `stopAll`, which starts replications that nothing shows or stops.
- A removal that is refused after an orphan was detached moves the views back to a database
  that is destroyed, until the page is idle and read again. A failed read of the index
  shows an empty page. `facts.stale` may be the earlier session's, and two answers with the list
  may land in the order they were not asked for.
- `RemovedStaysStopped` is stated for what a reader removed, one action at a time, while the server
  deletes nothing. Otherwise: a removal that begins and ends while the detachment of another
  orphan fails is undone, as `read` goes on to `apply` what it read before without asking the
  epoch again (`ui/projects-controller.ts:455-460`, `483-520`), and the copy replicates until the
  queued read; an action chosen in a new session before the index is read again hands over the
  list of the earlier one; and of two actions at once, which the view allows when the page is left and
  opened again (`busy` is a field of the view, `ui/views/projects.ts:279-324`), each hands over the list of its start.
- `Refreshed` waits for every fetch of its read, where `refresh(true)` returns early once the
  generation has changed. A destruction whose index removal fails is left out: the database
  is listed and gone, and is made anew, empty, when it is opened.
- Deleting the copy of an orphan makes the local project that was promoted into it appear
  and count again, which can take an owner over the limit; `CountedOnce` excepts it.

Interface:

- `Replication`: after a one-off push that was refused, the refusal stays shown until the next
  such push; a live push clears it in the handle, not in the controller. A pause that comes
  during the probe of an earlier one is not classified.
- `SignInDialog`: a dialog hidden by a sign-in that completed elsewhere keeps its step and is
  there again at the end of that session; closing it while a code is sent or verified makes the
  next dialog ignore clicks until the answer; a deployment without passkeys (404) reads as
  unreachable.
- `BusyIsWriting` (`DevicePage`): a refused write that rereads a page which has gone on leaves
  it busy (`ui/views/device.ts:251`, `460`). A deletion that answers after the reader left the
  page navigates to the list all the same (`546-552`), as do the saves of both forms.
- `CachedIsOwn` (`AccountFacts`): as `NeverBesideAnother`, from `ui/profile.ts:224` and
  `ui/app-shell.ts:1431`. A reread begun while a change is under way can undo its answer
  (`1482-1486`); `LandsInOrder` excepts it.
- `AccountPage`: a read begun before a removal can put the removed passkey back; a passkey
  added for one account is appended to the list of the next.
- `AccountPage.ActionLands` takes the refusal of a passkey over the limit with the others; a
  passkey has no label.
- `RoomsPage`: renaming a room into its own subtree and repeating it after a failure nests the
  devices that had moved once more, where `domain/rooms/list.ts:90` says that rereading makes it
  safe. So does renaming a room to one it is in: with "Kitchen/Old" renamed to "Kitchen", a device
  of "Kitchen/Old/Old" is first in "Kitchen/Old", and in "Kitchen" once the rename is repeated.
  `MovedOnce` and, of one rename, `RenamedAway` except both; what they say of every other is proved.
- `FailureIsThisProjects` (`DeviceList`): a file of the previous project that fails after the
  switch is reported for the next one (`ui/views/device-list.ts:225`, `287-296`).
- `CameraIsOff` (`ScanDialog`): a dialog closed and opened again while the first prompt is up is
  given two streams and closes one; a stream granted after the form left the page with its
  dialog open is held by nobody. An image read after closing is handed to the form.
- `EditForm`: the retry after a refused save overwrites fields that another device changed.
  `Follows` keeps what was typed, where the controls are gone for the moment of reading; the
  form of a deleted device and the switch of the project are left out.
  The import section switches to the project it made even if the reader has left it
  (`ui/archive/project-import.ts:99`).
- `OpensOffline` (`OfflineShell`): `networkFirst` replaces the cached shell by the new build's
  before any asset of it is fetched, and an install tolerates assets that do not come. Where the
  connection is lost in between, the application does not open offline, though the shell and
  the assets of the previous build were cached (`frontend/public/sw.js:8`, `166-175`).
- An update is noticed by the bytes of `sw.js`, which a deployment need not change
  (`frontend/public/sw.js:36-38`), so a page that stays open is not told of most builds; a page
  open since the first visit is told of none, as it was not controlled when it registered.

Algorithms:

- With the interface's own collation (`ui/i18n/localization.ts:83`, upper case first) a room
  "Hall/Loft" is listed before its parent spelled "hall", where `domain/rooms/path.ts:128` and
  `domain/documents/browse.ts` say that parents come first: `SubRoomsFollow` holds under the
  default order, which folds case.
- An import never compares the manifest's count, or the count at the end of the file, with the
  members it finds, so a member dropped from the directory is left out silently, where
  `domain/archive/project-archive.ts:332` says that the whole import is refused, never half of it.

## 6. Plan

The system is modelled as far as it has state that outlives a step; what could come next is
proof. In this order:

1. `Session`: the account of the running replication.
2. `MatterCodes`: that a payload reads back, by the digits of base 38 and the bits of the struct.

## 7. Not modelled

In `DeviceConflicts`: compaction (a loser whose body is gone), documents that are
skipped because their project is locked, the fields behind `name`, the sort order of
remarks. In `ProjectTransfer`: the escrow wrap written before the POST, the
project document (it is never copied), a recorded id the server lists no longer.
In `Session`: the revision a removed document leaves behind (a put without a revision
succeeds on it), the lengths of the backoff, the challenge of a sign-in and its
refusals (no answer, for the tokens), the denial of the access token by the server,
`requestPersistence`. In `LocalProjects`: the sign-out that removes the local catalogue too. In
`ProjectsModel`: names, clients, sorting and the reasons of refusals. In the views: wording,
layout, the filters and sorting of the list, the validation of fields, text search. In
`MatterCodes`: the range checks of the encoder (labels are in range) and the passcodes that are
forbidden. In `Archives`: the order between members when several are wrong. In `PaperLayout`:
drawing, fonts and the sizes of real stock.

Components left out altogether: the spreadsheet and the QR encoder, straight-line
renderings of data that is in order already, neither waiting for anything nor read back by this
program; the router, theme, localisation and icons, presentation without state of its own; the
API forwarding (`frontend/functions/_lib/forward.ts`), one stateless handler. WebCrypto,
PouchDB, CouchDB, the sign-in server, Web Locks and the browser's service workers are external
and modelled from how the code uses them.
