---------------------------- MODULE MCInterface ----------------------------
(***************************************************************************)
(* The components of the interface, which meet only in the stores modelled *)
(* elsewhere: each is explored by itself, and "part" says which. Its       *)
(* variables are the first slots; the slots it does not use stay None.     *)
(* Things are its projects, accounts, addresses or copies, Others its      *)
(* devices, passkeys or codes: two of each.                                *)
(***************************************************************************)
EXTENDS Integers, Sequences, TLC

CONSTANTS Things, Others, None,
          Projects, Devices,       \* Backfill's, which no symmetry permutes
          Paths, Renames, Trimmed(_), Fold(_), Empty,   \* the rooms of RoomsPage
          Max     \* the bounds of the modules, by name

\* The bounds of the run.
Bounds ==
    [starts |-> 2, attempts |-> 1, codes |-> 2, revs |-> 2, sessions |-> 2, asks |-> 3, writes |-> 2,
     signIns |-> 1, actions |-> 2, network |-> 1, opens |-> 2, builds |-> 3, drops |-> 2,
     replication |-> 3, device |-> 3, facts |-> 2, rooms |-> 3, list |-> 4, add |-> 5, edit |-> 4,
     backfill |-> 3]

VARIABLES part, s1, s2, s3, s4, s5, s6, s7, s8, s9, s10, s11, s12, s13, s14, s15, s16

after8 == <<s9, s10, s11, s12, s13, s14, s15, s16>>
after9 == <<s10, s11, s12, s13, s14, s15, s16>>
after10 == <<s11, s12, s13, s14, s15, s16>>
after13 == <<s14, s15, s16>>
after15 == <<s16>>
vars == <<part, s1, s2, s3, s4, s5, s6, s7, s8, after8>>

Unused15 == s16 = None
Unused13 == s14 = None /\ s15 = None /\ Unused15
Unused10 == s11 = None /\ s12 = None /\ s13 = None /\ Unused13
Unused9 == s10 = None /\ Unused10
Unused8 == s9 = None /\ Unused9

\* The rooms of the run: "K" and "k" are one building, "o" a room of it, "b" another building.
TypedExactly(segment) == segment
FoldK(segment) == IF segment = "K" THEN "k" ELSE segment
SomePaths == {<<"K">>, <<"k", "o">>}
SomeRenames == {[from |-> <<"k">>, to |-> <<"b", "k">>], [from |-> <<"k">>, to |-> <<"k", "o">>]}

Rep == INSTANCE Replication WITH
    MaxStarts <- Max.starts, MaxTurns <- Max.replication, listed <- s1, state <- s2, live <- s3, started <- s4,
    feed <- s5, probe <- s6, status <- s7, denied <- s8, push <- s9, unsent <- s10,
    skipped <- s11, refused <- s12, reachable <- s13, refusing <- s14, turns <- s15
Dialog == INSTANCE SignInDialog WITH
    Emails <- Things, MaxAttempts <- Max.attempts, MaxCodes <- Max.codes, dialog <- s1, notice <- s2,
    attempt <- s3, challenge <- s4, sending <- s5, verifying <- s6, passkey <- s7,
    heard <- s8, loading <- s9, emailUnavailable <- s10, codes <- s11, session <- s12,
    adopted <- s13
Page == INSTANCE DevicePage WITH
    Uuids <- Others, Buildings <- Things, MaxRevs <- Max.revs, MaxTurns <- Max.device, page <- s1,
    opened <- s2, revs <- s3, gone <- s4, sealed <- s5, reading <- s6, writing <- s7,
    heard <- s8, turns <- s9
Facts == INSTANCE AccountFacts WITH
    Accounts <- Things, MaxSessions <- Max.sessions, MaxTurns <- Max.facts, account <- s1, generation <- s2,
    server <- s3, cached <- s4, upgrading <- s5, problem <- s6, left <- s7, change <- s8,
    changes <- s9, rereads <- s10, startup <- s11, settled <- s12, turns <- s13
Leaving == INSTANCE SignOut WITH
    Copies <- Things, MaxAsks <- Max.asks, MaxWrites <- Max.writes, signedIn <- s1, copy <- s2,
    unsent <- s3, online <- s4, step <- s5, named <- s6, unreadable <- s7, attempt <- s8,
    checks <- s9, late <- s10, lost <- s11, mistaken <- s12, writes <- s13
Account == INSTANCE AccountPage WITH
    Accounts <- Things, Passkeys <- Others, MaxSessions <- Max.signIns, MaxActions <- Max.actions,
    MaxNetwork <- Max.network, session <- s1, who <- s2, server <- s3, loaded <- s4, reading <- s5,
    editing <- s6, busy <- s7, action <- s8, online <- s9, matrix <- s10, plansLoad <- s11,
    retryQueued <- s12, owed <- s13, begun <- s14, acted <- s15, turned <- s16
Rooms == INSTANCE RoomsPage WITH
    Blank <- Empty,
    Devices <- Others, Buildings <- Things, MaxTurns <- Max.rooms, opened <- s1, room <- s2,
    rev <- s3, devices <- s4, loading <- s5, renaming <- s6, failed <- s7, wish <- s8,
    base <- s9, turns <- s10
List == INSTANCE DeviceList WITH
    Buildings <- Things, MaxTurns <- Max.list, opened <- s1, held <- s2, devices <- s3,
    loaded <- s4, failed <- s5, loading <- s6, token <- s7, exporting <- s8,
    progress <- s9, exportFailed <- s10, exportLocked <- s11, building <- s12,
    files <- s13, failures <- s14, turns <- s15
Add == INSTANCE AddForm WITH
    Buildings <- Things, Codes <- Others, MaxTurns <- Max.add, opened <- s1, typed <- s2,
    lookup <- s3, timer <- s4, fetches <- s5, reachable <- s6, shown <- s7, repos <- s8,
    saving <- s9, saveFailed <- s10, wanted <- s11, saved <- s12, turns <- s13
Edit == INSTANCE EditForm WITH
    Uuids <- Things, MaxTurns <- Max.edit, stored <- s1, uuid <- s2, device <- s3, fields <- s4,
    reads <- s5, saving <- s6, refused <- s7, written <- s8, turns <- s9
Scan == INSTANCE ScanDialog WITH
    MaxOpens <- Max.opens, open <- s1, mounted <- s2, prompts <- s3, live <- s4, stream <- s5,
    scanning <- s6, frame <- s7, images <- s8, scans <- s9, opens <- s10
Fill == INSTANCE Backfill WITH
    Buildings <- Projects, MaxTurns <- Max.backfill, opened <- s1, doc <- s2,
    able <- s3, leaving <- s4, run <- s5, again <- s6, asked <- s7, turns <- s8
Shell == INSTANCE OfflineShell WITH
    MaxBuilds <- Max.builds, MaxDrops <- Max.drops, build <- s1, script <- s2, online <- s3, drops <- s4,
    shell <- s5, assets <- s6, active <- s7, waiting <- s8, install <- s9, page <- s10,
    offered <- s11, taking <- s12, cut <- s13

\* None stands for no value of any kind, and the bounds are numbers.
ASSUME InterfaceAssumption ==
    /\ Max.starts \in Nat /\ Max.codes \in Nat /\ Max.opens \in Nat /\ Max.revs \in Nat \ {0}
    /\ None \notin Things \cup Others \cup 1..Max.opens
    /\ None \notin Page!Device \cup Page!View \cup List!Listing \cup Edit!Version
    /\ None \notin Account!Said \cup Account!Shown \cup Account!Action
    /\ None \notin Dialog!Shown \cup Dialog!Challenge \cup Dialog!Sending \cup Dialog!Verifying
    /\ None \notin Facts!Profile \cup Facts!Change \cup Fill!Passing
    /\ None \notin Rooms!Copy \cup Rooms!Renaming \cup Add!Planned \cup Add!Saving

\* The rooms are paths of segments, and trimming twice is trimming once.
ASSUME RoomsAssumption ==
    /\ Paths \cup {r.from : r \in Renames} \cup {r.to : r \in Renames} \subseteq Seq(Rooms!Segments)
    /\ \A x \in Rooms!Segments : Trimmed(Trimmed(x)) = Trimmed(x)

ASSUME ShellAssumption ==
    /\ Max.builds \in Nat \ {0} /\ Max.drops \in Nat
    /\ None \notin Shell!Builds \cup [of : Shell!Builds, shell : Shell!Builds \cup {None}]
-----------------------------------------------------------------------------
InterfaceInit ==
    \/ part = "replication" /\ Rep!Init /\ Unused15
    \/ part = "signIn" /\ Dialog!Init /\ Unused13
    \/ part = "device" /\ Page!Init /\ Unused9
    \/ part = "facts" /\ Facts!Init /\ Unused13
    \/ part = "signOut" /\ Leaving!Init /\ Unused13
    \/ part = "account" /\ Account!Init
    \/ part = "rooms" /\ Rooms!Init /\ Unused10
    \/ part = "list" /\ List!Init /\ Unused15
    \/ part = "add" /\ Add!Init /\ Unused13
    \/ part = "edit" /\ Edit!Init /\ Unused9
    \/ part = "scan" /\ Scan!Init /\ Unused10
    \/ part = "backfill" /\ Fill!Init /\ Unused8
    \/ part = "shell" /\ Shell!Init /\ Unused13

InterfaceNext ==
    \/ part = "replication" /\ Rep!Next /\ UNCHANGED <<part, after15>>
    \/ part = "signIn" /\ Dialog!Next /\ UNCHANGED <<part, after13>>
    \/ part = "device" /\ Page!Next /\ UNCHANGED <<part, after9>>
    \/ part = "facts" /\ Facts!Next /\ UNCHANGED <<part, after13>>
    \/ part = "signOut" /\ Leaving!Next /\ UNCHANGED <<part, after13>>
    \/ part = "account" /\ Account!Next /\ UNCHANGED part
    \/ part = "rooms" /\ Rooms!Next /\ UNCHANGED <<part, after10>>
    \/ part = "list" /\ List!Next /\ UNCHANGED <<part, after15>>
    \/ part = "add" /\ Add!Next /\ UNCHANGED <<part, after13>>
    \/ part = "edit" /\ Edit!Next /\ UNCHANGED <<part, after9>>
    \/ part = "scan" /\ Scan!Next /\ UNCHANGED <<part, after10>>
    \/ part = "backfill" /\ Fill!Next /\ UNCHANGED <<part, after8>>
    \/ part = "shell" /\ Shell!Next /\ UNCHANGED <<part, after13>>

\* The fairness of Replication and of Backfill, each of its own part only.
InReplication(A) == part = "replication" /\ A /\ UNCHANGED <<part, after15>>
InBackfill(A) == part = "backfill" /\ A /\ UNCHANGED <<part, after8>>
InterfaceFairness ==
    /\ WF_vars(InReplication(Rep!Works)) /\ WF_vars(InReplication(Rep!Paused \/ Rep!Errs))
    /\ WF_vars(InReplication(Rep!Answers)) /\ WF_vars(InBackfill(Fill!Works))

InterfaceSpec == InterfaceInit /\ [][InterfaceNext]_vars /\ InterfaceFairness

\* The two parts the liveness properties are about have no Things or Others.
Symmetry == Permutations(Things) \cup Permutations(Others)
-----------------------------------------------------------------------------
\* Every part is well typed.
InterfaceTypeOK ==
    CASE part = "replication" -> Rep!ReplicationTypeOK
      [] part = "signIn" -> Dialog!DialogTypeOK
      [] part = "device" -> Page!DevicePageTypeOK
      [] part = "facts" -> Facts!FactsTypeOK
      [] part = "signOut" -> Leaving!SignOutTypeOK
      [] part = "account" -> Account!AccountPageTypeOK
      [] part = "rooms" -> Rooms!RoomsTypeOK
      [] part = "list" -> List!DeviceListTypeOK
      [] part = "add" -> Add!AddFormTypeOK
      [] part = "edit" -> Edit!EditFormTypeOK
      [] part = "scan" -> Scan!ScanDialogTypeOK
      [] part = "backfill" -> Fill!BackfillTypeOK
      [] part = "shell" -> Shell!OfflineShellTypeOK

\* See DevicePage, RoomsPage, DeviceList and EditForm: what a view shows, and the file it hands
\* over, is of the project or of the device that is open, and no older than what it was told.
ShownIsOpen ==
    /\ part = "device" => Page!ShowsItsOwn /\ Page!HeardIsShown
    /\ part = "rooms" => Rooms!RoomsAreTheProjects
    /\ part = "list" => List!FilesAreOfTheProject
    /\ part = "edit" => Edit!HoldsItsOwn

\* See RoomsPage, AddForm, SignOut and OfflineShell: what is written is what was asked for where
\* it was asked for, what is destroyed was named, and what is cached to open offline is whole.
WrittenAsMeant ==
    /\ part = "rooms" => Rooms!MovedOnce
    /\ part = "add" => Add!SavedAsTyped
    /\ part = "signOut" => Leaving!NothingLostUnasked
    /\ part = "shell" => Shell!WholeUnlessCut

\* See Replication, SignInDialog, AddForm, DeviceList, ScanDialog, AccountPage and OfflineShell:
\* what is under way, was refused or is ready is what the view says is, and what was abandoned
\* leaves nothing behind.
UnderWayIsShown ==
    /\ part = "replication" => Rep!RefusalShown
    /\ part = "signIn" => Dialog!DialogAgrees
    /\ part = "list" => List!ExportingIsTrue
    /\ part = "add" => Add!LookupIsOfTyped
    /\ part = "scan" => Scan!ReadsWhileOpen
    /\ part = "account" => Account!NothingLeftBehind
    /\ part = "shell" => Shell!OfferedWhenReady

\* See SignInDialog, AccountFacts and Backfill: an answer that comes late opens no dialog the
\* reader closed, and undoes nothing that was newer.
LateAnswersUndoNothing ==
    [][/\ part = "signIn" => Dialog!OnlyTheReaderOpens
       /\ part = "facts" => Facts!LandsInOrder
       /\ part = "backfill" => Fill!KeepsWhatWasFound]_vars

\* See Replication and Backfill: a copy that cannot reach the server does not go on saying it
\* has caught up, and whatever asks for a pass is followed by one.
AskedIsServed ==
    /\ <>[](part = "replication" /\ Rep!CannotReach)
          => <>[](part = "replication" /\ ~Rep!SaysCaughtUp)
    /\ (part = "backfill" /\ Fill!Waiting) ~> (part = "backfill" => ~Fill!Waiting)
=============================================================================
