-------------------------- MODULE ProjectsPageProofs --------------------------
(***************************************************************************)
(* Theorems of ProjectsPage, for any number of projects, actions at a time *)
(* and turns:                                                              *)
(*   - every variable keeps its type;                                      *)
(*   - once nothing is under way, the page shows what the index lists, and *)
(*     what it shows as synchronized, and nothing else, replicates;        *)
(*   - of one action at a time: what it removed does not replicate again   *)
(*     once it has let go.                                                 *)
(* The second rests on Awaited: whatever makes what was read out of date   *)
(* is under way still, or has a read queued behind it. The third rests on  *)
(* Kept: what was removed is in no list that will still be handed over.    *)
(***************************************************************************)
EXTENDS ProjectsPage, TLAPS

ListedProject == [id : Projects, role : {"owner", "write"}, archived : BOOLEAN,
                  readOnly : {FALSE}, grace : {FALSE}]
ListsKnown == (SUBSET ListedProject) \cup {None}
FactsRead == [local : SUBSET Databases, list : ListsKnown, stale : BOOLEAN]
Manager == [running : SUBSET Projects, known : SUBSET Projects, suspended : SUBSET Projects]
\* A read under way, but for its facts.
Turn(r) ==
    /\ r = [at |-> r.at, generation |-> r.generation, spanned |-> r.spanned, facts |-> r.facts,
            todo |-> r.todo, current |-> r.current, detached |-> r.detached]
    /\ r.at \in {"idle", "facts", "apply", "detach", "detached"}
    /\ r.spanned \in BOOLEAN /\ r.todo \subseteq Projects /\ r.current \in Projects \cup {None}
    /\ r.at = "apply" => r.facts \in FactsRead
    /\ r.at = "detached" => r.current # None
Action == [kind : {"none", "download", "remove", "delete", "archive", "restore", "signOut"},
           project : Databases \cup {None},
           at : {"idle", "refresh", "list", "push", "destroy", "ask", "set", "check", "clear"},
           sync : 0..(MaxTurns + 1), rows : SUBSET Projects, left : BOOLEAN]

\* What an action is about, wherever it is.
ActShape(a) ==
    /\ a.at = "list" => a.kind = "download" /\ a.project \in Projects
    /\ a.at = "push" => a.kind = "remove" /\ a.project \in Projects
    /\ a.at = "destroy" => a.kind \in {"remove", "delete"} /\ a.project \in Databases \ {Home}
    /\ a.at = "ask" => a.kind \in {"archive", "restore"} /\ a.project \in Projects
    /\ a.at = "set" => /\ a.kind \in {"download", "remove", "delete", "archive", "restore"}
                       /\ a.project \in Databases
    /\ a.at \in {"check", "clear"} => a.kind = "signOut"

Typed ==
    /\ server \in [Projects -> {"active", "archived", "gone"}] /\ turns \in 0..MaxTurns
    /\ index \subseteq Databases /\ Home \in index /\ view \in Databases
    /\ gone \subseteq Databases /\ removed \subseteq Databases
    /\ session \in BOOLEAN /\ queued \in BOOLEAN /\ undetached \subseteq Projects
    /\ generation \in Nat \ {0} /\ generation <= turns + (IF session THEN 0 ELSE 1)
    /\ manager \in [Generations -> Manager]
    /\ fresh \in ListsKnown /\ cached \in ListsKnown /\ facts \in FactsRead
    /\ fetches \subseteq [generation : Nat, list : ListsKnown]
    /\ Turn(read) /\ act \in [Workers -> Action] /\ \A w \in Workers : ActShape(act[w])

\* The managers of the sessions to come replicate nothing; one that an action holds is of a
\* session that was, or is on.
Managed ==
    /\ \A g \in Generations : g > generation \/ (g = generation /\ ~session) => manager[g] = Quit
    /\ \A w \in Workers : act[w].sync # 0 =>
          act[w].sync <= generation /\ (act[w].sync = generation => session)

\* Whoever holds a project still is under way.
ReadHolds(d) == Detaching /\ read.current = d
Holds(w, d) ==
    act[w].at \in {"push", "destroy", "set"} /\ act[w].project = d /\ act[w].sync = generation
Held ==
    session => \A d \in manager[generation].suspended :
                 ReadHolds(d) \/ \E w \in Workers : Holds(w, d)

\* Nothing listed is destroyed; what is out of date is under way, or about to be read again.
Awaited ==
    /\ index \cap gone = {}
    /\ read.at \in {"facts", "apply"} /\ Stale(read) => queued \/ Busy
    /\ read.at = "apply" => Stale(read) \/ read.facts.local = index \/ queued \/ Busy
    /\ read.at = "idle" /\ ~queued /\ ~Busy =>
          /\ facts.local = index /\ view \notin gone
          /\ session /\ (\A f \in fetches : f.generation # generation) =>
                manager[generation].running = Synchronized(Page)

\* No read is of a session to come.
Behind == read.generation \in Nat /\ read.generation <= generation

IInv == Typed /\ Managed /\ Held /\ Awaited /\ Behind
-------------------------------------------------------------------------------
NoneGone == \A p \in Projects : server[p] # "gone"
Complete(list) == list = None \/ \A p \in Projects : \E c \in list : c.id = p
Out == removed \cap Projects
Removing(a) == a.at = "set" /\ a.kind \in {"remove", "delete"}

\* While the server has every project, every list names them all, and no copy is an orphan.
ListsComplete ==
    /\ Complete(fresh) /\ Complete(cached) /\ Complete(facts.list)
    /\ \A f \in fetches : Complete(f.list)
    /\ read.at = "apply" => Complete(read.facts.list)
    /\ ~Detaching

\* Of one action at a time, nothing removed is in what is shown or will be handed to replication.
Kept(a) ==
    LET M == manager[generation] IN
    /\ Out \cap index = {}
    /\ Out \cap facts.local = {} \/ a.at = "refresh" \/ Removing(a)
    /\ read.at = "apply" => Stale(read) \/ Out \cap read.facts.local = {} \/ Removing(a)
    /\ Out \cap a.rows \subseteq {a.project}
    /\ \/ a.at \in {"push", "destroy"}
       \/ a.kind = "restore" /\ a.at \in {"ask", "set"}
       \/ a.kind = "download" /\ a.at = "set"
       => a.project \notin Out
    /\ session => /\ \/ Out \cap M.running = {}
                     \/ Removing(a) /\ Out \cap M.running \subseteq {a.project}
                  /\ a.at \notin {"idle", "refresh"} /\ a.sync # generation => M.running = {}

KeptInv == NoneGone => ListsComplete /\ \A w \in Workers : Kept(act[w])
-------------------------------------------------------------------------------
(* 1. What the rows of a page are.                                              *)

LEMMA EntryIs ==
  ASSUME NEW d \in Databases
  PROVE  /\ Entry(d).db = d
         /\ d \in Projects => d \notin LocalOnly /\ Entry(d).id = d /\ Entry(d).id # None
         /\ d \in LocalOnly => d \notin Projects /\ Entry(d).id = None
BY PageAssumption DEF Entry, Databases

LEMMA InputIs ==
  ASSUME NEW f \in FactsRead
  PROVE  /\ InputOf(f).local = {Entry(d) : d \in f.local}
         /\ InputOf(f).server = f.list
         /\ Heard(InputOf(f)) \subseteq ListedProject
         /\ IsFresh(InputOf(f)) => f.list # None /\ Heard(InputOf(f)) = f.list
BY DEF InputOf, Input, FactsRead, ListsKnown, Heard, IsFresh

\* The row of a database of this device.
LEMMA LocalRowIs ==
  ASSUME NEW f \in FactsRead, NEW d \in f.local
  PROVE  LET row == LocalRow(Entry(d), InputOf(f)) IN
         /\ row.db = d /\ row.id = Entry(d).id
         /\ d \in LocalOnly => row.kind = "local-only"
         /\ d \in Projects => /\ row.kind \in {"synced", "remnant", "orphan"}
                              /\ row.kind = "remnant" => row.archived
         /\ row.kind = "orphan" => f.list # None /\ ~ \E c \in f.list : c.id = d
<1> DEFINE in == InputOf(f)
           e == Entry(d)
           listed == {c \in Heard(in) : Matches(e, c)}
           row == LocalRow(e, in)
<1>1. /\ d \in Databases /\ e.db = d
      /\ d \in Projects => d \notin LocalOnly /\ e.id = d /\ e.id # None
      /\ d \in LocalOnly => d \notin Projects /\ e.id = None
  <2>1. d \in Databases
    BY DEF FactsRead
  <2> QED BY <2>1, EntryIs
<1>2. /\ row.db = d /\ row.id = e.id /\ row.kind = KindOf(e, listed, IsFresh(in))
      /\ row.archived = (\E c \in listed : c.archived)
  BY <1>1 DEF LocalRow
<1>3. \A c \in Heard(in) : c.id \in Projects
  BY InputIs DEF ListedProject
<1>4. d \in LocalOnly => row.kind = "local-only"
  <2> SUFFICES ASSUME d \in LocalOnly PROVE KindOf(e, listed, IsFresh(in)) = "local-only"
    BY <1>2
  <2>1. listed = {}
    BY <1>1, <1>3 DEF Matches
  <2> HIDE DEF listed, in, e
  <2> QED BY <1>1, <2>1 DEF KindOf
<1>5. d \in Projects => /\ row.kind \in {"synced", "remnant", "orphan"}
                        /\ row.kind = "remnant" => row.archived
  <2> SUFFICES ASSUME d \in Projects
               PROVE  LET k == KindOf(e, listed, IsFresh(in))
                      IN  /\ k \in {"synced", "remnant", "orphan"}
                          /\ k = "remnant" => \E c \in listed : c.archived
    BY <1>2
  <2> HIDE DEF listed, in, e
  <2> QED BY <1>1 DEF KindOf
<1>6. row.kind = "orphan" => f.list # None /\ ~ \E c \in f.list : c.id = d
  <2> SUFFICES ASSUME KindOf(e, listed, IsFresh(in)) = "orphan"
               PROVE  f.list # None /\ ~ \E c \in f.list : c.id = d
    BY <1>2
  <2>1. listed = {} /\ IsFresh(in)
    <3> HIDE DEF listed, in, e
    <3> QED BY DEF KindOf
  <2> QED BY <1>1, <2>1, InputIs DEF Matches
<1> QED BY <1>2, <1>4, <1>5, <1>6

\* A row is of a database of this device, or of a project that is not on it.
LEMMA RowIs ==
  ASSUME NEW f \in FactsRead, NEW row \in Rows(InputOf(f))
  PROVE  \/ \E d \in f.local : row = LocalRow(Entry(d), InputOf(f))
         \/ row.kind \in {"server", "grace-archived"} /\ row.db \in Projects
<1> DEFINE in == InputOf(f)
<1>1. CASE \E e \in Finished(in.local) : row = LocalRow(e, in)
  BY <1>1, InputIs DEF Finished
<1>2. ASSUME NEW c \in Heard(in), row = ServerRow(c, in)
      PROVE  row.kind \in {"server", "grace-archived"} /\ row.db \in Projects
  <2>1. c.id \in Projects
    BY InputIs DEF ListedProject
  <2> QED BY <1>2, <2>1 DEF ServerRow
<1> QED BY <1>1, <1>2 DEF Rows

LEMMA RowOfKind ==
  ASSUME NEW f \in FactsRead, NEW row \in Rows(InputOf(f))
  PROVE  /\ row.db \in Databases
         /\ row.kind \notin {"server", "grace-archived"} => row.db \in f.local
         /\ row.kind \in {"server", "synced", "remnant", "orphan"} => row.db \in Projects
         /\ row.kind = "synced" => row.id = row.db
         /\ row.kind # "promoting"
         /\ row.kind = "remnant" => row.archived
         /\ row.kind = "orphan" => f.list # None /\ ~ \E c \in f.list : c.id = row.db
<1>1. CASE row.kind \in {"server", "grace-archived"} /\ row.db \in Projects
  BY <1>1 DEF Databases
<1>2. ASSUME NEW d \in f.local, row = LocalRow(Entry(d), InputOf(f))
      PROVE  /\ row.db = d /\ d \in Databases /\ row.kind \in {"local-only", "synced", "remnant", "orphan"}
             /\ row.kind \in {"synced", "remnant", "orphan"} => d \in Projects
             /\ row.kind = "synced" => row.id = row.db
             /\ row.kind = "remnant" => row.archived
             /\ row.kind = "orphan" => f.list # None /\ ~ \E c \in f.list : c.id = d
  <2>1. d \in Databases /\ (d \in Projects \/ d \in LocalOnly)
    BY DEF FactsRead, Databases
  <2> QED BY <1>2, <2>1, LocalRowIs, EntryIs
<1> QED BY <1>1, <1>2, RowIs

LEMMA SynchronizedHere ==
  ASSUME NEW f \in FactsRead
  PROVE  Synchronized(InputOf(f)) \subseteq f.local \cap Projects
BY RowOfKind DEF Synchronized

LEMMA OrphansHere ==
  ASSUME NEW f \in FactsRead
  PROVE  Orphans(f) \subseteq Projects /\ (Complete(f.list) => Orphans(f) = {})
<1>1. ASSUME NEW row \in DetachableOrphans(InputOf(f))
      PROVE  row \in Rows(InputOf(f)) /\ row.kind = "orphan"
  BY <1>1, RowOfKind DEF DetachableOrphans
<1> QED BY <1>1, RowOfKind DEF Orphans, Complete

LEMMA ResolvedHere ==
  ASSUME NEW f \in FactsRead, NEW choice, NEW target \in Resolve(choice, InputOf(f), Home)
  PROVE  target.db \in f.local \cup {Home}
<1> DEFINE here == {row \in Rows(InputOf(f)) : row.kind \notin {"server", "grace-archived"}}
<1>1. \A row \in here : row.db \in f.local
  BY RowOfKind
<1>2. \/ \E row \in here : target = [db |-> row.db, editable |-> row.editable]
      \/ target = [db |-> Home, editable |-> TRUE]
  BY DEF Resolve
<1> HIDE DEF here
<1> QED BY <1>1, <1>2

LEMMA ElsewhereHere ==
  ASSUME facts \in FactsRead, NEW d
  PROVE  Elsewhere(d) \subseteq facts.local \cup {Home}
<1> DEFINE here == {row \in Rows(Page) : row.db # d /\ row.kind \notin {"server", "grace-archived"}}
           local == {row \in here : row.id = None}
<1>1. \A row \in here : row.db \in facts.local
  BY RowOfKind DEF Page
<1> QED BY <1>1 DEF Elsewhere

\* What a page offers of a row.
LEMMA OfferedIs ==
  ASSUME facts \in FactsRead, NEW d, NEW row \in RowsOf(d)
  PROVE  /\ d \in Databases
         /\ MayDownload(Page, row) => d \in Projects
         /\ MayRemoveLocal(Page, row) => d \in Projects /\ d \in facts.local
         /\ MayDeleteLocal(row) => d \in facts.local
         /\ MayRemoveServer(Page, row) => d \in Projects
         /\ MayRestore(Page, row) => d \in Projects /\ d \in facts.local
<1>1. row \in Rows(InputOf(facts)) /\ row.db = d
  BY DEF RowsOf, Page
<1> QED BY <1>1, RowOfKind DEF MayDownload, MayRemoveLocal, MayDeleteLocal, MayRemoveServer, MayRestore
-------------------------------------------------------------------------------
(* 2. The pieces the steps are made of.                                         *)

LEMMA SessionNow ==
  ASSUME Typed
  PROVE  /\ generation \in Generations /\ manager[generation] \in Manager
         /\ Sync \in 0..(MaxTurns + 1) /\ (Sync = 0 <=> ~session) /\ (session => Sync = generation)
         /\ session => generation + 1 \in Generations
BY PageAssumption, SMT DEF Typed, Sync, Generations

LEMMA OfIs ==
  ASSUME Typed, NEW g \in 0..(MaxTurns + 1)
  PROVE  Of(g) \in Manager
BY PageAssumption DEF Typed, Of, Manager, Quit, Generations

LEMMA WithIs ==
  ASSUME Typed, NEW g \in 0..(MaxTurns + 1), NEW m \in Manager
  PROVE  /\ With(g, m) \in [Generations -> Manager]
         /\ \A h \in Generations : With(g, m)[h] = IF h = g THEN m ELSE manager[h]
BY PageAssumption DEF Typed, With, Generations

LEMMA SetToIs ==
  ASSUME NEW m \in Manager, NEW wanted \in SUBSET Projects
  PROVE  /\ SetTo(m, wanted) \in Manager
         /\ SetTo(m, wanted).running \subseteq wanted
         /\ SetTo(m, wanted).known = wanted /\ SetTo(m, wanted).suspended = m.suspended
         /\ m.suspended = {} => SetTo(m, wanted).running = wanted
BY DEF SetTo, Manager

LEMMA SuspendIs ==
  ASSUME NEW m \in Manager, NEW p \in Projects
  PROVE  /\ Suspend(m, p) \in Manager
         /\ Suspend(m, p).running = m.running \ {p}
         /\ Suspend(m, p).suspended = m.suspended \cup {p}
BY DEF Suspend, Manager

LEMMA ResumeIs ==
  ASSUME NEW m \in Manager, NEW p
  PROVE  /\ Resume(m, p) \in Manager
         /\ m.running \subseteq Resume(m, p).running
         /\ Resume(m, p).running \subseteq m.running \cup ({p} \cap m.known)
         /\ Resume(m, p).suspended = m.suspended \ {p}
<1>1. CASE p \notin m.suspended
  BY <1>1 DEF Resume, Manager
<1>2. CASE p \in m.suspended
  <2>1. Resume(m, p) = [m EXCEPT !.suspended = @ \ {p}, !.running = @ \cup ({p} \cap m.known)]
    BY <1>2 DEF Resume
  <2> QED BY <2>1 DEF Manager
<1> QED BY <1>1, <1>2

LEMMA SpannedIs ==
  ASSUME Turn(read)
  PROVE  /\ Turn(Spanned) /\ Spanned.at = read.at /\ Spanned.generation = read.generation
         /\ Spanned.facts = read.facts /\ Spanned.todo = read.todo
         /\ Spanned.current = read.current /\ Spanned.detached = read.detached
         /\ read.at # "idle" => Spanned.spanned
BY DEF Turn, Spanned

LEMMA NoReadIs == Turn(NoRead)
BY DEF Turn, NoRead

LEMMA ListIs ==
  ASSUME Typed
  PROVE  ServerList \in ListsKnown
<1>1. ASSUME NEW p \in Projects
      PROVE  [id |-> p, role |-> RoleOf(p), archived |-> server[p] = "archived",
              readOnly |-> FALSE, grace |-> FALSE] \in ListedProject
  BY DEF ListedProject, RoleOf
<1>2. ServerList \subseteq ListedProject
  BY <1>1, Zenon DEF ServerList
<1> QED BY <1>2 DEF ListsKnown

LEMMA WantedIs ==
  ASSUME NEW a \in Action, a.project \in Projects
  PROVE  Wanted(a) \in SUBSET Projects
BY DEF Wanted, Action

LEMMA NoActIs ==
  /\ NoAct \in Action /\ NoAct.kind = "none" /\ NoAct.at = "idle" /\ NoAct.sync = 0 /\ NoAct.rows = {}
<1>1. 0 \in 0..(MaxTurns + 1) /\ {} \in SUBSET Projects /\ None \in Databases \cup {None}
  BY PageAssumption
<1> QED BY <1>1 DEF Action, NoAct

\* An action begins: it alone changes, and what was read before is stale.
LEMMA StartIs ==
  ASSUME Typed, NEW w \in Workers, NEW kind \in {"download", "remove", "delete", "archive", "restore", "signOut"},
         NEW d \in Databases \cup {None}, NEW at \in {"list", "push", "destroy", "ask", "check"},
         Start(w, kind, d, at)
  PROVE  /\ turns' \in 0..MaxTurns /\ turns' = turns + 1
         /\ act' \in [Workers -> Action]
         /\ \A v \in Workers \ {w} : act'[v] = act[v]
         /\ act'[w].kind = kind /\ act'[w].project = d /\ act'[w].at = at /\ act'[w].sync = Sync
         /\ act'[w].rows = Synchronized(Page)
         /\ read' = Spanned /\ Turn(read')
<1>1. turns' \in 0..MaxTurns /\ turns' = turns + 1
  BY PageAssumption DEF Typed, Start
<1>2. Sync \in 0..(MaxTurns + 1) /\ Synchronized(Page) \in SUBSET Projects
  BY SessionNow, SynchronizedHere DEF Page, Typed
<1> DEFINE left == view = d
           rows == Synchronized(Page)
           a == [NoAct EXCEPT !.kind = kind, !.project = d, !.at = at, !.sync = Sync,
                              !.rows = rows, !.left = left]
<1>a. left \in BOOLEAN
  OBVIOUS
<1>3. act' = [act EXCEPT ![w] = a]
  BY DEF Start
<1> HIDE DEF left
<1>4. /\ a \in Action /\ a.kind = kind /\ a.project = d /\ a.at = at /\ a.sync = Sync
      /\ a.rows = rows
  <2>1. rows \in SUBSET Projects
    BY <1>2
  <2> HIDE DEF rows
  <2> DEFINE K == {"none", "download", "remove", "delete", "archive", "restore", "signOut"}
             S == {"idle", "refresh", "list", "push", "destroy", "ask", "set", "check", "clear"}
  <2>2. Action = [kind : K, project : Databases \cup {None}, at : S, sync : 0..(MaxTurns + 1),
                  rows : SUBSET Projects, left : BOOLEAN]
    BY Zenon DEF Action
  <2>3. kind \in K /\ at \in S
    OBVIOUS
  <2>4. NoAct \in Action
    BY NoActIs, Zenon
  <2> HIDE DEF K, S
  <2> QED BY <1>2, <1>a, <2>1, <2>2, <2>3, <2>4
<1> HIDE DEF a
<1>5. act \in [Workers -> Action]
  BY DEF Typed
<1>6. read' = Spanned /\ Turn(read')
  BY SpannedIs DEF Typed, Start
<1>7. act'[w] = a /\ act' \in [Workers -> Action] /\ \A v \in Workers \ {w} : act'[v] = act[v]
  BY <1>3, <1>4, <1>5
<1> QED BY <1>1, <1>4, <1>6, <1>7

LEMMA GotoIs ==
  ASSUME Typed, NEW w \in Workers, NEW at \in {"set", "destroy", "clear"}, Goto(w, at)
  PROVE  /\ turns' = turns /\ act' \in [Workers -> Action]
         /\ \A v \in Workers \ {w} : act'[v] = act[v]
         /\ act'[w].kind = act[w].kind /\ act'[w].project = act[w].project /\ act'[w].at = at
         /\ act'[w].sync = act[w].sync /\ act'[w].rows = act[w].rows
<1>1. act \in [Workers -> Action] /\ act' = [act EXCEPT ![w].at = at] /\ turns' = turns
  BY DEF Typed, Goto
<1> QED BY <1>1 DEF Action

\* An action lets go: what was read is stale, and a read is queued, or others still run.
LEMMA LetGoIs ==
  ASSUME Typed, NEW w \in Workers, NEW fetch \in BOOLEAN, LetGo(w, fetch)
  PROVE  /\ turns' = turns /\ act' \in [Workers -> Action]
         /\ \A v \in Workers \ {w} : act'[v] = act[v]
         /\ act'[w] = IF fetch THEN [NoAct EXCEPT !.at = "refresh"] ELSE NoAct
         /\ act'[w].at \in {"idle", "refresh"} /\ act'[w].sync = 0 /\ act'[w].rows = {}
         /\ act'[w].kind = "none"
         /\ read' = Spanned /\ Turn(read')
         /\ fetches' = IF fetch /\ session THEN Fetch ELSE fetches
         /\ queued' \in BOOLEAN /\ (queued => queued') /\ (queued' \/ Busy' \/ Detaching)
<1> DEFINE a == IF fetch THEN [NoAct EXCEPT !.at = "refresh"] ELSE NoAct
<1>1. a \in Action /\ a.at \in {"idle", "refresh"} /\ a.sync = 0 /\ a.rows = {} /\ a.kind = "none"
  <2>1. CASE fetch
    BY <2>1, NoActIs DEF Action
  <2>2. CASE ~fetch
    BY <2>2, NoActIs
  <2> QED BY <2>1, <2>2
<1>2. act \in [Workers -> Action] /\ act' = [act EXCEPT ![w] = a] /\ turns' = turns
  BY DEF Typed, LetGo
<1>3. read' = Spanned /\ Turn(read') /\ fetches' = IF fetch /\ session THEN Fetch ELSE fetches
  BY SpannedIs DEF Typed, LetGo
<1>4. queued' \in BOOLEAN /\ (queued => queued')
  BY DEF Typed, LetGo
<1>5. queued' \/ Busy' \/ Detaching
  <2>1. CASE \A v \in Workers \ {w} : ~Running(v)
    BY <2>1 DEF LetGo
  <2>2. CASE \E v \in Workers \ {w} : Running(v)
    BY <1>2, <2>2 DEF Busy, Running
  <2> QED BY <2>1, <2>2
<1> HIDE DEF a
<1>6. act'[w] = a /\ act' \in [Workers -> Action] /\ \A v \in Workers \ {w} : act'[v] = act[v]
  BY <1>1, <1>2
<1> QED BY <1>1, <1>2, <1>3, <1>4, <1>5, <1>6 DEF a

LEMMA FetchIs ==
  ASSUME Typed
  PROVE  Fetch \subseteq [generation : Nat, list : ListsKnown]
BY DEF Typed, Fetch, ListsKnown
-------------------------------------------------------------------------------
(* 3. Every variable keeps its type.                                            *)

LEMMA EndIs ==
  ASSUME Typed, EndSession
  PROVE  /\ session' = FALSE /\ fresh' = None /\ undetached' = {}
         /\ generation' \in Nat \ {0} /\ generation' <= turns + 1 /\ generation' >= generation
         /\ session => generation' = generation + 1 /\ manager' = With(generation, Quit)
         /\ ~session => generation' = generation /\ manager' = manager
         /\ manager' \in [Generations -> Manager]
<1>1. Quit \in Manager
  BY DEF Quit, Manager
<1>2. With(Sync, Quit) \in [Generations -> Manager]
  BY <1>1, SessionNow, WithIs
<1>3. generation \in Nat \ {0} /\ generation <= turns + (IF session THEN 0 ELSE 1) /\ turns \in Nat
  BY PageAssumption DEF Typed
<1>4. session \in BOOLEAN
  BY DEF Typed
<1>5. CASE session
  BY <1>2, <1>3, <1>5, SMT DEF EndSession, Sync
<1>6. CASE ~session
  BY <1>2, <1>3, <1>6, SMT DEF EndSession, Sync, With
<1> QED BY <1>4, <1>5, <1>6

LEMMA AppliedIs ==
  ASSUME Typed, NEW f \in FactsRead, Home \in f.local \/ Home \in Databases, Apply(f)
  PROVE  /\ view' \in Databases /\ manager' \in [Generations -> Manager]
         /\ Busy => view' = view /\ manager' = manager
         /\ ~Busy => /\ view' \in f.local \cup {Home}
                     /\ manager' = With(Sync, SetTo(Of(Sync), Synchronized(InputOf(f))))
<1>1. SetTo(Of(Sync), Synchronized(InputOf(f))) \in Manager
  BY SetToIs, OfIs, SessionNow, SynchronizedHere
<1>2. With(Sync, SetTo(Of(Sync), Synchronized(InputOf(f)))) \in [Generations -> Manager]
  BY <1>1, WithIs, SessionNow
<1>3. CASE Busy
  BY <1>3 DEF Apply, Typed
<1>4. CASE ~Busy
  <2>1. PICK target \in Resolve(view, InputOf(f), Home) : view' = target.db
    BY <1>4 DEF Apply
  <2>2. view' \in f.local \cup {Home}
    BY <2>1, ResolvedHere
  <2>3. view' \in Databases
    BY <2>2 DEF FactsRead
  <2> QED BY <1>2, <1>4, <2>2, <2>3 DEF Apply
<1> QED BY <1>3, <1>4

LEMMA TypedReading ==
  ASSUME Typed, Reading
  PROVE  Typed'
<1> USE DEF session_vars, action_vars, history, shown_vars, list_vars
<1>0. Home \in Databases /\ None \notin Projects /\ Turn(NoRead) /\ RescuedAs \in [Projects -> LocalOnly]
  BY PageAssumption, NoReadIs DEF Databases
<1>1. CASE ReadBegins
  <2>1. Turn(read')
    BY <1>1, NoReadIs DEF ReadBegins, Turn, NoRead
  <2>2. UNCHANGED <<server, index, session, generation, manager, fresh, undetached, cached,
                    facts, view, fetches, act, turns, gone, removed>>
    BY <1>1 DEF ReadBegins
  <2>3. queued' \in BOOLEAN
    BY <1>1, Zenon DEF ReadBegins
  <2> QED BY <2>1, <2>2, <2>3, SMT DEF Typed
<1>2. CASE ReadFacts
  <2>1. Turn(read) /\ read.at = "facts" /\ fresh \in ListsKnown /\ cached \in ListsKnown /\ index \in SUBSET Databases
    BY <1>2 DEF Typed, ReadFacts
  <2> DEFINE list == IF session THEN fresh ELSE None
             f == [local |-> index, stale |-> list = None,
                   list |-> IF list # None THEN list ELSE IF cached = {} THEN None ELSE cached]
  <2>2. f \in FactsRead
    BY <2>1 DEF FactsRead, ListsKnown
  <2>3. read' = [read EXCEPT !.at = "apply", !.facts = f]
    BY <1>2 DEF ReadFacts
  <2> HIDE DEF f
  <2>4. Turn(read')
    BY <2>1, <2>2, <2>3 DEF Turn
  <2> QED BY <1>2, <2>4, SMT DEF Typed, ReadFacts
<1>3. CASE ReadShows
  <2>1. CASE Stale(read)
    BY <1>0, <1>3, <2>1, SMT DEF Typed, ReadShows
  <2>2. CASE ~Stale(read)
    <3>1. Turn(read) /\ read.at = "apply" /\ read.facts \in FactsRead
      BY <1>3 DEF Typed, ReadShows, Turn
    <3>2. CASE Orphans(read.facts) # {}
      <4>1. Orphans(read.facts) \subseteq Projects
        BY <3>1, OrphansHere
      <4>2. Turn(read')
        BY <1>3, <2>2, <3>1, <3>2, <4>1 DEF ReadShows, Turn
      <4> QED BY <1>3, <2>2, <3>1, <3>2, <4>2, SMT DEF Typed, ReadShows
    <3>3. CASE Orphans(read.facts) = {}
      <4>1. PICK f : f = read.facts
        OBVIOUS
      <4>2. f \in FactsRead /\ Apply(f)
        BY <1>3, <2>2, <3>1, <3>3, <4>1 DEF ReadShows
      <4>3. view' \in Databases /\ manager' \in [Generations -> Manager]
        BY <1>0, <4>2, AppliedIs
      <4> QED BY <1>0, <1>3, <2>2, <3>1, <3>3, <4>3, SMT DEF Typed, ReadShows
    <3> QED BY <3>2, <3>3
  <2> QED BY <2>1, <2>2
<1>4. ASSUME NEW d \in Projects, DetachBegins(d) PROVE Typed'
  <2>1. Turn(read) /\ read.at = "detach"
    BY <1>4 DEF Typed, DetachBegins
  <2>2. Turn(read')
    BY <1>4, <2>1 DEF DetachBegins, Turn
  <2>3. manager' \in [Generations -> Manager]
    BY <1>4, WithIs, SuspendIs, OfIs, SessionNow DEF DetachBegins
  <2> QED BY <1>4, <2>2, <2>3, SMT DEF Typed, DetachBegins
<1>5. CASE DetachDone
  <2>1. Turn(read) /\ read.at = "detach" /\ read.current \in Projects
    BY <1>5 DEF Typed, DetachDone, Turn
  <2>2. Turn(read')
    BY <1>0, <1>5, <2>1 DEF DetachDone, Turn
  <2>3. RescuedAs[read.current] \in Databases /\ read.current # Home
    BY <2>1, PageAssumption DEF Databases
  <2> QED BY <1>5, <2>2, <2>3, SMT DEF Typed, DetachDone
<1>6. CASE DetachFails
  <2>1. Turn(read) /\ read.at = "detach" /\ read.current \in Projects
    BY <1>6 DEF Typed, DetachFails, Turn
  <2>2. Turn(read')
    BY <1>0, <1>6, <2>1 DEF DetachFails, Turn
  <2> QED BY <1>6, <2>1, <2>2, SMT DEF Typed, DetachFails
<1>7. CASE DetachResumes
  <2>1. Turn(read) /\ read.at = "detached" /\ read.current \in Projects
    BY <1>7 DEF Typed, DetachResumes, Turn
  <2>2. Turn(read')
    BY <1>0, <1>7, <2>1 DEF DetachResumes, Turn
  <2>3. manager' \in [Generations -> Manager]
    BY <1>7, <2>1, WithIs, ResumeIs, OfIs, SessionNow DEF DetachResumes
  <2> QED BY <1>7, <2>2, <2>3, SMT DEF Typed, DetachResumes
<1>8. CASE DetachEnds
  <2>1. view' \in Databases /\ manager' \in [Generations -> Manager]
    <3>1. CASE read.detached
      BY <1>8, <3>1 DEF Typed, DetachEnds
    <3>2. CASE ~read.detached
      <4>1. PICK f : f = facts
        OBVIOUS
      <4>2. f \in FactsRead /\ Apply(f)
        BY <1>8, <3>2, <4>1 DEF Typed, DetachEnds
      <4> QED BY <1>0, <4>2, AppliedIs
    <3> QED BY <3>1, <3>2
  <2> QED BY <1>0, <1>8, <2>1, SMT DEF Typed, DetachEnds
<1> QED BY <1>1, <1>2, <1>3, <1>4, <1>5, <1>6, <1>7, <1>8 DEF Reading

LEMMA TypedEnvironment ==
  ASSUME Typed, Environment
  PROVE  Typed'
<1> USE DEF session_vars, action_vars, history, shown_vars, list_vars
<1>1. ASSUME NEW p \in Projects, ServerMoves(p) PROVE Typed'
  BY <1>1, PageAssumption, SMT DEF Typed, ServerMoves
<1>2. CASE Regains
  BY <1>2, FetchIs, SMT DEF Typed, Regains
<1>3. CASE SignIn
  BY <1>3, FetchIs, PageAssumption, SMT DEF Typed, SignIn
<1>4. CASE Expires
  <2>1. /\ ~session' /\ fresh' = None /\ undetached' = {}
        /\ generation' \in Nat \ {0} /\ generation' <= turns + 1
        /\ manager' \in [Generations -> Manager]
    BY <1>4, EndIs DEF Expires
  <2>2. None \in ListsKnown
    BY DEF ListsKnown
  <2>3. queued' \in BOOLEAN /\ session' \in BOOLEAN
    BY <1>4, Zenon DEF Expires, EndSession
  <2>4. UNCHANGED <<server, index, cached, facts, view, fetches, read, act, turns, gone, removed>>
    BY <1>4 DEF Expires
  <2> QED BY <2>1, <2>2, <2>3, <2>4, SMT DEF Typed
<1>5. ASSUME NEW f \in fetches, Answered(f) PROVE Typed'
  <2>1. [f EXCEPT !.list = ServerList] \in [generation : Nat, list : ListsKnown]
    BY ListIs DEF Typed
  <2> QED BY <1>5, <2>1, SMT DEF Typed, Answered
<1>6. ASSUME NEW f \in fetches, Lands(f) PROVE Typed'
  <2>1. f.list \in ListsKnown
    BY DEF Typed
  <2>2. /\ cached' \in ListsKnown /\ fresh' \in ListsKnown /\ undetached' \subseteq Projects
        /\ queued' \in BOOLEAN /\ fetches' \subseteq [generation : Nat, list : ListsKnown]
    <3>1. CASE f.generation = generation
      BY <1>6, <2>1, <3>1 DEF Typed, Lands
    <3>2. CASE f.generation # generation
      BY <1>6, <2>1, <3>2 DEF Typed, Lands
    <3> QED BY <3>1, <3>2
  <2> QED BY <1>6, <2>2, SMT DEF Typed, Lands
<1> QED BY <1>1, <1>2, <1>3, <1>4, <1>5, <1>6 DEF Environment

\* Where the views go when what they show is destroyed.
LEMMA LeftIs ==
  ASSUME Typed, NEW d, Leave(d)
  PROVE  view' = view \/ view' \in facts.local \cup {Home}
BY ElsewhereHere DEF Leave, Typed

LEMMA TypedChoosing ==
  ASSUME Typed, NEW w \in Workers, Choosing(w)
  PROVE  Typed'
<1> USE DEF session_vars, history, shown_vars, list_vars
<1>0. /\ facts \in FactsRead /\ facts.local \subseteq Databases /\ Home \in Databases
      /\ generation <= turns + (IF session THEN 0 ELSE 1) /\ generation \in Nat /\ turns \in Nat
      /\ \A v \in Workers : ActShape(act[v])
      /\ view \in Databases /\ manager \in [Generations -> Manager]
  BY PageAssumption DEF Typed, FactsRead, Databases
<1>a. ASSUME NEW kind \in {"download", "remove", "delete", "archive", "restore", "signOut"},
             NEW d \in Databases \cup {None}, NEW at \in {"list", "push", "destroy", "ask", "check"},
             Start(w, kind, d, at),
             kind \in {"download", "remove", "archive", "restore"} => d \in Projects,
             kind = "delete" => d \in Databases \ {Home},
             \/ <<kind, at>> \in {<<"download", "list">>, <<"remove", "push">>, <<"delete", "destroy">>}
             \/ <<kind, at>> \in {<<"archive", "ask">>, <<"restore", "ask">>, <<"signOut", "check">>},
             view' \in Databases, manager' \in [Generations -> Manager],
             UNCHANGED <<server, index, session_vars, list_vars, facts, fetches, queued, history>>
      PROVE  Typed'
  <2>1. /\ turns' \in 0..MaxTurns /\ turns' = turns + 1 /\ act' \in [Workers -> Action] /\ Turn(read')
        /\ \A v \in Workers \ {w} : act'[v] = act[v]
        /\ act'[w].kind = kind /\ act'[w].project = d /\ act'[w].at = at
    BY <1>a, StartIs
  <2>2. ActShape(act'[w])
    BY <1>a, <2>1, PageAssumption DEF ActShape, Databases
  <2>3. \A v \in Workers : ActShape(act'[v])
    BY <1>0, <2>1, <2>2
  <2>4. generation' \in Nat \ {0} /\ generation' <= turns' + (IF session' THEN 0 ELSE 1)
    <3>1. CASE session
      BY <1>0, <1>a, <2>1, <3>1 DEF Typed
    <3>2. CASE ~session
      BY <1>0, <1>a, <2>1, <3>2 DEF Typed
    <3> QED BY <3>1, <3>2
  <2> QED BY <1>a, <2>1, <2>3, <2>4, Zenon DEF Typed
<1>1. ASSUME NEW d \in Databases, Download(w, d) PROVE Typed'
  <2>1. d \in Projects /\ Start(w, "download", d, "list")
    BY <1>0, <1>1, OfferedIs DEF Download
  <2> QED BY <1>0, <1>1, <1>a, <2>1 DEF Download
<1>2. ASSUME NEW d \in Databases, RemoveLocal(w, d) PROVE Typed'
  <2>1. d \in Projects /\ Start(w, "remove", d, "push") /\ Leave(d)
    BY <1>0, <1>2, OfferedIs DEF RemoveLocal
  <2>2. view' \in Databases
    BY <1>0, <2>1, LeftIs
  <2>3. manager' \in [Generations -> Manager]
    BY <1>2, <2>1, WithIs, SuspendIs, OfIs, SessionNow DEF RemoveLocal
  <2> QED BY <1>2, <1>a, <2>1, <2>2, <2>3 DEF RemoveLocal
<1>3. ASSUME NEW d \in Databases, DeleteLocal(w, d) PROVE Typed'
  <2>1. d \in Databases \ {Home} /\ Start(w, "delete", d, "destroy") /\ Leave(d)
    BY <1>3 DEF DeleteLocal
  <2>2. view' \in Databases
    BY <1>0, <2>1, LeftIs
  <2>3. manager' \in [Generations -> Manager]
    <3>1. CASE d \in Projects
      BY <1>3, <3>1, WithIs, SuspendIs, OfIs, SessionNow DEF DeleteLocal
    <3>2. CASE d \notin Projects
      BY <1>0, <1>3, <3>2 DEF DeleteLocal
    <3> QED BY <3>1, <3>2
  <2> QED BY <1>3, <1>a, <2>1, <2>2, <2>3 DEF DeleteLocal
<1>4. ASSUME NEW d \in Databases, RemoveServer(w, d) PROVE Typed'
  <2>1. d \in Projects /\ Start(w, "archive", d, "ask")
    BY <1>0, <1>4, OfferedIs DEF RemoveServer
  <2> QED BY <1>0, <1>4, <1>a, <2>1 DEF RemoveServer
<1>5. ASSUME NEW d \in Databases, Restore(w, d) PROVE Typed'
  <2>1. d \in Projects /\ Start(w, "restore", d, "ask")
    BY <1>0, <1>5, OfferedIs DEF Restore
  <2> QED BY <1>0, <1>5, <1>a, <2>1 DEF Restore
<1>6. CASE SignOut(w)
  BY <1>0, <1>6, <1>a DEF SignOut
<1> QED BY <1>1, <1>2, <1>3, <1>4, <1>5, <1>6 DEF Choosing

LEMMA TypedActing ==
  ASSUME Typed, NEW w \in Workers, Acting(w)
  PROVE  Typed'
<1> USE DEF session_vars, action_vars, history, shown_vars, list_vars
<1>0. /\ act[w] \in Action /\ ActShape(act[w]) /\ \A v \in Workers : ActShape(act[v])
      /\ Home \in Databases
  BY PageAssumption DEF Typed, Databases
<1>a. ASSUME NEW at \in {"set", "destroy", "clear"}, Goto(w, at),
             at = "set" => act[w].at \in {"list", "destroy", "ask"},
             at = "destroy" => act[w].at = "push", at = "clear" => act[w].at = "check"
      PROVE  /\ turns' = turns /\ act' \in [Workers -> Action]
             /\ \A v \in Workers : ActShape(act'[v])
  <2>1. /\ turns' = turns /\ act' \in [Workers -> Action]
        /\ \A v \in Workers \ {w} : act'[v] = act[v]
        /\ act'[w].kind = act[w].kind /\ act'[w].project = act[w].project /\ act'[w].at = at
    BY <1>a, GotoIs
  <2>2. ActShape(act'[w])
    BY <1>0, <1>a, <2>1, PageAssumption DEF ActShape, Databases
  <2> QED BY <1>0, <2>1, <2>2
<1>b. ASSUME NEW fetch \in BOOLEAN, LetGo(w, fetch)
      PROVE  /\ turns' = turns /\ act' \in [Workers -> Action] /\ queued' \in BOOLEAN
             /\ \A v \in Workers : ActShape(act'[v])
             /\ Turn(read') /\ fetches' \subseteq [generation : Nat, list : ListsKnown]
  <2>1. /\ turns' = turns /\ act' \in [Workers -> Action] /\ queued' \in BOOLEAN
        /\ \A v \in Workers \ {w} : act'[v] = act[v] /\ act'[w].at \in {"idle", "refresh"}
        /\ Turn(read') /\ fetches' = IF fetch /\ session THEN Fetch ELSE fetches
    BY <1>b, LetGoIs
  <2>2. ActShape(act'[w])
    BY <1>b, LetGoIs DEF ActShape
  <2>3. fetches' \subseteq [generation : Nat, list : ListsKnown]
    BY <2>1, FetchIs DEF Typed
  <2>4. \A v \in Workers : ActShape(act'[v])
    BY <1>0, <1>b, <2>2, LetGoIs
  <2> QED BY <2>1, <2>3, <2>4
<1>1. CASE Lists(w)
  <2>1. act[w].project \in Projects /\ Goto(w, "set")
    BY <1>0, <1>1 DEF Lists, ActShape
  <2>2. turns' = turns /\ act' \in [Workers -> Action] /\ \A v \in Workers : ActShape(act'[v])
    BY <1>1, <1>a, <2>1 DEF Lists
  <2> QED BY <1>1, <2>1, <2>2, SMT DEF Typed, Lists, Databases
<1>2. CASE Pushes(w)
  <2>1. turns' = turns /\ act' \in [Workers -> Action] /\ \A v \in Workers : ActShape(act'[v])
    BY <1>2, <1>a DEF Pushes
  <2> QED BY <1>2, <2>1, SMT DEF Typed, Pushes
<1>3. CASE Refused(w)
  <2>1. /\ act[w].project \in Databases /\ LetGo(w, FALSE) /\ act[w].sync \in 0..(MaxTurns + 1)
    BY <1>0, <1>3 DEF Refused, ActShape, Action, Databases
  <2>2. /\ turns' = turns /\ act' \in [Workers -> Action] /\ queued' \in BOOLEAN
        /\ \A v \in Workers : ActShape(act'[v])
        /\ Turn(read') /\ fetches' \subseteq [generation : Nat, list : ListsKnown]
    BY <1>b, <2>1
  <2>3. manager' \in [Generations -> Manager]
    BY <1>3, <2>1, WithIs, ResumeIs, OfIs DEF Refused
  <2>4. view' \in Databases
    BY <1>3, <2>1 DEF Typed, Refused, Databases
  <2> QED BY <1>3, <2>2, <2>3, <2>4, SMT DEF Typed, Refused
<1>4. CASE Destroys(w)
  <2>1. act[w].project \in Databases \ {Home} /\ Goto(w, "set")
    BY <1>0, <1>4 DEF Destroys, ActShape
  <2>2. turns' = turns /\ act' \in [Workers -> Action] /\ \A v \in Workers : ActShape(act'[v])
    BY <1>4, <1>a, <2>1 DEF Destroys
  <2> QED BY <1>4, <2>1, <2>2, SMT DEF Typed, Destroys
<1>5. CASE Patches(w)
  <2>1. turns' = turns /\ act' \in [Workers -> Action] /\ \A v \in Workers : ActShape(act'[v])
    BY <1>5, <1>a DEF Patches
  <2>2. server' \in [Projects -> {"active", "archived", "gone"}]
    BY <1>5 DEF Patches, Typed
  <2> QED BY <1>5, <2>1, <2>2, SMT DEF Typed, Patches
<1>6. CASE Fails(w)
  <2>1. LetGo(w, FALSE)
    BY <1>6 DEF Fails
  <2>2. /\ turns' = turns /\ act' \in [Workers -> Action] /\ queued' \in BOOLEAN
        /\ \A v \in Workers : ActShape(act'[v])
        /\ Turn(read') /\ fetches' \subseteq [generation : Nat, list : ListsKnown]
    BY <1>b, <2>1
  <2> QED BY <1>6, <2>2, SMT DEF Typed, Fails
<1>7. CASE Sets(w)
  <2>1. LetGo(w, TRUE) /\ act[w].project \in Databases /\ act[w].sync \in 0..(MaxTurns + 1)
    BY <1>0, <1>7 DEF Sets, ActShape, Action
  <2>2. /\ turns' = turns /\ act' \in [Workers -> Action] /\ queued' \in BOOLEAN
        /\ \A v \in Workers : ActShape(act'[v])
        /\ Turn(read') /\ fetches' \subseteq [generation : Nat, list : ListsKnown]
    BY <1>b, <2>1
  <2>3. manager' \in [Generations -> Manager]
    <3>1. CASE act[w].project \in LocalOnly
      BY <1>7, <3>1 DEF Sets, Typed
    <3>2. CASE act[w].project \notin LocalOnly
      <4>1. act[w].project \in Projects
        BY <2>1, <3>2 DEF Databases
      <4>2. Resume(SetTo(Of(act[w].sync), Wanted(act[w])), act[w].project) \in Manager
        BY <1>0, <2>1, <4>1, WantedIs, SetToIs, ResumeIs, OfIs
      <4> QED BY <1>7, <2>1, <3>2, <4>2, WithIs DEF Sets
    <3> QED BY <3>1, <3>2
  <2> QED BY <1>7, <2>2, <2>3, SMT DEF Typed, Sets
<1>8. CASE Declined(w)
  <2>1. LetGo(w, FALSE)
    BY <1>8 DEF Declined
  <2>2. /\ turns' = turns /\ act' \in [Workers -> Action] /\ queued' \in BOOLEAN
        /\ \A v \in Workers : ActShape(act'[v])
        /\ Turn(read') /\ fetches' \subseteq [generation : Nat, list : ListsKnown]
    BY <1>b, <2>1
  <2> QED BY <1>8, <2>2, SMT DEF Typed, Declined
<1>9. CASE Ends(w)
  <2>1. turns' = turns /\ act' \in [Workers -> Action] /\ \A v \in Workers : ActShape(act'[v])
    BY <1>9, <1>a DEF Ends
  <2>2. /\ ~session' /\ fresh' = None /\ undetached' = {}
        /\ generation' \in Nat \ {0} /\ generation' <= turns + 1
        /\ manager' \in [Generations -> Manager]
    BY <1>9, EndIs DEF Ends
  <2>3. session' \in BOOLEAN
    BY <1>9, Zenon DEF Ends, EndSession
  <2>4. None \in ListsKnown
    BY DEF ListsKnown
  <2>5. UNCHANGED <<server, index, cached, facts, view, fetches, queued, read, gone, removed>>
    BY <1>9 DEF Ends
  <2> QED BY <2>1, <2>2, <2>3, <2>4, <2>5, SMT DEF Typed
<1>10. CASE Clears(w)
  <2>1. act' = [act EXCEPT ![w] = NoAct] /\ turns' = turns /\ read' = Spanned
    BY <1>10 DEF Clears
  <2>2. act' \in [Workers -> Action] /\ ActShape(act'[w]) /\ \A v \in Workers : ActShape(act'[v])
    BY <1>0, <2>1, NoActIs DEF Typed, ActShape
  <2>3. Turn(read') /\ queued' \in BOOLEAN
    <3>1. Turn(read')
      BY <2>1, SpannedIs DEF Typed
    <3>2. queued' \in BOOLEAN
      BY <1>10, Zenon DEF Clears
    <3> QED BY <3>1, <3>2
  <2>4. Home \notin Projects /\ None \in ListsKnown
    BY PageAssumption DEF ListsKnown
  <2>5. /\ index' = index \ Projects /\ gone' = gone \cup (index \cap Projects) /\ cached' = None
        /\ fetches' = {}
        /\ UNCHANGED <<server, session, generation, manager, fresh, undetached, facts, view, removed>>
    BY <1>10 DEF Clears
  <2> QED BY <2>1, <2>2, <2>3, <2>4, <2>5, SMT DEF Typed
<1>11. CASE Refreshed(w)
  <2>1. act' = [act EXCEPT ![w] = NoAct] /\ turns' = turns
    BY <1>11 DEF Refreshed
  <2>2. act' \in [Workers -> Action] /\ ActShape(act'[w]) /\ \A v \in Workers : ActShape(act'[v])
    BY <1>0, <2>1, NoActIs DEF Typed, ActShape
  <2> QED BY <1>11, <2>1, <2>2, SMT DEF Typed, Refreshed
<1> QED BY <1>1, <1>2, <1>3, <1>4, <1>5, <1>6, <1>7, <1>8, <1>9, <1>10, <1>11 DEF Acting

LEMMA TypedKept == Typed /\ [Next]_vars => Typed'
<1> SUFFICES ASSUME Typed, [Next]_vars PROVE Typed'
  OBVIOUS
<1> USE DEF session_vars, action_vars, history, shown_vars, list_vars
<1>1. ASSUME NEW d \in Databases, Open(d) PROVE Typed'
  BY <1>1, SMT DEF Typed, Open
<1>2. CASE UNCHANGED vars
  BY <1>2, SMT DEF Typed, vars
<1> QED BY <1>1, <1>2, TypedEnvironment, TypedReading, TypedChoosing, TypedActing DEF Next

LEMMA TypedAtFirst == Init => Typed
<1> SUFFICES ASSUME Init PROVE Typed
  OBVIOUS
<1>1. Turn(read) /\ None \in ListsKnown
  BY NoReadIs DEF Init, ListsKnown
<1>2. facts \in FactsRead /\ queued \in BOOLEAN /\ session \in BOOLEAN /\ ~session
  <2>1. facts \in FactsRead
    BY <1>1 DEF Init, FactsRead
  <2> QED BY <2>1, Zenon DEF Init
<1>3. act \in [Workers -> Action] /\ \A w \in Workers : ActShape(act[w])
  BY NoActIs DEF Init, ActShape
<1>4. manager \in [Generations -> Manager]
  BY DEF Init, Manager, Quit
<1> QED BY <1>1, <1>2, <1>3, <1>4, PageAssumption DEF Init, Typed, Databases

\* Every variable keeps its type, whatever is read, answered, chosen and destroyed meanwhile.
THEOREM TypeCorrect == Spec => []TypeOK
<1>1. Typed => TypeOK
  <2> SUFFICES ASSUME Typed PROVE TypeOK
    OBVIOUS
  <2>1. generation \in Generations /\ DOMAIN manager = Generations
    BY SessionNow DEF Typed
  <2>2. ASSUME NEW g \in Generations
        PROVE  manager[g].running \cup manager[g].known \cup manager[g].suspended \subseteq Projects
    BY DEF Typed, Manager
  <2> QED BY <2>1, <2>2 DEF Typed, TypeOK
<1> QED BY <1>1, TypedAtFirst, TypedKept, PTL DEF Spec
-------------------------------------------------------------------------------
(* 4. The managers of the sessions to come.                                     *)

LEMMA ManagedKept == Typed /\ Managed /\ [Next]_vars => Managed'
<1> SUFFICES ASSUME Typed, Managed, [Next]_vars PROVE Managed'
  OBVIOUS
<1> USE DEF session_vars, action_vars, history, shown_vars, list_vars
<1> DEFINE Future(g) == g > generation \/ (g = generation /\ ~session)
           Past(a) == a.sync # 0 => a.sync <= generation /\ (a.sync = generation => session)
<1>0. /\ generation \in Nat \ {0} /\ generation \in Generations /\ session \in BOOLEAN
      /\ \A g \in Generations : Future(g) => manager[g] = Quit
      /\ \A v \in Workers : Past(act[v])
      /\ \A g \in Generations : g \in Nat \ {0}
      /\ \A v \in Workers : act[v].sync \in 0..(MaxTurns + 1)
  BY SessionNow, PageAssumption DEF Typed, Managed, Generations, Action
\* What a manager of a session that is on, or was, becomes is nothing to those to come.
<1>a. ASSUME NEW g \in 0..(MaxTurns + 1), NEW m \in Manager, g # 0 => ~Future(g)
      PROVE  \A h \in Generations : Future(h) => With(g, m)[h] = Quit
  <2>1. ASSUME NEW h \in Generations, Future(h) PROVE With(g, m)[h] = Quit
    <3>1. With(g, m)[h] = IF h = g THEN m ELSE manager[h]
      BY WithIs
    <3>2. h # g
      BY <1>0, <1>a, <2>1
    <3> QED BY <1>0, <2>1, <3>1, <3>2
  <2> QED BY <2>1
<1>b. Sync \in 0..(MaxTurns + 1) /\ (Sync # 0 => ~Future(Sync) /\ Sync = generation /\ session)
  BY <1>0, SessionNow
<1>c. ASSUME UNCHANGED <<session, generation>>,
             \A g \in Generations : Future(g) => manager'[g] = Quit,
             \A v \in Workers : Past(act'[v])
      PROVE  Managed'
  BY <1>c DEF Managed
<1>d. ASSUME UNCHANGED <<session, generation, manager, act>> PROVE Managed'
  BY <1>d DEF Managed
<1>e. ASSUME NEW w \in Workers, NEW kind \in {"download", "remove", "delete", "archive", "restore", "signOut"},
             NEW d \in Databases \cup {None}, NEW at \in {"list", "push", "destroy", "ask", "check"},
             Start(w, kind, d, at)
      PROVE  \A v \in Workers : Past(act'[v])
  <2>1. act'[w].sync = Sync /\ \A v \in Workers \ {w} : act'[v] = act[v]
    BY <1>e, StartIs
  <2>2. Past(act'[w])
    BY <1>0, <1>b, <2>1
  <2> QED BY <1>0, <2>1, <2>2
<1>f. ASSUME NEW w \in Workers, NEW fetch \in BOOLEAN, LetGo(w, fetch)
      PROVE  \A v \in Workers : Past(act'[v])
  <2>1. act'[w].sync = 0 /\ \A v \in Workers \ {w} : act'[v] = act[v]
    BY <1>f, LetGoIs
  <2> QED BY <1>0, <2>1
<1>g. ASSUME NEW w \in Workers, NEW at \in {"set", "destroy", "clear"}, Goto(w, at)
      PROVE  \A v \in Workers : act'[v].sync = act[v].sync
  BY <1>g, GotoIs
\* An end of the session leaves no manager of a session to come.
<1>h. ASSUME EndSession, \A v \in Workers : act'[v].sync = act[v].sync
      PROVE  Managed'
  <2>1. ~session' /\ generation' \in Nat
    BY <1>h, EndIs
  <2>2. CASE session
    <3>1. generation' = generation + 1 /\ manager' = With(generation, Quit)
      BY <1>h, <2>2, EndIs
    <3>2. ASSUME NEW g \in Generations, g >= generation' PROVE manager'[g] = Quit
      <4>1. Quit \in Manager /\ generation \in 0..(MaxTurns + 1)
        BY <1>0 DEF Quit, Manager, Generations
      <4>2. With(generation, Quit)[g] = IF g = generation THEN Quit ELSE manager[g]
        BY <4>1, WithIs
      <4>3. Future(g) /\ g # generation
        <5>1. g \in Nat /\ generation \in Nat
          BY <1>0 DEF Generations
        <5> QED BY <3>1, <3>2, <5>1
      <4> QED BY <1>0, <3>1, <4>2, <4>3
    <3>3. \A g \in Generations : g > generation' \/ (g = generation' /\ ~session') => manager'[g] = Quit
      <4> SUFFICES ASSUME NEW g \in Generations, g > generation' \/ g = generation'
                   PROVE  manager'[g] = Quit
        OBVIOUS
      <4>1. g \in Nat /\ generation' \in Nat
        BY <2>1 DEF Generations
      <4> QED BY <3>2, <4>1
    <3> QED BY <1>0, <1>h, <2>1, <3>1, <3>3 DEF Managed
  <2>3. CASE ~session
    <3>1. generation' = generation /\ manager' = manager
      BY <1>h, <2>3, EndIs
    <3> QED BY <1>0, <1>h, <2>1, <2>3, <3>1 DEF Managed
  <2> QED BY <2>2, <2>3
<1>i. ASSUME NEW f \in FactsRead, Apply(f)
      PROVE  \A g \in Generations : Future(g) => manager'[g] = Quit
  <2>1. CASE Busy
    BY <1>0, <1>i, <2>1 DEF Apply
  <2>2. CASE ~Busy
    <3>1. manager' = With(Sync, SetTo(Of(Sync), Synchronized(InputOf(f))))
      BY <1>i, <2>2 DEF Apply
    <3>2. SetTo(Of(Sync), Synchronized(InputOf(f))) \in Manager
      BY SetToIs, OfIs, SessionNow, SynchronizedHere
    <3> QED BY <1>a, <1>b, <3>1, <3>2
  <2> QED BY <2>1, <2>2
<1> HIDE DEF Future, Past
<1>1. CASE Environment
  <2>1. ASSUME NEW p \in Projects, ServerMoves(p) PROVE Managed'
    BY <1>d, <2>1 DEF ServerMoves
  <2>2. CASE Regains
    BY <1>d, <2>2 DEF Regains
  <2>3. CASE SignIn
    <3>1. ~session /\ session' /\ UNCHANGED <<generation, manager, act>>
      BY <2>3 DEF SignIn
    <3> QED BY <1>0, <3>1 DEF Managed, Future, Past
  <2>4. CASE Expires
    BY <1>h, <2>4 DEF Expires
  <2>5. ASSUME NEW f \in fetches, Answered(f) \/ Lands(f) PROVE Managed'
    BY <1>d, <2>5 DEF Answered, Lands
  <2> QED BY <1>1, <2>1, <2>2, <2>3, <2>4, <2>5 DEF Environment
<1>2. CASE Reading
  <2>1. CASE ReadBegins \/ ReadFacts \/ DetachDone \/ DetachFails
    BY <1>d, <2>1 DEF ReadBegins, ReadFacts, DetachDone, DetachFails
  <2>2. CASE ReadShows
    <3>1. CASE Stale(read) \/ Orphans(read.facts) # {}
      BY <1>d, <2>2, <3>1 DEF ReadShows
    <3>2. CASE ~(Stale(read) \/ Orphans(read.facts) # {})
      <4>1. PICK f : f = read.facts
        OBVIOUS
      <4>2. f \in FactsRead /\ Apply(f) /\ UNCHANGED <<session, generation, act>>
        BY <2>2, <3>2, <4>1 DEF ReadShows, Typed, Turn
      <4> QED BY <1>0, <1>c, <1>i, <4>2
    <3> QED BY <3>1, <3>2
  <2>3. ASSUME NEW d \in Projects, DetachBegins(d) PROVE Managed'
    <3>1. manager' = With(Sync, Suspend(Of(Sync), d)) /\ UNCHANGED <<session, generation, act>>
      BY <2>3 DEF DetachBegins
    <3>2. Suspend(Of(Sync), d) \in Manager
      BY SuspendIs, OfIs, SessionNow
    <3> QED BY <1>0, <1>a, <1>b, <1>c, <3>1, <3>2
  <2>4. CASE DetachResumes
    <3>1. /\ manager' = With(Sync, Resume(Of(Sync), read.current))
          /\ UNCHANGED <<session, generation, act>> /\ read.current \in Projects
      BY <2>4 DEF DetachResumes, Typed, Turn
    <3>2. Resume(Of(Sync), read.current) \in Manager
      BY <3>1, ResumeIs, OfIs, SessionNow
    <3> QED BY <1>0, <1>a, <1>b, <1>c, <3>1, <3>2
  <2>5. CASE DetachEnds
    <3>1. CASE read.detached
      BY <1>d, <2>5, <3>1 DEF DetachEnds
    <3>2. CASE ~read.detached
      <4>1. PICK f : f = facts
        OBVIOUS
      <4>2. f \in FactsRead /\ Apply(f) /\ UNCHANGED <<session, generation, act>>
        BY <2>5, <3>2, <4>1 DEF DetachEnds, Typed
      <4> QED BY <1>0, <1>c, <1>i, <4>2
    <3> QED BY <3>1, <3>2
  <2> QED BY <1>2, <2>1, <2>2, <2>3, <2>4, <2>5 DEF Reading
<1>3. ASSUME NEW d \in Databases, Open(d) PROVE Managed'
  BY <1>d, <1>3 DEF Open
<1>4. ASSUME NEW w \in Workers, Choosing(w) PROVE Managed'
  <2>1. ASSUME NEW d \in Databases, Download(w, d) \/ RemoveServer(w, d) \/ Restore(w, d) PROVE Managed'
    <3>1. \/ Start(w, "download", d, "list") \/ Start(w, "archive", d, "ask")
          \/ Start(w, "restore", d, "ask")
      BY <2>1 DEF Download, RemoveServer, Restore
    <3>2. \A v \in Workers : Past(act'[v])
      BY <1>e, <3>1
    <3>3. UNCHANGED <<session, generation, manager>>
      BY <2>1 DEF Download, RemoveServer, Restore
    <3> QED BY <1>0, <1>c, <3>2, <3>3
  <2>2. ASSUME NEW d \in Databases, RemoveLocal(w, d) PROVE Managed'
    <3>1. /\ Start(w, "remove", d, "push") /\ UNCHANGED <<session, generation>>
          /\ manager' = With(Sync, Suspend(Of(Sync), d))
      BY <2>2 DEF RemoveLocal
    <3>2. d \in Projects
      BY <2>2, OfferedIs DEF RemoveLocal, Typed
    <3>3. Suspend(Of(Sync), d) \in Manager
      BY <3>2, SuspendIs, OfIs, SessionNow
    <3>4. \A v \in Workers : Past(act'[v])
      BY <1>e, <3>1
    <3> QED BY <1>a, <1>b, <1>c, <3>1, <3>3, <3>4
  <2>3. ASSUME NEW d \in Databases, DeleteLocal(w, d) PROVE Managed'
    <3>1. /\ Start(w, "delete", d, "destroy") /\ UNCHANGED <<session, generation>>
          /\ manager' = IF d \in Projects THEN With(Sync, Suspend(Of(Sync), d)) ELSE manager
      BY <2>3 DEF DeleteLocal
    <3>3. d \in Projects => Suspend(Of(Sync), d) \in Manager
      BY SuspendIs, OfIs, SessionNow
    <3>4. \A v \in Workers : Past(act'[v])
      BY <1>e, <3>1
    <3> QED BY <1>0, <1>a, <1>b, <1>c, <3>1, <3>3, <3>4
  <2>4. CASE SignOut(w)
    <3>1. Start(w, "signOut", None, "check") /\ UNCHANGED <<session, generation, manager>>
      BY <2>4 DEF SignOut
    <3>2. \A v \in Workers : Past(act'[v])
      BY <1>e, <3>1
    <3> QED BY <1>0, <1>c, <3>1, <3>2
  <2> QED BY <1>4, <2>1, <2>2, <2>3, <2>4 DEF Choosing
<1>5. ASSUME NEW w \in Workers, Acting(w) PROVE Managed'
  <2>0. ActShape(act[w]) /\ act[w] \in Action
    BY DEF Typed
  <2>a. act[w].sync \in 0..(MaxTurns + 1) /\ (act[w].sync # 0 => ~Future(act[w].sync))
    BY <1>0 DEF Future, Past
  <2>1. CASE Lists(w) \/ Pushes(w) \/ Destroys(w) \/ Patches(w)
    <3>1. Goto(w, "set") \/ Goto(w, "destroy")
      BY <2>1 DEF Lists, Pushes, Destroys, Patches
    <3>2. UNCHANGED <<session, generation, manager>>
      BY <2>1 DEF Lists, Pushes, Destroys, Patches
    <3>3. \A v \in Workers : Past(act'[v])
      BY <1>0, <1>g, <3>1 DEF Past
    <3> QED BY <1>0, <1>c, <3>2, <3>3
  <2>2. CASE Fails(w) \/ Declined(w)
    <3>1. LetGo(w, FALSE) /\ UNCHANGED <<session, generation, manager>>
      BY <2>2 DEF Fails, Declined
    <3>2. \A v \in Workers : Past(act'[v])
      BY <1>f, <3>1
    <3> QED BY <1>0, <1>c, <3>1, <3>2
  <2>3. CASE Refused(w)
    <3>1. /\ LetGo(w, FALSE) /\ UNCHANGED <<session, generation>> /\ act[w].project \in Databases
          /\ manager' = With(act[w].sync, Resume(Of(act[w].sync), act[w].project))
      BY <2>0, <2>3 DEF Refused, ActShape, Databases
    <3>2. Resume(Of(act[w].sync), act[w].project) \in Manager
      BY <2>a, <3>1, ResumeIs, OfIs
    <3>3. \A v \in Workers : Past(act'[v])
      BY <1>f, <3>1
    <3> QED BY <1>a, <1>c, <2>a, <3>1, <3>2, <3>3
  <2>4. CASE Sets(w)
    <3>1. LetGo(w, TRUE) /\ UNCHANGED <<session, generation>> /\ act[w].project \in Databases
      BY <2>0, <2>4 DEF Sets, ActShape
    <3>2. \A v \in Workers : Past(act'[v])
      BY <1>f, <3>1
    <3>3. CASE act[w].project \in LocalOnly
      <4>1. manager' = manager
        BY <2>4, <3>3 DEF Sets
      <4> QED BY <1>0, <1>c, <3>1, <3>2, <4>1
    <3>4. CASE act[w].project \notin LocalOnly
      <4>1. act[w].project \in Projects
        BY <3>1, <3>4 DEF Databases
      <4>2. Resume(SetTo(Of(act[w].sync), Wanted(act[w])), act[w].project) \in Manager
        BY <2>0, <2>a, <4>1, WantedIs, SetToIs, ResumeIs, OfIs
      <4>3. manager' = With(act[w].sync, Resume(SetTo(Of(act[w].sync), Wanted(act[w])), act[w].project))
        BY <2>4, <3>4 DEF Sets
      <4> QED BY <1>a, <1>c, <2>a, <3>1, <3>2, <4>2, <4>3
    <3> QED BY <3>3, <3>4
  <2>5. CASE Ends(w)
    BY <1>g, <1>h, <2>5 DEF Ends
  <2>6. CASE Clears(w) \/ Refreshed(w)
    <3>1. act' = [act EXCEPT ![w] = NoAct] /\ UNCHANGED <<session, generation, manager>>
      BY <2>6 DEF Clears, Refreshed
    <3>2. \A v \in Workers : Past(act'[v])
      BY <1>0, <3>1, NoActIs DEF Typed, Past
    <3> QED BY <1>0, <1>c, <3>1, <3>2
  <2> QED BY <1>5, <2>1, <2>2, <2>3, <2>4, <2>5, <2>6 DEF Acting
<1>6. CASE UNCHANGED vars
  BY <1>d, <1>6 DEF vars
<1> QED BY <1>1, <1>2, <1>3, <1>4, <1>5, <1>6 DEF Next
-------------------------------------------------------------------------------
(* 5. Whoever holds a project still.                                            *)

LEMMA HeldKept == Typed /\ Managed /\ Held /\ [Next]_vars => Held'
<1> SUFFICES ASSUME Typed, Managed, Held, [Next]_vars PROVE Held'
  OBVIOUS
<1> USE DEF session_vars, action_vars, history, shown_vars, list_vars
<1> DEFINE still == manager[generation].suspended
           still1 == manager'[generation].suspended
<1>0. /\ generation \in Generations /\ generation # 0 /\ manager[generation] \in Manager
      /\ still \subseteq Projects /\ None \notin Projects
      /\ generation \in 0..(MaxTurns + 1) /\ Sync \in 0..(MaxTurns + 1) /\ Of(Sync) \in Manager
      /\ session => Sync = generation /\ Of(Sync) = manager[generation]
      /\ ~session => Sync = 0
      /\ Turn(read)
  <2>1. generation \in Generations /\ generation # 0 /\ manager[generation] \in Manager
    BY SessionNow DEF Typed
  <2>2. generation \in 0..(MaxTurns + 1)
    BY <2>1, PageAssumption DEF Generations
  <2>3. Of(Sync) \in Manager
    BY SessionNow, OfIs
  <2>4. session => Of(Sync) = manager[generation]
    BY <2>1, SessionNow DEF Of
  <2> QED BY <2>1, <2>2, <2>3, <2>4, SessionNow, PageAssumption DEF Manager, Typed
\* What of the session's manager a step may change, as far as this goes.
<1>a. ASSUME NEW g \in 0..(MaxTurns + 1), NEW m \in Manager, manager' = With(g, m)
      PROVE  still1 = IF g = generation THEN m.suspended ELSE still
  <2>1. With(g, m)[generation] = IF generation = g THEN m ELSE manager[generation]
    BY <1>0, WithIs
  <2> QED BY <1>a, <2>1
<1>b. ASSUME UNCHANGED <<session, generation>>,
             \A d \in still1 : d \in still \/ ReadHolds(d)' \/ \E w \in Workers : Holds(w, d)',
             \A d \in still1 \cap still : ReadHolds(d) => ReadHolds(d)' \/ \E w \in Workers : Holds(w, d)',
             \A d \in still1 \cap still, w \in Workers : Holds(w, d) => ReadHolds(d)' \/ Holds(w, d)'
      PROVE  Held'
  <2> SUFFICES ASSUME session', NEW d \in manager'[generation'].suspended
               PROVE  ReadHolds(d)' \/ \E w \in Workers : Holds(w, d)'
    BY DEF Held
  <2>1. session /\ d \in still1
    BY <1>b
  <2>2. CASE d \notin still
    BY <1>b, <2>1, <2>2
  <2>3. CASE d \in still
    <3>1. ReadHolds(d) \/ \E w \in Workers : Holds(w, d)
      BY <2>1, <2>3 DEF Held
    <3> QED BY <1>b, <2>1, <2>3, <3>1
  <2> QED BY <2>2, <2>3
<1>c. ASSUME UNCHANGED <<session, generation>>, still1 \subseteq still,
             \A d \in still1 : ReadHolds(d) => ReadHolds(d)',
             \A d \in still1, w \in Workers : Holds(w, d) => Holds(w, d)'
      PROVE  Held'
  BY <1>b, <1>c
<1>d. ASSUME UNCHANGED <<session, generation, manager, read, act>> PROVE Held'
  <2>1. still1 = still
    BY <1>d
  <2> QED BY <1>c, <1>d, <2>1 DEF ReadHolds, Holds, Detaching
<1>e. ASSUME NEW f \in FactsRead, Apply(f)
      PROVE  still1 = still
  <2>1. CASE Busy
    BY <2>1, <1>e DEF Apply
  <2>2. CASE ~Busy
    <3>1. manager' = With(Sync, SetTo(Of(Sync), Synchronized(InputOf(f))))
      BY <1>e, <2>2 DEF Apply
    <3>2. /\ SetTo(Of(Sync), Synchronized(InputOf(f))) \in Manager
          /\ SetTo(Of(Sync), Synchronized(InputOf(f))).suspended = Of(Sync).suspended
      BY <1>0, SetToIs, SynchronizedHere
    <3>3. CASE session
      BY <1>0, <1>a, <3>1, <3>2, <3>3
    <3>4. CASE ~session
      BY <1>0, <1>a, <3>1, <3>2, <3>4
    <3> QED BY <3>3, <3>4
  <2> QED BY <2>1, <2>2
\* An action that begins held nothing, and holds what it suspends.
<1>f. ASSUME NEW w \in Workers, NEW kind \in {"download", "remove", "delete", "archive", "restore", "signOut"},
             NEW d \in Databases \cup {None}, NEW at \in {"list", "push", "destroy", "ask", "check"},
             Start(w, kind, d, at), UNCHANGED <<session, generation>>,
             \/ manager' = manager
             \/ at \in {"push", "destroy"} /\ d \in Projects /\ manager' = With(Sync, Suspend(Of(Sync), d))
      PROVE  Held'
  <2>1. /\ \A v \in Workers \ {w} : act'[v] = act[v]
        /\ act'[w].project = d /\ act'[w].at = at /\ act'[w].sync = Sync
        /\ read' = Spanned
    BY <1>f, StartIs
  <2>2. act[w].at = "idle"
    BY <1>f DEF Start
  <2>3. ASSUME NEW e PROVE ReadHolds(e) => ReadHolds(e)'
    BY <1>0, <2>1, SpannedIs DEF ReadHolds, Detaching
  <2>4. ASSUME NEW e, NEW v \in Workers PROVE Holds(v, e) => Holds(v, e)'
    BY <1>f, <2>1, <2>2 DEF Holds
  <2>5. CASE manager' = manager
    BY <1>c, <1>f, <2>3, <2>4, <2>5
  <2>6. CASE at \in {"push", "destroy"} /\ d \in Projects /\ manager' = With(Sync, Suspend(Of(Sync), d))
    <3>1. CASE ~session
      <4>1. ~session'
        BY <1>f, <3>1
      <4> QED BY <4>1 DEF Held
    <3>2. CASE session
      <4>1. Suspend(Of(Sync), d) \in Manager /\ Suspend(Of(Sync), d).suspended = still \cup {d}
        BY <1>0, <2>6, <3>2, SuspendIs
      <4>2. still1 = still \cup {d}
        BY <1>0, <1>a, <2>6, <3>2, <4>1
      <4>3. Holds(w, d)'
        BY <1>0, <1>f, <2>1, <2>6, <3>2 DEF Holds
      <4> QED BY <1>b, <1>f, <2>3, <2>4, <4>2, <4>3
    <3> QED BY <3>1, <3>2
  <2> QED BY <1>f, <2>5, <2>6
\* An action that lets go holds nothing, and lets go of what it held.
<1>g. ASSUME NEW w \in Workers, NEW fetch \in BOOLEAN, LetGo(w, fetch), UNCHANGED <<session, generation>>,
             still1 \subseteq still, session => \A d \in still1 : ~Holds(w, d)
      PROVE  Held'
  <2>1. read' = Spanned /\ \A v \in Workers \ {w} : act'[v] = act[v]
    BY <1>g, LetGoIs
  <2>2. CASE ~session
    <3>1. ~session'
      BY <1>g, <2>2
    <3> QED BY <3>1 DEF Held
  <2>3. CASE session
    <3>1. ASSUME NEW e PROVE ReadHolds(e) => ReadHolds(e)'
      BY <1>0, <2>1, SpannedIs DEF ReadHolds, Detaching
    <3>2. ASSUME NEW e \in still1, NEW v \in Workers PROVE Holds(v, e) => Holds(v, e)'
      BY <1>g, <2>1, <2>3 DEF Holds
    <3> QED BY <1>c, <1>g, <3>1, <3>2
  <2> QED BY <2>2, <2>3
<1> HIDE DEF still, still1
<1>1. CASE Environment
  <2>1. ASSUME NEW p \in Projects, ServerMoves(p) PROVE Held'
    BY <1>d, <2>1 DEF ServerMoves
  <2>2. CASE Regains
    BY <1>d, <2>2 DEF Regains
  <2>3. CASE SignIn
    <3>1. ~session /\ UNCHANGED <<generation, manager>>
      BY <2>3 DEF SignIn
    <3>2. manager[generation] = Quit
      BY <1>0, <3>1 DEF Managed
    <3>3. manager'[generation'].suspended = {}
      BY <3>1, <3>2 DEF Quit
    <3> QED BY <3>3 DEF Held
  <2>4. CASE Expires
    <3>1. ~session'
      BY <2>4, EndIs DEF Expires
    <3> QED BY <3>1 DEF Held
  <2>5. ASSUME NEW f \in fetches, Answered(f) \/ Lands(f) PROVE Held'
    BY <1>d, <2>5 DEF Answered, Lands
  <2> QED BY <1>1, <2>1, <2>2, <2>3, <2>4, <2>5 DEF Environment
<1>2. CASE Reading
  <2>a. ASSUME UNCHANGED <<session, generation, act>>, still1 \subseteq still,
               \A d \in still1 : ReadHolds(d) => ReadHolds(d)'
        PROVE  Held'
    BY <1>c, <2>a DEF Holds
  <2>1. CASE ReadBegins \/ ReadFacts
    <3>1. ~Detaching /\ UNCHANGED <<session, generation, act, manager>>
      BY <2>1 DEF ReadBegins, ReadFacts, Detaching
    <3> QED BY <2>a, <3>1 DEF ReadHolds, still, still1
  <2>2. CASE ReadShows
    <3>1. ~Detaching /\ UNCHANGED <<session, generation, act>>
      BY <2>2 DEF ReadShows, Detaching
    <3>2. CASE Stale(read) \/ Orphans(read.facts) # {}
      <4>1. manager' = manager
        BY <2>2, <3>2 DEF ReadShows
      <4> QED BY <2>a, <3>1, <4>1 DEF ReadHolds, still, still1
    <3>3. CASE ~(Stale(read) \/ Orphans(read.facts) # {})
      <4>1. PICK f : f = read.facts
        OBVIOUS
      <4>2. f \in FactsRead /\ Apply(f)
        BY <1>0, <2>2, <3>3, <4>1 DEF ReadShows, Turn
      <4>3. still1 = still
        BY <1>e, <4>2
      <4> QED BY <2>a, <3>1, <4>3 DEF ReadHolds
    <3> QED BY <3>2, <3>3
  <2>3. ASSUME NEW d \in Projects, DetachBegins(d) PROVE Held'
    <3>1. /\ manager' = With(Sync, Suspend(Of(Sync), d)) /\ UNCHANGED <<session, generation, act>>
          /\ read.at = "detach" /\ read.current = None
          /\ read' = [read EXCEPT !.current = d, !.todo = @ \ {d}]
      BY <2>3 DEF DetachBegins
    <3>2. ReadHolds(d)'
      BY <1>0, <3>1 DEF ReadHolds, Detaching, Turn
    <3>3. CASE ~session
      <4>1. ~session'
        BY <3>1, <3>3
      <4> QED BY <4>1 DEF Held
    <3>4. CASE session
      <4>1. Suspend(Of(Sync), d) \in Manager /\ Suspend(Of(Sync), d).suspended = still \cup {d}
        BY <1>0, <3>4, SuspendIs DEF still
      <4>2. still1 = still \cup {d}
        BY <1>0, <1>a, <3>1, <3>4, <4>1
      <4>3. ASSUME NEW e \in still PROVE ~ReadHolds(e)
        BY <1>0, <3>1 DEF ReadHolds
      <4>4. \A e, v : Holds(v, e) => Holds(v, e)'
        BY <3>1 DEF Holds
      <4> QED BY <1>b, <3>1, <3>2, <4>2, <4>3, <4>4
    <3> QED BY <3>3, <3>4
  <2>4. CASE DetachDone \/ DetachFails
    <3>1. /\ UNCHANGED <<session, generation, act, manager>>
          /\ \/ read' = [read EXCEPT !.at = "detached", !.detached = TRUE]
             \/ read' = [read EXCEPT !.at = "detached"]
      BY <2>4 DEF DetachDone, DetachFails
    <3>2. read'.current = read.current /\ read'.at = "detached"
      BY <1>0, <3>1 DEF Turn
    <3> QED BY <2>a, <3>1, <3>2 DEF ReadHolds, Detaching, still, still1
  <2>5. CASE DetachResumes
    <3>1. /\ manager' = With(Sync, Resume(Of(Sync), read.current))
          /\ UNCHANGED <<session, generation, act>> /\ read.current \in Projects
      BY <2>5 DEF DetachResumes, Typed, Turn
    <3>2. CASE ~session
      <4>1. ~session'
        BY <3>1, <3>2
      <4> QED BY <4>1 DEF Held
    <3>3. CASE session
      <4>1. /\ Resume(Of(Sync), read.current) \in Manager
            /\ Resume(Of(Sync), read.current).suspended = still \ {read.current}
        BY <1>0, <3>1, <3>3, ResumeIs DEF still
      <4>2. PICK m \in Manager : m = Resume(Of(Sync), read.current)
        BY <4>1
      <4>3. still1 = still \ {read.current}
        BY <1>0, <1>a, <3>1, <3>3, <4>1, <4>2
      <4> QED BY <2>a, <3>1, <4>3 DEF ReadHolds
    <3> QED BY <3>2, <3>3
  <2>6. CASE DetachEnds
    <3>1. UNCHANGED <<session, generation, act>> /\ read.current = None
      BY <2>6 DEF DetachEnds
    <3>2. still1 = still
      <4>1. CASE read.detached
        BY <2>6, <4>1 DEF DetachEnds, still, still1
      <4>2. CASE ~read.detached
        <5>1. PICK f : f = facts
          OBVIOUS
        <5>2. f \in FactsRead /\ Apply(f)
          BY <2>6, <4>2, <5>1 DEF DetachEnds, Typed
        <5> QED BY <1>e, <5>2
      <4> QED BY <4>1, <4>2
    <3>3. \A d \in still1 : ~ReadHolds(d)
      BY <1>0, <3>1, <3>2 DEF ReadHolds, still
    <3> QED BY <2>a, <3>1, <3>2, <3>3
  <2> QED BY <1>2, <2>1, <2>2, <2>3, <2>4, <2>5, <2>6 DEF Reading
<1>3. ASSUME NEW d \in Databases, Open(d) PROVE Held'
  BY <1>d, <1>3 DEF Open
<1>4. ASSUME NEW w \in Workers, Choosing(w) PROVE Held'
  <2>1. ASSUME NEW d \in Databases, Download(w, d) PROVE Held'
    BY <1>f, <2>1 DEF Download
  <2>2. ASSUME NEW d \in Databases, RemoveLocal(w, d) PROVE Held'
    <3>1. d \in Projects
      BY <2>2, OfferedIs DEF RemoveLocal, Typed
    <3> QED BY <1>f, <2>2, <3>1 DEF RemoveLocal
  <2>3. ASSUME NEW d \in Databases, DeleteLocal(w, d) PROVE Held'
    <3>1. /\ Start(w, "delete", d, "destroy") /\ UNCHANGED <<session, generation>>
          /\ manager' = manager \/ (d \in Projects /\ manager' = With(Sync, Suspend(Of(Sync), d)))
      BY <2>3 DEF DeleteLocal
    <3> QED BY <1>f, <3>1
  <2>4. ASSUME NEW d \in Databases, RemoveServer(w, d) \/ Restore(w, d) PROVE Held'
    <3>1. /\ Start(w, "archive", d, "ask") \/ Start(w, "restore", d, "ask")
          /\ UNCHANGED <<session, generation>> /\ manager' = manager
      BY <2>4 DEF RemoveServer, Restore
    <3> QED BY <1>f, <3>1
  <2>5. CASE SignOut(w)
    BY <1>f, <2>5 DEF SignOut
  <2> QED BY <1>4, <2>1, <2>2, <2>3, <2>4, <2>5 DEF Choosing
<1>5. ASSUME NEW w \in Workers, Acting(w) PROVE Held'
  <2>0. ActShape(act[w]) /\ act[w] \in Action /\ act[w].sync \in 0..(MaxTurns + 1)
    BY DEF Typed, Action
  <2>1. CASE Lists(w) \/ Pushes(w) \/ Destroys(w) \/ Patches(w)
    <3>1. /\ Goto(w, "set") \/ Goto(w, "destroy")
          /\ UNCHANGED <<session, generation, manager, read>>
      BY <2>1 DEF Lists, Pushes, Destroys, Patches
    <3>2. /\ \A v \in Workers \ {w} : act'[v] = act[v]
          /\ act'[w].project = act[w].project /\ act'[w].at \in {"set", "destroy"}
          /\ act'[w].sync = act[w].sync
      BY <3>1, GotoIs
    <3>3. ASSUME NEW e, NEW v \in Workers PROVE Holds(v, e) => Holds(v, e)'
      BY <3>1, <3>2 DEF Holds
    <3>4. ASSUME NEW e PROVE ReadHolds(e) => ReadHolds(e)'
      BY <3>1 DEF ReadHolds, Detaching
    <3> QED BY <1>c, <3>1, <3>3, <3>4 DEF still, still1
  <2>2. CASE Fails(w) \/ Declined(w)
    <3>1. LetGo(w, FALSE) /\ UNCHANGED <<session, generation, manager>> /\ act[w].at \in {"ask", "check"}
      BY <2>2 DEF Fails, Declined
    <3>2. \A d : ~Holds(w, d)
      BY <3>1 DEF Holds
    <3> QED BY <1>g, <3>1, <3>2 DEF still, still1
  <2>3. CASE Refused(w)
    <3>1. /\ LetGo(w, FALSE) /\ UNCHANGED <<session, generation>> /\ act[w].project \in Databases
          /\ manager' = With(act[w].sync, Resume(Of(act[w].sync), act[w].project))
      BY <2>0, <2>3 DEF Refused, ActShape, Databases
    <3>2. PICK m : m = Resume(Of(act[w].sync), act[w].project)
      OBVIOUS
    <3>3. m \in Manager /\ m.suspended = Of(act[w].sync).suspended \ {act[w].project}
      BY <2>0, <3>1, <3>2, ResumeIs, OfIs
    <3>4. CASE act[w].sync = generation
      <4>1. still1 = still \ {act[w].project}
        BY <1>0, <1>a, <2>0, <3>1, <3>2, <3>3, <3>4 DEF Of, still
      <4> QED BY <1>g, <3>1, <4>1 DEF Holds
    <3>5. CASE act[w].sync # generation
      <4>1. still1 = still
        BY <1>0, <1>a, <2>0, <3>1, <3>2, <3>3, <3>5
      <4> QED BY <1>g, <3>1, <3>5, <4>1 DEF Holds
    <3> QED BY <3>4, <3>5
  <2>4. CASE Sets(w)
    <3>1. LetGo(w, TRUE) /\ UNCHANGED <<session, generation>> /\ act[w].project \in Databases
      BY <2>0, <2>4 DEF Sets, ActShape
    <3>2. CASE act[w].project \in LocalOnly
      <4>1. still1 = still
        BY <2>4, <3>2 DEF Sets, still, still1
      <4>2. act[w].project \notin still1
        BY <1>0, <3>2, <4>1, PageAssumption
      <4> QED BY <1>g, <3>1, <4>1, <4>2 DEF Holds
    <3>3. CASE act[w].project \notin LocalOnly
      <4>1. act[w].project \in Projects
        BY <3>1, <3>3 DEF Databases
      <4>2. PICK n : n = SetTo(Of(act[w].sync), Wanted(act[w]))
        OBVIOUS
      <4>3. n \in Manager /\ n.suspended = Of(act[w].sync).suspended
        BY <2>0, <4>1, <4>2, WantedIs, SetToIs, OfIs
      <4>4. PICK m : m = Resume(n, act[w].project)
        OBVIOUS
      <4>5. m \in Manager /\ m.suspended = Of(act[w].sync).suspended \ {act[w].project}
        BY <4>1, <4>3, <4>4, ResumeIs
      <4>6. manager' = With(act[w].sync, m)
        BY <2>4, <3>3, <4>2, <4>4 DEF Sets
      <4>7. CASE act[w].sync = generation
        <5>1. still1 = still \ {act[w].project}
          BY <1>0, <1>a, <2>0, <4>5, <4>6, <4>7 DEF Of, still
        <5> QED BY <1>g, <3>1, <5>1 DEF Holds
      <4>8. CASE act[w].sync # generation
        <5>1. still1 = still
          BY <1>0, <1>a, <2>0, <4>5, <4>6, <4>8
        <5> QED BY <1>g, <3>1, <4>8, <5>1 DEF Holds
      <4> QED BY <4>7, <4>8
    <3> QED BY <3>2, <3>3
  <2>5. CASE Ends(w)
    <3>1. ~session'
      BY <2>5, EndIs DEF Ends
    <3> QED BY <3>1 DEF Held
  <2>6. CASE Clears(w) \/ Refreshed(w)
    <3>1. /\ act' = [act EXCEPT ![w] = NoAct] /\ UNCHANGED <<session, generation, manager>>
          /\ act[w].at \in {"clear", "refresh"} /\ (read' = Spanned \/ read' = read)
      BY <2>6 DEF Clears, Refreshed
    <3>2. ASSUME NEW e, NEW v \in Workers PROVE Holds(v, e) => Holds(v, e)'
      <4>1. act \in [Workers -> Action]
        BY DEF Typed
      <4>2. v # w => act'[v] = act[v]
        BY <3>1, <4>1
      <4> QED BY <3>1, <4>2 DEF Holds
    <3>3. ASSUME NEW e PROVE ReadHolds(e) => ReadHolds(e)'
      BY <1>0, <3>1, SpannedIs DEF ReadHolds, Detaching
    <3> QED BY <1>c, <3>1, <3>2, <3>3 DEF still, still1
  <2> QED BY <1>5, <2>1, <2>2, <2>3, <2>4, <2>5, <2>6 DEF Acting
<1>6. CASE UNCHANGED vars
  BY <1>d, <1>6 DEF vars
<1> QED BY <1>1, <1>2, <1>3, <1>4, <1>5, <1>6 DEF Next
-------------------------------------------------------------------------------
(* 6. What is out of date is awaited.                                           *)

\* Nothing is held still when no action runs and no orphan is being detached.
LEMMA NothingHeld ==
  ASSUME Typed, Held, session, ~Busy, ~Detaching
  PROVE  /\ manager[generation].suspended = {} /\ Of(Sync) = manager[generation]
         /\ Sync = generation
<1>1. ASSUME NEW w \in Workers, NEW d PROVE ~Holds(w, d)
  BY DEF Busy, Running, Holds
<1>2. manager[generation].suspended = {}
  BY <1>1 DEF Held, ReadHolds
<1>3. Sync = generation /\ generation # 0
  BY SessionNow DEF Typed
<1> QED BY <1>2, <1>3 DEF Of

\* What apply() leaves behind when it may: the views on what is listed, and exactly what is
\* synchronized replicating.
LEMMA AppliedLeaves ==
  ASSUME IInv, NEW f \in FactsRead, Apply(f), f.local = index, ~Busy, ~Detaching
  PROVE  /\ view' \notin gone
         /\ session => manager'[generation].running = Synchronized(InputOf(f))
<1>0. Home \in index /\ index \cap gone = {} /\ Typed /\ Held
  BY DEF IInv, Typed, Awaited
<1>1. /\ view' \in f.local \cup {Home}
      /\ manager' = With(Sync, SetTo(Of(Sync), Synchronized(InputOf(f))))
  BY <1>0, AppliedIs
<1>2. ASSUME session PROVE manager'[generation].running = Synchronized(InputOf(f))
  <2>1. manager[generation].suspended = {} /\ Of(Sync) = manager[generation] /\ Sync = generation
    BY <1>0, <1>2, NothingHeld
  <2>2. generation \in Generations /\ Sync \in 0..(MaxTurns + 1) /\ manager[generation] \in Manager
    BY <1>0, SessionNow
  <2>3. PICK m : m = SetTo(manager[generation], Synchronized(InputOf(f)))
    OBVIOUS
  <2>4. m \in Manager /\ m.running = Synchronized(InputOf(f))
    BY <2>1, <2>2, <2>3, SetToIs, SynchronizedHere
  <2>5. With(Sync, m)[generation] = m
    BY <1>0, <2>1, <2>2, <2>4, WithIs
  <2> QED BY <1>1, <2>1, <2>3, <2>4, <2>5
<1> QED BY <1>0, <1>1, <1>2

LEMMA AwaitedKept == IInv /\ [Next]_vars => Awaited'
<1> SUFFICES ASSUME IInv, [Next]_vars PROVE Awaited'
  OBVIOUS
<1> USE DEF session_vars, action_vars, history, shown_vars, list_vars
<1>0. /\ Typed /\ Held /\ Turn(read) /\ facts \in FactsRead
      /\ index \cap gone = {}
      /\ read.at \in {"facts", "apply"} /\ Stale(read) => queued \/ Busy
      /\ read.at = "apply" => Stale(read) \/ read.facts.local = index \/ queued \/ Busy
      /\ read.at = "idle" /\ ~queued /\ ~Busy =>
            /\ facts.local = index /\ view \notin gone
            /\ session /\ (\A f \in fetches : f.generation # generation) =>
                  manager[generation].running = Synchronized(Page)
      /\ act \in [Workers -> Action]
  BY DEF IInv, Typed, Awaited
\* A read is queued, or an action runs, or the orphans are being detached: nothing is claimed.
<1>a. ASSUME index' \cap gone' = {}, queued' \/ Busy' \/ Detaching' PROVE Awaited'
  BY <1>a DEF Awaited, Detaching
\* Nothing but the list and what is under way for it.
<1>b. ASSUME UNCHANGED <<index, session, generation, manager, facts, view, queued, read, act, gone>>,
             (\A f \in fetches' : f.generation # generation) =>
                (\A f \in fetches : f.generation # generation)
      PROVE  Awaited'
  <2>1. UNCHANGED <<Stale(read), Busy, Page>>
    BY <1>b DEF Stale, Busy, Running, Page, InputOf
  <2> QED BY <1>0, <1>b, <2>1 DEF Awaited
<1>1. CASE Environment
  <2>1. ASSUME NEW p \in Projects, ServerMoves(p) PROVE Awaited'
    BY <1>b, <2>1 DEF ServerMoves
  <2>2. CASE Regains
    <3>1. [generation |-> generation, list |-> None] \in fetches'
      BY <2>2 DEF Regains, Fetch
    <3> QED BY <1>b, <2>2, <3>1 DEF Regains
  <2>3. CASE SignIn
    <3>1. [generation |-> generation, list |-> None] \in fetches' /\ generation' = generation
      BY <2>3 DEF SignIn, Fetch
    <3>2. UNCHANGED <<index, facts, view, queued, read, act, gone>>
      BY <2>3 DEF SignIn
    <3>3. UNCHANGED <<Stale(read), Busy>>
      BY <3>1, <3>2 DEF Stale, Busy, Running
    <3> QED BY <1>0, <3>1, <3>2, <3>3 DEF Awaited
  <2>4. CASE Expires
    BY <1>0, <1>a, <2>4 DEF Expires
  <2>5. ASSUME NEW f \in fetches, Answered(f) PROVE Awaited'
    <3>1. /\ fetches' = (fetches \ {f}) \cup {[f EXCEPT !.list = ServerList]}
          /\ [f EXCEPT !.list = ServerList].generation = f.generation
      BY <1>0, <2>5 DEF Answered, Typed
    <3>2. (\A g \in fetches' : g.generation # generation) => (\A g \in fetches : g.generation # generation)
      BY <3>1
    <3> QED BY <1>b, <2>5, <3>2 DEF Answered
  <2>6. ASSUME NEW f \in fetches, Lands(f) PROVE Awaited'
    <3>1. CASE f.generation = generation
      BY <1>0, <1>a, <2>6, <3>1 DEF Lands
    <3>2. CASE f.generation # generation
      BY <1>b, <2>6, <3>2 DEF Lands
    <3> QED BY <3>1, <3>2
  <2> QED BY <1>1, <2>1, <2>2, <2>3, <2>4, <2>5, <2>6 DEF Environment
<1>2. CASE Reading
  <2>1. CASE ReadBegins
    <3>1. read'.at = "facts" /\ read'.generation = generation /\ read'.spanned = FALSE
      BY <2>1 DEF ReadBegins, NoRead
    <3>2. ~Stale(read)' /\ UNCHANGED <<index, gone>>
      BY <2>1, <3>1 DEF ReadBegins, Stale
    <3> QED BY <1>0, <3>1, <3>2 DEF Awaited
  <2>2. CASE ReadFacts
    <3>1. /\ read.at = "facts" /\ read'.at = "apply" /\ read'.generation = read.generation
          /\ read'.spanned = read.spanned /\ read'.facts.local = index
          /\ UNCHANGED <<index, gone, generation, queued, act>>
      BY <1>0, <2>2 DEF ReadFacts, Turn
    <3>2. UNCHANGED <<Stale(read), Busy>>
      BY <3>1 DEF Stale, Busy, Running
    <3> QED BY <1>0, <3>1, <3>2 DEF Awaited
  <2>3. CASE ReadShows
    <3>0. /\ read.at = "apply" /\ ~Detaching /\ read.facts \in FactsRead
          /\ UNCHANGED <<index, gone, session, generation, queued, act, fetches, Busy>>
      BY <1>0, <2>3 DEF ReadShows, Detaching, Turn, Busy, Running
    <3>1. CASE Stale(read)
      BY <1>0, <1>a, <3>0, <3>1
    <3>2. CASE ~Stale(read)
      <4>1. CASE Orphans(read.facts) # {}
        <5>1. Detaching'
          BY <1>0, <2>3, <3>2, <4>1 DEF ReadShows, Turn, Detaching
        <5> QED BY <1>0, <1>a, <3>0, <5>1
      <4>2. CASE Orphans(read.facts) = {}
        <5>1. CASE queued \/ Busy
          BY <1>0, <1>a, <3>0, <5>1
        <5>2. CASE ~queued /\ ~Busy
          <6>1. PICK f : f = read.facts
            OBVIOUS
          <6>2. f \in FactsRead /\ Apply(f) /\ facts' = f /\ f.local = index /\ read' = NoRead
            BY <1>0, <2>3, <3>0, <3>2, <4>2, <5>2, <6>1 DEF ReadShows
          <6>3. /\ view' \notin gone
                /\ session => manager'[generation].running = Synchronized(InputOf(f))
            BY <3>0, <5>2, <6>2, AppliedLeaves
          <6>4. Page' = InputOf(f)
            BY <3>0, <6>2 DEF Page, InputOf
          <6>5. read'.at = "idle"
            BY <6>2 DEF NoRead
          <6> QED BY <1>0, <3>0, <6>2, <6>3, <6>4, <6>5 DEF Awaited
        <5> QED BY <5>1, <5>2
      <4> QED BY <4>1, <4>2
    <3> QED BY <3>1, <3>2
  <2>4. ASSUME NEW d \in Projects, DetachBegins(d) PROVE Awaited'
    <3>1. Detaching' /\ UNCHANGED <<index, gone>>
      BY <1>0, <2>4 DEF DetachBegins, Turn, Detaching
    <3> QED BY <1>0, <1>a, <3>1
  <2>5. CASE DetachDone
    <3>1. Detaching'
      BY <1>0, <2>5 DEF DetachDone, Turn, Detaching
    <3>2. index' \cap gone' = {}
      BY <1>0, <2>5 DEF DetachDone
    <3> QED BY <1>a, <3>1, <3>2
  <2>6. CASE DetachFails \/ DetachResumes
    <3>1. Detaching' /\ UNCHANGED <<index, gone>>
      BY <1>0, <2>6 DEF DetachFails, DetachResumes, Turn, Detaching
    <3> QED BY <1>0, <1>a, <3>1
  <2>7. CASE DetachEnds
    <3>1. (queued' \/ Busy') /\ UNCHANGED <<index, gone>>
      BY <2>7 DEF DetachEnds, Busy, Running
    <3> QED BY <1>0, <1>a, <3>1
  <2> QED BY <1>2, <2>1, <2>2, <2>3, <2>4, <2>5, <2>6, <2>7 DEF Reading
<1>3. ASSUME NEW d \in Databases, Open(d) PROVE Awaited'
  <2>1. /\ view' = d /\ gone' = gone \ {d}
        /\ UNCHANGED <<index, session, generation, manager, facts, fetches, queued, read, act>>
    BY <1>3 DEF Open
  <2>2. UNCHANGED <<Stale(read), Busy, Page>>
    BY <2>1 DEF Stale, Busy, Running, Page, InputOf
  <2> QED BY <1>0, <2>1, <2>2 DEF Awaited
<1>4. ASSUME NEW w \in Workers, Choosing(w) PROVE Awaited'
  <2>a. ASSUME NEW kind \in {"download", "remove", "delete", "archive", "restore", "signOut"},
               NEW d \in Databases \cup {None}, NEW at \in {"list", "push", "destroy", "ask", "check"},
               Start(w, kind, d, at), UNCHANGED <<index, gone>>
        PROVE  Awaited'
    <3>1. act'[w].at = at
      BY <1>0, <2>a, StartIs
    <3>2. Busy'
      BY <3>1 DEF Busy, Running
    <3> QED BY <1>0, <1>a, <2>a, <3>2
  <2>1. ASSUME NEW d \in Databases,
               \/ Download(w, d) \/ RemoveLocal(w, d) \/ DeleteLocal(w, d) \/ RemoveServer(w, d)
               \/ Restore(w, d)
        PROVE  Awaited'
    <3>1. /\ \/ Start(w, "download", d, "list") \/ Start(w, "remove", d, "push")
             \/ Start(w, "delete", d, "destroy") \/ Start(w, "archive", d, "ask")
             \/ Start(w, "restore", d, "ask")
          /\ UNCHANGED <<index, gone>>
      BY <2>1 DEF Download, RemoveLocal, DeleteLocal, RemoveServer, Restore
    <3> QED BY <2>a, <3>1
  <2>2. CASE SignOut(w)
    BY <2>2, <2>a DEF SignOut
  <2> QED BY <1>4, <2>1, <2>2 DEF Choosing
<1>5. ASSUME NEW w \in Workers, Acting(w) PROVE Awaited'
  <2>a. ASSUME NEW at \in {"set", "destroy", "clear"}, Goto(w, at) PROVE Busy'
    <3>1. act'[w].at = at
      BY <1>0, <2>a, GotoIs
    <3> QED BY <3>1 DEF Busy, Running
  <2>b. ASSUME NEW fetch \in BOOLEAN, LetGo(w, fetch) PROVE queued' \/ Busy' \/ Detaching'
    <3>1. read'.at = read.at /\ (queued' \/ Busy' \/ Detaching)
      BY <1>0, <2>b, LetGoIs, SpannedIs
    <3> QED BY <3>1 DEF Detaching
  <2>1. CASE Lists(w) \/ Destroys(w)
    <3>1. Goto(w, "set") /\ index' \cap gone' = {}
      BY <1>0, <2>1 DEF Lists, Destroys
    <3> QED BY <1>a, <2>a, <3>1
  <2>2. CASE Pushes(w) \/ Patches(w) \/ Ends(w)
    <3>1. (Goto(w, "set") \/ Goto(w, "destroy") \/ Goto(w, "clear")) /\ UNCHANGED <<index, gone>>
      BY <2>2 DEF Pushes, Patches, Ends
    <3> QED BY <1>0, <1>a, <2>a, <3>1
  <2>3. CASE Refused(w) \/ Fails(w) \/ Sets(w) \/ Declined(w)
    <3>1. (LetGo(w, TRUE) \/ LetGo(w, FALSE)) /\ UNCHANGED <<index, gone>>
      BY <2>3 DEF Refused, Fails, Sets, Declined
    <3> QED BY <1>0, <1>a, <2>b, <3>1
  <2>4. CASE Clears(w)
    <3>1. queued' /\ index' \cap gone' = {}
      BY <1>0, <2>4 DEF Clears
    <3> QED BY <1>a, <3>1
  <2>5. CASE Refreshed(w)
    <3>1. /\ act[w].at = "refresh" /\ act' = [act EXCEPT ![w] = NoAct]
          /\ UNCHANGED <<index, session, generation, manager, facts, view, fetches, queued, read, gone>>
      BY <2>5 DEF Refreshed
    <3>2. UNCHANGED Busy
      <4>1. ~Running(w) /\ ~Running(w)'
        BY <1>0, <3>1, NoActIs DEF Running
      <4>2. \A v \in Workers \ {w} : Running(v) = Running(v)'
        BY <1>0, <3>1 DEF Running
      <4> QED BY <4>1, <4>2 DEF Busy
    <3>3. UNCHANGED <<Stale(read), Page>>
      BY <3>1 DEF Stale, Page, InputOf
    <3> QED BY <1>0, <3>1, <3>2, <3>3 DEF Awaited
  <2> QED BY <1>5, <2>1, <2>2, <2>3, <2>4, <2>5 DEF Acting
<1>6. CASE UNCHANGED vars
  BY <1>b, <1>6 DEF vars
<1> QED BY <1>1, <1>2, <1>3, <1>4, <1>5, <1>6 DEF Next

LEMMA BehindKept == Typed /\ Behind /\ [Next]_vars => Behind'
<1> SUFFICES ASSUME Typed, Behind, [Next]_vars PROVE Behind'
  OBVIOUS
<1> USE DEF session_vars, action_vars, history, shown_vars, list_vars
<1>0. Turn(read) /\ generation \in Nat /\ NoRead.generation = 0 /\ read.generation \in Nat
      /\ read.generation <= generation /\ Spanned.generation = read.generation
  BY SpannedIs DEF Typed, NoRead, Behind
<1>a. ASSUME generation' = generation,
             \/ read' = read \/ read' = Spanned \/ read' = NoRead
             \/ read'.generation \in {read.generation, generation}
      PROVE  Behind'
  BY <1>0, <1>a DEF Behind
<1>b. ASSUME EndSession, read' = read PROVE Behind'
  <2>1. generation' \in Nat /\ generation' >= generation
    BY <1>b, EndIs
  <2> QED BY <1>0, <1>b, <2>1 DEF Behind
<1>1. CASE Environment
  <2>1. CASE Expires
    BY <1>b, <2>1 DEF Expires
  <2>2. CASE ~Expires
    BY <1>1, <1>a, <2>2 DEF Environment, ServerMoves, Regains, SignIn, Answered, Lands
  <2> QED BY <2>1, <2>2
<1>2. CASE Reading
  <2>1. generation' = generation
    BY <1>2 DEF Reading, ReadBegins, ReadFacts, ReadShows, DetachBegins, DetachDone, DetachFails,
                DetachResumes, DetachEnds
  <2>2. CASE ReadBegins
    BY <1>a, <2>1, <2>2 DEF ReadBegins, NoRead
  <2>3. CASE ReadFacts
    BY <1>0, <1>a, <2>1, <2>3 DEF ReadFacts, Turn
  <2>4. CASE ReadShows
    BY <1>0, <1>a, <2>1, <2>4 DEF ReadShows, Turn
  <2>5. ASSUME NEW d \in Projects, DetachBegins(d) PROVE Behind'
    BY <1>0, <1>a, <2>1, <2>5 DEF DetachBegins, Turn
  <2>6. CASE DetachDone \/ DetachFails \/ DetachResumes
    BY <1>0, <1>a, <2>1, <2>6 DEF DetachDone, DetachFails, DetachResumes, Turn
  <2>7. CASE DetachEnds
    BY <1>a, <2>1, <2>7 DEF DetachEnds
  <2> QED BY <1>2, <2>2, <2>3, <2>4, <2>5, <2>6, <2>7 DEF Reading
<1>3. ASSUME NEW d \in Databases, Open(d) PROVE Behind'
  BY <1>3, <1>a DEF Open
<1>4. ASSUME NEW w \in Workers, Choosing(w) PROVE Behind'
  BY <1>4, <1>a DEF Choosing, Start, Download, RemoveLocal, DeleteLocal, RemoveServer, Restore, SignOut
<1>5. ASSUME NEW w \in Workers, Acting(w) PROVE Behind'
  <2>1. CASE Ends(w)
    BY <1>b, <2>1 DEF Ends
  <2>2. CASE ~Ends(w)
    BY <1>5, <1>a, <2>2 DEF Acting, Lists, Pushes, Refused, Destroys, Patches, Fails, Sets, Declined,
                            Clears, Refreshed, LetGo
  <2> QED BY <2>1, <2>2
<1>6. CASE UNCHANGED vars
  BY <1>6, <1>a DEF vars
<1> QED BY <1>1, <1>2, <1>3, <1>4, <1>5, <1>6 DEF Next

LEMMA IInvAtFirst == Init => IInv
<1> SUFFICES ASSUME Init PROVE IInv
  OBVIOUS
<1>1. Typed
  BY TypedAtFirst
<1>2. Managed
  BY NoActIs DEF Init, Managed
<1>3. Held
  BY DEF Init, Held
<1>4. Awaited
  BY DEF Init, Awaited, NoRead
<1>5. Behind
  BY DEF Init, Behind, NoRead
<1> QED BY <1>1, <1>2, <1>3, <1>4, <1>5 DEF IInv

LEMMA IInvKept == IInv /\ [Next]_vars => IInv'
BY TypedKept, ManagedKept, HeldKept, AwaitedKept, BehindKept DEF IInv

\* Once nothing is under way, whatever came before and in whatever order: the page shows what
\* the index lists, exactly what it shows as synchronized replicates and nothing is held still,
\* and the views are on no database that was destroyed.
THEOREM SettledOnceQuiet == Spec => []Settled
<1>1. IInv => Settled
  <2> SUFFICES ASSUME IInv, Quiet
               PROVE  /\ facts.local = index /\ view \notin gone
                      /\ session => /\ Of(Sync).running = Synchronized(Page)
                                    /\ Of(Sync).suspended = {}
    BY DEF Settled
  <2>1. /\ facts.local = index /\ view \notin gone
        /\ session => manager[generation].running = Synchronized(Page)
    BY DEF IInv, Awaited, Quiet
  <2>2. ~Busy /\ ~Detaching /\ Typed /\ Held
    BY DEF IInv, Quiet, Detaching
  <2>3. session => Of(Sync) = manager[generation] /\ manager[generation].suspended = {}
    BY <2>2, NothingHeld
  <2> QED BY <2>1, <2>3
<1> QED BY <1>1, IInvAtFirst, IInvKept, PTL DEF Spec
-------------------------------------------------------------------------------
(* 7. What was removed is handed over no more, of one action at a time.         *)

\* What the server has deleted stays deleted.
LEMMA GoneForGood == Typed /\ [Next]_vars /\ NoneGone' => NoneGone
<1> SUFFICES ASSUME Typed, [Next]_vars, NEW p \in Projects, server[p] = "gone"
             PROVE  server'[p] = "gone"
  BY DEF NoneGone
<1>0. server \in [Projects -> {"active", "archived", "gone"}]
  BY DEF Typed
<1>1. CASE server' = server
  BY <1>1
<1>2. ASSUME NEW q \in Projects, ServerMoves(q) PROVE server'[p] = "gone"
  BY <1>0, <1>2 DEF ServerMoves
<1>3. ASSUME NEW w \in Workers, Patches(w) PROVE server'[p] = "gone"
  BY <1>0, <1>3 DEF Patches
<1>4. Environment => server' = server \/ \E q \in Projects : ServerMoves(q)
  BY DEF Environment, Regains, SignIn, Expires, Answered, Lands
<1>5. Reading \/ (\E d \in Databases : Open(d)) => server' = server
  BY DEF Reading, ReadBegins, ReadFacts, ReadShows, DetachBegins, DetachDone, DetachFails,
         DetachResumes, DetachEnds, Open
<1>6. ASSUME NEW w \in Workers PROVE Choosing(w) => server' = server
  BY DEF Choosing, Download, RemoveLocal, DeleteLocal, RemoveServer, Restore, SignOut
<1>7. ASSUME NEW w \in Workers PROVE Acting(w) => server' = server \/ Patches(w)
  BY DEF Acting, Lists, Pushes, Refused, Destroys, Fails, Sets, Declined, Ends, Clears, Refreshed
<1> QED BY <1>1, <1>2, <1>3, <1>4, <1>5, <1>6, <1>7 DEF Next, vars

LEMMA ListsStayComplete == Typed /\ NoneGone /\ ListsComplete /\ [Next]_vars => ListsComplete'
<1> SUFFICES ASSUME Typed, NoneGone, ListsComplete, [Next]_vars PROVE ListsComplete'
  OBVIOUS
<1> USE DEF session_vars, action_vars, history, shown_vars, list_vars
<1>0. /\ Complete(fresh) /\ Complete(cached) /\ Complete(facts.list)
      /\ \A f \in fetches : Complete(f.list)
      /\ read.at = "apply" => Complete(read.facts.list)
      /\ ~Detaching /\ Complete(None) /\ Turn(read)
  BY DEF ListsComplete, Complete, Typed
<1>a. ASSUME UNCHANGED <<fresh, cached, facts>>, \A f \in fetches' : Complete(f.list),
             read' = read \/ read' = Spanned
      PROVE  ListsComplete'
  <2>1. read'.at = read.at /\ read'.facts = read.facts
    BY <1>0, <1>a, SpannedIs
  <2> QED BY <1>0, <1>a, <2>1 DEF ListsComplete, Complete, Detaching
<1>b. \A f \in Fetch : Complete(f.list)
  BY <1>0 DEF Fetch
<1>1. CASE Environment
  <2>1. ASSUME NEW p \in Projects, ServerMoves(p) PROVE ListsComplete'
    BY <1>0, <1>a, <2>1 DEF ServerMoves
  <2>2. CASE Regains \/ SignIn
    BY <1>a, <1>b, <2>2 DEF Regains, SignIn
  <2>3. CASE Expires
    <3>1. fresh' = None /\ UNCHANGED <<cached, facts, fetches, read>>
      BY <2>3, EndIs DEF Expires
    <3> QED BY <1>0, <3>1 DEF ListsComplete, Complete, Detaching
  <2>4. ASSUME NEW f \in fetches, Answered(f) PROVE ListsComplete'
    <3>1. [f EXCEPT !.list = ServerList].list = ServerList
      BY DEF Typed
    <3>2. Complete(ServerList)
      <4> SUFFICES ASSUME NEW p \in Projects PROVE \E c \in ServerList : c.id = p
        BY DEF Complete
      <4> DEFINE c == [id |-> p, role |-> RoleOf(p), archived |-> server[p] = "archived",
                       readOnly |-> FALSE, grace |-> FALSE]
      <4>1. c \in ServerList
        BY Zenon DEF ServerList, NoneGone
      <4>2. c.id = p
        OBVIOUS
      <4> QED BY <4>1, <4>2
    <3> QED BY <1>0, <1>a, <2>4, <3>1, <3>2 DEF Answered
  <2>5. ASSUME NEW f \in fetches, Lands(f) PROVE ListsComplete'
    <3>1. Complete(f.list)
      BY <1>0
    <3>2. Complete(fresh') /\ Complete(cached') /\ UNCHANGED <<facts, read>> /\ fetches' \subseteq fetches
      BY <1>0, <2>5, <3>1 DEF Lands
    <3> QED BY <1>0, <3>2 DEF ListsComplete, Complete, Detaching
  <2> QED BY <1>1, <2>1, <2>2, <2>3, <2>4, <2>5 DEF Environment
<1>2. CASE Reading
  <2>1. CASE ReadBegins
    <3>1. read'.at = "facts" /\ UNCHANGED <<fresh, cached, facts, fetches>>
      BY <2>1 DEF ReadBegins, NoRead
    <3> QED BY <1>0, <3>1 DEF ListsComplete, Complete, Detaching
  <2>2. CASE ReadFacts
    <3>1. /\ read'.at = "apply" /\ UNCHANGED <<fresh, cached, facts, fetches>>
          /\ read'.facts.list \in {fresh, cached, None}
      BY <1>0, <2>2 DEF ReadFacts, Turn
    <3> QED BY <1>0, <3>1 DEF ListsComplete, Complete, Detaching
  <2>3. CASE ReadShows
    <3>1. Orphans(read.facts) = {}
      BY <1>0, <2>3, OrphansHere DEF ReadShows, Turn
    <3>2. /\ read' = NoRead /\ UNCHANGED <<fresh, cached, fetches>>
          /\ facts' = facts \/ facts' = read.facts
      BY <2>3, <3>1 DEF ReadShows
    <3>3. Complete(facts'.list) /\ read'.at = "idle"
      BY <1>0, <2>3, <3>2 DEF ReadShows, NoRead
    <3> QED BY <1>0, <3>2, <3>3 DEF ListsComplete, Complete, Detaching
  <2>4. \A d \in Projects : ~DetachBegins(d)
    BY <1>0 DEF Detaching, DetachBegins
  <2>5. ~(DetachDone \/ DetachFails \/ DetachResumes \/ DetachEnds)
    BY <1>0 DEF Detaching, DetachDone, DetachFails, DetachResumes, DetachEnds
  <2> QED BY <1>2, <2>1, <2>2, <2>3, <2>4, <2>5 DEF Reading
<1>3. ASSUME NEW d \in Databases, Open(d) PROVE ListsComplete'
  BY <1>0, <1>a, <1>3 DEF Open
<1>4. ASSUME NEW w \in Workers, Choosing(w) PROVE ListsComplete'
  BY <1>0, <1>4, <1>a DEF Choosing, Start, Download, RemoveLocal, DeleteLocal, RemoveServer, Restore, SignOut
<1>5. ASSUME NEW w \in Workers, Acting(w) PROVE ListsComplete'
  <2>1. CASE Lists(w) \/ Pushes(w) \/ Destroys(w) \/ Patches(w) \/ Refreshed(w)
    BY <1>0, <1>a, <2>1 DEF Lists, Pushes, Destroys, Patches, Refreshed
  <2>2. CASE Refused(w) \/ Fails(w) \/ Sets(w) \/ Declined(w)
    <3>1. (LetGo(w, TRUE) \/ LetGo(w, FALSE)) /\ UNCHANGED <<fresh, cached, facts>>
      BY <2>2 DEF Refused, Fails, Sets, Declined
    <3>2. read' = Spanned /\ (fetches' = fetches \/ fetches' = Fetch)
      BY <3>1 DEF LetGo
    <3> QED BY <1>0, <1>a, <1>b, <3>1, <3>2
  <2>3. CASE Ends(w)
    <3>1. fresh' = None /\ UNCHANGED <<cached, facts, fetches, read>>
      BY <2>3, EndIs DEF Ends
    <3> QED BY <1>0, <3>1 DEF ListsComplete, Complete, Detaching
  <2>4. CASE Clears(w)
    <3>1. fetches' = {} /\ cached' = None /\ UNCHANGED <<fresh, facts>> /\ read' = Spanned
      BY <2>4 DEF Clears
    <3>2. read'.at = read.at /\ read'.facts = read.facts
      BY <1>0, <3>1, SpannedIs
    <3> QED BY <1>0, <3>1, <3>2 DEF ListsComplete, Complete, Detaching
  <2> QED BY <1>5, <2>1, <2>2, <2>3, <2>4 DEF Acting
<1>6. CASE UNCHANGED vars
  BY <1>0, <1>6, <1>a DEF vars
<1> QED BY <1>1, <1>2, <1>3, <1>4, <1>5, <1>6 DEF Next

LEMMA KeptStays ==
  ASSUME NEW page, Workers = {page}, IInv, NoneGone, ListsComplete, Kept(act[page]), [Next]_vars
  PROVE  Kept(act[page])'
<1> USE DEF session_vars, action_vars, history, shown_vars, list_vars
<1> DEFINE a == act[page]
           b == act'[page]
           M == manager[generation]
           N == manager'[generation']
           Out1 == removed' \cap Projects
           Handed(c) == \/ c.at \in {"push", "destroy"}
                        \/ c.kind = "restore" /\ c.at \in {"ask", "set"}
                        \/ c.kind = "download" /\ c.at = "set"
<1>0. /\ Typed /\ Held /\ Managed /\ page \in Workers /\ Turn(read) /\ facts \in FactsRead
      /\ act \in [Workers -> Action] /\ a \in Action /\ ActShape(a)
      /\ session \in BOOLEAN /\ M \in Manager /\ generation \in 0..(MaxTurns + 1) /\ generation # 0
      /\ ~Detaching
  BY SessionNow, PageAssumption DEF IInv, Typed, ListsComplete, Generations
<1>1. /\ Out \cap index = {}
      /\ Out \cap facts.local = {} \/ a.at = "refresh" \/ Removing(a)
      /\ read.at = "apply" => Stale(read) \/ Out \cap read.facts.local = {} \/ Removing(a)
      /\ Out \cap a.rows \subseteq {a.project}
      /\ Handed(a) => a.project \notin Out
      /\ session => /\ Out \cap M.running = {} \/ (Removing(a) /\ Out \cap M.running \subseteq {a.project})
                    /\ a.at \notin {"idle", "refresh"} /\ a.sync # generation => M.running = {}
  BY DEF Kept
<1>2. ASSUME Out1 \cap index' = {},
             Out1 \cap facts'.local = {} \/ b.at = "refresh" \/ Removing(b),
             read'.at = "apply" => Stale(read)' \/ Out1 \cap read'.facts.local = {} \/ Removing(b),
             Out1 \cap b.rows \subseteq {b.project},
             Handed(b) => b.project \notin Out1,
             session' => /\ Out1 \cap N.running = {} \/ (Removing(b) /\ Out1 \cap N.running \subseteq {b.project})
                         /\ b.at \notin {"idle", "refresh"} /\ b.sync # generation' => N.running = {}
      PROVE  Kept(act[page])'
  BY <1>2 DEF Kept, Out, Removing
\* The one action there is: none runs unless it does.
<1>3. Busy <=> Running(page)
  BY DEF Busy
<1>4. ~Busy => a.at \in {"idle", "refresh"} /\ ~Removing(a)
  BY <1>3 DEF Running, Removing
\* A read is stale for good.
<1>5. ASSUME read' = read \/ read' = Spanned, read'.at = "apply", generation' \in {generation, generation + 1}
      PROVE  read.at = "apply" /\ read'.facts = read.facts /\ (Stale(read) => Stale(read)' \/ generation' # generation)
             /\ (read' = Spanned => Stale(read)')
  BY <1>0, <1>5, SpannedIs DEF Stale
<1> HIDE DEF Handed
\* A step that leaves the action, the index, what is shown and what was removed alone.
<1>6. ASSUME UNCHANGED <<index, session, generation, act, removed>>, N = M \/ N.running \subseteq M.running,
             Out \cap facts'.local = {} \/ a.at = "refresh" \/ Removing(a),
             read'.at = "apply" => Stale(read)' \/ Out \cap read'.facts.local = {} \/ Removing(a)
      PROVE  Kept(act[page])'
  <2>1. b = a /\ Out1 = Out /\ N.running \subseteq M.running
    BY <1>6 DEF Out
  <2> HIDE DEF a, b, M, N, Out1
  <2> QED BY <1>1, <1>2, <1>6, <2>1
<1>7. ASSUME UNCHANGED <<index, session, generation, manager, facts, read, act, removed>>
      PROVE  Kept(act[page])'
  <2>1. UNCHANGED Stale(read)
    BY <1>7 DEF Stale
  <2> QED BY <1>1, <1>6, <1>7, <2>1
\* An action begins. What it is about, and what it will hand over, is on the page.
<1>8. ASSUME NEW w \in Workers, NEW kind \in {"download", "remove", "delete", "archive", "restore", "signOut"},
             NEW d \in Databases \cup {None}, NEW at \in {"list", "push", "destroy", "ask", "check"},
             Start(w, kind, d, at), UNCHANGED <<index, session, generation, facts, removed>>,
             at \in {"push", "destroy"} \/ kind = "restore" => d \in facts.local,
             N.running \subseteq M.running
      PROVE  Kept(act[page])'
  <2>1. w = page /\ a.at = "idle" /\ ~Removing(a)
    BY <1>8 DEF Start, Removing
  <2>2. /\ b.kind = kind /\ b.project = d /\ b.at = at /\ b.sync = Sync
        /\ b.rows = Synchronized(Page) /\ read' = Spanned
    BY <1>0, <1>8, <2>1, StartIs
  <2>3. Out1 = Out /\ Out \cap facts.local = {}
    BY <1>1, <1>8, <2>1 DEF Out
  <2>4. Synchronized(Page) \subseteq facts.local
    BY <1>0, SynchronizedHere DEF Page
  <2>5. Out1 \cap b.rows = {} /\ (Handed(b) => b.project \notin Out1)
    BY <1>8, <2>2, <2>3, <2>4 DEF Handed
  <2>6. read'.at = "apply" => Stale(read)'
    BY <1>5, <1>8, <2>2
  <2>7. session => Sync = generation /\ Out \cap M.running = {}
    BY <1>0, <1>1, <2>1, SessionNow
  <2> HIDE DEF a, b, M, N, Out1
  <2> QED BY <1>1, <1>2, <1>8, <2>2, <2>3, <2>5, <2>6, <2>7
\* The action goes on to its next step.
<1>9. ASSUME NEW at \in {"set", "destroy"}, Goto(page, at), UNCHANGED <<session, generation, manager, facts, read>>,
             Out1 \cap index' = {},
             \/ Removing(b) /\ Out1 \subseteq Out \cup {a.project}
             \/ ~Removing(a) /\ Out1 \subseteq Out,
             a.at \in {"list", "push", "destroy", "ask"},
             Handed(b) => a.project \notin Out1
      PROVE  Kept(act[page])'
  <2>1. b.kind = a.kind /\ b.project = a.project /\ b.at = at /\ b.sync = a.sync /\ b.rows = a.rows
    BY <1>0, <1>9, GotoIs
  <2>2. N = M /\ ~Removing(a) /\ a.at # "refresh" /\ UNCHANGED Stale(read)
    BY <1>9 DEF Removing, Stale
  <2>3. Out1 \cap b.rows \subseteq {b.project}
    BY <1>1, <1>9, <2>1
  <2>4. session => \/ Out1 \cap M.running = {}
                   \/ Removing(b) /\ Out1 \cap M.running \subseteq {b.project}
    BY <1>1, <1>9, <2>1, <2>2
  <2>5. Out1 \cap facts'.local = {} \/ Removing(b)
    BY <1>1, <1>9, <2>2
  <2>6. read'.at = "apply" => Stale(read)' \/ Out1 \cap read'.facts.local = {} \/ Removing(b)
    BY <1>1, <1>9, <2>2
  <2>7. session' => (b.at \notin {"idle", "refresh"} /\ b.sync # generation' => N.running = {})
    BY <1>1, <1>9, <2>1, <2>2
  <2> HIDE DEF a, b, M, N, Out1
  <2> QED BY <1>2, <1>9, <2>1, <2>2, <2>3, <2>4, <2>5, <2>6, <2>7
\* The action lets go.
<1>10. ASSUME NEW fetch \in BOOLEAN, LetGo(page, fetch), UNCHANGED <<index, session, generation, facts, removed>>,
              fetch \/ a.at \in {"push", "destroy", "ask", "check"},
              session => Out \cap N.running = {}
       PROVE  Kept(act[page])'
  <2>1. /\ b.at = (IF fetch THEN "refresh" ELSE "idle") /\ b.rows = {} /\ b.kind = "none"
        /\ b.at \in {"idle", "refresh"} /\ read' = Spanned
    BY <1>0, <1>10, LetGoIs, NoActIs DEF Action
  <2>2. Out1 = Out
    BY <1>10 DEF Out
  <2>3. read'.at = "apply" => Stale(read)'
    BY <1>5, <1>10, <2>1
  <2>4. Out1 \cap facts'.local = {} \/ b.at = "refresh"
    BY <1>1, <1>10, <2>1, <2>2 DEF Removing
  <2>5. ~Handed(b)
    BY <2>1 DEF Handed
  <2> HIDE DEF a, b, M, N, Out1
  <2> QED BY <1>1, <1>2, <1>10, <2>1, <2>2, <2>3, <2>4, <2>5
\* The session ends: what is read under it is stale.
<1>11. ASSUME EndSession, UNCHANGED <<index, facts, read, removed>>,
              b = a \/ (a.at = "check" /\ b.at = "clear"),
              b.kind = a.kind, b.project = a.project, b.rows = a.rows
       PROVE  Kept(act[page])'
  <2>2. Stale(read) => Stale(read)'
    <3>1. read.generation \in Nat /\ read.generation <= generation
      BY DEF IInv, Behind
    <3>2. generation \in Nat /\ generation' \in {generation, generation + 1}
      BY <1>0, <1>11, EndIs DEF Typed
    <3> QED BY <1>11, <3>1, <3>2 DEF Stale
  <2>3. Removing(b) <=> Removing(a)
    BY <1>11 DEF Removing
  <2>4. (a.at = "refresh" => b.at = "refresh") /\ (Handed(b) => Handed(a))
    BY <1>11 DEF Handed
  <2>5. ~session' /\ Out1 = Out
    BY <1>0, <1>11, EndIs DEF Out
  <2> HIDE DEF a, b, M, N, Out1
  <2> QED BY <1>1, <1>2, <1>11, <2>2, <2>3, <2>4, <2>5
<1>12. CASE Environment
  <2>1. ASSUME NEW p \in Projects, ServerMoves(p) PROVE Kept(act[page])'
    BY <1>7, <2>1 DEF ServerMoves
  <2>2. CASE Regains
    BY <1>7, <2>2 DEF Regains
  <2>3. CASE SignIn
    <3>1. ~session /\ UNCHANGED <<index, generation, manager, facts, read, act, removed>>
      BY <2>3 DEF SignIn
    <3>2. M = Quit
      BY <1>0, <3>1, SessionNow DEF Managed
    <3>3. N = M /\ N.running = {} /\ b = a /\ Out1 = Out /\ UNCHANGED Stale(read)
      BY <3>1, <3>2 DEF Quit, Out, Stale
    <3> HIDE DEF a, b, M, N, Out1
    <3> QED BY <1>1, <1>2, <3>1, <3>3
  <2>4. CASE Expires
    <3>1. EndSession /\ UNCHANGED <<index, facts, read, act, removed>>
      BY <2>4 DEF Expires
    <3> QED BY <1>11, <3>1
  <2>5. ASSUME NEW f \in fetches, Answered(f) \/ Lands(f) PROVE Kept(act[page])'
    BY <1>7, <2>5 DEF Answered, Lands
  <2> QED BY <1>12, <2>1, <2>2, <2>3, <2>4, <2>5 DEF Environment
<1>13. CASE Reading
  <2>1. CASE ReadBegins
    <3>1. /\ UNCHANGED <<index, session, generation, manager, facts, act, removed>>
          /\ read'.at = "facts"
      BY <2>1 DEF ReadBegins, NoRead
    <3> QED BY <1>1, <1>6, <3>1
  <2>2. CASE ReadFacts
    <3>1. /\ UNCHANGED <<index, session, generation, manager, facts, act, removed>>
          /\ read'.facts.local = index
      BY <1>0, <2>2 DEF ReadFacts, Turn
    <3> QED BY <1>1, <1>6, <3>1
  <2>3. CASE ReadShows
    <3>1. /\ UNCHANGED <<index, session, generation, act, removed>> /\ read.facts \in FactsRead
          /\ read.at = "apply"
      BY <1>0, <2>3 DEF ReadShows, Turn
    <3>2. Orphans(read.facts) = {}
      BY <3>1, OrphansHere DEF ListsComplete
    <3>3. CASE Stale(read)
      <4>1. UNCHANGED <<manager, facts>> /\ read'.at = "idle"
        BY <2>3, <3>3 DEF ReadShows, NoRead
      <4> QED BY <1>1, <1>6, <3>1, <4>1
    <3>4. CASE ~Stale(read)
      <4>1. PICK f : f = read.facts
        OBVIOUS
      <4>2. f \in FactsRead /\ Apply(f) /\ facts' = f /\ read'.at = "idle"
        BY <2>3, <3>1, <3>2, <3>4, <4>1 DEF ReadShows, NoRead
      <4>3. Out \cap f.local = {} \/ Removing(a)
        BY <1>1, <3>1, <3>4, <4>1
      <4>4. CASE Busy
        <5>1. manager' = manager
          BY <4>2, <4>4 DEF Apply
        <5> QED BY <1>6, <3>1, <4>2, <4>3, <5>1
      <4>5. CASE ~Busy
        <5>1. manager' = With(Sync, SetTo(Of(Sync), Synchronized(InputOf(f))))
          BY <4>2, <4>5 DEF Apply
        <5>2. PICK m : m = SetTo(Of(Sync), Synchronized(InputOf(f)))
          OBVIOUS
        <5>3. m \in Manager /\ m.running \subseteq f.local
          BY <1>0, <4>2, <5>2, SetToIs, OfIs, SessionNow, SynchronizedHere
        <5>4. session => N = m
          BY <1>0, <3>1, <5>1, <5>2, <5>3, WithIs, SessionNow
        <5>5. Out \cap f.local = {} /\ a.at \in {"idle", "refresh"} /\ Out1 = Out /\ b = a
          BY <1>4, <3>1, <4>3, <4>5 DEF Out
        <5>6. session' = session /\ (session => Out \cap N.running = {})
          BY <3>1, <5>3, <5>4, <5>5
        <5> HIDE DEF a, b, M, N, Out1
        <5> QED BY <1>1, <1>2, <3>1, <4>2, <5>5, <5>6
      <4> QED BY <4>4, <4>5
    <3> QED BY <3>3, <3>4
  <2>4. (\A d \in Projects : ~DetachBegins(d)) /\ ~DetachDone /\ ~DetachFails /\ ~DetachResumes /\ ~DetachEnds
    BY <1>0 DEF Detaching, DetachBegins, DetachDone, DetachFails, DetachResumes, DetachEnds
  <2> QED BY <1>13, <2>1, <2>2, <2>3, <2>4 DEF Reading
<1>14. ASSUME NEW d \in Databases, Open(d) PROVE Kept(act[page])'
  BY <1>7, <1>14 DEF Open
<1>15. ASSUME NEW w \in Workers, Choosing(w) PROVE Kept(act[page])'
  <2>a. ASSUME NEW d \in Projects, UNCHANGED generation,
               manager' = manager \/ manager' = With(Sync, Suspend(Of(Sync), d))
        PROVE  N.running \subseteq M.running
    <3>1. PICK m : m = Suspend(Of(Sync), d)
      OBVIOUS
    <3>2. m \in Manager /\ m.running \subseteq Of(Sync).running
      BY <1>0, <3>1, SuspendIs, OfIs, SessionNow
    <3>3. With(Sync, m)[generation] = (IF generation = Sync THEN m ELSE M)
      BY <1>0, <3>2, WithIs, SessionNow
    <3>4. Sync = generation => Of(Sync) = M
      BY <1>0 DEF Of
    <3> QED BY <2>a, <3>1, <3>2, <3>3, <3>4
  <2>1. ASSUME NEW d \in Databases, Download(w, d) \/ RemoveServer(w, d) PROVE Kept(act[page])'
    <3>1. /\ Start(w, "download", d, "list") \/ Start(w, "archive", d, "ask")
          /\ UNCHANGED <<index, session, generation, facts, removed>> /\ N.running \subseteq M.running
      BY <2>1 DEF Download, RemoveServer
    <3> QED BY <1>8, <3>1
  <2>2. ASSUME NEW d \in Databases, RemoveLocal(w, d) PROVE Kept(act[page])'
    <3>1. d \in Projects /\ d \in facts.local
      BY <1>0, <2>2, OfferedIs DEF RemoveLocal
    <3>2. /\ Start(w, "remove", d, "push") /\ UNCHANGED <<index, session, generation, facts, removed>>
          /\ N.running \subseteq M.running
      BY <2>2, <2>a, <3>1 DEF RemoveLocal
    <3> QED BY <1>8, <3>1, <3>2
  <2>3. ASSUME NEW d \in Databases, DeleteLocal(w, d) PROVE Kept(act[page])'
    <3>1. d \in facts.local
      BY <1>0, <2>3, OfferedIs DEF DeleteLocal
    <3>2. /\ Start(w, "delete", d, "destroy") /\ UNCHANGED <<index, session, generation, facts, removed>>
          /\ manager' = IF d \in Projects THEN With(Sync, Suspend(Of(Sync), d)) ELSE manager
      BY <2>3 DEF DeleteLocal
    <3>3. N.running \subseteq M.running
      <4>1. CASE d \in Projects
        BY <2>a, <3>2, <4>1
      <4>2. CASE d \notin Projects
        BY <3>2, <4>2
      <4> QED BY <4>1, <4>2
    <3> QED BY <1>8, <3>1, <3>2, <3>3
  <2>4. ASSUME NEW d \in Databases, Restore(w, d) PROVE Kept(act[page])'
    <3>1. d \in facts.local
      BY <1>0, <2>4, OfferedIs DEF Restore
    <3>2. /\ Start(w, "restore", d, "ask") /\ UNCHANGED <<index, session, generation, facts, removed>>
          /\ N.running \subseteq M.running
      BY <2>4 DEF Restore
    <3> QED BY <1>8, <3>1, <3>2
  <2>5. CASE SignOut(w)
    <3>1. /\ Start(w, "signOut", None, "check") /\ UNCHANGED <<index, session, generation, facts, removed>>
          /\ N.running \subseteq M.running
      BY <2>5 DEF SignOut
    <3> QED BY <1>8, <3>1
  <2> QED BY <1>15, <2>1, <2>2, <2>3, <2>4, <2>5 DEF Choosing
<1>16. CASE Acting(page)
  <2>0. a.sync \in 0..(MaxTurns + 1) /\ a.project \in Databases \cup {None}
    BY <1>0 DEF Action
  <2>1. CASE Lists(page)
    <3>1. /\ a.at = "list" /\ a.kind = "download" /\ a.project \in Projects /\ Goto(page, "set")
          /\ index' = index \cup {a.project} /\ removed' = removed \ {a.project}
          /\ UNCHANGED <<session, generation, manager, facts, read>>
      BY <1>0, <2>1 DEF Lists, ActShape
    <3>2. Out1 = Out \ {a.project} /\ ~Removing(a)
      BY <3>1 DEF Out, Removing
    <3> QED BY <1>1, <1>9, <3>1, <3>2
  <2>2. CASE Pushes(page)
    <3>1. /\ a.at = "push" /\ Goto(page, "destroy")
          /\ UNCHANGED <<index, removed, session, generation, manager, facts, read>>
      BY <2>2 DEF Pushes
    <3>2. Out1 = Out /\ ~Removing(a) /\ Handed(a)
      BY <3>1 DEF Out, Removing, Handed
    <3> QED BY <1>1, <1>9, <3>1, <3>2
  <2>3. CASE Destroys(page)
    <3>1. /\ a.at = "destroy" /\ a.kind \in {"remove", "delete"} /\ Goto(page, "set")
          /\ index' = index \ {a.project} /\ removed' = removed \cup {a.project}
          /\ UNCHANGED <<session, generation, manager, facts, read>>
      BY <1>0, <2>3 DEF Destroys, ActShape
    <3>2. b.kind = a.kind /\ b.at = "set"
      BY <1>0, <3>1, GotoIs
    <3>3. Out1 \cap index' = {} /\ Out1 \subseteq Out \cup {a.project} /\ Removing(b) /\ ~Handed(b)
      BY <1>1, <3>1, <3>2 DEF Out, Removing, Handed
    <3> QED BY <1>9, <3>1, <3>3
  <2>4. CASE Patches(page)
    <3>1. /\ a.at = "ask" /\ a.kind \in {"archive", "restore"} /\ Goto(page, "set")
          /\ UNCHANGED <<index, removed, session, generation, manager, facts, read>>
      BY <1>0, <2>4 DEF Patches, ActShape
    <3>2. b.kind = a.kind /\ b.at = "set"
      BY <1>0, <3>1, GotoIs
    <3>3. Out1 = Out /\ ~Removing(a) /\ (Handed(b) => Handed(a))
      BY <3>1, <3>2 DEF Out, Removing, Handed
    <3> QED BY <1>1, <1>9, <3>1, <3>3
  <2>5. CASE Refused(page)
    <3>1. /\ a.at \in {"push", "destroy"} /\ LetGo(page, FALSE) /\ a.project \in Databases
          /\ UNCHANGED <<index, removed, session, generation, facts>>
          /\ manager' = With(a.sync, Resume(Of(a.sync), a.project))
      BY <1>0, <2>5 DEF Refused, ActShape, Databases
    <3>2. PICK m : m = Resume(Of(a.sync), a.project)
      OBVIOUS
    <3>3. m \in Manager /\ m.running \subseteq Of(a.sync).running \cup {a.project}
      BY <1>0, <2>0, <3>1, <3>2, ResumeIs, OfIs
    <3>4. N = IF a.sync = generation THEN m ELSE M
      BY <1>0, <2>0, <3>1, <3>2, <3>3, WithIs, SessionNow
    <3>5. a.sync = generation => Of(a.sync) = M
      BY <1>0 DEF Of
    <3>6. a.project \notin Out /\ ~Removing(a)
      BY <1>1, <3>1 DEF Handed, Removing
    <3>7. session => Out \cap N.running = {}
      BY <1>1, <3>3, <3>4, <3>5, <3>6
    <3> QED BY <1>10, <3>1, <3>7
  <2>6. CASE Fails(page) \/ Declined(page)
    <3>1. /\ a.at \in {"ask", "check"} /\ LetGo(page, FALSE)
          /\ UNCHANGED <<index, removed, session, generation, manager, facts>>
      BY <2>6 DEF Fails, Declined
    <3>2. session => Out \cap N.running = {}
      BY <1>1, <3>1 DEF Removing
    <3> QED BY <1>10, <3>1, <3>2
  <2>7. CASE Sets(page)
    <3>1. /\ a.at = "set" /\ LetGo(page, TRUE) /\ a.project \in Databases
          /\ a.kind \in {"download", "remove", "delete", "archive", "restore"}
          /\ UNCHANGED <<index, removed, session, generation, facts>>
      BY <1>0, <2>7 DEF Sets, ActShape
    <3>2. session => Out \cap N.running = {}
      <4> SUFFICES ASSUME session PROVE Out \cap N.running = {}
        OBVIOUS
      <4>1. CASE a.project \in LocalOnly
        <5>1. N = M /\ a.project \notin Projects
          BY <2>7, <3>1, <4>1, PageAssumption DEF Sets
        <5> QED BY <1>1, <5>1 DEF Out
      <4>2. CASE a.project \notin LocalOnly /\ a.sync = generation
        <5>1. a.project \in Projects
          BY <3>1, <4>2 DEF Databases
        <5>2. PICK n : n = SetTo(M, Wanted(a))
          OBVIOUS
        <5>3. n \in Manager /\ n.running \subseteq Wanted(a) /\ n.known = Wanted(a)
          BY <1>0, <5>1, <5>2, WantedIs, SetToIs
        <5>4. PICK m : m = Resume(n, a.project)
          OBVIOUS
        <5>5. m \in Manager /\ m.running \subseteq Wanted(a)
          BY <5>1, <5>3, <5>4, ResumeIs
        <5>6. manager' = With(a.sync, m)
          BY <1>0, <2>7, <4>2, <5>2, <5>4 DEF Sets, Of
        <5>7. N = m
          BY <1>0, <2>0, <3>1, <4>2, <5>5, <5>6, WithIs, SessionNow
        <5>8. Out \cap Wanted(a) = {}
          <6>1. CASE a.kind \in {"download", "restore"}
            BY <1>1, <3>1, <6>1 DEF Handed, Wanted
          <6>2. CASE a.kind \notin {"download", "restore"}
            BY <1>1, <3>1, <6>2 DEF Wanted
          <6> QED BY <6>1, <6>2
        <5> QED BY <5>5, <5>7, <5>8
      <4>3. CASE a.project \notin LocalOnly /\ a.sync # generation
        <5>1. M.running = {}
          BY <1>1, <3>1, <4>3
        <5>2. a.project \in Projects
          BY <3>1, <4>3 DEF Databases
        <5>3. PICK m : m = Resume(SetTo(Of(a.sync), Wanted(a)), a.project)
          OBVIOUS
        <5>4. m \in Manager /\ manager' = With(a.sync, m)
          BY <1>0, <2>0, <2>7, <4>3, <5>2, <5>3, WantedIs, SetToIs, ResumeIs, OfIs DEF Sets
        <5>5. N = M
          BY <1>0, <2>0, <3>1, <4>3, <5>4, WithIs, SessionNow
        <5> QED BY <5>1, <5>5
      <4> QED BY <4>1, <4>2, <4>3
    <3> QED BY <1>10, <3>1, <3>2
  <2>8. CASE Ends(page)
    <3>1. /\ a.at = "check" /\ EndSession /\ Goto(page, "clear")
          /\ UNCHANGED <<index, facts, read, removed>>
      BY <2>8 DEF Ends
    <3>2. b.at = "clear" /\ b.kind = a.kind /\ b.project = a.project /\ b.rows = a.rows
      BY <1>0, <3>1, GotoIs
    <3> QED BY <1>11, <3>1, <3>2
  <2>9. CASE Clears(page)
    <3>1. /\ a.at = "clear" /\ index' = index \ Projects /\ act' = [act EXCEPT ![page] = NoAct]
          /\ read' = Spanned /\ UNCHANGED <<session, generation, manager, facts, removed>>
      BY <2>9 DEF Clears
    <3>2. b = NoAct /\ ~Removing(a) /\ ~Handed(b)
      BY <1>0, <3>1, NoActIs DEF Removing, Handed
    <3>3. read'.at = "apply" => Stale(read)'
      BY <1>5, <3>1
    <3>4. Out1 = Out /\ N = M
      BY <3>1 DEF Out
    <3> HIDE DEF a, b, M, N, Out1
    <3> QED BY <1>1, <1>2, <3>1, <3>2, <3>3, <3>4, NoActIs
  <2>10. CASE Refreshed(page)
    <3>1. /\ a.at = "refresh" /\ act' = [act EXCEPT ![page] = NoAct] /\ ~queued /\ read.at = "idle"
          /\ UNCHANGED <<index, session, generation, manager, facts, read, removed>>
      BY <2>10 DEF Refreshed
    <3>2. facts.local = index
      BY <1>3, <3>1 DEF IInv, Awaited, Running
    <3>3. b = NoAct /\ ~Removing(a) /\ ~Handed(b)
      BY <1>0, <3>1, NoActIs DEF Removing, Handed
    <3>4. Out1 = Out /\ N = M
      BY <3>1 DEF Out
    <3> HIDE DEF a, b, M, N, Out1
    <3> QED BY <1>1, <1>2, <3>1, <3>2, <3>3, <3>4, NoActIs
  <2> QED BY <1>16, <2>1, <2>2, <2>3, <2>4, <2>5, <2>6, <2>7, <2>8, <2>9, <2>10 DEF Acting
<1>17. CASE UNCHANGED vars
  BY <1>7, <1>17 DEF vars
<1> QED BY <1>12, <1>13, <1>14, <1>15, <1>16, <1>17 DEF Next

\* Of one action at a time, and as long as the server deletes nothing: once the action has let go,
\* a copy the reader removed does not replicate again before it is downloaded again, whatever
\* was read and answered meanwhile.
THEOREM RemovedStayStopped ==
  ASSUME NEW page, Workers = {page}
  PROVE  Spec => []RemovedStaysStopped
<1>1. Init => KeptInv
  <2> SUFFICES ASSUME Init, NEW w \in Workers PROVE ListsComplete /\ Kept(act[w])
    BY DEF KeptInv, Init, ListsComplete
  <2>1. ListsComplete
    BY DEF Init, ListsComplete, Complete, NoRead, Detaching
  <2>2. act[w] = NoAct /\ Out = {} /\ manager[generation].running = {}
    BY PageAssumption DEF Init, Out, Quit, Generations
  <2> QED BY <2>1, <2>2, NoActIs DEF Init, Kept, NoRead
<1>2. IInv /\ KeptInv /\ [Next]_vars => KeptInv'
  <2> SUFFICES ASSUME IInv, KeptInv, [Next]_vars, NoneGone' PROVE ListsComplete' /\ Kept(act[page])'
    BY DEF KeptInv
  <2>1. NoneGone /\ Typed
    BY GoneForGood DEF IInv
  <2>2. ListsComplete /\ Kept(act[page])
    BY <2>1 DEF KeptInv
  <2> QED BY <2>1, <2>2, ListsStayComplete, KeptStays
<1>3. IInv /\ KeptInv => RemovedStaysStopped
  <2> SUFFICES ASSUME IInv, KeptInv, session, ~Busy, NoneGone
               PROVE  Of(Sync).running \cap removed = {}
    BY DEF RemovedStaysStopped, NoneGone
  <2>1. Kept(act[page]) /\ ~Removing(act[page])
    BY DEF KeptInv, Busy, Running, Removing
  <2>2. Out \cap manager[generation].running = {}
    BY <2>1 DEF Kept
  <2>3. Typed /\ manager[generation].running \subseteq Projects /\ generation \in Generations
    BY SessionNow DEF IInv, Manager
  <2>4. Of(Sync) = manager[generation]
    BY <2>3, SessionNow DEF Of, Generations
  <2> QED BY <2>2, <2>3, <2>4 DEF Out
<1> QED BY <1>1, <1>2, <1>3, IInvAtFirst, IInvKept, PTL DEF Spec
===============================================================================
