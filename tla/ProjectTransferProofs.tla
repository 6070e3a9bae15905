------------------------ MODULE ProjectTransferProofs ------------------------
(***************************************************************************)
(* For any number of tabs, documents, projects and failures, with or       *)
(* without Web Locks: a database is destroyed only when the server has     *)
(* what it held (ProjectTransfer, DestroyedIsOnServer and NothingLost).    *)
(* Of one tab alone: every document saved stays within reach of a page     *)
(* (WithinReachOfOneTab).                                                  *)
(***************************************************************************)
EXTENDS MCProjectTransfer, TLAPS

\* None is not a tab, and a project's database is never the local-only one.
LEMMA NamesApart ==
    /\ None \notin Tabs /\ None \notin Databases
    /\ Source \in Databases /\ Projects \subseteq Databases
    /\ \A p \in Projects : p # Source
BY TransferAssumption DEF TransferAssumption, Databases

\* The fields of a tab's action, and the databases it works on.
LEMMA ActFields ==
    ASSUME TypeOK, NEW t \in Tabs
    PROVE  /\ act[t].kind \in Kinds /\ act[t].at \in Steps
           /\ act[t].project \in Projects \cup {None}
           /\ act[t].before \subseteq Docs
           /\ act[t].left \in 0..TRANSFER_ATTEMPTS
           /\ act[t].moved \in BOOLEAN /\ act[t].alive \in BOOLEAN
BY DEF TypeOK, Work

\* An action past its POST works for a project, and on two databases.
LEMMA ActDatabases ==
    ASSUME IndInv, NEW t \in Tabs, act[t].at \notin {"idle", "post"}
    PROVE  /\ act[t].project \in created /\ act[t].project \in Projects
           /\ Survivor(t) = act[t].project /\ Survivor(t) \in Databases
           /\ Doomed(t) \in Databases
<1>1. act[t].project \in created /\ created \subseteq Projects
  BY DEF IndInv, Sound, TypeOK
<1> QED
  BY <1>1, NamesApart DEF Survivor, Doomed

\* The initial state is sound.
LEMMA InitIndInv == Init => IndInv
<1> SUFFICES ASSUME Init PROVE IndInv
  OBVIOUS
<1>1. TypeOK
  BY NamesApart, TransferAssumption
  DEF Init, TypeOK, Work, Idle, Kinds, Steps, TRANSFER_ATTEMPTS, TransferAssumption
<1>2. \A t \in Tabs : Sound(t)
  BY DEF Init, Sound, Idle, Holding
<1>3. NothingLost
  BY DEF Init, NothingLost
<1> QED
  BY <1>1, <1>2, <1>3 DEF Init, IndInv
-----------------------------------------------------------------------------
\* Databases, the server and its list of projects only grow.
Grows ==
    /\ \A d \in Databases : local[d] \subseteq local'[d]
    /\ \A p \in Projects : server[p] \subseteq server'[p]
    /\ created \subseteq created' /\ created' \subseteq Projects

\* Locks change hands only from and to t.
LocksOf(t) == \A d \in Databases : lock[d] \notin {None, t} => lock'[d] = lock[d]

\* What is on the server stays there.
LEMMA ServerKeeps ==
    ASSUME TypeOK, Grows
    PROVE  OnServer \subseteq OnServer'
BY DEF Grows, OnServer, TypeOK

\* An action that does not move keeps what it has proved while databases grow,
\* as long as its lock is held and what lands is on the server or late.
LEMMA SoundStays ==
    ASSUME IndInv, Grows, NEW u \in Tabs, act'[u] = act[u],
           act[u].at \in {"index", "destroy"} =>
               local'[Doomed(u)] \subseteq OnServer' \cup late'[Doomed(u)],
           WebLocks /\ act[u].at \in Holding => lock'[Doomed(u)] = lock[Doomed(u)]
    PROVE  Sound(u)'
<1>1. Sound(u) /\ Doomed(u)' = Doomed(u)
  BY DEF IndInv, Doomed
<1>2. CASE act[u].at \in {"idle", "post"}
  BY <1>1, <1>2 DEF Sound, Holding
<1>3. CASE act[u].at \notin {"idle", "post"}
  <2>1. /\ act[u].project \in created /\ act[u].project \in Projects
        /\ act[u].project \in Databases /\ Source \in Databases
    BY <1>3, ActDatabases, NamesApart
  <2>2. act[u].at = "copy" /\ act[u].alive => act[u].before \subseteq local'[Source]
    BY <1>1, <2>1 DEF Sound, Grows
  <2>3. act[u].at = "push" /\ act[u].alive => act[u].before \subseteq local'[act[u].project]
    BY <1>1, <2>1 DEF Sound, Grows
  <2>4. act[u].at \in {"acquire", "verify"} => act[u].before \subseteq server'[act[u].project]
    BY <1>1, <2>1 DEF Sound, Grows
  <2>5. act[u].project \in created'
    BY <2>1 DEF Grows
  <2> QED
    BY <1>1, <2>2, <2>3, <2>4, <2>5 DEF Sound
<1> QED
  BY <1>2, <1>3

\* Steps that move no document: only the action of t changes, and it is sound.
LEMMA QuietKeeps ==
    ASSUME IndInv, NEW t \in Tabs, TypeOK', LocksOf(t),
           UNCHANGED <<local, server, saved, late>>,
           created \subseteq created', onDisk \subseteq onDisk',
           recorded' \in created' \cup {None},
           \A u \in Tabs \ {t} : act'[u] = act[u], Sound(t)'
    PROVE  IndInv'
<1>1. Grows
  BY DEF Grows, TypeOK
<1>2. OnServer \subseteq OnServer'
  BY <1>1, ServerKeeps DEF IndInv
<1>3. ASSUME NEW u \in Tabs \ {t} PROVE Sound(u)'
  <2>1. Sound(u)
    BY DEF IndInv
  <2>2. act[u].at \in {"index", "destroy"} =>
            local'[Doomed(u)] \subseteq OnServer' \cup late'[Doomed(u)]
    BY <1>2, <2>1 DEF Sound
  <2>3. WebLocks /\ act[u].at \in Holding => lock'[Doomed(u)] = lock[Doomed(u)]
    <3> SUFFICES ASSUME WebLocks, act[u].at \in Holding
                 PROVE  lock'[Doomed(u)] = lock[Doomed(u)]
      OBVIOUS
    <3>1. lock[Doomed(u)] = u /\ Doomed(u) \in Databases
      BY <2>1, ActDatabases DEF Sound, Holding
    <3> QED
      BY <3>1, NamesApart DEF LocksOf
  <2> QED
    BY <1>1, <1>3, <2>2, <2>3, SoundStays
<1>4. NothingLost'
  BY <1>2 DEF IndInv, NothingLost
<1> QED
  BY <1>3, <1>4 DEF IndInv

\* Documents land in a database nobody is about to destroy, or landed late.
LEMMA LandKeeps ==
    ASSUME IndInv, TypeOK', NEW t \in Tabs, NEW d \in Databases, NEW docs \in SUBSET Docs,
           Land(d, docs), Writable(d),
           saved' \subseteq saved \cup docs, saved \subseteq saved',
           saved' # saved => d \in onDisk,
           UNCHANGED <<server, created, onDisk, recorded, lock>>,
           \A u \in Tabs \ {t} : act'[u] = act[u],
           \/ act'[t] = act[t]
           \/ act'[t].at = "back" /\ act'[t].project \in created
           \/ act'[t].at = "push" /\ act'[t].project \in created
              /\ (act'[t].alive => act'[t].before \subseteq local'[act'[t].project])
    PROVE  IndInv'
<1>1. /\ \A e \in Databases : local'[e] = IF e = d THEN local[e] \cup docs ELSE local[e]
      /\ WebLocks => late' = late
      /\ ~WebLocks => \A e \in Databases :
            late'[e] = IF e = d THEN late[e] \cup (docs \ local[e]) ELSE late[e]
  BY DEF Land, IndInv, TypeOK
<1>2. Grows
  BY <1>1 DEF Grows, TypeOK
<1>3. OnServer' = OnServer
  BY DEF OnServer
<1>4. ASSUME NEW u \in Tabs, act'[u] = act[u] PROVE Sound(u)'
  <2>1. Sound(u)
    BY DEF IndInv
  <2>2. act[u].at \in {"index", "destroy"} =>
            local'[Doomed(u)] \subseteq OnServer' \cup late'[Doomed(u)]
    <3> SUFFICES ASSUME act[u].at \in {"index", "destroy"}
                 PROVE  local'[Doomed(u)] \subseteq OnServer' \cup late'[Doomed(u)]
      OBVIOUS
    <3>1. Doomed(u) \in Databases
      BY ActDatabases
    <3>2. local[Doomed(u)] \subseteq OnServer \cup late[Doomed(u)]
      BY <2>1 DEF Sound
    <3>3. CASE WebLocks
      <4>1. lock[Doomed(u)] = u
        BY <2>1, <3>3 DEF Sound, Holding
      <4>2. Doomed(u) # d
        BY <4>1, NamesApart DEF Writable
      <4> QED
        BY <1>1, <1>3, <3>1, <3>2, <3>3, <4>2
    <3>4. CASE ~WebLocks
      BY <1>1, <1>3, <3>1, <3>2, <3>4
    <3> QED
      BY <3>3, <3>4
  <2> QED
    BY <1>2, <1>4, <2>2, SoundStays
<1>5. Sound(t)'
  BY <1>4 DEF Sound, Holding, Survivor
<1>6. NothingLost'
  <2>1. ASSUME WebLocks PROVE saved' \subseteq OnServer' \cup UNION {local'[e] : e \in onDisk'}
    <3>1. saved \subseteq OnServer \cup UNION {local[e] : e \in onDisk}
      BY <2>1 DEF IndInv, NothingLost
    <3>2. UNION {local[e] : e \in onDisk} \subseteq UNION {local'[e] : e \in onDisk}
      BY <1>2 DEF Grows, IndInv, TypeOK
    <3>3. ASSUME NEW x \in saved' \ saved PROVE x \in UNION {local'[e] : e \in onDisk}
      <4>1. x \in docs /\ d \in onDisk
        BY <3>3
      <4>2. x \in local'[d]
        BY <1>1, <4>1
      <4> QED
        BY <4>1, <4>2, Zenon
    <3> QED
      BY <1>3, <3>1, <3>2, <3>3
  <2> QED
    BY <2>1 DEF NothingLost
<1> QED
  BY <1>1, <1>4, <1>5, <1>6 DEF IndInv
-----------------------------------------------------------------------------
\* Letting go of a lock, and ending an action, leave well-typed state.
LEMMA ReleaseTyped ==
    ASSUME TypeOK, NEW t \in Tabs, Release(t)
    PROVE  lock' \in [Databases -> Tabs \cup {None}] /\ LocksOf(t)
BY DEF Release, TypeOK, LocksOf

\* Ending an action leaves no action, and an unread page.
LEMMA EndTyped ==
    ASSUME TypeOK, NEW t \in Tabs, End(t)
    PROVE  /\ act' \in [Tabs -> Work]
           /\ page' \in [Tabs -> SUBSET Projects]
           /\ act'[t] = Idle /\ \A u \in Tabs \ {t} : act'[u] = act[u]
BY DEF End, TypeOK, Work, Idle, Kinds, Steps, TRANSFER_ATTEMPTS

\* Moving to another step changes nothing else of an action.
LEMMA GotoTyped ==
    ASSUME TypeOK, NEW t \in Tabs, NEW step \in Steps, Goto(t, step)
    PROVE  /\ act' \in [Tabs -> Work]
           /\ act'[t] = [act[t] EXCEPT !.at = step]
           /\ \A u \in Tabs \ {t} : act'[u] = act[u]
BY DEF Goto, TypeOK, Work

\* Landing documents leaves well-typed databases.
LEMMA LandTyped ==
    ASSUME TypeOK, NEW d \in Databases, NEW docs \in SUBSET Docs, Land(d, docs)
    PROVE  local' \in [Databases -> SUBSET Docs] /\ late' \in [Databases -> SUBSET Docs]
BY DEF Land, TypeOK

\* Views: opening a project and reading the page keep the invariant.
LEMMA ViewKeeps ==
    ASSUME IndInv, NEW t \in Tabs
    PROVE  /\ \A d \in Databases : Open(t, d) => IndInv'
           /\ Refresh(t) => IndInv'
           /\ \A p \in Projects : Download(t, p) => IndInv'
<1>1. ASSUME NEW d \in Databases, Open(t, d) PROVE IndInv'
  <2>1. TypeOK'
    BY <1>1 DEF IndInv, TypeOK, Open, index, history
  <2>2. Sound(t)'
    BY <1>1 DEF IndInv, Sound, Open, index, history, Doomed, OnServer
  <2> QED
    BY <1>1, <2>1, <2>2, QuietKeeps DEF IndInv, Open, index, history, LocksOf
<1>2. ASSUME Refresh(t) PROVE IndInv'
  <2>1. TypeOK'
    BY <1>2 DEF IndInv, TypeOK, Refresh, data, index, history
  <2>2. Sound(t)'
    BY <1>2 DEF IndInv, Sound, Refresh, data, index, history, Doomed, OnServer
  <2> QED
    BY <1>2, <2>1, <2>2, QuietKeeps DEF IndInv, Refresh, data, index, history, LocksOf
<1>3. ASSUME NEW p \in Projects, Download(t, p) PROVE IndInv'
  <2>1. TypeOK'
    BY <1>3, NamesApart DEF IndInv, TypeOK, Download, history
  <2>2. Sound(t)'
    BY <1>3 DEF IndInv, Sound, Download, history, Doomed, OnServer
  <2> QED
    BY <1>3, <2>1, <2>2, QuietKeeps DEF IndInv, Download, history, LocksOf
<1> QED
  BY <1>1, <1>2, <1>3

\* Asking for an action, and target(), keep the invariant.
LEMMA TargetKeeps ==
    ASSUME IndInv, NEW t \in Tabs
    PROVE  /\ Promote(t) => IndInv'
           /\ \A p \in Projects : RemoveLocalCopy(t, p) => IndInv'
           /\ \A p \in Projects : Post(t, p) => IndInv'
           /\ PostFails(t) => IndInv'
           /\ Record(t) => IndInv'
<1>1. ASSUME Promote(t) PROVE IndInv'
  <2>1. TypeOK'
    <3>1. PICK at \in Steps :
             act' = [act EXCEPT ![t] = [Idle EXCEPT !.kind = "promote",
                        !.left = TRANSFER_ATTEMPTS, !.project = recorded, !.at = at]]
      BY <1>1 DEF Promote, Steps
    <3>2. [Idle EXCEPT !.kind = "promote", !.left = TRANSFER_ATTEMPTS,
                       !.project = recorded, !.at = at] \in Work
      <4>1. TRANSFER_ATTEMPTS \in 0..TRANSFER_ATTEMPTS /\ recorded \in Projects \cup {None}
            /\ "promote" \in Kinds
        BY DEF IndInv, TypeOK, Kinds, TRANSFER_ATTEMPTS
      <4> QED
        BY <4>1 DEF Work, Idle
    <3>3. act' \in [Tabs -> Work]
      BY <3>1, <3>2 DEF IndInv, TypeOK
    <3> QED
      BY <1>1, <3>3 DEF IndInv, TypeOK, Promote, data, index, history
  <2>2. Sound(t)'
    BY <1>1 DEF IndInv, TypeOK, Sound, Promote, data, index, history, Idle, Holding
  <2> QED
    BY <1>1, <2>1, <2>2, QuietKeeps
    DEF IndInv, TypeOK, Promote, data, index, history, LocksOf
<1>2. ASSUME NEW p \in Projects, RemoveLocalCopy(t, p) PROVE IndInv'
  <2>1. TypeOK'
    <3>1. [Idle EXCEPT !.kind = "remove", !.project = p, !.left = TRANSFER_ATTEMPTS,
                       !.at = "leave"] \in Work
      <4>1. TRANSFER_ATTEMPTS \in 0..TRANSFER_ATTEMPTS /\ "remove" \in Kinds /\ "leave" \in Steps
        BY DEF Kinds, Steps, TRANSFER_ATTEMPTS
      <4> QED
        BY <4>1 DEF Work, Idle
    <3>2. act' \in [Tabs -> Work]
      BY <1>2, <3>1 DEF IndInv, TypeOK, RemoveLocalCopy
    <3> QED
      BY <1>2, <3>2 DEF IndInv, TypeOK, RemoveLocalCopy, data, index, history
  <2>2. Sound(t)'
    BY <1>2 DEF IndInv, TypeOK, Sound, RemoveLocalCopy, data, index, history, Idle, Holding
  <2> QED
    BY <1>2, <2>1, <2>2, QuietKeeps
    DEF IndInv, TypeOK, RemoveLocalCopy, data, index, history, LocksOf
<1>3. ASSUME NEW p \in Projects, Post(t, p) PROVE IndInv'
  <2>1. TypeOK'
    <3>1. act' = [act EXCEPT ![t] = [act[t] EXCEPT !.at = "record", !.project = p]]
      BY <1>3 DEF IndInv, TypeOK, Work, Post
    <3>2. [act[t] EXCEPT !.at = "record", !.project = p] \in Work
      <4>1. act[t] \in Work
        BY DEF IndInv, TypeOK
      <4>2. "record" \in Steps /\ p \in Projects \cup {None}
        BY DEF Steps
      <4> QED
        BY <4>1, <4>2 DEF Work
    <3>3. act' \in [Tabs -> Work]
      BY <3>1, <3>2 DEF IndInv, TypeOK
    <3> QED
      BY <1>3, <3>3 DEF IndInv, TypeOK, Post, index, history
  <2>2. Sound(t)'
    BY <1>3 DEF IndInv, TypeOK, Sound, Post, index, history, Holding
  <2> QED
    BY <1>3, <2>1, <2>2, QuietKeeps DEF IndInv, TypeOK, Post, index, history, LocksOf
<1>4. ASSUME PostFails(t) PROVE IndInv'
  <2>1. created \subseteq created' /\ created' \subseteq Projects
    BY <1>4 DEF PostFails, IndInv, TypeOK
  <2>2. End(t) /\ UNCHANGED <<local, server, onDisk, index, view, lock, history, faults>>
    BY <1>4 DEF PostFails
  <2>3. TypeOK'
    BY <2>1, <2>2, EndTyped DEF IndInv, TypeOK, index, history
  <2>4. Sound(t)'
    BY <2>2, EndTyped DEF IndInv, Sound, Idle, Holding
  <2> QED
    BY <2>1, <2>2, <2>3, <2>4, EndTyped, QuietKeeps DEF IndInv, index, history, LocksOf
<1>5. ASSUME Record(t) PROVE IndInv'
  <2>1. act[t].project \in created /\ act[t].project \in Projects /\ "leave" \in Steps
    BY <1>5, ActDatabases DEF Record, Steps
  <2>2. Goto(t, "leave") /\ act'[t].at = "leave" /\ act'[t].project = act[t].project
    <3>1. Goto(t, "leave")
      BY <1>5 DEF Record
    <3>2. act'[t] = [act[t] EXCEPT !.at = "leave"]
      BY <2>1, <3>1, GotoTyped DEF IndInv
    <3>3. act[t] \in Work
      BY DEF IndInv, TypeOK
    <3> QED
      BY <3>1, <3>2, <3>3 DEF Work
  <2>3. TypeOK'
    BY <1>5, <2>1, <2>2, GotoTyped DEF IndInv, TypeOK, Record, data, history
  <2>4. Sound(t)'
    BY <1>5, <2>1, <2>2 DEF Sound, Record, data, Holding
  <2> QED
    BY <1>5, <2>1, <2>2, <2>3, <2>4, GotoTyped, QuietKeeps
    DEF IndInv, Record, data, history, LocksOf
<1> QED
  BY <1>1, <1>2, <1>3, <1>4, <1>5
-----------------------------------------------------------------------------
\* An action that has proved nothing yet, or is over, is sound.
LEMMA SoundPlain ==
    ASSUME NEW t \in Tabs,
           \/ act'[t].at \in {"idle", "post"}
           \/ /\ act'[t].at \in {"record", "leave", "info", "copyBack", "back"}
              /\ act'[t].project \in created'
    PROVE  Sound(t)'
BY DEF Sound, Holding

\* Changing one tab's action to a well-typed one leaves well-typed actions.
LEMMA ActTyped ==
    ASSUME TypeOK, NEW t \in Tabs, NEW r \in Work, act' = [act EXCEPT ![t] = r]
    PROVE  /\ act' \in [Tabs -> Work] /\ act'[t] = r
           /\ \A u \in Tabs \ {t} : act'[u] = act[u]
BY DEF TypeOK

\* A refusal leads back to the views, for the same project.
LEMMA RefuseTyped ==
    ASSUME TypeOK, NEW t \in Tabs, Refuse(t)
    PROVE  /\ act' \in [Tabs -> Work] /\ \A u \in Tabs \ {t} : act'[u] = act[u]
           /\ act'[t].at \in {"copyBack", "back"} /\ act'[t].project = act[t].project
<1> DEFINE step == IF act[t].kind = "promote" THEN "copyBack" ELSE "back"
<1>1. step \in Steps /\ step \in {"copyBack", "back"} /\ Goto(t, step)
  BY DEF Steps, Refuse
<1>2. act[t] \in Work
  BY DEF TypeOK
<1> HIDE DEF step
<1>3. act' \in [Tabs -> Work] /\ \A u \in Tabs \ {t} : act'[u] = act[u]
  BY <1>1, GotoTyped
<1>4. act'[t] = [act[t] EXCEPT !.at = step]
  BY <1>1, GotoTyped
<1> QED
  BY <1>1, <1>2, <1>3, <1>4 DEF Work

\* Moving the views away, and back, keeps the invariant.
LEMMA LeaveKeeps ==
    ASSUME IndInv, NEW t \in Tabs
    PROVE  (Leave(t) => IndInv') /\ (Back(t) => IndInv')
<1>1. ASSUME Leave(t) PROVE IndInv'
  <2>1. /\ act[t].project \in created /\ Doomed(t) \in Databases /\ Survivor(t) \in Databases
        /\ act[t] \in Work
    BY <1>1, ActDatabases DEF Leave, IndInv, TypeOK
  <2>2. PICK moved \in BOOLEAN :
           act' = [act EXCEPT ![t] = [act[t] EXCEPT !.at = "info", !.moved = moved]]
    BY <1>1, <2>1 DEF Leave, IndInv, TypeOK, Work
  <2> DEFINE r == [act[t] EXCEPT !.at = "info", !.moved = moved]
  <2>3. r \in Work /\ r.at = "info" /\ r.project = act[t].project
    BY <2>1 DEF Work, Steps
  <2> HIDE DEF r
  <2>4. act' = [act EXCEPT ![t] = r]
    BY <2>2 DEF r
  <2>5. act' \in [Tabs -> Work] /\ act'[t] = r /\ \A u \in Tabs \ {t} : act'[u] = act[u]
    BY <2>3, <2>4, ActTyped DEF IndInv
  <2>6. view' \in [Tabs -> Databases \cup {None}]
    BY <1>1, <2>1, NamesApart DEF Leave, IndInv, TypeOK
  <2>7. TypeOK'
    BY <1>1, <2>1, <2>5, <2>6 DEF IndInv, TypeOK, Leave, index, history
  <2>8. Sound(t)'
    BY <1>1, <2>1, <2>3, <2>5, SoundPlain DEF Leave
  <2> QED
    BY <1>1, <2>5, <2>7, <2>8, QuietKeeps DEF IndInv, Leave, index, history, LocksOf
<1>2. ASSUME Back(t) PROVE IndInv'
  <2>1. Doomed(t) \in Databases
    BY <1>2, ActDatabases DEF Back
  <2>2. view' \in [Tabs -> Databases \cup {None}]
    BY <1>2, <2>1 DEF Back, IndInv, TypeOK
  <2>3. TypeOK'
    BY <1>2, <2>2, EndTyped DEF IndInv, TypeOK, Back, data, index, history
  <2>4. Sound(t)'
    BY <1>2, EndTyped, SoundPlain DEF Back, Idle, IndInv
  <2> QED
    BY <1>2, <2>3, <2>4, EndTyped, QuietKeeps DEF IndInv, Back, data, index, history, LocksOf
<1> QED
  BY <1>1, <1>2

\* What before stands for is what the database about to be destroyed holds.
LEMMA InfoKeeps ==
    ASSUME IndInv, NEW t \in Tabs, Info(t)
    PROVE  IndInv'
<1> DEFINE r == [act[t] EXCEPT !.before = local[Doomed(t)],
                      !.at = IF act[t].kind = "promote" THEN "copy" ELSE "push"]
<1>1. /\ act[t].project \in created /\ Doomed(t) \in Databases /\ act[t] \in Work
      /\ local[Doomed(t)] \subseteq Docs
  BY ActDatabases DEF Info, IndInv, TypeOK
<1>2. /\ r \in Work /\ r.project = act[t].project /\ r.kind = act[t].kind
      /\ r.before = local[Doomed(t)]
      /\ r.at = IF r.kind = "promote" THEN "copy" ELSE "push"
  BY <1>1 DEF Work, Steps
<1>3. act' = [act EXCEPT ![t] = r]
  BY <1>1 DEF Info, IndInv, TypeOK, Work
<1> HIDE DEF r
<1>4. act' \in [Tabs -> Work] /\ act'[t] = r /\ \A u \in Tabs \ {t} : act'[u] = act[u]
  BY <1>2, <1>3, ActTyped DEF IndInv
<1>5. TypeOK'
  BY <1>4 DEF IndInv, TypeOK, Info, data, index, history
<1>6. Sound(t)'
  BY <1>1, <1>2, <1>4 DEF Info, Sound, Doomed, Holding, data
<1> QED
  BY <1>4, <1>5, <1>6, QuietKeeps DEF IndInv, Info, data, index, history, LocksOf

\* A refusal, wherever it comes, keeps the invariant.
LEMMA RefusalKeeps ==
    ASSUME IndInv, NEW t \in Tabs
    PROVE  /\ TransferFails(t) => IndInv'
           /\ IndexFails(t) => IndInv'
           /\ CopyBackFails(t) => IndInv'
<1>1. ASSUME TransferFails(t) PROVE IndInv'
  <2>1. act[t].project \in created'
    BY <1>1, ActDatabases DEF TransferFails, data
  <2>2. TypeOK'
    BY <1>1, RefuseTyped DEF IndInv, TypeOK, TransferFails, data, index, history
  <2>3. Sound(t)'
    BY <1>1, <2>1, RefuseTyped, SoundPlain DEF TransferFails, IndInv
  <2> QED
    BY <1>1, <2>2, <2>3, RefuseTyped, QuietKeeps
    DEF IndInv, TransferFails, data, index, history, LocksOf
<1>2. ASSUME IndexFails(t) PROVE IndInv'
  <2>1. act[t].project \in created'
    BY <1>2, ActDatabases DEF IndexFails, data
  <2>2. faults' \in 0..MaxFaults
    BY <1>2, TransferAssumption DEF IndexFails, Fault, IndInv, TypeOK, TransferAssumption
  <2>3. TypeOK'
    BY <1>2, <2>2, RefuseTyped, ReleaseTyped
    DEF IndInv, TypeOK, IndexFails, data, index, history
  <2>4. Sound(t)'
    BY <1>2, <2>1, RefuseTyped, SoundPlain DEF IndexFails, IndInv
  <2> QED
    BY <1>2, <2>3, <2>4, RefuseTyped, ReleaseTyped, QuietKeeps
    DEF IndInv, IndexFails, data, index, history
<1>3. ASSUME CopyBackFails(t) PROVE IndInv'
  <2>1. act[t].project \in created' /\ "back" \in Steps /\ Goto(t, "back")
    BY <1>3, ActDatabases DEF CopyBackFails, data, Steps
  <2>2. faults' \in 0..MaxFaults
    BY <1>3, TransferAssumption DEF CopyBackFails, Fault, IndInv, TypeOK, TransferAssumption
  <2>3. /\ act' \in [Tabs -> Work] /\ \A u \in Tabs \ {t} : act'[u] = act[u]
        /\ act'[t] = [act[t] EXCEPT !.at = "back"] /\ act[t] \in Work
    BY <2>1, GotoTyped DEF IndInv, TypeOK
  <2>4. act'[t].at = "back" /\ act'[t].project \in created'
    BY <2>1, <2>3 DEF Work
  <2>5. TypeOK'
    BY <1>3, <2>2, <2>3 DEF IndInv, TypeOK, CopyBackFails, data, index, history
  <2> QED
    BY <1>3, <2>3, <2>4, <2>5, SoundPlain, QuietKeeps
    DEF IndInv, CopyBackFails, data, index, history, LocksOf
<1> QED
  BY <1>1, <1>2, <1>3
-----------------------------------------------------------------------------
\* Documents reaching the server keep the invariant.
LEMMA UploadKeeps ==
    ASSUME IndInv, NEW t \in Tabs, TypeOK',
           \A p \in Projects : server[p] \subseteq server'[p],
           UNCHANGED <<local, created, onDisk, recorded, lock, history>>,
           \A u \in Tabs \ {t} : act'[u] = act[u], act'[t] = act[t] \/ Sound(t)'
    PROVE  IndInv'
<1>1. Grows
  BY DEF Grows, IndInv, TypeOK
<1>2. OnServer \subseteq OnServer'
  BY <1>1, ServerKeeps DEF IndInv
<1>3. ASSUME NEW u \in Tabs, act'[u] = act[u] PROVE Sound(u)'
  <2>1. act[u].at \in {"index", "destroy"} =>
            local'[Doomed(u)] \subseteq OnServer' \cup late'[Doomed(u)]
    BY <1>2 DEF IndInv, Sound, history
  <2> QED
    BY <1>1, <1>3, <2>1, SoundStays
<1>4. NothingLost'
  BY <1>2 DEF IndInv, NothingLost, history
<1> QED
  BY <1>3, <1>4 DEF IndInv, history

\* The copy lands in the survivor, which then holds all of before.
LEMMA CopyKeeps ==
    ASSUME IndInv, NEW t \in Tabs, Copy(t)
    PROVE  IndInv'
<1>1. /\ act[t].project \in created /\ Survivor(t) \in Databases
      /\ Survivor(t) = act[t].project /\ Source \in Databases /\ act[t] \in Work
      /\ "push" \in Steps /\ Goto(t, "push")
  BY ActDatabases, NamesApart DEF Copy, IndInv, TypeOK, Steps
<1>2. /\ act' \in [Tabs -> Work] /\ \A u \in Tabs \ {t} : act'[u] = act[u]
      /\ act'[t] = [act[t] EXCEPT !.at = "push"]
  BY <1>1, GotoTyped DEF IndInv
<1>3. /\ act'[t].at = "push" /\ act'[t].project = act[t].project
      /\ act'[t].before = act[t].before
  BY <1>1, <1>2 DEF Work
<1>4. act[t].before \subseteq local[Source]
  BY DEF IndInv, Sound, Copy
<1>5. local[Source] \subseteq local'[Survivor(t)]
  BY <1>1 DEF Copy, Land, IndInv, TypeOK
<1>6. local[Source] \subseteq Docs
  BY <1>1 DEF IndInv, TypeOK
<1>7. local' \in [Databases -> SUBSET Docs] /\ late' \in [Databases -> SUBSET Docs]
  BY <1>1, <1>6, LandTyped DEF Copy, IndInv
<1>8. TypeOK'
  BY <1>2, <1>7 DEF IndInv, TypeOK, Copy, index
<1>9. /\ Land(Survivor(t), local[Source]) /\ Writable(Survivor(t)) /\ saved' = saved
      /\ UNCHANGED <<server, created, onDisk, recorded, lock>>
  BY DEF Copy, index
<1>10. /\ act'[t].at = "push" /\ act'[t].project \in created
       /\ (act'[t].alive => act'[t].before \subseteq local'[act'[t].project])
  BY <1>1, <1>3, <1>4, <1>5
<1> DEFINE d == Survivor(t)  docs == local[Source]
<1>11. d \in Databases /\ docs \in SUBSET Docs
  BY <1>1, <1>6
<1>12. /\ Land(d, docs) /\ Writable(d) /\ saved' \subseteq saved \cup docs
       /\ saved \subseteq saved' /\ (saved' # saved => d \in onDisk)
  BY <1>9
<1> HIDE DEF d, docs
<1> QED
  BY <1>2, <1>8, <1>9, <1>10, <1>11, <1>12, LandKeeps, Zenon

\* pushOnce puts all of before on the server.
LEMMA PushKeeps ==
    ASSUME IndInv, NEW t \in Tabs, Push(t)
    PROVE  IndInv'
<1>1. /\ act[t].project \in created /\ act[t].project \in Projects /\ act[t].project \in Databases
      /\ Survivor(t) = act[t].project /\ act[t] \in Work
      /\ "acquire" \in Steps /\ Goto(t, "acquire")
  BY ActDatabases, NamesApart DEF Push, IndInv, TypeOK, Steps
<1>2. /\ act' \in [Tabs -> Work] /\ \A u \in Tabs \ {t} : act'[u] = act[u]
      /\ act'[t] = [act[t] EXCEPT !.at = "acquire"]
  BY <1>1, GotoTyped DEF IndInv
<1>3. /\ act'[t].at = "acquire" /\ act'[t].project = act[t].project
      /\ act'[t].before = act[t].before
  BY <1>1, <1>2 DEF Work
<1>4. act[t].before \subseteq local[act[t].project]
  BY DEF IndInv, Sound, Push
<1>5. /\ server' \in [Projects -> SUBSET Docs]
      /\ \A p \in Projects : server[p] \subseteq server'[p]
      /\ local[act[t].project] \subseteq server'[act[t].project]
  BY <1>1 DEF Push, IndInv, TypeOK
<1>6. TypeOK'
  BY <1>2, <1>5 DEF IndInv, TypeOK, Push, index, history
<1>7. Sound(t)'
  BY <1>1, <1>3, <1>4, <1>5 DEF Sound, Push, Holding
<1> QED
  BY <1>2, <1>5, <1>6, <1>7, UploadKeeps DEF Push, index

\* Live replication, either way, keeps the invariant.
LEMMA LiveKeeps ==
    ASSUME IndInv, NEW t \in Tabs, NEW p \in Projects
    PROVE  (LivePush(t, p) => IndInv') /\ (LivePull(t, p) => IndInv')
<1>1. ASSUME LivePush(t, p) PROVE IndInv'
  <2>1. /\ server' \in [Projects -> SUBSET Docs]
        /\ \A q \in Projects : server[q] \subseteq server'[q]
    BY <1>1, NamesApart DEF LivePush, IndInv, TypeOK
  <2>2. TypeOK'
    BY <1>1, <2>1 DEF IndInv, TypeOK, LivePush, index, history
  <2> QED
    BY <1>1, <2>1, <2>2, UploadKeeps DEF LivePush, index
<1>2. ASSUME LivePull(t, p) PROVE IndInv'
  <2>1. p \in Databases /\ server[p] \subseteq Docs
    BY NamesApart DEF IndInv, TypeOK
  <2>2. local' \in [Databases -> SUBSET Docs] /\ late' \in [Databases -> SUBSET Docs]
    BY <1>2, <2>1, LandTyped DEF LivePull, IndInv
  <2>3. TypeOK'
    BY <1>2, <2>2 DEF IndInv, TypeOK, LivePull, index
  <2> QED
    BY <1>2, <2>1, <2>3, LandKeeps DEF LivePull, index
<1> QED
  BY <1>1, <1>2

\* A write lands in the database the views have open, which is on disk.
LEMMA WriteKeeps ==
    ASSUME IndInv, NEW t \in Tabs, NEW doc \in Docs, Write(t, doc)
    PROVE  IndInv'
<1>1. view[t] \in Databases /\ view[t] \in onDisk
  BY DEF Write, IndInv, TypeOK
<1>2. /\ Land(view[t], {doc}) /\ Writable(view[t]) /\ saved' = saved \cup {doc}
      /\ UNCHANGED <<server, created, onDisk, index, page, view, act, lock, faults>>
  BY DEF Write
<1>3. TypeOK'
  BY <1>1, <1>2, LandTyped DEF IndInv, TypeOK, index
<1> QED
  BY <1>1, <1>2, <1>3, LandKeeps DEF index

\* Copying back lands in the source, which nobody is about to destroy.
LEMMA CopyBackKeeps ==
    ASSUME IndInv, NEW t \in Tabs, CopyBack(t)
    PROVE  IndInv'
<1>1. /\ act[t].project \in created /\ Survivor(t) \in Databases /\ Source \in Databases
      /\ act[t] \in Work /\ "back" \in Steps /\ Goto(t, "back")
      /\ local[Survivor(t)] \subseteq Docs
  BY ActDatabases, NamesApart DEF CopyBack, IndInv, TypeOK, Steps
<1>2. /\ act' \in [Tabs -> Work] /\ \A u \in Tabs \ {t} : act'[u] = act[u]
      /\ act'[t] = [act[t] EXCEPT !.at = "back"]
  BY <1>1, GotoTyped DEF IndInv
<1>3. act'[t].at = "back" /\ act'[t].project = act[t].project
  BY <1>1, <1>2 DEF Work
<1>4. TypeOK'
  BY <1>1, <1>2, LandTyped DEF IndInv, TypeOK, CopyBack, index
<1> QED
  BY <1>1, <1>2, <1>3, <1>4, LandKeeps DEF CopyBack, index
-----------------------------------------------------------------------------
\* A lock that is granted was free.
LEMMA AcquireKeeps ==
    ASSUME IndInv, NEW t \in Tabs, Acquire(t)
    PROVE  IndInv'
<1>1. /\ act[t].project \in created /\ Doomed(t) \in Databases
      /\ act[t] \in Work /\ "verify" \in Steps /\ Goto(t, "verify")
      /\ act[t].before \subseteq server[act[t].project]
  BY ActDatabases DEF Acquire, IndInv, TypeOK, Steps, Sound
<1>2. /\ act' \in [Tabs -> Work] /\ \A u \in Tabs \ {t} : act'[u] = act[u]
      /\ act'[t] = [act[t] EXCEPT !.at = "verify"]
  BY <1>1, GotoTyped DEF IndInv
<1>3. /\ act'[t].at = "verify" /\ act'[t].project = act[t].project
      /\ act'[t].before = act[t].before /\ act'[t].kind = act[t].kind
  BY <1>1, <1>2 DEF Work
<1>4. /\ lock' \in [Databases -> Tabs \cup {None}] /\ LocksOf(t)
      /\ WebLocks => lock'[Doomed(t)] = t
  BY <1>1 DEF Acquire, LocksOf, IndInv, TypeOK
<1>5. TypeOK'
  BY <1>2, <1>4 DEF IndInv, TypeOK, Acquire, data, index, history
<1>6. Sound(t)'
  BY <1>1, <1>3, <1>4 DEF Sound, Doomed, Acquire, data, Holding
<1> QED
  BY <1>2, <1>4, <1>5, <1>6, QuietKeeps DEF IndInv, Acquire, data, index, history

\* The sequence is unchanged under the lock: what is about to go is on the server.
LEMMA VerifiedKeeps ==
    ASSUME IndInv, NEW t \in Tabs, Verify(t),
           act[t].alive, local[Doomed(t)] = act[t].before
    PROVE  IndInv'
<1> DEFINE step == IF act[t].kind = "promote" THEN "index" ELSE "destroy"
<1>1. /\ act[t].project \in created /\ act[t].project \in Projects /\ Doomed(t) \in Databases
      /\ act[t] \in Work /\ act[t].before \subseteq server[act[t].project]
      /\ WebLocks => lock[Doomed(t)] = t
  BY ActDatabases DEF Verify, IndInv, TypeOK, Sound, Holding
<1>2. step \in Steps /\ step \in {"index", "destroy"} /\ Goto(t, step)
  BY DEF Verify, Steps
<1> HIDE DEF step
<1>3. /\ act' \in [Tabs -> Work] /\ \A u \in Tabs \ {t} : act'[u] = act[u]
      /\ act'[t] = [act[t] EXCEPT !.at = step]
  BY <1>2, GotoTyped DEF IndInv
<1>4. /\ act'[t].at = step /\ act'[t].project = act[t].project /\ act'[t].kind = act[t].kind
  BY <1>1, <1>3 DEF Work
<1>5. /\ late' = [late EXCEPT ![Doomed(t)] = {}] /\ UNCHANGED lock
      /\ UNCHANGED <<data, index, page, view, saved, faults>>
  BY DEF Verify
<1>6. TypeOK'
  BY <1>1, <1>3, <1>5 DEF IndInv, TypeOK, data, index
<1>7. local[Doomed(t)] \subseteq OnServer /\ OnServer' = OnServer
  BY <1>1, <1>5 DEF OnServer, data
<1>8. Grows
  BY <1>5 DEF Grows, data, IndInv, TypeOK
<1>9. ASSUME NEW u \in Tabs \ {t} PROVE Sound(u)'
  <2>1. act[u].at \in {"index", "destroy"} =>
            local'[Doomed(u)] \subseteq OnServer' \cup late'[Doomed(u)]
    <3> SUFFICES ASSUME act[u].at \in {"index", "destroy"}
                 PROVE  local'[Doomed(u)] \subseteq OnServer' \cup late'[Doomed(u)]
      OBVIOUS
    <3>1. Doomed(u) \in Databases /\ local[Doomed(u)] \subseteq OnServer \cup late[Doomed(u)]
      BY ActDatabases DEF IndInv, Sound
    <3> QED
      BY <1>1, <1>5, <1>7, <3>1 DEF data, IndInv, TypeOK
  <2> QED
    BY <1>3, <1>5, <1>8, <2>1, SoundStays
<1>10. Sound(t)'
  <2>1. Doomed(t)' = Doomed(t)
    BY <1>4 DEF Doomed
  <2> QED
    BY <1>1, <1>2, <1>4, <1>5, <1>7, <2>1 DEF Sound, data, Holding
<1>11. NothingLost'
  BY <1>5, <1>7 DEF IndInv, NothingLost, data
<1>12. WebLocks => \A d \in Databases : late'[d] = {}
  BY <1>5 DEF IndInv, TypeOK
<1> QED
  BY <1>5, <1>6, <1>9, <1>10, <1>11, <1>12 DEF IndInv, data, index

\* The sequence moved, or the database is gone: again, or refused.
LEMMA UnverifiedKeeps ==
    ASSUME IndInv, NEW t \in Tabs, Verify(t),
           ~(act[t].alive /\ local[Doomed(t)] = act[t].before)
    PROVE  IndInv'
<1>1. /\ act[t].project \in created' /\ act[t] \in Work
      /\ Release(t) /\ UNCHANGED late
      /\ UNCHANGED <<data, index, page, view, saved, faults>>
  BY ActDatabases DEF Verify, IndInv, TypeOK, data
<1>2. /\ act' \in [Tabs -> Work] /\ \A u \in Tabs \ {t} : act'[u] = act[u]
      /\ act'[t].at \in {"info", "copyBack", "back"} /\ act'[t].project = act[t].project
  <2>1. CASE Refuse(t)
    BY <2>1, RefuseTyped DEF IndInv
  <2>2. CASE ~Refuse(t)
    <3> DEFINE r == [act[t] EXCEPT !.at = "info", !.left = @ - 1]
    <3>1. act' = [act EXCEPT ![t] = r] /\ act[t].left > 1
      BY <1>1, <2>2 DEF Verify, IndInv, TypeOK, Work
    <3>2. act[t].left - 1 \in 0..TRANSFER_ATTEMPTS /\ "info" \in Steps
      BY <1>1, <3>1 DEF Work, TRANSFER_ATTEMPTS, Steps
    <3>3. r \in Work /\ r.at = "info" /\ r.project = act[t].project
      BY <1>1, <3>2 DEF Work
    <3> HIDE DEF r
    <3> QED
      BY <3>1, <3>3, ActTyped DEF IndInv
  <2> QED
    BY <2>1, <2>2
<1>3. TypeOK'
  BY <1>1, <1>2, ReleaseTyped DEF IndInv, TypeOK, data, index
<1>4. Sound(t)'
  BY <1>1, <1>2, SoundPlain
<1> QED
  BY <1>1, <1>2, <1>3, <1>4, ReleaseTyped, QuietKeeps DEF IndInv, data, index

\* Listing the copy moves no document.
LEMMA IndexKeeps ==
    ASSUME IndInv, NEW t \in Tabs, Index(t)
    PROVE  IndInv'
<1>1. /\ act[t].project \in created /\ Survivor(t) \in Databases
      /\ act[t] \in Work /\ "destroy" \in Steps /\ Goto(t, "destroy")
      /\ local[Doomed(t)] \subseteq OnServer \cup late[Doomed(t)]
      /\ WebLocks => lock[Doomed(t)] = t
  BY ActDatabases DEF Index, IndInv, TypeOK, Steps, Sound, Holding
<1>2. /\ act' \in [Tabs -> Work] /\ \A u \in Tabs \ {t} : act'[u] = act[u]
      /\ act'[t] = [act[t] EXCEPT !.at = "destroy"]
  BY <1>1, GotoTyped DEF IndInv
<1>3. act'[t].at = "destroy" /\ act'[t].project = act[t].project /\ act'[t].kind = act[t].kind
  BY <1>1, <1>2 DEF Work
<1>4. TypeOK'
  BY <1>1, <1>2 DEF IndInv, TypeOK, Index, data, history
<1>5. Sound(t)'
  <2>1. Doomed(t)' = Doomed(t) /\ OnServer' = OnServer
    BY <1>3 DEF Doomed, Index, data, OnServer
  <2> QED
    BY <1>1, <1>3, <2>1 DEF Sound, Index, data, history
<1> QED
  BY <1>2, <1>4, <1>5, QuietKeeps DEF IndInv, Index, data, history, LocksOf

\* What is destroyed is on the server, and every other action that worked on it
\* has lost its handles.
LEMMA DestroyKeeps ==
    ASSUME IndInv, NEW t \in Tabs, Destroy(t)
    PROVE  IndInv'
<1>1. /\ act[t].project \in created /\ Doomed(t) \in Databases /\ act[t] \in Work
      /\ "forget" \in Steps
      /\ local[Doomed(t)] \subseteq OnServer \cup late[Doomed(t)]
      /\ WebLocks => lock[Doomed(t)] = t
  BY ActDatabases DEF Destroy, IndInv, TypeOK, Steps, Sound, Holding
<1>2. /\ \A d \in Databases : local'[d] = IF d = Doomed(t) THEN {} ELSE local[d]
      /\ local' \in [Databases -> SUBSET Docs]
      /\ onDisk' = onDisk \ {Doomed(t)}
      /\ UNCHANGED <<server, created, index, page, lock, history, faults>>
  BY <1>1 DEF Destroy, IndInv, TypeOK
<1>3. /\ act'[t] = [act[t] EXCEPT !.at = "forget"]
      /\ \A u \in Tabs \ {t} :
            act'[u] = IF act[u].at \notin Unopened /\ Doomed(t) \in {Doomed(u), Survivor(u)}
                      THEN [act[u] EXCEPT !.alive = FALSE] ELSE act[u]
  BY DEF Destroy
<1>4. act' \in [Tabs -> Work]
  <2>1. [act[t] EXCEPT !.at = "forget"] \in Work
    BY <1>1 DEF Work
  <2>2. ASSUME NEW u \in Tabs PROVE act[u] \in Work /\ [act[u] EXCEPT !.alive = FALSE] \in Work
    BY DEF IndInv, TypeOK, Work
  <2> QED
    BY <2>1, <2>2 DEF Destroy
<1>5. view' \in [Tabs -> Databases \cup {None}]
  BY DEF Destroy, IndInv, TypeOK
<1>6. TypeOK'
  BY <1>2, <1>4, <1>5 DEF IndInv, TypeOK, index, history
<1>7. OnServer' = OnServer
  BY <1>2 DEF OnServer
<1>8. Sound(t)'
  <2>1. act'[t].at = "forget" /\ act'[t].project = act[t].project /\ act'[t].kind = act[t].kind
    BY <1>1, <1>3 DEF Work
  <2> QED
    BY <1>1, <1>2, <2>1 DEF Sound, Doomed
<1>9. ASSUME NEW u \in Tabs \ {t} PROVE Sound(u)'
  <2> DEFINE a == act[u]
  <2>1. Sound(u) /\ a \in Work
    BY DEF IndInv, TypeOK
  <2>2. /\ act'[u].at = a.at /\ act'[u].project = a.project /\ act'[u].kind = a.kind
        /\ act'[u].before = a.before /\ (act'[u].alive => a.alive)
        /\ act'[u].alive /\ a.at \notin Unopened => Doomed(t) \notin {Doomed(u), Survivor(u)}
    BY <1>3, <2>1 DEF Work
  <2>3. Doomed(u)' = Doomed(u)
    BY <2>2 DEF Doomed
  <2>4. CASE a.at \in {"idle", "post"}
    BY <2>2, <2>4 DEF Sound, Holding
  <2>5. CASE a.at \notin {"idle", "post"}
    <3>1. /\ a.project \in created /\ a.project \in Projects /\ a.project \in Databases
          /\ Doomed(u) \in Databases /\ Survivor(u) = a.project /\ Source \in Databases
      BY <2>5, ActDatabases, NamesApart
    <3>2. a.at = "copy" /\ act'[u].alive => a.before \subseteq local'[Source]
      BY <1>2, <2>1, <2>2, <3>1 DEF Sound, Unopened, Doomed
    <3>3. a.at = "push" /\ act'[u].alive => a.before \subseteq local'[a.project]
      BY <1>2, <2>1, <2>2, <3>1 DEF Sound, Unopened
    <3>4. a.at \in {"index", "destroy"} =>
              local'[Doomed(u)] \subseteq OnServer' \cup late'[Doomed(u)]
      BY <1>2, <1>7, <2>1, <3>1 DEF Sound, history
    <3> QED
      BY <1>2, <2>1, <2>2, <2>3, <3>1, <3>2, <3>3, <3>4 DEF Sound
  <2> QED
    BY <2>4, <2>5
<1>10. NothingLost'
  <2> SUFFICES ASSUME WebLocks
               PROVE  saved' \subseteq OnServer' \cup UNION {local'[d] : d \in onDisk'}
    BY DEF NothingLost
  <2>1. saved \subseteq OnServer \cup UNION {local[d] : d \in onDisk}
    BY DEF IndInv, NothingLost
  <2>2. local[Doomed(t)] \subseteq OnServer
    BY <1>1 DEF IndInv
  <2>3. \A d \in onDisk \ {Doomed(t)} : local'[d] = local[d]
    BY <1>2 DEF IndInv, TypeOK
  <2> QED
    BY <1>2, <1>7, <2>1, <2>2, <2>3 DEF history
<1> QED
  BY <1>2, <1>6, <1>8, <1>9, <1>10 DEF IndInv, index, history

\* The end of an action, done, failed or cut short, keeps the invariant.
LEMMA EndKeeps ==
    ASSUME IndInv, NEW t \in Tabs
    PROVE  /\ Forget(t) => IndInv'
           /\ FinishFails(t) => IndInv'
           /\ EndTab(t) => IndInv'
<1>1. ASSUME Forget(t) PROVE IndInv'
  <2>1. entries' \subseteq Databases /\ recorded' \in created \cup {None}
    BY <1>1 DEF Forget, IndInv, TypeOK
  <2>2. TypeOK'
    BY <1>1, <2>1, EndTyped, ReleaseTyped DEF IndInv, TypeOK, Forget, data, history
  <2>3. Sound(t)'
    BY <1>1, EndTyped, SoundPlain DEF Forget, Idle, IndInv
  <2> QED
    BY <1>1, <2>1, <2>2, <2>3, EndTyped, ReleaseTyped, QuietKeeps
    DEF IndInv, Forget, data, history
<1>2. ASSUME FinishFails(t) \/ EndTab(t) PROVE IndInv'
  <2>1. /\ End(t) /\ Release(t) /\ Fault /\ UNCHANGED <<data, index, history>>
        /\ view' \in [Tabs -> Databases \cup {None}]
    BY <1>2 DEF FinishFails, EndTab, IndInv, TypeOK
  <2>2. faults' \in 0..MaxFaults
    BY <2>1, TransferAssumption DEF Fault, IndInv, TypeOK, TransferAssumption
  <2>3. TypeOK'
    BY <2>1, <2>2, EndTyped, ReleaseTyped DEF IndInv, TypeOK, data, index, history
  <2>4. Sound(t)'
    BY <2>1, EndTyped, SoundPlain DEF Idle, IndInv
  <2> QED
    BY <2>1, <2>3, <2>4, EndTyped, ReleaseTyped, QuietKeeps DEF IndInv, data, index, history
<1> QED
  BY <1>1, <1>2
-----------------------------------------------------------------------------
\* Every step of an action under way keeps the invariant.
LEMMA ProceedKeeps ==
    ASSUME IndInv, NEW t \in Tabs, Proceed(t)
    PROVE  IndInv'
<1>1. CASE (\E p \in Projects : Post(t, p)) \/ PostFails(t) \/ Record(t)
  BY <1>1, TargetKeeps
<1>2. CASE Leave(t) \/ Back(t)
  BY <1>2, LeaveKeeps
<1>3. CASE Info(t) \/ Copy(t) \/ Push(t) \/ CopyBack(t)
  BY <1>3, InfoKeeps, CopyKeeps, PushKeeps, CopyBackKeeps
<1>4. CASE TransferFails(t) \/ IndexFails(t) \/ CopyBackFails(t)
  BY <1>4, RefusalKeeps
<1>5. CASE Verify(t)
  BY <1>5, VerifiedKeeps, UnverifiedKeeps
<1>6. CASE Index(t) \/ Destroy(t)
  BY <1>6, IndexKeeps, DestroyKeeps
<1>7. CASE Forget(t) \/ FinishFails(t)
  BY <1>7, EndKeeps
<1> QED
  BY <1>1, <1>2, <1>3, <1>4, <1>5, <1>6, <1>7 DEF Proceed

\* Steps that stutter keep the invariant.
LEMMA StutterKeeps ==
    ASSUME IndInv, UNCHANGED vars
    PROVE  IndInv'
<1> USE DEF vars, data, index, history
<1>1. TypeOK'
  BY DEF IndInv, TypeOK
<1>2. ASSUME NEW t \in Tabs PROVE Sound(t)'
  <2>1. Grows
    BY DEF Grows, IndInv, TypeOK
  <2>2. act[t].at \in {"index", "destroy"} =>
            local'[Doomed(t)] \subseteq OnServer' \cup late'[Doomed(t)]
    BY DEF IndInv, Sound, OnServer
  <2> QED
    BY <2>1, <2>2, SoundStays
<1>3. NothingLost'
  BY DEF IndInv, NothingLost, OnServer
<1> QED
  BY <1>1, <1>2, <1>3 DEF IndInv

\* The invariant is inductive.
LEMMA NextIndInv == IndInv /\ [Next]_vars => IndInv'
<1> SUFFICES ASSUME IndInv, [Next]_vars PROVE IndInv'
  OBVIOUS
<1>1. CASE Next
  <2>1. PICK t \in Tabs :
          \/ \E d \in Databases : Open(t, d)
          \/ \E doc \in Docs : Write(t, doc)
          \/ Promote(t)
          \/ Proceed(t)
          \/ Acquire(t)
          \/ \E p \in Projects :
                RemoveLocalCopy(t, p) \/ Download(t, p) \/ LivePush(t, p) \/ LivePull(t, p)
          \/ Refresh(t) \/ EndTab(t)
    BY <1>1 DEF Next
  <2>2. CASE (\E d \in Databases : Open(t, d)) \/ Refresh(t)
             \/ \E p \in Projects : Download(t, p)
    BY <2>2, ViewKeeps
  <2>3. CASE \E doc \in Docs : Write(t, doc)
    BY <2>3, WriteKeeps
  <2>4. CASE Promote(t) \/ \E p \in Projects : RemoveLocalCopy(t, p)
    BY <2>4, TargetKeeps
  <2>5. CASE Proceed(t)
    BY <2>5, ProceedKeeps
  <2>6. CASE Acquire(t)
    BY <2>6, AcquireKeeps
  <2>7. CASE \E p \in Projects : LivePush(t, p) \/ LivePull(t, p)
    BY <2>7, LiveKeeps
  <2>8. CASE EndTab(t)
    BY <2>8, EndKeeps
  <2> QED
    BY <2>1, <2>2, <2>3, <2>4, <2>5, <2>6, <2>7, <2>8
<1>2. CASE UNCHANGED vars
  BY <1>2, StutterKeeps
<1> QED
  BY <1>1, <1>2

\* What an action of any tab has proved about the data it is about to destroy
\* stays true until the destroy (ui/project-actions.ts, settled).
THEOREM Invariance == Spec => []IndInv
<1>1. Init => IndInv
  BY InitIndInv
<1>2. IndInv /\ [Next]_vars => IndInv'
  BY NextIndInv
<1> QED
  BY <1>1, <1>2, PTL DEF Spec

\* The state is well typed, whatever fails and whoever ends.
THEOREM TypeCorrect == Spec => []TypeOK
<1>1. IndInv => TypeOK
  BY DEF IndInv
<1> QED
  BY <1>1, Invariance, PTL

\* With Web Locks, no document a user was told is saved is ever destroyed with
\* the last database that held it.
THEOREM SavedSurvives == Spec => []NothingLost
<1>1. IndInv => NothingLost
  BY DEF IndInv
<1> QED
  BY <1>1, Invariance, PTL

\* Only destroyLocalProject removes a database, and it removes what was verified.
LEMMA NextDestroysVerified ==
    IndInv /\ [Next]_vars =>
        [\A d \in onDisk \ onDisk' : local[d] \subseteq OnServer \cup late[d]]_vars
<1> SUFFICES ASSUME IndInv, [Next]_vars, NEW d \in onDisk \ onDisk'
             PROVE  local[d] \subseteq OnServer \cup late[d]
  OBVIOUS
<1>1. PICK t \in Tabs : Destroy(t)
  <2>1. onDisk' # onDisk /\ ~ (onDisk \subseteq onDisk')
    OBVIOUS
  <2>2. Next
    BY <2>1 DEF vars, data
  <2>3. PICK t \in Tabs :
           \/ \E e \in Databases : Open(t, e)
           \/ \E doc \in Docs : Write(t, doc)
           \/ Promote(t) \/ Proceed(t) \/ Acquire(t)
           \/ \E p \in Projects :
                 RemoveLocalCopy(t, p) \/ Download(t, p) \/ LivePush(t, p) \/ LivePull(t, p)
           \/ Refresh(t) \/ EndTab(t)
    BY <2>2, Zenon DEF Next
  <2>4. /\ \A e \in Databases : ~Open(t, e)
        /\ \A doc \in Docs : ~Write(t, doc)
        /\ ~Promote(t) /\ ~Acquire(t) /\ ~Refresh(t) /\ ~EndTab(t)
    BY <2>1 DEF Open, Write, Promote, Acquire, Refresh, EndTab, data
  <2>5. \A p \in Projects :
           ~RemoveLocalCopy(t, p) /\ ~Download(t, p) /\ ~LivePush(t, p) /\ ~LivePull(t, p)
    BY <2>1 DEF RemoveLocalCopy, Download, LivePush, LivePull, data
  <2>6. Proceed(t)
    BY <2>3, <2>4, <2>5, Zenon
  <2>7. /\ \A p \in Projects : ~Post(t, p)
        /\ ~PostFails(t) /\ ~Record(t) /\ ~Leave(t) /\ ~Info(t) /\ ~Copy(t) /\ ~Push(t)
    BY <2>1 DEF Post, PostFails, Record, Leave, Info, Copy, Push, data
  <2>8. /\ ~TransferFails(t) /\ ~Verify(t) /\ ~Index(t) /\ ~IndexFails(t)
        /\ ~Forget(t) /\ ~FinishFails(t) /\ ~CopyBack(t) /\ ~CopyBackFails(t) /\ ~Back(t)
    BY <2>1 DEF TransferFails, Verify, Index, IndexFails, Forget, FinishFails, CopyBack,
                CopyBackFails, Back, data
  <2> QED
    BY <2>6, <2>7, <2>8, Zenon DEF Proceed
<1>2. d = Doomed(t)
  BY <1>1 DEF Destroy
<1>3. Sound(t) /\ act[t].at = "destroy"
  BY <1>1 DEF IndInv, Destroy
<1> QED
  BY <1>2, <1>3 DEF Sound

\* A database goes only when the server has every document in it; without Web
\* Locks, every document but those that landed after the last check of update_seq.
THEOREM DestroyedWasPushed == Spec => DestroyedIsOnServer
<1>1. IndInv /\ [Next]_vars =>
        [\A d \in onDisk \ onDisk' : local[d] \subseteq OnServer \cup late[d]]_vars
  BY NextDestroysVerified
<1> QED
  BY <1>1, Invariance, PTL DEF Spec, DestroyedIsOnServer
-----------------------------------------------------------------------------
\* What is within reach of a page: what the server has, and the databases it opens by name.
LEMMA InReach ==
    ASSUME entries \subseteq created \cup {Source}, NEW doc
    PROVE  doc \in OnServer \cup UNION {local[d] : d \in Listed \cup created}
           <=> \/ doc \in OnServer \/ \E d \in created : doc \in local[d]
               \/ Source \in Listed /\ doc \in local[Source]
BY DEF Listed

\* It stays so where only what the server has is destroyed or hidden, and where what is saved
\* lands in what is listed.
LEMMA ReachKeeps ==
    ASSUME TypeOK, WithinReach, entries \subseteq created \cup {Source},
           entries' \subseteq created' \cup {Source}, created \subseteq created',
           created' \subseteq Projects,
           \A p \in Projects : server[p] \subseteq server'[p],
           WebLocks => \A d \in created : local[d] \subseteq local'[d] \cup OnServer,
           WebLocks /\ Source \in Listed =>
               \/ local[Source] \subseteq OnServer
               \/ Source \in Listed' /\ local[Source] \subseteq local'[Source] \cup OnServer,
           \A doc \in saved' \ saved :
               (\E d \in created' : doc \in local'[d]) \/ (Source \in Listed' /\ doc \in local'[Source])
    PROVE  WithinReach'
<1> SUFFICES ASSUME WebLocks, NEW doc \in saved'
             PROVE  doc \in OnServer' \cup UNION {local'[d] : d \in Listed' \cup created'}
  BY DEF WithinReach
<1>1. doc \in OnServer' \cup UNION {local'[d] : d \in Listed' \cup created'}
        <=> \/ doc \in OnServer' \/ \E d \in created' : doc \in local'[d]
            \/ Source \in Listed' /\ doc \in local'[Source]
  BY DEF Listed
<1>2. OnServer \subseteq OnServer'
  BY DEF OnServer, TypeOK
<1>3. CASE doc \in saved
  <2>1. \/ doc \in OnServer \/ \E d \in created : doc \in local[d]
        \/ Source \in Listed /\ doc \in local[Source]
    BY <1>3, InReach DEF WithinReach
  <2> QED BY <1>1, <1>2, <2>1
<1>4. CASE doc \notin saved
  BY <1>1, <1>4
<1> QED BY <1>3, <1>4

\* And so where databases only grow.
LEMMA ReachGrows ==
    ASSUME TypeOK, WithinReach, entries \subseteq created \cup {Source},
           entries' \subseteq created' \cup {Source}, created \subseteq created', created' \subseteq Projects,
           \A p \in Projects : server[p] \subseteq server'[p],
           \A d \in Databases : local[d] \subseteq local'[d],
           Source \in Listed => Source \in Listed',
           \A doc \in saved' \ saved :
               (\E d \in created' : doc \in local'[d]) \/ (Source \in Listed' /\ doc \in local'[Source])
    PROVE  WithinReach'
<1>1. created \subseteq Databases /\ Source \in Databases
  BY NamesApart DEF TypeOK
<1>2. \A d \in created : local[d] \subseteq local'[d] \cup OnServer
  BY <1>1
<1>3. local[Source] \subseteq local'[Source] \cup OnServer
  BY <1>1
<1> QED BY <1>2, <1>3, ReachKeeps

\* What an action is about to destroy is on the server.
LEMMA DoomedIsOnServer ==
    ASSUME IndInv, NEW t \in Tabs, WebLocks, act[t].at \in {"index", "destroy"}
    PROVE  local[Doomed(t)] \subseteq OnServer /\ Doomed(t) \in Databases
BY ActDatabases DEF IndInv, Sound

\* A step of another tab that does nothing moves documents only, or lets its locks go.
LEMMA OnlyOne ==
    ASSUME IndInv, NEW t \in Tabs, Alone(t), Next, Alone(t)'
    PROVE  \/ \E d \in Databases : Open(t, d)
           \/ \E doc \in Docs : Write(t, doc)
           \/ Promote(t) \/ Proceed(t) \/ Acquire(t)
           \/ \E p \in Projects : RemoveLocalCopy(t, p) \/ Download(t, p)
           \/ Refresh(t) \/ EndTab(t)
           \/ \E u \in Tabs, p \in Projects : LivePush(u, p) \/ LivePull(u, p)
           \/ UNCHANGED <<local, server, created, entries, recorded, page, view, act, saved>>
<1>1. PICK u \in Tabs :
          \/ \E d \in Databases : Open(u, d)
          \/ \E doc \in Docs : Write(u, doc)
          \/ Promote(u)
          \/ Proceed(u)
          \/ Acquire(u)
          \/ \E p \in Projects :
                RemoveLocalCopy(u, p) \/ Download(u, p) \/ LivePush(u, p) \/ LivePull(u, p)
          \/ Refresh(u) \/ EndTab(u)
  BY DEF Next
<1>2. CASE u = t
  BY <1>1, <1>2
<1>3. CASE u # t
  <2>0. /\ act[u] = Idle /\ view[u] = None /\ page[u] = {}
        /\ act'[u] = Idle /\ view'[u] = None /\ page'[u] = {}
    BY <1>3 DEF Alone
  <2>1. /\ act[u] = Idle /\ view[u] = None /\ page[u] = {} /\ act[u].at = "idle"
        /\ act'[u] = Idle /\ view'[u] = None /\ page'[u] = {} /\ act'[u].at = "idle"
        /\ act'[u].kind = "none"
    BY <2>0 DEF Idle
  <2>2. ~(\E d \in Databases : Open(u, d)) /\ ~(\E doc \in Docs : Write(u, doc))
    BY <2>1, NamesApart DEF Open, Write, IndInv, TypeOK
  <2>3. ~Promote(u)
    <3> SUFFICES ASSUME Promote(u) PROVE FALSE
      OBVIOUS
    <3>1. PICK at \in Steps :
             act' = [act EXCEPT ![u] = [Idle EXCEPT !.kind = "promote",
                        !.left = TRANSFER_ATTEMPTS, !.project = recorded, !.at = at]]
      BY DEF Promote, Steps
    <3>2. act'[u] = [Idle EXCEPT !.kind = "promote",
                        !.left = TRANSFER_ATTEMPTS, !.project = recorded, !.at = at]
      BY <3>1 DEF IndInv, TypeOK
    <3>3. act'[u].kind = "promote"
      BY <3>2 DEF Idle
    <3> QED BY <2>1, <3>3
  <2>4. ~Acquire(u) /\ ~Proceed(u)
    BY <2>1 DEF Acquire, Proceed, Post, PostFails, Record, Leave, Info, Copy, Push, TransferFails,
                Verify, Index, IndexFails, Destroy, Forget, FinishFails, CopyBack, CopyBackFails, Back
  <2>5. ASSUME NEW p \in Projects PROVE ~RemoveLocalCopy(u, p) /\ ~Download(u, p)
    BY <2>1 DEF RemoveLocalCopy, Download, IndInv, TypeOK, Idle
  <2>6. CASE Refresh(u)
    <3>1. page' = page
      BY <2>1, <2>6 DEF Refresh, IndInv, TypeOK
    <3> QED BY <2>6, <3>1 DEF Refresh, data, index, history
  <2>7. CASE EndTab(u)
    <3>1. act' = act
      BY <2>1, <2>7 DEF EndTab, End, IndInv, TypeOK
    <3>2. page' = page /\ view' = view
      BY <2>1, <2>7 DEF EndTab, End, IndInv, TypeOK
    <3> QED BY <2>7, <3>1, <3>2 DEF EndTab, data, index, history
  <2> QED BY <1>1, <2>2, <2>3, <2>4, <2>5, <2>6, <2>7
<1> QED BY <1>2, <1>3
-----------------------------------------------------------------------------
\* The action of t moves on, among the steps before its database goes.
LEMMA OneTabMoves ==
    ASSUME NEW t \in Tabs, OneTabInv(t), Alone(t)',
           act[t].at \notin Unopened \cup {"destroy", "forget"}, act'[t].at \notin Unopened,
           act'[t].at \in {"copy", "index", "copyBack"} => act[t].kind = "promote",
           act'[t].at \in {"destroy", "forget"} => act[t].kind # "promote",
           act'[t].kind = act[t].kind, act'[t].project = act[t].project,
           act'[t].moved = act[t].moved, UNCHANGED <<created, entries, recorded, page, view>>
    PROVE  OneTabInv(t)'
BY DEF OneTabInv, PromoteInOrder, Unopened, Listed

\* It is over.
LEMMA OneTabEnds ==
    ASSUME IndInv, NEW t \in Tabs, OneTabInv(t), Alone(t)', End(t),
           created \subseteq created', entries' \subseteq entries, 
           view'[t] \in created' \cup {Source, None}, view'[t] = Source => Source \in Listed'
    PROVE  OneTabInv(t)'
<1>1. act'[t] = Idle /\ page'[t] = {}
  BY EndTyped DEF IndInv, TypeOK, End
<1>2. act'[t].at = "idle" /\ act'[t].kind = "none" /\ ~act'[t].moved
  BY <1>1 DEF Idle
<1> QED BY <1>1, <1>2 DEF OneTabInv, PromoteInOrder, Unopened

\* An action moves to another step.
LEMMA GotoFields ==
    ASSUME IndInv, NEW t \in Tabs, NEW step \in Steps, Goto(t, step)
    PROVE  /\ act'[t].at = step /\ act'[t].kind = act[t].kind /\ act'[t].project = act[t].project
           /\ act'[t].moved = act[t].moved /\ \A u \in Tabs \ {t} : act'[u] = act[u]
<1>1. act[t] \in Work
  BY DEF IndInv, TypeOK
<1>2. act'[t] = [act[t] EXCEPT !.at = step] /\ \A u \in Tabs \ {t} : act'[u] = act[u]
  BY GotoTyped DEF IndInv
<1> QED BY <1>1, <1>2 DEF Work

\* Views, and what others replicate.
LEMMA OneTabViews ==
    ASSUME IndInv, IndInv', NEW t \in Tabs, OneTabInv(t), Alone(t)', WithinReach,
           \/ \E d \in Databases : Open(t, d)
           \/ \E doc \in Docs : Write(t, doc)
           \/ Refresh(t) \/ EndTab(t)
           \/ \E p \in Projects : Download(t, p)
           \/ \E u \in Tabs, p \in Projects : LivePush(u, p) \/ LivePull(u, p)
    PROVE  OneTabInv(t)' /\ WithinReach'
<1> USE DEF index, history, data
<1>0. created \subseteq Projects /\ created' \subseteq Projects
  BY DEF IndInv, TypeOK
<1>1. CASE \E d \in Databases : Open(t, d)
  <2>1. PICK d \in Databases : Open(t, d)
    BY <1>1
  <2>2. view'[t] = d /\ d \in Listed /\ act[t].at = "idle"
    BY <2>1 DEF Open, IndInv, TypeOK
  <2>3. UNCHANGED <<local, server, created, entries, recorded, page, act, saved>>
    BY <2>1 DEF Open
  <2>4. Listed' = Listed /\ OnServer' = OnServer
    BY <2>3 DEF Listed, OnServer
  <2>5. d \in created \cup {Source}
    BY <2>2 DEF OneTabInv, Listed
  <2>6. act[t].kind = "none"
    BY <2>2 DEF OneTabInv
  <2>7. OneTabInv(t)'
    BY <2>2, <2>3, <2>4, <2>5, <2>6 DEF OneTabInv, PromoteInOrder
  <2>8. WithinReach'
    BY <2>3, <2>4 DEF WithinReach
  <2> QED BY <2>7, <2>8
<1>2. CASE \E doc \in Docs : Write(t, doc)
  <2>1. PICK doc \in Docs : Write(t, doc)
    BY <1>2
  <2> DEFINE d == view[t]
  <2>2. /\ d \in created \cup {Source} /\ (d = Source => Source \in Listed) /\ d \in Databases
        /\ Land(d, {doc}) /\ saved' = saved \cup {doc}
        /\ UNCHANGED <<server, created, entries, recorded, page, view, act>>
    BY <2>1, NamesApart DEF Write, OneTabInv, IndInv, TypeOK
  <2>3. \A e \in Databases : local'[e] = IF e = d THEN local[e] \cup {doc} ELSE local[e]
    BY <2>2 DEF Land, IndInv, TypeOK
  <2>4. Listed' = Listed /\ doc \in local'[d]
    BY <2>2, <2>3 DEF Listed
  <2>5. OneTabInv(t)'
    BY <2>2, <2>4 DEF OneTabInv, PromoteInOrder
  <2>6. \A e \in Databases : local[e] \subseteq local'[e]
    BY <2>3
  <2>7. entries \subseteq created \cup {Source} /\ entries' \subseteq created' \cup {Source}
    BY <2>2 DEF OneTabInv
  <2> HIDE DEF d
  <2>8. \A x \in saved' \ saved :
               (\E e \in created' : x \in local'[e]) \/ (Source \in Listed' /\ x \in local'[Source])
    BY <2>2, <2>4
  <2>9. WithinReach'
    BY <1>0, <2>2, <2>4, <2>6, <2>7, <2>8, ReachGrows DEF IndInv
  <2> QED BY <2>5, <2>9
<1>3. CASE Refresh(t)
  <2>1. /\ page'[t] = {p \in created \ entries : ~(Source \in entries /\ recorded = p)}
        /\ UNCHANGED <<local, server, created, entries, recorded, view, act, saved>>
    BY <1>3 DEF Refresh, IndInv, TypeOK
  <2>2. Listed' = Listed /\ OnServer' = OnServer
    BY <2>1 DEF Listed, OnServer
  <2>3. OneTabInv(t)'
    BY <2>1, <2>2 DEF OneTabInv, PromoteInOrder
  <2>4. WithinReach'
    BY <2>1, <2>2 DEF WithinReach
  <2> QED BY <2>3, <2>4
<1>4. CASE EndTab(t)
  <2>1. /\ End(t) /\ view'[t] = None
        /\ UNCHANGED <<local, server, created, entries, recorded, saved>>
    BY <1>4 DEF EndTab, IndInv, TypeOK
  <2>2. Listed' = Listed /\ OnServer' = OnServer
    BY <2>1 DEF Listed, OnServer
  <2>3. OneTabInv(t)'
    BY <2>1, NamesApart, OneTabEnds
  <2>4. WithinReach'
    BY <2>1, <2>2 DEF WithinReach
  <2> QED BY <2>3, <2>4
<1>5. CASE \E p \in Projects : Download(t, p)
  <2>1. PICK p \in Projects : Download(t, p)
    BY <1>5
  <2>2. /\ act[t].at = "idle" /\ p \in page[t] /\ entries' = entries \cup {p}
        /\ UNCHANGED <<local, server, created, recorded, page, view, act, saved>>
    BY <2>1 DEF Download
  <2>3. p \in created /\ (Source \in entries => recorded # p) /\ p # Source /\ act[t].kind = "none"
    BY <2>2, NamesApart DEF OneTabInv
  <2>4. Source \in Listed => Source \in Listed'
    BY <2>2, <2>3 DEF Listed
  <2>5. OneTabInv(t)'
    BY <2>2, <2>3, <2>4 DEF OneTabInv, PromoteInOrder
  <2>6. entries \subseteq created \cup {Source} /\ entries' \subseteq created' \cup {Source}
    BY <2>5 DEF OneTabInv
  <2>7. WithinReach'
    BY <1>0, <2>2, <2>4, <2>6, ReachKeeps DEF IndInv
  <2> QED BY <2>5, <2>7
<1>6. CASE \E u \in Tabs, p \in Projects : LivePush(u, p) \/ LivePull(u, p)
  <2>1. PICK u \in Tabs, p \in Projects : LivePush(u, p) \/ LivePull(u, p)
    BY <1>6
  <2>2. /\ \A d \in Databases : local[d] \subseteq local'[d]
        /\ \A q \in Projects : server[q] \subseteq server'[q]
        /\ UNCHANGED <<created, entries, recorded, page, view, act, saved>>
    BY <2>1 DEF LivePush, LivePull, Land, IndInv, TypeOK
  <2>3. Listed' = Listed
    BY <2>2 DEF Listed
  <2>4. OneTabInv(t)'
    BY <2>2, <2>3 DEF OneTabInv, PromoteInOrder
  <2>5. /\ entries \subseteq created \cup {Source} /\ entries' \subseteq created' \cup {Source}
    BY <2>2 DEF OneTabInv
  <2>6. WithinReach'
    BY <1>0, <2>2, <2>3, <2>5, ReachGrows DEF IndInv
  <2> QED BY <2>4, <2>6
<1> QED BY <1>1, <1>2, <1>3, <1>4, <1>5, <1>6

\* Asking for an action: of a source that is there, or of a listed copy.
LEMMA OneTabAsks ==
    ASSUME IndInv, IndInv', NEW t \in Tabs, OneTabInv(t), Alone(t)', WithinReach,
           \/ Promote(t) \/ (\E p \in Projects : RemoveLocalCopy(t, p) \/ Post(t, p))
           \/ PostFails(t) \/ Record(t)
    PROVE  OneTabInv(t)' /\ WithinReach'
<1> USE DEF index, history, data
<1>0. created \subseteq Projects /\ created' \subseteq Projects /\ act[t] \in Work
  BY DEF IndInv, TypeOK
<1>1. CASE Promote(t)
  <2>1. PICK at \in {"post", "leave"} :
           /\ act' = [act EXCEPT ![t] = [Idle EXCEPT !.kind = "promote",
                        !.left = TRANSFER_ATTEMPTS, !.project = recorded, !.at = at]]
           /\ at = "post" <=> recorded = None
    BY <1>1 DEF Promote
  <2>2. act'[t] = [Idle EXCEPT !.kind = "promote",
                        !.left = TRANSFER_ATTEMPTS, !.project = recorded, !.at = at]
    BY <2>1 DEF IndInv, TypeOK
  <2>3. /\ act'[t].at = at /\ act'[t].kind = "promote" /\ act'[t].project = recorded
        /\ ~act'[t].moved
    BY <2>2 DEF Idle
  <2>4. /\ Source \in entries
        /\ UNCHANGED <<local, server, created, entries, recorded, page, view, saved>>
    BY <1>1 DEF Promote
  <2>5. Listed' = Listed /\ OnServer' = OnServer
    BY <2>4 DEF Listed, OnServer
  <2>6. OneTabInv(t)'
    BY <2>1, <2>3, <2>4, <2>5 DEF OneTabInv, PromoteInOrder, Unopened
  <2>7. WithinReach'
    BY <2>4, <2>5 DEF WithinReach
  <2> QED BY <2>6, <2>7
<1>2. CASE \E p \in Projects : RemoveLocalCopy(t, p)
  <2>1. PICK p \in Projects : RemoveLocalCopy(t, p)
    BY <1>2
  <2>2. act'[t] = [Idle EXCEPT !.kind = "remove", !.project = p,
                                  !.left = TRANSFER_ATTEMPTS, !.at = "leave"]
    BY <2>1 DEF RemoveLocalCopy, IndInv, TypeOK
  <2>3. act'[t].at = "leave" /\ act'[t].kind = "remove" /\ ~act'[t].moved
    BY <2>2 DEF Idle
  <2>4. UNCHANGED <<local, server, created, entries, recorded, page, view, saved>>
    BY <2>1 DEF RemoveLocalCopy
  <2>5. Listed' = Listed /\ OnServer' = OnServer
    BY <2>4 DEF Listed, OnServer
  <2>6. OneTabInv(t)'
    BY <2>3, <2>4, <2>5 DEF OneTabInv, PromoteInOrder, Unopened
  <2>7. WithinReach'
    BY <2>4, <2>5 DEF WithinReach
  <2> QED BY <2>6, <2>7
<1>3. CASE \E p \in Projects : Post(t, p)
  <2>1. PICK p \in Projects : Post(t, p)
    BY <1>3
  <2>2. act'[t] = [act[t] EXCEPT !.at = "record", !.project = p]
    BY <2>1, <1>0 DEF Post, IndInv, TypeOK, Work
  <2>3. /\ act'[t].at = "record" /\ act'[t].kind = act[t].kind /\ act'[t].project = p
        /\ act'[t].moved = act[t].moved
    BY <2>2, <1>0 DEF Work
  <2>4. /\ act[t].at = "post" /\ p \notin created /\ created' = created \cup {p}
        /\ UNCHANGED <<local, server, entries, recorded, page, view, saved>>
    BY <2>1 DEF Post
  <2>5. Listed' = Listed /\ p \notin entries
    BY <2>4, NamesApart DEF Listed, OneTabInv
  <2>6. OneTabInv(t)'
    BY <2>3, <2>4, <2>5 DEF OneTabInv, PromoteInOrder, Unopened
  <2>7. entries \subseteq created \cup {Source} /\ entries' \subseteq created' \cup {Source}
    BY <2>4 DEF OneTabInv
  <2>8. WithinReach'
    BY <1>0, <2>4, <2>5, <2>7, ReachGrows DEF IndInv
  <2> QED BY <2>6, <2>8
<1>4. CASE PostFails(t)
  <2>1. /\ End(t) /\ created \subseteq created'
        /\ UNCHANGED <<local, server, entries, recorded, view, saved>>
    BY <1>4 DEF PostFails
  <2>2. Listed' = Listed
    BY <2>1 DEF Listed
  <2>3. view'[t] \in created' \cup {Source, None} /\ (view'[t] = Source => Source \in Listed')
    BY <2>1, <2>2 DEF OneTabInv
  <2>4. OneTabInv(t)'
    BY <2>1, <2>3, OneTabEnds
  <2>5. entries \subseteq created \cup {Source} /\ entries' \subseteq created' \cup {Source}
    BY <2>1 DEF OneTabInv
  <2>6. WithinReach'
    BY <1>0, <2>1, <2>2, <2>5, ReachGrows DEF IndInv
  <2> QED BY <2>4, <2>6
<1>5. CASE Record(t)
  <2>1. /\ act[t].at = "record" /\ Goto(t, "leave") /\ "leave" \in Steps
        /\ UNCHANGED <<local, server, created, entries, page, view, saved>>
    BY <1>5 DEF Record, Steps
  <2>2. /\ act'[t].at = "leave" /\ act'[t].kind = act[t].kind /\ act'[t].project = act[t].project
        /\ act'[t].moved = act[t].moved
    BY <2>1, GotoFields
  <2>3. /\ act[t].kind = "promote" /\ Source \in entries /\ recorded' = act[t].project
        /\ act[t].project \notin entries
    BY <1>5, <2>1 DEF OneTabInv, PromoteInOrder, Record
  <2>4. Source \in Listed'
    BY <2>1, <2>3 DEF Listed
  <2>5. OneTabInv(t)'
    BY <2>1, <2>2, <2>3, <2>4 DEF OneTabInv, PromoteInOrder, Unopened
  <2>6. entries \subseteq created \cup {Source} /\ entries' \subseteq created' \cup {Source}
    BY <2>1 DEF OneTabInv
  <2>7. WithinReach'
    BY <1>0, <2>1, <2>4, <2>6, ReachGrows DEF IndInv
  <2> QED BY <2>5, <2>7
<1> QED BY <1>1, <1>2, <1>3, <1>4, <1>5

\* A refused action copies back, or lets its views return.
LEMMA RefuseFields ==
    ASSUME IndInv, NEW t \in Tabs, Refuse(t)
    PROVE  /\ act'[t].at \in {"copyBack", "back"} /\ (act'[t].at = "copyBack" => act[t].kind = "promote")
           /\ act'[t].kind = act[t].kind /\ act'[t].project = act[t].project
           /\ act'[t].moved = act[t].moved
<1>1. CASE act[t].kind = "promote"
  <2>1. Goto(t, "copyBack") /\ "copyBack" \in Steps
    BY <1>1 DEF Refuse, Steps
  <2> QED BY <1>1, <2>1, GotoFields
<1>2. CASE act[t].kind # "promote"
  <2>1. Goto(t, "back") /\ "back" \in Steps
    BY <1>2 DEF Refuse, Steps
  <2> QED BY <1>2, <2>1, GotoFields
<1> QED BY <1>1, <1>2

\* The steps of a transfer, its checks and its refusals: nothing is hidden, nothing goes.
LEMMA OneTabTransfers ==
    ASSUME IndInv, IndInv', NEW t \in Tabs, OneTabInv(t), Alone(t)', WithinReach,
           \/ Info(t) \/ Copy(t) \/ Push(t) \/ TransferFails(t) \/ Acquire(t) \/ Verify(t)
           \/ IndexFails(t) \/ CopyBack(t) \/ CopyBackFails(t)
    PROVE  OneTabInv(t)' /\ WithinReach'
<1> USE DEF index, history, data
<1>0. created \subseteq Projects /\ created' \subseteq Projects /\ act[t] \in Work
  BY DEF IndInv, TypeOK
<1>1. /\ UNCHANGED <<created, entries, recorded, page, view, saved>>
      /\ \A d \in Databases : local[d] \subseteq local'[d]
      /\ \A p \in Projects : server[p] \subseteq server'[p]
      /\ act[t].at \notin Unopened \cup {"destroy", "forget"}
  <2>1. CASE Copy(t) \/ CopyBack(t)
    BY <2>1 DEF Copy, CopyBack, Land, Unopened, IndInv, TypeOK
  <2>2. CASE Push(t)
    BY <2>2 DEF Push, Unopened, IndInv, TypeOK
  <2>3. CASE Info(t) \/ TransferFails(t) \/ Acquire(t) \/ Verify(t) \/ IndexFails(t) \/ CopyBackFails(t)
    BY <2>3 DEF Info, TransferFails, Acquire, Verify, IndexFails, CopyBackFails, Unopened
  <2> QED BY <2>1, <2>2, <2>3
<1>2. Listed' = Listed
  BY <1>1 DEF Listed
<1>3. entries \subseteq created \cup {Source} /\ entries' \subseteq created' \cup {Source}
  BY <1>1 DEF OneTabInv
<1>4. WithinReach'
  BY <1>0, <1>1, <1>2, <1>3, ReachGrows DEF IndInv
<1>5. /\ act'[t].at \notin Unopened
      /\ act'[t].at \in {"copy", "index", "copyBack"} => act[t].kind = "promote"
      /\ act'[t].at \in {"destroy", "forget"} => act[t].kind # "promote"
      /\ act'[t].kind = act[t].kind /\ act'[t].project = act[t].project
      /\ act'[t].moved = act[t].moved
  <2>1. CASE Refuse(t)
    BY <2>1, RefuseFields DEF Unopened
  <2>2. CASE Info(t)
    <3>1. PICK step \in {"copy", "push"}, before \in SUBSET Docs :
            /\ act'[t] = [act[t] EXCEPT !.before = before, !.at = step]
            /\ step = "copy" => act[t].kind = "promote"
      <4>1. Doomed(t) \in Databases
        BY <2>2, ActDatabases DEF Info
      <4>2. act' = [act EXCEPT ![t] = [act[t] EXCEPT !.before = local[Doomed(t)],
                          !.at = IF act[t].kind = "promote" THEN "copy" ELSE "push"]]
        BY <2>2, <1>0 DEF Info, IndInv, TypeOK, Work
      <4> QED BY <4>1, <4>2 DEF IndInv, TypeOK
    <3> QED BY <1>0, <3>1 DEF Work, Unopened
  <2>3. CASE Copy(t) \/ Push(t) \/ Acquire(t) \/ CopyBack(t) \/ CopyBackFails(t)
    <3>1. PICK step \in {"push", "acquire", "verify", "back"} : Goto(t, step)
      BY <2>3 DEF Copy, Push, Acquire, CopyBack, CopyBackFails
    <3>2. step \in Steps
      BY DEF Steps
    <3> QED BY <3>1, <3>2, GotoFields DEF Unopened
  <2>4. CASE TransferFails(t) \/ IndexFails(t)
    BY <2>1, <2>4 DEF TransferFails, IndexFails
  <2>5. CASE Verify(t) /\ ~Refuse(t)
    <3>1. CASE act[t].alive /\ local[Doomed(t)] = act[t].before
      <4>1. PICK step \in {"index", "destroy"} :
              Goto(t, step) /\ (step = "index" <=> act[t].kind = "promote")
        BY <2>5, <3>1 DEF Verify
      <4>2. step \in Steps
        BY DEF Steps
      <4> QED BY <4>1, <4>2, GotoFields DEF Unopened
    <3>2. CASE ~(act[t].alive /\ local[Doomed(t)] = act[t].before)
      <4>1. act'[t] = [act[t] EXCEPT !.at = "info", !.left = @ - 1]
        BY <1>0, <2>5, <3>2 DEF Verify, IndInv, TypeOK, Work
      <4> QED BY <1>0, <4>1 DEF Work, Unopened
    <3> QED BY <3>1, <3>2
  <2> QED BY <2>1, <2>2, <2>3, <2>4, <2>5
<1>6. OneTabInv(t)'
  BY <1>1, <1>5, OneTabMoves
<1> QED BY <1>4, <1>6

\* The views leave what is about to go, and come back to a source that is shown.
LEMMA OneTabLeaves ==
    ASSUME IndInv, IndInv', NEW t \in Tabs, OneTabInv(t), Alone(t)', WithinReach,
           Leave(t) \/ Back(t)
    PROVE  OneTabInv(t)' /\ WithinReach'
<1> USE DEF index, history, data
<1>0. /\ act[t] \in Work /\ act[t].project \in created /\ act[t].project \in Projects
      /\ act[t].project # Source
  BY ActDatabases, NamesApart DEF Leave, Back, IndInv, TypeOK
<1>1. UNCHANGED <<local, server, created, entries, recorded, saved>>
  BY DEF Leave, Back
<1>2. Listed' = Listed /\ OnServer' = OnServer
  BY <1>1 DEF Listed, OnServer
<1>3. WithinReach'
  BY <1>1, <1>2 DEF WithinReach
<1>4. CASE Leave(t)
  <2> DEFINE moved == view[t] = Doomed(t)
  <2>1. /\ act[t].at = "leave" /\ page' = page
        /\ view'[t] = IF moved THEN IF act[t].kind = "promote" THEN Survivor(t)
                                    ELSE IF Source \in Listed THEN Source ELSE None
                       ELSE view[t]
    BY <1>4 DEF Leave, IndInv, TypeOK
  <2>2. act'[t] = [act[t] EXCEPT !.at = "info", !.moved = moved]
    BY <1>0, <1>4 DEF Leave, IndInv, TypeOK, Work
  <2>3. /\ act'[t].at = "info" /\ act'[t].kind = act[t].kind /\ act'[t].project = act[t].project
        /\ act'[t].moved = moved
    BY <1>0, <2>2 DEF Work
  <2>4. CASE act[t].kind = "promote"
    <3>1. /\ Source \in entries /\ recorded = act[t].project
          /\ moved => act[t].project \notin entries
      BY <2>1, <2>4 DEF OneTabInv, PromoteInOrder, Doomed, Listed
    <3>2. view'[t] # Source /\ view'[t] \in created \cup {Source, None}
      BY <1>0, <2>1, <2>4 DEF Doomed, Survivor, OneTabInv
    <3> QED BY <1>1, <1>2, <1>3, <2>1, <2>3, <2>4, <3>1, <3>2 DEF OneTabInv, PromoteInOrder, Unopened
  <2>5. CASE act[t].kind # "promote"
    <3>1. view'[t] \in created \cup {Source, None} /\ (view'[t] = Source => Source \in Listed)
      BY <2>1, <2>5, NamesApart DEF OneTabInv
    <3>2. PromoteInOrder(t)'
      BY <2>3, <2>5 DEF PromoteInOrder
    <3>3. /\ act'[t].at \notin Unopened /\ act'[t].at # "idle"
          /\ act'[t].at \notin {"post", "record", "copy", "index", "copyBack"}
      BY <2>3 DEF Unopened
    <3>4. entries' \subseteq created' \cup {Source} /\ page'[t] \subseteq created'
      BY <1>1, <2>1 DEF OneTabInv
    <3>5. view'[t] \in created' \cup {Source, None} /\ (view'[t] = Source => Source \in Listed')
      BY <1>1, <1>2, <3>1
    <3>6. OneTabInv(t)'
      BY <3>2, <3>3, <3>4, <3>5 DEF OneTabInv
    <3> QED BY <1>3, <3>6
  <2> QED BY <2>4, <2>5
<1>5. CASE Back(t)
  <2>1. /\ act[t].at = "back" /\ End(t)
        /\ view'[t] = IF act[t].moved THEN Doomed(t) ELSE view[t]
    BY <1>5 DEF Back, IndInv, TypeOK
  <2>2. act[t].kind = "promote" /\ act[t].moved => Source \in Listed
    BY <2>1 DEF OneTabInv, PromoteInOrder, Listed
  <2>3. view'[t] \in created \cup {Source, None} /\ (view'[t] = Source => Source \in Listed)
    BY <1>0, <2>1, <2>2 DEF OneTabInv, Doomed
  <2>4. OneTabInv(t)'
    BY <1>1, <1>2, <2>1, <2>3, OneTabEnds
  <2> QED BY <1>3, <2>4
<1> QED BY <1>4, <1>5

\* The end of an action: what is hidden, destroyed and forgotten is on the server.
LEMMA OneTabFinishes ==
    ASSUME IndInv, IndInv', NEW t \in Tabs, OneTabInv(t), Alone(t)', WithinReach,
           Index(t) \/ Destroy(t) \/ Forget(t) \/ FinishFails(t)
    PROVE  OneTabInv(t)' /\ WithinReach'
<1> USE DEF index, history, data
<1>0. /\ act[t] \in Work /\ act[t].project \in created /\ act[t].project \in Projects
      /\ act[t].project # Source /\ created \subseteq Projects /\ created' \subseteq Projects
      /\ Doomed(t) \in Databases
  BY ActDatabases, NamesApart DEF Index, Destroy, Forget, FinishFails, IndInv, TypeOK
<1>1. CASE Index(t)
  <2>1. /\ act[t].at = "index" /\ entries' = entries \cup {act[t].project} /\ Goto(t, "destroy")
        /\ UNCHANGED <<local, server, created, recorded, page, view, saved>> /\ "destroy" \in Steps
    BY <1>1 DEF Index, Survivor, Steps
  <2>2. /\ act'[t].at = "destroy" /\ act'[t].kind = act[t].kind /\ act'[t].project = act[t].project
        /\ act'[t].moved = act[t].moved
    BY <2>1, GotoFields
  <2>3. act[t].kind = "promote" /\ view[t] # Source
    BY <2>1 DEF OneTabInv, PromoteInOrder, Unopened
  <2>4. OneTabInv(t)'
    BY <1>0, <2>1, <2>2, <2>3 DEF OneTabInv, PromoteInOrder, Unopened
  <2>5. WebLocks => local[Source] \subseteq OnServer
    BY <2>1, <2>3, DoomedIsOnServer DEF Doomed
  <2>6. entries \subseteq created \cup {Source} /\ entries' \subseteq created' \cup {Source}
    BY <2>4 DEF OneTabInv
  <2>7. WithinReach'
    BY <1>0, <2>1, <2>5, <2>6, ReachKeeps DEF IndInv
  <2> QED BY <2>4, <2>7
<1>2. CASE Destroy(t)
  <2>1. /\ act[t].at = "destroy"
        /\ \A d \in Databases : local'[d] = IF d = Doomed(t) THEN {} ELSE local[d]
        /\ view'[t] = IF view[t] = Doomed(t) THEN None ELSE view[t]
        /\ act'[t] = [act[t] EXCEPT !.at = "forget"]
        /\ UNCHANGED <<server, created, entries, recorded, page, saved>>
    BY <1>0, <1>2 DEF Destroy, IndInv, TypeOK
  <2>2. /\ act'[t].at = "forget" /\ act'[t].kind = act[t].kind /\ act'[t].project = act[t].project
        /\ act'[t].moved = act[t].moved
    BY <1>0, <2>1 DEF Work
  <2>3. Listed' = Listed
    BY <2>1 DEF Listed
  <2>4. OneTabInv(t)'
    BY <2>1, <2>2, <2>3, NamesApart DEF OneTabInv, PromoteInOrder, Unopened
  <2>5. WebLocks => \A d \in Databases : local[d] \subseteq local'[d] \cup OnServer
    BY <2>1, DoomedIsOnServer
  <2>6. entries \subseteq created \cup {Source} /\ entries' \subseteq created' \cup {Source}
    BY <2>1 DEF OneTabInv
  <2>7. created \subseteq Databases /\ Source \in Databases
    BY <1>0, NamesApart
  <2>8. /\ WebLocks => \A d \in created : local[d] \subseteq local'[d] \cup OnServer
        /\ WebLocks => local[Source] \subseteq local'[Source] \cup OnServer
    BY <2>5, <2>7
  <2>9. WithinReach'
    BY <1>0, <2>1, <2>3, <2>6, <2>8, ReachKeeps DEF IndInv
  <2> QED BY <2>4, <2>9
<1>3. CASE Forget(t)
  <2>1. /\ act[t].at = "forget" /\ End(t) /\ entries' = entries \ {Doomed(t)}
        /\ recorded' = IF Doomed(t) = Source THEN None ELSE recorded
        /\ UNCHANGED <<local, server, created, view, saved>>
    BY <1>3 DEF Forget
  <2>2. Source \in Listed => Source \in Listed'
    BY <1>0, <2>1 DEF Listed, OneTabInv, PromoteInOrder, Doomed
  <2>3. OneTabInv(t)'
    BY <2>1, <2>2, OneTabEnds DEF OneTabInv
  <2>4. entries \subseteq created \cup {Source} /\ entries' \subseteq created' \cup {Source}
    BY <2>3 DEF OneTabInv
  <2>5. WithinReach'
    BY <1>0, <2>1, <2>2, <2>4, ReachGrows DEF IndInv
  <2> QED BY <2>3, <2>5
<1>4. CASE FinishFails(t)
  <2>1. End(t) /\ UNCHANGED <<local, server, created, entries, recorded, view, saved>>
    BY <1>4 DEF FinishFails
  <2>2. Listed' = Listed /\ OnServer' = OnServer
    BY <2>1 DEF Listed, OnServer
  <2>3. OneTabInv(t)'
    BY <2>1, <2>2, OneTabEnds DEF OneTabInv
  <2>4. WithinReach'
    BY <2>1, <2>2 DEF WithinReach
  <2> QED BY <2>3, <2>4
<1> QED BY <1>1, <1>2, <1>3, <1>4

\* The start: nothing is created, shown or under way.
LEMMA ReachInit == ScenarioInit => ReachInv
<1>1. ScenarioInit => WithinReach
  BY DEF ScenarioInit, Init, WithinReach
<1> SUFFICES ASSUME ScenarioInit, NEW t \in Tabs PROVE OneTabInv(t)
  BY <1>1 DEF ReachInv
<1>2. Alone(t)
  BY DEF ScenarioInit, Init, Alone
<1>3. act[t] = Idle /\ view[t] = None /\ page[t] = {} /\ entries = {Source}
  BY DEF ScenarioInit, Init
<1>4. act[t].at = "idle" /\ act[t].kind = "none" /\ ~act[t].moved
  BY <1>3 DEF Idle
<1>5. OneTabInv(t)
  BY <1>2, <1>3, <1>4, NamesApart DEF OneTabInv, PromoteInOrder
<1> QED BY <1>5

\* A step that leaves all these alone.
LEMMA OneTabRests ==
    ASSUME NEW t \in Tabs, OneTabInv(t), WithinReach,
           UNCHANGED <<local, server, created, entries, recorded, page, view, act, saved>>
    PROVE  OneTabInv(t)' /\ WithinReach'
<1>1. Listed' = Listed /\ OnServer' = OnServer
  BY DEF Listed, OnServer
<1>2. WithinReach'
  BY <1>1 DEF WithinReach
<1>3. Alone(t)'
  BY DEF OneTabInv, Alone
<1>4. OneTabInv(t)'
  BY <1>1, <1>3 DEF OneTabInv, PromoteInOrder
<1> QED BY <1>2, <1>4

\* Every step, with its name: the views, the asking, the transfer, the end.
LEMMA OneTabSteps ==
    ASSUME IndInv, IndInv', NEW t \in Tabs, OneTabInv(t), Alone(t)', WithinReach, Next
    PROVE  OneTabInv(t)' /\ WithinReach'
<1>0. Alone(t)
  BY DEF OneTabInv
<1>1. CASE \/ \E d \in Databases : Open(t, d)
           \/ \E doc \in Docs : Write(t, doc)
           \/ Refresh(t) \/ EndTab(t)
           \/ \E p \in Projects : Download(t, p)
           \/ \E u \in Tabs, p \in Projects : LivePush(u, p) \/ LivePull(u, p)
  BY <1>1, OneTabViews
<1>2. CASE Promote(t) \/ \E p \in Projects : RemoveLocalCopy(t, p)
  BY <1>2, OneTabAsks
<1>3. CASE Acquire(t)
  BY <1>3, OneTabTransfers
<1>4. CASE Proceed(t)
  <2>1. CASE (\E p \in Projects : Post(t, p)) \/ PostFails(t) \/ Record(t)
    BY <2>1, OneTabAsks
  <2>2. CASE \/ Info(t) \/ Copy(t) \/ Push(t) \/ TransferFails(t) \/ Verify(t)
             \/ IndexFails(t) \/ CopyBack(t) \/ CopyBackFails(t)
    BY <2>2, OneTabTransfers
  <2>3. CASE Leave(t) \/ Back(t)
    BY <2>3, OneTabLeaves
  <2>4. CASE Index(t) \/ Destroy(t) \/ Forget(t) \/ FinishFails(t)
    BY <2>4, OneTabFinishes
  <2> QED BY <1>4, <2>1, <2>2, <2>3, <2>4 DEF Proceed
<1>5. CASE UNCHANGED <<local, server, created, entries, recorded, page, view, act, saved>>
  BY <1>5, OneTabRests
<1> QED BY <1>0, <1>1, <1>2, <1>3, <1>4, <1>5, OnlyOne

\* In the scenario of one tab, the others stay as they were.
LEMMA ReachStep == IndInv /\ IndInv' /\ ReachInv /\ [ScenarioNext]_allVars => ReachInv'
<1> SUFFICES ASSUME IndInv, IndInv', ReachInv, [ScenarioNext]_allVars PROVE ReachInv'
  OBVIOUS
<1>1. CASE ScenarioNext
  <2>1. scenario' = scenario
    BY <1>1 DEF ScenarioNext, Within
  <2> SUFFICES ASSUME scenario = "faults"
               PROVE  WithinReach' /\ \A t \in Tabs \cap Main : OneTabInv(t)'
    BY <2>1 DEF ReachInv
  <2>2. PICK t \in Tabs : Main \cap Tabs = {t}
    BY MainAssumption DEF MainAssumption
  <2>3. Tabs \ Main = Tabs \ {t} /\ Tabs \cap Main = {t}
    BY <2>2
  <2>4. OneTabInv(t) /\ WithinReach
    BY <2>3 DEF ReachInv
  <2>5. \A u \in Tabs \ {t} : act'[u] = act[u] /\ view'[u] = view[u] /\ page'[u] = page[u]
    BY <1>1, <2>3 DEF ScenarioNext, Within
  <2>6. Alone(t)'
    BY <2>4, <2>5 DEF OneTabInv, Alone
  <2>7. OneTabInv(t)' /\ WithinReach'
    BY <1>1, <2>4, <2>6, OneTabSteps DEF ScenarioNext
  <2> QED BY <2>3, <2>7
<1>2. CASE UNCHANGED allVars
  <2>1. /\ UNCHANGED <<local, server, created, entries, recorded, page, view, act, saved>>
        /\ scenario' = scenario
    BY <1>2 DEF allVars, vars, data, index, history
  <2>2. ASSUME NEW t \in Tabs \cap Main, scenario = "faults" PROVE OneTabInv(t)'
    BY <2>1, <2>2, OneTabRests DEF ReachInv
  <2>3. scenario = "faults" => WithinReach'
    BY <2>1, <2>2, OneTabRests, MainAssumption DEF ReachInv, MainAssumption
  <2> QED BY <2>1, <2>2, <2>3 DEF ReachInv
<1> QED BY <1>1, <1>2

\* With Web Locks, a tab that is alone in acting keeps every document saved where a page finds it
\* (ui/project-actions.ts, promote and removeLocalCopy), whatever fails and whenever it ends:
\* listed in this browser, of a project on the server, or with it.
THEOREM OneTabReaches == ScenarioSpec => []WithinReachOfOneTab
<1>1. ScenarioInit => IndInv /\ ReachInv
  BY InitIndInv, ReachInit DEF ScenarioInit
<1>2. IndInv /\ [ScenarioNext]_allVars => IndInv'
  <2>1. [ScenarioNext]_allVars => [Next]_vars
    BY DEF ScenarioNext, allVars
  <2> QED BY <2>1, NextIndInv
<1>3. IndInv /\ ReachInv /\ [ScenarioNext]_allVars => IndInv' /\ ReachInv'
  BY <1>2, ReachStep
<1>4. ReachInv => WithinReachOfOneTab
  BY DEF ReachInv, WithinReachOfOneTab
<1> QED BY <1>1, <1>3, <1>4, PTL DEF ScenarioSpec
=============================================================================
