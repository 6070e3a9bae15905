---------------------------- MODULE StorageProofs ----------------------------
(***************************************************************************)
(* Theorems of what the tabs of one browser share, for any number of tabs, *)
(* projects, databases and keys.                                           *)
(***************************************************************************)
EXTENDS MCBrowserStorage, LocalCacheProofs, Sequences

(* 1. The keys of projects (ProjectKeys).                                   *)

\* The data key of the catalogue: what this device's wrap of it holds.
CatalogueKey == IF deviceKey # None THEN wraps["catalogue"][deviceKey] ELSE None

Resolution == [at : {"rest", "rows", "device", "add", "wrap", "mint", "escrow", "seal"},
               mints : BOOLEAN, key : Keys \cup {None}, dek : K!Deks \cup {None},
               kept : BOOLEAN]

Recovery == [at : {"no", "reach", "unlock", "register", "post", "pullAgain", "fetch", "end"},
             left : 0..2]

KeysTyped ==
    /\ deviceKey \in Keys \cup {None} /\ answered \subseteq Keys
    /\ wraps \in [K!Databases -> [K!Slots -> K!Deks \cup {None}]]
    /\ code \in [K!Databases -> [Docs -> K!Deks \cup {None, "plain"}]]
    /\ memo \in [Tabs -> [K!Databases -> K!States]]
    /\ run \in [Tabs -> [K!Databases -> Resolution]]
    /\ recovery \in [Tabs -> Recovery]
    /\ remote \in [wraps : [K!Slots -> {None, Shared}], moves : Nat]

\* A resolution of db: the device key it was given is the one that is stored; a project
\* is not keyed here; what it wraps or seals with is what the catalogue's wrap holds.
RunSound(db, r) ==
    /\ r.at = "add" => r.key # None
    /\ r.at \in {"wrap", "mint", "escrow", "seal"} => deviceKey # None /\ r.key = deviceKey
    /\ db = "project" => ~r.mints /\ r.at \notin {"mint", "escrow", "seal"}
    /\ r.at \in {"escrow", "seal"} => r.dek = CatalogueKey /\ r.dek # None

\* A data key remembered of db is the one that its wraps hold, and the catalogue, once
\* its key is remembered, has been sealed.
MemoSound(db, m) ==
    m \in K!Deks =>
        IF db = "project" THEN m = Shared
        ELSE m = CatalogueKey /\ \A d \in Docs : code["catalogue"][d] # "plain"

AnsweredSound == answered \subseteq {deviceKey} /\ (deviceKey = None => answered = {})

\* Whatever is wrapped or sealed in a database is so with its one key.
StoredSound ==
    /\ \A s \in K!Slots : /\ wraps["project"][s] \in {None, Shared}
                          /\ wraps["catalogue"][s] \in {None, CatalogueKey}
    /\ \A d \in Docs : /\ code["project"][d] \in {None, Shared}
                       /\ code["catalogue"][d] \in {None, "plain", CatalogueKey}

KeysInv ==
    /\ KeysTyped /\ AnsweredSound /\ StoredSound /\ K!ShownIsOpened
    /\ \A t \in Tabs, db \in K!Databases :
          RunSound(db, run[t][db]) /\ MemoSound(db, memo[t][db])

LEMMA KeysConstants ==
  /\ None \notin Keys /\ None \notin K!Deks /\ Keys \subseteq K!Slots
  /\ \A w \in {"plain", "unread", "keyless", "locked"} : w \notin K!Deks /\ w # None
  /\ \A db : db \in K!Databases <=> db \in {"catalogue", "project"}
  /\ Shared \in K!Deks /\ Minted \subseteq K!Deks
BY KeysAssumption DEF K!Deks, K!Slots, K!Databases

LEMMA SomeOf == ASSUME NEW keys, keys # {} PROVE K!Some(keys) \in keys
BY DEF K!Some

LEMMA RestingSound ==
  ASSUME NEW db, NEW at \in {"rest", "rows"}
  PROVE  /\ [K!Resting EXCEPT !.at = at] \in Resolution /\ K!Resting \in Resolution
         /\ RunSound(db, [K!Resting EXCEPT !.at = at]) /\ RunSound(db, K!Resting)
BY DEF K!Resting, Resolution, RunSound

\* What the wraps and codes hold of a database: its one key.
LEMMA KeyOfDatabase ==
  ASSUME KeysInv
  PROVE  /\ CatalogueKey \in K!Deks \cup {None}
         /\ deviceKey # None => /\ deviceKey \in K!Slots
                                /\ CatalogueKey = wraps["catalogue"][deviceKey]
         /\ deviceKey = None => CatalogueKey = None
BY KeysConstants DEF KeysInv, KeysTyped, CatalogueKey

\* A step that stores nothing keeps the invariant if what it makes of the resolutions and
\* of what is remembered is sound.
LEMMA UnstoredKeeps ==
  ASSUME KeysInv, UNCHANGED <<deviceKey, wraps, code, remote>>, AnsweredSound',
         answered' \subseteq Keys, recovery' \in [Tabs -> Recovery], K!ShownIsOpened',
         memo' \in [Tabs -> [K!Databases -> K!States]],
         run' \in [Tabs -> [K!Databases -> Resolution]],
         \A t \in Tabs, db \in K!Databases :
            /\ run'[t][db] = run[t][db] \/ RunSound(db, run'[t][db])
            /\ memo'[t][db] = memo[t][db] \/ MemoSound(db, memo'[t][db])
  PROVE  KeysInv'
<1>1. KeysTyped' /\ StoredSound'
  BY DEF KeysInv, KeysTyped, StoredSound, CatalogueKey
<1>2. ASSUME NEW t \in Tabs, NEW db \in K!Databases
      PROVE  RunSound(db, run[t][db])' /\ MemoSound(db, memo[t][db])'
  <2>1. RunSound(db, run'[t][db]) /\ MemoSound(db, memo'[t][db])
    BY DEF KeysInv
  <2> QED BY <2>1 DEF RunSound, MemoSound, CatalogueKey
<1> QED BY <1>1, <1>2 DEF KeysInv

\* The step of one resolution.
LEMMA GoKeeps ==
  ASSUME KeysInv, NEW t \in Tabs, NEW db \in K!Databases, NEW next \in Resolution,
         RunSound(db, next), K!Go(t, db, next),
         UNCHANGED <<deviceKey, wraps, code, memo, recovery, remote, seen>>,
         AnsweredSound', answered' \subseteq Keys
  PROVE  KeysInv'
<1>1. run' \in [Tabs -> [K!Databases -> Resolution]]
  BY DEF K!Go, KeysInv, KeysTyped
<1>2. \A u \in Tabs, e \in K!Databases :
         run'[u][e] = run[u][e] \/ RunSound(e, run'[u][e])
  BY DEF K!Go, KeysInv, KeysTyped
<1>3. K!ShownIsOpened' /\ UNCHANGED <<deviceKey, wraps, code, remote>>
      /\ recovery' \in [Tabs -> Recovery] /\ memo' \in [Tabs -> [K!Databases -> K!States]]
  BY DEF KeysInv, KeysTyped, K!ShownIsOpened
<1> QED BY <1>1, <1>2, <1>3, UnstoredKeeps

\* The end of a resolution, with its answer.
LEMMA AnswerKeeps ==
  ASSUME KeysInv, NEW t \in Tabs, NEW db \in K!Databases, NEW state \in K!States,
         MemoSound(db, state), K!Answer(t, db, state),
         UNCHANGED <<deviceKey, answered, wraps, code, remote, seen>>
  PROVE  KeysInv'
<1>1. run' \in [Tabs -> [K!Databases -> Resolution]]
  BY RestingSound DEF K!Answer, KeysInv, KeysTyped
<1>2. memo' \in [Tabs -> [K!Databases -> K!States]]
  BY DEF K!Answer, KeysInv, KeysTyped
<1>3. \A u \in Tabs, e \in K!Databases :
         /\ run'[u][e] = run[u][e] \/ RunSound(e, run'[u][e])
         /\ memo'[u][e] = memo[u][e] \/ MemoSound(e, memo'[u][e])
  BY RestingSound DEF K!Answer, KeysInv, KeysTyped
<1>4. recovery' \in [Tabs -> Recovery]
  BY DEF K!Answer, KeysInv, KeysTyped, Recovery
<1>5. K!ShownIsOpened' /\ AnsweredSound' /\ answered' \subseteq Keys
      /\ UNCHANGED <<deviceKey, wraps, code, remote>>
  BY DEF KeysInv, KeysTyped, K!ShownIsOpened, AnsweredSound
<1> QED BY <1>1, <1>2, <1>3, <1>4, <1>5, UnstoredKeeps

\* What a refresh of the key state leaves: it is unread, and an answer is not kept.
LEMMA RefreshedSound ==
  ASSUME KeysInv, NEW t \in Tabs, NEW db \in K!Databases,
         K!Refreshed(t, db) \/ UNCHANGED <<memo, run>>
  PROVE  /\ memo' \in [Tabs -> [K!Databases -> K!States]]
         /\ run' \in [Tabs -> [K!Databases -> Resolution]]
         /\ \A u \in Tabs, e \in K!Databases :
               /\ run'[u][e] = run[u][e] \/ RunSound(e, run'[u][e])
               /\ memo'[u][e] = memo[u][e] \/ memo'[u][e] = K!Unread
<1>1. CASE UNCHANGED <<memo, run>>
  BY <1>1 DEF KeysInv, KeysTyped
<1>2. CASE K!Refreshed(t, db)
  <2> DEFINE r == run[t][db]
             next == [r EXCEPT !.kept = r.at = "rest"]
  <2>1. r \in Resolution /\ RunSound(db, r)
    BY DEF KeysInv, KeysTyped
  <2>2. next \in Resolution /\ RunSound(db, next)
    BY <2>1 DEF Resolution, RunSound
  <2>3. run' = [run EXCEPT ![t][db] = next]
    BY <1>2 DEF K!Refreshed, KeysInv, KeysTyped
  <2>4. memo' = [memo EXCEPT ![t][db] = K!Unread] /\ K!Unread \in K!States
    BY <1>2 DEF K!Refreshed, K!States
  <2> QED BY <2>2, <2>3, <2>4 DEF KeysInv, KeysTyped
<1> QED BY <1>1, <1>2

\* A step of replication or recovery that brings nothing in.
LEMMA ForgetKeeps ==
  ASSUME KeysInv, NEW t \in Tabs, NEW db \in K!Databases,
         K!Refreshed(t, db) \/ UNCHANGED <<memo, run>>,
         UNCHANGED <<deviceKey, answered, wraps, code, remote, seen>>,
         recovery' \in [Tabs -> Recovery]
  PROVE  KeysInv'
<1>1. \A e : MemoSound(e, K!Unread)
  BY KeysConstants DEF MemoSound, K!Unread
<1>2. AnsweredSound' /\ answered' \subseteq Keys /\ K!ShownIsOpened'
  BY DEF KeysInv, KeysTyped, AnsweredSound, K!ShownIsOpened
<1> QED BY <1>1, <1>2, RefreshedSound, UnstoredKeeps

\* What replication brings in is wrapped and sealed with the key of the project.
LEMMA InboundKeeps ==
  ASSUME KeysInv, NEW t \in Tabs, NEW slots, NEW docs, K!Inbound(t, slots, docs),
         K!Refreshed(t, "project") \/ UNCHANGED <<memo, run>>,
         UNCHANGED <<deviceKey, answered, remote, seen>>, recovery' \in [Tabs -> Recovery]
  PROVE  KeysInv'
<1>1. /\ wraps' = [wraps EXCEPT !["project"] = [s \in K!Slots |->
                     IF s \in slots THEN remote.wraps[s] ELSE @[s]]]
      /\ code' = [code EXCEPT !["project"] = [d \in Docs |->
                     IF d \in docs THEN Shared ELSE @[d]]]
  BY DEF K!Inbound
<1>2. remote.wraps \in [K!Slots -> {None, Shared}]
  BY DEF KeysInv, KeysTyped
<1>3. wraps'["catalogue"] = wraps["catalogue"] /\ code'["catalogue"] = code["catalogue"]
  BY <1>1, KeysConstants DEF KeysInv, KeysTyped
<1>4. CatalogueKey' = CatalogueKey
  BY <1>3 DEF CatalogueKey
<1>5. /\ wraps' \in [K!Databases -> [K!Slots -> K!Deks \cup {None}]]
      /\ code' \in [K!Databases -> [Docs -> K!Deks \cup {None, "plain"}]]
  BY <1>1, <1>2, KeysConstants DEF KeysInv, KeysTyped
<1>6. /\ \A s \in K!Slots : wraps'["project"][s] \in {None, Shared}
      /\ \A d \in Docs : code'["project"][d] \in {None, Shared}
  BY <1>1, <1>2, KeysConstants DEF KeysInv, KeysTyped, StoredSound
<1>7. StoredSound'
  BY <1>3, <1>4, <1>6 DEF KeysInv, StoredSound
<1>8. KeysTyped' /\ AnsweredSound' /\ K!ShownIsOpened'
  BY <1>5, RefreshedSound, KeysConstants DEF KeysInv, KeysTyped, AnsweredSound, K!ShownIsOpened
<1>9. ASSUME NEW u \in Tabs, NEW e \in K!Databases
      PROVE  RunSound(e, run[u][e])' /\ MemoSound(e, memo[u][e])'
  <2>1. RunSound(e, run'[u][e])
    BY RefreshedSound, KeysConstants DEF KeysInv
  <2>2. MemoSound(e, memo'[u][e])
    <3>1. MemoSound(e, memo[u][e]) /\ MemoSound(e, K!Unread)
      BY KeysConstants DEF KeysInv, MemoSound, K!Unread
    <3> QED BY <3>1, RefreshedSound, KeysConstants
  <2> QED BY <1>3, <1>4, <2>1, <2>2 DEF RunSound, MemoSound
<1> QED BY <1>7, <1>8, <1>9 DEF KeysInv

\* ensureDeviceKey(): the key that is stored is the one every caller is given.
LEMMA DeviceKeyKeeps ==
  ASSUME KeysInv, NEW t \in Tabs, NEW db \in K!Databases,
         K!ReadDeviceKey(t, db) \/ K!AddDeviceKey(t, db)
  PROVE  KeysInv'
<1> DEFINE r == run[t][db]
<1>0. r \in Resolution /\ RunSound(db, r) /\ AnsweredSound /\ answered \subseteq Keys
  BY DEF KeysInv, KeysTyped
<1>1. ASSUME NEW k \in Keys, K!WithKey(t, db, k), k = deviceKey,
             UNCHANGED <<deviceKey, wraps, code, memo, recovery, remote, seen>>
      PROVE  KeysInv'
  <2> DEFINE next == [r EXCEPT !.key = k, !.at = IF r.mints THEN "mint" ELSE "wrap"]
  <2>1. next \in Resolution
    BY <1>0 DEF Resolution
  <2>2. next.key = k /\ next.at = (IF r.mints THEN "mint" ELSE "wrap") /\ next.mints = r.mints
    BY <1>0 DEF Resolution
  <2>3. RunSound(db, next)
    BY <1>0, <1>1, <2>2, KeysConstants DEF RunSound
  <2>4. K!Go(t, db, next) /\ answered' = answered \cup {k}
    BY <1>1 DEF K!WithKey
  <2>5. AnsweredSound' /\ answered' \subseteq Keys
    BY <1>0, <1>1, <2>4, KeysConstants DEF AnsweredSound
  <2> HIDE DEF next
  <2> QED BY <1>1, <2>1, <2>3, <2>4, <2>5, GoKeeps
<1>2. CASE K!ReadDeviceKey(t, db)
  <2>1. UNCHANGED <<deviceKey, wraps, code, memo, recovery, remote, seen>> /\ r.at = "device"
    BY <1>2 DEF K!ReadDeviceKey, K!local, K!server
  <2>2. CASE deviceKey # None
    BY <1>1, <1>2, <2>1, <2>2 DEF K!ReadDeviceKey, KeysInv, KeysTyped
  <2>3. CASE deviceKey = None
    <3> DEFINE k == K!Some(Keys \ K!Generated)
               next == [r EXCEPT !.at = "add", !.key = k]
    <3>1. Keys \ K!Generated # {} /\ K!Go(t, db, next) /\ UNCHANGED answered
      BY <1>2, <2>3 DEF K!ReadDeviceKey
    <3>2. k \in Keys
      BY <3>1, SomeOf
    <3> HIDE DEF k
    <3>3. next \in Resolution /\ RunSound(db, next)
      BY <1>0, <3>2, KeysConstants DEF Resolution, RunSound
    <3>4. AnsweredSound' /\ answered' \subseteq Keys
      BY <1>0, <2>1, <3>1 DEF AnsweredSound
    <3> HIDE DEF next
    <3> QED BY <2>1, <3>1, <3>3, <3>4, GoKeeps
  <2> QED BY <2>2, <2>3
<1>3. CASE K!AddDeviceKey(t, db)
  <2>1. /\ UNCHANGED <<wraps, code, memo, recovery, remote, seen>> /\ r.at = "add"
        /\ deviceKey' = (IF deviceKey = None THEN r.key ELSE deviceKey)
        /\ K!WithKey(t, db, deviceKey')
    BY <1>3 DEF K!AddDeviceKey, K!local, K!server
  <2>2. CASE deviceKey # None
    BY <1>1, <2>1, <2>2 DEF KeysInv, KeysTyped
  <2>3. CASE deviceKey = None
    <3> DEFINE k == r.key
               next == [r EXCEPT !.key = k, !.at = IF r.mints THEN "mint" ELSE "wrap"]
    <3>1. deviceKey' = k /\ k \in Keys /\ k # None /\ answered' = answered \cup {k}
          /\ run' = [run EXCEPT ![t][db] = next]
      BY <1>0, <2>1, <2>3 DEF Resolution, RunSound, K!WithKey, K!Go
    <3>2. next \in Resolution /\ next.key = k /\ next.mints = r.mints
          /\ next.at = (IF r.mints THEN "mint" ELSE "wrap")
      BY <1>0 DEF Resolution
    <3>3. CatalogueKey = None /\ CatalogueKey' = None
      BY <2>1, <2>3, <3>1, KeysConstants DEF CatalogueKey, KeysInv, StoredSound
    <3> HIDE DEF next
    <3>4. KeysTyped' /\ AnsweredSound' /\ StoredSound' /\ K!ShownIsOpened'
      BY <1>0, <2>1, <2>3, <3>1, <3>2, <3>3
         DEF KeysInv, KeysTyped, AnsweredSound, StoredSound, K!ShownIsOpened
    <3>5. ASSUME NEW u \in Tabs, NEW e \in K!Databases
          PROVE  RunSound(e, run[u][e])' /\ MemoSound(e, memo[u][e])'
      <4>1. RunSound(e, run[u][e]) /\ MemoSound(e, memo[u][e])
        BY DEF KeysInv
      <4>2. MemoSound(e, memo[u][e])'
        BY <2>1, <3>3, <4>1 DEF MemoSound
      <4>3. CASE run'[u][e] = run[u][e]
        BY <2>3, <3>3, <4>1, <4>2, <4>3 DEF RunSound
      <4>4. CASE u = t /\ e = db /\ run'[u][e] = next
        BY <1>0, <3>1, <3>2, <4>2, <4>4 DEF RunSound
      <4> QED BY <3>1, <4>3, <4>4 DEF KeysInv, KeysTyped
    <3> QED BY <3>4, <3>5 DEF KeysInv
  <2> QED BY <2>2, <2>3
<1> QED BY <1>2, <1>3

\* createProjectKeys(): the catalogue is minted for once, under the id of the one device key.
LEMMA MintKeeps ==
  ASSUME KeysInv, NEW t \in Tabs, NEW db \in K!Databases, K!Mint(t, db)
  PROVE  KeysInv'
<1> DEFINE r == run[t][db]
<1>1. /\ r.at = "mint" /\ r \in Resolution /\ RunSound(db, r)
      /\ UNCHANGED <<deviceKey, answered, code, memo, recovery, remote, seen>>
  BY DEF K!Mint, K!server, KeysInv, KeysTyped
<1>2. db = "catalogue" /\ deviceKey # None /\ r.key = deviceKey /\ deviceKey \in K!Slots
  BY <1>1, KeyOfDatabase, KeysConstants DEF RunSound
<1>3. AnsweredSound' /\ answered' \subseteq Keys /\ K!ShownIsOpened'
  BY <1>1 DEF AnsweredSound, KeysInv, KeysTyped, K!ShownIsOpened
<1>4. CASE wraps[db][r.key] # None
  <2> DEFINE next == [r EXCEPT !.at = "rows", !.mints = FALSE]
  <2>1. K!Go(t, db, next) /\ UNCHANGED wraps
    BY <1>4 DEF K!Mint
  <2>2. next \in Resolution /\ RunSound(db, next)
    BY <1>1 DEF Resolution, RunSound
  <2> HIDE DEF next
  <2> QED BY <1>1, <1>3, <2>1, <2>2, GoKeeps
<1>5. CASE wraps[db][r.key] = None
  <2> DEFINE dek == K!Some(Minted \ K!MintedYet)
             next == [r EXCEPT !.at = "escrow", !.dek = dek]
  <2>1. /\ Minted \ K!MintedYet # {} /\ wraps' = [wraps EXCEPT ![db][r.key] = dek]
        /\ run' = [run EXCEPT ![t][db] = next]
    BY <1>5 DEF K!Mint, K!Go
  <2>2. dek \in Minted /\ dek \in K!Deks /\ dek # None
    BY <2>1, SomeOf, KeysConstants
  <2> HIDE DEF dek
  <2>3. next \in Resolution /\ next.at = "escrow" /\ next.dek = dek /\ next.key = r.key
        /\ next.mints = r.mints
    BY <1>1, <2>2 DEF Resolution
  <2> HIDE DEF next
  <2>4. wraps \in [K!Databases -> [K!Slots -> K!Deks \cup {None}]]
    BY DEF KeysInv, KeysTyped
  <2>5. /\ wraps' \in [K!Databases -> [K!Slots -> K!Deks \cup {None}]]
        /\ wraps'["project"] = wraps["project"] /\ wraps'["catalogue"][deviceKey] = dek
        /\ \A s \in K!Slots : s # deviceKey => wraps'["catalogue"][s] = wraps["catalogue"][s]
    BY <1>2, <2>1, <2>2, <2>4, KeysConstants
  <2>6. CatalogueKey = None /\ CatalogueKey' = dek
    BY <1>1, <1>2, <1>5, <2>5 DEF CatalogueKey
  <2>7. KeysTyped'
    BY <1>1, <1>3, <2>1, <2>3, <2>5 DEF KeysInv, KeysTyped
  <2>8. StoredSound'
    BY <1>1, <2>5, <2>6 DEF KeysInv, StoredSound
  <2>9. ASSUME NEW u \in Tabs, NEW e \in K!Databases
        PROVE  RunSound(e, run[u][e])' /\ MemoSound(e, memo[u][e])'
    <3>1. RunSound(e, run[u][e]) /\ MemoSound(e, memo[u][e])
      BY DEF KeysInv
    <3>2. MemoSound(e, memo[u][e])'
      BY <1>1, <2>6, <3>1, KeysConstants DEF MemoSound
    <3>3. CASE run'[u][e] = run[u][e]
      BY <1>1, <2>6, <3>1, <3>2, <3>3 DEF RunSound
    <3>4. CASE u = t /\ e = db /\ run'[u][e] = next
      BY <1>1, <1>2, <2>2, <2>3, <2>6, <3>2, <3>4 DEF RunSound
    <3> QED BY <2>1, <3>3, <3>4 DEF KeysInv, KeysTyped
  <2> QED BY <1>3, <2>7, <2>8, <2>9 DEF KeysInv
<1> QED BY <1>4, <1>5

\* The wrap for escrow holds what the wrap for this device holds.
LEMMA EscrowWrapKeeps ==
  ASSUME KeysInv, NEW t \in Tabs, NEW db \in K!Databases, K!WrapForEscrow(t, db)
  PROVE  KeysInv'
<1> DEFINE r == run[t][db]
           next == [r EXCEPT !.at = "seal"]
<1>1. /\ r.at = "escrow" /\ r \in Resolution /\ RunSound(db, r)
      /\ UNCHANGED <<deviceKey, answered, code, memo, recovery, remote, seen>>
      /\ run' = [run EXCEPT ![t][db] = next]
  BY DEF K!WrapForEscrow, K!server, K!Go, KeysInv, KeysTyped
<1>2. /\ db = "catalogue" /\ deviceKey # None /\ deviceKey \in K!Slots
      /\ r.dek = CatalogueKey /\ r.dek # None /\ r.dek = wraps["catalogue"][deviceKey]
      /\ r.dek \in K!Deks
  BY <1>1, KeyOfDatabase, KeysConstants DEF RunSound, Resolution
<1>3. PICK known \in BOOLEAN :
         wraps' = IF known /\ wraps[db]["escrow"] = None
                  THEN [wraps EXCEPT ![db]["escrow"] = r.dek] ELSE wraps
  BY DEF K!WrapForEscrow
<1>4. wraps \in [K!Databases -> [K!Slots -> K!Deks \cup {None}]]
  BY DEF KeysInv, KeysTyped
<1>5. /\ wraps' \in [K!Databases -> [K!Slots -> K!Deks \cup {None}]]
      /\ wraps'["project"] = wraps["project"]
      /\ \A s \in K!Slots : \/ wraps'["catalogue"][s] = wraps["catalogue"][s]
                            \/ wraps["catalogue"][s] = None /\ wraps'["catalogue"][s] = r.dek
  BY <1>2, <1>3, <1>4, KeysConstants
<1>6. CatalogueKey' = CatalogueKey
  BY <1>1, <1>2, <1>5 DEF CatalogueKey
<1>7. next \in Resolution /\ RunSound(db, next)
  BY <1>1, <1>2 DEF Resolution, RunSound
<1> HIDE DEF next
<1>8. KeysTyped' /\ AnsweredSound' /\ K!ShownIsOpened'
  BY <1>1, <1>5, <1>7 DEF KeysInv, KeysTyped, AnsweredSound, K!ShownIsOpened
<1>9. StoredSound'
  BY <1>1, <1>2, <1>5, <1>6 DEF KeysInv, StoredSound
<1>10. ASSUME NEW u \in Tabs, NEW e \in K!Databases
       PROVE  RunSound(e, run[u][e])' /\ MemoSound(e, memo[u][e])'
  <2>1. RunSound(e, run'[u][e]) /\ MemoSound(e, memo'[u][e])
    BY <1>1, <1>7 DEF KeysInv, KeysTyped
  <2> QED BY <1>1, <1>6, <2>1 DEF RunSound, MemoSound
<1> QED BY <1>8, <1>9, <1>10 DEF KeysInv

\* A code of db is put, sealed under its key.
LEMMA SealedKeeps ==
  ASSUME KeysInv, NEW db \in K!Databases, NEW d \in Docs, NEW dek \in K!Deks,
         dek = (IF db = "project" THEN Shared ELSE CatalogueKey),
         code' = [code EXCEPT ![db][d] = dek],
         UNCHANGED <<deviceKey, answered, wraps, memo, run, recovery, remote, seen>>
  PROVE  KeysInv'
<1>1. CatalogueKey' = CatalogueKey
  BY DEF CatalogueKey
<1>2. code \in [K!Databases -> [Docs -> K!Deks \cup {None, "plain"}]]
  BY DEF KeysInv, KeysTyped
<1>3. /\ code' \in [K!Databases -> [Docs -> K!Deks \cup {None, "plain"}]]
      /\ \A e \in K!Databases, c \in Docs :
            \/ code'[e][c] = code[e][c]
            \/ e = db /\ code'[e][c] = dek
  BY <1>2
<1>4. KeysTyped' /\ AnsweredSound' /\ K!ShownIsOpened'
  BY <1>3 DEF KeysInv, KeysTyped, AnsweredSound, K!ShownIsOpened
<1>5. StoredSound'
  BY <1>1, <1>3, KeysConstants DEF KeysInv, StoredSound
<1>6. \A u \in Tabs, e \in K!Databases : RunSound(e, run[u][e])' /\ MemoSound(e, memo[u][e])'
  BY <1>1, <1>3, KeysConstants DEF KeysInv, RunSound, MemoSound
<1> QED BY <1>4, <1>5, <1>6 DEF KeysInv

\* A code is given out by a tab that holds the key of its database, or in the clear.
LEMMA ShowKeeps ==
  ASSUME KeysInv, NEW t \in Tabs, NEW db \in K!Databases, NEW d \in Docs, K!Show(t, db, d)
  PROVE  KeysInv'
<1>1. /\ UNCHANGED <<deviceKey, answered, wraps, code, memo, run, recovery, remote>>
      /\ seen' = seen \cup {[sealed |-> code[db][d], with |-> memo[t][db]]}
      /\ code[db][d] # None
      /\ \/ memo[t][db] \in K!Deks
         \/ memo[t][db] = "keyless" /\ code[db][d] = "plain"
  BY DEF K!Show, K!local, K!server
<1>2. code[db][d] = "plain" \/ code[db][d] = memo[t][db]
  BY <1>1, KeysConstants DEF KeysInv, StoredSound, MemoSound
<1>3. K!ShownIsOpened'
  BY <1>1, <1>2 DEF KeysInv, K!ShownIsOpened
<1>4. AnsweredSound' /\ answered' \subseteq Keys
  BY <1>1 DEF KeysInv, KeysTyped, AnsweredSound
<1> QED BY <1>1, <1>3, <1>4, UnstoredKeeps DEF KeysInv, KeysTyped

\* One step of resolving a key state, or of reading and writing under it.
LEMMA ResolvingKeeps ==
  ASSUME KeysInv, NEW t \in Tabs, NEW db \in K!Databases, K!Resolving(t, db)
  PROVE  KeysInv'
<1> DEFINE r == run[t][db]
<1>0. /\ r \in Resolution /\ RunSound(db, r) /\ AnsweredSound /\ answered \subseteq Keys
      /\ memo[t][db] \in K!States
  BY DEF KeysInv, KeysTyped
<1>1. ASSUME UNCHANGED <<deviceKey, answered>> PROVE AnsweredSound' /\ answered' \subseteq Keys
  BY <1>0, <1>1 DEF AnsweredSound
<1>2. CASE K!Resolve(t, db)
  BY <1>1, <1>2, RestingSound, GoKeeps DEF K!Resolve, K!local, K!server
<1>3. CASE K!Rows(t, db)
  <2>1. UNCHANGED <<deviceKey, answered, wraps, code, remote, seen>>
    BY <1>3 DEF K!Rows, K!local, K!server
  <2>2. ASSUME NEW m \in BOOLEAN, m => db # "project",
               K!Go(t, db, [r EXCEPT !.at = "device", !.mints = m]), UNCHANGED <<memo, recovery>>
        PROVE  KeysInv'
    <3> DEFINE next == [r EXCEPT !.at = "device", !.mints = m]
    <3>1. next \in Resolution /\ RunSound(db, next)
      BY <1>0, <2>2 DEF Resolution, RunSound
    <3> HIDE DEF next
    <3> QED BY <1>1, <2>1, <2>2, <3>1, GoKeeps DEF next
  <2>3. CASE K!Answer(t, db, "keyless")
    <3>1. "keyless" \in K!States /\ MemoSound(db, "keyless")
      BY KeysConstants DEF K!States, MemoSound
    <3> QED BY <2>1, <2>3, <3>1, AnswerKeeps
  <2> QED BY <1>3, <2>2, <2>3 DEF K!Rows
<1>4. CASE K!Unwrap(t, db)
  <2> DEFINE dek == wraps[db][r.key]
             next == [r EXCEPT !.at = "seal", !.dek = dek]
  <2>1. UNCHANGED <<deviceKey, answered, wraps, code, remote, seen>> /\ r.at = "wrap"
    BY <1>4 DEF K!Unwrap, K!local, K!server
  <2>2. deviceKey # None /\ r.key = deviceKey /\ deviceKey \in K!Slots
    BY <1>0, <2>1, KeyOfDatabase DEF RunSound
  <2>3. dek \in K!Deks \cup {None}
    BY <2>2 DEF KeysInv, KeysTyped
  <2>4. CASE dek # None /\ db = "catalogue"
    <3>1. dek = CatalogueKey
      BY <2>2, <2>4 DEF CatalogueKey
    <3>2. next \in Resolution /\ RunSound(db, next)
      BY <1>0, <2>2, <2>3, <2>4, <3>1 DEF Resolution, RunSound
    <3>3. K!Go(t, db, next) /\ UNCHANGED <<memo, recovery>>
      BY <1>4, <2>4 DEF K!Unwrap
    <3> HIDE DEF next
    <3> QED BY <1>1, <2>1, <3>2, <3>3, GoKeeps
  <2>5. CASE ~ (dek # None /\ db = "catalogue")
    <3> DEFINE state == IF dek = None THEN "locked" ELSE dek
    <3>1. K!Answer(t, db, state)
      BY <1>4, <2>5 DEF K!Unwrap
    <3>2. dek # None => db = "project" /\ dek = Shared
      BY <2>2, <2>5, KeysConstants DEF KeysInv, StoredSound
    <3>3. state \in K!States /\ MemoSound(db, state)
      BY <2>3, <3>2, KeysConstants DEF K!States, MemoSound
    <3> HIDE DEF state
    <3> QED BY <2>1, <3>1, <3>3, AnswerKeeps
  <2> QED BY <2>4, <2>5
<1>5. CASE K!Seal(t, db)
  <2> DEFINE plain == {d \in Docs : code[db][d] = "plain"}
  <2>1. r.at = "seal" /\ UNCHANGED <<deviceKey, answered, wraps, remote, seen>>
    BY <1>5 DEF K!Seal, K!server
  <2>2. /\ db = "catalogue" /\ r.dek = CatalogueKey /\ r.dek \in K!Deks
        /\ r.dek \in K!States
    BY <1>0, <2>1, KeysConstants DEF RunSound, Resolution, K!States
  <2>3. CASE plain = {}
    <3>1. K!Answer(t, db, r.dek) /\ UNCHANGED code
      BY <1>5, <2>3 DEF K!Seal
    <3>2. MemoSound(db, r.dek)
      BY <2>2, <2>3 DEF MemoSound
    <3> QED BY <2>1, <2>2, <3>1, <3>2, AnswerKeeps
  <2>4. CASE plain # {}
    <3>1. PICK d \in plain : code' = [code EXCEPT ![db][d] = r.dek]
      BY <1>5, <2>4 DEF K!Seal
    <3>2. UNCHANGED <<memo, run, recovery>>
      BY <1>5, <2>4 DEF K!Seal
    <3> QED BY <2>1, <2>2, <3>1, <3>2, SealedKeeps
  <2> QED BY <2>3, <2>4
<1>6. CASE K!Reject(t, db)
  BY <1>1, <1>6, RestingSound, GoKeeps DEF K!Reject, K!local, K!server
<1>7. ASSUME NEW d \in Docs, K!Save(t, db, d) PROVE KeysInv'
  <2>1. memo[t][db] \in K!Deks /\ code' = [code EXCEPT ![db][d] = memo[t][db]]
        /\ UNCHANGED <<deviceKey, answered, wraps, memo, run, recovery, remote, seen>>
    BY <1>7 DEF K!Save, K!server
  <2>2. memo[t][db] = (IF db = "project" THEN Shared ELSE CatalogueKey)
    BY <2>1 DEF KeysInv, MemoSound
  <2> QED BY <2>1, <2>2, SealedKeeps
<1> QED BY <1>2, <1>3, <1>4, <1>5, <1>6, <1>7, DeviceKeyKeeps, MintKeeps, EscrowWrapKeeps,
           ShowKeeps DEF K!Resolving

\* The server's copy moves, or is given a wrap of the key of the project.
LEMMA RemoteKeeps ==
  ASSUME KeysInv, UNCHANGED <<deviceKey, answered, wraps, code, memo, run, seen>>,
         recovery' \in [Tabs -> Recovery],
         remote' \in [wraps : [K!Slots -> {None, Shared}], moves : Nat]
  PROVE  KeysInv'
<1>1. KeysTyped'
  BY DEF KeysInv, KeysTyped
<1>2. UNCHANGED CatalogueKey
  BY DEF CatalogueKey
<1> QED BY <1>1, <1>2
        DEF KeysInv, AnsweredSound, StoredSound, RunSound, MemoSound, K!ShownIsOpened

\* One step of replicating the project, or of recovering its key.
LEMMA ReplicatingKeeps ==
  ASSUME KeysInv, NEW t \in Tabs, K!Replicating(t)
  PROVE  KeysInv'
<1> DEFINE same == UNCHANGED <<memo, run>>
<1>0. /\ recovery \in [Tabs -> Recovery] /\ "project" \in K!Databases
      /\ AnsweredSound /\ answered \subseteq Keys /\ K!ShownIsOpened
  BY KeysConstants DEF KeysInv, KeysTyped
<1>1. ASSUME NEW at \in {"unlock", "post", "end", "register", "fetch"}, K!RecoverTo(t, at)
      PROVE  recovery' \in [Tabs -> Recovery]
  BY <1>0, <1>1 DEF K!RecoverTo, Recovery
<1>2. CASE K!Pull(t)
  <2>1. PICK slots \in SUBSET K!News, docs \in SUBSET K!Unheard :
           /\ K!Inbound(t, slots, docs)
           /\ K!Refreshed(t, "project") \/ same
    BY <1>2 DEF K!Pull
  <2>2. UNCHANGED <<deviceKey, answered, recovery, remote, seen>>
    BY <1>2 DEF K!Pull, K!server
  <2> QED BY <1>0, <2>1, <2>2, InboundKeeps
<1>3. CASE K!Reopen(t)
  <2>1. recovery' \in [Tabs -> Recovery]
    BY <1>0, <1>3 DEF K!Reopen, Recovery
  <2> QED BY <1>0, <1>3, <2>1, ForgetKeeps DEF K!Reopen, K!local, K!server
<1>4. CASE K!PullAll(t)
  <2>0. PICK slots, docs : slots = K!News /\ docs = K!Unheard
    OBVIOUS
  <2>1. /\ K!Inbound(t, slots, docs)
        /\ K!Refreshed(t, "project") \/ same
        /\ UNCHANGED <<deviceKey, answered, remote, seen>>
    BY <1>4, <2>0 DEF K!PullAll, K!Inbound, K!server
  <2>2. recovery' \in [Tabs -> Recovery]
    BY <1>1, <1>4 DEF K!PullAll
  <2> QED BY <2>1, <2>2, InboundKeeps
<1>5. CASE K!TryUnlock(t)
  <2>1. recovery' \in [Tabs -> Recovery]
    BY <1>1, <1>5 DEF K!TryUnlock
  <2> QED BY <1>0, <1>5, <2>1, ForgetKeeps DEF K!TryUnlock, K!local, K!server
<1>6. CASE K!Register(t)
  <2>1. recovery' \in [Tabs -> Recovery]
    BY <1>1, <1>6 DEF K!Register
  <2> QED BY <1>0, <1>6, <2>1, ForgetKeeps DEF K!Register, K!local
<1>7. CASE K!Post(t)
  <2>1. recovery' \in [Tabs -> Recovery]
    <3>1. CASE pulled = remote.moves /\ deviceKey \in registered
      BY <1>1, <1>7, <3>1 DEF K!Post
    <3>2. CASE ~ (pulled = remote.moves /\ deviceKey \in registered)
      <4> DEFINE r == recovery[t]
                 next == IF pulled # remote.moves /\ r.left > 1
                         THEN [at |-> "pullAgain", left |-> r.left - 1]
                         ELSE [r EXCEPT !.at = "end"]
      <4>1. next \in Recovery
        BY <1>0 DEF Recovery
      <4>2. recovery' = [recovery EXCEPT ![t] = next]
        BY <1>0, <1>7, <3>2 DEF K!Post
      <4> QED BY <1>0, <4>1, <4>2
    <3> QED BY <3>1, <3>2
  <2>2. remote' \in [wraps : [K!Slots -> {None, Shared}], moves : Nat]
    <3>1. \/ UNCHANGED remote
          \/ remote' = [remote EXCEPT !.wraps = [remote.wraps EXCEPT ![deviceKey] = Shared]]
      BY <1>7 DEF K!Post
    <3>2. [remote.wraps EXCEPT ![deviceKey] = Shared] \in [K!Slots -> {None, Shared}]
      BY DEF KeysInv, KeysTyped
    <3> QED BY <3>1, <3>2 DEF KeysInv, KeysTyped
  <2>3. UNCHANGED <<deviceKey, answered, wraps, code, memo, run, seen>>
    BY <1>7 DEF K!Post, K!local
  <2> QED BY <2>1, <2>2, <2>3, RemoteKeeps
<1>8. CASE K!RecoveryFails(t)
  <2>1. recovery' \in [Tabs -> Recovery]
    BY <1>1, <1>8 DEF K!RecoveryFails
  <2> QED BY <1>0, <1>8, <2>1, ForgetKeeps DEF K!RecoveryFails, K!local, K!server
<1>9. CASE K!EndRecovery(t)
  <2>1. /\ recovery' \in [Tabs -> Recovery]
        /\ K!Refreshed(t, "project") \/ same
    BY <1>0, <1>9 DEF K!EndRecovery, Recovery, K!NoRecovery
  <2> QED BY <1>0, <1>9, <2>1, ForgetKeeps DEF K!EndRecovery, K!local, K!server
<1> QED BY <1>2, <1>3, <1>4, <1>5, <1>6, <1>7, <1>8, <1>9 DEF K!Replicating

LEMMA KeysUnchanged == KeysInv /\ UNCHANGED keyVars => KeysInv'
<1> SUFFICES ASSUME KeysInv, UNCHANGED keyVars PROVE KeysInv'
  OBVIOUS
<1>1. UNCHANGED <<deviceKey, answered, wraps, code, memo, run, recovery, remote, seen>>
  BY DEF keyVars
<1> QED BY <1>1, RemoteKeeps DEF KeysInv, KeysTyped

LEMMA KeysInitially == K!Init => KeysInv
<1> SUFFICES ASSUME K!Init PROVE KeysInv
  OBVIOUS
<1>1. PICK old \in SUBSET Docs :
         code = [db \in K!Databases |-> [d \in Docs |->
                    IF db = "catalogue" /\ d \in old THEN "plain" ELSE None]]
  BY DEF K!Init
<1>2. /\ deviceKey = None /\ answered = {} /\ seen = {}
      /\ wraps = [db \in K!Databases |-> [s \in K!Slots |-> None]]
      /\ memo = [t \in Tabs |-> [db \in K!Databases |-> K!Unread]]
      /\ run = [t \in Tabs |-> [db \in K!Databases |-> K!Resting]]
      /\ recovery = [t \in Tabs |-> K!NoRecovery]
      /\ remote = [wraps |-> [s \in K!Slots |-> IF s \in Keys THEN None ELSE Shared],
                   moves |-> 0]
  BY DEF K!Init
<1>3. KeysTyped
  BY <1>1, <1>2 DEF KeysTyped, K!States, K!Unread, K!Resting, Resolution, K!NoRecovery, Recovery
<1>4. CatalogueKey = None
  BY <1>2 DEF CatalogueKey
<1>5. AnsweredSound /\ StoredSound /\ K!ShownIsOpened
  BY <1>1, <1>2, <1>4, KeysConstants DEF AnsweredSound, StoredSound, K!ShownIsOpened
<1>6. ASSUME NEW t \in Tabs, NEW db \in K!Databases
      PROVE  RunSound(db, run[t][db]) /\ MemoSound(db, memo[t][db])
  BY <1>2, KeysConstants DEF RunSound, MemoSound, K!Resting, K!Unread
<1> QED BY <1>3, <1>5, <1>6 DEF KeysInv

LEMMA KeysStep == KeysInv /\ [StorageNext]_<<part, vars, projectVars, keyVars, sessionVars>>
                    => KeysInv'
<1> SUFFICES ASSUME KeysInv, [StorageNext]_<<part, vars, projectVars, keyVars, sessionVars>>
             PROVE  KeysInv'
  OBVIOUS
<1>1. CASE part \in {"catalogue", "project"} /\ KeysNext
  <2>1. ASSUME NEW t \in Tabs, K!Resolving(t, part) PROVE KeysInv'
    BY <1>1, <2>1, ResolvingKeeps, KeysConstants
  <2>2. CASE K!Move
    <3>1. /\ UNCHANGED <<deviceKey, answered, wraps, code, memo, run, recovery, seen>>
          /\ remote' = [remote EXCEPT !.moves = @ + 1]
      BY <2>2 DEF K!Move, K!local
    <3>2. remote' \in [wraps : [K!Slots -> {None, Shared}], moves : Nat]
      BY <3>1 DEF KeysInv, KeysTyped
    <3> QED BY <3>1, <3>2, RemoteKeeps DEF KeysInv, KeysTyped
  <2> QED BY <1>1, <2>1, <2>2, ReplicatingKeeps DEF KeysNext
<1>2. CASE UNCHANGED keyVars
  BY <1>2, KeysUnchanged
<1> QED BY <1>1, <1>2 DEF StorageNext, CacheNext, ProjectsNext, SessionNext

LEMMA KeysAlways == StorageSpec => []KeysInv
<1>1. StorageInit => KeysInv
  BY KeysInitially DEF StorageInit
<1> QED BY <1>1, KeysStep, PTL DEF StorageSpec

\* However the tabs of a browser generate, mint, replicate, recover and forget, all callers are
\* given the one device key that is stored (ensureDeviceKey), a database's wraps hold and its
\* codes are sealed under one data key (ensureProjectKeys, 409 and all), a catalogue whose key
\* a tab remembers has no code in the clear, and no sealed code is given out as if it were in
\* the clear, whatever a pull delivers first.
THEOREM OneKeyEverySecretSealed == StorageSpec => []CodesSealed
<1>1. ASSUME KeysInv PROVE CodesSealed
  <2>1. K!OneDeviceKey /\ K!ShownIsOpened
    BY <1>1 DEF KeysInv, AnsweredSound, K!OneDeviceKey
  <2>2. K!OneDek
    <3> SUFFICES ASSUME NEW db \in K!Databases,
                        NEW x \in {wraps[db][s] : s \in K!Slots} \cup {code[db][d] : d \in Docs},
                        x \in K!Deks
                 PROVE  x = IF db = "project" THEN Shared ELSE CatalogueKey
      BY DEF K!OneDek
    <3> QED BY <1>1, KeysConstants DEF KeysInv, StoredSound
  <2>3. K!NothingInTheClear
    BY <1>1, KeysConstants DEF KeysInv, StoredSound, MemoSound, K!NothingInTheClear
  <2> QED BY <2>1, <2>2, <2>3 DEF CodesSealed
<1> QED BY <1>1, KeysAlways, PTL

------------------------------------------------------------------------------
(* 2. The databases of projects and their index (LocalProjects).                *)

Database == [there : BOOLEAN, keyed : BOOLEAN, titled : BOOLEAN,
             docs : SUBSET (Docs \cup Archive), plain : SUBSET (Docs \cup Archive)]

\* What an operation is about, and where it can be.
OpShape(o) ==
    /\ o.kind = "none" => o = P!Idle
    /\ o.kind = "create" => o.at \in {"account", "keys", "title", "list"}
    /\ o.kind = "import" => o.at \in {"account", "keys", "title", "devices", "list", "discard"}
    /\ o.kind = "rename" => o.at \in {"entry", "title", "patch"}
    /\ o.kind = "setClient" => o.at \in {"entry", "title", "rewrite"}
    /\ o.kind = "delete" => o.at \in {"lock", "destroy", "unlist"}
    /\ o.kind = "detach" => o.at \in {"entry", "info", "copy", "title", "lock", "verify", "list",
                                      "unlist", "destroy", "discard"}
    /\ o.kind = "adopt" => o.at \in {"entry", "keys", "title", "seal", "list"}
    /\ o.kind = "signOut" => o.at \in {"entry", "clear", "relist"}
    /\ o.kind \in {"create", "import"} => o.makes \in Fresh /\ o.on = None
    /\ o.kind = "detach" => o.makes \in Fresh /\ o.on = Copy
    /\ o.kind \notin {"create", "import", "detach"} => o.makes = None
    /\ o.kind \in {"rename", "setClient"} => o.on \in P!LocalOnly
    /\ o.kind = "delete" => o.on \in P!Databases
    /\ o.kind = "adopt" => o.on = Legacy
    /\ o.kind = "signOut" => o.on = None /\ o.before \subseteq P!LocalOnly

ProjectsTyped ==
    /\ store \in [P!Databases -> Database] /\ work \in [Tabs -> P!Tabled]
    /\ lock \in [P!Databases -> Tabs \cup {None}]
    /\ index \subseteq P!Databases /\ orphan \subseteq {Copy} /\ saved \subseteq Docs
    /\ \A t \in Tabs : OpShape(work[t])

\* An operation that is making a database has it for itself until it lists it.
Making(o) == o.kind \in {"create", "import", "detach"} /\ o.at \notin {"unlist", "destroy"}
Keeps(o) == IF o.kind = "signOut" THEN o.before ELSE {}
ItsOwn(t) ==
    Making(work[t]) =>
        /\ work[t].makes \notin index
        /\ \A u \in Tabs \ {t} : work[t].makes \notin {work[u].makes, work[u].on} \cup Keeps(work[u])

\* The exclusive lock of a database is held over the steps that need it.
Holding(o) == \/ o.kind = "detach" /\ o.at \in {"verify", "list", "unlist", "destroy"}
              \/ o.kind = "delete" /\ o.at \in {"destroy", "unlist"}
LocksSound ==
    /\ \A t \in Tabs : Holding(work[t]) => lock[work[t].on] = t
    /\ \A d \in P!Databases : lock[d] # None => work[lock[d]].on = d /\ Holding(work[lock[d]])

\* What is in a database, as far as nobody's operation is in between.
StoreSound(d) ==
    /\ store[d].plain \subseteq store[d].docs
    /\ ~store[d].there => store[d] = P!Absent
    /\ d # Legacy => store[d].plain = {}
    /\ d \notin Fresh => store[d].docs \subseteq Docs
    /\ d = Copy /\ store[d].there => store[d].keyed /\ store[d].titled

\* What an operation has put by now into the database it makes.
MakesSound(o) ==
    LET made == store[o.makes]
        copied == store[Copy]
    IN
    /\ o.kind = "create" /\ Making(o) => made.docs = {}
    /\ o.kind = "import" /\ Making(o) => made.docs \subseteq Archive
    /\ o.kind = "import" /\ o.at = "list" => Archive \subseteq made.docs
    /\ o.kind \in {"create", "import"} /\ o.at \in {"title", "devices", "list"} =>
          made.there /\ made.keyed
    /\ o.kind \in {"create", "import"} /\ o.at \in {"devices", "list"} => made.titled
    /\ o.kind = "detach" /\ Making(o) => made.docs \subseteq Docs
    /\ o.kind = "detach" /\ o.at \in {"title", "lock", "verify", "list"} =>
          made.there /\ made.keyed
    /\ o.kind = "detach" /\ o.at \in {"lock", "verify", "list"} => made.titled
    /\ o.kind = "detach" /\ o.at = "copy" /\ copied.there => o.before \subseteq copied.docs
    /\ o.kind = "detach" /\ o.at \in {"title", "lock", "verify"} => o.before \subseteq made.docs
    /\ o.kind = "detach" /\ o.at = "list" =>
          copied.docs \subseteq made.docs /\ (Copy \in index \/ copied.docs = {})
    /\ o.kind = "detach" /\ Making(o) /\ (Copy \in index \/ o.at = "list") =>
          made.docs \cap saved \subseteq copied.docs

\* What deleting, detaching and adopting have done by now.
OthersSound(o) ==
    /\ o.kind = "delete" /\ o.at = "unlist" => store[o.on].docs = {}
    /\ o.kind = "detach" /\ o.at = "destroy" => Copy \notin index
    /\ o.kind = "adopt" /\ store[Legacy].there /\ Legacy \notin revived =>
          /\ o.at \in {"title", "seal", "list"} => store[Legacy].keyed
          /\ o.at \in {"seal", "list"} => store[Legacy].titled
          /\ o.at = "list" => store[Legacy].plain = {}

\* Where a document is safe: a database within reach that nobody is still making.
Solid == {d \in P!Databases :
            /\ \/ d \in index \cup {Legacy} \cup cut
               \/ \E t \in Tabs : work[t].at = "relist" /\ d \in work[t].before
            /\ \A t \in Tabs : Making(work[t]) => d # work[t].makes}

NothingLost ==
    /\ \A doc \in saved : \E d \in Solid : doc \in store[d].docs
    /\ \A t \in Tabs : work[t].kind = "detach" /\ work[t].at \in {"unlist", "destroy"} =>
          \A doc \in saved \cap store[Copy].docs :
             \E d \in Solid \ {Copy} : doc \in store[d].docs

\* The local projects that are listed, or may be listed again as they are.
Subjects == index \cup {work[t].on : t \in {u \in Tabs : work[u].kind \in {"rename", "setClient"}}}
            \cup UNION {Keeps(work[t]) : t \in Tabs}

Detaching == \E t \in Tabs : work[t].kind = "detach" /\ work[t].at = "unlist"

\* Unless an operation was cut off, no document is in two of these.
Apart(d, e) == store[d].docs \cap store[e].docs \cap saved = {}
NothingTwice ==
    cut = {} =>
        \A d, e \in (Subjects \cup {Legacy}) \cap P!Databases :
           d = e \/ (Copy \in {d, e} /\ (Copy \notin index \/ Detaching)) \/ Apart(d, e)

WholeProject(d) ==
    store[d].there /\ d \notin revived =>
        /\ store[d].keyed /\ store[d].titled /\ store[d].plain = {}
        /\ store[d].docs \cap Archive # {} => Archive \subseteq store[d].docs

ProjectsInv ==
    /\ ProjectsTyped /\ LocksSound
    /\ \A t \in Tabs : ItsOwn(t) /\ MakesSound(work[t]) /\ OthersSound(work[t])
    /\ \A d \in P!Databases : StoreSound(d)
    /\ NothingLost /\ NothingTwice
    /\ \A d \in Subjects \cap P!LocalOnly : WholeProject(d)

(* 2.1. The order of the steps.                                                 *)

\* Where an operation goes on to: the place after its own in the order of its kind.
Onward(o, i) ==
    o.at = P!Steps(o.kind)[i] =>
        P!Advance(o) = IF i = Len(P!Steps(o.kind)) THEN P!Idle
                       ELSE [o EXCEPT !.at = P!Steps(o.kind)[i + 1]]

LEMMA AdvanceTo ==
  ASSUME NEW o, NEW i \in DOMAIN P!Steps(o.kind),
         \A j, k \in DOMAIN P!Steps(o.kind) :
            P!Steps(o.kind)[j] = P!Steps(o.kind)[k] => j = k
  PROVE  Onward(o, i)
<1> SUFFICES ASSUME o.at = P!Steps(o.kind)[i]
             PROVE  P!Advance(o) = IF i = Len(P!Steps(o.kind)) THEN P!Idle
                                   ELSE [o EXCEPT !.at = P!Steps(o.kind)[i + 1]]
  BY DEF Onward
<1>1. P!Position(o) = i
  BY DEF P!Position
<1> QED BY <1>1 DEF P!Advance

LEMMA StepsCreate ==
  ASSUME NEW o, o.kind = "create"
  PROVE  /\ P!Steps(o.kind)[1] = "account"
         /\ o.at = "account" => P!Advance(o) = [o EXCEPT !.at = "keys"]
         /\ o.at = "keys" => P!Advance(o) = [o EXCEPT !.at = "title"]
         /\ o.at = "title" => P!Advance(o) = [o EXCEPT !.at = "list"]
         /\ o.at = "list" => P!Advance(o) = P!Idle
<1>1. P!Steps(o.kind) = <<"account", "keys", "title", "list">>
  BY DEF P!Steps
<1>2. Onward(o, 1) /\ Onward(o, 2) /\ Onward(o, 3) /\ Onward(o, 4)
  BY <1>1, AdvanceTo
<1> QED BY <1>1, <1>2 DEF Onward

LEMMA StepsImport ==
  ASSUME NEW o, o.kind = "import"
  PROVE  /\ P!Steps(o.kind)[1] = "account"
         /\ o.at = "account" => P!Advance(o) = [o EXCEPT !.at = "keys"]
         /\ o.at = "keys" => P!Advance(o) = [o EXCEPT !.at = "title"]
         /\ o.at = "title" => P!Advance(o) = [o EXCEPT !.at = "devices"]
         /\ o.at = "devices" => P!Advance(o) = [o EXCEPT !.at = "list"]
         /\ o.at = "list" => P!Advance(o) = P!Idle
<1>1. P!Steps(o.kind) = <<"account", "keys", "title", "devices", "list">>
  BY DEF P!Steps
<1>2. Onward(o, 1) /\ Onward(o, 2) /\ Onward(o, 3) /\ Onward(o, 4) /\ Onward(o, 5)
  BY <1>1, AdvanceTo
<1> QED BY <1>1, <1>2 DEF Onward

LEMMA StepsRename ==
  ASSUME NEW o, o.kind = "rename"
  PROVE  /\ P!Steps(o.kind)[1] = "entry"
         /\ o.at = "entry" => P!Advance(o) = [o EXCEPT !.at = "title"]
         /\ o.at = "title" => P!Advance(o) = [o EXCEPT !.at = "patch"]
         /\ o.at = "patch" => P!Advance(o) = P!Idle
<1>1. P!Steps(o.kind) = <<"entry", "title", "patch">>
  BY DEF P!Steps
<1>2. Onward(o, 1) /\ Onward(o, 2) /\ Onward(o, 3)
  BY <1>1, AdvanceTo
<1> QED BY <1>1, <1>2 DEF Onward

LEMMA StepsSetClient ==
  ASSUME NEW o, o.kind = "setClient"
  PROVE  /\ P!Steps(o.kind)[1] = "entry"
         /\ o.at = "entry" => P!Advance(o) = [o EXCEPT !.at = "title"]
         /\ o.at = "title" => P!Advance(o) = [o EXCEPT !.at = "rewrite"]
         /\ o.at = "rewrite" => P!Advance(o) = P!Idle
<1>1. P!Steps(o.kind) = <<"entry", "title", "rewrite">>
  BY DEF P!Steps
<1>2. Onward(o, 1) /\ Onward(o, 2) /\ Onward(o, 3)
  BY <1>1, AdvanceTo
<1> QED BY <1>1, <1>2 DEF Onward

LEMMA StepsDelete ==
  ASSUME NEW o, o.kind = "delete"
  PROVE  /\ P!Steps(o.kind)[1] = "lock"
         /\ o.at = "lock" => P!Advance(o) = [o EXCEPT !.at = "destroy"]
         /\ o.at = "destroy" => P!Advance(o) = [o EXCEPT !.at = "unlist"]
         /\ o.at = "unlist" => P!Advance(o) = P!Idle
<1>1. P!Steps(o.kind) = <<"lock", "destroy", "unlist">>
  BY DEF P!Steps
<1>2. Onward(o, 1) /\ Onward(o, 2) /\ Onward(o, 3)
  BY <1>1, AdvanceTo
<1> QED BY <1>1, <1>2 DEF Onward

LEMMA StepsDetach ==
  ASSUME NEW o, o.kind = "detach"
  PROVE  /\ P!Steps(o.kind)[1] = "entry"
         /\ o.at = "entry" => P!Advance(o) = [o EXCEPT !.at = "info"]
         /\ o.at = "info" => P!Advance(o) = [o EXCEPT !.at = "copy"]
         /\ o.at = "copy" => P!Advance(o) = [o EXCEPT !.at = "title"]
         /\ o.at = "title" => P!Advance(o) = [o EXCEPT !.at = "lock"]
         /\ o.at = "lock" => P!Advance(o) = [o EXCEPT !.at = "verify"]
         /\ o.at = "verify" => P!Advance(o) = [o EXCEPT !.at = "list"]
         /\ o.at = "list" => P!Advance(o) = [o EXCEPT !.at = "unlist"]
         /\ o.at = "unlist" => P!Advance(o) = [o EXCEPT !.at = "destroy"]
         /\ o.at = "destroy" => P!Advance(o) = P!Idle
<1>1. P!Steps(o.kind) = <<"entry", "info", "copy", "title", "lock",
                            "verify", "list", "unlist", "destroy">>
  BY DEF P!Steps
<1>2. /\ Onward(o, 1) /\ Onward(o, 2) /\ Onward(o, 3) /\ Onward(o, 4) /\ Onward(o, 5)
      /\ Onward(o, 6) /\ Onward(o, 7) /\ Onward(o, 8) /\ Onward(o, 9)
  BY <1>1, AdvanceTo
<1> QED BY <1>1, <1>2 DEF Onward

LEMMA StepsAdopt ==
  ASSUME NEW o, o.kind = "adopt"
  PROVE  /\ P!Steps(o.kind)[1] = "entry"
         /\ o.at = "entry" => P!Advance(o) = [o EXCEPT !.at = "keys"]
         /\ o.at = "keys" => P!Advance(o) = [o EXCEPT !.at = "title"]
         /\ o.at = "title" => P!Advance(o) = [o EXCEPT !.at = "seal"]
         /\ o.at = "seal" => P!Advance(o) = [o EXCEPT !.at = "list"]
         /\ o.at = "list" => P!Advance(o) = P!Idle
<1>1. P!Steps(o.kind) = <<"entry", "keys", "title", "seal", "list">>
  BY DEF P!Steps
<1>2. Onward(o, 1) /\ Onward(o, 2) /\ Onward(o, 3) /\ Onward(o, 4) /\ Onward(o, 5)
  BY <1>1, AdvanceTo
<1> QED BY <1>1, <1>2 DEF Onward

LEMMA StepsSignOut ==
  ASSUME NEW o, o.kind = "signOut"
  PROVE  /\ P!Steps(o.kind)[1] = "entry"
         /\ o.at = "entry" => P!Advance(o) = [o EXCEPT !.at = "clear"]
         /\ o.at = "clear" => P!Advance(o) = [o EXCEPT !.at = "relist"]
         /\ o.at = "relist" => P!Advance(o) = P!Idle
<1>1. P!Steps(o.kind) = <<"entry", "clear", "relist">>
  BY DEF P!Steps
<1>2. Onward(o, 1) /\ Onward(o, 2) /\ Onward(o, 3)
  BY <1>1, AdvanceTo
<1> QED BY <1>1, <1>2 DEF Onward


(* 2.2. Frames: what a step keeps by leaving the rest alone.                    *)

LEMMA ProjectsConstants ==
  /\ Legacy \in P!LocalOnly /\ Fresh \subseteq P!LocalOnly /\ P!LocalOnly \subseteq P!Databases
  /\ Copy \in P!Databases /\ Copy \notin P!LocalOnly /\ Legacy \notin Fresh
  /\ None \notin P!Databases /\ None \notin Tabs /\ Docs \cap Archive = {}
  /\ \A d \in P!Databases : d = Copy \/ d \in P!LocalOnly
BY ProjectsAssumption DEF P!LocalOnly, P!Databases

LEMMA AbsentTyped ==
  /\ P!Absent \in Database /\ ~P!Absent.there /\ P!Absent.docs = {} /\ P!Absent.plain = {}
BY DEF P!Absent, Database

LEMMA IdleShape == P!Idle \in P!Tabled /\ OpShape(P!Idle) /\ P!Idle.kind = "none"
                   /\ P!Idle.at = "idle"
BY DEF P!Idle, P!Tabled, P!Kinds, P!DETACH_ATTEMPTS, OpShape

\* What a step of one operation, and of nothing else, must mind.
LEMMA WorkKeeps ==
  ASSUME ProjectsInv, NEW t \in Tabs, NEW o \in P!Tabled, OpShape(o),
         work' = [work EXCEPT ![t] = o], UNCHANGED <<store, index, orphan, saved, revived>>,
         lock' \in [P!Databases -> Tabs \cup {None}], LocksSound', cut \subseteq cut',
         \/ ~Making(o)
         \/ Making(work[t]) /\ o.makes = work[t].makes
         \/ /\ store[o.makes].docs = {} /\ o.makes \notin index
            /\ \A u \in Tabs \ {t} : o.makes \notin {work[u].makes, work[u].on} \cup Keeps(work[u]),
         \A u \in Tabs \ {t} : Making(work[u]) => work[u].makes \notin {o.makes, o.on} \cup Keeps(o),
         o.kind \in {"rename", "setClient"} => o.on \in Subjects,
         Keeps(o) \subseteq Subjects,
         MakesSound(o), OthersSound(o),
         work[t].at = "relist" =>
            \/ work[t].before \subseteq cut'
            \/ o.at = "relist" /\ work[t].before \subseteq o.before,
         o.kind = "detach" /\ o.at \in {"unlist", "destroy"} =>
            work[t].kind = "detach" /\ work[t].at \in {"unlist", "destroy"},
         work[t].kind = "detach" /\ work[t].at = "unlist" =>
            (o.kind = "detach" /\ o.at = "unlist") \/ cut' # {}
  PROVE  ProjectsInv'
<1>1. work'[t] = o /\ \A u \in Tabs \ {t} : work'[u] = work[u]
  BY DEF ProjectsInv, ProjectsTyped
<1>2. ProjectsTyped'
  BY <1>1 DEF ProjectsInv, ProjectsTyped
<1>3. \A u \in Tabs : ItsOwn(u)'
  BY <1>1 DEF ProjectsInv, ItsOwn
<1>4. \A u \in Tabs : MakesSound(work[u])' /\ OthersSound(work[u])'
  <2>1. \A u \in Tabs : MakesSound(work'[u]) /\ OthersSound(work'[u])
    BY <1>1 DEF ProjectsInv
  <2> QED BY <2>1 DEF MakesSound, OthersSound
<1>5. (\A d \in P!Databases : StoreSound(d))'
  BY DEF ProjectsInv, StoreSound
<1>6. Subjects' \subseteq Subjects
  BY <1>1 DEF Subjects
<1>7. NothingLost'
  <2>1. ASSUME NEW doc \in saved, NEW d \in Solid, doc \in store[d].docs
        PROVE  d \in Solid'
    BY <1>1, <2>1 DEF Solid, Making
  <2>2. \A doc \in saved : \E d \in Solid' : doc \in store'[d].docs
    BY <2>1 DEF ProjectsInv, NothingLost
  <2>3. ASSUME NEW u \in Tabs, work'[u].kind = "detach", work'[u].at \in {"unlist", "destroy"},
               NEW doc \in saved \cap store[Copy].docs
        PROVE  \E d \in Solid' \ {Copy} : doc \in store'[d].docs
    <3>1. work[u].kind = "detach" /\ work[u].at \in {"unlist", "destroy"}
      BY <1>1, <2>3
    <3> QED BY <2>1, <2>3, <3>1 DEF ProjectsInv, NothingLost
  <2> QED BY <2>2, <2>3 DEF NothingLost
<1>8. NothingTwice'
  <2>1. SUFFICES ASSUME cut' = {} PROVE NothingTwice'
    BY DEF NothingTwice
  <2>2. cut = {} /\ (Detaching => Detaching')
    BY <1>1, <2>1 DEF Detaching
  <2> QED BY <1>6, <2>2 DEF ProjectsInv, NothingTwice, Apart
<1>9. (\A d \in Subjects \cap P!LocalOnly : WholeProject(d))'
  BY <1>6 DEF ProjectsInv, WholeProject
<1> QED BY <1>2, <1>3, <1>4, <1>5, <1>7, <1>8, <1>9 DEF ProjectsInv

\* A step that writes to the database its operation is making, or takes it back.
LEMMA MakingKeeps ==
  ASSUME ProjectsInv, NEW t \in Tabs, NEW o \in P!Tabled, OpShape(o), Making(work[t]),
         NEW db \in Database, db.plain = {}, ~db.there => db = P!Absent,
         store' = [store EXCEPT ![work[t].makes] = db], work' = [work EXCEPT ![t] = o],
         UNCHANGED <<index, orphan, lock, saved, cut>>, revived \subseteq revived',
         ~Holding(work[t]), ~Holding(o),
         (Making(o) /\ o.makes = work[t].makes /\ o.on = work[t].on /\ o.kind = work[t].kind)
            \/ o = P!Idle,
         MakesSound(o)'
  PROVE  ProjectsInv'
<1> DEFINE m == work[t].makes
<1>0. /\ m \in Fresh /\ m \in P!Databases /\ m # Copy /\ m # Legacy /\ m \notin index
      /\ \A u \in Tabs \ {t} : m \notin {work[u].makes, work[u].on} \cup Keeps(work[u])
  BY ProjectsConstants DEF ProjectsInv, ProjectsTyped, OpShape, Making, ItsOwn
<1>1. work'[t] = o /\ \A u \in Tabs \ {t} : work'[u] = work[u]
  BY DEF ProjectsInv, ProjectsTyped
<1>2. store'[m] = db /\ \A d \in P!Databases : d # m => store'[d] = store[d]
  BY <1>0 DEF ProjectsInv, ProjectsTyped
<1>3. ProjectsTyped'
  BY <1>1 DEF ProjectsInv, ProjectsTyped
<1>4. ASSUME NEW u \in Tabs PROVE ItsOwn(u)'
  <2>1. CASE u = t
    BY <1>0, <1>1, <2>1, IdleShape DEF ItsOwn, Making
  <2>2. CASE u # t
    <3>1. SUFFICES ASSUME Making(work[u])
                   PROVE  /\ work[u].makes \notin index
                          /\ \A v \in Tabs \ {u} :
                               work[u].makes \notin {work'[v].makes, work'[v].on} \cup Keeps(work'[v])
      BY <1>1, <2>2 DEF ItsOwn, Making, Keeps
    <3>2. /\ work[u].makes \notin index /\ work[u].makes # None
          /\ \A v \in Tabs \ {u} :
               work[u].makes \notin {work[v].makes, work[v].on} \cup Keeps(work[v])
      BY <3>1, ProjectsConstants DEF ProjectsInv, ProjectsTyped, OpShape, Making, ItsOwn
    <3>3. work[u].makes \notin {o.makes, o.on} \cup Keeps(o)
      BY <2>2, <3>2 DEF P!Idle, Keeps, Making
    <3> QED BY <1>1, <3>2, <3>3
  <2> QED BY <2>1, <2>2
<1>5. LocksSound'
  BY <1>1 DEF ProjectsInv, LocksSound
<1>6. (\A d \in P!Databases : StoreSound(d))'
  BY <1>0, <1>2 DEF ProjectsInv, StoreSound
<1>7. \A u \in Tabs : MakesSound(work[u])' /\ OthersSound(work[u])'
  <2>1. ASSUME NEW u \in Tabs \ {t} PROVE MakesSound(work[u])' /\ OthersSound(work[u])'
    <3>1. /\ work'[u] = work[u] /\ m # work[u].makes /\ m # work[u].on
          /\ store'[Copy] = store[Copy] /\ store'[Legacy] = store[Legacy]
          /\ work[u].makes \in P!Databases => store'[work[u].makes] = store[work[u].makes]
          /\ work[u].on \in P!Databases => store'[work[u].on] = store[work[u].on]
      BY <1>0, <1>1, <1>2, ProjectsConstants
    <3>2. OpShape(work[u]) /\ MakesSound(work[u]) /\ OthersSound(work[u])
      BY DEF ProjectsInv, ProjectsTyped
    <3>3. work[u].kind \in {"create", "import", "detach"} => work[u].makes \in P!Databases
      BY <3>2, ProjectsConstants DEF OpShape
    <3>4. MakesSound(work[u])'
      BY <3>1, <3>2, <3>3 DEF MakesSound, Making
    <3>5. OthersSound(work[u])'
      BY <3>1, <3>2 DEF OthersSound, OpShape
    <3> QED BY <3>4, <3>5
  <2>2. MakesSound(work[t])'
    BY <1>1 DEF MakesSound
  <2>3. OthersSound(work[t])'
    BY <1>1, IdleShape DEF OthersSound, Making
  <2> QED BY <2>1, <2>2, <2>3
<1>8. Subjects' \subseteq Subjects /\ m \notin Subjects
  BY <1>0, <1>1, IdleShape DEF Subjects, Keeps, ProjectsInv, ProjectsTyped, OpShape, Making
<1>9. NothingLost'
  <2>1. ASSUME NEW d \in Solid PROVE d \in Solid' /\ store'[d] = store[d]
    BY <1>0, <1>1, <1>2, IdleShape DEF Solid, Making, ProjectsInv, ProjectsTyped, OpShape
  <2>2. \A doc \in saved : \E d \in Solid' : doc \in store'[d].docs
    BY <2>1 DEF ProjectsInv, NothingLost
  <2>3. ASSUME NEW u \in Tabs, work'[u].kind = "detach", work'[u].at \in {"unlist", "destroy"},
               NEW doc \in saved \cap store'[Copy].docs
        PROVE  \E d \in Solid' \ {Copy} : doc \in store'[d].docs
    <3>1. u # t
      BY <1>1, <2>3, IdleShape DEF Making
    <3>2. work[u].kind = "detach" /\ work[u].at \in {"unlist", "destroy"} /\ store'[Copy] = store[Copy]
      BY <1>0, <1>1, <1>2, <2>3, <3>1, ProjectsConstants
    <3> QED BY <2>1, <2>3, <3>2 DEF ProjectsInv, NothingLost
  <2> QED BY <2>2, <2>3 DEF NothingLost
<1>10. NothingTwice'
  <2>1. Detaching => Detaching'
    BY <1>1 DEF Detaching, Making
  <2>2. \A d \in (Subjects \cup {Legacy}) \cap P!Databases : store'[d] = store[d]
    BY <1>0, <1>2, <1>8
  <2> QED BY <1>8, <2>1, <2>2 DEF ProjectsInv, NothingTwice, Apart
<1>11. (\A d \in Subjects \cap P!LocalOnly : WholeProject(d))'
  <2>1. \A d \in Subjects \cap P!LocalOnly : store'[d] = store[d]
    BY <1>2, <1>8, ProjectsConstants
  <2> QED BY <1>8, <2>1 DEF ProjectsInv, WholeProject
<1> QED BY <1>3, <1>4, <1>5, <1>6, <1>7, <1>9, <1>10, <1>11 DEF ProjectsInv

\* A step that writes no device, to a local database that is not being made.
LEMMA RewriteKeeps ==
  ASSUME ProjectsInv, NEW t \in Tabs, NEW o \in P!Tabled, OpShape(o),
         work[t].kind \in {"rename", "setClient", "adopt"},
         o.kind = work[t].kind, o.on = work[t].on,
         NEW db \in Database, db.there, db.docs = store[work[t].on].docs,
         db.plain \subseteq store[work[t].on].plain,
         store[work[t].on].keyed => db.keyed, store[work[t].on].titled => db.titled,
         store' = [store EXCEPT ![work[t].on] = db], work' = [work EXCEPT ![t] = o],
         UNCHANGED <<index, orphan, lock, saved, cut>>, revived \subseteq revived',
         store[work[t].on].there \/ work[t].on \in revived',
         OthersSound(o)'
  PROVE  ProjectsInv'
<1> DEFINE d == work[t].on
<1>0. /\ d \in P!LocalOnly /\ d \in P!Databases /\ d # Copy
      /\ ~Making(work[t]) /\ ~Making(o) /\ o.makes = work[t].makes /\ Keeps(o) = Keeps(work[t])
      /\ ~Holding(work[t]) /\ ~Holding(o) /\ work[t].at # "relist" /\ o.at # "relist"
  BY ProjectsConstants DEF ProjectsInv, ProjectsTyped, OpShape, Making, Holding, Keeps
<1>1. work'[t] = o /\ \A u \in Tabs \ {t} : work'[u] = work[u]
  BY DEF ProjectsInv, ProjectsTyped
<1>2. store'[d] = db /\ \A e \in P!Databases : e # d => store'[e] = store[e]
  BY <1>0 DEF ProjectsInv, ProjectsTyped
<1>3. /\ ProjectsTyped' /\ LocksSound' /\ Subjects' = Subjects
      /\ \A e \in P!Databases : store'[e].docs = store[e].docs
  BY <1>0, <1>1, <1>2 DEF ProjectsInv, ProjectsTyped, LocksSound, Subjects
<1>4. ASSUME NEW u \in Tabs PROVE ItsOwn(u)'
  BY <1>0, <1>1 DEF ProjectsInv, ItsOwn
<1>5. (\A e \in P!Databases : StoreSound(e))'
  BY <1>0, <1>2 DEF ProjectsInv, StoreSound
<1>6. ASSUME NEW u \in Tabs PROVE MakesSound(work[u])' /\ OthersSound(work[u])'
  <2>1. CASE u = t
    BY <1>0, <1>1, <2>1 DEF MakesSound, Making, OthersSound
  <2>2. CASE u # t
    <3>1. OpShape(work[u]) /\ MakesSound(work[u]) /\ OthersSound(work[u]) /\ ItsOwn(u)
      BY DEF ProjectsInv, ProjectsTyped
    <3>2. Making(work[u]) => /\ store'[work[u].makes] = store[work[u].makes]
                             /\ store'[Copy] = store[Copy]
      BY <1>0, <1>2, <2>2, <3>1, ProjectsConstants DEF ItsOwn, OpShape, Making
    <3>3. MakesSound(work[u])'
      BY <1>1, <2>2, <3>1, <3>2 DEF MakesSound, Making
    <3>4. OthersSound(work[u])'
      <4>1. work[u].kind = "delete" => store'[work[u].on].docs = store[work[u].on].docs
        BY <1>3, <3>1 DEF OpShape
      <4>2. store'[Legacy].there /\ Legacy \notin revived' =>
               /\ store[Legacy].there /\ Legacy \notin revived
               /\ store[Legacy].keyed => store'[Legacy].keyed
               /\ store[Legacy].titled => store'[Legacy].titled
               /\ store'[Legacy].plain \subseteq store[Legacy].plain
        BY <1>2, ProjectsConstants
      <4> QED BY <1>1, <2>2, <3>1, <4>1, <4>2 DEF OthersSound
    <3> QED BY <3>3, <3>4
  <2> QED BY <2>1, <2>2
<1>7. NothingLost'
  <2>1. Solid' = Solid
    BY <1>0, <1>1 DEF Solid
  <2> QED BY <1>0, <1>1, <1>3, <2>1, ProjectsConstants DEF ProjectsInv, NothingLost, Solid
<1>8. NothingTwice'
  <2>1. Detaching => Detaching'
    BY <1>0, <1>1 DEF Detaching
  <2> QED BY <1>3, <2>1 DEF ProjectsInv, NothingTwice, Apart
<1>9. ASSUME NEW e \in Subjects' \cap P!LocalOnly PROVE WholeProject(e)'
  <2>1. WholeProject(e) /\ e \in P!Databases
    BY <1>3, <1>9, ProjectsConstants DEF ProjectsInv
  <2>2. CASE e # d
    BY <1>2, <2>1, <2>2 DEF WholeProject
  <2>3. CASE e = d
    BY <1>2, <1>3, <2>1, <2>3 DEF WholeProject
  <2> QED BY <2>2, <2>3
<1> QED BY <1>3, <1>4, <1>5, <1>6, <1>7, <1>8, <1>9 DEF ProjectsInv

------------------------------------------------------------------------------
(* 2.3. The steps.                                                              *)

\* Where an operation that runs can stand.
Stages == {"account", "keys", "title", "devices", "list", "entry", "patch", "rewrite", "lock",
           "destroy", "unlist", "info", "copy", "verify", "seal", "clear", "relist", "discard"}

LEMMA StagesAre ==
  /\ "account" \in Stages /\ "keys" \in Stages /\ "title" \in Stages /\ "devices" \in Stages
  /\ "list" \in Stages /\ "copy" \in Stages /\ "discard" \in Stages
BY DEF Stages

\* An operation goes on to another step, and is the same operation.
GoesTo(o, at, next) ==
    /\ next \in P!Tabled /\ next.at = at /\ next.kind = o.kind /\ next.on = o.on
    /\ next.makes = o.makes /\ next.before = o.before /\ next.left = o.left

LEMMA AtTyped ==
  ASSUME NEW o \in P!Tabled, NEW at \in Stages, NEW next, next = [o EXCEPT !.at = at]
  PROVE  GoesTo(o, at, next)
<1>1. [o EXCEPT !.at = at] \in P!Tabled
  BY DEF P!Tabled, Stages
<1>2. /\ next.at = at /\ next.kind = o.kind /\ next.on = o.on
      /\ next.makes = o.makes /\ next.before = o.before /\ next.left = o.left
  BY DEF P!Tabled
<1> QED BY <1>1, <1>2 DEF GoesTo

\* The operation of a tab, as the invariant knows it.
LEMMA WorkTyped ==
  ASSUME ProjectsInv, NEW t \in Tabs
  PROVE  /\ work[t] \in P!Tabled /\ OpShape(work[t]) /\ ItsOwn(t)
         /\ MakesSound(work[t]) /\ OthersSound(work[t])
         /\ work[t].kind \in P!Kinds
BY DEF ProjectsInv, ProjectsTyped, P!Tabled

\* An operation of a tab that has none.
LEMMA BeginKeeps ==
  ASSUME ProjectsInv, NEW t \in Tabs, work[t].kind = "none",
         NEW o \in P!Tabled, OpShape(o), work' = [work EXCEPT ![t] = o],
         UNCHANGED <<store, index, orphan, lock, saved, revived, cut>>,
         o.at \in {"account", "entry"} \/ (o.kind = "delete" /\ o.at = "lock"), o.before = {},
         o.makes = None \/ P!Unused(o.makes),
         o.kind \in {"rename", "setClient", "delete"} => o.on \in index,
         o.on = None \/ o.on \in index \cup {Legacy, Copy}
  PROVE  ProjectsInv'
<1>1. work[t] = P!Idle /\ work[t].at = "idle" /\ ~Making(work[t]) /\ ~Holding(work[t])
  BY IdleShape DEF ProjectsInv, ProjectsTyped, OpShape, Making, Holding
<1>2. Keeps(o) = {} /\ ~Holding(o)
  BY DEF Keeps, Holding, OpShape
<1>3. ASSUME Making(o)
      PROVE  /\ store[o.makes].docs = {} /\ o.makes \notin index
             /\ \A u \in Tabs \ {t} : o.makes \notin {work[u].makes, work[u].on} \cup Keeps(work[u])
  <2>1. o.makes \in Fresh /\ P!Unused(o.makes) /\ o.makes \in P!Databases
    BY <1>3, ProjectsConstants DEF OpShape, Making
  <2>2. store[o.makes] = P!Absent
    BY <2>1 DEF ProjectsInv, StoreSound, P!Unused
  <2> QED BY <2>1, <2>2, AbsentTyped DEF P!Unused, Keeps
<1>4. ASSUME NEW u \in Tabs \ {t}, Making(work[u])
      PROVE  work[u].makes \notin {o.makes, o.on} \cup Keeps(o)
  <2>1. work[u].makes \in Fresh /\ work[u].makes \notin index /\ work[u].makes # None
    BY <1>4, ProjectsConstants DEF ProjectsInv, ProjectsTyped, OpShape, Making, ItsOwn
  <2>2. work[u].makes # o.makes
    BY <2>1 DEF P!Unused
  <2>3. work[u].makes \notin {Legacy, Copy}
    BY <2>1, ProjectsAssumption
  <2>4. work[u].makes # o.on
    BY <2>1, <2>3
  <2> QED BY <1>2, <2>2, <2>4
<1>5. MakesSound(o)
  BY <1>3 DEF MakesSound, Making
<1>6. OthersSound(o)
  BY DEF OthersSound
<1>7. LocksSound' /\ lock' \in [P!Databases -> Tabs \cup {None}]
  <2>1. work'[t] = o /\ \A u \in Tabs \ {t} : work'[u] = work[u]
    BY DEF ProjectsInv, ProjectsTyped
  <2> QED BY <1>1, <1>2, <2>1 DEF ProjectsInv, ProjectsTyped, LocksSound
<1>8. o.kind \in {"rename", "setClient"} => o.on \in Subjects
  BY DEF Subjects
<1> QED BY <1>1, <1>2, <1>3, <1>4, <1>5, <1>6, <1>7, <1>8, WorkKeeps

LEMMA AskKeeps ==
  ASSUME ProjectsInv, NEW t \in Tabs, P!Ask(t)
  PROVE  ProjectsInv'
<1> DEFINE Asked(kind, at, on, makes, left) ==
             [kind |-> kind, at |-> at, on |-> on, makes |-> makes, before |-> {}, left |-> left]
<1>1. ASSUME NEW d \in Fresh, NEW kind \in {"create", "import"}, P!Unused(d),
             P!Begin(t, [P!Idle EXCEPT !.kind = kind, !.makes = d])
      PROVE  ProjectsInv'
  <2>1. PICK q : q = [P!Idle EXCEPT !.kind = kind, !.makes = d]
    OBVIOUS
  <2>2. q = Asked(kind, "idle", None, d, 0)
    BY <2>1 DEF P!Idle, P!DETACH_ATTEMPTS
  <2>3. PICK o : o = Asked(kind, "account", None, d, 0)
    OBVIOUS
  <2>4. P!Steps(kind)[1] = "account"
    BY <1>1, StepsCreate, StepsImport, <2>2, <2>3
  <2>5. [q EXCEPT !.at = P!Steps(q.kind)[1]] = o
    <3>1. q.kind = kind
      BY <2>2
    <3>2. [q EXCEPT !.at = P!Steps(q.kind)[1]] = [q EXCEPT !.at = "account"]
      BY <2>4, <3>1
    <3> QED BY <2>2, <2>3, <3>2
  <2>6. /\ work[t].kind = "none" /\ work' = [work EXCEPT ![t] = [q EXCEPT !.at = P!Steps(q.kind)[1]]]
        /\ UNCHANGED <<store, index, orphan, lock, saved, revived, cut>>
    BY <1>1, <2>1 DEF P!Begin, P!history
  <2>7. o \in P!Tabled /\ OpShape(o)
    BY <1>1, <2>3, ProjectsConstants
       DEF OpShape, P!Tabled, P!Kinds, P!DETACH_ATTEMPTS, ProjectsInv, ProjectsTyped
  <2> QED BY <1>1, <2>3, <2>5, <2>6, <2>7, BeginKeeps
<1>2. ASSUME NEW d \in index \cap P!LocalOnly, NEW kind \in {"rename", "setClient"},
             P!Begin(t, [P!Idle EXCEPT !.kind = kind, !.on = d])
      PROVE  ProjectsInv'
  <2>1. PICK q : q = [P!Idle EXCEPT !.kind = kind, !.on = d]
    OBVIOUS
  <2>2. q = Asked(kind, "idle", d, None, 0)
    BY <2>1 DEF P!Idle, P!DETACH_ATTEMPTS
  <2>3. PICK o : o = Asked(kind, "entry", d, None, 0)
    OBVIOUS
  <2>4. P!Steps(kind)[1] = "entry"
    BY <1>2, StepsRename, StepsSetClient, <2>2, <2>3
  <2>5. [q EXCEPT !.at = P!Steps(q.kind)[1]] = o
    <3>1. q.kind = kind
      BY <2>2
    <3>2. [q EXCEPT !.at = P!Steps(q.kind)[1]] = [q EXCEPT !.at = "entry"]
      BY <2>4, <3>1
    <3> QED BY <2>2, <2>3, <3>2
  <2>6. /\ work[t].kind = "none" /\ work' = [work EXCEPT ![t] = [q EXCEPT !.at = P!Steps(q.kind)[1]]]
        /\ UNCHANGED <<store, index, orphan, lock, saved, revived, cut>>
    BY <1>2, <2>1 DEF P!Begin, P!history
  <2>7. o \in P!Tabled /\ OpShape(o)
    BY <1>2, <2>3, ProjectsConstants
       DEF OpShape, P!Tabled, P!Kinds, P!DETACH_ATTEMPTS, ProjectsInv, ProjectsTyped
  <2> QED BY <1>2, <2>3, <2>5, <2>6, <2>7, BeginKeeps
<1>3. ASSUME NEW d \in index,
             P!Begin(t, [P!Idle EXCEPT !.kind = "delete", !.on = d])
      PROVE  ProjectsInv'
  <2>1. PICK q : q = [P!Idle EXCEPT !.kind = "delete", !.on = d]
    OBVIOUS
  <2>2. q = Asked("delete", "idle", d, None, 0)
    BY <2>1 DEF P!Idle, P!DETACH_ATTEMPTS
  <2>3. PICK o : o = Asked("delete", "lock", d, None, 0)
    OBVIOUS
  <2>4. P!Steps("delete")[1] = "lock"
    BY StepsDelete, <2>2, <2>3
  <2>5. [q EXCEPT !.at = P!Steps(q.kind)[1]] = o
    <3>1. q.kind = "delete"
      BY <2>2
    <3>2. [q EXCEPT !.at = P!Steps(q.kind)[1]] = [q EXCEPT !.at = "lock"]
      BY <2>4, <3>1
    <3> QED BY <2>2, <2>3, <3>2
  <2>6. /\ work[t].kind = "none" /\ work' = [work EXCEPT ![t] = [q EXCEPT !.at = P!Steps(q.kind)[1]]]
        /\ UNCHANGED <<store, index, orphan, lock, saved, revived, cut>>
    BY <1>3, <2>1 DEF P!Begin, P!history
  <2>7. o \in P!Tabled /\ OpShape(o)
    BY <1>3, <2>3, ProjectsConstants
       DEF OpShape, P!Tabled, P!Kinds, P!DETACH_ATTEMPTS, ProjectsInv, ProjectsTyped
  <2> QED BY <1>3, <2>3, <2>5, <2>6, <2>7, BeginKeeps
<1>4. ASSUME NEW d \in Fresh, P!Unused(d),
             P!Begin(t, [P!Idle EXCEPT !.kind = "detach", !.on = Copy, !.makes = d,
                                       !.left = P!DETACH_ATTEMPTS])
      PROVE  ProjectsInv'
  <2>1. PICK q : q = [P!Idle EXCEPT !.kind = "detach", !.on = Copy, !.makes = d,
                                       !.left = P!DETACH_ATTEMPTS]
    OBVIOUS
  <2>2. q = Asked("detach", "idle", Copy, d, 2)
    BY <2>1 DEF P!Idle, P!DETACH_ATTEMPTS
  <2>3. PICK o : o = Asked("detach", "entry", Copy, d, 2)
    OBVIOUS
  <2>4. P!Steps("detach")[1] = "entry"
    BY StepsDetach, <2>2, <2>3
  <2>5. [q EXCEPT !.at = P!Steps(q.kind)[1]] = o
    <3>1. q.kind = "detach"
      BY <2>2
    <3>2. [q EXCEPT !.at = P!Steps(q.kind)[1]] = [q EXCEPT !.at = "entry"]
      BY <2>4, <3>1
    <3> QED BY <2>2, <2>3, <3>2
  <2>6. /\ work[t].kind = "none" /\ work' = [work EXCEPT ![t] = [q EXCEPT !.at = P!Steps(q.kind)[1]]]
        /\ UNCHANGED <<store, index, orphan, lock, saved, revived, cut>>
    BY <1>4, <2>1 DEF P!Begin, P!history
  <2>7. o \in P!Tabled /\ OpShape(o)
    BY <1>4, <2>3, ProjectsConstants
       DEF OpShape, P!Tabled, P!Kinds, P!DETACH_ATTEMPTS, ProjectsInv, ProjectsTyped
  <2> QED BY <1>4, <2>3, <2>5, <2>6, <2>7, BeginKeeps
<1>5. ASSUME P!Begin(t, [P!Idle EXCEPT !.kind = "adopt", !.on = Legacy])
      PROVE  ProjectsInv'
  <2>1. PICK q : q = [P!Idle EXCEPT !.kind = "adopt", !.on = Legacy]
    OBVIOUS
  <2>2. q = Asked("adopt", "idle", Legacy, None, 0)
    BY <2>1 DEF P!Idle, P!DETACH_ATTEMPTS
  <2>3. PICK o : o = Asked("adopt", "entry", Legacy, None, 0)
    OBVIOUS
  <2>4. P!Steps("adopt")[1] = "entry"
    BY StepsAdopt, <2>2, <2>3
  <2>5. [q EXCEPT !.at = P!Steps(q.kind)[1]] = o
    <3>1. q.kind = "adopt"
      BY <2>2
    <3>2. [q EXCEPT !.at = P!Steps(q.kind)[1]] = [q EXCEPT !.at = "entry"]
      BY <2>4, <3>1
    <3> QED BY <2>2, <2>3, <3>2
  <2>6. /\ work[t].kind = "none" /\ work' = [work EXCEPT ![t] = [q EXCEPT !.at = P!Steps(q.kind)[1]]]
        /\ UNCHANGED <<store, index, orphan, lock, saved, revived, cut>>
    BY <1>5, <2>1 DEF P!Begin, P!history
  <2>7. o \in P!Tabled /\ OpShape(o)
    BY <1>5, <2>3, ProjectsConstants
       DEF OpShape, P!Tabled, P!Kinds, P!DETACH_ATTEMPTS, ProjectsInv, ProjectsTyped
  <2> QED BY <1>5, <2>3, <2>5, <2>6, <2>7, BeginKeeps
<1>6. ASSUME P!Begin(t, [P!Idle EXCEPT !.kind = "signOut"])
      PROVE  ProjectsInv'
  <2>1. PICK q : q = [P!Idle EXCEPT !.kind = "signOut"]
    OBVIOUS
  <2>2. q = Asked("signOut", "idle", None, None, 0)
    BY <2>1 DEF P!Idle, P!DETACH_ATTEMPTS
  <2>3. PICK o : o = Asked("signOut", "entry", None, None, 0)
    OBVIOUS
  <2>4. P!Steps("signOut")[1] = "entry"
    BY StepsSignOut, <2>2, <2>3
  <2>5. [q EXCEPT !.at = P!Steps(q.kind)[1]] = o
    <3>1. q.kind = "signOut"
      BY <2>2
    <3>2. [q EXCEPT !.at = P!Steps(q.kind)[1]] = [q EXCEPT !.at = "entry"]
      BY <2>4, <3>1
    <3> QED BY <2>2, <2>3, <3>2
  <2>6. /\ work[t].kind = "none" /\ work' = [work EXCEPT ![t] = [q EXCEPT !.at = P!Steps(q.kind)[1]]]
        /\ UNCHANGED <<store, index, orphan, lock, saved, revived, cut>>
    BY <1>6, <2>1 DEF P!Begin, P!history
  <2>7. o \in P!Tabled /\ OpShape(o)
    BY <1>6, <2>3, ProjectsConstants
       DEF OpShape, P!Tabled, P!Kinds, P!DETACH_ATTEMPTS, ProjectsInv, ProjectsTyped
  <2> QED BY <1>6, <2>3, <2>5, <2>6, <2>7, BeginKeeps
<1> QED BY <1>1, <1>2, <1>3, <1>4, <1>5, <1>6 DEF P!Ask

\* Letting go of the locks, and ending.
LEMMA ReleaseKeeps ==
  ASSUME ProjectsInv, NEW t \in Tabs, NEW o \in P!Tabled, ~Holding(o),
         work' = [work EXCEPT ![t] = o],
         P!Release(t) \/ (UNCHANGED lock /\ ~Holding(work[t]))
  PROVE  LocksSound' /\ lock' \in [P!Databases -> Tabs \cup {None}]
<1>1. work'[t] = o /\ \A u \in Tabs \ {t} : work'[u] = work[u]
  BY DEF ProjectsInv, ProjectsTyped
<1>2. /\ lock' \in [P!Databases -> Tabs \cup {None}]
      /\ \A d \in P!Databases : /\ lock'[d] # t
                                /\ lock'[d] # None => lock'[d] = lock[d]
                                /\ lock[d] # t => lock'[d] = lock[d]
  <2>1. CASE P!Release(t)
    BY <2>1, ProjectsConstants DEF ProjectsInv, ProjectsTyped, P!Release
  <2>2. CASE UNCHANGED lock /\ ~Holding(work[t])
    BY <2>2, ProjectsConstants DEF ProjectsInv, ProjectsTyped, LocksSound
  <2> QED BY <2>1, <2>2
<1>3. ASSUME NEW u \in Tabs, Holding(work'[u]) PROVE lock'[work'[u].on] = u
  <2>1. u # t /\ work'[u] = work[u] /\ Holding(work[u])
    BY <1>1, <1>3
  <2>2. work[u].on \in P!Databases /\ lock[work[u].on] = u
    BY <2>1, ProjectsConstants DEF ProjectsInv, ProjectsTyped, LocksSound, OpShape, Holding
  <2> QED BY <1>2, <2>1, <2>2
<1>4. ASSUME NEW d \in P!Databases, lock'[d] # None
      PROVE  work'[lock'[d]].on = d /\ Holding(work'[lock'[d]])
  <2>1. lock'[d] = lock[d] /\ lock[d] # t /\ lock[d] \in Tabs
    BY <1>2, <1>4 DEF ProjectsInv, ProjectsTyped
  <2> QED BY <1>1, <1>4, <2>1 DEF ProjectsInv, LocksSound
<1> QED BY <1>2, <1>3, <1>4 DEF LocksSound

\* The operation of a tab ends, is cut off, or goes on to discard what it made.
LEMMA EndKeeps ==
  ASSUME ProjectsInv, NEW t \in Tabs, NEW o, work' = [work EXCEPT ![t] = o],
         \/ o = P!Idle
         \/ /\ work[t].kind \in {"import", "detach"} /\ Making(work[t])
            /\ o = [work[t] EXCEPT !.at = "discard"],
         UNCHANGED <<store, index, orphan, saved, revived>>,
         P!Release(t) \/ (UNCHANGED lock /\ ~Holding(work[t])),
         cut' = cut \cup P!HalfDone(t)
  PROVE  ProjectsInv'
<1> DEFINE w == work[t]
<1>0. w \in P!Tabled /\ OpShape(w) /\ MakesSound(w)
  BY WorkTyped
<1>1. /\ o \in P!Tabled /\ OpShape(o) /\ o.at \in {"idle", "discard"} /\ ~Holding(o)
      /\ Keeps(o) = {} /\ o.kind \in {"none", "import", "detach"}
      /\ Making(o) => Making(w) /\ o.makes = w.makes
      /\ o.kind # "none" => o.kind = w.kind
      /\ o.makes \in {None, w.makes} /\ o.on \in {None, w.on}
  <2>1. CASE o = P!Idle
    BY <2>1, IdleShape DEF Holding, Keeps, Making, P!Idle
  <2>2. CASE w.kind \in {"import", "detach"} /\ Making(w) /\ o = [w EXCEPT !.at = "discard"]
    <3>1. /\ o \in P!Tabled /\ o.at = "discard" /\ o.kind = w.kind /\ o.on = w.on
          /\ o.makes = w.makes
      <4>1. GoesTo(w, "discard", o)
        BY <1>0, <2>2, AtTyped, StagesAre, Zenon
      <4> QED BY <1>0, <2>2, <4>1, Zenon DEF GoesTo
    <3>2. OpShape(o)
      BY <1>0, <2>2, <3>1 DEF OpShape
    <3> HIDE DEF w
    <3> QED BY <2>2, <3>1, <3>2 DEF Holding, Keeps, Making
  <2> QED BY <2>1, <2>2
<1>2. LocksSound' /\ lock' \in [P!Databases -> Tabs \cup {None}]
  BY <1>1, ReleaseKeeps
<1>3. ASSUME NEW u \in Tabs \ {t}, Making(work[u])
      PROVE  work[u].makes \notin {o.makes, o.on} \cup Keeps(o)
  <2>1. work[u].makes # None /\ work[u].makes \notin {w.makes, w.on}
    BY <1>3, ProjectsConstants DEF ProjectsInv, ProjectsTyped, OpShape, Making, ItsOwn
  <2> QED BY <1>1, <2>1
<1>4. MakesSound(o)
  BY <1>0, <1>1 DEF MakesSound, Making
<1>5. OthersSound(o)
  BY <1>1 DEF OthersSound
<1>6. w.at = "relist" => w.before \subseteq cut'
  BY <1>0 DEF P!HalfDone, OpShape
<1>7. w.kind = "detach" /\ w.at = "unlist" => cut' # {}
  BY DEF P!HalfDone
<1> QED BY <1>1, <1>2, <1>3, <1>4, <1>5, <1>6, <1>7, WorkKeeps

LEMMA FailKeeps ==
  ASSUME ProjectsInv, NEW t \in Tabs, P!Fail(t) \/ P!EndTab(t)
  PROVE  ProjectsInv'
<1>1. CASE P!EndTab(t)
  BY <1>1, EndKeeps DEF P!EndTab
<1>2. CASE P!Fail(t)
  <2>0. OpShape(work[t]) /\ work[t] \in P!Tabled
    BY WorkTyped
  <2> DEFINE discards == \/ work[t].kind = "import" /\ work[t].at # "account"
                         \/ work[t].kind = "detach"
                            /\ work[t].at \notin {"entry", "unlist", "destroy"}
  <2>1. PICK o : o = IF discards THEN [work[t] EXCEPT !.at = "discard"] ELSE P!Idle
    OBVIOUS
  <2>2. work' = [work EXCEPT ![t] = o]
    BY <1>2, <2>1 DEF P!Fail, ProjectsInv, ProjectsTyped
  <2>3. discards => Making(work[t])
    BY <2>0 DEF Making, OpShape
  <2>4. \/ o = P!Idle
        \/ /\ work[t].kind \in {"import", "detach"} /\ Making(work[t])
           /\ o = [work[t] EXCEPT !.at = "discard"]
    BY <2>1, <2>3
  <2>5. UNCHANGED <<store, index, orphan, saved, revived>> /\ P!Release(t)
        /\ cut' = cut \cup P!HalfDone(t)
    BY <1>2 DEF P!Fail
  <2> QED BY <2>2, <2>4, <2>5, EndKeeps
<1> QED BY <1>1, <1>2

\* An operation goes on without touching a database, a lock or the index.
LEMMA GoesOnKeeps ==
  ASSUME ProjectsInv, NEW t \in Tabs, NEW o \in P!Tabled, OpShape(o),
         work' = [work EXCEPT ![t] = o],
         UNCHANGED <<store, index, orphan, lock, saved, revived, cut>>,
         o.kind = work[t].kind, o.on = work[t].on, o.makes = work[t].makes,
         ~Holding(o), ~Holding(work[t]), o.kind = "signOut" => o.before \subseteq index,
         work[t].at # "relist", Making(o) => Making(work[t]),
         MakesSound(o), OthersSound(o)
  PROVE  ProjectsInv'
<1>0. OpShape(work[t])
  BY WorkTyped
<1>1. LocksSound' /\ lock' \in [P!Databases -> Tabs \cup {None}]
  BY ReleaseKeeps
<1>2. ASSUME NEW u \in Tabs \ {t}, Making(work[u])
      PROVE  work[u].makes \notin {o.makes, o.on} \cup Keeps(o)
  BY <1>2 DEF ProjectsInv, ItsOwn, Keeps
<1>3. Keeps(o) \subseteq Subjects
  BY DEF Keeps, Subjects
<1>4. o.kind \in {"rename", "setClient"} => o.on \in Subjects
  BY DEF Subjects
<1>5. ~ (o.kind = "detach" /\ o.at \in {"unlist", "destroy"})
      /\ ~ (work[t].kind = "detach" /\ work[t].at \in {"unlist", "destroy"})
  BY DEF Holding
<1> QED BY <1>1, <1>2, <1>3, <1>4, <1>5, WorkKeeps

LEMMA AccountKeeps ==
  ASSUME ProjectsInv, NEW t \in Tabs, P!Account(t)
  PROVE  ProjectsInv'
<1> DEFINE w == work[t]
<1>0. w \in P!Tabled /\ OpShape(w) /\ MakesSound(w) /\ w.kind \in P!Kinds
  BY WorkTyped
<1>1. w.at = "account" /\ w.kind \in {"create", "import"}
  BY <1>0, IdleShape DEF P!Account, OpShape, P!Kinds
<1>2. PICK o : o = [w EXCEPT !.at = "keys"]
  OBVIOUS
<1>3. work' = [work EXCEPT ![t] = o]
  BY <1>1, <1>2, StepsCreate, StepsImport DEF P!Account, P!On
<1>4. /\ o \in P!Tabled /\ o.at = "keys" /\ o.kind = w.kind /\ o.on = w.on
      /\ o.makes = w.makes
  <2>1. GoesTo(w, "keys", o)
    BY <1>0, <1>2, AtTyped, StagesAre, Zenon
  <2> QED BY <1>0, <1>2, <2>1, Zenon DEF GoesTo
<1>5. OpShape(o) /\ MakesSound(o) /\ OthersSound(o) /\ Making(o) /\ Making(w)
      /\ ~Holding(o) /\ ~Holding(w)
  BY <1>0, <1>1, <1>4 DEF OpShape, MakesSound, OthersSound, Making, Holding
<1> QED BY <1>1, <1>3, <1>4, <1>5, GoesOnKeeps DEF P!Account, P!history

LEMMA PatchKeeps ==
  ASSUME ProjectsInv, NEW t \in Tabs, P!Patch(t)
  PROVE  ProjectsInv'
<1>0. work[t].kind = "rename" /\ work[t].at = "patch"
  BY WorkTyped, IdleShape DEF P!Patch, OpShape, P!Kinds
<1>1. work' = [work EXCEPT ![t] = P!Idle]
  BY <1>0, StepsRename DEF P!Patch, P!On
<1>2. P!HalfDone(t) = {}
  BY <1>0 DEF P!HalfDone
<1> QED BY <1>0, <1>1, <1>2, EndKeeps DEF P!Patch, P!history, Holding

LEMMA EntryKeeps ==
  ASSUME ProjectsInv, NEW t \in Tabs, P!Entry(t)
  PROVE  ProjectsInv'
<1> DEFINE w == work[t]
           kept == IF w.kind = "signOut" THEN index \cap P!LocalOnly ELSE w.before
           goesOn == CASE w.kind = "adopt" ->
                            /\ Legacy \notin index
                            /\ store[Legacy].titled \/ store[Legacy].docs # {} \/ index = {}
                       [] w.kind = "signOut" -> TRUE
                       [] OTHER -> w.on \in index
           q == [w EXCEPT !.before = kept]
           onto == CASE w.kind \in {"rename", "setClient"} -> "title"
                     [] w.kind = "detach" -> "info"
                     [] w.kind = "adopt" -> "keys"
                     [] w.kind = "signOut" -> "clear"
<1>0. w \in P!Tabled /\ OpShape(w) /\ MakesSound(w) /\ w.kind \in P!Kinds
  BY WorkTyped
<1>1. /\ w.at = "entry"
      /\ w.kind \in {"rename", "setClient", "detach", "adopt", "signOut"}
  BY <1>0, IdleShape DEF P!Entry, OpShape, P!Kinds
<1>2. UNCHANGED <<store, index, orphan, lock, saved, revived, cut>>
  BY DEF P!Entry, P!history
<1>3. CASE ~goesOn
  <2>1. work' = [work EXCEPT ![t] = P!Idle]
    BY <1>3 DEF P!Entry
  <2>2. P!HalfDone(t) = {} /\ ~Holding(w)
    BY <1>1 DEF P!HalfDone, Holding
  <2> QED BY <1>2, <2>1, <2>2, EndKeeps
<1>4. CASE goesOn
  <2>1. work' = [work EXCEPT ![t] = P!Advance(q)]
    BY <1>4 DEF P!Entry
  <2>2. /\ q \in P!Tabled /\ q.at = "entry" /\ q.kind = w.kind /\ q.on = w.on
        /\ q.makes = w.makes /\ q.before = kept
    <3>1. kept \in SUBSET (Docs \cup Archive \cup P!Databases)
      BY <1>0 DEF P!Tabled, ProjectsInv, ProjectsTyped
    <3> HIDE DEF kept
    <3> QED BY <1>0, <1>1, <3>1 DEF P!Tabled
  <2>3. onto \in {"title", "info", "keys", "clear"} /\ P!Advance(q) = [q EXCEPT !.at = onto]
    <3>1. CASE w.kind = "rename"
      BY <2>2, <3>1, StepsRename
    <3>2. CASE w.kind = "setClient"
      BY <2>2, <3>2, StepsSetClient
    <3>3. CASE w.kind = "detach"
      BY <2>2, <3>3, StepsDetach
    <3>4. CASE w.kind = "adopt"
      BY <2>2, <3>4, StepsAdopt
    <3>5. CASE w.kind = "signOut"
      BY <2>2, <3>5, StepsSignOut
    <3> QED BY <1>1, <3>1, <3>2, <3>3, <3>4, <3>5
  <2>4. PICK o : o = [q EXCEPT !.at = onto]
    OBVIOUS
  <2>5. /\ o \in P!Tabled /\ o.at = onto /\ o.kind = w.kind /\ o.on = w.on
        /\ o.makes = w.makes /\ o.before = kept
    <3> HIDE DEF onto, kept, q
    <3> QED BY <2>2, <2>3, <2>4 DEF P!Tabled
  <2>6. work' = [work EXCEPT ![t] = o]
    BY <2>1, <2>3, <2>4
  <2>7. OpShape(o)
    BY <1>0, <1>1, <2>5 DEF OpShape
  <2>8. MakesSound(o) /\ OthersSound(o) /\ (Making(o) => Making(w)) /\ ~Holding(o) /\ ~Holding(w)
    BY <1>0, <1>1, <2>5 DEF MakesSound, OthersSound, Making, Holding
  <2>9. o.kind = "signOut" => o.before \subseteq index
    BY <2>5
  <2> HIDE DEF onto, kept, q
  <2> QED BY <1>1, <1>2, <2>5, <2>6, <2>7, <2>8, <2>9, GoesOnKeeps
<1> QED BY <1>3, <1>4

LEMMA InfoKeeps ==
  ASSUME ProjectsInv, NEW t \in Tabs, P!Info(t)
  PROVE  ProjectsInv'
<1> DEFINE w == work[t]
           q == [w EXCEPT !.before = store[w.on].docs]
<1>0. w \in P!Tabled /\ OpShape(w) /\ MakesSound(w) /\ w.kind \in P!Kinds
  BY WorkTyped
<1>1. w.at = "info" /\ w.kind = "detach" /\ w.on = Copy
  BY <1>0, IdleShape DEF P!Info, OpShape, P!Kinds
<1>2. UNCHANGED <<store, index, orphan, lock, saved, revived, cut>>
  BY DEF P!Info, P!history
<1>3. /\ q \in P!Tabled /\ q.at = "info" /\ q.kind = "detach" /\ q.on = Copy
      /\ q.makes = w.makes /\ q.before = store[Copy].docs
  <2>1. store[Copy].docs \subseteq Docs \cup Archive
    BY ProjectsConstants DEF ProjectsInv, ProjectsTyped, Database
  <2> QED BY <1>0, <1>1, <2>1 DEF P!Tabled
<1>4. PICK o : o = [q EXCEPT !.at = "copy"]
  OBVIOUS
<1>5. /\ o \in P!Tabled /\ o.at = "copy" /\ o.kind = "detach" /\ o.on = Copy
      /\ o.makes = w.makes /\ o.before = store[Copy].docs
  <2> HIDE DEF q
  <2>1. GoesTo(q, "copy", o)
    BY <1>3, <1>4, AtTyped, StagesAre, Zenon
  <2> QED BY <1>3, <1>4, <2>1, Zenon DEF GoesTo
<1>6. work' = [work EXCEPT ![t] = o]
  <2>1. P!Advance(q) = o
    BY <1>3, <1>4, StepsDetach
  <2> QED BY <2>1 DEF P!Info
<1>7. OpShape(o) /\ MakesSound(o) /\ OthersSound(o) /\ Making(w) /\ ~Holding(o) /\ ~Holding(w)
  BY <1>0, <1>1, <1>5 DEF OpShape, MakesSound, OthersSound, Making, Holding
<1> HIDE DEF q
<1> QED BY <1>1, <1>2, <1>5, <1>6, <1>7, GoesOnKeeps

LEMMA LockKeeps ==
  ASSUME ProjectsInv, NEW t \in Tabs, P!Lock(t)
  PROVE  ProjectsInv'
<1> DEFINE w == work[t]
           d == w.on
           onto == IF w.kind = "delete" THEN "destroy" ELSE "verify"
<1>0. w \in P!Tabled /\ OpShape(w) /\ MakesSound(w) /\ w.kind \in P!Kinds
  BY WorkTyped
<1>1. w.at = "lock" /\ w.kind \in {"delete", "detach"} /\ d \in P!Databases
  BY <1>0, IdleShape, ProjectsConstants DEF P!Lock, OpShape, P!Kinds
<1>2. /\ UNCHANGED <<store, index, orphan, saved, revived, cut>>
      /\ lock[d] = None /\ lock' = [lock EXCEPT ![d] = t]
  BY DEF P!Lock, P!history
<1>3. PICK o : o = [w EXCEPT !.at = onto]
  OBVIOUS
<1>4. /\ o \in P!Tabled /\ o.at = onto /\ o.kind = w.kind /\ o.on = d
      /\ o.makes = w.makes /\ o.before = w.before
  <2>1. onto \in {"destroy", "verify"}
    OBVIOUS
  <2> HIDE DEF onto
  <2> QED BY <1>0, <1>3, <2>1 DEF P!Tabled
<1>5. work' = [work EXCEPT ![t] = o]
  <2>1. P!Advance(w) = o
    BY <1>1, <1>3, StepsDetach, StepsDelete
  <2> QED BY <2>1 DEF P!Lock, P!On
<1>6. OpShape(o) /\ MakesSound(o) /\ OthersSound(o) /\ (Making(o) => Making(w))
      /\ Holding(o) /\ ~Holding(w)
  BY <1>0, <1>1, <1>4 DEF OpShape, MakesSound, OthersSound, Making, Holding
<1>7. LocksSound' /\ lock' \in [P!Databases -> Tabs \cup {None}]
  <2>1. work'[t] = o /\ \A u \in Tabs \ {t} : work'[u] = work[u]
    BY <1>5 DEF ProjectsInv, ProjectsTyped
  <2>2. /\ lock' \in [P!Databases -> Tabs \cup {None}] /\ lock'[d] = t
        /\ \A e \in P!Databases : e # d => lock'[e] = lock[e]
    BY <1>1, <1>2 DEF ProjectsInv, ProjectsTyped
  <2>3. ASSUME NEW u \in Tabs, Holding(work'[u]) PROVE lock'[work'[u].on] = u
    <3>1. CASE u = t
      BY <1>4, <2>1, <2>2, <3>1
    <3>2. CASE u # t
      <4>1. work[u].on \in P!Databases /\ lock[work[u].on] = u
        BY <2>1, <2>3, <3>2, ProjectsConstants
           DEF ProjectsInv, ProjectsTyped, LocksSound, OpShape, Holding
      <4>2. work[u].on # d
        BY <1>2, <4>1, ProjectsConstants
      <4> QED BY <2>1, <2>2, <3>2, <4>1, <4>2
    <3> QED BY <3>1, <3>2
  <2>4. ASSUME NEW e \in P!Databases, lock'[e] # None
        PROVE  work'[lock'[e]].on = e /\ Holding(work'[lock'[e]])
    <3>1. CASE e = d
      BY <1>4, <1>6, <2>1, <2>2, <3>1
    <3>2. CASE e # d
      <4>1. lock'[e] = lock[e] /\ lock[e] # None /\ lock[e] \in Tabs
        BY <2>2, <2>4, <3>2 DEF ProjectsInv, ProjectsTyped
      <4>2. work[lock[e]].on = e /\ Holding(work[lock[e]])
        BY <4>1 DEF ProjectsInv, LocksSound
      <4>3. lock[e] # t
        BY <1>6, <4>2
      <4> QED BY <2>1, <4>1, <4>2, <4>3
    <3> QED BY <3>1, <3>2
  <2> QED BY <2>2, <2>3, <2>4 DEF LocksSound
<1>8. ASSUME NEW u \in Tabs \ {t}, Making(work[u])
      PROVE  work[u].makes \notin {o.makes, o.on} \cup Keeps(o)
  BY <1>1, <1>4, <1>8 DEF ProjectsInv, ItsOwn, Keeps
<1>9. /\ Keeps(o) \subseteq Subjects /\ w.at # "relist"
      /\ ~ (o.kind = "detach" /\ o.at \in {"unlist", "destroy"})
      /\ ~ (w.kind = "detach" /\ w.at = "unlist")
      /\ o.kind \notin {"rename", "setClient"}
  BY <1>1, <1>4 DEF Keeps
<1> HIDE DEF onto, d
<1> QED BY <1>2, <1>4, <1>5, <1>6, <1>7, <1>8, <1>9, WorkKeeps

\* The copy is given up, made again, or whole.
LEMMA VerifyKeeps ==
  ASSUME ProjectsInv, NEW t \in Tabs, P!Verify(t)
  PROVE  ProjectsInv'
<1> DEFINE w == work[t]
<1>0. w \in P!Tabled /\ OpShape(w) /\ MakesSound(w) /\ w.kind \in P!Kinds
  BY WorkTyped
<1>1. /\ w.at = "verify" /\ w.kind = "detach" /\ w.on = Copy /\ Making(w) /\ Holding(w)
      /\ Copy \in P!Databases
  BY <1>0, IdleShape, ProjectsConstants DEF P!Verify, OpShape, P!Kinds, Making, Holding
<1>2. UNCHANGED <<store, index, orphan, saved, revived, cut>> /\ P!HalfDone(t) = {}
  BY <1>1 DEF P!Verify, P!history, P!HalfDone
<1>3. ASSUME P!Release(t), work' = [work EXCEPT ![t] = [w EXCEPT !.at = "discard"]]
      PROVE  ProjectsInv'
  <2>1. PICK o : o = [w EXCEPT !.at = "discard"]
    OBVIOUS
  <2> QED BY <1>1, <1>2, <1>3, <2>1, EndKeeps
<1>4. CASE Copy \notin index \cap orphan
  <2>1. P!Release(t) /\ work' = [work EXCEPT ![t] = [w EXCEPT !.at = "discard"]]
    BY <1>1, <1>4 DEF P!Verify, ProjectsInv, ProjectsTyped
  <2> QED BY <1>3, <2>1
<1>5. CASE Copy \in index \cap orphan /\ (~store[Copy].there \/ store[Copy].docs # w.before)
  <2>1. /\ P!Release(t)
        /\ work' = [work EXCEPT ![t] = IF w.left > 1 THEN [w EXCEPT !.at = "info", !.left = @ - 1]
                                       ELSE [w EXCEPT !.at = "discard"]]
    BY <1>1, <1>5 DEF P!Verify
  <2>2. CASE ~ (w.left > 1)
    BY <1>3, <2>1, <2>2
  <2>3. CASE w.left > 1
    <3>1. PICK o : o = [w EXCEPT !.at = "info", !.left = @ - 1]
      OBVIOUS
    <3>2. /\ o \in P!Tabled /\ o.at = "info" /\ o.kind = "detach" /\ o.on = Copy
          /\ o.makes = w.makes
      <4>1. w.left \in 0..2 /\ w.left - 1 \in 0..2
        BY <1>0, <2>3 DEF P!Tabled, P!DETACH_ATTEMPTS
      <4> QED BY <1>0, <1>1, <3>1, <4>1 DEF P!Tabled, P!DETACH_ATTEMPTS
    <3>3. OpShape(o) /\ MakesSound(o) /\ OthersSound(o) /\ Making(o) /\ ~Holding(o)
      BY <1>0, <1>1, <3>2 DEF OpShape, MakesSound, OthersSound, Making, Holding
    <3>4. work' = [work EXCEPT ![t] = o]
      BY <2>1, <2>3, <3>1
    <3>5. LocksSound' /\ lock' \in [P!Databases -> Tabs \cup {None}]
      BY <2>1, <3>2, <3>3, <3>4, ReleaseKeeps
    <3>6. ASSUME NEW u \in Tabs \ {t}, Making(work[u])
          PROVE  work[u].makes \notin {o.makes, o.on} \cup Keeps(o)
      BY <1>1, <3>2, <3>6 DEF ProjectsInv, ItsOwn, Keeps
    <3>7. Keeps(o) \subseteq Subjects
      BY <3>2 DEF Keeps
    <3> QED BY <1>1, <1>2, <3>2, <3>3, <3>4, <3>5, <3>6, <3>7, WorkKeeps
  <2> QED BY <2>2, <2>3
<1>6. CASE Copy \in index \cap orphan /\ store[Copy].there /\ store[Copy].docs = w.before
  <2>1. UNCHANGED lock /\ work' = [work EXCEPT ![t] = P!Advance(w)]
    BY <1>1, <1>6 DEF P!Verify, P!On
  <2>2. PICK o : o = [w EXCEPT !.at = "list"]
    OBVIOUS
  <2>3. /\ o \in P!Tabled /\ o.at = "list" /\ o.kind = "detach" /\ o.on = Copy
        /\ o.makes = w.makes
    <3>1. GoesTo(w, "list", o)
      BY <1>0, <1>1, <2>2, AtTyped, StagesAre, Zenon
    <3> QED BY <1>0, <1>1, <2>2, <3>1, Zenon DEF GoesTo
  <2>4. OpShape(o) /\ MakesSound(o) /\ OthersSound(o) /\ Making(o) /\ Holding(o)
    BY <1>0, <1>1, <1>6, <2>3 DEF OpShape, MakesSound, OthersSound, Making, Holding
  <2>5. work' = [work EXCEPT ![t] = o]
    BY <1>1, <2>1, <2>2, StepsDetach
  <2>6. LocksSound' /\ lock' \in [P!Databases -> Tabs \cup {None}]
    <3>1. work'[t] = o /\ \A u \in Tabs \ {t} : work'[u] = work[u]
      BY <2>5 DEF ProjectsInv, ProjectsTyped
    <3> QED BY <1>1, <2>1, <2>3, <2>4, <3>1 DEF ProjectsInv, ProjectsTyped, LocksSound
  <2>7. ASSUME NEW u \in Tabs \ {t}, Making(work[u])
        PROVE  work[u].makes \notin {o.makes, o.on} \cup Keeps(o)
    BY <1>1, <2>3, <2>7 DEF ProjectsInv, ItsOwn, Keeps
  <2>8. Keeps(o) \subseteq Subjects
    BY <2>3 DEF Keeps
  <2> QED BY <1>1, <1>2, <2>3, <2>4, <2>5, <2>6, <2>7, <2>8, WorkKeeps
<1> QED BY <1>4, <1>5, <1>6

\* The database that an operation writes to when it writes keys or a title.
LEMMA EnsureKeysKeeps ==
  ASSUME ProjectsInv, NEW t \in Tabs, P!EnsureKeys(t)
  PROVE  ProjectsInv'
<1> DEFINE w == work[t]
           d == P!Target(w)
<1>0. w \in P!Tabled /\ OpShape(w) /\ MakesSound(w) /\ OthersSound(w) /\ w.kind \in P!Kinds
  BY WorkTyped
<1>1. w.at = "keys" /\ w.kind \in {"create", "import", "adopt"} /\ ~Holding(w)
  BY <1>0, IdleShape DEF P!EnsureKeys, OpShape, P!Kinds, Holding
<1>2. PICK o : o = [w EXCEPT !.at = "title"]
  OBVIOUS
<1>3. /\ o \in P!Tabled /\ o.at = "title" /\ o.kind = w.kind /\ o.on = w.on
      /\ o.makes = w.makes
  <2>1. GoesTo(w, "title", o)
    BY <1>0, <1>2, AtTyped, StagesAre, Zenon
  <2> QED BY <1>0, <1>2, <2>1, Zenon DEF GoesTo
<1>4. OpShape(o) /\ ~Holding(o)
  BY <1>0, <1>1, <1>3 DEF OpShape, Holding
<1>5. work' = [work EXCEPT ![t] = o]
  <2>1. P!Advance(w) = o
    BY <1>1, <1>2, StepsCreate, StepsImport, StepsAdopt
  <2> QED BY <2>1 DEF P!EnsureKeys, P!On
<1>6. UNCHANGED <<index, orphan, lock, saved, cut>>
  BY DEF P!EnsureKeys
<1>7. PICK db : db = [store[d] EXCEPT !.there = TRUE, !.keyed = TRUE]
  OBVIOUS
<1>8. d \in P!Databases
  BY <1>0, <1>1, ProjectsConstants DEF P!Target, OpShape
<1>9. /\ db \in Database /\ db.there /\ db.keyed /\ db.docs = store[d].docs
      /\ db.plain = store[d].plain /\ db.titled = store[d].titled
  BY <1>7, <1>8 DEF ProjectsInv, ProjectsTyped, Database
<1>10. store' = [store EXCEPT ![d] = db] /\ store'[d] = db
  BY <1>7, <1>8 DEF P!EnsureKeys, ProjectsInv, ProjectsTyped, Database
<1>11. revived \subseteq revived' /\ (d = Legacy => store[d].there \/ d \in revived')
  BY DEF P!EnsureKeys
<1> HIDE DEF d
<1>12. CASE w.kind \in {"create", "import"}
  <2>1. d = w.makes /\ d # Legacy /\ Making(w) /\ Making(o)
    BY <1>0, <1>1, <1>3, <1>12, ProjectsConstants DEF P!Target, OpShape, Making, d
  <2>2. db.plain = {}
    BY <1>8, <1>9, <2>1 DEF ProjectsInv, StoreSound
  <2>3. MakesSound(o)'
    BY <1>0, <1>1, <1>3, <1>6, <1>9, <1>10, <1>12, <2>1 DEF MakesSound, Making
  <2> QED BY <1>1, <1>3, <1>4, <1>5, <1>6, <1>9, <1>10, <1>11, <2>1, <2>2, <2>3, MakingKeeps
<1>13. CASE w.kind = "adopt"
  <2>1. d = w.on /\ d = Legacy
    BY <1>0, <1>13, ProjectsConstants DEF P!Target, OpShape, d
  <2>2. OthersSound(o)'
    BY <1>3, <1>9, <1>10, <1>13, <2>1 DEF OthersSound
  <2> QED BY <1>1, <1>3, <1>4, <1>5, <1>6, <1>9, <1>10, <1>11, <1>13, <2>1, <2>2, RewriteKeeps
<1> QED BY <1>1, <1>12, <1>13

LEMMA TitleKeeps ==
  ASSUME ProjectsInv, NEW t \in Tabs, P!Title(t)
  PROVE  ProjectsInv'
<1> DEFINE w == work[t]
           d == P!Target(w)
           onto == CASE w.kind = "create" -> "list" [] w.kind = "import" -> "devices"
                     [] w.kind = "detach" -> "lock" [] w.kind = "rename" -> "patch"
                     [] w.kind = "setClient" -> "rewrite" [] w.kind = "adopt" -> "seal"
<1>0. w \in P!Tabled /\ OpShape(w) /\ MakesSound(w) /\ OthersSound(w) /\ w.kind \in P!Kinds
  BY WorkTyped
<1>1. /\ w.at = "title" /\ ~Holding(w)
      /\ w.kind \in {"create", "import", "detach", "rename", "setClient", "adopt"}
  BY <1>0, IdleShape DEF P!Title, OpShape, P!Kinds, Holding
<1>2. PICK o : o = [w EXCEPT !.at = onto]
  OBVIOUS
<1>3. /\ o \in P!Tabled /\ o.at = onto /\ o.kind = w.kind /\ o.on = w.on
      /\ o.makes = w.makes /\ o.before = w.before
  BY <1>0, <1>1, <1>2 DEF P!Tabled
<1>4. OpShape(o) /\ ~Holding(o)
  BY <1>0, <1>1, <1>3 DEF OpShape, Holding
<1>5. work' = [work EXCEPT ![t] = o]
  <2>1. P!Advance(w) = o
    BY <1>1, <1>2, StepsCreate, StepsImport, StepsAdopt, StepsDetach, StepsRename, StepsSetClient
  <2> QED BY <2>1 DEF P!Title, P!On
<1>6. UNCHANGED <<index, orphan, lock, saved, cut>>
  BY DEF P!Title
<1>7. PICK db : db = [store[d] EXCEPT !.there = TRUE, !.titled = TRUE]
  OBVIOUS
<1>8. d \in P!Databases
  BY <1>0, <1>1, ProjectsConstants DEF P!Target, OpShape
<1>9. /\ db \in Database /\ db.there /\ db.titled /\ db.docs = store[d].docs
      /\ db.plain = store[d].plain /\ db.keyed = store[d].keyed
  BY <1>7, <1>8 DEF ProjectsInv, ProjectsTyped, Database
<1>10. store' = [store EXCEPT ![d] = db] /\ store'[d] = db
       /\ \A e \in P!Databases : e # d => store'[e] = store[e]
  BY <1>7, <1>8 DEF P!Title, ProjectsInv, ProjectsTyped, Database
<1>11. revived \subseteq revived' /\ (store[d].there \/ d \in revived')
  BY DEF P!Title
<1>12. CASE w.kind \in {"create", "import", "detach"}
  <2>1. d = w.makes /\ d # Legacy /\ d # Copy /\ Making(w) /\ Making(o)
    BY <1>0, <1>1, <1>3, <1>12, ProjectsConstants DEF P!Target, OpShape, Making
  <2>2. db.plain = {}
    BY <1>8, <1>9, <2>1 DEF ProjectsInv, StoreSound
  <2>3. MakesSound(o)'
    <3>1. store'[Copy] = store[Copy]
      BY <1>10, <2>1, ProjectsConstants
    <3> HIDE DEF d
    <3> QED BY <1>0, <1>1, <1>3, <1>6, <1>9, <1>10, <1>12, <2>1, <3>1 DEF MakesSound, Making
  <2> HIDE DEF d, onto
  <2> QED BY <1>1, <1>3, <1>4, <1>5, <1>6, <1>9, <1>10, <1>11, <2>1, <2>2, <2>3, MakingKeeps
<1>13. CASE w.kind \in {"rename", "setClient", "adopt"}
  <2>1. d = w.on /\ (w.kind = "adopt" => d = Legacy)
    BY <1>0, <1>13, ProjectsConstants DEF P!Target, OpShape
  <2>2. OthersSound(o)'
    <3> HIDE DEF d
    <3> QED BY <1>0, <1>1, <1>3, <1>9, <1>10, <1>11, <1>13, <2>1 DEF OthersSound
  <2> HIDE DEF d, onto
  <2> QED BY <1>1, <1>3, <1>4, <1>5, <1>6, <1>9, <1>10, <1>11, <1>13, <2>1, <2>2, RewriteKeeps
<1> QED BY <1>1, <1>12, <1>13

LEMMA DevicesKeeps ==
  ASSUME ProjectsInv, NEW t \in Tabs, P!Devices(t)
  PROVE  ProjectsInv'
<1> DEFINE w == work[t]
           d == w.makes
<1>0. w \in P!Tabled /\ OpShape(w) /\ MakesSound(w) /\ OthersSound(w) /\ w.kind \in P!Kinds
  BY WorkTyped
<1>1. /\ w.at = "devices" /\ w.kind = "import" /\ ~Holding(w) /\ Making(w)
      /\ d \in Fresh /\ d \in P!Databases /\ d # Legacy /\ d # Copy
  BY <1>0, IdleShape, ProjectsConstants DEF P!Devices, OpShape, P!Kinds, Holding, Making
<1>2. UNCHANGED <<index, orphan, lock, saved, revived, cut>>
  BY DEF P!Devices, P!history
<1>3. CASE Archive \ store[d].docs = {}
  <2>1. PICK o : o = [w EXCEPT !.at = "list"]
    OBVIOUS
  <2>2. /\ o \in P!Tabled /\ o.at = "list" /\ o.kind = "import" /\ o.on = w.on
        /\ o.makes = w.makes
    <3>1. GoesTo(w, "list", o)
      BY <1>0, <1>1, <2>1, AtTyped, StagesAre, Zenon
    <3> QED BY <1>0, <1>1, <2>1, <3>1, Zenon DEF GoesTo
  <2>3. work' = [work EXCEPT ![t] = o] /\ UNCHANGED store
    <3>1. P!Advance(w) = o
      BY <1>1, <2>1, StepsImport
    <3> QED BY <1>3, <3>1 DEF P!Devices, P!On
  <2>4. OpShape(o) /\ MakesSound(o) /\ OthersSound(o) /\ Making(o) /\ ~Holding(o)
    BY <1>0, <1>1, <1>3, <2>2 DEF OpShape, MakesSound, OthersSound, Making, Holding
  <2> QED BY <1>1, <1>2, <2>2, <2>3, <2>4, GoesOnKeeps
<1>4. CASE Archive \ store[d].docs # {}
  <2>1. PICK doc \in Archive : store' = [store EXCEPT ![d].docs = @ \cup {doc}]
    BY <1>4 DEF P!Devices
  <2>2. PICK db : db = [store[d] EXCEPT !.docs = @ \cup {doc}]
    OBVIOUS
  <2>3. /\ db \in Database /\ db.there = store[d].there /\ db.keyed = store[d].keyed
        /\ db.titled = store[d].titled
        /\ db.docs = store[d].docs \cup {doc} /\ db.plain = store[d].plain
    BY <1>1, <2>2 DEF ProjectsInv, ProjectsTyped, Database
  <2>4. store' = [store EXCEPT ![d] = db] /\ store'[d] = db
    BY <1>1, <2>1, <2>2 DEF ProjectsInv, ProjectsTyped
  <2>5. db.plain = {} /\ db.there
    BY <1>0, <1>1, <2>3 DEF ProjectsInv, StoreSound, MakesSound
  <2>6. work' = [work EXCEPT ![t] = w]
    BY <1>4 DEF P!Devices, ProjectsInv, ProjectsTyped
  <2>7. MakesSound(w)'
    BY <1>0, <1>1, <1>2, <2>3, <2>4, <2>6 DEF MakesSound, Making, ProjectsInv, ProjectsTyped
  <2>8. PICK o : o = w
    OBVIOUS
  <2>9. MakesSound(o)'
    BY <1>0, <1>1, <1>2, <2>3, <2>4, <2>8 DEF MakesSound, Making
  <2> QED BY <1>0, <1>1, <1>2, <2>3, <2>4, <2>5, <2>6, <2>8, <2>9, MakingKeeps
<1> QED BY <1>3, <1>4

LEMMA SealKeeps ==
  ASSUME ProjectsInv, NEW t \in Tabs, P!Seal(t)
  PROVE  ProjectsInv'
<1> DEFINE w == work[t]
<1>0. w \in P!Tabled /\ OpShape(w) /\ OthersSound(w) /\ w.kind \in P!Kinds
  BY WorkTyped
<1>1. /\ w.at = "seal" /\ w.kind = "adopt" /\ ~Holding(w) /\ ~Making(w) /\ w.on = Legacy
      /\ Legacy \in P!Databases
  BY <1>0, IdleShape, ProjectsConstants DEF P!Seal, OpShape, P!Kinds, Holding, Making
<1>2. UNCHANGED <<index, orphan, lock, saved, revived, cut>>
  BY DEF P!Seal, P!history
<1>3. CASE store[Legacy].plain = {}
  <2>1. PICK o : o = [w EXCEPT !.at = "list"]
    OBVIOUS
  <2>2. /\ o \in P!Tabled /\ o.at = "list" /\ o.kind = "adopt" /\ o.on = w.on
        /\ o.makes = w.makes
    <3>1. GoesTo(w, "list", o)
      BY <1>0, <1>1, <2>1, AtTyped, StagesAre, Zenon
    <3> QED BY <1>0, <1>1, <2>1, <3>1, Zenon DEF GoesTo
  <2>3. work' = [work EXCEPT ![t] = o] /\ UNCHANGED store
    <3>1. P!Advance(w) = o
      BY <1>1, <2>1, StepsAdopt
    <3> QED BY <1>3, <3>1 DEF P!Seal, P!On
  <2>4. OpShape(o) /\ MakesSound(o) /\ OthersSound(o) /\ ~Making(o) /\ ~Holding(o)
    BY <1>0, <1>1, <1>3, <2>2 DEF OpShape, MakesSound, OthersSound, Making, Holding
  <2> QED BY <1>1, <1>2, <2>2, <2>3, <2>4, GoesOnKeeps
<1>4. CASE store[Legacy].plain # {}
  <2>1. PICK doc \in store[Legacy].plain : store' = [store EXCEPT ![Legacy].plain = @ \ {doc}]
    BY <1>4 DEF P!Seal
  <2>2. PICK db : db = [store[Legacy] EXCEPT !.plain = @ \ {doc}]
    OBVIOUS
  <2>3. /\ db \in Database /\ db.there = store[Legacy].there /\ db.keyed = store[Legacy].keyed
        /\ db.titled = store[Legacy].titled
        /\ db.docs = store[Legacy].docs /\ db.plain \subseteq store[Legacy].plain
    BY <1>1, <2>2 DEF ProjectsInv, ProjectsTyped, Database
  <2>4. store' = [store EXCEPT ![Legacy] = db] /\ store'[Legacy] = db
    BY <1>1, <2>1, <2>2 DEF ProjectsInv, ProjectsTyped
  <2>5. store[Legacy].there
    BY <1>1, <1>4, AbsentTyped DEF ProjectsInv, StoreSound
  <2>6. PICK o : o = w
    OBVIOUS
  <2>7. work' = [work EXCEPT ![t] = o]
    BY <1>4, <2>6 DEF P!Seal, ProjectsInv, ProjectsTyped
  <2>8. OthersSound(o)'
    BY <1>0, <1>1, <1>2, <2>3, <2>4, <2>6 DEF OthersSound
  <2> QED BY <1>0, <1>1, <1>2, <2>3, <2>4, <2>5, <2>6, <2>7, <2>8, RewriteKeeps
<1> QED BY <1>3, <1>4

LEMMA CopyOverKeeps ==
  ASSUME ProjectsInv, NEW t \in Tabs, P!CopyOver(t)
  PROVE  ProjectsInv'
<1> DEFINE w == work[t]
           d == w.makes
<1>0. w \in P!Tabled /\ OpShape(w) /\ MakesSound(w) /\ OthersSound(w) /\ w.kind \in P!Kinds
  BY WorkTyped
<1>1. /\ w.at = "copy" /\ w.kind = "detach" /\ ~Holding(w) /\ Making(w) /\ w.on = Copy
      /\ d \in Fresh /\ d \in P!Databases /\ d # Legacy /\ d # Copy /\ Copy \in P!Databases
  BY <1>0, IdleShape, ProjectsConstants DEF P!CopyOver, OpShape, P!Kinds, Holding, Making
<1>2. UNCHANGED <<index, orphan, lock, saved, revived, cut>> /\ store[Copy].there
  BY <1>1 DEF P!CopyOver, P!history
<1>3. PICK o : o = [w EXCEPT !.at = "title"]
  OBVIOUS
<1>4. /\ o \in P!Tabled /\ o.at = "title" /\ o.kind = "detach" /\ o.on = Copy
      /\ o.makes = d /\ o.before = w.before
  BY <1>0, <1>1, <1>3 DEF P!Tabled
<1>5. work' = [work EXCEPT ![t] = o]
  <2>1. P!Advance(w) = o
    BY <1>1, <1>3, StepsDetach
  <2> QED BY <2>1 DEF P!CopyOver, P!On
<1>6. PICK db : db = [store[d] EXCEPT !.there = TRUE, !.keyed = store[Copy].keyed,
                                      !.docs = @ \cup store[Copy].docs]
  OBVIOUS
<1>7. /\ db \in Database /\ db.there /\ db.keyed /\ db.docs = store[d].docs \cup store[Copy].docs
      /\ db.plain = {}
  <2>1. store[d] \in Database /\ store[Copy] \in Database
    BY <1>1 DEF ProjectsInv, ProjectsTyped
  <2>2. store[Copy].keyed /\ store[d].plain = {}
    BY <1>1, <1>2 DEF ProjectsInv, StoreSound
  <2> HIDE DEF d
  <2> QED BY <1>6, <2>1, <2>2 DEF Database
<1>8. store' = [store EXCEPT ![d] = db] /\ store'[d] = db /\ store'[Copy] = store[Copy]
  BY <1>1, <1>6 DEF P!CopyOver, ProjectsInv, ProjectsTyped, Database
<1>9. OpShape(o) /\ Making(o) /\ ~Holding(o)
  BY <1>0, <1>1, <1>4 DEF OpShape, Making, Holding
<1>10. MakesSound(o)'
  <2>1. store[Copy].docs \subseteq Docs
    BY <1>1, ProjectsAssumption DEF ProjectsInv, StoreSound
  <2> QED BY <1>0, <1>1, <1>2, <1>4, <1>7, <1>8, <2>1 DEF MakesSound, Making
<1> QED BY <1>1, <1>2, <1>4, <1>5, <1>7, <1>8, <1>9, <1>10, MakingKeeps

LEMMA DiscardKeeps ==
  ASSUME ProjectsInv, NEW t \in Tabs, P!Discard(t)
  PROVE  ProjectsInv'
<1> DEFINE w == work[t]
<1>0. w \in P!Tabled /\ OpShape(w) /\ MakesSound(w) /\ w.kind \in P!Kinds
  BY WorkTyped
<1>1. w.at = "discard" /\ w.kind \in {"import", "detach"} /\ ~Holding(w) /\ Making(w)
  BY <1>0, IdleShape DEF P!Discard, OpShape, P!Kinds, Holding, Making
<1>2. UNCHANGED <<index, orphan, lock, saved, revived, cut>> /\ P!HalfDone(t) = {}
      /\ work' = [work EXCEPT ![t] = P!Idle]
  BY <1>1 DEF P!Discard, P!history, P!HalfDone
<1>3. CASE UNCHANGED store
  BY <1>1, <1>2, <1>3, EndKeeps
<1>4. CASE store' = [store EXCEPT ![w.makes] = P!Absent]
  <2>1. PICK o : o = P!Idle
    OBVIOUS
  <2>2. OpShape(o) /\ o \in P!Tabled /\ ~Holding(o) /\ o.kind = "none"
    BY <2>1, IdleShape DEF Holding
  <2>3. MakesSound(o)'
    BY <2>2, IdleShape, <2>1 DEF MakesSound, Making
  <2>4. PICK db : db = P!Absent
    OBVIOUS
  <2>5. db \in Database /\ db.plain = {}
    BY <2>4, AbsentTyped
  <2> QED BY <1>1, <1>2, <1>4, <2>1, <2>2, <2>3, <2>4, <2>5, MakingKeeps
<1> QED BY <1>3, <1>4 DEF P!Discard

\* A device is saved: nobody is making the database, and nobody holds its lock.
LEMMA SaveKeeps ==
  ASSUME ProjectsInv, NEW d \in P!Databases, NEW doc \in Docs, P!Save(d, doc)
  PROVE  ProjectsInv'
<1>1. /\ d \in index /\ store[d].there /\ lock[d] = None /\ doc \notin saved
      /\ \A e \in P!Databases : doc \notin store[e].docs
      /\ saved' = saved \cup {doc}
      /\ UNCHANGED <<index, orphan, work, lock, revived, cut>>
  BY DEF P!Save, P!Writable
<1>2. PICK db : db = [store[d] EXCEPT !.docs = @ \cup {doc}]
  OBVIOUS
<1>3. /\ db \in Database /\ db.there = store[d].there /\ db.keyed = store[d].keyed
      /\ db.titled = store[d].titled
      /\ db.docs = store[d].docs \cup {doc} /\ db.plain = store[d].plain
  BY <1>2 DEF ProjectsInv, ProjectsTyped, Database
<1>4. /\ store' = [store EXCEPT ![d] = db] /\ store'[d] = db
      /\ \A e \in P!Databases : e # d => store'[e] = store[e]
  BY <1>2 DEF P!Save, ProjectsInv, ProjectsTyped
<1>5. /\ ProjectsTyped' /\ LocksSound' /\ Subjects' = Subjects /\ Solid' = Solid
      /\ Detaching' = Detaching /\ \A t \in Tabs : ItsOwn(t)'
  BY <1>1, <1>3, <1>4
     DEF ProjectsInv, ProjectsTyped, LocksSound, Subjects, Solid, Detaching, ItsOwn
<1>6. ASSUME NEW t \in Tabs, Holding(work[t]) PROVE work[t].on # d
  BY <1>1, <1>6, ProjectsConstants DEF ProjectsInv, LocksSound
<1>7. ASSUME NEW t \in Tabs PROVE MakesSound(work[t])' /\ OthersSound(work[t])'
  <2>0. work[t] \in P!Tabled /\ OpShape(work[t]) /\ MakesSound(work[t]) /\ OthersSound(work[t])
    BY WorkTyped
  <2>1. Making(work[t]) => work[t].makes # d /\ work[t].makes \in P!Databases
    BY <1>1, <2>0, ProjectsConstants DEF ProjectsInv, ItsOwn, OpShape, Making
  <2>2. Making(work[t]) => /\ store'[work[t].makes] = store[work[t].makes]
                           /\ doc \notin store[work[t].makes].docs
    BY <1>1, <1>4, <2>1
  <2>3. /\ store[Copy].docs \subseteq store'[Copy].docs
        /\ store'[Copy].there = store[Copy].there
        /\ Holding(work[t]) /\ work[t].on = Copy => store'[Copy] = store[Copy]
    BY <1>3, <1>4, <1>6, ProjectsConstants
  <2>4. MakesSound(work[t])'
    BY <1>1, <2>0, <2>2, <2>3 DEF MakesSound, Making, Holding, OpShape
  <2>5. OthersSound(work[t])'
    <3>1. Holding(work[t]) => store'[work[t].on] = store[work[t].on]
      BY <1>4, <1>6, <2>0, ProjectsConstants DEF OpShape, Holding
    <3>2. /\ store'[Legacy].there = store[Legacy].there /\ store'[Legacy].keyed = store[Legacy].keyed
          /\ store'[Legacy].titled = store[Legacy].titled
          /\ store'[Legacy].plain = store[Legacy].plain
      BY <1>3, <1>4, ProjectsConstants
    <3> QED BY <1>1, <2>0, <3>1, <3>2 DEF OthersSound, Holding
  <2> QED BY <2>4, <2>5
<1>8. (\A e \in P!Databases : StoreSound(e))'
  <2> SUFFICES ASSUME NEW e \in P!Databases PROVE StoreSound(e)'
    OBVIOUS
  <2>1. StoreSound(e)
    BY DEF ProjectsInv
  <2>2. CASE e = d
    <3>1. store'[e].plain \subseteq store'[e].docs /\ store'[e].there
      BY <1>1, <1>3, <1>4, <2>1, <2>2 DEF StoreSound
    <3>2. e # Legacy => store'[e].plain = {}
      BY <1>3, <1>4, <2>1, <2>2 DEF StoreSound
    <3>3. e \notin Fresh => store'[e].docs \subseteq Docs
      BY <1>3, <1>4, <2>1, <2>2 DEF StoreSound
    <3>4. e = Copy => store'[e].keyed /\ store'[e].titled
      BY <1>1, <1>3, <1>4, <2>1, <2>2 DEF StoreSound
    <3> QED BY <3>1, <3>2, <3>3, <3>4 DEF StoreSound
  <2>3. CASE e # d
    <3>1. store'[e] = store[e]
      BY <1>4, <2>3
    <3> QED BY <2>1, <3>1 DEF StoreSound
  <2> QED BY <2>2, <2>3
<1>9. NothingLost'
  <2>1. d \in Solid
    BY <1>1 DEF Solid, ProjectsInv, ItsOwn
  <2>2. \A e \in P!Databases : store[e].docs \subseteq store'[e].docs
    BY <1>3, <1>4
  <2>3. \A e \in saved' : \E f \in Solid : e \in store'[f].docs
    BY <1>1, <1>3, <1>4, <2>1, <2>2 DEF ProjectsInv, NothingLost, Solid
  <2>4. ASSUME NEW t \in Tabs, work[t].kind = "detach", work[t].at \in {"unlist", "destroy"},
               NEW e \in saved' \cap store'[Copy].docs
        PROVE  \E f \in Solid \ {Copy} : e \in store'[f].docs
    <3>1. d # Copy
      BY <1>6, <2>4 DEF Holding, ProjectsInv, ProjectsTyped, OpShape
    <3>2. e \in saved \cap store[Copy].docs
      BY <1>1, <1>4, <3>1, ProjectsConstants
    <3> QED BY <2>2, <2>4, <3>2 DEF ProjectsInv, NothingLost, Solid
  <2> QED BY <1>1, <1>5, <2>3, <2>4 DEF NothingLost
<1>10. NothingTwice'
  <2>1. ASSUME NEW e \in P!Databases, NEW f \in P!Databases, e # f, Apart(e, f)
        PROVE  Apart(e, f)'
    BY <1>1, <1>3, <1>4, <2>1 DEF Apart
  <2> QED BY <1>1, <1>5, <2>1 DEF ProjectsInv, NothingTwice
<1>11. (\A e \in Subjects \cap P!LocalOnly : WholeProject(e))'
  <2>1. ASSUME NEW e \in Subjects \cap P!LocalOnly PROVE WholeProject(e)'
    BY <1>1, <1>3, <1>4, <2>1, ProjectsConstants DEF ProjectsInv, WholeProject
  <2> QED BY <1>5, <2>1
<1> QED BY <1>5, <1>7, <1>8, <1>9, <1>10, <1>11 DEF ProjectsInv

\* The projects a sign-out keeps are listed again.
LEMMA RelistKeeps ==
  ASSUME ProjectsInv, NEW t \in Tabs, P!Relist(t)
  PROVE  ProjectsInv'
<1> DEFINE w == work[t]
<1>0. w \in P!Tabled /\ OpShape(w) /\ w.kind \in P!Kinds
  BY WorkTyped
<1>1. w.at = "relist" /\ w.kind = "signOut" /\ ~Making(w) /\ ~Holding(w) /\ Keeps(w) = w.before
      /\ w.before \subseteq P!LocalOnly
  BY <1>0, IdleShape DEF P!Relist, OpShape, P!Kinds, Making, Holding, Keeps
<1>2. UNCHANGED <<store, orphan, lock, saved, revived, cut>>
  BY DEF P!Relist, P!history
<1>3. CASE w.before = {}
  <2>1. work' = [work EXCEPT ![t] = P!Idle] /\ UNCHANGED index
    BY <1>1, <1>3, StepsSignOut DEF P!Relist, P!On
  <2>2. P!HalfDone(t) = {}
    BY <1>1, <1>3 DEF P!HalfDone
  <2> QED BY <1>1, <1>2, <2>1, <2>2, EndKeeps
<1>4. CASE w.before # {}
  <2>1. PICK d \in w.before : /\ index' = index \cup {d}
                              /\ work' = [work EXCEPT ![t].before = @ \ {d}]
    BY <1>4 DEF P!Relist
  <2>2. PICK o : o = [w EXCEPT !.before = @ \ {d}]
    OBVIOUS
  <2>3. /\ o \in P!Tabled /\ o.at = "relist" /\ o.kind = "signOut" /\ o.on = w.on
        /\ o.makes = w.makes /\ o.before = w.before \ {d}
    BY <1>0, <1>1, <2>2 DEF P!Tabled
  <2>4. OpShape(o) /\ ~Making(o) /\ ~Holding(o) /\ Keeps(o) = w.before \ {d}
    BY <1>0, <1>1, <2>3 DEF OpShape, Making, Holding, Keeps
  <2>5. work' = [work EXCEPT ![t] = o] /\ work'[t] = o
        /\ \A u \in Tabs \ {t} : work'[u] = work[u]
    BY <2>1, <2>2 DEF ProjectsInv, ProjectsTyped
  <2>6. d \in P!Databases /\ d # Copy /\ d \in P!LocalOnly
    BY <1>1, <2>1, ProjectsConstants
  <2>7. ProjectsTyped' /\ LocksSound'
    <3>1. \A u \in Tabs : OpShape(work'[u]) /\ work'[u] \in P!Tabled
      BY <2>3, <2>4, <2>5 DEF ProjectsInv, ProjectsTyped
    <3>2. ProjectsTyped'
      BY <1>2, <2>1, <2>5, <2>6, <3>1 DEF ProjectsInv, ProjectsTyped, OpShape
    <3>3. \A u \in Tabs : /\ Holding(work'[u]) <=> Holding(work[u])
                          /\ Holding(work[u]) => work'[u] = work[u]
      BY <1>1, <2>4, <2>5
    <3>4. LocksSound'
      BY <1>2, <3>3 DEF ProjectsInv, ProjectsTyped, LocksSound
    <3> QED BY <3>2, <3>4
  <2>8. ASSUME NEW u \in Tabs PROVE ItsOwn(u)'
    <3>1. CASE u = t
      BY <2>4, <2>5, <3>1 DEF ItsOwn
    <3>2. CASE u # t
      <4>1. Making(work[u]) =>
              /\ work[u].makes \notin index
              /\ \A v \in Tabs \ {u} : work[u].makes \notin {work[v].makes, work[v].on}
                                                            \cup Keeps(work[v])
        BY DEF ProjectsInv, ItsOwn
      <4>2. Making(work[u]) => work[u].makes # d
        BY <1>1, <2>1, <3>2, <4>1
      <4>3. \A v \in Tabs : {work'[v].makes, work'[v].on} \cup Keeps(work'[v])
                                \subseteq {work[v].makes, work[v].on} \cup Keeps(work[v])
        BY <1>1, <2>3, <2>4, <2>5
      <4> QED BY <2>1, <2>5, <3>2, <4>1, <4>2, <4>3 DEF ItsOwn
    <3> QED BY <3>1, <3>2
  <2>9. Copy \in index' <=> Copy \in index
    BY <2>1, <2>6
  <2>10. ASSUME NEW u \in Tabs PROVE MakesSound(work[u])' /\ OthersSound(work[u])'
    <3>1. CASE u = t
      BY <2>3, <2>4, <2>5, <3>1 DEF MakesSound, OthersSound, Making
    <3>2. CASE u # t
      BY <1>2, <2>5, <2>9, <3>2 DEF ProjectsInv, MakesSound, OthersSound, Making
    <3> QED BY <3>1, <3>2
  <2>11. (\A e \in P!Databases : StoreSound(e))'
    BY <1>2 DEF ProjectsInv, StoreSound
  <2>12. Subjects' \subseteq Subjects /\ (Detaching => Detaching')
    <3>1. \A u \in Tabs : /\ Keeps(work'[u]) \subseteq Keeps(work[u])
                          /\ work'[u].kind \in {"rename", "setClient", "detach"} => work'[u] = work[u]
      BY <1>1, <2>3, <2>4, <2>5
    <3>2. ASSUME NEW e \in Subjects' PROVE e \in Subjects
      <4>1. \/ e \in index'
            \/ \E u \in Tabs : e = work'[u].on /\ work'[u].kind \in {"rename", "setClient"}
            \/ \E u \in Tabs : e \in Keeps(work'[u])
        BY DEF Subjects, Keeps
      <4>2. d \in Keeps(work[t])
        BY <1>1, <2>1
      <4> QED BY <2>1, <3>1, <4>1, <4>2 DEF Subjects
    <3>3. Detaching => Detaching'
      BY <1>1, <2>5 DEF Detaching
    <3> QED BY <3>2, <3>3
  <2>13. NothingLost'
    <3>1. Solid \subseteq Solid'
      <4>1. ASSUME NEW e \in Solid PROVE e \in Solid'
        <5>1. \A u \in Tabs : Making(work'[u]) => e # work'[u].makes
          BY <2>4, <2>5 DEF Solid
        <5>2. \/ e \in index' \cup {Legacy} \cup cut'
              \/ \E u \in Tabs : work'[u].at = "relist" /\ e \in work'[u].before
          BY <1>2, <2>1, <2>3, <2>5 DEF Solid
        <5> QED BY <5>1, <5>2 DEF Solid
      <4> QED BY <4>1
    <3>2. \A u \in Tabs : work'[u].kind = "detach" => work'[u] = work[u]
      BY <2>3, <2>5
    <3> QED BY <1>2, <3>1, <3>2 DEF ProjectsInv, NothingLost
  <2>14. NothingTwice'
    BY <1>2, <2>9, <2>12 DEF ProjectsInv, NothingTwice, Apart
  <2>15. (\A e \in Subjects \cap P!LocalOnly : WholeProject(e))'
    BY <1>2, <2>12 DEF ProjectsInv, WholeProject
  <2> QED BY <2>7, <2>8, <2>10, <2>11, <2>13, <2>14, <2>15 DEF ProjectsInv
<1> QED BY <1>3, <1>4

\* mm-local and the copies are gone, but for the entries read before.
LEMMA ClearKeeps ==
  ASSUME ProjectsInv, NEW t \in Tabs, P!Clear(t)
  PROVE  ProjectsInv'
<1> DEFINE w == work[t]
<1>0. w \in P!Tabled /\ OpShape(w) /\ w.kind \in P!Kinds /\ Copy \in P!Databases
      /\ P!Absent \in Database
  BY WorkTyped, ProjectsConstants, AbsentTyped
<1>1. w.at = "clear" /\ w.kind = "signOut" /\ ~Making(w) /\ ~Holding(w)
  BY <1>0, IdleShape DEF P!Clear, OpShape, P!Kinds, Making, Holding
<1>2. /\ UNCHANGED <<lock, revived>> /\ index' = {} /\ orphan' = {}
      /\ store' = [store EXCEPT ![Copy] = P!Absent] /\ saved' = saved \ store[Copy].docs
      /\ cut' = cut \cup ((index \cap P!LocalOnly) \ w.before)
  BY DEF P!Clear
<1>3. PICK o : o = [w EXCEPT !.at = "relist"]
  OBVIOUS
<1>4. /\ o \in P!Tabled /\ o.at = "relist" /\ o.kind = "signOut" /\ o.on = w.on
      /\ o.makes = w.makes /\ o.before = w.before
  BY <1>0, <1>1, <1>3 DEF P!Tabled
<1>5. OpShape(o) /\ ~Making(o) /\ ~Holding(o) /\ Keeps(o) = Keeps(w)
  BY <1>0, <1>1, <1>4 DEF OpShape, Making, Holding, Keeps
<1>6. work' = [work EXCEPT ![t] = o] /\ work'[t] = o
      /\ \A u \in Tabs \ {t} : work'[u] = work[u]
  <2>1. P!Advance(w) = o
    BY <1>1, <1>3, StepsSignOut
  <2> QED BY <2>1 DEF P!Clear, P!On, ProjectsInv, ProjectsTyped
<1>7. /\ store'[Copy] = P!Absent /\ ~store'[Copy].there /\ store'[Copy].docs = {}
      /\ store'[Copy].plain = {} /\ \A d \in P!Databases : d # Copy => store'[d] = store[d]
      /\ store' \in [P!Databases -> Database]
  BY <1>0, <1>2, AbsentTyped DEF ProjectsInv, ProjectsTyped
<1>8. \A u \in Tabs : /\ Holding(work'[u]) <=> Holding(work[u])
                      /\ Making(work'[u]) <=> Making(work[u])
                      /\ Holding(work[u]) \/ Making(work[u]) => work'[u] = work[u]
                      /\ work'[u].makes = work[u].makes /\ work'[u].on = work[u].on
                      /\ Keeps(work'[u]) = Keeps(work[u])
                      /\ work'[u].kind = work[u].kind
                      /\ work'[u] = work[u] \/ work'[u].kind = "signOut"
  BY <1>1, <1>4, <1>5, <1>6
<1>9. ProjectsTyped'
  <2>1. \A u \in Tabs : OpShape(work'[u]) /\ work'[u] \in P!Tabled
    BY <1>4, <1>5, <1>6 DEF ProjectsInv, ProjectsTyped
  <2> QED BY <1>2, <1>6, <1>7, <2>1 DEF ProjectsInv, ProjectsTyped, OpShape
<1>10. LocksSound'
  BY <1>2, <1>8 DEF ProjectsInv, ProjectsTyped, LocksSound
<1>11. ASSUME NEW u \in Tabs PROVE ItsOwn(u)'
  BY <1>2, <1>8 DEF ProjectsInv, ItsOwn
<1>12. ASSUME NEW u \in Tabs PROVE MakesSound(work[u])' /\ OthersSound(work[u])'
  <2>0. OpShape(work[u]) /\ MakesSound(work[u]) /\ OthersSound(work[u])
    BY WorkTyped
  <2>1. Making(work[u]) => store'[work[u].makes] = store[work[u].makes]
    BY <1>7, <2>0, ProjectsConstants DEF OpShape, Making
  <2>2. CASE work'[u] = work[u]
    <3>1. MakesSound(work[u])'
      BY <1>2, <1>7, <2>0, <2>1, <2>2 DEF MakesSound, Making
    <3>2. OthersSound(work[u])'
      <4>1. work[u].kind = "delete" => store'[work[u].on].docs \subseteq store[work[u].on].docs
        BY <1>7, <2>0 DEF OpShape
      <4>2. store'[Legacy] = store[Legacy]
        BY <1>7, ProjectsConstants
      <4> QED BY <1>2, <2>0, <2>2, <4>1, <4>2 DEF OthersSound
    <3> QED BY <3>1, <3>2
  <2>3. CASE work'[u].kind = "signOut"
    BY <2>3 DEF MakesSound, OthersSound, Making
  <2> QED BY <1>8, <2>2, <2>3
<1>13. (\A d \in P!Databases : StoreSound(d))'
  BY <1>7 DEF ProjectsInv, StoreSound
<1>14. ASSUME NEW d \in Subjects' PROVE d \in Subjects
  <2>1. \/ \E u \in Tabs : d = work'[u].on /\ work'[u].kind \in {"rename", "setClient"}
        \/ \E u \in Tabs : d \in Keeps(work'[u])
    BY <1>2 DEF Subjects, Keeps
  <2> QED BY <1>8, <2>1 DEF Subjects
<1>15. NothingLost'
  <2>1. ASSUME NEW d \in Solid, d # Copy PROVE d \in Solid'
    <3>1. \A u \in Tabs : Making(work'[u]) => d # work'[u].makes
      BY <1>8 DEF Solid
    <3>2. \/ d \in index' \cup {Legacy} \cup cut'
          \/ \E u \in Tabs : work'[u].at = "relist" /\ d \in work'[u].before
      <4>1. CASE d \in index
        <5>1. d \in P!LocalOnly
          BY <2>1, ProjectsConstants DEF Solid
        <5> QED BY <1>2, <1>4, <1>6, <4>1, <5>1
      <4>2. CASE d \in {Legacy} \cup cut
        BY <1>2, <4>2
      <4>3. ASSUME NEW u \in Tabs, work[u].at = "relist", d \in work[u].before
            PROVE  work'[u].at = "relist" /\ d \in work'[u].before
        BY <1>1, <1>6, <4>3
      <4> QED BY <4>1, <4>2, <4>3 DEF Solid
    <3> QED BY <3>1, <3>2 DEF Solid
  <2>2. ASSUME NEW doc \in saved' PROVE \E d \in Solid' : doc \in store'[d].docs
    <3>1. doc \in saved /\ doc \notin store[Copy].docs
      BY <1>2
    <3>2. PICK d \in Solid : doc \in store[d].docs
      BY <3>1 DEF ProjectsInv, NothingLost
    <3>3. d # Copy /\ store'[d] = store[d]
      BY <1>7, <3>1, <3>2 DEF Solid
    <3> QED BY <2>1, <3>2, <3>3
  <2> QED BY <1>7, <2>2 DEF NothingLost
<1>16. NothingTwice'
  BY <1>2, <1>7, <1>14 DEF ProjectsInv, NothingTwice, Apart
<1>17. (\A d \in Subjects \cap P!LocalOnly : WholeProject(d))'
  <2>1. ASSUME NEW d \in Subjects \cap P!LocalOnly PROVE WholeProject(d)'
    BY <1>2, <1>7, <2>1, ProjectsConstants DEF ProjectsInv, WholeProject
  <2> QED BY <1>14, <2>1
<1> QED BY <1>9, <1>10, <1>11, <1>12, <1>13, <1>15, <1>16, <1>17 DEF ProjectsInv

\* A database is destroyed under its lock.
LEMMA DestroyKeeps ==
  ASSUME ProjectsInv, NEW t \in Tabs, P!Destroy(t)
  PROVE  ProjectsInv'
<1> DEFINE w == work[t]
           d == w.on
<1>0. w \in P!Tabled /\ OpShape(w) /\ OthersSound(w) /\ w.kind \in P!Kinds
      /\ P!Absent \in Database
  BY WorkTyped, AbsentTyped
<1>1. /\ w.at = "destroy" /\ w.kind \in {"delete", "detach"} /\ Holding(w) /\ ~Making(w)
      /\ d \in P!Databases /\ (w.kind = "detach" => d = Copy /\ Copy \notin index)
  BY <1>0, IdleShape, ProjectsConstants
     DEF P!Destroy, OpShape, P!Kinds, Making, Holding, OthersSound
<1>2. /\ UNCHANGED <<index, orphan, revived, cut>>
      /\ \/ store' = [store EXCEPT ![d] = P!Absent]
         \/ w.kind = "detach" /\ UNCHANGED store
      /\ saved' = IF w.kind = "delete" THEN saved \ store[d].docs ELSE saved
      /\ IF w.kind = "detach" THEN P!Release(t) ELSE UNCHANGED lock
  BY DEF P!Destroy
<1>3. PICK o : o = IF w.kind = "delete" THEN [w EXCEPT !.at = "unlist"] ELSE P!Idle
  OBVIOUS
<1>4. /\ o \in P!Tabled /\ OpShape(o) /\ ~Making(o) /\ Keeps(o) = {}
      /\ w.kind = "delete" => o.at = "unlist" /\ o.kind = "delete" /\ o.on = d /\ Holding(o)
      /\ w.kind = "detach" => o = P!Idle /\ ~Holding(o)
      /\ {o.makes, o.on} \subseteq {None, w.makes, w.on} /\ o.at # "relist"
      /\ o.kind \in {"none", "delete"}
  <2>1. CASE w.kind = "delete"
    <3>1. o \in P!Tabled /\ o.at = "unlist" /\ o.kind = "delete" /\ o.on = d /\ o.makes = w.makes
      BY <1>0, <1>3, <2>1 DEF P!Tabled
    <3>2. OpShape(o)
      BY <1>0, <2>1, <3>1 DEF OpShape
    <3> QED BY <2>1, <3>1, <3>2 DEF Making, Holding, Keeps
  <2>2. CASE w.kind = "detach"
    BY <1>3, <2>2, IdleShape DEF Making, Holding, Keeps, P!Idle
  <2> QED BY <1>1, <2>1, <2>2
<1>5. work' = [work EXCEPT ![t] = o] /\ work'[t] = o
      /\ \A u \in Tabs \ {t} : work'[u] = work[u]
  <2>1. P!Advance(w) = o
    BY <1>1, <1>3, StepsDelete, StepsDetach
  <2> QED BY <2>1 DEF P!Destroy, P!On, ProjectsInv, ProjectsTyped
<1>6. /\ store' \in [P!Databases -> Database]
      /\ \A e \in P!Databases : e # d => store'[e] = store[e]
      /\ store'[d] = P!Absent \/ (w.kind = "detach" /\ store'[d] = store[d])
  BY <1>0, <1>1, <1>2 DEF ProjectsInv, ProjectsTyped
<1>7. ~P!Absent.there /\ P!Absent.docs = {} /\ P!Absent.plain = {}
  BY AbsentTyped
<1>8. LocksSound' /\ lock' \in [P!Databases -> Tabs \cup {None}]
  <2>1. CASE w.kind = "delete"
    BY <1>1, <1>2, <1>4, <1>5, <2>1 DEF ProjectsInv, ProjectsTyped, LocksSound
  <2>2. CASE w.kind = "detach"
    BY <1>2, <1>4, <1>5, <2>2, ReleaseKeeps
  <2> QED BY <1>1, <2>1, <2>2
<1>9. ProjectsTyped'
  <2>1. \A u \in Tabs : OpShape(work'[u]) /\ work'[u] \in P!Tabled
    BY <1>4, <1>5 DEF ProjectsInv, ProjectsTyped
  <2> QED BY <1>2, <1>5, <1>6, <1>8, <2>1 DEF ProjectsInv, ProjectsTyped, OpShape
<1>10. ASSUME NEW u \in Tabs \ {t}, Holding(work[u]) PROVE work[u].on # d
  BY <1>1, <1>10 DEF ProjectsInv, LocksSound
<1>11. ASSUME NEW u \in Tabs PROVE ItsOwn(u)'
  <2>1. CASE u = t
    BY <1>4, <1>5, <2>1 DEF ItsOwn
  <2>2. CASE u # t
    <3>1. Making(work[u]) =>
             /\ work[u].makes \notin index /\ work[u].makes # None
             /\ \A v \in Tabs \ {u} : work[u].makes \notin {work[v].makes, work[v].on}
                                                           \cup Keeps(work[v])
      BY ProjectsConstants DEF ProjectsInv, ProjectsTyped, ItsOwn, OpShape, Making
    <3>2. \A v \in Tabs : {work'[v].makes, work'[v].on} \cup Keeps(work'[v])
                             \subseteq {None, work[v].makes, work[v].on} \cup Keeps(work[v])
      BY <1>4, <1>5
    <3> QED BY <1>2, <1>5, <2>2, <3>1, <3>2 DEF ItsOwn
  <2> QED BY <2>1, <2>2
<1>12. ASSUME NEW u \in Tabs PROVE MakesSound(work[u])' /\ OthersSound(work[u])'
  <2>1. CASE u = t
    BY <1>1, <1>4, <1>5, <1>6, <1>7, <2>1, IdleShape DEF MakesSound, OthersSound, Making
  <2>2. CASE u # t
    <3>0. OpShape(work[u]) /\ MakesSound(work[u]) /\ OthersSound(work[u]) /\ ItsOwn(u)
      BY WorkTyped
    <3>1. Making(work[u]) => store'[work[u].makes] = store[work[u].makes]
      BY <1>6, <2>2, <3>0, ProjectsConstants DEF OpShape, Making, ItsOwn
    <3>2. /\ store'[Copy].there => store'[Copy] = store[Copy]
          /\ Holding(work[u]) /\ work[u].on = Copy => store'[Copy] = store[Copy]
          /\ store'[Copy] = store[Copy]
             \/ (store'[Copy].docs = {} /\ (Copy \notin index \/ saved' = saved \ store[Copy].docs))
          /\ saved' \subseteq saved
      BY <1>1, <1>2, <1>6, <1>7, <1>10, <2>2, ProjectsConstants
    <3>3. MakesSound(work[u])'
      BY <1>2, <1>5, <2>2, <3>0, <3>1, <3>2 DEF MakesSound, Making, Holding, OpShape
    <3>4. OthersSound(work[u])'
      <4>1. work[u].kind = "delete" => store'[work[u].on].docs = store[work[u].on].docs
                                       \/ store'[work[u].on].docs = {}
        BY <1>6, <1>7, <3>0 DEF OpShape
      <4>2. store'[Legacy].there => store'[Legacy] = store[Legacy]
        BY <1>6, <1>7, ProjectsConstants
      <4> QED BY <1>2, <1>5, <2>2, <3>0, <4>1, <4>2 DEF OthersSound
    <3> QED BY <3>3, <3>4
  <2> QED BY <2>1, <2>2
<1>13. (\A e \in P!Databases : StoreSound(e))'
  BY <1>6, <1>7 DEF ProjectsInv, StoreSound
<1>14. ASSUME NEW e \in Subjects' PROVE e \in Subjects
  <2>1. \/ e \in index
        \/ \E u \in Tabs : e = work'[u].on /\ work'[u].kind \in {"rename", "setClient"}
        \/ \E u \in Tabs : e \in Keeps(work'[u])
    BY <1>2 DEF Subjects, Keeps
  <2>2. \A u \in Tabs : \/ work'[u] = work[u]
                        \/ Keeps(work'[u]) = {} /\ work'[u].kind \notin {"rename", "setClient"}
    BY <1>4, <1>5
  <2> QED BY <2>1, <2>2 DEF Subjects
<1>15. Solid \subseteq Solid'
  <2>1. ASSUME NEW e \in Solid PROVE e \in Solid'
    <3>1. \A u \in Tabs : Making(work'[u]) => e # work'[u].makes
      BY <1>4, <1>5 DEF Solid
    <3>2. \A u \in Tabs : work[u].at = "relist" => work'[u] = work[u]
      BY <1>1, <1>5
    <3> QED BY <1>2, <3>1, <3>2 DEF Solid
  <2> QED BY <2>1
<1>16. NothingLost'
  <2>1. ASSUME NEW doc \in saved'
        PROVE  \E e \in Solid : doc \in store'[e].docs
    <3>1. doc \in saved
      BY <1>2
    <3>2. CASE doc \notin store[d].docs
      <4>1. PICK e \in Solid : doc \in store[e].docs
        BY <3>1 DEF ProjectsInv, NothingLost
      <4> QED BY <1>6, <3>2, <4>1 DEF Solid
    <3>3. CASE doc \in store[d].docs
      <4>1. w.kind = "detach" /\ d = Copy
        BY <1>1, <1>2, <3>3
      <4>2. PICK e \in Solid \ {Copy} : doc \in store[e].docs
        BY <1>1, <3>1, <3>3, <4>1 DEF ProjectsInv, NothingLost
      <4> QED BY <1>6, <4>1, <4>2 DEF Solid
    <3> QED BY <3>2, <3>3
  <2>2. ASSUME NEW u \in Tabs, work'[u].kind = "detach", work'[u].at \in {"unlist", "destroy"},
               NEW doc \in saved' \cap store'[Copy].docs
        PROVE  \E e \in Solid \ {Copy} : doc \in store'[e].docs
    <3>1. u # t /\ work'[u] = work[u] /\ Holding(work[u]) /\ work[u].on = Copy
      BY <1>4, <1>5, <2>2 DEF Holding, ProjectsInv, ProjectsTyped, OpShape
    <3>2. d # Copy /\ doc \in store[Copy].docs /\ doc \in saved /\ w.kind = "delete"
      BY <1>1, <1>2, <1>6, <1>10, <2>2, <3>1, ProjectsConstants
    <3>3. doc \notin store[d].docs
      BY <1>2, <2>2, <3>2
    <3>4. PICK e \in Solid \ {Copy} : doc \in store[e].docs
      BY <2>2, <3>1, <3>2 DEF ProjectsInv, NothingLost
    <3> QED BY <1>6, <3>3, <3>4 DEF Solid
  <2> QED BY <1>15, <2>1, <2>2 DEF NothingLost
<1>17. NothingTwice'
  <2>1. Detaching => Detaching'
    BY <1>1, <1>5 DEF Detaching
  <2>2. ASSUME NEW e \in P!Databases, NEW f \in P!Databases, Apart(e, f) PROVE Apart(e, f)'
    <3>1. /\ store'[e].docs \subseteq store[e].docs /\ store'[f].docs \subseteq store[f].docs
          /\ saved' \subseteq saved
      BY <1>2, <1>6, <1>7
    <3> QED BY <2>2, <3>1 DEF Apart
  <2> QED BY <1>2, <1>14, <2>1, <2>2 DEF ProjectsInv, NothingTwice
<1>18. (\A e \in Subjects \cap P!LocalOnly : WholeProject(e))'
  <2>1. ASSUME NEW e \in Subjects \cap P!LocalOnly PROVE WholeProject(e)'
    BY <1>2, <1>6, <1>7, <2>1, ProjectsConstants DEF ProjectsInv, WholeProject
  <2> QED BY <1>14, <2>1
<1> QED BY <1>8, <1>9, <1>11, <1>12, <1>13, <1>16, <1>17, <1>18 DEF ProjectsInv

\* An entry is removed: of a database that is gone, or of a copy that was copied.
LEMMA UnlistKeeps ==
  ASSUME ProjectsInv, NEW t \in Tabs, P!Unlist(t)
  PROVE  ProjectsInv'
<1> DEFINE w == work[t]
           d == w.on
<1>0. w \in P!Tabled /\ OpShape(w) /\ OthersSound(w) /\ w.kind \in P!Kinds
  BY WorkTyped
<1>1. /\ w.at = "unlist" /\ w.kind \in {"delete", "detach"} /\ Holding(w) /\ ~Making(w)
      /\ d \in P!Databases /\ (w.kind = "detach" => d = Copy)
      /\ w.kind = "delete" => store[d].docs = {}
  BY <1>0, IdleShape, ProjectsConstants
     DEF P!Unlist, OpShape, P!Kinds, Making, Holding, OthersSound
<1>2. /\ UNCHANGED <<store, saved, revived, cut>>
      /\ index' = index \ {d} /\ orphan' = orphan \ {d}
      /\ IF w.kind = "delete" THEN P!Release(t) ELSE UNCHANGED lock
  BY DEF P!Unlist, P!history
<1>3. PICK o : o = IF w.kind = "detach" THEN [w EXCEPT !.at = "destroy"] ELSE P!Idle
  OBVIOUS
<1>4. /\ o \in P!Tabled /\ OpShape(o) /\ ~Making(o) /\ Keeps(o) = {}
      /\ w.kind = "detach" => o.at = "destroy" /\ o.kind = "detach" /\ o.on = d /\ Holding(o)
      /\ w.kind = "delete" => o = P!Idle /\ ~Holding(o)
      /\ {o.makes, o.on} \subseteq {None, w.makes, w.on} /\ o.at # "relist"
      /\ o.kind \in {"none", "detach"}
  <2>1. CASE w.kind = "detach"
    <3>1. o \in P!Tabled /\ o.at = "destroy" /\ o.kind = "detach" /\ o.on = d /\ o.makes = w.makes
      BY <1>0, <1>3, <2>1 DEF P!Tabled
    <3>2. OpShape(o)
      BY <1>0, <2>1, <3>1 DEF OpShape
    <3> QED BY <2>1, <3>1, <3>2 DEF Making, Holding, Keeps
  <2>2. CASE w.kind = "delete"
    BY <1>3, <2>2, IdleShape DEF Making, Holding, Keeps, P!Idle
  <2> QED BY <1>1, <2>1, <2>2
<1>5. work' = [work EXCEPT ![t] = o] /\ work'[t] = o
      /\ \A u \in Tabs \ {t} : work'[u] = work[u]
  <2>1. P!Advance(w) = o
    BY <1>1, <1>3, StepsDelete, StepsDetach
  <2> QED BY <2>1 DEF P!Unlist, P!On, ProjectsInv, ProjectsTyped
<1>6. LocksSound' /\ lock' \in [P!Databases -> Tabs \cup {None}]
  <2>1. CASE w.kind = "detach"
    BY <1>1, <1>2, <1>4, <1>5, <2>1 DEF ProjectsInv, ProjectsTyped, LocksSound
  <2>2. CASE w.kind = "delete"
    BY <1>2, <1>4, <1>5, <2>2, ReleaseKeeps
  <2> QED BY <1>1, <2>1, <2>2
<1>7. ProjectsTyped'
  <2>1. \A u \in Tabs : OpShape(work'[u]) /\ work'[u] \in P!Tabled
    BY <1>4, <1>5 DEF ProjectsInv, ProjectsTyped
  <2> QED BY <1>2, <1>5, <1>6, <2>1 DEF ProjectsInv, ProjectsTyped, OpShape
<1>8. ASSUME NEW u \in Tabs \ {t}, Holding(work[u]) PROVE work[u].on # d
  BY <1>1, <1>8 DEF ProjectsInv, LocksSound
<1>9. ASSUME NEW u \in Tabs PROVE ItsOwn(u)'
  <2>1. CASE u = t
    BY <1>4, <1>5, <2>1 DEF ItsOwn
  <2>2. CASE u # t
    <3>1. Making(work[u]) =>
             /\ work[u].makes \notin index /\ work[u].makes # None
             /\ \A v \in Tabs \ {u} : work[u].makes \notin {work[v].makes, work[v].on}
                                                           \cup Keeps(work[v])
      BY ProjectsConstants DEF ProjectsInv, ProjectsTyped, ItsOwn, OpShape, Making
    <3>2. \A v \in Tabs : {work'[v].makes, work'[v].on} \cup Keeps(work'[v])
                             \subseteq {None, work[v].makes, work[v].on} \cup Keeps(work[v])
      BY <1>4, <1>5
    <3> QED BY <1>2, <1>5, <2>2, <3>1, <3>2 DEF ItsOwn
  <2> QED BY <2>1, <2>2
<1>10. ASSUME NEW u \in Tabs PROVE MakesSound(work[u])' /\ OthersSound(work[u])'
  <2>1. CASE u = t
    BY <1>1, <1>2, <1>4, <1>5, <2>1, IdleShape DEF MakesSound, OthersSound, Making
  <2>2. CASE u # t
    <3>0. OpShape(work[u]) /\ MakesSound(work[u]) /\ OthersSound(work[u])
      BY WorkTyped
    <3>1. Holding(work[u]) /\ work[u].on = Copy => (Copy \in index' <=> Copy \in index)
      BY <1>2, <1>8, <2>2
    <3>2. MakesSound(work[u])'
      BY <1>2, <1>5, <2>2, <3>0, <3>1 DEF MakesSound, Making, Holding, OpShape
    <3>3. OthersSound(work[u])'
      BY <1>2, <1>5, <2>2, <3>0 DEF OthersSound
    <3> QED BY <3>2, <3>3
  <2> QED BY <2>1, <2>2
<1>11. (\A e \in P!Databases : StoreSound(e))'
  BY <1>2 DEF ProjectsInv, StoreSound
<1>12. ASSUME NEW e \in Subjects' PROVE e \in Subjects
  <2>1. \/ e \in index
        \/ \E u \in Tabs : e = work'[u].on /\ work'[u].kind \in {"rename", "setClient"}
        \/ \E u \in Tabs : e \in Keeps(work'[u])
    BY <1>2 DEF Subjects, Keeps
  <2>2. \A u \in Tabs : \/ work'[u] = work[u]
                        \/ Keeps(work'[u]) = {} /\ work'[u].kind \notin {"rename", "setClient"}
    BY <1>4, <1>5
  <2> QED BY <2>1, <2>2 DEF Subjects
<1>13. ASSUME NEW e \in Solid, e # d PROVE e \in Solid'
  <2>1. \A u \in Tabs : Making(work'[u]) => e # work'[u].makes
    BY <1>4, <1>5 DEF Solid
  <2>2. \A u \in Tabs : work[u].at = "relist" => work'[u] = work[u]
    BY <1>1, <1>5
  <2> QED BY <1>2, <1>13, <2>1, <2>2 DEF Solid
<1>14. NothingLost'
  <2>1. ASSUME NEW doc \in saved
        PROVE  \E e \in Solid : doc \in store[e].docs /\ e # d
    <3>1. PICK e \in Solid : doc \in store[e].docs
      BY DEF ProjectsInv, NothingLost
    <3>2. CASE e # d
      BY <3>1, <3>2
    <3>3. CASE e = d
      <4>1. w.kind = "detach" /\ d = Copy
        BY <1>1, <3>1, <3>3
      <4> QED BY <1>1, <3>1, <3>3, <4>1 DEF ProjectsInv, NothingLost
    <3> QED BY <3>2, <3>3
  <2>2. ASSUME NEW u \in Tabs, work'[u].kind = "detach", work'[u].at \in {"unlist", "destroy"},
               NEW doc \in saved \cap store[Copy].docs
        PROVE  \E e \in Solid \ {Copy} : doc \in store[e].docs /\ e # d
    <3>1. work[u].kind = "detach" /\ work[u].at \in {"unlist", "destroy"}
      BY IdleShape, <1>1, <1>4, <1>5, <2>2
    <3>2. PICK e \in Solid \ {Copy} : doc \in store[e].docs
      BY <3>1, <2>2 DEF ProjectsInv, NothingLost
    <3> QED BY <1>1, <3>2
  <2> QED BY <1>2, <1>13, <2>1, <2>2 DEF NothingLost
<1>15. NothingTwice'
  <2>1. Copy \notin index' \/ (Detaching => Detaching')
    BY <1>1, <1>2, <1>5 DEF Detaching
  <2> QED BY <1>2, <1>12, <2>1 DEF ProjectsInv, NothingTwice, Apart
<1>16. (\A e \in Subjects \cap P!LocalOnly : WholeProject(e))'
  BY <1>2, <1>12 DEF ProjectsInv, WholeProject
<1> QED BY <1>6, <1>7, <1>9, <1>10, <1>11, <1>14, <1>15, <1>16 DEF ProjectsInv

\* A project is listed: what was made is whole, and nothing of it is listed elsewhere.
LEMMA ListKeeps ==
  ASSUME ProjectsInv, NEW t \in Tabs, P!List(t)
  PROVE  ProjectsInv'
<1> DEFINE w == work[t]
           d == P!Target(w)
<1>0. w \in P!Tabled /\ OpShape(w) /\ OthersSound(w) /\ MakesSound(w) /\ ItsOwn(t)
      /\ w.kind \in P!Kinds
  BY WorkTyped
<1>1. /\ \/ w.at = "list" /\ w.kind \in {"create", "import", "detach", "adopt"}
         \/ w.at = "rewrite" /\ w.kind = "setClient"
      /\ w.at # "relist" /\ Keeps(w) = {}
  BY <1>0, IdleShape DEF P!List, OpShape, P!Kinds, Keeps
<1>2. /\ UNCHANGED <<store, lock, saved, revived, cut>>
      /\ index' = index \cup {d} /\ orphan' = orphan \ {d}
  BY DEF P!List, P!history
<1>3. /\ d \in P!LocalOnly /\ d \in P!Databases /\ d # Copy
      /\ w.kind \in {"create", "import", "detach"} => d = w.makes /\ d \in Fresh /\ Making(w)
      /\ w.kind = "adopt" => d = Legacy
      /\ w.kind = "setClient" => d = w.on
      /\ w.kind \in {"adopt", "setClient"} => ~Making(w) /\ ~Holding(w)
      /\ w.kind \in {"create", "import"} => ~Holding(w)
      /\ w.kind = "detach" => Holding(w) /\ w.on = Copy
  BY <1>0, <1>1, ProjectsConstants DEF P!Target, OpShape, Making, Holding
<1> HIDE DEF d
<1>4. PICK o : o = IF w.kind = "detach" THEN [w EXCEPT !.at = "unlist"] ELSE P!Idle
  OBVIOUS
<1>5. /\ o \in P!Tabled /\ OpShape(o) /\ ~Making(o) /\ Keeps(o) = {}
      /\ w.kind = "detach" =>
            o.at = "unlist" /\ o.kind = "detach" /\ o.on = Copy /\ o.makes = d /\ Holding(o)
      /\ w.kind # "detach" => o = P!Idle /\ ~Holding(o)
      /\ {o.makes, o.on} \subseteq {None, w.makes, w.on} /\ o.at # "relist"
      /\ o.kind \in {"none", "detach"}
  <2>1. CASE w.kind = "detach"
    <3>1. o \in P!Tabled /\ o.at = "unlist" /\ o.kind = "detach" /\ o.on = Copy /\ o.makes = w.makes
      BY <1>0, <1>3, <1>4, <2>1 DEF P!Tabled
    <3>2. OpShape(o)
      BY <1>0, <2>1, <3>1 DEF OpShape
    <3> QED BY <1>3, <2>1, <3>1, <3>2 DEF Making, Holding, Keeps
  <2>2. CASE w.kind # "detach"
    BY <1>4, <2>2, IdleShape DEF Making, Holding, Keeps, P!Idle
  <2> QED BY <2>1, <2>2
<1>6. work' = [work EXCEPT ![t] = o] /\ work'[t] = o
      /\ \A u \in Tabs \ {t} : work'[u] = work[u]
  <2>1. P!Advance(w) = o
    BY <1>1, <1>4, StepsCreate, StepsImport, StepsDetach, StepsAdopt, StepsSetClient
  <2> QED BY <2>1 DEF P!List, P!On, ProjectsInv, ProjectsTyped
<1>7. LocksSound'
  <2>1. CASE w.kind = "detach"
    BY <1>2, <1>3, <1>5, <1>6, <2>1 DEF ProjectsInv, ProjectsTyped, LocksSound
  <2>2. CASE w.kind # "detach"
    BY <1>1, <1>2, <1>3, <1>5, <1>6, <2>2, ReleaseKeeps
  <2> QED BY <2>1, <2>2
<1>8. ProjectsTyped'
  <2>1. \A u \in Tabs : OpShape(work'[u]) /\ work'[u] \in P!Tabled
    BY <1>5, <1>6 DEF ProjectsInv, ProjectsTyped
  <2> QED BY <1>2, <1>3, <1>6, <2>1 DEF ProjectsInv, ProjectsTyped, OpShape
<1>9. ASSUME NEW u \in Tabs \ {t}, Making(work[u]) PROVE work[u].makes # d
  <2>1. work[u].makes \notin {w.makes, w.on} /\ work[u].makes # Legacy
    BY <1>9, ProjectsConstants DEF ProjectsInv, ProjectsTyped, ItsOwn, OpShape, Making
  <2> QED BY <1>1, <1>3, <2>1
<1>10. ASSUME NEW u \in Tabs PROVE ItsOwn(u)'
  <2>1. CASE u = t
    BY <1>5, <1>6, <2>1 DEF ItsOwn
  <2>2. CASE u # t
    <3>1. Making(work[u]) =>
             /\ work[u].makes \notin index /\ work[u].makes # None
             /\ \A v \in Tabs \ {u} : work[u].makes \notin {work[v].makes, work[v].on}
                                                           \cup Keeps(work[v])
      BY ProjectsConstants DEF ProjectsInv, ProjectsTyped, ItsOwn, OpShape, Making
    <3>2. \A v \in Tabs : {work'[v].makes, work'[v].on} \cup Keeps(work'[v])
                             \subseteq {None, work[v].makes, work[v].on} \cup Keeps(work[v])
      BY <1>5, <1>6
    <3> QED BY <1>2, <1>6, <1>9, <2>2, <3>1, <3>2 DEF ItsOwn
  <2> QED BY <2>1, <2>2
<1>11. Copy \in index' <=> Copy \in index
  BY <1>2, <1>3
<1>12. ASSUME NEW u \in Tabs PROVE MakesSound(work[u])' /\ OthersSound(work[u])'
  <2>1. CASE u = t
    BY <1>5, <1>6, <2>1, IdleShape DEF MakesSound, OthersSound, Making
  <2>2. CASE u # t
    BY <1>2, <1>6, <1>11, <2>2 DEF ProjectsInv, MakesSound, OthersSound, Making
  <2> QED BY <2>1, <2>2
<1>13. (\A e \in P!Databases : StoreSound(e))'
  BY <1>2 DEF ProjectsInv, StoreSound
<1>14. ASSUME NEW e \in Subjects' PROVE e \in Subjects \cup {d}
  <2>1. \/ e \in index \cup {d}
        \/ \E u \in Tabs : e = work'[u].on /\ work'[u].kind \in {"rename", "setClient"}
        \/ \E u \in Tabs : e \in Keeps(work'[u])
    BY <1>2 DEF Subjects, Keeps
  <2>2. \A u \in Tabs : \/ work'[u] = work[u]
                        \/ Keeps(work'[u]) = {} /\ work'[u].kind \notin {"rename", "setClient"}
    BY <1>5, <1>6
  <2> QED BY <2>1, <2>2 DEF Subjects
<1>15. /\ d \in Solid'
       /\ \A e \in Solid : e \in Solid'
  <2>1. \A u \in Tabs : Making(work'[u]) => work'[u] = work[u] /\ u # t
    BY <1>5, <1>6
  <2>2. \A u \in Tabs : work[u].at = "relist" => work'[u] = work[u]
    BY <1>1, <1>6
  <2>3. d \in Solid'
    BY <1>2, <1>3, <1>9, <2>1 DEF Solid
  <2>4. ASSUME NEW e \in Solid PROVE e \in Solid'
    BY <1>2, <2>1, <2>2 DEF Solid
  <2> QED BY <2>3, <2>4
<1>16. NothingLost'
  <2>1. ASSUME NEW u \in Tabs, work'[u].kind = "detach", work'[u].at \in {"unlist", "destroy"},
               NEW doc \in saved \cap store[Copy].docs
        PROVE  \E e \in Solid' \ {Copy} : doc \in store[e].docs
    <3>1. CASE u = t
      <4>1. store[Copy].docs \subseteq store[d].docs
        BY <1>0, <1>1, <1>3, <1>5, <1>6, <2>1, <3>1, IdleShape DEF MakesSound
      <4> QED BY <1>3, <1>15, <4>1
    <3>2. CASE u # t
      BY <1>6, <1>15, <2>1, <3>2 DEF ProjectsInv, NothingLost
    <3> QED BY <3>1, <3>2
  <2> QED BY <1>2, <1>15, <2>1 DEF ProjectsInv, NothingLost
<1>17. NothingTwice'
  <2>1. Detaching => Detaching'
    BY <1>1, <1>6 DEF Detaching
  <2>2. ASSUME cut = {}, NEW e \in (Subjects \cup {Legacy}) \cap P!Databases, e # d,
               ~ (e = Copy /\ (Copy \notin index \/ Detaching'))
        PROVE  Apart(d, e)
    <3>1. CASE w.kind \in {"adopt", "setClient"}
      <4>1. d \in Subjects \cup {Legacy}
        BY <1>1, <1>3, <3>1 DEF Subjects
      <4> QED BY <1>3, <2>1, <2>2, <4>1 DEF ProjectsInv, NothingTwice
    <3>2. CASE w.kind = "create"
      BY <1>0, <1>3, <3>2 DEF MakesSound, Apart
    <3>3. CASE w.kind = "import"
      BY <1>0, <1>3, <3>3, ProjectsConstants DEF MakesSound, Apart, ProjectsInv, ProjectsTyped
    <3>4. CASE w.kind = "detach"
      <4>1. Detaching' /\ e # Copy
        BY <1>5, <1>6, <2>2, <3>4 DEF Detaching
      <4>2. ~Detaching
        <5>1. ASSUME NEW u \in Tabs, work[u].kind = "detach", work[u].at = "unlist" PROVE FALSE
          <6>1. lock[Copy] = u /\ lock[Copy] = t
            BY <1>3, <3>4, <5>1 DEF ProjectsInv, ProjectsTyped, LocksSound, Holding, OpShape
          <6> QED BY <1>1, <5>1, <6>1
        <5> QED BY <5>1 DEF Detaching
      <4>3. /\ store[d].docs \cap saved \subseteq store[Copy].docs
            /\ Copy \in index \/ store[Copy].docs = {}
        BY <1>0, <1>1, <1>3, <3>4 DEF MakesSound
      <4>4. CASE Copy \in index
        <5>1. Apart(Copy, e)
          BY <2>2, <4>1, <4>2, <4>4, ProjectsConstants DEF ProjectsInv, NothingTwice, Subjects
        <5> QED BY <4>3, <5>1 DEF Apart
      <4>5. CASE store[Copy].docs = {}
        BY <4>3, <4>5 DEF Apart
      <4> QED BY <4>3, <4>4, <4>5
    <3> QED BY <1>1, <3>1, <3>2, <3>3, <3>4
  <2>3. SUFFICES ASSUME cut' = {}, NEW e \in (Subjects' \cup {Legacy}) \cap P!Databases,
                        NEW f \in (Subjects' \cup {Legacy}) \cap P!Databases
                 PROVE  \/ e = f
                        \/ Copy \in {e, f} /\ (Copy \notin index' \/ Detaching')
                        \/ Apart(e, f)'
    BY DEF NothingTwice
  <2>4. cut = {} /\ (Apart(e, f)' <=> Apart(e, f)) /\ (Apart(e, f) <=> Apart(f, e))
    BY <1>2, <2>3 DEF Apart
  <2>5. CASE e # d /\ f # d
    BY <1>11, <1>14, <2>1, <2>4, <2>5 DEF ProjectsInv, NothingTwice
  <2>6. CASE e = d /\ f # d
    BY <1>11, <1>14, <2>2, <2>4, <2>6
  <2>7. CASE e # d /\ f = d
    BY <1>11, <1>14, <2>2, <2>4, <2>7
  <2> QED BY <2>5, <2>6, <2>7
<1>18. (\A e \in Subjects \cap P!LocalOnly : WholeProject(e))'
  <2>1. WholeProject(d)
    <3>1. StoreSound(d) /\ store[d].docs \subseteq Docs \cup Archive
      BY <1>3 DEF ProjectsInv, ProjectsTyped, Database
    <3>2. CASE w.kind \in {"create", "import", "detach"}
      BY <1>0, <1>1, <1>3, <3>1, <3>2, ProjectsConstants DEF WholeProject, MakesSound, StoreSound
    <3>3. CASE w.kind = "adopt"
      BY <1>0, <1>1, <1>3, <3>1, <3>3, ProjectsConstants DEF WholeProject, OthersSound, StoreSound
    <3>4. CASE w.kind = "setClient"
      <4>1. d \in Subjects
        BY <1>3, <3>4 DEF Subjects
      <4> QED BY <1>3, <4>1 DEF ProjectsInv
    <3> QED BY <1>1, <3>2, <3>3, <3>4
  <2> QED BY <1>2, <1>14, <2>1 DEF ProjectsInv, WholeProject
<1> QED BY <1>7, <1>8, <1>10, <1>12, <1>13, <1>16, <1>17, <1>18 DEF ProjectsInv

LEMMA ProjectsUnchanged == ProjectsInv /\ UNCHANGED projectVars => ProjectsInv'
<1> SUFFICES ASSUME ProjectsInv, UNCHANGED projectVars PROVE ProjectsInv'
  OBVIOUS
<1>1. UNCHANGED <<store, index, orphan, work, lock, saved, revived, cut>>
  BY DEF projectVars
<1>2. ProjectsTyped' /\ LocksSound'
  BY <1>1 DEF ProjectsInv, ProjectsTyped, LocksSound
<1>3. \A t \in Tabs : (ItsOwn(t) /\ MakesSound(work[t]) /\ OthersSound(work[t]))'
  BY <1>1 DEF ProjectsInv, ItsOwn, MakesSound, OthersSound
<1>4. \A d \in P!Databases : StoreSound(d)'
  BY <1>1 DEF ProjectsInv, StoreSound
<1>5. NothingLost' /\ NothingTwice'
  BY <1>1 DEF ProjectsInv, NothingLost, NothingTwice, Solid, Subjects, Detaching, Apart
<1>6. (\A d \in Subjects \cap P!LocalOnly : WholeProject(d))'
  BY <1>1 DEF ProjectsInv, WholeProject, Subjects
<1> QED BY <1>2, <1>3, <1>4, <1>5, <1>6 DEF ProjectsInv

LEMMA ProjectsInitially == P!Init => ProjectsInv
<1> SUFFICES ASSUME P!Init PROVE ProjectsInv
  OBVIOUS
<1>1. PICK old \in SUBSET Docs, theirs \in SUBSET Docs :
        /\ old \cap theirs = {}
        /\ store = [d \in P!Databases |->
                      CASE d = Legacy -> [P!Absent EXCEPT !.there = TRUE, !.docs = old,
                                                          !.plain = old]
                        [] d = Copy -> [P!Absent EXCEPT !.there = TRUE, !.keyed = TRUE,
                                                        !.titled = TRUE, !.docs = theirs]
                        [] OTHER -> P!Absent]
        /\ saved = old \cup theirs
  BY DEF P!Init
<1>2. /\ index = {Copy} /\ orphan = {Copy} /\ revived = {} /\ cut = {}
      /\ \A t \in Tabs : work[t] = P!Idle
      /\ work = [t \in Tabs |-> P!Idle]
      /\ lock = [d \in P!Databases |-> None]
  BY DEF P!Init
<1>3. /\ store[Legacy] = [there |-> TRUE, keyed |-> FALSE, titled |-> FALSE, docs |-> old,
                          plain |-> old]
      /\ store[Copy] = [there |-> TRUE, keyed |-> TRUE, titled |-> TRUE, docs |-> theirs,
                        plain |-> {}]
      /\ \A d \in Fresh : store[d] = P!Absent
      /\ \A d \in P!Databases : d \in {Legacy, Copy} \cup Fresh
  BY <1>1, ProjectsAssumption DEF P!Absent, P!Databases
<1>4. Legacy \in P!Databases /\ Copy \in P!Databases /\ Legacy # Copy /\ Fresh \subseteq P!Databases
  BY ProjectsAssumption DEF P!Databases
<1>5. ProjectsTyped
  <2>1. ASSUME NEW d \in P!Databases PROVE store[d] \in Database
    <3>1. store[Legacy] \in Database
      BY <1>3 DEF Database
    <3>2. store[Copy] \in Database
      BY <1>3 DEF Database
    <3> QED BY <1>3, <3>1, <3>2, AbsentTyped
  <2>2. store \in [P!Databases -> Database]
    BY <1>1, <2>1
  <2> QED BY <1>1, <1>2, <1>4, <2>2, IdleShape DEF ProjectsTyped
<1>6. LocksSound /\ \A t \in Tabs : ItsOwn(t) /\ MakesSound(work[t]) /\ OthersSound(work[t])
  BY <1>2, IdleShape DEF LocksSound, ItsOwn, MakesSound, OthersSound, Making, Holding
<1>7. ASSUME NEW d \in P!Databases PROVE StoreSound(d)
  <2>1. CASE d = Legacy
    BY <1>3, <1>4, <2>1 DEF StoreSound
  <2>2. CASE d = Copy
    BY <1>3, <1>4, <2>2 DEF StoreSound
  <2>3. CASE d \in Fresh
    BY <1>3, <2>3, AbsentTyped, ProjectsAssumption DEF StoreSound
  <2> QED BY <1>3, <2>1, <2>2, <2>3
<1>8. Subjects = {Copy}
  BY <1>2, IdleShape DEF Subjects, Keeps
<1>9. NothingLost
  <2>1. Legacy \in Solid /\ Copy \in Solid
    BY <1>2, <1>4, IdleShape DEF Solid, Making
  <2>2. ASSUME NEW doc \in saved PROVE doc \in store[Legacy].docs \/ doc \in store[Copy].docs
    BY <1>1, <1>3
  <2>3. \A t \in Tabs : work[t].kind # "detach"
    BY <1>2, IdleShape
  <2> QED BY <2>1, <2>2, <2>3 DEF NothingLost
<1>10. NothingTwice
  BY <1>1, <1>3, <1>8 DEF NothingTwice, Apart
<1>11. \A d \in Subjects \cap P!LocalOnly : WholeProject(d)
  BY <1>8, ProjectsConstants
<1> QED BY <1>5, <1>6, <1>7, <1>9, <1>10, <1>11 DEF ProjectsInv

LEMMA ProjectsStep ==
  ProjectsInv /\ [StorageNext]_<<part, vars, projectVars, keyVars, sessionVars>> => ProjectsInv'
<1> SUFFICES ASSUME ProjectsInv, [StorageNext]_<<part, vars, projectVars, keyVars, sessionVars>>
             PROVE  ProjectsInv'
  OBVIOUS
<1>1. CASE ProjectsNext
  <2>1. ASSUME NEW d \in P!Databases, NEW doc \in Docs, P!Save(d, doc) PROVE ProjectsInv'
    BY <2>1, SaveKeeps
  <2>2. ASSUME NEW t \in Tabs, P!Ask(t) \/ P!Step(t) \/ P!Fail(t) \/ P!EndTab(t)
        PROVE  ProjectsInv'
    <3>1. CASE P!Ask(t)
      BY <3>1, AskKeeps
    <3>2. CASE P!Fail(t) \/ P!EndTab(t)
      BY <3>2, FailKeeps
    <3>3. CASE P!Account(t) \/ P!Entry(t) \/ P!EnsureKeys(t) \/ P!Title(t) \/ P!Devices(t)
               \/ P!Seal(t) \/ P!List(t) \/ P!Patch(t) \/ P!Info(t)
      BY <3>3, AccountKeeps, EntryKeeps, EnsureKeysKeeps, TitleKeeps, DevicesKeeps, SealKeeps,
         ListKeeps, PatchKeeps, InfoKeeps
    <3>4. CASE P!CopyOver(t) \/ P!Lock(t) \/ P!Verify(t) \/ P!Unlist(t) \/ P!Destroy(t)
               \/ P!Discard(t) \/ P!Clear(t) \/ P!Relist(t)
      BY <3>4, CopyOverKeeps, LockKeeps, VerifyKeeps, UnlistKeeps, DestroyKeeps, DiscardKeeps,
         ClearKeeps, RelistKeeps
    <3> QED BY <2>2, <3>1, <3>2, <3>3, <3>4 DEF P!Step
  <2> QED BY <1>1, <2>1, <2>2 DEF ProjectsNext, P!Next
<1>2. CASE UNCHANGED projectVars
  BY <1>2, ProjectsUnchanged
<1> QED BY <1>1, <1>2 DEF StorageNext, CacheNext, KeysNext, SessionNext

LEMMA ProjectsAlways == StorageSpec => []ProjectsInv
<1>1. StorageInit => ProjectsInv
  BY ProjectsInitially DEF StorageInit
<1> QED BY <1>1, ProjectsStep, PTL DEF StorageSpec

\* However creations, imports, renamings, deletions, detachments, adoptions and sign-outs of
\* all tabs interleave, fail and are cut off, a device a user saved and did not delete is in a
\* database that is listed, will be, or was cut off from; a detachment lists no project twice;
\* and a listed project is whole (detachOrphanedProject, destroyLocalProject, addLocalProject,
\* removeLocalDatabases).
THEOREM NothingStrandedListedOnceAndWhole == StorageSpec => []ListedOnceAndWhole
<1>1. ASSUME ProjectsInv PROVE ListedOnceAndWhole
  <2>1. P!NothingStranded
    <3>1. ASSUME NEW d \in Solid PROVE d \in P!WithinReach \cap P!Databases
      <4>1. CASE d \in index \cup {Legacy} \cup cut
        BY <4>1 DEF Solid, P!WithinReach
      <4>2. ASSUME NEW t \in Tabs, work[t].at = "relist", d \in work[t].before
            PROVE  d \in P!WithinReach
        BY <4>2 DEF P!WithinReach
      <4> QED BY <4>1, <4>2 DEF Solid
    <3> QED BY <1>1, <3>1 DEF ProjectsInv, NothingLost, P!NothingStranded
  <2>2. P!ListedOnce
    <3>1. SUFFICES ASSUME cut = {}, ~ \E t \in Tabs : work[t].kind = "detach" /\ work[t].at = "unlist",
                          NEW doc \in saved, NEW d \in index, NEW e \in index,
                          doc \in store[d].docs, doc \in store[e].docs
                   PROVE  d = e
      BY DEF P!ListedOnce
    <3>2. d \in P!Databases /\ e \in P!Databases /\ ~Detaching
      BY <1>1, <3>1 DEF ProjectsInv, ProjectsTyped, Detaching
    <3>3. ~Apart(d, e)
      BY <3>1 DEF Apart
    <3> QED BY <1>1, <3>1, <3>2, <3>3 DEF ProjectsInv, NothingTwice, Subjects
  <2>3. P!ListedIsWhole
    BY <1>1 DEF ProjectsInv, WholeProject, Subjects, P!ListedIsWhole
  <2> QED BY <2>1, <2>2, <2>3 DEF ListedOnceAndWhole
<1> QED BY <1>1, ProjectsAlways, PTL

------------------------------------------------------------------------------
(* 3. Types. The session is the one of SessionProofs, with one tab and no fault.*)

SP == INSTANCE SessionProofs WITH Tabs <- {Tab}, Jobs <- Calls, Faults <- {}

\* Both instances of Session say the same.
LEMMA SameServerSteps == S!ServerStep <=> SP!ServerStep
BY Zenon DEF S!ServerStep, SP!ServerStep, S!Exchange, SP!Exchange, S!Verify, SP!Verify,
   S!GraceEnds, SP!GraceEnds, S!Revoke, SP!Revoke, S!Mint, SP!Mint, S!Free, SP!Free,
   S!Answer, SP!Answer, S!At, SP!At, S!May, SP!May, S!store, SP!store, S!tabs, SP!tabs

LEMMA SameOutcomes ==
  ASSUME NEW j, NEW J, NEW kind, NEW stored
  PROVE  S!Outcome(j, J, kind, stored) <=> SP!Outcome(j, J, kind, stored)
BY Zenon DEF S!Outcome, SP!Outcome, S!Silent, SP!Silent, S!Refreshed, SP!Refreshed,
   S!Unreachable, SP!Unreachable, S!SignedOut, SP!SignedOut, S!Ended, SP!Ended,
   S!EndReplication, SP!EndReplication, S!Idle, SP!Idle, S!New, SP!New, S!tabs, SP!tabs

LEMMA SameAnswers ==
  ASSUME NEW j
  PROVE  /\ S!ReadToken(j) <=> SP!ReadToken(j)
         /\ S!NoAnswer(j) <=> SP!NoAnswer(j)
         /\ S!Receive(j) <=> SP!Receive(j)
BY Zenon, SameOutcomes DEF S!ReadToken, SP!ReadToken, S!NoAnswer, SP!NoAnswer, S!Receive,
   SP!Receive, S!At, SP!At, S!May, SP!May, S!Idle, SP!Idle, S!New, SP!New, S!server, SP!server,
   S!store, SP!store, S!tabs, SP!tabs

LEMMA SameStoreSteps ==
  ASSUME NEW j
  PROVE  S!StoreStep(j) <=> SP!StoreStep(j)
<1>1. /\ S!WriteGet(j) <=> SP!WriteGet(j)
      /\ S!ForgetGet(j) <=> SP!ForgetGet(j)
      /\ S!ForgetRemove(j) <=> SP!ForgetRemove(j)
  BY Zenon DEF S!WriteGet, SP!WriteGet, S!ForgetGet, SP!ForgetGet, S!ForgetRemove,
     SP!ForgetRemove, S!TouchProfile, SP!TouchProfile, S!At, SP!At, S!May, SP!May, S!server,
     SP!server, S!store, SP!store, S!tabs, SP!tabs
<1>2. S!WritePut(j) <=> SP!WritePut(j)
  BY Zenon DEF S!WritePut, SP!WritePut, S!Matches, SP!Matches, S!Written, SP!Written,
     S!NotWritten, SP!NotWritten, S!Outcome, SP!Outcome, S!Silent, SP!Silent, S!Refreshed,
     SP!Refreshed, S!Unreachable, SP!Unreachable, S!SignedOut, SP!SignedOut, S!Ended, SP!Ended,
     S!EndReplication, SP!EndReplication, S!StopRefresher, SP!StopRefresher, S!TouchToken,
     SP!TouchToken, S!Idle, SP!Idle, S!New, SP!New, S!At, SP!At, S!May, SP!May, S!server,
     SP!server, S!tabs, SP!tabs
<1>3. S!ClearGet(j) <=> SP!ClearGet(j)
  BY Zenon DEF S!ClearGet, SP!ClearGet, S!Cleared, SP!Cleared, S!Outcome, SP!Outcome, S!Silent,
     SP!Silent, S!Refreshed, SP!Refreshed, S!Unreachable, SP!Unreachable, S!SignedOut,
     SP!SignedOut, S!Ended, SP!Ended, S!EndReplication, SP!EndReplication, S!Idle, SP!Idle,
     S!New, SP!New, S!At, SP!At, S!server, SP!server, S!store, SP!store, S!tabs, SP!tabs
<1>4. S!ClearRemove(j) <=> SP!ClearRemove(j)
  BY Zenon DEF S!ClearRemove, SP!ClearRemove, S!Cleared, SP!Cleared, S!Outcome, SP!Outcome,
     S!Silent, SP!Silent, S!Refreshed, SP!Refreshed, S!Unreachable, SP!Unreachable,
     S!SignedOut, SP!SignedOut, S!Ended, SP!Ended, S!EndReplication, SP!EndReplication,
     S!TouchToken, SP!TouchToken, S!Idle, SP!Idle, S!New, SP!New, S!At, SP!At, S!May, SP!May,
     S!server, SP!server, S!tabs, SP!tabs
<1> QED BY <1>1, <1>2, <1>3, <1>4 DEF S!StoreStep, SP!StoreStep

LEMMA SameProfileSteps ==
  ASSUME NEW j
  PROVE  S!ProfileStep(j) <=> SP!ProfileStep(j)
BY Zenon DEF S!ProfileStep, SP!ProfileStep, S!FollowProfile, SP!FollowProfile,
   S!ProfileArrives, SP!ProfileArrives, S!CacheGet, SP!CacheGet, S!CachePut, SP!CachePut,
   S!TouchProfile, SP!TouchProfile, S!Idle, SP!Idle, S!New, SP!New, S!At, SP!At, S!May, SP!May,
   S!server, SP!server, S!store, SP!store, S!tabs, SP!tabs

LEMMA SameSignOutSteps ==
  ASSUME NEW j
  PROVE  S!SignOutStep(j) <=> SP!SignOutStep(j)
BY Zenon DEF S!SignOutStep, SP!SignOutStep, S!TakeCredentials, SP!TakeCredentials,
   S!EndServerSession, SP!EndServerSession, S!RemoveLocalData, SP!RemoveLocalData, S!Idle,
   SP!Idle, S!New, SP!New, S!At, SP!At, S!May, SP!May, S!server, SP!server, S!store, SP!store,
   S!tabs, SP!tabs

LEMMA SameTabSteps ==
  ASSUME NEW t
  PROVE  S!TabStep(t) <=> SP!TabStep(t)
<1>1. /\ S!RunRefresh(t) <=> SP!RunRefresh(t)
      /\ S!Reload(t) <=> SP!Reload(t)
      /\ S!StartReread(t) <=> SP!StartReread(t)
      /\ S!AccessTokenExpires(t) <=> SP!AccessTokenExpires(t)
  BY Zenon DEF S!RunRefresh, SP!RunRefresh, S!Reload, SP!Reload, S!Load, SP!Load, S!StartReread,
     SP!StartReread, S!AccessTokenExpires, SP!AccessTokenExpires, S!Idle, SP!Idle, S!New,
     SP!New, S!May, SP!May, S!server, SP!server, S!store, SP!store, S!tabs, SP!tabs
<1>2. S!StartSignOut(t) <=> SP!StartSignOut(t)
  BY Zenon DEF S!StartSignOut, SP!StartSignOut, S!Busy, SP!Busy, S!EndReplication,
     SP!EndReplication, S!StopRefresher, SP!StopRefresher, S!Idle, SP!Idle, S!New, SP!New,
     S!server, SP!server, S!store, SP!store
<1>3. ASSUME NEW a
      PROVE  /\ S!StartSignIn(t, a) <=> SP!StartSignIn(t, a)
             /\ S!RedirectSignIn(t, a) <=> SP!RedirectSignIn(t, a)
  BY Zenon DEF S!StartSignIn, SP!StartSignIn, S!RedirectSignIn, SP!RedirectSignIn,
     S!SignInOffered, SP!SignInOffered, S!Quiet, SP!Quiet, S!Busy, SP!Busy, S!Load, SP!Load,
     S!Idle, SP!Idle, S!New, SP!New, S!May, SP!May, S!server, SP!server, S!store, SP!store,
     S!tabs, SP!tabs, S!Cardinality, SP!Cardinality
<1> QED BY <1>1, <1>2, <1>3 DEF S!TabStep, SP!TabStep

LEMMA SameSessions ==
  /\ S!Init <=> SP!Init
  /\ S!Next <=> SP!Next
  /\ S!TypeOK <=> SP!TypeOK
<1>1. S!Init <=> SP!Init
  BY Zenon DEF S!Init, SP!Init, S!Idle, SP!Idle, S!New, SP!New
<1>2. ASSUME NEW j
      PROVE  S!JobStep(j) <=> SP!JobStep(j)
  BY SameAnswers, SameStoreSteps, SameProfileSteps, SameSignOutSteps DEF S!JobStep, SP!JobStep
<1>3. S!Next <=> SP!Next
  BY <1>2, SameServerSteps, SameTabSteps DEF S!Next, SP!Next
<1>4. S!TypeOK <=> SP!TypeOK
  BY Zenon DEF S!TypeOK, SP!TypeOK, S!TokenStatus, SP!TokenStatus, S!SessionState,
     SP!SessionState, S!Job, SP!Job, S!Kind, SP!Kind, S!Step, SP!Step, S!Seen, SP!Seen
<1> QED BY <1>1, <1>3, <1>4

LEMMA SessionsInitially == S!Init => SP!TypeInv
BY SameSessions, SP!InitTypes, SessionAssumption
   DEF SP!FaultsAreKnown, SP!NoneIsNoValue, SP!FaultKinds

\* What another part does leaves the session as it is.
LEMMA SessionsGoOn ==
  ASSUME [StorageNext]_<<part, vars, projectVars, keyVars, sessionVars>>
  PROVE  [SP!Next]_(SP!vars)
<1>1. CASE SessionNext
  BY <1>1, SameSessions DEF SessionNext
<1>2. CASE UNCHANGED sessionVars
  BY <1>2 DEF sessionVars, SP!vars, SP!server, SP!store, SP!tabs
<1> QED BY <1>1, <1>2 DEF StorageNext, CacheNext, KeysNext, ProjectsNext

LEMMA SessionsStep ==
  ASSUME SP!TypeInv, [StorageNext]_<<part, vars, projectVars, keyVars, sessionVars>>
  PROVE  SP!TypeInv'
<1>1. [SP!Next]_(SP!vars)
  BY SessionsGoOn
<1> QED BY <1>1, SP!TypeStep, SessionAssumption
        DEF SP!FaultsAreKnown, SP!NoneIsNoValue, SP!FaultKinds

\* A browser with one tab, where nothing fails: see section 5 of SessionProofs.
SteadyInv == SP!IInv /\ SP!Steady(Tab)

LEMMA SteadyInitially == S!Init => SteadyInv
BY SameSessions, SP!Initially, SP!SteadyInit, SessionAssumption
   DEF SP!FaultsAreKnown, SP!NoneIsNoValue, SP!FaultKinds, SteadyInv

LEMMA StaysSteady ==
  ASSUME SteadyInv, [StorageNext]_<<part, vars, projectVars, keyVars, sessionVars>>
  PROVE  SteadyInv'
<1>1. [SP!Next]_(SP!vars)
  BY SessionsGoOn
<1> QED BY <1>1, SP!Inductive, SP!SteadyStep, SessionAssumption
        DEF SP!FaultsAreKnown, SP!NoneIsNoValue, SP!FaultKinds, SteadyInv

LEMMA SamePromises ==
  /\ S!StoredTokenAccepted <=> SP!StoredTokenAccepted
  /\ S!RenewableWhileSignedIn <=> SP!RenewableWhileSignedIn
  /\ S!NeverExpires <=> SP!NeverExpires
  /\ S!QuietTabHoldsNothing <=> SP!QuietTabHoldsNothing
<1>1. /\ S!StoredTokenAccepted <=> SP!StoredTokenAccepted
      /\ S!RenewableWhileSignedIn <=> SP!RenewableWhileSignedIn
      /\ S!NeverExpires <=> SP!NeverExpires
  BY Zenon DEF S!StoredTokenAccepted, SP!StoredTokenAccepted, S!TokenSettled, SP!TokenSettled,
     S!RenewableWhileSignedIn, SP!RenewableWhileSignedIn, S!NeverExpires, SP!NeverExpires
<1>2. S!QuietTabHoldsNothing <=> SP!QuietTabHoldsNothing
  BY Zenon DEF S!QuietTabHoldsNothing, SP!QuietTabHoldsNothing, S!Quiet, SP!Quiet, S!Busy,
     SP!Busy
<1> QED BY <1>1, <1>2

\* As long as nothing fails, what a tab that is alone stores is what the server takes, its
\* session can be renewed and never ends by itself, and nothing of an ended one is held
\* (ui/composition.ts, requestTokens; ui/token-refresher.ts).
THEOREM SteadySession == StorageSpec => []SteadyTabKeepsItsSession
<1>1. StorageInit => SteadyInv
  BY SteadyInitially DEF StorageInit
<1>2. SteadyInv /\ [StorageNext]_<<part, vars, projectVars, keyVars, sessionVars>> => SteadyInv'
  BY StaysSteady
<1>3. SteadyInv => SteadyTabKeepsItsSession
  BY SP!SteadyMeans, SamePromises, SessionAssumption
     DEF SP!FaultsAreKnown, SP!NoneIsNoValue, SP!FaultKinds, SteadyInv, SteadyTabKeepsItsSession
<1> QED BY <1>1, <1>2, <1>3, PTL DEF StorageSpec

\* What every part may hold.
TypesInv == IInv /\ KeysInv /\ ProjectsInv /\ SP!TypeInv

\* Every part is well typed, whatever the tabs do (data/local-cache.ts, ui/local-projects.ts,
\* ui/db, ui/tokens.ts): no document is of another's kind, no lock is without the operation that
\* holds it, nothing is left in a database that is gone.
THEOREM StorageTypeCorrect == StorageSpec => []StorageTypeOK
<1>1. StorageInit => TypesInv
  BY Initially, KeysInitially, ProjectsInitially, SessionsInitially DEF StorageInit, TypesInv
<1>2. IInv /\ [StorageNext]_<<part, vars, projectVars, keyVars, sessionVars>> => IInv'
  <2>1. [StorageNext]_<<part, vars, projectVars, keyVars, sessionVars>> => [Next]_vars
    BY DEF StorageNext, CacheNext, KeysNext, ProjectsNext, SessionNext, Next
  <2> QED BY <2>1, Inductive
<1>3. TypesInv /\ [StorageNext]_<<part, vars, projectVars, keyVars, sessionVars>> => TypesInv'
  BY <1>2, KeysStep, ProjectsStep, SessionsStep DEF TypesInv
<1>4. TypesInv => StorageTypeOK
  <2> SUFFICES ASSUME TypesInv PROVE StorageTypeOK
    OBVIOUS
  <2>1. TypeOK
    BY DEF TypesInv, IInv, TypeInv, Held, Operation, TypeOK
  <2>2. P!TypeOK
    BY DEF TypesInv, ProjectsInv, ProjectsTyped, Database, StoreSound, LocksSound, P!TypeOK
  <2>3. K!TypeOK
    BY DEF TypesInv, KeysInv, KeysTyped, Recovery, K!TypeOK
  <2>4. S!TypeOK
    BY SameSessions DEF TypesInv, SP!TypeInv
  <2> QED BY <2>1, <2>2, <2>3, <2>4 DEF StorageTypeOK
<1> QED BY <1>1, <1>3, <1>4, PTL DEF StorageSpec
==============================================================================
