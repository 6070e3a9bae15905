---------------------------- MODULE ProjectKeys ----------------------------
(***************************************************************************)
(* The keys of projects in one browser (ui/db/keyring.ts, device-key.ts,   *)
(* project-database.ts, ui/escrow-client.ts). Every browser has one device *)
(* key; every project one data key, stored wrapped for each device that    *)
(* may read it and for escrow; a tab resolves a project's key state when   *)
(* it first reads it, and remembers the answer.                            *)
(*                                                                         *)
(* Two databases: the catalogue, which this browser keys itself, and a     *)
(* project made elsewhere that replicates in, documents before or after    *)
(* their wraps, and whose wrap for this device the server makes on demand. *)
(***************************************************************************)
EXTENDS Naturals

CONSTANTS
    Tabs,          \* the open tabs of one browser
    Keys,          \* device keys the browser may generate
    Minted,        \* data keys the browser may generate
    Shared,        \* the data key of the project made elsewhere
    Docs,          \* devices with a commissioning code
    MaxMoves,      \* bound: changes of the server's project document
    None           \* no key, no wrap, no code

Databases == {"catalogue", "project"}
Slots == Keys \cup {"escrow", "other"}      \* the wraps key:<kid> of a database
Deks == Minted \cup {Shared}

VARIABLES
    deviceKey,     \* the key in mm-keys, or None
    answered,      \* history: the device keys callers were given
    wraps,         \* [Databases -> [Slots -> the data key wrapped there, or None]]
    code,          \* [Databases -> [Docs -> None, "plain", or the key it is sealed under]]
    memo,          \* [Tabs -> [Databases -> the key state remembered]]
    run,           \* [Tabs -> [Databases -> the resolution under way]]
    recovery,      \* [Tabs -> the escrow recovery of the project]
    remote,        \* the server's copy: its wraps, and how often its document moved
    pulled,        \* how often it had moved when this browser last pulled it
    registered,    \* the device keys the server knows
    seen           \* history: the codes a tab has given out, and under which key

local == <<wraps, code>>
server == <<remote, registered>>
vars == <<deviceKey, answered, local, memo, run, recovery, server, pulled, seen>>
-----------------------------------------------------------------------------
Unread == "unread"
States == {Unread, "keyless", "locked"} \cup Deks

\* A resolution: where it is, whether it may mint, the device key it was given or
\* has generated, the data key, and whether its answer will still be remembered.
Resting == [at |-> "rest", mints |-> FALSE, key |-> None, dek |-> None, kept |-> TRUE]
NoRecovery == [at |-> "no", left |-> 0]

Refreshed(t, db) ==
    /\ memo' = [memo EXCEPT ![t][db] = Unread]
    /\ run' = [run EXCEPT ![t][db].kept = run[t][db].at = "rest"]

\* A key nothing has generated before; it does not matter which.
Some(keys) == CHOOSE k \in keys : TRUE

Generated == {run[t][db].key : t \in Tabs, db \in Databases} \cup answered
MintedYet == {run[t][db].dek : t \in Tabs, db \in Databases}
             \cup {wraps[db][s] : db \in Databases, s \in Slots}
             \cup {code[db][d] : db \in Databases, d \in Docs}

Init ==
    /\ deviceKey = None /\ answered = {}
    /\ wraps = [db \in Databases |-> [s \in Slots |-> None]]
    /\ \E old \in SUBSET Docs :
          code = [db \in Databases |-> [d \in Docs |->
                    IF db = "catalogue" /\ d \in old THEN "plain" ELSE None]]
    /\ memo = [t \in Tabs |-> [db \in Databases |-> Unread]]
    /\ run = [t \in Tabs |-> [db \in Databases |-> Resting]]
    /\ recovery = [t \in Tabs |-> NoRecovery]
    /\ remote = [wraps |-> [s \in Slots |-> IF s \in Keys THEN None ELSE Shared], moves |-> 0]
    /\ pulled = 0 /\ registered = {} /\ seen = {}
-----------------------------------------------------------------------------
(* ensureDeviceKey(), within a resolution. The generation awaits between the   *)
(* read and the add, so two tabs may both find none.                          *)

Go(t, db, next) == run' = [run EXCEPT ![t][db] = next]

\* The key is known: the resolution looks for its wrap, or mints.
WithKey(t, db, k) ==
    /\ answered' = answered \cup {k}
    /\ Go(t, db, [run[t][db] EXCEPT !.key = k,
                                    !.at = IF run[t][db].mints THEN "mint" ELSE "wrap"])

\* A stored key is answered; else a pair is generated.
ReadDeviceKey(t, db) ==
    /\ run[t][db].at = "device"
    /\ IF deviceKey # None THEN WithKey(t, db, deviceKey)
       ELSE /\ Keys \ Generated # {}
            /\ Go(t, db, [run[t][db] EXCEPT !.at = "add", !.key = Some(Keys \ Generated)])
            /\ UNCHANGED answered
    /\ UNCHANGED <<deviceKey, local, memo, recovery, server, pulled, seen>>

\* add() fails when there is a key by now, and that one is answered.
AddDeviceKey(t, db) ==
    /\ run[t][db].at = "add"
    /\ deviceKey' = IF deviceKey = None THEN run[t][db].key ELSE deviceKey
    /\ WithKey(t, db, deviceKey')
    /\ UNCHANGED <<local, memo, recovery, server, pulled, seen>>
-----------------------------------------------------------------------------
(* memoiseKeyState(), resolveKeyState() and keyCatalogue().                   *)

\* The provider is asked and remembers nothing: a resolution begins.
Resolve(t, db) ==
    /\ memo[t][db] = Unread /\ run[t][db] = Resting
    /\ Go(t, db, [Resting EXCEPT !.at = "rows"])
    /\ UNCHANGED <<deviceKey, answered, local, memo, recovery, server, pulled, seen>>

\* The resolution is over. Its answer is remembered unless it was refreshed
\* meanwhile, and a locked project starts a recovery, if none is under way.
Answer(t, db, state) ==
    /\ run' = [run EXCEPT ![t][db] = Resting]
    /\ memo' = IF run[t][db].kept THEN [memo EXCEPT ![t][db] = state] ELSE memo
    /\ recovery' = IF state = "locked" /\ recovery[t].at = "no"
                   THEN [recovery EXCEPT ![t] = [at |-> "reach", left |-> 2]]
                   ELSE recovery

\* No wrap at all: the project is keyless until its wraps arrive; the catalogue
\* is keyed here.
Rows(t, db) ==
    /\ run[t][db].at = "rows"
    /\ IF \E s \in Slots : wraps[db][s] # None
       THEN /\ Go(t, db, [run[t][db] EXCEPT !.at = "device", !.mints = FALSE])
            /\ UNCHANGED <<memo, recovery>>
       ELSE IF db = "catalogue"
       THEN /\ Go(t, db, [run[t][db] EXCEPT !.at = "device", !.mints = TRUE])
            /\ UNCHANGED <<memo, recovery>>
       ELSE Answer(t, db, "keyless")
    /\ UNCHANGED <<deviceKey, answered, local, server, pulled, seen>>

\* unlockProject(): the wrap for this device opens, or there is none.
Unwrap(t, db) ==
    LET dek == wraps[db][run[t][db].key] IN
    /\ run[t][db].at = "wrap"
    /\ IF dek # None /\ db = "catalogue"
       THEN /\ Go(t, db, [run[t][db] EXCEPT !.at = "seal", !.dek = dek])
            /\ UNCHANGED <<memo, recovery>>
       ELSE Answer(t, db, IF dek = None THEN "locked" ELSE dek)
    /\ UNCHANGED <<deviceKey, answered, local, server, pulled, seen>>

\* createProjectKeys(): key:<own kid> has one id in every tab, so the second
\* minter is refused with a 409, and resolves the winner's key.
Mint(t, db) ==
    /\ run[t][db].at = "mint"
    /\ IF wraps[db][run[t][db].key] # None
       THEN /\ Go(t, db, [run[t][db] EXCEPT !.at = "rows", !.mints = FALSE])
            /\ UNCHANGED wraps
       ELSE LET dek == Some(Minted \ MintedYet) IN
              /\ Minted \ MintedYet # {}
              /\ wraps' = [wraps EXCEPT ![db][run[t][db].key] = dek]
              /\ Go(t, db, [run[t][db] EXCEPT !.at = "escrow", !.dek = dek])
    /\ UNCHANGED <<deviceKey, answered, code, memo, recovery, server, pulled, seen>>

\* The escrow wrap, when the escrow key has been cached.
WrapForEscrow(t, db) ==
    /\ run[t][db].at = "escrow"
    /\ \E known \in BOOLEAN :
          wraps' = IF known /\ wraps[db]["escrow"] = None
                   THEN [wraps EXCEPT ![db]["escrow"] = run[t][db].dek] ELSE wraps
    /\ Go(t, db, [run[t][db] EXCEPT !.at = "seal"])
    /\ UNCHANGED <<deviceKey, answered, code, memo, recovery, server, pulled, seen>>

\* Mutant: the catalogue is keyed and its plaintext left as it is.
SealNothing(t, db) ==
    /\ run[t][db].at = "seal"
    /\ Answer(t, db, run[t][db].dek)
    /\ UNCHANGED <<deviceKey, answered, local, server, pulled, seen>>

\* encryptPlaintextDevices(): device by device, then the state is answered.
Seal(t, db) ==
    LET plain == {d \in Docs : code[db][d] = "plain"} IN
    /\ run[t][db].at = "seal"
    /\ IF plain = {} THEN Answer(t, db, run[t][db].dek) /\ UNCHANGED code
       ELSE /\ \E d \in plain : code' = [code EXCEPT ![db][d] = run[t][db].dek]
            /\ UNCHANGED <<memo, run, recovery>>
    /\ UNCHANGED <<deviceKey, answered, wraps, server, pulled, seen>>

\* A step fails, at any point: the rejection is not remembered.
Reject(t, db) ==
    /\ run[t][db].at # "rest"
    /\ Go(t, db, Resting)
    /\ UNCHANGED <<deviceKey, answered, local, memo, recovery, server, pulled, seen>>
-----------------------------------------------------------------------------
(* Reading and writing a device: the repository consults the provider.        *)

\* A new device's code is sealed. Locked or keyless, the save is refused.
Save(t, db, d) ==
    /\ memo[t][db] \in Deks /\ code[db][d] = None
    /\ code' = [code EXCEPT ![db][d] = memo[t][db]]
    /\ UNCHANGED <<deviceKey, answered, wraps, memo, run, recovery, server, pulled, seen>>

\* A code is shown if it opens, and in the clear if the project is keyless. One
\* that carries the prefix of a sealed code reads locked instead (#333).
Show(t, db, d) ==
    /\ memo[t][db] \in Deks \/ memo[t][db] = "keyless"
    /\ code[db][d] # None
    /\ memo[t][db] = "keyless" => code[db][d] = "plain"
    /\ seen' = seen \cup {[sealed |-> code[db][d], with |-> memo[t][db]]}
    /\ UNCHANGED <<deviceKey, answered, local, memo, run, recovery, server, pulled>>
-----------------------------------------------------------------------------
(* Replication of the project.                                                *)

\* Some of what the server has arrives, in any order, through the replication of
\* one tab; wraps among it make that tab forget the state it remembers.
Inbound(t, slots, docs) ==
    /\ wraps' = [wraps EXCEPT !["project"] = [s \in Slots |->
                   IF s \in slots THEN remote.wraps[s] ELSE @[s]]]
    /\ code' = [code EXCEPT !["project"] = [d \in Docs |->
                   IF d \in docs THEN Shared ELSE @[d]]]

News == {s \in Slots : remote.wraps[s] # wraps["project"][s]}
Unheard == {d \in Docs : code["project"][d] = None}

Pull(t) ==
    /\ \E slots \in SUBSET News, docs \in SUBSET Unheard :
          /\ slots \cup docs # {}
          /\ Inbound(t, slots, docs)
          /\ IF slots # {} THEN Refreshed(t, "project") ELSE UNCHANGED <<memo, run>>
    /\ UNCHANGED <<deviceKey, answered, recovery, server, pulled, seen>>

\* The service writes the project document anew.
Move ==
    /\ remote.moves < MaxMoves
    /\ remote' = [remote EXCEPT !.moves = @ + 1]
    /\ UNCHANGED <<deviceKey, answered, local, memo, run, recovery, registered, pulled, seen>>
-----------------------------------------------------------------------------
(* recoverProjectKey(): pull first, then ask the server, twice at most.       *)

RecoverTo(t, at) == recovery' = [recovery EXCEPT ![t].at = at]

\* useProjectDatabase(): opening a project known to be locked tries again.
Reopen(t) ==
    /\ memo[t]["project"] = "locked" /\ recovery[t].at = "no"
    /\ recovery' = [recovery EXCEPT ![t] = [at |-> "reach", left |-> 2]]
    /\ UNCHANGED <<deviceKey, answered, local, memo, run, server, pulled, seen>>

\* pullOnce(): all the server has, with its project document.
PullAll(t) ==
    /\ recovery[t].at \in {"reach", "pullAgain", "fetch"}
    /\ Inbound(t, News, Unheard)
    /\ pulled' = remote.moves
    /\ IF News # {} THEN Refreshed(t, "project") ELSE UNCHANGED <<memo, run>>
    /\ RecoverTo(t, CASE recovery[t].at = "reach" -> "unlock"
                      [] recovery[t].at = "pullAgain" -> "post"
                      [] OTHER -> "end")
    /\ UNCHANGED <<deviceKey, answered, server, seen>>

\* The wrap may have come with the pull; then nothing is asked for.
TryUnlock(t) ==
    /\ recovery[t].at = "unlock" /\ deviceKey # None
    /\ RecoverTo(t, IF wraps["project"][deviceKey] # None THEN "end" ELSE "register")
    /\ UNCHANGED <<deviceKey, answered, local, memo, run, server, pulled, seen>>

\* The registration of the device key, which the request waits for.
Register(t) ==
    /\ recovery[t].at = "register"
    /\ registered' = registered \cup {deviceKey}
    /\ RecoverTo(t, "post")
    /\ UNCHANGED <<deviceKey, answered, local, memo, run, remote, pulled, seen>>

\* POST /escrow. The server wraps the key for a device it knows, if the document
\* sent is its own; a stale one earns one more pull and one more request, and any
\* other refusal ends the recovery.
Post(t) ==
    /\ recovery[t].at = "post"
    /\ IF pulled = remote.moves /\ deviceKey \in registered
       THEN /\ remote' = [remote EXCEPT !.wraps[deviceKey] = Shared]
            /\ RecoverTo(t, "fetch")
       ELSE /\ recovery' = [recovery EXCEPT ![t] =
                              IF pulled # remote.moves /\ @.left > 1
                              THEN [at |-> "pullAgain", left |-> @.left - 1]
                              ELSE [@ EXCEPT !.at = "end"]]
            /\ UNCHANGED remote
    /\ UNCHANGED <<deviceKey, answered, local, memo, run, registered, pulled, seen>>

\* Offline, refused, or no answer: the recovery ends, whatever it brought.
RecoveryFails(t) ==
    /\ recovery[t].at \notin {"no", "end"}
    /\ RecoverTo(t, "end")
    /\ UNCHANGED <<deviceKey, answered, local, memo, run, server, pulled, seen>>

\* The database itself is asked whether the project unlocks now (unlocksNow); if
\* so the state remembered is forgotten and the views read again.
EndRecovery(t) ==
    /\ recovery[t].at = "end"
    /\ recovery' = [recovery EXCEPT ![t] = NoRecovery]
    /\ IF deviceKey # None /\ wraps["project"][deviceKey] # None
       THEN Refreshed(t, "project") ELSE UNCHANGED <<memo, run>>
    /\ UNCHANGED <<deviceKey, answered, local, server, pulled, seen>>
-----------------------------------------------------------------------------
Resolving(t, db) ==
    \/ Resolve(t, db) \/ Rows(t, db) \/ ReadDeviceKey(t, db) \/ AddDeviceKey(t, db)
    \/ Unwrap(t, db) \/ Mint(t, db) \/ WrapForEscrow(t, db) \/ Seal(t, db)
    \/ Reject(t, db)
    \/ \E d \in Docs : Save(t, db, d) \/ Show(t, db, d)

Replicating(t) ==
    \/ Pull(t) \/ Reopen(t) \/ PullAll(t) \/ TryUnlock(t) \/ Register(t) \/ Post(t)
    \/ RecoveryFails(t) \/ EndRecovery(t)

Next ==
    \/ \E t \in Tabs : Replicating(t) \/ \E db \in Databases : Resolving(t, db)
    \/ Move

Spec == Init /\ [][Next]_vars
-----------------------------------------------------------------------------
(* Properties. *)

TypeOK ==
    /\ deviceKey \in Keys \cup {None} /\ answered \subseteq Keys
    /\ wraps \in [Databases -> [Slots -> Deks \cup {None}]]
    /\ \A db \in Databases, d \in Docs : code[db][d] \in Deks \cup {None, "plain"}
    /\ memo \in [Tabs -> [Databases -> States]]
    /\ \A t \in Tabs : recovery[t].left \in 0..2

\* Every caller is given the key that is stored, whoever generated it first: a
\* registration under another one would be orphaned (ensureDeviceKey).
OneDeviceKey == answered \subseteq {deviceKey}

\* The keys a database's wraps hold and its codes are sealed under are one key:
\* two tabs that key the catalogue at once agree (ensureProjectKeys), and what
\* the views save is sealed under what every wrap opens.
OneDek ==
    \A db \in Databases :
       LET held == ({wraps[db][s] : s \in Slots} \cup {code[db][d] : d \in Docs}) \cap Deks
       IN  \A j, k \in held : j = k

\* Once a tab holds the catalogue's key, nothing in it is in the clear, and a
\* project that replicates in holds no code in the clear at any time (#331, #336).
NothingInTheClear ==
    /\ \A d \in Docs : code["project"][d] # "plain"
    /\ (\E t \in Tabs : memo[t]["catalogue"] \in Deks)
          => \A d \in Docs : code["catalogue"][d] # "plain"

\* A code given out was opened with the key it is sealed under: a sealed one is
\* never taken for a code in the clear, in whatever order a pull delivers (#333).
ShownIsOpened ==
    \A s \in seen : s.sealed = "plain" \/ s.sealed = s.with
=============================================================================
