--------------------------- MODULE LocalCacheProofs ---------------------------
(***************************************************************************)
(* Theorems of LocalCache, for any number of tabs, projects, databases and *)
(* names:                                                                  *)
(*   - every document holds what documents of its kind hold;               *)
(*   - the cache implements AtomicCache: whatever the tabs interleave, a   *)
(*     request is applied to what is there, or fails;                      *)
(*   - a refresh keeps the local half of every project, and one that ends  *)
(*     well has written the whole list.                                    *)
(* All rest on ReadStands: what an operation has read and nobody has       *)
(* overtaken is what is there when it is put back.                         *)
(***************************************************************************)
EXTENDS LocalCache, TLAPS

Held(d) == Contents(d) \cup {None}
Content == CachedProject \cup LocalProjectEntry \cup Names \cup {None}

Operation == [at : {"idle", "get", "put"}, request : Request \cup {None},
              seen : [Documents -> Content], overtaken : SUBSET Documents,
              left : 0..WRITE_ATTEMPTS]

\* An operation under way has a request; one that is to put has read its documents.
OpTyped(t) ==
    /\ op[t].at = "idle" <=> op[t].request = None
    /\ op[t].at = "put" => \A d \in op[t].request.about : op[t].seen[d] \in Held(d)

TypeInv ==
    /\ mm \in [Documents -> Content] /\ \A d \in Documents : mm[d] \in Held(d)
    /\ op \in [Tabs -> Operation] /\ \A t \in Tabs : OpTyped(t)

\* A revision read is the last one, unless it has been overtaken.
ReadStands(t) ==
    op[t].at = "put" =>
        \A d \in op[t].request.about \ op[t].overtaken : mm[d] = op[t].seen[d]

IInv == TypeInv /\ \A t \in Tabs : ReadStands(t)

-------------------------------------------------------------------------------
(* 1. What a request makes of a document.                                       *)

\* A request is about documents of one kind.
LEMMA RequestKinds ==
  ASSUME NEW r \in Request
  PROVE  /\ r.about \subseteq Documents
         /\ r.op \in {"writeProjects", "setLocalState", "markAccessRemoved", "addLocalProject",
                      "updateLocalProject", "removeLocalProject", "writeProfile", "clearProfile"}
         /\ r.op = "writeProjects" => r.about = Projects /\ r.list \subseteq Projects
         /\ r.op = "setLocalState" => /\ r.here \in BOOLEAN
                                      /\ \E p \in Projects : r.about = {p}
         /\ r.op = "markAccessRemoved" => \E p \in Projects : r.about = {p}
         /\ r.op = "addLocalProject" => /\ r.entry \in LocalProjectEntry
                                        /\ \E d \in Indexed : r.about = {d}
         /\ r.op = "updateLocalProject" => /\ r.name \in Names
                                           /\ \E d \in Indexed : r.about = {d}
         /\ r.op = "removeLocalProject" => \E d \in Indexed : r.about = {d}
         /\ r.op = "writeProfile" => r.says \in Names /\ r.about = {Profile}
         /\ r.op = "clearProfile" => r.about = {Profile}
BY DEF Request, Documents

\* What a request makes of a document is a document of the same kind, or none.
LEMMA AfterTyped ==
  ASSUME NEW r \in Request, NEW d \in r.about, NEW old \in Held(d)
  PROVE  After(r, d, old) \in Held(d)
<1> USE CacheAssumption
<1>1. CASE r.op = "writeProjects"
  BY <1>1, RequestKinds DEF After, RefreshedProject, Held, Contents, CachedProject
<1>2. CASE r.op = "setLocalState"
  BY <1>2, RequestKinds DEF After, WithLocalState, Held, Contents, CachedProject
<1>3. CASE r.op = "markAccessRemoved"
  BY <1>3, RequestKinds DEF After, Held, Contents, CachedProject
<1>4. CASE r.op = "addLocalProject"
  BY <1>4, RequestKinds DEF After, Held, Contents
<1>5. CASE r.op = "updateLocalProject"
  BY <1>5, RequestKinds DEF After, Held, Contents, LocalProjectEntry
<1>6. CASE r.op = "writeProfile"
  BY <1>6, RequestKinds DEF After, Held, Contents
<1>7. CASE r.op \in {"removeLocalProject", "clearProfile"}
  BY <1>7, RequestKinds DEF After, Held
<1> QED BY <1>1, <1>2, <1>3, <1>4, <1>5, <1>6, <1>7, RequestKinds

LEMMA ProjectHeld ==
  ASSUME NEW p \in Projects
  PROVE  p \in Documents /\ Held(p) = CachedProject \cup {None}
<1>1. Contents(p) = CachedProject
  BY CacheAssumption DEF Contents
<1> QED BY <1>1 DEF Held, Documents

LEMMA HeldIsContent == \A d \in Documents : None \in Held(d) /\ Held(d) \subseteq Content
BY DEF Held, Content, Contents

-------------------------------------------------------------------------------
(* 2. The invariant.                                                            *)

LEMMA IdleTyped ==
  /\ Idle \in Operation
  /\ Idle.at = "idle" /\ Idle.request = None
BY HeldIsContent DEF Idle, Operation, WRITE_ATTEMPTS, Content

\* An operation that is to read: of a request just made, or made anew.
LEMMA ToReadTyped ==
  ASSUME NEW r \in Request, NEW n \in 0..WRITE_ATTEMPTS
  PROVE  LET o == [Idle EXCEPT !.at = "get", !.request = r, !.left = n]
         IN  o \in Operation /\ o.at = "get" /\ o.request = r
BY IdleTyped DEF Operation, Idle

\* The same of an operation that has a name.
IsToRead(r, o) == o \in Operation /\ o.at = "get" /\ o.request = r

LEMMA ToRead ==
  ASSUME NEW r \in Request, NEW n \in 0..WRITE_ATTEMPTS, NEW o,
         o = [Idle EXCEPT !.at = "get", !.request = r, !.left = n]
  PROVE  IsToRead(r, o)
<1> DEFINE a == [Idle EXCEPT !.at = "get", !.request = r, !.left = n]
<1>1. a \in Operation /\ a.at = "get" /\ a.request = r
  BY ToReadTyped, Zenon
<1>2. o = a
  OBVIOUS
<1> HIDE DEF a
<1> QED BY <1>1, <1>2, Zenon DEF IsToRead

\* The documents put are revisions that other operations have not read.
LEMMA LandedKeeps ==
  ASSUME IInv, NEW t \in Tabs, op[t].at = "put",
         NEW docs \in SUBSET op[t].request.about, NEW mine \in Operation,
         mine.at = "idle" <=> mine.request = None, mine.at # "put",
         Landed(t, docs, mine)
  PROVE  IInv'
<1> DEFINE r == op[t].request
<1>1. op[t] \in Operation /\ r \in Request /\ r.about \subseteq Documents
  BY RequestKinds DEF IInv, TypeInv, OpTyped, Operation
<1>2. \A d \in docs : After(r, d, op[t].seen[d]) \in Held(d)
  BY <1>1, AfterTyped DEF IInv, TypeInv, OpTyped
<1>3. mm' \in [Documents -> Content] /\ \A d \in Documents : mm'[d] \in Held(d)
  BY <1>1, <1>2, HeldIsContent DEF Landed, IInv, TypeInv
<1>4. ASSUME NEW u \in Tabs, u # t
      PROVE  /\ op'[u] \in Operation /\ op'[u].at = op[u].at
             /\ op'[u].request = op[u].request /\ op'[u].seen = op[u].seen
             /\ op[u].at = "put" =>
                  op'[u].overtaken = op[u].overtaken \cup (docs \cap op[u].request.about)
  <2>1. op[u] \in Operation
    BY DEF IInv, TypeInv
  <2>2. op'[u] = [op[u] EXCEPT !.overtaken =
                    IF op[u].at = "put" THEN @ \cup (docs \cap op[u].request.about) ELSE @]
    BY <1>4 DEF Landed
  <2> QED BY <1>1, <2>1, <2>2 DEF Operation
<1>5. op'[t] = mine
  BY DEF Landed
<1>6. op' \in [Tabs -> Operation]
  BY <1>4, <1>5 DEF Landed
<1>7. ASSUME NEW u \in Tabs PROVE OpTyped(u)' /\ ReadStands(u)'
  <2>1. CASE u = t
    BY <2>1, <1>5 DEF OpTyped, ReadStands
  <2>2. CASE u # t
    <3>1. OpTyped(u)'
      BY <2>2, <1>4 DEF IInv, TypeInv, OpTyped
    <3>2. ASSUME op'[u].at = "put", NEW d \in op'[u].request.about \ op'[u].overtaken
          PROVE  mm'[d] = op'[u].seen[d]
      <4>1. d \in op[u].request.about \ op[u].overtaken /\ d \notin docs
        BY <3>2, <2>2, <1>4
      <4>2. d \in Documents
        BY <3>2, <2>2, <1>4, RequestKinds DEF IInv, TypeInv, OpTyped, Operation
      <4>3. mm'[d] = mm[d]
        BY <4>1, <4>2 DEF Landed
      <4>4. mm[d] = op[u].seen[d]
        BY <3>2, <2>2, <1>4, <4>1 DEF IInv, ReadStands
      <4> QED BY <2>2, <1>4, <4>3, <4>4
    <3> QED BY <3>1, <3>2 DEF ReadStands
  <2> QED BY <2>1, <2>2
<1> QED BY <1>3, <1>6, <1>7 DEF IInv, TypeInv

\* The step of a tab that writes nothing changes its own operation alone.
LEMMA MineKeeps ==
  ASSUME IInv, NEW t \in Tabs, NEW mine \in Operation,
         mine.at = "idle" <=> mine.request = None,
         mine.at = "put" => \A d \in mine.request.about :
            mine.seen[d] \in Held(d) /\ (d \notin mine.overtaken => mine.seen[d] = mm[d]),
         op' = [op EXCEPT ![t] = mine], UNCHANGED mm
  PROVE  IInv'
<1>1. ASSUME NEW u \in Tabs PROVE OpTyped(u)' /\ ReadStands(u)'
  <2>1. CASE u = t
    BY <2>1 DEF OpTyped, ReadStands, IInv, TypeInv
  <2>2. CASE u # t
    BY <2>2 DEF OpTyped, ReadStands, IInv, TypeInv
  <2> QED BY <2>1, <2>2
<1> QED BY <1>1 DEF IInv, TypeInv

\* What a put writes, when it lands: documents of the request, as they are.
Refused(t) == {d \in Writes(op[t].request, op[t].seen) : Conflict(t, d)}
Again(t) == [Idle EXCEPT !.at = "get", !.request = op[t].request, !.left = op[t].left - 1]
Mine(t) == IF Refused(t) # {} /\ op[t].left > 1 THEN Again(t) ELSE Idle

LEMMA PutLands ==
  ASSUME IInv, NEW t \in Tabs, Put(t)
  PROVE  /\ op[t].at = "put" /\ op[t].request \in Request
         /\ Landed(t, Writes(op[t].request, op[t].seen) \ Refused(t), Mine(t))
         /\ Writes(op[t].request, op[t].seen) \subseteq op[t].request.about
         /\ \A d \in Writes(op[t].request, op[t].seen) \ Refused(t) : op[t].seen[d] = mm[d]
<1>1. op[t].at = "put" /\ Landed(t, Writes(op[t].request, op[t].seen) \ Refused(t), Mine(t))
  BY DEF Put, Refused, Again, Mine
<1>2. op[t].request \in Request
  BY <1>1 DEF IInv, TypeInv, OpTyped, Operation
<1>3. Writes(op[t].request, op[t].seen) \subseteq op[t].request.about
  BY DEF Writes
<1>4. ASSUME NEW d \in Writes(op[t].request, op[t].seen) \ Refused(t)
      PROVE  op[t].seen[d] = mm[d]
  BY <1>1, <1>3 DEF Refused, Conflict, IInv, ReadStands
<1> QED BY <1>1, <1>2, <1>3, <1>4

LEMMA MineTyped ==
  ASSUME IInv, NEW t \in Tabs, op[t].at = "put"
  PROVE  /\ Mine(t) \in Operation /\ Mine(t).at # "put"
         /\ Mine(t).at = "idle" <=> Mine(t).request = None
         /\ Mine(t) = Idle \/ /\ Refused(t) # {} /\ op[t].left > 1
                              /\ Mine(t).at = "get" /\ Mine(t).request = op[t].request
<1>1. op[t].request \in Request /\ op[t].left \in 0..WRITE_ATTEMPTS /\ op[t].request # None
  BY DEF IInv, TypeInv, OpTyped, Operation
<1>2. CASE Refused(t) # {} /\ op[t].left > 1
  <2>1. op[t].left - 1 \in 0..WRITE_ATTEMPTS
    BY <1>1, <1>2 DEF WRITE_ATTEMPTS
  <2>2. /\ Again(t) \in Operation
        /\ Again(t).at = "get" /\ Again(t).request = op[t].request
    <3> DEFINE r == op[t].request  n == op[t].left - 1
    <3>1. r \in Request /\ n \in 0..WRITE_ATTEMPTS
      BY <1>1, <2>1
    <3>2. Again(t) = [Idle EXCEPT !.at = "get", !.request = r, !.left = n]
      BY Zenon DEF Again
    <3> HIDE DEF n, r
    <3>3. IsToRead(r, Again(t))
      BY <3>1, <3>2, ToRead, Zenon
    <3> QED BY <3>3, Zenon DEF r, IsToRead
  <2> QED BY <1>1, <1>2, <2>2 DEF Mine
<1>3. CASE ~ (Refused(t) # {} /\ op[t].left > 1)
  BY <1>3, IdleTyped DEF Mine
<1> QED BY <1>2, <1>3

\* The invariant of an operation holds before and after every step of any tab.
LEMMA Inductive == IInv /\ [Next]_vars => IInv'
<1> SUFFICES ASSUME IInv, [Next]_vars PROVE IInv'
  OBVIOUS
<1>0. None \notin Request
  BY CacheAssumption
<1>1. ASSUME NEW t \in Tabs, NEW r \in Request, Ask(t, r) PROVE IInv'
  <2> DEFINE mine == [Idle EXCEPT !.at = "get", !.request = r, !.left = Attempts(r)]
  <2>1. Attempts(r) \in 0..WRITE_ATTEMPTS
    BY DEF Attempts, WRITE_ATTEMPTS
  <2>2. mine \in Operation /\ mine.at = "get" /\ mine.request = r
    BY <2>1, ToReadTyped
  <2>3. op' = [op EXCEPT ![t] = mine] /\ UNCHANGED mm
    BY <1>1 DEF Ask
  <2> QED BY <1>0, <2>2, <2>3, MineKeeps
<1>2. ASSUME NEW t \in Tabs, Get(t) PROVE IInv'
  <2> DEFINE read == [d \in Documents |-> IF d \in op[t].request.about THEN mm[d] ELSE None]
             asked == [op[t] EXCEPT !.at = "put", !.seen = read, !.overtaken = {}]
             mine == IF Writes(op[t].request, read) = {} THEN Idle ELSE asked
  <2>1. op[t] \in Operation /\ op[t].request \in Request /\ op[t].request.about \subseteq Documents
    BY <1>2, RequestKinds DEF Get, IInv, TypeInv, OpTyped, Operation
  <2>2. read \in [Documents -> Content]
    BY HeldIsContent DEF IInv, TypeInv
  <2>3. asked \in Operation /\ asked.at = "put" /\ asked.request = op[t].request
        /\ asked.seen = read
    BY <2>1, <2>2 DEF Operation
  <2>4. \A d \in op[t].request.about : read[d] \in Held(d) /\ read[d] = mm[d]
    BY <2>1 DEF IInv, TypeInv
  <2>5. op' = [op EXCEPT ![t] = mine] /\ UNCHANGED mm
    BY <1>2 DEF Get
  <2>6. CASE mine = Idle
    BY <2>5, <2>6, IdleTyped, MineKeeps
  <2>7. CASE mine = asked
    <3> HIDE DEF mine, asked, read
    <3> QED BY <1>0, <2>1, <2>3, <2>4, <2>5, <2>7, MineKeeps
  <2> QED BY <2>6, <2>7
<1>3. ASSUME NEW t \in Tabs, Put(t) PROVE IInv'
  <2> DEFINE docs == Writes(op[t].request, op[t].seen) \ Refused(t)
  <2>1. op[t].at = "put" /\ docs \in SUBSET op[t].request.about /\ Landed(t, docs, Mine(t))
    BY <1>3, PutLands
  <2> QED BY <2>1, MineTyped, LandedKeeps
<1>4. ASSUME NEW t \in Tabs, Fails(t) PROVE IInv'
  BY <1>4, IdleTyped, MineKeeps DEF Fails
<1>5. CASE Clear
  BY <1>5, IdleTyped, HeldIsContent DEF Clear, IInv, TypeInv, OpTyped, ReadStands
<1>6. CASE UNCHANGED vars
  BY <1>6 DEF vars, IInv, TypeInv, OpTyped, ReadStands
<1> QED BY <1>1, <1>2, <1>3, <1>4, <1>5, <1>6 DEF Next

LEMMA Initially == Init => IInv
BY IdleTyped, HeldIsContent DEF Init, IInv, TypeInv, OpTyped, ReadStands

LEMMA Invariance == Spec => []IInv
BY Initially, Inductive, PTL DEF Spec

\* Whatever the tabs interleave, every document of mm-local is missing or what a
\* document of its kind is, and every operation is at a step it can be at
\* (data/local-cache.ts).
THEOREM TypeCorrect == Spec => []TypeOK
<1>1. IInv => TypeOK
  BY DEF IInv, TypeInv, Held, Operation, TypeOK
<1> QED BY <1>1, Invariance, PTL

-------------------------------------------------------------------------------
(* 3. The cache implements AtomicCache.                                         *)

requests == [t \in Tabs |-> op[t].request]

\* Both specifications speak of the same documents and requests.
LEMMA SameChanges ==
  /\ Atomic!Documents = Documents /\ Atomic!Request = Request
  /\ \A r, d, old : Atomic!After(r, d, old) = After(r, d, old)
<1>1. Atomic!Documents = Documents
  BY DEF Documents, Atomic!Documents
<1>2. Atomic!Request = Request
  BY DEF Request, Atomic!Request, LocalProjectEntry, Atomic!LocalProjectEntry
<1>3. ASSUME NEW r, NEW d, NEW old PROVE Atomic!After(r, d, old) = After(r, d, old)
  BY DEF After, RefreshedProject, WithLocalState,
         Atomic!After, Atomic!RefreshedProject, Atomic!WithLocalState
<1> QED BY <1>1, <1>2, <1>3

LEMMA NothingAsked == Init => Atomic!Init
BY SameChanges DEF Init, Idle, Atomic!Init

\* The abstract step, as what it takes to have made it.
LEMMA Applied ==
  ASSUME NEW t \in Tabs, requests[t] # None, NEW docs \in SUBSET requests[t].about,
         mm' = [d \in Documents |-> IF d \in docs THEN After(requests[t], d, mm[d]) ELSE mm[d]],
         requests' = requests \/ requests' = [requests EXCEPT ![t] = None]
  PROVE  Atomic!Apply(t)
BY SameChanges DEF Atomic!Apply, requests

\* A put is one moment at which the request is applied to what is there.
LEMMA PutApplies ==
  ASSUME IInv, NEW t \in Tabs, Put(t)
  PROVE  Atomic!Apply(t)
<1> DEFINE docs == Writes(op[t].request, op[t].seen) \ Refused(t)
<1>1. /\ op[t].at = "put" /\ op[t].request \in Request /\ docs \in SUBSET op[t].request.about
      /\ Landed(t, docs, Mine(t))
      /\ \A d \in docs : op[t].seen[d] = mm[d]
  BY PutLands
<1>2. mm' = [d \in Documents |->
               IF d \in docs THEN After(op[t].request, d, mm[d]) ELSE mm[d]]
  BY <1>1 DEF Landed
<1>3. \A u \in Tabs \ {t} : op'[u].request = op[u].request
  BY <1>1 DEF Landed, IInv, TypeInv, Operation
<1>4. op'[t] = Mine(t)
  BY <1>1 DEF Landed
<1>5. requests' = requests \/ requests' = [requests EXCEPT ![t] = None]
  BY <1>1, <1>3, <1>4, MineTyped, IdleTyped DEF requests
<1>6. requests[t] = op[t].request /\ requests[t] # None
  BY <1>1, CacheAssumption DEF requests
<1> QED BY <1>1, <1>2, <1>5, <1>6, Applied

\* Every step is one of the abstract cache, or leaves what it speaks of alone.
LEMMA StepAbstract == IInv /\ [Next]_vars => [Atomic!Next]_(Atomic!vars)
<1> SUFFICES ASSUME IInv, [Next]_vars
             PROVE  Atomic!Next \/ UNCHANGED <<mm, requests>>
  BY DEF Atomic!vars, requests
<1>0. \A t \in Tabs : requests[t] = op[t].request
  BY DEF requests
<1>1. ASSUME NEW t \in Tabs, NEW r \in Request, Ask(t, r) PROVE Atomic!Ask(t)
  <2>1. op[t].at = "idle" /\ UNCHANGED mm
        /\ op' = [op EXCEPT ![t] = [Idle EXCEPT !.at = "get", !.request = r,
                                                !.left = Attempts(r)]]
    BY <1>1 DEF Ask
  <2>2. requests[t] = None
    BY <2>1, <1>0 DEF IInv, TypeInv, OpTyped
  <2>3. requests' = [requests EXCEPT ![t] = r]
    BY <2>1 DEF requests, IInv, TypeInv, Idle
  <2> QED BY <2>1, <2>2, <2>3, SameChanges DEF Atomic!Ask, requests
<1>2. ASSUME NEW t \in Tabs, op[t].at # "idle", op' = [op EXCEPT ![t] = Idle], UNCHANGED mm
      PROVE  Atomic!Apply(t)
  <2>1. requests[t] # None
    BY <1>0, <1>2 DEF IInv, TypeInv, OpTyped
  <2>2. requests' = [requests EXCEPT ![t] = None]
    BY <1>2, IdleTyped DEF requests, IInv, TypeInv
  <2> DEFINE none == {}
  <2>3. mm' = [d \in Documents |->
                 IF d \in none THEN After(requests[t], d, mm[d]) ELSE mm[d]]
    BY <1>2 DEF IInv, TypeInv
  <2>4. none \in SUBSET requests[t].about
    OBVIOUS
  <2> HIDE DEF none
  <2> QED BY <2>1, <2>2, <2>3, <2>4, Applied
<1>3. ASSUME NEW t \in Tabs, Get(t) PROVE Atomic!Apply(t) \/ UNCHANGED <<mm, requests>>
  <2> DEFINE read == [d \in Documents |-> IF d \in op[t].request.about THEN mm[d] ELSE None]
  <2>1. CASE Writes(op[t].request, read) = {}
    BY <1>2, <1>3, <2>1 DEF Get
  <2>2. CASE Writes(op[t].request, read) # {}
    <3>1. op' = [op EXCEPT ![t] = [@ EXCEPT !.at = "put", !.seen = read, !.overtaken = {}]]
          /\ UNCHANGED mm
      BY <1>3, <2>2 DEF Get
    <3>2. op[t] \in Operation
      BY DEF IInv, TypeInv
    <3> HIDE DEF read
    <3>3. op'[t].request = op[t].request
      BY <3>1, <3>2 DEF IInv, TypeInv, Operation
    <3> QED BY <3>1, <3>3 DEF requests, IInv, TypeInv
  <2> QED BY <2>1, <2>2
<1>4. ASSUME NEW t \in Tabs, Put(t) PROVE Atomic!Apply(t)
  BY <1>4, PutApplies
<1>5. ASSUME NEW t \in Tabs, Fails(t) PROVE Atomic!Apply(t)
  BY <1>2, <1>5 DEF Fails
<1>6. CASE Clear
  <2>1. Atomic!Clear
    BY <1>6, IdleTyped, SameChanges DEF Clear, Atomic!Clear
  <2> QED BY <2>1 DEF Atomic!Next
<1>7. CASE UNCHANGED vars
  BY <1>7 DEF vars, requests
<1> QED BY <1>1, <1>3, <1>4, <1>5, <1>6, <1>7 DEF Next, Atomic!Next

\* amend(), rewriteEntry() and writeProjects() apply a change to the documents as they are at
\* one moment, however many tabs read and put at once, or they fail: what the rest of the
\* program relies on (AtomicCache) is what the reads, the revisions and the retries give.
THEOREM ImplementsAtomicCache == Spec => AtomicChanges
<1>1. Spec => Atomic!Init /\ [][Atomic!Next]_(Atomic!vars)
  BY NothingAsked, StepAbstract, Invariance, PTL DEF Spec
<1> QED BY <1>1 DEF AtomicChanges, Atomic!Spec

-------------------------------------------------------------------------------
(* 4. What a refresh of the list keeps, and what it writes.                     *)

\* No operation but the setting of its local state gives up a downloaded project.
LEMMA DownloadedKept ==
  ASSUME NEW r \in Request, NEW p \in r.about \cap Projects, NEW old \in CachedProject,
         old.downloaded, ~ (r.op = "setLocalState" /\ r.about = {p})
  PROVE  After(r, p, old) \in CachedProject /\ After(r, p, old).downloaded
<1> USE CacheAssumption
<1>1. CASE r.op = "writeProjects"
  BY <1>1 DEF After, RefreshedProject, CachedProject
<1>2. CASE r.op = "markAccessRemoved"
  BY <1>2 DEF After, CachedProject
<1> QED BY <1>1, <1>2, RequestKinds

LEMMA StepKeepsLocalHalf ==
  ASSUME IInv, [Next]_vars, NEW p \in Projects, mm[p] # None, mm[p].downloaded
  PROVE  \/ mm'[p] # None /\ mm'[p].downloaded
         \/ mm' = [d \in Documents |-> None]
         \/ \E t \in Tabs : /\ op[t].at = "put" /\ op[t].request.op = "setLocalState"
                            /\ op[t].request.about = {p}
<1>1. p \in Documents /\ mm[p] \in CachedProject
  BY ProjectHeld DEF IInv, TypeInv
<1>2. ASSUME NEW t \in Tabs, Put(t)
      PROVE  \/ mm'[p] # None /\ mm'[p].downloaded
             \/ /\ op[t].at = "put" /\ op[t].request.op = "setLocalState"
                /\ op[t].request.about = {p}
  <2> DEFINE docs == Writes(op[t].request, op[t].seen) \ Refused(t)
  <2>1. /\ op[t].at = "put" /\ op[t].request \in Request /\ docs \in SUBSET op[t].request.about
        /\ Landed(t, docs, Mine(t)) /\ \A d \in docs : op[t].seen[d] = mm[d]
    BY <1>2, PutLands
  <2>2. CASE p \notin docs
    BY <1>1, <2>1, <2>2 DEF Landed
  <2>3. CASE p \in docs /\ ~ (op[t].request.op = "setLocalState" /\ op[t].request.about = {p})
    <3>1. mm'[p] = After(op[t].request, p, mm[p])
      BY <1>1, <2>1, <2>3 DEF Landed
    <3>2. mm'[p] \in CachedProject /\ mm'[p].downloaded
      BY <1>1, <2>1, <2>3, <3>1, DownloadedKept
    <3> QED BY <3>2, CacheAssumption
  <2> QED BY <2>1, <2>2, <2>3
<1>3. ASSUME UNCHANGED mm PROVE mm'[p] # None /\ mm'[p].downloaded
  BY <1>3
<1> QED BY <1>2, <1>3 DEF Next, Ask, Get, Fails, Clear, vars

\* An attempt that is not followed by another has put every document it writes.
LEMMA WholeWhenDone ==
  ASSUME IInv, NEW t \in Tabs, Put(t), op[t].request.op = "writeProjects", op[t].left > 1,
         op'[t] = Idle, NEW p \in Projects
  PROVE  IF p \in op[t].request.list THEN mm'[p] # None /\ ~mm'[p].accessRemoved
         ELSE op[t].seen[p] = None \/ mm'[p] = None \/ mm'[p].accessRemoved
<1> DEFINE r == op[t].request
           seen == op[t].seen
           docs == Writes(r, seen)
<1>1. /\ op[t].at = "put" /\ r \in Request /\ docs \subseteq r.about
      /\ Landed(t, docs \ Refused(t), Mine(t))
  BY PutLands
<1>2. op'[t] = Mine(t)
  BY <1>1 DEF Landed
<1>3. Refused(t) = {}
  BY <1>2, IdleTyped DEF Mine, Again, Idle
<1>4. mm' = [d \in Documents |-> IF d \in docs THEN After(r, d, seen[d]) ELSE mm[d]]
  BY <1>1, <1>3 DEF Landed
<1>5. p \in Documents /\ p \in r.about /\ seen[p] \in CachedProject \cup {None}
  BY <1>1, RequestKinds, ProjectHeld DEF IInv, TypeInv, OpTyped
<1>6. After(r, p, seen[p]) = RefreshedProject(p \in r.list, seen[p])
  BY DEF After
<1>7. CASE p \in r.list
  <2>1. /\ After(r, p, seen[p]) \in CachedProject
        /\ ~ After(r, p, seen[p]).accessRemoved
    BY <1>5, <1>6, <1>7 DEF RefreshedProject, CachedProject
  <2>2. p \in docs
    BY <1>5, <2>1, CacheAssumption DEF Writes
  <2> QED BY <1>4, <1>5, <1>7, <2>1, <2>2, CacheAssumption
<1>8. CASE p \notin r.list /\ seen[p] # None
  <2>1. p \in docs
    BY <1>5, <1>8 DEF Writes
  <2>2. \/ After(r, p, seen[p]) = None
        \/ After(r, p, seen[p]).accessRemoved
    BY <1>5, <1>6, <1>8 DEF RefreshedProject, CachedProject
  <2> QED BY <1>4, <1>5, <1>8, <2>1, <2>2
<1> QED BY <1>7, <1>8

\* writeProjects() carries the local half of every entry across: only setLocalState() of the
\* project itself, or clear(), makes it one that is not downloaded; and a refresh that ends
\* before its last attempt has written the whole list, whatever earlier attempts wrote of it.
THEOREM RefreshesKeep == Spec => RefreshKeeps
<1> DEFINE Kept(p) == mm[p] # None /\ mm[p].downloaded =>
              \/ mm'[p] # None /\ mm'[p].downloaded
              \/ mm' = [d \in Documents |-> None]
              \/ \E t \in Tabs : op[t].at = "put" /\ op[t].request.op = "setLocalState"
                                 /\ op[t].request.about = {p}
           Whole(t) == Put(t) /\ op[t].request.op = "writeProjects" /\ op[t].left > 1
                       /\ op'[t] = Idle
              => \A p \in Projects :
                    IF p \in op[t].request.list THEN mm'[p] # None /\ ~mm'[p].accessRemoved
                    ELSE op[t].seen[p] = None \/ mm'[p] = None \/ mm'[p].accessRemoved
<1>1. IInv /\ [Next]_vars => [\A p \in Projects : Kept(p)]_vars
  BY StepKeepsLocalHalf
<1>2. IInv /\ [Next]_vars => [\A t \in Tabs : Whole(t)]_vars
  BY WholeWhenDone
<1>3. Spec => [][\A p \in Projects : Kept(p)]_vars
  BY <1>1, Invariance, PTL DEF Spec
<1>4. Spec => [][\A t \in Tabs : Whole(t)]_vars
  BY <1>2, Invariance, PTL DEF Spec
<1> QED BY <1>3, <1>4 DEF RefreshKeeps, LocalHalfKept, RefreshIsWhole
===============================================================================
