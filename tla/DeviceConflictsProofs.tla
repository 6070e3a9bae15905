------------------------ MODULE DeviceConflictsProofs ------------------------
(***************************************************************************)
(* Proofs about DeviceConflicts, for any number of databases, tabs,        *)
(* remarks, edits and generations: no remark and no catalogue block is     *)
(* lost, and the databases together implement RemarkLog.                   *)
(***************************************************************************)
EXTENDS DeviceConflicts, FiniteSetTheorems, WellFoundedInduction, TLAPS

-----------------------------------------------------------------------------
(* The orders have greatest elements. *)

\* A nonempty set of naturals below a bound has a maximum.
LEMMA BoundedMax ==
    ASSUME NEW m \in Nat, NEW T \in SUBSET (0..m), T # {}
    PROVE  \E x \in T : \A y \in T : y <= x
<1> DEFINE D == {m - x : x \in T}
<1>1. D \subseteq Nat /\ D # {}
  <2>1. ASSUME NEW x \in T PROVE m - x \in Nat
    OBVIOUS
  <2>2. PICK x \in T : TRUE
    OBVIOUS
  <2>3. m - x \in D
    BY <2>2 DEF D
  <2> QED
    BY <2>1, <2>3 DEF D
<1>2. \E d \in D : \A e \in D : ~ (<<e, d>> \in OpToRel(<, Nat))
  BY <1>1, NatLessThanWellFounded, WFMin
<1>3. PICK d \in D : \A e \in D : ~ (e < d)
  BY <1>1, <1>2 DEF OpToRel
<1>4. PICK x \in T : d = m - x
  BY DEF D
<1>5. \A y \in T : ~ (m - y < m - x)
  BY <1>3, <1>4 DEF D
<1> QED
  BY <1>4, <1>5

\* A revision has the fields its set gives it, each of its type.
LEMMA RevisionFields ==
    ASSUME NEW v \in Revision
    PROVE  /\ v.id \in RevIds /\ v.id.gen \in 1..MaxGen /\ v.id.hash \in 0..MaxHash
           /\ v.past \in SUBSET RevIds /\ v.deleted \in BOOLEAN
           /\ v.remarks \in SUBSET Remarks
           /\ v.updatedAt \in Nat /\ v.checkedAt \in Nat
           /\ v.updatedAt \in Clock \cup {0} /\ v.checkedAt \in Lookups \cup {0}
<1>1. /\ v.id \in RevIds /\ v.past \in SUBSET RevIds /\ v.deleted \in BOOLEAN
      /\ v.remarks \in SUBSET Remarks
      /\ v.updatedAt \in Clock \cup {0} /\ v.checkedAt \in Lookups \cup {0}
  BY DEF Revision
<1>2. v.id.gen \in 1..MaxGen /\ v.id.hash \in 0..MaxHash
  BY <1>1 DEF RevIds, Hashes
<1>3. Clock \cup {0} \subseteq Nat /\ Lookups \cup {0} \subseteq Nat
  BY ConstantsAssumption DEF ConstantsAssumption
<1>4. v.updatedAt \in Nat
  BY <1>1, <1>3
<1>5. v.checkedAt \in Nat
  BY <1>1, <1>3
<1> QED
  BY <1>1, <1>2, <1>4, <1>5

\* A nonempty set of revisions has one with the greatest id.
LEMMA GreatestId ==
    ASSUME NEW S \in SUBSET Revision, S # {}
    PROVE  \E w \in S : \A v \in S : v.id = w.id \/ RevBefore(v.id, w.id)
<1> DEFINE G == {v.id.gen : v \in S}
<1>1. G \in SUBSET (0..MaxGen) /\ G # {} /\ MaxGen \in Nat /\ MaxHash \in Nat
  BY RevisionFields, ConstantsAssumption DEF ConstantsAssumption, G
<1>2. PICK g \in G : \A h \in G : h <= g
  BY <1>1, BoundedMax
<1> DEFINE Top == {v \in S : v.id.gen = g}
<1> DEFINE H == {v.id.hash : v \in Top}
<1>3. PICK v \in S : v.id.gen = g
  BY DEF G
<1>4. v \in Top
  BY <1>3 DEF Top
<1>5. H \in SUBSET (0..MaxHash)
  BY RevisionFields DEF H, Top
<1>6. v.id.hash \in H
  BY <1>4 DEF H
<1>7. PICK h \in H : \A i \in H : i <= h
  BY <1>1, <1>5, <1>6, BoundedMax
<1>8. PICK w \in Top : w.id.hash = h
  BY DEF H
<1>9. ASSUME NEW u \in S
      PROVE  u.id = w.id \/ RevBefore(u.id, w.id)
  <2>1. u \in Revision /\ w \in Revision /\ w \in S /\ w.id.gen = g
    BY DEF Top
  <2>2. u.id.gen \in Nat /\ w.id.gen \in Nat /\ u.id.hash \in Nat /\ w.id.hash \in Nat
    BY <2>1, RevisionFields, <1>1
  <2>3. u.id.gen <= w.id.gen
    BY <1>2, <2>1 DEF G
  <2>4. CASE u.id.gen < w.id.gen
    BY <2>4 DEF RevBefore
  <2>5. CASE u.id.gen = w.id.gen
    <3>1. u.id.hash <= w.id.hash
      BY <2>1, <2>5, <1>7, <1>8 DEF H, Top
    <3>2. CASE u.id.hash < w.id.hash
      BY <2>5, <3>2 DEF RevBefore
    <3>3. CASE u.id.hash = w.id.hash
      <4>1. u.id \in [gen : 1..MaxGen, hash : Hashes] /\ w.id \in [gen : 1..MaxGen, hash : Hashes]
        BY <2>1, RevisionFields DEF RevIds
      <4> QED
        BY <4>1, <2>5, <3>3
    <3> QED
      BY <3>1, <3>2, <3>3, <2>2
  <2> QED
    BY <2>2, <2>3, <2>4, <2>5
<1> QED
  BY <1>9, <1>8 DEF Top

\* Every set of values a clock may show has a latest one.
LEMMA LatestClock ==
    ASSUME NEW T \in SUBSET (Clock \cup {0}), T # {}
    PROVE  \E x \in T : \A y \in T : y <= x
<1>1. PICK last \in Clock : \A c \in Clock : c <= last
  BY ConstantsAssumption DEF ConstantsAssumption
<1>2. last \in Nat /\ T \in SUBSET (0..last)
  BY <1>1, ConstantsAssumption DEF ConstantsAssumption
<1> QED
  BY <1>2, BoundedMax

\* Every set of lookups has a latest one.
LEMMA LatestLookup ==
    ASSUME NEW T \in SUBSET (Lookups \cup {0}), T # {}
    PROVE  \E x \in T : \A y \in T : y <= x
<1>1. CASE Lookups = {}
  BY <1>1
<1>2. CASE Lookups # {}
  <2>1. PICK last \in Lookups : \A c \in Lookups : c <= last
    BY <1>2, ConstantsAssumption DEF ConstantsAssumption
  <2>2. last \in Nat /\ T \in SUBSET (0..last)
    BY <2>1, ConstantsAssumption DEF ConstantsAssumption
  <2> QED
    BY <2>2, BoundedMax
<1> QED
  BY <1>1, <1>2

\* The order of scalars, and the order of catalogue blocks, are total on
\* revisions with different ids, so the CHOOSEs of Revisions are defined.
LEMMA LatestExists ==
    ASSUME NEW S \in SUBSET Revision, S # {}, \A u, v \in S : u.id = v.id => u = v
    PROVE  \E r \in S : \A s \in S \ {r} : LosesTo(s, r)
<1> DEFINE T == {v.updatedAt : v \in S}
<1>1. T \in SUBSET (Clock \cup {0}) /\ T # {}
  BY RevisionFields DEF T
<1>2. PICK t \in T : \A y \in T : y <= t
  BY <1>1, LatestClock
<1> DEFINE Top == {v \in S : v.updatedAt = t}
<1>3. Top \in SUBSET Revision /\ Top # {}
  BY DEF T, Top
<1>4. PICK w \in Top : \A v \in Top : v.id = w.id \/ RevBefore(v.id, w.id)
  BY <1>3, GreatestId
<1>5. ASSUME NEW v \in S \ {w}
      PROVE  LosesTo(v, w)
  <2>1. v.updatedAt <= w.updatedAt /\ v.updatedAt \in Nat /\ w.updatedAt \in Nat
    BY <1>2, RevisionFields DEF T, Top
  <2>2. CASE v.updatedAt < w.updatedAt
    BY <2>2 DEF LosesTo
  <2>3. CASE v.updatedAt = w.updatedAt
    <3>1. v \in Top /\ v.id # w.id
      BY <2>3 DEF Top
    <3> QED
      BY <3>1, <1>4, <2>3 DEF LosesTo
  <2> QED
    BY <2>1, <2>2, <2>3
<1> QED
  BY <1>5 DEF Top

\* latestRevision returns a member that every other one loses to.
LEMMA LatestRevisionIsLatest ==
    ASSUME NEW S \in SUBSET Revision, S # {}, \A u, v \in S : u.id = v.id => u = v
    PROVE  /\ LatestRevision(S) \in S
           /\ \A v \in S : v.updatedAt <= LatestRevision(S).updatedAt
<1> DEFINE L == LatestRevision(S)
<1>7. L \in S /\ \A s \in S \ {L} : LosesTo(s, L)
  BY LatestExists DEF LatestRevision, L
<1>8. ASSUME NEW v \in S
      PROVE  v.updatedAt <= L.updatedAt
  <2>1. v.updatedAt \in Nat /\ L.updatedAt \in Nat
    BY <1>7, RevisionFields
  <2>2. CASE v = L
    BY <2>1, <2>2
  <2>3. CASE v # L
    <3>1. LosesTo(v, L)
      BY <1>7, <2>3
    <3> QED
      BY <3>1, <2>1 DEF LosesTo
  <2> QED
    BY <2>2, <2>3
<1> QED
  BY <1>7, <1>8 DEF L

\* The catalogue block a merge takes is the newest of its inputs.
LEMMA CatalogueIsNewest ==
    ASSUME NEW S \in SUBSET Revision, S # {}, \A u, v \in S : u.id = v.id => u = v
    PROVE  /\ CatalogueOf(S) \in Lookups \cup {0}
           /\ \A v \in S : v.checkedAt <= CatalogueOf(S)
<1>1. CASE Checked(S) = {}
  BY <1>1, RevisionFields DEF Checked, CatalogueOf
<1>2. CASE Checked(S) # {}
  <2> DEFINE C == Checked(S)
  <2> DEFINE T == {v.checkedAt : v \in C}
  <2>1. C \in SUBSET Revision /\ C \subseteq S
    BY DEF Checked, C
  <2>2. T \in SUBSET (Lookups \cup {0}) /\ T # {}
    BY <1>2, <2>1, RevisionFields DEF T, C
  <2>3. PICK t \in T : \A y \in T : y <= t
    BY <2>2, LatestLookup
  <2> DEFINE Top == {v \in C : v.checkedAt = t}
  <2>4. Top \in SUBSET Revision /\ Top # {} /\ \A u, v \in Top : u.id = v.id => u = v
    BY <2>1 DEF T, Top
  <2>6. \E r \in C : \A s \in C \ {r} :
          s.checkedAt < r.checkedAt \/ (s.checkedAt = r.checkedAt /\ LosesTo(s, r))
    <3>1. PICK m \in Top : \A s \in Top \ {m} : LosesTo(s, m)
      BY <2>4, LatestExists
    <3>2. ASSUME NEW s \in C \ {m}
          PROVE  s.checkedAt < m.checkedAt \/ (s.checkedAt = m.checkedAt /\ LosesTo(s, m))
      <4>1. s.checkedAt <= m.checkedAt /\ s.checkedAt \in Nat /\ m.checkedAt \in Nat
        BY <2>3, <2>1, <2>4, RevisionFields DEF T, Top
      <4>2. CASE s.checkedAt = m.checkedAt
        <5>1. s \in Top \ {m}
          BY <4>2 DEF Top
        <5> QED
          BY <5>1, <3>1, <4>2
      <4> QED
        BY <4>1, <4>2
    <3> QED
      BY <3>2 DEF Top
  <2> DEFINE R == CatalogueSource(S)
  <2>7. R \in C /\ \A s \in C \ {R} :
          s.checkedAt < R.checkedAt \/ (s.checkedAt = R.checkedAt /\ LosesTo(s, R))
    BY <2>6 DEF CatalogueSource, R, C
  <2>8. ASSUME NEW v \in S
        PROVE  v.checkedAt <= R.checkedAt
    <3>1. v.checkedAt \in Nat /\ R.checkedAt \in Nat
      BY <2>1, <2>7, RevisionFields
    <3> QED
      BY <3>1, <2>7 DEF C, Checked
  <2>9. CatalogueOf(S) = R.checkedAt
    BY <1>2 DEF CatalogueOf, R
  <2> QED
    BY <2>1, <2>7, <2>8, <2>9, RevisionFields
<1> QED
  BY <1>1, <1>2

\* The winner of a read is live, and every other live leaf precedes it.
LEMMA WinnerIsGreatest ==
    ASSUME NEW S \in SUBSET Revision, \A u, v \in S : u.id = v.id => u = v, Live(S) # {}
    PROVE  /\ Winner(S) \in Live(S)
           /\ \A v \in Live(S) \ {Winner(S)} : RevBefore(v.id, Winner(S).id)
<1>1. Live(S) \in SUBSET Revision /\ Live(S) \subseteq S
  BY DEF Live, Leaves
<1>2. PICK w \in Live(S) : \A v \in Live(S) : v.id = w.id \/ RevBefore(v.id, w.id)
  BY <1>1, GreatestId
<1>3. \A v \in Live(S) \ {w} : RevBefore(v.id, w.id)
  BY <1>1, <1>2
<1> QED
  BY <1>3 DEF Winner
-----------------------------------------------------------------------------
(* What is written, and how the revision tree grows. *)

\* Every revision in any database is a revision.
LEMMA AllTyped ==
    ASSUME TypeOK
    PROVE  /\ All \in SUBSET Revision
           /\ \A t \in Tabs : Local(t) \in SUBSET Revision /\ Local(t) \subseteq All
           /\ \A d \in Databases : store[d] \in SUBSET Revision /\ store[d] \subseteq All
BY ConstantsAssumption DEF ConstantsAssumption, TypeOK, All, Local

\* A write makes a child of the revision it is put on, one generation later,
\* with an id that is new or names that very child.
LEMMA MintedIsChild ==
    ASSUME TypeOK, NEW p \in Revision, NEW v \in Revision, NEW m \in Minted(p, v)
    PROVE  /\ m \in Revision
           /\ m.past = p.past \cup {p.id} /\ m.id.gen = p.id.gen + 1
           /\ m.deleted = v.deleted /\ m.remarks = v.remarks
           /\ m.updatedAt = v.updatedAt /\ m.checkedAt = v.checkedAt
           /\ m \in All \/ \A u \in All : u.id # m.id
<1> DEFINE child(h) == [v EXCEPT !.id = [gen |-> p.id.gen + 1, hash |-> h],
                                 !.past = p.past \cup {p.id}]
<1>1. p.id.gen < MaxGen /\ p.id.gen \in Nat /\ MaxGen \in Nat
  <2>1. p.id.gen \in Nat /\ MaxGen \in Nat
    BY RevisionFields, ConstantsAssumption DEF ConstantsAssumption
  <2>2. ~(p.id.gen >= MaxGen)
    BY DEF Minted
  <2> QED
    BY <2>1, <2>2
<1>2. PICK h \in Hashes : m = child(h) /\ (child(h) \in All \/ child(h).id \notin {u.id : u \in All})
  BY <1>1 DEF Minted, child
<1>3. p.id.gen + 1 \in 1..MaxGen
  BY <1>1
<1>4. [gen |-> p.id.gen + 1, hash |-> h] \in RevIds
  BY <1>3 DEF RevIds
<1>5. p.past \cup {p.id} \in SUBSET RevIds
  BY RevisionFields
<1>6. v \in [id : RevIds, past : SUBSET RevIds, deleted : BOOLEAN,
             remarks : SUBSET Remarks, name : Names \cup {"first", "none"},
             updatedAt : Clock \cup {0}, checkedAt : Lookups \cup {0}]
  BY DEF Revision
<1>7. child(h) \in Revision
  BY <1>4, <1>5, <1>6 DEF child, Revision
<1>8. /\ child(h).id = [gen |-> p.id.gen + 1, hash |-> h]
      /\ child(h).past = p.past \cup {p.id}
      /\ child(h).deleted = v.deleted /\ child(h).remarks = v.remarks
      /\ child(h).updatedAt = v.updatedAt /\ child(h).checkedAt = v.checkedAt
  BY <1>6 DEF child
<1> HIDE DEF child
<1>9. m.id.gen = p.id.gen + 1
  BY <1>2, <1>8
<1>10. m \in All \/ \A u \in All : u.id # m.id
  BY <1>2
<1> QED
  BY <1>2, <1>7, <1>8, <1>9, <1>10

\* A tombstone is a revision that says nothing.
LEMMA TombstoneTyped ==
    ASSUME NEW v \in Revision
    PROVE  /\ Tombstone(v) \in Revision /\ Tombstone(v).deleted
           /\ Tombstone(v).remarks = {} /\ Tombstone(v).checkedAt = 0
BY DEF Tombstone, Revision

\* A merge carries every revision it merges.
LEMMA MergedCarries ==
    ASSUME NEW S \in SUBSET Revision, S # {}, \A u, v \in S : u.id = v.id => u = v,
           \A v \in S : ~v.deleted
    PROVE  /\ Merged(S) \in Revision /\ ~Merged(S).deleted
           /\ \A v \in S : Carries(Merged(S), v) /\ v.updatedAt <= Merged(S).updatedAt
<1> DEFINE L == LatestRevision(S)
<1> DEFINE R == UNION {v.remarks : v \in S}
<1>1. L \in S /\ L \in Revision /\ ~L.deleted /\ \A v \in S : v.updatedAt <= L.updatedAt
  BY LatestRevisionIsLatest DEF L
<1>2. CatalogueOf(S) \in Lookups \cup {0} /\ \A v \in S : v.checkedAt <= CatalogueOf(S)
  BY CatalogueIsNewest
<1>3. R \in SUBSET Remarks /\ \A v \in S : v.remarks \subseteq R
  BY RevisionFields DEF R
<1>4. Merged(S) = [L EXCEPT !.remarks = R, !.checkedAt = CatalogueOf(S)]
  BY DEF Merged, L, R
<1> HIDE DEF L, R
<1>5. /\ Merged(S) \in Revision /\ Merged(S).deleted = L.deleted
      /\ Merged(S).remarks = R /\ Merged(S).checkedAt = CatalogueOf(S)
      /\ Merged(S).updatedAt = L.updatedAt
  BY <1>1, <1>2, <1>3, <1>4 DEF Revision
<1> QED
  BY <1>1, <1>2, <1>3, <1>5 DEF Carries

TreeOK == IdsUnique /\ AncestryKnown /\ TombstonesBlank /\ Superseded

\* Writes keep the tree sound when every new revision is a child of a known one
\* whose content a user deleted or a greater revision carries.
LEMMA TreeGrows ==
    ASSUME TypeOK, TreeOK,
           NEW N \in SUBSET Revision, All' = All \cup N, removed \subseteq removed',
           \A n \in N : n \in All \/ \A u \in All : u.id # n.id,
           \A m, n \in N : m.id = n.id => m = n,
           \A n \in N : n.deleted => n.remarks = {} /\ n.checkedAt = 0,
           \A n \in N : \E p \in All :
              /\ n.past = p.past \cup {p.id} /\ n.id.gen = p.id.gen + 1
              /\ \/ p \in removed'
                 \/ \E w \in All' : ~w.deleted /\ RevBefore(p.id, w.id) /\ Carries(w, p)
    PROVE  TreeOK'
<1> DEFINE Child(n, p) ==
      /\ n.past = p.past \cup {p.id} /\ n.id.gen = p.id.gen + 1
      /\ \/ p \in removed'
         \/ \E w \in All' : ~w.deleted /\ RevBefore(p.id, w.id) /\ Carries(w, p)
<1>0. \A n \in N : \E p \in All : Child(n, p)
  BY DEF Child
<1>1. IdsUnique'
  BY DEF TreeOK, IdsUnique
<1>2. AncestryKnown'
  <2>1. ASSUME NEW v \in N, NEW i \in v.past
        PROVE  i.gen < v.id.gen /\ \E u \in All : u.id = i
    <3>1. PICK p \in All : Child(v, p)
      BY <1>0
    <3>2. p.id.gen \in Nat /\ v.id.gen = p.id.gen + 1
      BY <3>1, AllTyped, RevisionFields DEF Child
    <3>3. CASE i = p.id
      BY <3>2, <3>3
    <3>4. CASE i \in p.past
      <4>1. i.gen < p.id.gen /\ \E u \in All : u.id = i
        BY <3>4 DEF TreeOK, AncestryKnown
      <4>2. i.gen \in Nat
        BY <4>1, AllTyped, RevisionFields
      <4> QED
        BY <4>1, <4>2, <3>2
    <3> QED
      BY <3>1, <3>3, <3>4 DEF Child
  <2>2. \A v \in All : \A i \in v.past : i.gen < v.id.gen /\ \E u \in All : u.id = i
    BY DEF TreeOK, AncestryKnown
  <2> QED
    BY <2>1, <2>2 DEF AncestryKnown
<1>3. TombstonesBlank'
  BY DEF TreeOK, TombstonesBlank
<1>4. Superseded'
  <2> SUFFICES ASSUME NEW v \in All', NEW u \in All', ~v.deleted, v.id \in u.past
               PROVE  \/ v \in removed'
                      \/ \E w \in All' : ~w.deleted /\ RevBefore(v.id, w.id) /\ Carries(w, v)
    BY DEF Superseded
  <2>1. \A x \in All : v.id \in x.past => v \in All
    <3> SUFFICES ASSUME NEW x \in All, v.id \in x.past PROVE v \in All
      OBVIOUS
    <3>1. PICK y \in All : y.id = v.id
      BY DEF TreeOK, AncestryKnown
    <3> QED
      BY <3>1
  <2>2. \A x \in All : v.id \in x.past =>
           v \in removed' \/ \E w \in All' : ~w.deleted /\ RevBefore(v.id, w.id) /\ Carries(w, v)
    BY <2>1 DEF TreeOK, Superseded
  <2>3. CASE u \in All
    BY <2>2, <2>3
  <2>4. CASE u \in N
    <3>1. PICK p \in All : Child(u, p)
      BY <1>0, <2>4
    <3>2. CASE v.id \in p.past
      BY <3>1, <3>2, <2>2
    <3>3. CASE v.id = p.id
      <4>1. v = p
        BY <3>3 DEF TreeOK, IdsUnique
      <4> QED
        BY <4>1, <3>1 DEF Child
    <3> QED
      BY <3>1, <3>2, <3>3 DEF Child
  <2> QED
    BY <2>3, <2>4
<1> QED
  BY <1>1, <1>2, <1>3, <1>4 DEF TreeOK
-----------------------------------------------------------------------------
(* The invariant is inductive. *)

\* Databases only grow, and a copy a tab read stays in its database.
Grows == \A d \in Databases : store[d] \subseteq store[d]'

\* Copies stay known while databases only grow.
LEMMA CopiesStay ==
    ASSUME TypeOK, Grows,
           NEW t \in Tabs, NEW v \in Local(t)
    PROVE  v \in Local(t)'
BY ConstantsAssumption DEF ConstantsAssumption, Grows, Local

\* The invariant holds when every database has only the first revision.
LEMMA InitIndInv == Init => IndInv
<1> SUFFICES ASSUME Init PROVE IndInv
  OBVIOUS
<1>1. Root \in Revision
  BY ConstantsAssumption DEF ConstantsAssumption, Root, Revision, RevIds, Hashes
<1>2. \A v \in All : v = Root
  BY DEF Init, All
<1>3. TypeOK
  BY <1>1 DEF Init, TypeOK, NoJob, Phases, RESOLUTION_ATTEMPTS
<1>4. Root.past = {} /\ ~Root.deleted
  BY DEF Root
<1>5. IdsUnique /\ AncestryKnown /\ TombstonesBlank /\ Superseded
  BY <1>2, <1>4 DEF IdsUnique, AncestryKnown, TombstonesBlank, Superseded
<1>6. CopiesKnown /\ JobSound
  BY DEF Init, CopiesKnown, JobSound, NoJob
<1> QED
  BY <1>3, <1>5, <1>6 DEF IndInv

\* The tree part of the invariant, for a step that writes nothing new.
LEMMA TreeStays ==
    ASSUME TypeOK, TreeOK, All' = All, removed' = removed
    PROVE  TreeOK'
BY DEF TreeOK, IdsUnique, AncestryKnown, TombstonesBlank, Superseded

\* Revisions put in one database are added there, and nothing goes.
LEMMA StoreWrite ==
    ASSUME TypeOK, NEW t \in Tabs, NEW N \in SUBSET Revision,
           store' = [store EXCEPT ![DatabaseOf[t]] = @ \cup N]
    PROVE  /\ store' \in [Databases -> SUBSET Revision]
           /\ All' = All \cup N /\ Grows /\ N \subseteq Local(t)'
<1>1. DatabaseOf[t] \in Databases
  BY ConstantsAssumption DEF ConstantsAssumption
<1>2. \A d \in Databases :
         store'[d] = IF d = DatabaseOf[t] THEN store[d] \cup N ELSE store[d]
  BY <1>1 DEF TypeOK
<1>3. store' \in [Databases -> SUBSET Revision]
  BY <1>1 DEF TypeOK
<1>4. All' = All \cup N
  BY <1>1, <1>2 DEF All
<1> QED
  BY <1>1, <1>2, <1>3, <1>4 DEF Grows, Local

\* The winner of a conflicted database and its losers, as an attempt reads them.
LEMMA AttemptRead ==
    ASSUME IndInv, NEW t \in Tabs, Conflicted(Local(t))
    PROVE  /\ Winner(Local(t)) \in Local(t) /\ ~Winner(Local(t)).deleted
           /\ \A v \in Conflicts(Local(t)) :
                 /\ v \in Local(t) /\ ~v.deleted
                 /\ RevBefore(v.id, Winner(Local(t)).id)
<1> DEFINE S == Local(t)
<1>1. S \in SUBSET Revision /\ \A u, v \in S : u.id = v.id => u = v
  BY AllTyped DEF IndInv, IdsUnique
<1>2. Live(S) # {}
  <2> SUFFICES ASSUME Live(S) = {} PROVE FALSE
    OBVIOUS
  <2>1. Cardinality({}) = 0
    BY FS_EmptySet
  <2> QED
    BY <2>1 DEF Conflicted
<1>3. /\ Winner(S) \in Live(S)
      /\ \A v \in Live(S) \ {Winner(S)} : RevBefore(v.id, Winner(S).id)
  BY <1>1, <1>2, WinnerIsGreatest
<1> QED
  BY <1>3 DEF Live, Leaves, Conflicts

\* attempt() reads a winner and its losers: the invariant is kept.
LEMMA AttemptKeeps ==
    ASSUME IndInv, NEW t \in Tabs, Conflicted(Local(t)),
           NEW left \in 0..RESOLUTION_ATTEMPTS, NEW reader \in BOOLEAN,
           Attempt(t, left, reader), UNCHANGED <<store, held, removed>>
    PROVE  IndInv'
<1> DEFINE S == Local(t)
<1> DEFINE j == [phase |-> "merge", subject |-> {Winner(S)},
                 losers |-> Conflicts(S), left |-> left, reader |-> reader]
<1>1. job' = [job EXCEPT ![t] = j]
  BY DEF Attempt, j
<1>2. \A u \in Tabs : job'[u] = IF u = t THEN j ELSE job[u]
  BY <1>1 DEF IndInv, TypeOK
<1>3. /\ S \in SUBSET Revision
      /\ Winner(S) \in S /\ ~Winner(S).deleted
      /\ \A v \in Conflicts(S) : v \in S /\ ~v.deleted /\ RevBefore(v.id, Winner(S).id)
  BY AttemptRead, AllTyped DEF IndInv
<1>4. TypeOK'
  BY <1>1, <1>3 DEF IndInv, TypeOK, Phases
<1>5. TreeOK'
  BY TreeStays DEF IndInv, TreeOK, All
<1>6. CopiesKnown'
  BY <1>2, <1>3 DEF IndInv, CopiesKnown, Local, All
<1>7. JobSound'
  BY <1>2, <1>3 DEF IndInv, JobSound
<1> QED
  BY <1>4, <1>5, <1>6, <1>7 DEF IndInv, TreeOK

\* Steps that leave the databases and the deletions alone.
LEMMA QuietKeeps ==
    ASSUME IndInv, UNCHANGED <<store, removed>>,
           held' \in [Tabs -> SUBSET Revision],
           TypeOK', CopiesKnown', JobSound'
    PROVE  IndInv'
BY TreeStays DEF IndInv, TreeOK, All

\* A read without a conflict keeps the invariant.
LEMMA ReadPlainKeeps ==
    ASSUME IndInv, NEW t \in Tabs, ReadPlain(t)
    PROVE  IndInv'
<1>1. \A u \in Tabs : held'[u] = IF u = t THEN Live(Local(t)) ELSE held[u]
  BY DEF ReadPlain, IndInv, TypeOK
<1>2. Live(Local(t)) \subseteq Local(t) /\ \A v \in Live(Local(t)) : ~v.deleted
  BY DEF Live, Leaves
<1>3. TypeOK'
  BY <1>2, AllTyped DEF ReadPlain, IndInv, TypeOK
<1>4. CopiesKnown'
  BY <1>1, <1>2 DEF ReadPlain, IndInv, CopiesKnown, Local, All
<1>5. JobSound'
  BY DEF ReadPlain, IndInv, JobSound
<1> QED
  BY <1>3, <1>4, <1>5, QuietKeeps DEF ReadPlain, TypeOK

\* resolve(), from a reader or the change feed, keeps the invariant.
LEMMA ResolveKeeps ==
    ASSUME IndInv, NEW t \in Tabs, NEW reader \in BOOLEAN,
           Conflicted(Local(t)), Resolve(t, reader), UNCHANGED <<store, held, removed>>
    PROVE  IndInv'
<1>1. CASE job[t].phase = "idle"
  BY <1>1, AttemptKeeps DEF Resolve, RESOLUTION_ATTEMPTS
<1>2. CASE job[t].phase # "idle"
  <2> DEFINE j == [job[t] EXCEPT !.reader = @ \/ reader]
  <2>1. job' = [job EXCEPT ![t] = j]
    BY <1>2 DEF Resolve, j
  <2>2. job[t] \in [phase : Phases, subject : SUBSET Revision, losers : SUBSET Revision,
                    left : 0..RESOLUTION_ATTEMPTS, reader : BOOLEAN]
    BY DEF IndInv, TypeOK
  <2>3. /\ j.phase = job[t].phase /\ j.subject = job[t].subject /\ j.losers = job[t].losers
        /\ j \in [phase : Phases, subject : SUBSET Revision, losers : SUBSET Revision,
                  left : 0..RESOLUTION_ATTEMPTS, reader : BOOLEAN]
    BY <2>2 DEF j
  <2> HIDE DEF j
  <2>4. \A u \in Tabs : /\ job'[u].phase = job[u].phase
                        /\ job'[u].subject = job[u].subject
                        /\ job'[u].losers = job[u].losers
    BY <2>1, <2>3 DEF IndInv, TypeOK
  <2>5. TypeOK'
    BY <2>1, <2>3 DEF IndInv, TypeOK
  <2>6. CopiesKnown'
    BY <2>4 DEF IndInv, CopiesKnown, Local, All
  <2>7. JobSound'
    BY <2>4 DEF IndInv, JobSound
  <2> QED
    BY <2>5, <2>6, <2>7, QuietKeeps DEF TypeOK
<1> QED
  BY <1>1, <1>2

\* A resolution that ends: its tab has no job, its reader has the answer.
LEMMA AnswerEffect ==
    ASSUME TypeOK, NEW t \in Tabs, NEW answer \in SUBSET Revision, Answer(t, answer)
    PROVE  /\ held' \in [Tabs -> SUBSET Revision]
           /\ job' \in [Tabs -> [phase : Phases, subject : SUBSET Revision,
                                 losers : SUBSET Revision,
                                 left : 0..RESOLUTION_ATTEMPTS, reader : BOOLEAN]]
           /\ \A u \in Tabs : held'[u] = held[u] \/ (u = t /\ held'[u] = answer)
           /\ \A u \in Tabs : job'[u] = IF u = t THEN NoJob ELSE job[u]
<1>1. NoJob \in [phase : Phases, subject : SUBSET Revision, losers : SUBSET Revision,
                 left : 0..RESOLUTION_ATTEMPTS, reader : BOOLEAN]
  BY DEF NoJob, Phases, RESOLUTION_ATTEMPTS
<1> QED
  BY <1>1 DEF Answer, TypeOK

\* No job is sound, whatever the databases hold.
LEMMA JobsEnd ==
    ASSUME JobSound, NEW t \in Tabs,
           \A u \in Tabs : job'[u] = IF u = t THEN NoJob ELSE job[u]
    PROVE  JobSound'
BY DEF JobSound, NoJob

\* Ending a resolution with a known answer keeps the invariant.
LEMMA AnswerKeeps ==
    ASSUME IndInv, NEW t \in Tabs, NEW answer \in SUBSET Local(t),
           \A v \in answer : ~v.deleted,
           Answer(t, answer), UNCHANGED <<store, removed>>
    PROVE  IndInv'
<1>1. answer \in SUBSET Revision
  BY AllTyped DEF IndInv
<1>2. /\ held' \in [Tabs -> SUBSET Revision]
      /\ job' \in [Tabs -> [phase : Phases, subject : SUBSET Revision,
                            losers : SUBSET Revision,
                            left : 0..RESOLUTION_ATTEMPTS, reader : BOOLEAN]]
      /\ \A u \in Tabs : held'[u] = held[u] \/ (u = t /\ held'[u] = answer)
      /\ \A u \in Tabs : job'[u] = IF u = t THEN NoJob ELSE job[u]
  BY <1>1, AnswerEffect DEF IndInv
<1>3. TypeOK'
  BY <1>2 DEF IndInv, TypeOK
<1>4. JobSound'
  BY <1>2, JobsEnd DEF IndInv
<1>5. CopiesKnown'
  BY <1>2 DEF IndInv, CopiesKnown, Local, All, NoJob
<1> QED
  BY <1>2, <1>3, <1>4, <1>5, QuietKeeps

\* The three outcomes of reread() keep the invariant.
LEMMA RereadKeeps ==
    ASSUME IndInv, NEW t \in Tabs,
           RereadMissing(t) \/ RereadResolved(t) \/ RereadConflicted(t)
    PROVE  IndInv'
<1>1. CASE RereadMissing(t)
  <2>1. job[t].subject \in SUBSET Local(t) /\ \A v \in job[t].subject : ~v.deleted
    BY DEF IndInv, CopiesKnown
  <2> QED
    BY <1>1, <2>1, AnswerKeeps DEF RereadMissing
<1>2. CASE RereadResolved(t)
  <2>1. Live(Local(t)) \in SUBSET Local(t) /\ \A v \in Live(Local(t)) : ~v.deleted
    BY DEF Live, Leaves
  <2> QED
    BY <1>2, <2>1, AnswerKeeps DEF RereadResolved
<1>3. CASE RereadConflicted(t)
  <2>1. job[t].left \in 0..RESOLUTION_ATTEMPTS /\ job[t].reader \in BOOLEAN
    BY DEF IndInv, TypeOK
  <2> QED
    BY <1>3, <2>1, AttemptKeeps DEF RereadConflicted
<1> QED
  BY <1>1, <1>2, <1>3

\* A put refused with 409 keeps the invariant.
LEMMA MergeConflictKeeps ==
    ASSUME IndInv, NEW t \in Tabs, MergeConflict(t)
    PROVE  IndInv'
<1> DEFINE J == [phase : Phases, subject : SUBSET Revision, losers : SUBSET Revision,
                 left : 0..RESOLUTION_ATTEMPTS, reader : BOOLEAN]
<1> DEFINE again == [job[t] EXCEPT !.phase = "reread", !.left = job[t].left - 1]
<1> DEFINE j == Retried(job[t])
<1>0. job \in [Tabs -> J] /\ job[t] \in J
  BY DEF IndInv, TypeOK, J
<1>1. job' = [job EXCEPT ![t] = j]
  BY DEF MergeConflict, j
<1>2. NoJob \in J
  BY DEF NoJob, Phases, RESOLUTION_ATTEMPTS, J
<1>3. job[t].left > 1 => job[t].left - 1 \in 0..RESOLUTION_ATTEMPTS
  BY <1>0 DEF J, RESOLUTION_ATTEMPTS
<1>4. job[t].left > 1 => again \in J
  BY <1>0, <1>3 DEF again, J, Phases
<1>5. again.phase = "reread" /\ again.subject = job[t].subject /\ again.losers = job[t].losers
  BY <1>0 DEF again, J
<1>6. j \in J
  BY <1>0, <1>2, <1>4 DEF j, again, Retried, J, RESOLUTION_ATTEMPTS
<1>7. j = NoJob \/ j = again
  BY DEF j, again, Retried
<1> HIDE DEF j, again
<1>8. /\ j.phase # "prune" /\ j.subject \subseteq job[t].subject
      /\ j.losers \subseteq job[t].losers
  BY <1>5, <1>7 DEF NoJob
<1>9. \A u \in Tabs : job'[u] = IF u = t THEN j ELSE job[u]
  BY <1>0, <1>1
<1>10. TypeOK'
  BY <1>0, <1>1, <1>6 DEF MergeConflict, IndInv, TypeOK, J
<1>11. CopiesKnown'
  BY <1>8, <1>9 DEF MergeConflict, IndInv, CopiesKnown, Local, All
<1>12. JobSound'
  BY <1>8, <1>9 DEF IndInv, JobSound
<1> QED
  BY <1>10, <1>11, <1>12, QuietKeeps DEF MergeConflict, TypeOK

\* What a resolution is about to write carries the winner and every loser.
LEMMA MergeCarriesAll ==
    ASSUME IndInv, NEW t \in Tabs, NEW w \in job[t].subject
    PROVE  LET merged == Merged({w} \cup job[t].losers)
           IN  /\ merged \in Revision /\ ~merged.deleted
               /\ Carries(merged, w)
               /\ \A v \in job[t].losers : Carries(merged, v) /\ v.updatedAt <= merged.updatedAt
<1> DEFINE S == {w} \cup job[t].losers
<1>1. S \subseteq Local(t) /\ \A v \in S : ~v.deleted
  BY DEF IndInv, CopiesKnown, S
<1>2. S \in SUBSET Revision /\ S # {} /\ \A u, v \in S : u.id = v.id => u = v
  BY <1>1, AllTyped DEF IndInv, IdsUnique
<1>3. /\ Merged(S) \in Revision /\ ~Merged(S).deleted
      /\ \A v \in S : Carries(Merged(S), v) /\ v.updatedAt <= Merged(S).updatedAt
  BY <1>1, <1>2, MergedCarries
<1> QED
  BY <1>3

\* A merge that says nothing new keeps the invariant: the winner carries all.
LEMMA MergeUnchangedKeeps ==
    ASSUME IndInv, NEW t \in Tabs, MergeUnchanged(t)
    PROVE  IndInv'
<1> DEFINE J == [phase : Phases, subject : SUBSET Revision, losers : SUBSET Revision,
                 left : 0..RESOLUTION_ATTEMPTS, reader : BOOLEAN]
<1> DEFINE j == [job[t] EXCEPT !.phase = "prune"]
<1>1. job \in [Tabs -> J] /\ job[t] \in J
  BY DEF IndInv, TypeOK, J
<1>2. job' = [job EXCEPT ![t] = j]
  BY DEF MergeUnchanged, j
<1>3. j \in J /\ j.subject = job[t].subject /\ j.losers = job[t].losers
  BY <1>1 DEF j, J, Phases
<1> HIDE DEF j
<1>4. \A u \in Tabs : job'[u] = IF u = t THEN j ELSE job[u]
  BY <1>1, <1>2
<1>5. TypeOK'
  BY <1>1, <1>2, <1>3 DEF MergeUnchanged, IndInv, TypeOK, J
<1>6. CopiesKnown'
  BY <1>3, <1>4 DEF MergeUnchanged, IndInv, CopiesKnown, Local, All
<1>7. JobSound'
  <2>1. PICK w \in job[t].subject :
           Content(Merged({w} \cup job[t].losers)) = Content(w)
    BY DEF MergeUnchanged
  <2> DEFINE merged == Merged({w} \cup job[t].losers)
  <2>2. merged.remarks = w.remarks /\ merged.updatedAt = w.updatedAt
        /\ merged.checkedAt = w.checkedAt
    BY <2>1 DEF Content, merged
  <2>3. \A v \in job[t].losers : Carries(merged, v) /\ v.updatedAt <= merged.updatedAt
    BY MergeCarriesAll DEF merged
  <2> HIDE DEF merged
  <2>4. \A v \in job[t].losers : Carries(w, v) /\ v.updatedAt <= w.updatedAt
    BY <2>2, <2>3 DEF Carries
  <2>5. \A u \in job[t].subject : u = w
    BY DEF IndInv, JobSound
  <2> QED
    BY <1>3, <1>4, <2>4, <2>5 DEF IndInv, JobSound
<1> QED
  BY <1>5, <1>6, <1>7, QuietKeeps DEF MergeUnchanged, TypeOK

\* A revision that extends another comes after it and all before it.
LEMMA ChildIsGreater ==
    ASSUME NEW p \in Revision, NEW m \in Revision, m.id.gen = p.id.gen + 1
    PROVE  /\ RevBefore(p.id, m.id)
           /\ \A v \in Revision : RevBefore(v.id, p.id) => RevBefore(v.id, m.id)
<1>1. p.id.gen \in Nat /\ \A v \in Revision : v.id.gen \in Nat
  BY RevisionFields
<1> QED
  BY <1>1 DEF RevBefore

\* Copies and deletions other tabs know of outlive a write.
LEMMA CopiesKnownGrows ==
    ASSUME IndInv, Grows, All \subseteq All',
           NEW t \in Tabs,
           \A u \in Tabs \ {t} : held'[u] = held[u] /\ job'[u] = job[u],
           \A v \in held'[t] \cup job'[t].subject \cup job'[t].losers :
              v \in Local(t)' /\ ~v.deleted,
           \A v \in removed' : v \in All' /\ ~v.deleted
    PROVE  CopiesKnown'
<1>1. ASSUME NEW u \in Tabs, NEW v \in held'[u] \cup job'[u].subject \cup job'[u].losers
      PROVE  v \in Local(u)' /\ ~v.deleted
  <2>1. CASE u = t
    BY <1>1, <2>1
  <2>2. CASE u # t
    <3>1. v \in Local(u) /\ ~v.deleted
      BY <1>1, <2>2 DEF IndInv, CopiesKnown
    <3> QED
      BY <3>1, CopiesStay DEF IndInv
  <2> QED
    BY <2>1, <2>2
<1> QED
  BY <1>1 DEF CopiesKnown

\* The merge put on the winner keeps the invariant: it carries all it merged.
LEMMA MergeWriteKeeps ==
    ASSUME IndInv, NEW t \in Tabs, MergeWrite(t)
    PROVE  IndInv'
<1> DEFINE J == [phase : Phases, subject : SUBSET Revision, losers : SUBSET Revision,
                 left : 0..RESOLUTION_ATTEMPTS, reader : BOOLEAN]
<1>1. PICK w \in job[t].subject :
        \E m \in Minted(w, Merged({w} \cup job[t].losers)) :
           /\ store' = [store EXCEPT ![DatabaseOf[t]] = @ \cup {m}]
           /\ job' = [job EXCEPT ![t].phase = "prune", ![t].subject = {m}]
  BY DEF MergeWrite
<1> DEFINE merged == Merged({w} \cup job[t].losers)
<1>2. /\ merged \in Revision /\ ~merged.deleted /\ Carries(merged, w)
      /\ \A v \in job[t].losers : Carries(merged, v) /\ v.updatedAt <= merged.updatedAt
  BY MergeCarriesAll DEF merged
<1> HIDE DEF merged
<1>3. PICK m \in Minted(w, merged) :
        /\ store' = [store EXCEPT ![DatabaseOf[t]] = @ \cup {m}]
        /\ job' = [job EXCEPT ![t].phase = "prune", ![t].subject = {m}]
  BY <1>1 DEF merged
<1>4. w \in Local(t) /\ w \in Revision /\ w \in All
  BY AllTyped DEF IndInv, CopiesKnown
<1>5. /\ m \in Revision /\ m.past = w.past \cup {w.id} /\ m.id.gen = w.id.gen + 1
      /\ ~m.deleted /\ m.remarks = merged.remarks
      /\ m.updatedAt = merged.updatedAt /\ m.checkedAt = merged.checkedAt
      /\ m \in All \/ \A u \in All : u.id # m.id
  BY <1>2, <1>4, MintedIsChild DEF IndInv
<1>6. /\ store' \in [Databases -> SUBSET Revision]
      /\ All' = All \cup {m} /\ Grows /\ m \in Local(t)'
  <2>1. {m} \in SUBSET Revision
    BY <1>5
  <2> QED
    BY <1>3, <2>1, StoreWrite DEF IndInv
<1>7. Carries(m, w) /\ \A v \in job[t].losers : Carries(m, v) /\ v.updatedAt <= m.updatedAt
  BY <1>2, <1>5 DEF Carries
<1> DEFINE j == [job[t] EXCEPT !.phase = "prune", !.subject = {m}]
<1>8. job \in [Tabs -> J] /\ job[t] \in J
  BY DEF IndInv, TypeOK, J
<1>9. job' = [job EXCEPT ![t] = j]
  BY <1>3, <1>8 DEF j
<1>10. j \in J /\ j.subject = {m} /\ j.losers = job[t].losers
  BY <1>5, <1>8 DEF j, J, Phases
<1> HIDE DEF j
<1>11. \A u \in Tabs : job'[u] = IF u = t THEN j ELSE job[u]
  BY <1>8, <1>9
<1>12. TypeOK'
  BY <1>6, <1>8, <1>9, <1>10 DEF MergeWrite, IndInv, TypeOK, J
<1>13. TreeOK'
  <2>1. RevBefore(w.id, m.id)
    BY <1>4, <1>5, ChildIsGreater
  <2>2. \E p \in All :
           /\ m.past = p.past \cup {p.id} /\ m.id.gen = p.id.gen + 1
           /\ \/ p \in removed'
              \/ \E x \in All' : ~x.deleted /\ RevBefore(p.id, x.id) /\ Carries(x, p)
    BY <1>4, <1>5, <1>6, <1>7, <2>1
  <2>3. {m} \in SUBSET Revision /\ removed \subseteq removed'
    BY <1>5 DEF MergeWrite
  <2>4. TypeOK /\ TreeOK
    BY DEF IndInv, TreeOK
  <2> QED
    BY <1>5, <1>6, <2>2, <2>3, <2>4, TreeGrows
<1>14. CopiesKnown'
  <2>1. \A v \in job[t].losers \cup held[t] : v \in Local(t)' /\ ~v.deleted
    BY <1>6, CopiesStay DEF IndInv, CopiesKnown
  <2>2. held' = held /\ removed' = removed
    BY DEF MergeWrite
  <2>3. \A v \in removed' : v \in All' /\ ~v.deleted
    BY <1>6, <2>2 DEF IndInv, CopiesKnown
  <2>4. \A v \in held'[t] \cup job'[t].subject \cup job'[t].losers :
           v \in Local(t)' /\ ~v.deleted
    BY <1>5, <1>6, <1>10, <1>11, <2>1, <2>2
  <2>5. \A u \in Tabs \ {t} : held'[u] = held[u] /\ job'[u] = job[u]
    BY <1>11, <2>2
  <2> QED
    BY <1>6, <2>3, <2>4, <2>5, CopiesKnownGrows
<1>15. JobSound'
  <2>1. \A v \in job[t].losers : RevBefore(v.id, w.id) /\ v \in Revision
    BY AllTyped DEF IndInv, JobSound, CopiesKnown
  <2>2. \A v \in job[t].losers : RevBefore(v.id, m.id)
    BY <2>1, <1>4, <1>5, ChildIsGreater
  <2> QED
    BY <1>7, <1>10, <1>11, <2>2 DEF IndInv, JobSound
<1> QED
  BY <1>12, <1>13, <1>14, <1>15 DEF IndInv, TreeOK

\* The losers pruned are carried by the revision kept in their place.
LEMMA PruneKeeps ==
    ASSUME IndInv, NEW t \in Tabs, Prune(t)
    PROVE  IndInv'
<1> DEFINE leaves == job[t].losers \cap Leaves(Local(t))
<1>1. PICK stones \in SUBSET UNION {Minted(v, Tombstone(v)) : v \in leaves} :
        /\ \A v \in leaves : \E s \in stones : s.past = v.past \cup {v.id}
        /\ \A s, u \in stones : s.id = u.id \/ s.past = u.past => s = u
        /\ store' = [store EXCEPT ![DatabaseOf[t]] = @ \cup stones]
  BY DEF Prune, leaves
<1>2. \A v \in job[t].losers : v \in Local(t) /\ v \in All /\ v \in Revision /\ ~v.deleted
  BY AllTyped DEF IndInv, CopiesKnown
<1>3. ASSUME NEW s \in stones
      PROVE  \E v \in leaves :
               /\ s \in Revision /\ s.past = v.past \cup {v.id} /\ s.id.gen = v.id.gen + 1
               /\ s.deleted /\ s.remarks = {} /\ s.checkedAt = 0
               /\ s \in All \/ \A u \in All : u.id # s.id
  <2>1. PICK v \in leaves : s \in Minted(v, Tombstone(v))
    BY <1>1
  <2>2. v \in Revision /\ Tombstone(v) \in Revision
    BY <1>2, TombstoneTyped DEF leaves
  <2>3. /\ s \in Revision /\ s.past = v.past \cup {v.id} /\ s.id.gen = v.id.gen + 1
        /\ s.deleted = Tombstone(v).deleted /\ s.remarks = Tombstone(v).remarks
        /\ s.checkedAt = Tombstone(v).checkedAt
        /\ s \in All \/ \A u \in All : u.id # s.id
    BY <2>1, <2>2, MintedIsChild DEF IndInv
  <2> QED
    BY <2>2, <2>3, TombstoneTyped
<1>4. stones \in SUBSET Revision
  BY <1>3
<1>5. /\ store' \in [Databases -> SUBSET Revision]
      /\ All' = All \cup stones /\ Grows
  BY <1>1, <1>4, StoreWrite DEF IndInv
<1>6. job[t].subject \in SUBSET Revision /\ job[t].subject # {}
      /\ \A w \in job[t].subject : w \in Local(t) /\ w \in All /\ ~w.deleted
  BY AllTyped DEF Prune, IndInv, CopiesKnown, JobSound
<1>7. Answer(t, job[t].subject) /\ removed' = removed
  BY DEF Prune
<1>8. /\ held' \in [Tabs -> SUBSET Revision]
      /\ job' \in [Tabs -> [phase : Phases, subject : SUBSET Revision,
                            losers : SUBSET Revision,
                            left : 0..RESOLUTION_ATTEMPTS, reader : BOOLEAN]]
      /\ held'[t] = held[t] \/ held'[t] = job[t].subject
      /\ \A u \in Tabs \ {t} : held'[u] = held[u]
      /\ \A u \in Tabs : job'[u] = IF u = t THEN NoJob ELSE job[u]
  BY <1>6, <1>7, AnswerEffect DEF IndInv
<1>9. TypeOK'
  BY <1>5, <1>7, <1>8 DEF IndInv, TypeOK
<1>10. JobSound'
  BY <1>8, JobsEnd DEF IndInv
<1>11. CopiesKnown'
  <2>1. \A v \in held[t] \cup job[t].subject : v \in Local(t)' /\ ~v.deleted
    BY <1>5, CopiesStay DEF IndInv, CopiesKnown
  <2>2. \A v \in held'[t] \cup job'[t].subject \cup job'[t].losers :
           v \in Local(t)' /\ ~v.deleted
    BY <2>1, <1>8 DEF NoJob
  <2>3. \A v \in removed' : v \in All' /\ ~v.deleted
    BY <1>5, <1>7 DEF IndInv, CopiesKnown
  <2>4. \A u \in Tabs \ {t} : held'[u] = held[u] /\ job'[u] = job[u]
    BY <1>8
  <2> QED
    BY <1>5, <2>2, <2>3, <2>4, CopiesKnownGrows
<1>12. TreeOK'
  <2>1. PICK w \in job[t].subject : \A v \in job[t].losers :
           RevBefore(v.id, w.id) /\ Carries(w, v)
    BY <1>6 DEF Prune, IndInv, JobSound
  <2>2. \A n \in stones : \E p \in All :
           /\ n.past = p.past \cup {p.id} /\ n.id.gen = p.id.gen + 1
           /\ \/ p \in removed'
              \/ \E x \in All' : ~x.deleted /\ RevBefore(p.id, x.id) /\ Carries(x, p)
    <3> SUFFICES ASSUME NEW n \in stones
                 PROVE  \E p \in All :
                    /\ n.past = p.past \cup {p.id} /\ n.id.gen = p.id.gen + 1
                    /\ \/ p \in removed'
                       \/ \E x \in All' : ~x.deleted /\ RevBefore(p.id, x.id) /\ Carries(x, p)
      OBVIOUS
    <3>1. PICK v \in leaves : n.past = v.past \cup {v.id} /\ n.id.gen = v.id.gen + 1
      BY <1>3
    <3>2. v \in job[t].losers /\ v \in All
      BY <1>2 DEF leaves
    <3>3. ~w.deleted /\ RevBefore(v.id, w.id) /\ Carries(w, v) /\ w \in All'
      BY <1>5, <1>6, <2>1, <3>2
    <3> QED
      BY <3>1, <3>2, <3>3
  <2>3. \A m, n \in stones : m.id = n.id => m = n
    BY <1>1
  <2>4. \A n \in stones : n \in All \/ \A u \in All : u.id # n.id
    BY <1>3
  <2>5. \A n \in stones : n.deleted => n.remarks = {} /\ n.checkedAt = 0
    BY <1>3
  <2>6. TypeOK /\ TreeOK /\ removed \subseteq removed'
    BY <1>7 DEF IndInv, TreeOK
  <2> QED
    BY <1>4, <1>5, <2>2, <2>3, <2>4, <2>5, <2>6, TreeGrows
<1> QED
  BY <1>9, <1>10, <1>11, <1>12 DEF IndInv, TreeOK

\* A user's write carries the copy it is made on.
LEMMA PutKeeps ==
    ASSUME IndInv, NEW t \in Tabs, NEW v \in held[t], NEW new \in Revision,
           ~new.deleted, Carries(new, v), Put(t, v, new)
    PROVE  IndInv'
<1>1. v \in Local(t) /\ v \in All /\ v \in Revision
  BY AllTyped DEF IndInv, CopiesKnown
<1>2. PICK u \in Minted(v, new) :
        /\ store' = [store EXCEPT ![DatabaseOf[t]] = @ \cup {u}]
        /\ held' = [held EXCEPT ![t] = {u}]
  BY DEF Put
<1>3. /\ u \in Revision /\ u.past = v.past \cup {v.id} /\ u.id.gen = v.id.gen + 1
      /\ ~u.deleted /\ u.remarks = new.remarks /\ u.checkedAt = new.checkedAt
      /\ u \in All \/ \A x \in All : x.id # u.id
  BY <1>1, MintedIsChild DEF IndInv
<1>4. Carries(u, v) /\ RevBefore(v.id, u.id)
  BY <1>1, <1>3, ChildIsGreater DEF Carries
<1>5. {u} \in SUBSET Revision /\ job' = job /\ removed' = removed
  BY <1>3 DEF Put
<1>6. /\ store' \in [Databases -> SUBSET Revision]
      /\ All' = All \cup {u} /\ Grows /\ u \in Local(t)'
  BY <1>2, <1>5, StoreWrite DEF IndInv
<1>7. \A x \in Tabs : held'[x] = IF x = t THEN {u} ELSE held[x]
  BY <1>2 DEF IndInv, TypeOK
<1>8. TypeOK'
  BY <1>2, <1>5, <1>6 DEF IndInv, TypeOK
<1>9. TreeOK'
  <2>1. TypeOK /\ TreeOK /\ removed \subseteq removed'
    BY <1>5 DEF IndInv, TreeOK
  <2>2. \E p \in All :
           /\ u.past = p.past \cup {p.id} /\ u.id.gen = p.id.gen + 1
           /\ \/ p \in removed'
              \/ \E x \in All' : ~x.deleted /\ RevBefore(p.id, x.id) /\ Carries(x, p)
    BY <1>1, <1>3, <1>4, <1>6
  <2> QED
    BY <1>3, <1>5, <1>6, <2>1, <2>2, TreeGrows
<1>10. CopiesKnown'
  <2>1. \A x \in held'[t] \cup job'[t].subject \cup job'[t].losers :
           x \in Local(t)' /\ ~x.deleted
    BY <1>3, <1>5, <1>6, <1>7, CopiesStay DEF IndInv, CopiesKnown
  <2>2. \A x \in removed' : x \in All' /\ ~x.deleted
    BY <1>5, <1>6 DEF IndInv, CopiesKnown
  <2>3. \A x \in Tabs \ {t} : held'[x] = held[x] /\ job'[x] = job[x]
    BY <1>5, <1>7
  <2> QED
    BY <1>6, <2>1, <2>2, <2>3, CopiesKnownGrows
<1>11. JobSound'
  BY <1>5 DEF IndInv, JobSound
<1> QED
  BY <1>8, <1>9, <1>10, <1>11 DEF IndInv, TreeOK

\* Users' edits, remarks and backfills keep the invariant.
LEMMA WriteKeeps ==
    ASSUME IndInv, NEW t \in Tabs,
           \/ \E r \in Remarks, now \in Clock : AddRemark(t, r, now)
           \/ \E n \in Names, now \in Clock : Edit(t, n, now)
           \/ \E now \in Lookups : Backfill(t, now)
    PROVE  IndInv'
<1>1. \A v \in held[t] : v \in Revision /\ ~v.deleted
  BY DEF IndInv, TypeOK, CopiesKnown
<1>2. CASE \E r \in Remarks, now \in Clock : AddRemark(t, r, now)
  <2>1. PICK r \in Remarks, now \in Clock : AddRemark(t, r, now)
    BY <1>2
  <2>2. PICK v \in held[t] :
           Put(t, v, [v EXCEPT !.remarks = @ \cup {r}, !.updatedAt = now])
    BY <2>1 DEF AddRemark
  <2> DEFINE new == [v EXCEPT !.remarks = @ \cup {r}, !.updatedAt = now]
  <2>3. /\ new \in Revision /\ new.deleted = v.deleted
        /\ new.remarks = v.remarks \cup {r} /\ new.checkedAt = v.checkedAt
    BY <1>1 DEF new, Revision
  <2>4. Put(t, v, new)
    BY <2>2 DEF new
  <2> HIDE DEF new
  <2>5. Carries(new, v)
    BY <1>1, <2>3, RevisionFields DEF Carries
  <2> QED
    BY <1>1, <2>3, <2>4, <2>5, PutKeeps
<1>3. CASE \E n \in Names, now \in Clock : Edit(t, n, now)
  <2>1. PICK n \in Names, now \in Clock : Edit(t, n, now)
    BY <1>3
  <2>2. PICK v \in held[t] : Put(t, v, [v EXCEPT !.name = n, !.updatedAt = now])
    BY <2>1 DEF Edit
  <2> DEFINE new == [v EXCEPT !.name = n, !.updatedAt = now]
  <2>3. /\ new \in Revision /\ new.deleted = v.deleted
        /\ new.remarks = v.remarks /\ new.checkedAt = v.checkedAt
    BY <1>1 DEF new, Revision
  <2>4. Put(t, v, new)
    BY <2>2 DEF new
  <2> HIDE DEF new
  <2>5. Carries(new, v)
    BY <1>1, <2>3, RevisionFields DEF Carries
  <2> QED
    BY <1>1, <2>3, <2>4, <2>5, PutKeeps
<1>4. CASE \E now \in Lookups : Backfill(t, now)
  <2>1. PICK now \in Lookups : Backfill(t, now)
    BY <1>4
  <2>2. PICK v \in held[t] : v.checkedAt = 0 /\ Put(t, v, [v EXCEPT !.checkedAt = now])
    BY <2>1 DEF Backfill
  <2> DEFINE new == [v EXCEPT !.checkedAt = now]
  <2>3. /\ new \in Revision /\ new.deleted = v.deleted
        /\ new.remarks = v.remarks /\ new.checkedAt = now
    BY <1>1 DEF new, Revision
  <2>4. Put(t, v, new)
    BY <2>2 DEF new
  <2>5. now \in Nat
    BY ConstantsAssumption DEF ConstantsAssumption
  <2> HIDE DEF new
  <2>6. Carries(new, v)
    BY <2>2, <2>3, <2>5 DEF Carries
  <2> QED
    BY <1>1, <2>3, <2>4, <2>6, PutKeeps
<1> QED
  BY <1>2, <1>3, <1>4

\* Deleting the device keeps the invariant: the deletion is remembered.
LEMMA RemoveKeeps ==
    ASSUME IndInv, NEW t \in Tabs, Remove(t)
    PROVE  IndInv'
<1>1. PICK v \in held[t] :
        /\ \E u \in Minted(v, Tombstone(v)) :
              store' = [store EXCEPT ![DatabaseOf[t]] = @ \cup {u}]
        /\ removed' = removed \cup {v}
  BY DEF Remove
<1>2. PICK u \in Minted(v, Tombstone(v)) :
        store' = [store EXCEPT ![DatabaseOf[t]] = @ \cup {u}]
  BY <1>1
<1>3. v \in Local(t) /\ v \in All /\ v \in Revision /\ ~v.deleted
  BY AllTyped DEF IndInv, CopiesKnown
<1>4. /\ Tombstone(v) \in Revision /\ Tombstone(v).deleted
      /\ Tombstone(v).remarks = {} /\ Tombstone(v).checkedAt = 0
  BY <1>3, TombstoneTyped
<1>5. /\ u \in Revision /\ u.past = v.past \cup {v.id} /\ u.id.gen = v.id.gen + 1
      /\ u.remarks = {} /\ u.checkedAt = 0
      /\ u \in All \/ \A x \in All : x.id # u.id
  BY <1>3, <1>4, MintedIsChild DEF IndInv
<1>6. {u} \in SUBSET Revision
  BY <1>5
<1>7. /\ store' \in [Databases -> SUBSET Revision]
      /\ All' = All \cup {u} /\ Grows
  BY <1>2, <1>6, StoreWrite DEF IndInv
<1>8. held' = [held EXCEPT ![t] = {}] /\ job' = job
  BY DEF Remove
<1>9. TypeOK'
  BY <1>1, <1>3, <1>7, <1>8 DEF IndInv, TypeOK
<1>10. \A x \in Tabs : held'[x] = IF x = t THEN {} ELSE held[x]
  BY <1>8 DEF IndInv, TypeOK
<1>11. TreeOK'
  <2>1. TypeOK /\ TreeOK /\ removed \subseteq removed' /\ v \in removed'
    BY <1>1 DEF IndInv, TreeOK
  <2> QED
    BY <1>3, <1>5, <1>6, <1>7, <2>1, TreeGrows
<1>12. CopiesKnown'
  <2>1. \A x \in held'[t] \cup job'[t].subject \cup job'[t].losers :
           x \in Local(t)' /\ ~x.deleted
    BY <1>7, <1>8, <1>10, CopiesStay DEF IndInv, CopiesKnown
  <2>2. \A x \in removed' : x \in All' /\ ~x.deleted
    BY <1>1, <1>3, <1>7 DEF IndInv, CopiesKnown
  <2>3. \A x \in Tabs \ {t} : held'[x] = held[x] /\ job'[x] = job[x]
    BY <1>8, <1>10
  <2> QED
    BY <1>7, <2>1, <2>2, <2>3, CopiesKnownGrows
<1>13. JobSound'
  BY <1>8 DEF IndInv, JobSound
<1> QED
  BY <1>9, <1>11, <1>12, <1>13 DEF IndInv, TreeOK

\* Replicating a leaf with its ancestry keeps the invariant.
LEMMA ReplicateKeeps ==
    ASSUME IndInv, NEW link \in Links, Replicate(link[1], link[2])
    PROVE  IndInv'
<1>1. link[1] \in Databases /\ link[2] \in Databases
  BY ConstantsAssumption DEF ConstantsAssumption
<1>2. PICK v \in Leaves(store[link[1]]) :
        store' = [store EXCEPT ![link[2]] = @ \cup {v} \cup Ancestry(store[link[1]], v)]
  BY DEF Replicate
<1> DEFINE N == {v} \cup Ancestry(store[link[1]], v)
<1>3. N \subseteq store[link[1]]
  BY DEF Leaves, Ancestry, N
<1>4. store' = [store EXCEPT ![link[2]] = @ \cup N]
  BY <1>2 DEF N
<1> HIDE DEF N
<1>5. \A d \in Databases : store'[d] = IF d = link[2] THEN store[d] \cup N ELSE store[d]
  BY <1>4 DEF IndInv, TypeOK
<1>6. All' = All
  <2>1. All' = UNION {store'[d] : d \in Databases}
    BY DEF All
  <2>2. ASSUME NEW x \in All PROVE x \in All'
    <3>1. PICK d \in Databases : x \in store[d]
      BY DEF All
    <3>2. x \in store'[d]
      BY <1>5, <3>1
    <3> QED
      BY <2>1, <3>2
  <2>3. ASSUME NEW x \in All' PROVE x \in All
    <3>1. PICK d \in Databases : x \in store'[d]
      BY <2>1, <2>3, Zenon
    <3>2. x \in store[d] \/ x \in store[link[1]]
      BY <1>3, <1>5, <3>1
    <3>3. link[1] \in Databases
      BY <1>1
    <3> QED
      BY <3>1, <3>2, <3>3, Zenon DEF All
  <2> QED
    BY <2>2, <2>3
<1>7. Grows
  BY <1>5 DEF Grows
<1>8. held' = held /\ job' = job /\ removed' = removed
  BY DEF Replicate
<1>9. N \in SUBSET Revision
  BY <1>1, <1>3 DEF IndInv, TypeOK
<1>10. TypeOK'
  BY <1>1, <1>4, <1>8, <1>9 DEF IndInv, TypeOK
<1>11. TreeOK'
  BY <1>6, <1>8, TreeStays DEF IndInv, TreeOK
<1>12. CopiesKnown'
  <2>1. \A t \in Tabs : \A x \in Local(t) : x \in Local(t)'
    BY <1>7, CopiesStay DEF IndInv
  <2> QED
    BY <1>6, <1>8, <2>1 DEF IndInv, CopiesKnown
<1>13. JobSound'
  BY <1>8 DEF IndInv, JobSound
<1> QED
  BY <1>10, <1>11, <1>12, <1>13 DEF IndInv, TreeOK

\* Closing a tab, between any two steps, keeps the invariant.
LEMMA CloseKeeps ==
    ASSUME IndInv, NEW t \in Tabs, Close(t)
    PROVE  IndInv'
<1>1. NoJob \in [phase : Phases, subject : SUBSET Revision, losers : SUBSET Revision,
                 left : 0..RESOLUTION_ATTEMPTS, reader : BOOLEAN]
  BY DEF NoJob, Phases, RESOLUTION_ATTEMPTS
<1>2. /\ \A u \in Tabs : held'[u] = IF u = t THEN {} ELSE held[u]
      /\ \A u \in Tabs : job'[u] = IF u = t THEN NoJob ELSE job[u]
  BY DEF Close, IndInv, TypeOK
<1>3. TypeOK'
  BY <1>1 DEF Close, IndInv, TypeOK
<1>4. CopiesKnown'
  BY <1>2 DEF Close, IndInv, CopiesKnown, Local, All, NoJob
<1>5. JobSound'
  BY <1>2, JobsEnd DEF IndInv
<1> QED
  BY <1>3, <1>4, <1>5, QuietKeeps DEF Close, TypeOK

\* The invariant is inductive.
LEMMA NextIndInv == IndInv /\ [Next]_vars => IndInv'
<1> SUFFICES ASSUME IndInv, [Next]_vars PROVE IndInv'
  OBVIOUS
<1>1. ASSUME NEW t \in Tabs, ReadPlain(t) PROVE IndInv'
  BY <1>1, ReadPlainKeeps
<1>2. ASSUME NEW t \in Tabs, ReadConflicted(t) PROVE IndInv'
  BY <1>2, ResolveKeeps DEF ReadConflicted
<1>3. ASSUME NEW t \in Tabs, WatchConflicts(t) PROVE IndInv'
  BY <1>3, ResolveKeeps DEF WatchConflicts
<1>4. ASSUME NEW t \in Tabs, Resolver(t) PROVE IndInv'
  BY <1>4, MergeUnchangedKeeps, MergeWriteKeeps, MergeConflictKeeps, RereadKeeps, PruneKeeps
     DEF Resolver
<1>5. ASSUME NEW t \in Tabs, NEW r \in Remarks, NEW now \in Clock, AddRemark(t, r, now)
      PROVE IndInv'
  BY <1>5, WriteKeeps
<1>6. ASSUME NEW t \in Tabs, NEW n \in Names, NEW now \in Clock, Edit(t, n, now)
      PROVE IndInv'
  BY <1>6, WriteKeeps
<1>7. ASSUME NEW t \in Tabs, NEW now \in Lookups, Backfill(t, now) PROVE IndInv'
  BY <1>7, WriteKeeps
<1>8. ASSUME NEW t \in Tabs, Remove(t) PROVE IndInv'
  BY <1>8, RemoveKeeps
<1>9. ASSUME NEW t \in Tabs, Close(t) PROVE IndInv'
  BY <1>9, CloseKeeps
<1>10. ASSUME NEW link \in Links, Replicate(link[1], link[2]) PROVE IndInv'
  BY <1>10, ReplicateKeeps
<1>11. CASE UNCHANGED vars
  BY <1>11 DEF vars, IndInv, TypeOK, IdsUnique, AncestryKnown, TombstonesBlank,
               CopiesKnown, JobSound, Superseded, All, Local
<1> QED
  BY <1>1, <1>2, <1>3, <1>4, <1>5, <1>6, <1>7, <1>8, <1>9, <1>10, <1>11 DEF Next

\* The inductive invariant holds: what a resolution prunes it has merged, and what
\* tabs hold was read from their own database (data/conflicts.ts, attempt and prune).
THEOREM Invariance == Spec => []IndInv
<1>1. Init => IndInv
  BY InitIndInv
<1>2. IndInv /\ [Next]_vars => IndInv'
  BY NextIndInv
<1> QED
  BY <1>1, <1>2, PTL DEF Spec
-----------------------------------------------------------------------------
(* What follows from the invariant. *)

\* Of the live revisions that say at least something, the greatest is a live
\* leaf, or a user deleted it.
LEMMA GreatestSurvives ==
    ASSUME IndInv, NEW S \in SUBSET All, S # {}, \A u \in S : ~u.deleted,
           \A u \in S, w \in All : ~w.deleted /\ Carries(w, u) => w \in S
    PROVE  \E w \in S : w \in removed \/ w \in Live(All)
<1>1. S \in SUBSET Revision /\ All \in SUBSET Revision
  BY AllTyped DEF IndInv
<1>2. PICK w \in S : \A v \in S : v.id = w.id \/ RevBefore(v.id, w.id)
  BY <1>1, GreatestId
<1>3. ASSUME w \notin removed, NEW u \in All
      PROVE  w.id \notin u.past
  <2> SUFFICES ASSUME w.id \in u.past PROVE FALSE
    OBVIOUS
  <2>1. PICK x \in All : ~x.deleted /\ RevBefore(w.id, x.id) /\ Carries(x, w)
    BY <1>3 DEF IndInv, Superseded
  <2>2. x \in S
    BY <2>1
  <2>3. x.id = w.id \/ RevBefore(x.id, w.id)
    BY <1>2, <2>2
  <2>4. /\ x.id.gen \in Nat /\ x.id.hash \in Nat
        /\ w.id.gen \in Nat /\ w.id.hash \in Nat
    BY <1>1, <2>2, RevisionFields, ConstantsAssumption DEF ConstantsAssumption
  <2> QED
    BY <2>1, <2>3, <2>4 DEF RevBefore
<1> QED
  BY <1>3 DEF Live, Leaves

\* The invariant implies that no remark disappears.
LEMMA IndInvKeepsRemarks == IndInv => RemarkKept
<1> SUFFICES ASSUME IndInv, NEW v \in All, NEW r \in v.remarks
             PROVE  \/ \E u \in removed : r \in u.remarks
                    \/ \E w \in Live(All) : r \in w.remarks
  BY DEF RemarkKept
<1> DEFINE S == {u \in All : ~u.deleted /\ r \in u.remarks}
<1>1. v \in S
  BY DEF IndInv, TombstonesBlank, S
<1>2. \A u \in S, w \in All : ~w.deleted /\ Carries(w, u) => w \in S
  BY DEF Carries, S
<1>3. \E w \in S : w \in removed \/ w \in Live(All)
  BY <1>1, <1>2, GreatestSurvives
<1> QED
  BY <1>3

\* The invariant implies that no catalogue block disappears.
LEMMA IndInvKeepsCatalogue == IndInv => CatalogueKept
<1> SUFFICES ASSUME IndInv, NEW v \in All, v.checkedAt # 0
             PROVE  \/ \E u \in removed : v.checkedAt <= u.checkedAt
                    \/ \E w \in Live(All) : v.checkedAt <= w.checkedAt
  BY DEF CatalogueKept
<1> DEFINE S == {u \in All : ~u.deleted /\ v.checkedAt <= u.checkedAt}
<1>1. \A u \in All : u.checkedAt \in Nat
  BY AllTyped, RevisionFields DEF IndInv
<1>2. v \in S
  BY <1>1 DEF IndInv, TombstonesBlank, S
<1>3. \A u \in S, w \in All : ~w.deleted /\ Carries(w, u) => w \in S
  BY <1>1 DEF Carries, S
<1>4. \E w \in S : w \in removed \/ w \in Live(All)
  BY <1>2, <1>3, GreatestSurvives
<1> QED
  BY <1>4

\* The invariant implies that what is kept was stamped last.
LEMMA IndInvKeepsLatest == IndInv => LatestEditWins
BY DEF IndInv, JobSound, CopiesKnown, LatestEditWins
-----------------------------------------------------------------------------
(* Theorems. *)

\* Every revision, copy and job the code handles has the shape it expects,
\* whatever is written, merged and replicated in whatever order.
THEOREM TypeCorrect == Spec => []TypeOK
<1>1. IndInv => TypeOK
  BY DEF IndInv
<1> QED
  BY <1>1, Invariance, PTL

\* What resolvers prune they have merged: nothing but a deletion ends a branch
\* that a greater revision does not carry forward.
THEOREM PrunedIsMerged == Spec => []Superseded
<1>1. IndInv => Superseded
  BY DEF IndInv
<1> QED
  BY <1>1, Invariance, PTL

\* No saved remark disappears, for any number of browsers, tabs and edits.
THEOREM RemarksSurvive == Spec => []RemarkKept
BY IndInvKeepsRemarks, Invariance, PTL

\* No catalogue lookup is undone by an edit that never saw it.
THEOREM CatalogueSurvives == Spec => []CatalogueKept
BY IndInvKeepsCatalogue, Invariance, PTL

\* The revision a resolution keeps is stamped no earlier than those it prunes.
THEOREM LatestSurvives == Spec => []LatestEditWins
BY IndInvKeepsLatest, Invariance, PTL
-----------------------------------------------------------------------------
(* A deleted device does not come back by a local write. *)

\* The resolution of a document that is gone locally can only end.
LEMMA NextNoResurrection ==
    ASSUME IndInv, [Next]_vars, NEW d \in Databases, Live(store[d]) = {}
    PROVE  Live(store[d])' \subseteq UNION {store[e] : e \in Databases \ {d}}
<1>1. ASSUME store'[d] = store[d] PROVE Live(store[d])' = {}
  BY <1>1 DEF Live, Leaves
<1>2. ASSUME NEW t \in Tabs, NEW v, v \in Leaves(Local(t)), ~v.deleted
      PROVE  DatabaseOf[t] # d
  BY <1>2 DEF Live, Leaves, Local
<1>3. ASSUME NEW t \in Tabs, DatabaseOf[t] # d, NEW N,
             store' = [store EXCEPT ![DatabaseOf[t]] = @ \cup N]
      PROVE  store'[d] = store[d]
  BY <1>3 DEF IndInv, TypeOK
<1>4. ASSUME NEW t \in Tabs, MergeWrite(t) PROVE store'[d] = store[d]
  <2>1. PICK w \in job[t].subject : w \in Leaves(Local(t)) /\ \E m :
           store' = [store EXCEPT ![DatabaseOf[t]] = @ \cup {m}]
    BY <1>4 DEF MergeWrite
  <2>2. ~w.deleted
    BY DEF IndInv, CopiesKnown
  <2> QED
    BY <1>2, <1>3, <2>1, <2>2
<1>5. ASSUME NEW t \in Tabs, Prune(t) PROVE store'[d] = store[d]
  <2> DEFINE leaves == job[t].losers \cap Leaves(Local(t))
  <2>1. PICK stones \in SUBSET UNION {Minted(v, Tombstone(v)) : v \in leaves} :
           store' = [store EXCEPT ![DatabaseOf[t]] = @ \cup stones]
    BY <1>5 DEF Prune, leaves
  <2>2. CASE leaves = {}
    <3>1. stones = {}
      BY <2>1, <2>2
    <3> QED
      BY <2>1, <3>1 DEF IndInv, TypeOK
  <2>3. CASE leaves # {}
    <3>1. PICK v \in leaves : TRUE
      BY <2>3
    <3>2. v \in Leaves(Local(t)) /\ ~v.deleted
      BY <3>1 DEF IndInv, CopiesKnown, leaves
    <3> QED
      BY <1>2, <1>3, <2>1, <3>2
  <2> QED
    BY <2>2, <2>3
<1>6. ASSUME NEW t \in Tabs, NEW v \in held[t], NEW new, Put(t, v, new)
      PROVE  store'[d] = store[d]
  <2>1. ~v.deleted
    BY DEF IndInv, CopiesKnown
  <2> QED
    BY <1>2, <1>3, <1>6, <2>1 DEF Put
<1>7. ASSUME NEW t \in Tabs, Remove(t) PROVE store'[d] = store[d]
  <2>1. PICK v \in held[t] : v \in Leaves(Local(t)) /\ \E u :
           store' = [store EXCEPT ![DatabaseOf[t]] = @ \cup {u}]
    BY <1>7 DEF Remove
  <2>2. ~v.deleted
    BY DEF IndInv, CopiesKnown
  <2> QED
    BY <1>2, <1>3, <2>1, <2>2
<1>8. ASSUME NEW link \in Links, Replicate(link[1], link[2])
      PROVE  Live(store[d])' \subseteq UNION {store[e] : e \in Databases \ {d}}
  <2>1. link[1] \in Databases /\ link[2] \in Databases
    BY ConstantsAssumption DEF ConstantsAssumption
  <2>2. PICK v \in Leaves(store[link[1]]) \ store[link[2]] :
          store' = [store EXCEPT ![link[2]] = @ \cup {v} \cup Ancestry(store[link[1]], v)]
    BY <1>8 DEF Replicate
  <2>3. link[1] # link[2]
    BY <2>2 DEF Leaves
  <2>4. store[d] \subseteq store'[d] /\ (d # link[2] => store'[d] = store[d])
        /\ (d = link[2] => store'[d] \subseteq store[d] \cup store[link[1]])
    BY <2>1, <2>2 DEF IndInv, TypeOK, Leaves, Ancestry
  <2>5. CASE d # link[2]
    BY <1>1, <2>4, <2>5
  <2>6. CASE d = link[2]
    <3>1. \A x \in Live(store[d])' : x \notin store[d]
      BY <2>4 DEF Live, Leaves
    <3>2. \A x \in Live(store[d])' : x \in store[link[1]]
      BY <2>4, <2>6, <3>1 DEF Live, Leaves
    <3> QED
      BY <2>1, <2>3, <2>6, <3>2
  <2> QED
    BY <2>5, <2>6
<1>9. ASSUME store' = store
      PROVE  Live(store[d])' \subseteq UNION {store[e] : e \in Databases \ {d}}
  BY <1>1, <1>9
<1>10. ASSUME NEW t \in Tabs, Resolver(t)
       PROVE  store' = store \/ store'[d] = store[d]
  BY <1>4, <1>5, <1>10
     DEF Resolver, MergeUnchanged, MergeConflict, RereadMissing, RereadResolved, RereadConflicted
<1>11. ASSUME NEW t \in Tabs,
              \/ \E r \in Remarks, now \in Clock : AddRemark(t, r, now)
              \/ \E n \in Names, now \in Clock : Edit(t, n, now)
              \/ \E now \in Lookups : Backfill(t, now)
       PROVE  store'[d] = store[d]
  BY <1>6, <1>11 DEF AddRemark, Edit, Backfill
<1> QED
  BY <1>1, <1>7, <1>8, <1>9, <1>10, <1>11
     DEF Next, vars, ReadPlain, ReadConflicted, WatchConflicts, Close

\* What was deleted here returns only when a concurrent edit of it arrives.
THEOREM DeletionsHold == Spec => NoResurrection
<1>1. IndInv /\ [Next]_vars =>
        [\A d \in Databases : Live(store[d]) = {} =>
           Live(store[d])' \subseteq UNION {store[e] : e \in Databases \ {d}}]_vars
  BY NextNoResurrection
<1> QED
  BY <1>1, Invariance, PTL DEF Spec, NoResurrection
-----------------------------------------------------------------------------
(* The databases implement RemarkLog. *)

\* The remarks ever written are the ones shown and the ones erased.
LEMMA ShownAndErased ==
    ASSUME IndInv
    PROVE  /\ Shown \cup Erased = Written
           /\ Written \ Erased \subseteq Shown
<1>1. \A r \in Written : r \in Erased \/ r \in Shown
  BY IndInvKeepsRemarks DEF RemarkKept, Written, Shown, Erased
<1>2. Shown \subseteq Written
  BY DEF Shown, Written, Live, Leaves
<1>3. Erased \subseteq Written
  BY DEF Erased, Written, IndInv, CopiesKnown
<1> QED
  BY <1>1, <1>2, <1>3

\* What a step writes, as remarks.
LEMMA RemarksWritten ==
    ASSUME NEW N, All' = All \cup N, NEW W, W = UNION {n.remarks : n \in N}
    PROVE  Written' = Written \cup W
BY DEF Written

\* What a step adds to the remarks written and erased names its step of the log.
LEMMA RefineStep ==
    ASSUME IndInv, IndInv'
    PROVE  /\ Written' = Written /\ Erased' = Erased => Log!Settle
           /\ \A r \in Remarks : r \notin Written /\ Written' = Written \cup {r}
                                 /\ Erased' = Erased => Log!Write(r)
           /\ \A S \in SUBSET Remarks : S \subseteq Written /\ Written' = Written
                                 /\ Erased' = Erased \cup S => Log!Erase(S)
<1>1. /\ Shown \cup Erased = Written
      /\ Written \ Erased \subseteq Shown
      /\ Shown' \cup Erased' = Written'
      /\ Written' \ Erased' \subseteq Shown'
  <2>1. Shown \cup Erased = Written /\ Written \ Erased \subseteq Shown
    BY ShownAndErased
  <2>2. (Shown \cup Erased = Written /\ Written \ Erased \subseteq Shown)'
    BY ShownAndErased, PTL
  <2> QED
    BY <2>1, <2>2
<1>2. Written' = Written /\ Erased' = Erased => Log!Settle
  BY <1>1 DEF Log!Settle
<1>3. ASSUME NEW r \in Remarks, r \notin Written, Written' = Written \cup {r}, Erased' = Erased
      PROVE  Log!Write(r)
  BY <1>1, <1>3 DEF Log!Write
<1>4. ASSUME NEW S \in SUBSET Remarks, S \subseteq Written, Written' = Written,
             Erased' = Erased \cup S
      PROVE  Log!Erase(S)
  BY <1>1, <1>4 DEF Log!Erase
<1> QED
  BY <1>2, <1>3, <1>4

\* What each action adds to the remarks ever written.
LEMMA PutWrites ==
    ASSUME IndInv, NEW t \in Tabs, NEW v \in held[t], NEW new \in Revision, Put(t, v, new)
    PROVE  Written' = Written \cup new.remarks /\ Erased' = Erased
<1>1. v \in All /\ v \in Revision
  BY AllTyped DEF IndInv, CopiesKnown
<1>2. PICK u \in Minted(v, new) : store' = [store EXCEPT ![DatabaseOf[t]] = @ \cup {u}]
  BY DEF Put
<1>3. u \in Revision /\ u.remarks = new.remarks
  BY <1>1, <1>2, MintedIsChild DEF IndInv
<1>4. {u} \in SUBSET Revision
  BY <1>3
<1>5. All' = All \cup {u}
  BY <1>2, <1>4, StoreWrite DEF IndInv
<1>6. Written' = Written \cup new.remarks
  BY <1>3, <1>5 DEF Written
<1> QED
  BY <1>6 DEF Put, Erased

\* The merge that is put shows no remark that was not written.
LEMMA MergeWrites ==
    ASSUME IndInv, NEW t \in Tabs, MergeWrite(t)
    PROVE  Written' = Written
<1>1. PICK w \in job[t].subject :
        \E m \in Minted(w, Merged({w} \cup job[t].losers)) :
           store' = [store EXCEPT ![DatabaseOf[t]] = @ \cup {m}]
  BY DEF MergeWrite
<1> DEFINE S == {w} \cup job[t].losers
<1>2. PICK m \in Minted(w, Merged(S)) :
           store' = [store EXCEPT ![DatabaseOf[t]] = @ \cup {m}]
  BY <1>1 DEF S
<1>3. S \subseteq All /\ S \in SUBSET Revision /\ \A u, v \in S : u.id = v.id => u = v
  BY AllTyped DEF IndInv, IdsUnique, CopiesKnown, S
<1>4. Merged(S) \in Revision
  BY MergeCarriesAll DEF S
<1>5. Merged(S).remarks = UNION {v.remarks : v \in S}
  <2>1. LatestRevision(S) \in Revision
    BY <1>3, LatestRevisionIsLatest DEF S
  <2> QED
    BY <2>1 DEF Merged, Revision
<1>6. m \in Revision /\ m.remarks = UNION {v.remarks : v \in S}
  <2>1. w \in Revision /\ TypeOK
    BY <1>3 DEF IndInv
  <2> HIDE DEF S
  <2>2. m \in Revision /\ m.remarks = Merged(S).remarks
    BY <1>2, <1>4, <2>1, MintedIsChild
  <2> QED
    BY <1>5, <2>2
<1>7. {m} \in SUBSET Revision
  BY <1>6
<1>8. All' = All \cup {m}
  BY <1>2, <1>7, StoreWrite DEF IndInv
<1>9. m.remarks \subseteq Written
  BY <1>3, <1>6 DEF Written
<1> QED
  BY <1>8, <1>9 DEF Written

\* Pruning leaves the remarks ever written as they are.
LEMMA PruneWrites ==
    ASSUME IndInv, NEW t \in Tabs, Prune(t)
    PROVE  Written' = Written
<1> DEFINE leaves == job[t].losers \cap Leaves(Local(t))
<1>1. PICK stones \in SUBSET UNION {Minted(v, Tombstone(v)) : v \in leaves} :
        store' = [store EXCEPT ![DatabaseOf[t]] = @ \cup stones]
  BY DEF Prune, leaves
<1>2. ASSUME NEW s \in stones PROVE s \in Revision /\ s.remarks = {}
  <2>1. PICK v \in leaves : s \in Minted(v, Tombstone(v))
    BY <1>1
  <2>2. v \in Revision
    BY AllTyped DEF IndInv, CopiesKnown, leaves
  <2>3. Tombstone(v) \in Revision /\ Tombstone(v).remarks = {}
    BY <2>2, TombstoneTyped
  <2> QED
    BY <2>1, <2>2, <2>3, MintedIsChild DEF IndInv
<1>3. stones \in SUBSET Revision
  BY <1>2
<1>4. All' = All \cup stones
  BY <1>1, <1>3, StoreWrite DEF IndInv
<1> QED
  BY <1>2, <1>4 DEF Written

\* A deletion erases the remarks it shows, and writes none.
LEMMA RemoveWrites ==
    ASSUME IndInv, NEW t \in Tabs, Remove(t)
    PROVE  \E S \in SUBSET Remarks :
              S \subseteq Written /\ Written' = Written /\ Erased' = Erased \cup S
<1>1. PICK v \in held[t] :
        /\ \E u \in Minted(v, Tombstone(v)) :
              store' = [store EXCEPT ![DatabaseOf[t]] = @ \cup {u}]
        /\ removed' = removed \cup {v}
  BY DEF Remove
<1>2. PICK u \in Minted(v, Tombstone(v)) :
        store' = [store EXCEPT ![DatabaseOf[t]] = @ \cup {u}]
  BY <1>1
<1>3. v \in All /\ v \in Revision
  BY AllTyped DEF IndInv, CopiesKnown
<1>4. Tombstone(v) \in Revision /\ Tombstone(v).remarks = {}
  BY <1>3, TombstoneTyped
<1>5. u \in Revision /\ u.remarks = {}
  BY <1>2, <1>3, <1>4, MintedIsChild DEF IndInv
<1>6. {u} \in SUBSET Revision
  BY <1>5
<1>7. All' = All \cup {u}
  BY <1>2, <1>6, StoreWrite DEF IndInv
<1>8. Written' = Written
  BY <1>5, <1>7 DEF Written
<1>9. Erased' = Erased \cup v.remarks
  BY <1>1 DEF Erased
<1>10. v.remarks \in SUBSET Remarks /\ v.remarks \subseteq Written
  BY <1>3, RevisionFields DEF Written
<1> QED
  BY <1>8, <1>9, <1>10

\* Replication writes no remark.
LEMMA ReplicateWrites ==
    ASSUME IndInv, NEW link \in Links, Replicate(link[1], link[2])
    PROVE  Written' = Written
<1>1. link[1] \in Databases /\ link[2] \in Databases
  BY ConstantsAssumption DEF ConstantsAssumption
<1>2. PICK v \in Leaves(store[link[1]]) :
        store' = [store EXCEPT ![link[2]] = @ \cup {v} \cup Ancestry(store[link[1]], v)]
  BY DEF Replicate
<1>3. \A d \in Databases : store[d] \subseteq store'[d] /\ store'[d] \subseteq All
  BY <1>1, <1>2 DEF IndInv, TypeOK, Leaves, Ancestry, All
<1>4. All' = All
  <2>1. All' = UNION {store'[d] : d \in Databases} /\ All = UNION {store[d] : d \in Databases}
    BY DEF All
  <2>2. ASSUME NEW x \in All PROVE x \in All'
    <3>1. PICK d \in Databases : x \in store[d]
      BY <2>1
    <3> QED
      BY <1>3, <2>1, <3>1
  <2>3. ASSUME NEW x \in All' PROVE x \in All
    <3>1. PICK d \in Databases : x \in store'[d]
      BY <2>1
    <3> QED
      BY <1>3, <3>1
  <2> QED
    BY <2>2, <2>3
<1> QED
  BY <1>4 DEF Written

\* Only addRemark writes a remark, and it writes a new one.
LEMMA UserWrites ==
    ASSUME IndInv, NEW t \in Tabs
    PROVE  /\ \A r \in Remarks, now \in Clock : AddRemark(t, r, now) =>
                 r \notin Written /\ Written' = Written \cup {r} /\ Erased' = Erased
           /\ \A n \in Names, now \in Clock : Edit(t, n, now) =>
                 Written' = Written /\ Erased' = Erased
           /\ \A now \in Lookups : Backfill(t, now) =>
                 Written' = Written /\ Erased' = Erased
<1>1. \A v \in held[t] : v \in Revision /\ v.remarks \subseteq Written
  BY AllTyped DEF IndInv, CopiesKnown, Written
<1>2. ASSUME NEW r \in Remarks, NEW now \in Clock, AddRemark(t, r, now)
      PROVE  r \notin Written /\ Written' = Written \cup {r} /\ Erased' = Erased
  <2>1. PICK v \in held[t] :
           Put(t, v, [v EXCEPT !.remarks = @ \cup {r}, !.updatedAt = now])
    BY <1>2 DEF AddRemark
  <2> DEFINE new == [v EXCEPT !.remarks = @ \cup {r}, !.updatedAt = now]
  <2>2. new \in Revision /\ new.remarks = v.remarks \cup {r}
    BY <1>1 DEF new, Revision
  <2>3. Put(t, v, new)
    BY <2>1 DEF new
  <2> HIDE DEF new
  <2>4. Written' = Written \cup new.remarks /\ Erased' = Erased
    BY <2>2, <2>3, PutWrites
  <2> QED
    BY <1>1, <1>2, <2>2, <2>4 DEF AddRemark
<1>3. ASSUME NEW n \in Names, NEW now \in Clock, Edit(t, n, now)
      PROVE  Written' = Written /\ Erased' = Erased
  <2>1. PICK v \in held[t] : Put(t, v, [v EXCEPT !.name = n, !.updatedAt = now])
    BY <1>3 DEF Edit
  <2> DEFINE new == [v EXCEPT !.name = n, !.updatedAt = now]
  <2>2. new \in Revision /\ new.remarks = v.remarks
    BY <1>1 DEF new, Revision
  <2>3. Put(t, v, new)
    BY <2>1 DEF new
  <2> HIDE DEF new
  <2> QED
    BY <1>1, <2>2, <2>3, PutWrites
<1>4. ASSUME NEW now \in Lookups, Backfill(t, now)
      PROVE  Written' = Written /\ Erased' = Erased
  <2>1. PICK v \in held[t] : Put(t, v, [v EXCEPT !.checkedAt = now])
    BY <1>4 DEF Backfill
  <2> DEFINE new == [v EXCEPT !.checkedAt = now]
  <2>2. new \in Revision /\ new.remarks = v.remarks
    BY <1>1 DEF new, Revision
  <2>3. Put(t, v, new)
    BY <2>1 DEF new
  <2> HIDE DEF new
  <2> QED
    BY <1>1, <2>2, <2>3, PutWrites
<1> QED
  BY <1>2, <1>3, <1>4

\* Every step of the databases is a step of the log, or none.
LEMMA NextRefines ==
    ASSUME IndInv, IndInv', [Next]_vars
    PROVE  [Log!Next]_Log!vars
<1> SUFFICES ASSUME ~(Log!Settle) PROVE Log!Next
  BY DEF Log!Next
<1>1. ~(Written' = Written /\ Erased' = Erased)
  BY RefineStep
<1>2. removed' = removed => Erased' = Erased
  BY DEF Erased
<1>3. store' = store => Written' = Written
  BY DEF Written, All
<1>4. ASSUME NEW t \in Tabs, Resolver(t) PROVE FALSE
  <2>1. removed' = removed
    BY <1>4 DEF Resolver, MergeUnchanged, MergeWrite, MergeConflict, RereadMissing,
                RereadResolved, RereadConflicted, Prune
  <2>2. store' = store \/ MergeWrite(t) \/ Prune(t)
    BY <1>4 DEF Resolver, MergeUnchanged, MergeConflict, RereadMissing,
                RereadResolved, RereadConflicted
  <2> QED
    BY <1>1, <1>2, <1>3, <2>1, <2>2, MergeWrites, PruneWrites
<1>5. ASSUME NEW t \in Tabs, NEW r \in Remarks, NEW now \in Clock, AddRemark(t, r, now)
      PROVE  Log!Next
  BY <1>5, UserWrites, RefineStep DEF Log!Next
<1>6. ASSUME NEW t \in Tabs, Remove(t) PROVE Log!Next
  <2>1. PICK S \in SUBSET Remarks :
           S \subseteq Written /\ Written' = Written /\ Erased' = Erased \cup S
    BY <1>6, RemoveWrites
  <2> QED
    BY <2>1, RefineStep DEF Log!Next
<1>7. ASSUME NEW link \in Links, Replicate(link[1], link[2]) PROVE FALSE
  <2>1. removed' = removed
    BY <1>7 DEF Replicate
  <2> QED
    BY <1>1, <1>2, <1>7, <2>1, ReplicateWrites
<1>8. ASSUME NEW t \in Tabs,
             ReadPlain(t) \/ ReadConflicted(t) \/ WatchConflicts(t) \/ Close(t)
      PROVE  FALSE
  BY <1>1, <1>2, <1>3, <1>8 DEF ReadPlain, ReadConflicted, WatchConflicts, Close
<1>9. CASE UNCHANGED vars
  BY <1>1, <1>2, <1>3, <1>9 DEF vars
<1> QED
  BY <1>1, <1>4, <1>5, <1>6, <1>7, <1>8, <1>9, UserWrites DEF Next

\* Conflicts, merges, prunes and replication are invisible to whoever reads the
\* remarks: the databases behave as one log that only users write and erase.
THEOREM ImplementsRemarkLog == Spec => RemarkLogSpec
<1>1. Init => Log!Init
  <2> SUFFICES ASSUME Init PROVE Shown = {} /\ Erased = {}
    BY DEF Log!Init
  <2>1. \A v \in All : v = Root
    BY DEF Init, All
  <2>2. \A w \in Live(All) : w.remarks = {}
    BY <2>1 DEF Live, Leaves, Root
  <2> QED
    BY <2>2 DEF Shown, Erased, Init
<1>2. IndInv /\ IndInv' /\ [Next]_vars => [Log!Next]_Log!vars
  BY NextRefines
<1> QED
  BY <1>1, <1>2, Invariance, PTL DEF Spec, RemarkLogSpec, Log!Spec
=============================================================================
