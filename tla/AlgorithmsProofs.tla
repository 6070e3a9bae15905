-------------------------- MODULE AlgorithmsProofs --------------------------
(***************************************************************************)
(* The computations, for any data whatever. That mergeDevice answers the   *)
(* same whatever order it reads the revisions in: (updatedAt, _rev) is a   *)
(* strict total order of revisions with different ids, so that the best of *)
(* what was read and one more is one of the two, and which one is what the *)
(* loops ask. That an archive reads back whole or not at all, and that a   *)
(* slip in a code shows: what a loop over a sequence computes is had from  *)
(* the existence of the function that MapThenFoldSet chooses, and that by  *)
(* induction, the least number for which it fails not being there. That a  *)
(* project counts once: each action of the page replaces one of the names  *)
(* that count by another, or adds one where there is room. That a rename   *)
(* moves the rooms inside the old one along, and nothing else.             *)
(***************************************************************************)
EXTENDS MCAlgorithms, TLAPS, WellFoundedInduction, FiniteSetTheorems, SequenceTheorems,
        FunctionTheorems

\* What is assumed of a revision, as facts about its fields.
LEMMA CandidateFields ==
    ASSUME NEW v \in Candidates
    PROVE  /\ v.updatedAt \in Nat /\ v.checkedAt \in Nat
           /\ v.id.gen \in Nat /\ v.id.hash \in Nat
           /\ v.id = [gen |-> v.id.gen, hash |-> v.id.hash]
           /\ \A r \in RemarkIds : v.remarks[r] \in Texts \cup {NoText}
BY CandidatesAssumption

\* Two revisions with different ids are never tied.
LEMMA LosesToTotal ==
    ASSUME NEW u \in Candidates, NEW v \in Candidates, u.id # v.id
    PROVE  /\ LosesTo(u, v) \/ LosesTo(v, u)
           /\ RevBefore(u.id, v.id) \/ RevBefore(v.id, u.id)
<1>1. /\ u.updatedAt \in Nat /\ u.id.gen \in Nat /\ u.id.hash \in Nat
      /\ v.updatedAt \in Nat /\ v.id.gen \in Nat /\ v.id.hash \in Nat
  BY CandidateFields
<1>2. u.id.gen # v.id.gen \/ u.id.hash # v.id.hash
  BY CandidateFields
<1>3. QED  BY <1>1, <1>2 DEF LosesTo, RevBefore

\* The order the scalars are decided by is transitive, as is that of the ids.
LEMMA LosesToTransitive ==
    ASSUME NEW u \in Candidates, NEW v \in Candidates, NEW w \in Candidates
    PROVE  /\ LosesTo(u, v) /\ LosesTo(v, w) => LosesTo(u, w)
           /\ RevBefore(u.id, v.id) /\ RevBefore(v.id, w.id) => RevBefore(u.id, w.id)
<1>1. /\ u.updatedAt \in Nat /\ u.id.gen \in Nat /\ u.id.hash \in Nat
      /\ v.updatedAt \in Nat /\ v.id.gen \in Nat /\ v.id.hash \in Nat
      /\ w.updatedAt \in Nat /\ w.id.gen \in Nat /\ w.id.hash \in Nat
  BY CandidateFields
<1>2. QED  BY <1>1 DEF LosesTo, RevBefore

\* The latest of a set and of one revision more: one comparison decides.
LEMMA LatestOfOneMore ==
    ASSUME NEW S \in SUBSET Candidates, NEW b, IsLatest(b, S),
           NEW v \in Candidates, \A u \in S : u.id # v.id
    PROVE  IF LosesTo(b, v) THEN IsLatest(v, S \cup {v}) ELSE IsLatest(b, S \cup {v})
<1>1. b \in S /\ b \in Candidates
  BY DEF IsLatest
<1>2. CASE LosesTo(b, v)
  <2>1. ASSUME NEW u \in S, u # b
        PROVE  LosesTo(u, v)
    <3>1. u \in Candidates /\ LosesTo(u, b)
      BY <2>1 DEF IsLatest
    <3>2. QED  BY <1>1, <1>2, <3>1, LosesToTransitive
  <2>2. QED  BY <1>2, <2>1 DEF IsLatest
<1>3. CASE ~LosesTo(b, v)
  <2>1. LosesTo(v, b)
    BY <1>1, <1>3, LosesToTotal
  <2>2. QED  BY <1>3, <2>1 DEF IsLatest
<1>4. QED  BY <1>2, <1>3

\* The same of the winner, which is decided by the ids alone.
LEMMA WinnerOfOneMore ==
    ASSUME NEW S \in SUBSET Candidates, NEW w, IsWinner(w, S),
           NEW v \in Candidates, \A u \in S : u.id # v.id
    PROVE  \E x \in S \cup {v} : IsWinner(x, S \cup {v})
<1>1. w \in S /\ w \in Candidates
  BY DEF IsWinner
<1>2. CASE RevBefore(w.id, v.id)
  <2>1. ASSUME NEW u \in S, u # w
        PROVE  RevBefore(u.id, v.id)
    <3>1. u \in Candidates /\ RevBefore(u.id, w.id)
      BY <2>1 DEF IsWinner
    <3>2. QED  BY <1>1, <1>2, <3>1, LosesToTransitive
  <2>2. QED  BY <1>2, <2>1 DEF IsWinner
<1>3. CASE RevBefore(v.id, w.id)
  BY <1>1, <1>3 DEF IsWinner
<1>4. QED  BY <1>1, <1>2, <1>3, LosesToTotal

\* And of the source of the catalogue block, among the revisions that have one.
LEMMA SourceOfOneMore ==
    ASSUME NEW S \in SUBSET Candidates, NEW b \in S,
           \A u \in S \ {b} : OlderLookup(u, b),
           NEW v \in Candidates, \A u \in S : u.id # v.id
    PROVE  IF OlderLookup(b, v) THEN \A u \in S : OlderLookup(u, v)
           ELSE OlderLookup(v, b)
<1>1. b.checkedAt \in Nat /\ v.checkedAt \in Nat
  BY CandidateFields
<1>2. ASSUME OlderLookup(b, v), NEW u \in S, u # b
      PROVE  OlderLookup(u, v)
  <2>1. OlderLookup(u, b) /\ u \in Candidates /\ u.checkedAt \in Nat
    BY <1>2, CandidateFields
  <2>2. LosesTo(u, b) /\ LosesTo(b, v) => LosesTo(u, v)
    BY <2>1, LosesToTransitive
  <2>3. QED  BY <1>1, <1>2, <2>1, <2>2 DEF OlderLookup
<1>3. LosesTo(b, v) \/ LosesTo(v, b)
  BY LosesToTotal
<1>4. QED  BY <1>1, <1>2, <1>3 DEF OlderLookup

-----------------------------------------------------------------------------
\* One turn of the loops keeps every part of the invariant.
LEMMA TakeKeeps ==
    ASSUME IndInv, NEW v \in Candidates, Take(v)
    PROVE  IndInv'
<1> DEFINE new == read \cup {v}
<1>1. read \in SUBSET Candidates /\ read' = new /\ \A u \in read : u.id # v.id
  BY DEF IndInv, Take
<1>2. read' \subseteq Candidates /\ \A t, u \in read' : t.id = u.id => t = u
  BY <1>1 DEF IndInv
<1>3. \E w \in new : IsWinner(w, new)
  <2>1. CASE read = {}
    BY <2>1 DEF IsWinner
  <2>2. CASE read # {}
    <3>1. PICK w \in read : IsWinner(w, read)
      BY <2>2 DEF IndInv
    <3>2. QED  BY <1>1, <3>1, WinnerOfOneMore
  <2>3. QED  BY <2>1, <2>2
<1>4. \E b \in best' : best' = {b} /\ IsLatest(b, new)
  <2>1. CASE read = {}
    <3>1. best' = {v}
      BY <2>1 DEF IndInv, Take, KeptLatest
    <3>2. QED  BY <2>1, <3>1 DEF IsLatest
  <2>2. CASE read # {}
    <3>1. PICK b \in best : best = {b} /\ IsLatest(b, read)
      BY <2>2 DEF IndInv
    <3>2. best' = IF LosesTo(b, v) THEN {v} ELSE {b}
      BY <3>1 DEF Take, KeptLatest
    <3>3. IF LosesTo(b, v) THEN IsLatest(v, new) ELSE IsLatest(b, new)
      BY <1>1, <3>1, LatestOfOneMore
    <3>4. QED  BY <3>2, <3>3
  <2>3. QED  BY <2>1, <2>2
<1>5. IF Checked(new) = {} THEN source' = {}
      ELSE \E b \in Checked(new) :
             source' = {b} /\ \A u \in Checked(new) \ {b} : OlderLookup(u, b)
  <2>1. CASE ~(v.checkedAt > 0)
    <3>1. Checked(new) = Checked(read)
      BY <2>1 DEF Checked
    <3>2. source' = source
      BY <2>1 DEF Take, KeptSource
    <3>3. QED  BY <3>1, <3>2 DEF IndInv
  <2>2. CASE v.checkedAt > 0
    <3>1. Checked(new) = Checked(read) \cup {v} /\ Checked(read) \subseteq read
      BY <2>2 DEF Checked
    <3>2. CASE Checked(read) = {}
      <4>1. source' = {v}
        BY <2>2, <3>2 DEF IndInv, Take, KeptSource
      <4>2. QED  BY <3>1, <3>2, <4>1
    <3>3. CASE Checked(read) # {}
      <4>1. PICK b \in Checked(read) :
               source = {b} /\ \A u \in Checked(read) \ {b} : OlderLookup(u, b)
        BY <3>3 DEF IndInv
      <4>2. source' = IF OlderLookup(b, v) THEN {v} ELSE {b}
        BY <2>2, <4>1 DEF Take, KeptSource, OlderLookup
      <4>3. IF OlderLookup(b, v) THEN \A u \in Checked(read) : OlderLookup(u, v)
            ELSE OlderLookup(v, b)
        BY <1>1, <3>1, <4>1, SourceOfOneMore
      <4>4. QED  BY <3>1, <4>1, <4>2, <4>3
    <3>4. QED  BY <3>2, <3>3
  <2>3. QED  BY <2>1, <2>2
<1>6. ASSUME NEW r \in RemarkIds
      PROVE  IF Carrying(new, r) = {} THEN byId'[r] = {}
             ELSE \E b \in byId'[r] : byId'[r] = {b} /\ IsLatest(b, Carrying(new, r))
  <2>1. byId'[r] = KeptRemark(byId[r], v, r)
    BY DEF Take
  <2>2. CASE v.remarks[r] = NoText
    <3>1. Carrying(new, r) = Carrying(read, r) /\ byId'[r] = byId[r]
      BY <2>1, <2>2 DEF Carrying, KeptRemark
    <3>2. QED  BY <3>1 DEF IndInv, RemarksUnited
  <2>3. CASE v.remarks[r] # NoText
    <3>1. Carrying(new, r) = Carrying(read, r) \cup {v} /\ Carrying(read, r) \subseteq read
      BY <2>3 DEF Carrying
    <3>2. CASE Carrying(read, r) = {}
      <4>1. byId'[r] = {v}
        BY <2>1, <2>3, <3>2 DEF IndInv, RemarksUnited, KeptRemark
      <4>2. QED  BY <3>1, <3>2, <4>1 DEF IsLatest
    <3>3. CASE Carrying(read, r) # {}
      <4>1. PICK b \in byId[r] : byId[r] = {b} /\ IsLatest(b, Carrying(read, r))
        BY <3>3 DEF IndInv, RemarksUnited
      <4>2. byId'[r] = IF LosesTo(b, v) THEN {v} ELSE {b}
        BY <2>1, <2>3, <4>1 DEF KeptRemark
      <4>3. /\ Carrying(read, r) \in SUBSET Candidates
            /\ \A u \in Carrying(read, r) : u.id # v.id
        BY <1>1, <3>1
      <4>4. IF LosesTo(b, v) THEN IsLatest(v, Carrying(read, r) \cup {v})
            ELSE IsLatest(b, Carrying(read, r) \cup {v})
        BY <4>1, <4>3, LatestOfOneMore
      <4>5. QED  BY <3>1, <4>2, <4>4
    <3>4. QED  BY <3>2, <3>3
  <2>4. QED  BY <2>2, <2>3
<1>7. QED
  BY <1>1, <1>2, <1>3, <1>4, <1>5, <1>6 DEF IndInv, RemarksUnited

\* Whatever the order of reading, the loops hold the answers over what is read.
THEOREM Invariance == Spec => []IndInv
<1>1. Init => IndInv
  BY DEF Init, IndInv, Checked, Carrying, RemarksUnited
<1>2. IndInv /\ [Next]_vars => IndInv'
  <2>1. SUFFICES ASSUME IndInv, [Next]_vars PROVE IndInv'
    OBVIOUS
  <2>2. CASE Next
    BY <2>1, <2>2, TakeKeeps DEF Next
  <2>3. CASE UNCHANGED vars
    BY <2>1, <2>3 DEF vars, IndInv, RemarksUnited
  <2>4. QED  BY <2>1, <2>2, <2>3
<1>3. QED  BY <1>1, <1>2, PTL DEF Spec

\* The scalars are those of the revision latest by (updatedAt, _rev), in any order.
THEOREM LatestDecided == Spec => []LatestWins
<1>1. IndInv => LatestWins
  BY DEF IndInv, LatestWins
<1>2. QED  BY <1>1, Invariance, PTL

\* Every remark of every revision is in the union, with the text of the latest one.
THEOREM RemarksDecided == Spec => []RemarksUnited
<1>1. IndInv => RemarksUnited
  BY DEF IndInv
<1>2. QED  BY <1>1, Invariance, PTL

\* The catalogue block is that of the newest lookup, in any order.
THEOREM CatalogueDecided == Spec => []CatalogueWins
<1>1. ASSUME IndInv PROVE CatalogueWins
  <2> DEFINE newest == {v \in Checked(read) : \A u \in Checked(read) : u.checkedAt <= v.checkedAt}
  <2>1. CASE Checked(read) = {}
    BY <1>1, <2>1 DEF IndInv, CatalogueWins
  <2>2. CASE Checked(read) # {}
    <3>1. PICK b \in Checked(read) :
             source = {b} /\ \A v \in Checked(read) \ {b} : OlderLookup(v, b)
      BY <1>1, <2>2 DEF IndInv
    <3>2. \A v \in Checked(read) : v.checkedAt \in Nat
      BY <1>1, CandidateFields DEF IndInv, Checked
    <3>3. b \in newest
      BY <3>1, <3>2 DEF OlderLookup
    <3>4. ASSUME NEW v \in newest \ {b} PROVE LosesTo(v, b)
      BY <3>1, <3>2, <3>3, <3>4 DEF OlderLookup
    <3>5. IsLatest(b, newest)
      BY <3>3, <3>4 DEF IsLatest
    <3>6. QED  BY <3>1, <3>3, <3>5 DEF CatalogueWins
  <2>3. QED  BY <2>1, <2>2
<1>2. QED  BY <1>1, Invariance, PTL

\* What a merge writes beats all it was made from and lacks nothing of theirs.
THEOREM MergeSettles == Spec => []Settled
<1>1. ASSUME IndInv, NEW v \in read, NEW h
      PROVE  /\ LosesTo(v, Merged(h))
             /\ v.checkedAt <= Merged(h).checkedAt
             /\ \A r \in RemarkIds : v.remarks[r] # NoText => Merged(h).remarks[r] # NoText
  <2> DEFINE w == CHOOSE u \in read : IsWinner(u, read)
  <2>1. w \in read /\ IsWinner(w, read)
    BY <1>1 DEF IndInv
  <2>2. v \in Candidates /\ w \in Candidates
    BY <1>1, <2>1 DEF IndInv
  <2>3. PICK b \in best : best = {b} /\ IsLatest(b, read)
    BY <1>1 DEF IndInv
  <2>4. b \in Candidates /\ (CHOOSE u \in best : TRUE) = b
    BY <1>1, <2>3 DEF IndInv, IsLatest
  <2> DEFINE Typed(u) == /\ u.updatedAt \in Nat /\ u.checkedAt \in Nat
                         /\ u.id.gen \in Nat /\ u.id.hash \in Nat
  <2>9. \A u \in Candidates : Typed(u)
    BY CandidateFields
  <2> HIDE DEF w
  <2>5. LosesTo(v, Merged(h))
    <3>1. Merged(h).updatedAt = b.updatedAt /\ Merged(h).id.gen = w.id.gen + 1
      BY <2>4 DEF Merged, w
    <3>2. v.updatedAt <= b.updatedAt
      BY <1>1, <2>2, <2>3, <2>4, <2>9 DEF IsLatest, LosesTo
    <3>3. v.id.gen < w.id.gen + 1
      BY <1>1, <2>1, <2>2, <2>9 DEF IsWinner, RevBefore
    <3>4. QED  BY <2>2, <2>4, <2>9, <3>1, <3>2, <3>3 DEF LosesTo, RevBefore
  <2>6. v.checkedAt <= Merged(h).checkedAt
    <3>1. CASE ~(v.checkedAt > 0)
      <4>1. v.checkedAt = 0
        BY <2>2, <2>9, <3>1
      <4>2. Merged(h).checkedAt \in Nat
        <5>1. source # {} => (CHOOSE u \in source : TRUE) \in read
          BY <1>1 DEF IndInv, Checked
        <5>2. Merged(h).checkedAt = IF source = {} THEN 0 ELSE (CHOOSE u \in source : TRUE).checkedAt
          BY DEF Merged
        <5>3. QED  BY <1>1, <2>9, <5>1, <5>2 DEF IndInv
      <4>3. QED  BY <4>1, <4>2
    <3>2. CASE v.checkedAt > 0
      <4>1. v \in Checked(read)
        BY <3>2 DEF Checked
      <4>2. PICK s \in Checked(read) :
               source = {s} /\ \A u \in Checked(read) \ {s} : OlderLookup(u, s)
        BY <1>1, <4>1 DEF IndInv
      <4>3. Merged(h).checkedAt = s.checkedAt
        BY <4>2 DEF Merged
      <4>4. s \in Candidates
        BY <1>1, <4>2 DEF IndInv, Checked
      <4>5. QED  BY <2>2, <2>9, <4>1, <4>2, <4>3, <4>4 DEF OlderLookup
    <3>3. QED  BY <3>1, <3>2
  <2>7. ASSUME NEW r \in RemarkIds, v.remarks[r] # NoText
        PROVE  Merged(h).remarks[r] # NoText
    <3>1. v \in Carrying(read, r)
      BY <2>7 DEF Carrying
    <3>2. PICK c \in byId[r] : byId[r] = {c} /\ IsLatest(c, Carrying(read, r))
      BY <1>1, <3>1 DEF IndInv, RemarksUnited
    <3>3. Merged(h).remarks[r] = c.remarks[r]
      BY <3>2 DEF Merged
    <3>4. QED  BY <3>2, <3>3 DEF IsLatest, Carrying
  <2>8. QED  BY <2>5, <2>6, <2>7
<1>2. IndInv => Settled
  BY <1>1 DEF Settled
<1>3. QED  BY <1>2, Invariance, PTL

(* The merge of one set of revisions has one answer, whatever the order they are read in,
   and nothing is left to write when it is merged again (mergeDevice, conflicts.ts:160). *)
THEOREM MergeAgrees == Spec => []OneAnswer
<1>1. LatestWins /\ CatalogueWins /\ RemarksUnited /\ Settled => OneAnswer
  BY DEF OneAnswer
<1>2. QED  BY <1>1, LatestDecided, CatalogueDecided, RemarksDecided, MergeSettles, PTL
-----------------------------------------------------------------------------
(* Folds over sequences and sums over sets, of which the readers are made.    *)

Smaller == {p \in Nat \X Nat : p[1] < p[2]}

\* Among natural numbers there is a least: the order of the naturals is well-founded.
LEMMA LeastNumber ==
  ASSUME NEW T, T \subseteq Nat, T # {}
  PROVE  \E x \in T : \A y \in T : x <= y
<1>1. IsWellFoundedOn(Smaller, Nat)
  BY NatLessThanWellFounded DEF Smaller, OpToRel
<1>2. PICK x \in T : \A y \in T : ~(<<y, x>> \in Smaller)
  BY <1>1, WFMin
<1>3. \A y \in T : x <= y
  <2> TAKE y \in T
  <2>1. x \in Nat /\ y \in Nat /\ <<y, x>> \notin Smaller
    BY <1>2
  <2>2. ~(y < x)
    BY <2>1 DEF Smaller
  <2> QED BY <2>1, <2>2
<1> QED BY <1>3

\* Induction, over a set of numbers.
LEMMA Climb ==
  ASSUME NEW n \in Nat, NEW S, 0 \in S, \A i \in 0..n : i # n /\ i \in S => i + 1 \in S
  PROVE  \A i \in 0..n : i \in S
<1> SUFFICES ASSUME NEW j \in 0..n, j \notin S PROVE FALSE
  OBVIOUS
<1> DEFINE T == {i \in 0..n : i \notin S}
<1>1. T \subseteq Nat /\ T # {}
  OBVIOUS
<1>2. PICK x \in T : \A y \in T : x <= y
  BY <1>1, LeastNumber
<1>3. x # 0 /\ x \in 0..n /\ x \notin S
  OBVIOUS
<1>4. x - 1 \in 0..n /\ x - 1 # n /\ x = (x - 1) + 1
  BY <1>3
<1>5. x - 1 \in S
  BY <1>2, <1>4
<1> QED BY <1>3, <1>4, <1>5


\* What MapThenFoldSet recurses on: a value for every subset, from the one without the
\* element that is picked of it.
Folds(g, S, base, step, pick) ==
  \A T \in SUBSET S : g[T] = IF T = {} THEN base ELSE step[<<g[T \ {pick[T]}], pick[T]>>]

\* A fold over the subsets of a finite set exists: the value of each subset is made from that
\* of a smaller one, so the function that FoldLeft chooses is there to be chosen.
LEMMA FoldsExist ==
  ASSUME NEW S, IsFiniteSet(S), NEW D, NEW base \in D, NEW step \in [D \X S -> D],
         NEW pick, \A T \in SUBSET S : T # {} => pick[T] \in T
  PROVE  \E g \in [SUBSET S -> D] : Folds(g, S, base, step, pick)
<1> DEFINE Small(m) == {T \in SUBSET S : Cardinality(T) <= m}
           Good(g, m) == \A T \in Small(m) :
              g[T] = IF T = {} THEN base ELSE step[<<g[T \ {pick[T]}], pick[T]>>]
           Ms == {m \in 0..Cardinality(S) : \E g \in [Small(m) -> D] : Good(g, m)}
<1>0. /\ Cardinality(S) \in Nat
      /\ \A T \in SUBSET S : /\ IsFiniteSet(T) /\ Cardinality(T) \in Nat
                             /\ Cardinality(T) <= Cardinality(S)
                             /\ (T = {} <=> Cardinality(T) = 0)
  BY FS_CardinalityType, FS_Subset, FS_EmptySet
<1>1. 0 \in Ms
  <2> DEFINE g == [T \in Small(0) |-> base]
  <2>1. \A T \in Small(0) : T = {}
    BY <1>0
  <2>2. g \in [Small(0) -> D] /\ Good(g, 0)
    BY <2>1
  <2> HIDE DEF Good, Small, g
  <2> QED BY <1>0, <2>2
<1>2. ASSUME NEW m \in 0..Cardinality(S), m # Cardinality(S), m \in Ms PROVE m + 1 \in Ms
  <2>1. PICK g \in [Small(m) -> D] : Good(g, m)
    BY <1>2
  <2> DEFINE h == [T \in Small(m + 1) |->
                     IF T = {} THEN base ELSE step[<<g[T \ {pick[T]}], pick[T]>>]]
  <2>2. ASSUME NEW T \in Small(m + 1), T # {}
        PROVE  T \ {pick[T]} \in Small(m) /\ pick[T] \in S /\ Small(m) \subseteq Small(m + 1)
    <3>1. pick[T] \in T /\ T \in SUBSET S
      BY <2>2
    <3>2. Cardinality(T \ {pick[T]}) = Cardinality(T) - 1
      BY <1>0, <3>1, FS_RemoveElement
    <3> QED BY <1>0, <3>1, <3>2
  <2>3. h \in [Small(m + 1) -> D]
    <3>1. ASSUME NEW T \in Small(m + 1), T # {}
          PROVE  step[<<g[T \ {pick[T]}], pick[T]>>] \in D
      BY <2>1, <2>2, <3>1
    <3> HIDE DEF Small
    <3> QED BY <3>1
  <2>4. \A T \in Small(m) : T \in Small(m + 1) /\ h[T] = g[T]
    BY <1>0, <2>1
  <2>5. Good(h, m + 1)
    <3>1. ASSUME NEW T \in Small(m + 1)
          PROVE  h[T] = IF T = {} THEN base ELSE step[<<h[T \ {pick[T]}], pick[T]>>]
      <4>1. CASE T = {}
        BY <4>1
      <4>2. CASE T # {}
        <5>1. h[T \ {pick[T]}] = g[T \ {pick[T]}]
          BY <2>2, <2>4, <4>2
        <5> HIDE DEF Small
        <5> QED BY <4>2, <5>1
      <4> QED BY <4>1, <4>2
    <3> HIDE DEF h, Small
    <3> QED BY <3>1
  <2> HIDE DEF Good, Small, h
  <2> QED BY <1>0, <1>2, <2>3, <2>5
<1>3. Cardinality(S) \in Ms
  <2> HIDE DEF Ms
  <2> QED BY <1>0, <1>1, <1>2, Climb
<1>4. PICK g \in [Small(Cardinality(S)) -> D] : Good(g, Cardinality(S))
  BY <1>3
<1>5. Small(Cardinality(S)) = SUBSET S
  BY <1>0
<1> QED BY <1>4, <1>5 DEF Folds

\* Max and Min, as each module has them.
Greatest(T) == CHOOSE x \in T : \A y \in T : x >= y
LeastOf(T)  == CHOOSE x \in T : \A y \in T : x =< y

\* The least and the greatest of the first n indices.
LEMMA EndsOf ==
  ASSUME NEW T, T \subseteq Int, NEW x \in T
  PROVE  /\ (\A y \in T : y <= x) => Greatest(T) = x
         /\ (\A y \in T : x <= y) => LeastOf(T) = x
<1>1. ASSUME \A y \in T : y <= x PROVE Greatest(T) = x
  <2>1. \A y \in T : x >= y
    BY <1>1
  <2>2. \A z \in T : (\A y \in T : z >= y) => z = x
    <3> SUFFICES ASSUME NEW z \in T, \A y \in T : z >= y PROVE z = x
      OBVIOUS
    <3>1. z >= x /\ x >= z /\ z \in Int /\ x \in Int
      BY <2>1
    <3> QED BY <3>1
  <2> QED BY <2>1, <2>2 DEF Greatest
<1>2. ASSUME \A y \in T : x <= y PROVE LeastOf(T) = x
  <2>2. \A z \in T : (\A y \in T : z =< y) => z = x
    <3> SUFFICES ASSUME NEW z \in T, \A y \in T : z =< y PROVE z = x
      OBVIOUS
    <3>1. z =< x /\ x =< z /\ z \in Int /\ x \in Int
      BY <1>2
    <3> QED BY <3>1
  <2> QED BY <1>2, <2>2 DEF LeastOf
<1> QED BY <1>1, <1>2

\* Max of the community modules takes the greatest of the first n indices.
LEMMA MaxIn ==
  ASSUME NEW n \in Nat, NEW T \in SUBSET (1..n), T # {}
  PROVE  Greatest(T) \in T /\ \A y \in T : y <= Greatest(T)
<1> DEFINE U == {n - x : x \in T}
<1>1. U \subseteq Nat /\ U # {}
  OBVIOUS
<1>2. PICK u \in U : \A y \in U : u <= y
  BY <1>1, LeastNumber
<1>3. n - u \in T /\ \A y \in T : y <= n - u
  BY <1>2
<1>4. Greatest(T) = n - u
  <2>1. T \subseteq Int
    OBVIOUS
  <2> QED BY <1>3, <2>1, EndsOf
<1> QED BY <1>3, <1>4

\* Min takes a member of its set, the least of what was bad in readZip.
LEMMA MinIn ==
  ASSUME NEW T \in SUBSET Nat, T # {}
  PROVE  LeastOf(T) \in T /\ \A y \in T : LeastOf(T) <= y
<1>1. PICK u \in T : \A y \in T : u <= y
  BY LeastNumber
<1>2. LeastOf(T) = u
  <2>1. T \subseteq Int
    OBVIOUS
  <2> QED BY <1>1, <2>1, EndsOf
<1> QED BY <1>1, <1>2

\* Without its greatest index, the first n indices are the first n - 1.
LEMMA Prefix ==
  ASSUME NEW n \in Nat, NEW i \in 1..n
  PROVE  /\ 1..i \in SUBSET (1..n) /\ 1..i # {} /\ Greatest(1..i) = i
         /\ (1..i) \ {i} = 1..(i - 1)
<1>1. i \in 1..i /\ 1..i \subseteq Int /\ \A y \in 1..i : y <= i
  OBVIOUS
<1>2. Greatest(1..i) = i
  BY <1>1, EndsOf
<1> QED BY <1>1, <1>2
-----------------------------------------------------------------------------
(* Project archives: an export reads back, and what is damaged is refused.    *)

Devs(E) == {e \in E : e.is = "device"}

\* DevicesIn read from left to right: a file is appended when it is a device's and passed over
\* otherwise (the loop of readProjectArchive).
LEMMA DevicesRead ==
  ASSUME NEW E, NEW data \in Seq(E)
  PROVE  \E g \in [0..Len(data) -> Seq(Devs(E))] :
            /\ g[0] = <<>> /\ Archive!DevicesIn(data) = g[Len(data)]
            /\ \A i \in 1..Len(data) :
                  g[i] = IF data[i].is = "device" THEN Append(g[i - 1], data[i]) ELSE g[i - 1]
<1> DEFINE S == DOMAIN data
           Good(it) == it = [s \in SUBSET S |-> IF s = {} THEN <<>>
                                ELSE IF data[Greatest(s)].is = "device"
                                     THEN Append(it[s \ {Greatest(s)}], data[Greatest(s)])
                                     ELSE it[s \ {Greatest(s)}]]
           it == CHOOSE it : Good(it)
           step == [p \in Seq(Devs(E)) \X S |-> IF data[p[2]].is = "device"
                                          THEN Append(p[1], data[p[2]]) ELSE p[1]]
           pick == [T \in SUBSET S |-> Greatest(T)]
<1>1. S = 1..Len(data) /\ Len(data) \in Nat /\ IsFiniteSet(S)
  BY FS_Interval
<1>2. \A T \in SUBSET S : T # {} => pick[T] \in T
  BY <1>1, MaxIn
<1>3. step \in [Seq(Devs(E)) \X S -> Seq(Devs(E))]
  BY <1>1 DEF Devs
<1> HIDE DEF S
<1>4. PICK g \in [SUBSET S -> Seq(Devs(E))] : Folds(g, S, <<>>, step, pick)
  <2>1. <<>> \in Seq(Devs(E))
    OBVIOUS
  <2> HIDE DEF step, pick
  <2> QED BY <1>1, <1>2, <1>3, <2>1, FoldsExist
<1>5. \A s \in SUBSET S : s # {} => s \ {Greatest(s)} \in SUBSET S /\ Greatest(s) \in S
  BY <1>2
<1>6. Good(g)
  BY <1>4, <1>5 DEF Folds
<1>7. Good(it)
  <2> HIDE DEF Good
  <2> QED BY <1>6
<1>8. Archive!DevicesIn(data) = it[S]
  BY DEF Archive!DevicesIn, Archive!FoldLeft, Archive!MapThenFoldSet, Archive!Max, Greatest, S
<1> DEFINE h == [i \in 0..Len(data) |-> it[1..i]]
<1>9. ASSUME NEW i \in 1..Len(data)
      PROVE  h[i] = IF data[i].is = "device" THEN Append(h[i - 1], data[i]) ELSE h[i - 1]
  <2>1. 1..i \in SUBSET S /\ 1..i # {} /\ Greatest(1..i) = i /\ (1..i) \ {i} = 1..(i - 1)
    BY <1>1, Prefix
  <2>2. h[i] = it[1..i] /\ h[i - 1] = it[1..(i - 1)]
    BY <1>1
  <2>3. it[1..i] = IF data[i].is = "device" THEN Append(it[1..(i - 1)], data[i]) ELSE it[1..(i - 1)]
    BY <1>7, <2>1
  <2> HIDE DEF h, it, Good
  <2> QED BY <2>2, <2>3, Zenon
<1>10. h[0] = <<>> /\ h[Len(data)] = it[S]
  <2>1. it[{}] = <<>>
    BY <1>7
  <2>2. 1..0 = {}
    OBVIOUS
  <2>3. h[0] = it[1..0] /\ h[Len(data)] = it[1..Len(data)]
    BY <1>1
  <2> QED BY <1>1, <2>1, <2>2, <2>3
<1> HIDE DEF h, Good, it
<1>11. h \in [0..Len(data) -> Seq(Devs(E))]
  <2> DEFINE J == {j \in 0..Len(data) : h[j] \in Seq(Devs(E))}
  <2>0. <<>> \in Seq(Devs(E))
    OBVIOUS
  <2>1. 0 \in J
    <3>1. 0 \in 0..Len(data) /\ h[0] \in Seq(Devs(E))
      BY <1>1, <1>10, <2>0
    <3> QED BY <3>1, Zenon
  <2>2. ASSUME NEW i \in 0..Len(data), i # Len(data), i \in J PROVE i + 1 \in J
    <3>1. i + 1 \in 1..Len(data) /\ i + 1 - 1 = i /\ h[i] \in Seq(Devs(E)) /\ data[i + 1] \in E
      BY <1>1, <2>2
    <3>2. h[i + 1] = IF data[i + 1].is = "device" THEN Append(h[i], data[i + 1]) ELSE h[i]
      BY <1>9, <3>1
    <3>3. data[i + 1].is = "device" => Append(h[i], data[i + 1]) \in Seq(Devs(E))
      BY <3>1 DEF Devs
    <3>4. i + 1 \in 0..Len(data) /\ h[i + 1] \in Seq(Devs(E))
      BY <1>1, <3>1, <3>2, <3>3
    <3> QED BY <3>4, Zenon
  <2>3. \A i \in 0..Len(data) : i \in J
    <3> HIDE DEF J
    <3> QED BY <1>1, <2>1, <2>2, Climb
  <2>4. h = [i \in 0..Len(data) |-> h[i]]
    BY DEF h
  <2> QED BY <2>3, <2>4
<1> QED BY <1>8, <1>9, <1>10, <1>11

\* Induction, over the subsets of a finite set.
LEMMA Grow ==
  ASSUME NEW S, IsFiniteSet(S), NEW P, {} \in P,
         \A T \in SUBSET S : T # {} /\ (\A x \in T : T \ {x} \in P) => T \in P
  PROVE  S \in P
<1> DEFINE N == {n \in 0..Cardinality(S) : \A T \in SUBSET S : Cardinality(T) = n => T \in P}
<1>0. /\ Cardinality(S) \in Nat
      /\ \A T \in SUBSET S : IsFiniteSet(T) /\ Cardinality(T) \in Nat /\ (Cardinality(T) = 0 <=> T = {})
  BY FS_CardinalityType, FS_Subset, FS_EmptySet
<1>1. 0 \in N
  <2>1. 0 \in 0..Cardinality(S)
    BY <1>0
  <2>2. \A T \in SUBSET S : Cardinality(T) = 0 => T \in P
    BY <1>0
  <2> QED BY <2>1, <2>2, Zenon
<1>2. ASSUME NEW n \in 0..Cardinality(S), n # Cardinality(S), n \in N PROVE n + 1 \in N
  <2>1. ASSUME NEW T \in SUBSET S, Cardinality(T) = n + 1 PROVE T \in P
    <3>1. T # {}
      BY <1>0, <2>1
    <3>2. ASSUME NEW x \in T PROVE T \ {x} \in P
      <4>1. Cardinality(T \ {x}) = Cardinality(T) - 1
        BY <1>0, <3>2, FS_RemoveElement
      <4>2. Cardinality(T \ {x}) = n
        BY <1>0, <2>1, <4>1
      <4> QED BY <1>2, <4>2
    <3> QED BY <3>1, <3>2
  <2>2. n + 1 \in 0..Cardinality(S)
    BY <1>0, <1>2
  <2> QED BY <2>1, <2>2, Zenon
<1> HIDE DEF N
<1>3. Cardinality(S) \in N
  BY <1>0, <1>1, <1>2, Climb
<1> QED BY <1>3 DEF N

\* A sum of whole numbers is one (Archives' Total).
LEMMA TotalIsWhole ==
  ASSUME NEW S, IsFiniteSet(S), NEW f, \A i \in S : f[i] \in Int
  PROVE  Archive!Total(f, S) \in Int
<1> DEFINE Good(it) == it = [s \in SUBSET S |-> IF s = {} THEN 0
                               ELSE f[CHOOSE x \in s : TRUE] + it[s \ {CHOOSE x \in s : TRUE}]]
           it == CHOOSE it : Good(it)
           step == [p \in Int \X S |-> f[p[2]] + p[1]]
           pick == [T \in SUBSET S |-> CHOOSE x \in T : TRUE]
<1>1. \A T \in SUBSET S : T # {} => pick[T] \in T
  OBVIOUS
<1>2. step \in [Int \X S -> Int]
  OBVIOUS
<1>3. PICK g \in [SUBSET S -> Int] : Folds(g, S, 0, step, pick)
  <2>1. 0 \in Int
    OBVIOUS
  <2> HIDE DEF step, pick
  <2> QED BY <1>1, <1>2, <2>1, FoldsExist
<1>4. Good(g)
  <2>1. ASSUME NEW s \in SUBSET S, s # {}
        PROVE  step[<<g[s \ {pick[s]}], pick[s]>>] = f[CHOOSE x \in s : TRUE] + g[s \ {CHOOSE x \in s : TRUE}]
    <3>1. pick[s] \in S /\ s \ {pick[s]} \in SUBSET S /\ pick[s] = CHOOSE x \in s : TRUE
      BY <1>1, <2>1
    <3>2. <<g[s \ {pick[s]}], pick[s]>> \in Int \X S
      <4> HIDE DEF pick
      <4> QED BY <3>1
    <3>3. step[<<g[s \ {pick[s]}], pick[s]>>] = f[pick[s]] + g[s \ {pick[s]}]
      BY <3>2
    <3> HIDE DEF pick, step
    <3> QED BY <3>1, <3>3
  <2>2. \A s \in SUBSET S : g[s] = IF s = {} THEN 0
                               ELSE f[CHOOSE x \in s : TRUE] + g[s \ {CHOOSE x \in s : TRUE}]
    <3> TAKE s \in SUBSET S
    <3>1. CASE s = {}
      BY <1>3, <3>1 DEF Folds
    <3>2. CASE s # {}
      <4>1. g[s] = step[<<g[s \ {pick[s]}], pick[s]>>]
        BY <1>3, <3>2 DEF Folds
      <4> QED BY <2>1, <3>2, <4>1
    <3> QED BY <3>1, <3>2
  <2> QED BY <2>2, Zenon
<1>5. Good(it)
  <2> HIDE DEF Good
  <2> QED BY <1>4
<1>6. Archive!Total(f, S) = it[S]
  BY DEF Archive!Total, Archive!FoldFunctionOnSet, Archive!MapThenFoldSet
<1> DEFINE P == {s \in SUBSET S : it[s] \in Int}
<1>7. {} \in P
  <2>1. it[{}] = 0
    BY <1>5
  <2> QED BY <2>1
<1>8. ASSUME NEW s \in SUBSET S, s # {}, \A x \in s : s \ {x} \in P PROVE s \in P
  <2>1. pick[s] \in s /\ pick[s] = CHOOSE x \in s : TRUE
    BY <1>1, <1>8
  <2>2. it[s] = f[pick[s]] + it[s \ {pick[s]}]
    BY <1>5, <1>8, <2>1
  <2>3. f[pick[s]] \in Int /\ it[s \ {pick[s]}] \in Int
    BY <1>8, <2>1
  <2> QED BY <2>2, <2>3
<1>9. S \in P
  <2> HIDE DEF P
  <2> QED BY <1>7, <1>8, Grow
<1> QED BY <1>6, <1>9

Elements(s) == {s[i] : i \in DOMAIN s}

\* A sequence is one over its own elements.
LEMMA OfItself ==
  ASSUME NEW A, NEW s \in Seq(A)
  PROVE  s \in Seq(Elements(s)) /\ DOMAIN s = 1..Len(s) /\ Len(s) \in Nat
<1>1. s \in Seq(Range(s))
  BY SeqOfRange
<1>2. Range(s) = Elements(s)
  BY Zenon DEF Range, Elements
<1> QED BY <1>1, <1>2, LenProperties

\* A file in which one member was replaced has the shape of a file and its other members.
LEMMA MemberTaken ==
  ASSUME NEW f, Archive!FileShape(f), NEW i \in DOMAIN f.members, NEW m, Archive!MemberShape(m),
         NEW g, g = [f EXCEPT !.members[i] = m]
  PROVE  /\ Archive!FileShape(g) /\ g.whole = f.whole
         /\ DOMAIN g.members = DOMAIN f.members /\ g.members[i] = m
         /\ \A j \in DOMAIN f.members : j # i => g.members[j] = f.members[j]
<1> DEFINE s == f.members  t == [s EXCEPT ![i] = m]  B == Elements(s) \cup {m}
<1>1. DOMAIN f = {"whole", "members"} /\ s \in Seq(Elements(s)) /\ \A j \in DOMAIN s : Archive!MemberShape(s[j])
  BY DEF Archive!FileShape, Elements
<1>2. DOMAIN g = {"whole", "members"} /\ g.whole = f.whole /\ g.members = t
  BY <1>1
<1>3. DOMAIN s = 1..Len(s) /\ Len(s) \in Nat /\ i \in 1..Len(s)
  <2>1. DOMAIN s = 1..Len(s) /\ Len(s) \in Nat
    <3> HIDE DEF s
    <3> QED BY <1>1, OfItself
  <2> QED BY <2>1
<1>4. s \in Seq(B) /\ m \in B
  <2>1. Elements(s) \subseteq B /\ m \in B
    OBVIOUS
  <2> HIDE DEF B, s
  <2> QED BY <1>1, <2>1, SeqMonotonic
<1>5. t \in Seq(B)
  <2> HIDE DEF B, s
  <2> QED BY <1>3, <1>4, ExceptSeq
<1>6. t \in Seq(Elements(t))
  <2> HIDE DEF B, t
  <2> QED BY <1>5, OfItself
<1>7. DOMAIN t = DOMAIN s /\ \A j \in DOMAIN s : t[j] = IF j = i THEN m ELSE s[j]
  OBVIOUS
<1>8. \A j \in DOMAIN t : Archive!MemberShape(t[j])
  <2> HIDE DEF s, t
  <2> QED BY <1>1, <1>7
<1> QED BY <1>2, <1>6, <1>7, <1>8 DEF Archive!FileShape, Elements

\* What writeZip makes is a file of members, each as it was given.
LEMMA ZipMade ==
  ASSUME NEW data, data \in Seq(Elements(data)), \A i \in DOMAIN data : Archive!DataShape(data[i]),
         NEW deflates, NEW key, NEW f, f = Archive!WriteZip(data, deflates, key)
  PROVE  /\ Archive!FileShape(f) /\ f.whole /\ DOMAIN f.members = DOMAIN data
         /\ Len(f.members) = Len(data)
         /\ \A i \in DOMAIN data :
              f.members[i] = [data |-> data[i], over |-> data[i], key |-> key,
                              size |-> Archive!SizeOf(data[i]), safe |-> TRUE,
                              record |-> TRUE, head |-> TRUE, length |-> f.members[i].length]
         /\ Archive!DataOf(f) = data
<1> DEFINE s == f.members
<1>1. f = [whole |-> TRUE, members |-> [i \in DOMAIN data |-> Archive!Member(data[i], deflates, key)]]
  BY DEF Archive!WriteZip
<1>2. /\ DOMAIN f = {"whole", "members"} /\ f.whole
      /\ s = [i \in DOMAIN data |-> Archive!Member(data[i], deflates, key)]
  BY <1>1
<1>3. DOMAIN data = 1..Len(data) /\ Len(data) \in Nat
  BY OfItself
<1>4. s \in [1..Len(data) -> Elements(s)]
  BY <1>2, <1>3 DEF Elements
<1>5. s \in Seq(Elements(s)) /\ Len(s) = Len(data)
  <2> HIDE DEF s
  <2> QED BY <1>3, <1>4
<1>6. ASSUME NEW i \in DOMAIN data
      PROVE  /\ s[i] = [data |-> data[i], over |-> data[i], key |-> key,
                        size |-> Archive!SizeOf(data[i]), safe |-> TRUE,
                        record |-> TRUE, head |-> TRUE, length |-> s[i].length]
             /\ s[i].data = data[i] /\ Archive!MemberShape(s[i])
  <2>1. s[i] = Archive!Member(data[i], deflates, key)
    BY <1>2
  <2> HIDE DEF s
  <2> QED BY <2>1 DEF Archive!Member, Archive!MemberShape
<1>7. Archive!DataOf(f) = data
  <2>1. Archive!DataOf(f) = [i \in 1..Len(data) |-> data[i]]
    BY <1>2, <1>3, <1>6 DEF Archive!DataOf
  <2>2. data = [i \in 1..Len(data) |-> data[i]]
    BY LenProperties
  <2> QED BY <2>1, <2>2
<1> QED BY <1>2, <1>5, <1>6, <1>7 DEF Archive!FileShape, Elements

\* What buildProjectArchive writes: the manifest, the project, and a file per device in its order.
LEMMA EntriesOf ==
  ASSUME NEW content \in Exports, NEW data, data = Archive!ArchiveEntries(content)
  PROVE  /\ Len(content.devices) \in Nat /\ DOMAIN content.devices = 1..Len(content.devices)
         /\ data \in Seq(Elements(data)) /\ DOMAIN data = 1..(Len(content.devices) + 2)
         /\ Len(data) = Len(content.devices) + 2
         /\ data[1] = [is |-> "manifest", version |-> 1]
         /\ data[2] = [is |-> "project", name |-> content.name, client |-> content.client]
         /\ \A k \in 1..Len(content.devices) :
               data[k + 2] = [is |-> "device", device |-> content.devices[k]]
         /\ \A i \in DOMAIN data : Archive!DataShape(data[i])
<1> DEFINE ds == content.devices
           n  == Len(ds)
           a  == <<Archive!Manifest, Archive!ProjectFile(content)>>
           b  == [i \in DOMAIN ds |-> Archive!DeviceFile(ds[i])]
           D  == {a[1], a[2]} \cup {Archive!DeviceFile(ds[i]) : i \in DOMAIN ds}
<1>1. n \in Nat /\ DOMAIN ds = 1..n
  <2>1. ds \in Seq(Elements(ds))
    BY ArchivesAssumption DEF Elements
  <2> QED BY <2>1, OfItself
<1>2. a \in Seq(D) /\ Len(a) = 2 /\ a[1] = Archive!Manifest /\ a[2] = Archive!ProjectFile(content)
  <2>1. a[1] = Archive!Manifest /\ a[2] = Archive!ProjectFile(content)
    OBVIOUS
  <2>2. Archive!Manifest \in D /\ Archive!ProjectFile(content) \in D
    BY <2>1
  <2> HIDE DEF D
  <2> QED BY <2>2
<1>3. b \in Seq(D) /\ Len(b) = n /\ \A k \in 1..n : b[k] = Archive!DeviceFile(ds[k])
  <2>1. b \in [1..n -> D]
    BY <1>1
  <2>2. \A k \in 1..n : b[k] = Archive!DeviceFile(ds[k])
    BY <1>1
  <2> HIDE DEF D, b, n
  <2> QED BY <1>1, <2>1, <2>2
<1>4. data = a \o b
  BY DEF Archive!ArchiveEntries
<1>5. /\ data \in Seq(D) /\ Len(data) = n + 2
      /\ data[1] = Archive!Manifest /\ data[2] = Archive!ProjectFile(content)
      /\ \A k \in 1..n : data[k + 2] = Archive!DeviceFile(ds[k])
  <2> HIDE DEF a, b, D, n
  <2>0. /\ a \o b \in Seq(D) /\ Len(a \o b) = Len(a) + Len(b)
        /\ \A i \in 1 .. Len(a) + Len(b) : (a \o b)[i] = IF i <= Len(a) THEN a[i] ELSE b[i - Len(a)]
    BY <1>2, <1>3, ConcatProperties
  <2>1. /\ a \o b \in Seq(D) /\ Len(a \o b) = 2 + n
        /\ \A i \in 1..(2 + n) : (a \o b)[i] = IF i <= 2 THEN a[i] ELSE b[i - 2]
    BY <1>2, <1>3, <2>0
  <2>2. \A k \in 1..n : k + 2 \in 1..(2 + n) /\ ~(k + 2 <= 2) /\ (k + 2) - 2 = k
    BY <1>1
  <2>3. 1 \in 1..(2 + n) /\ 2 \in 1..(2 + n) /\ 2 + n = n + 2
    BY <1>1
  <2> QED BY <1>2, <1>3, <1>4, <2>1, <2>2, <2>3
<1>6. data \in Seq(Elements(data)) /\ DOMAIN data = 1..(n + 2)
  <2> HIDE DEF D, n
  <2> QED BY <1>5, OfItself
<1>7. ASSUME NEW i \in DOMAIN data PROVE Archive!DataShape(data[i])
  <2>1. CASE i = 1
    BY <1>5, <2>1 DEF Archive!Manifest, Archive!DataShape
  <2>2. CASE i = 2
    BY <1>5, <2>2 DEF Archive!ProjectFile, Archive!DataShape
  <2>3. CASE i # 1 /\ i # 2
    <3>1. i - 2 \in 1..n /\ i = (i - 2) + 2
      BY <1>1, <1>6, <2>3
    <3>2. data[i] = Archive!DeviceFile(ds[i - 2]) /\ Holds(ds[i - 2])
      BY <1>1, <1>5, <3>1, ArchivesAssumption
    <3>3. Archive!DeviceShape(ds[i - 2])
      BY <3>2, ArchivesAssumption DEF Holds, DeviceFields, Archive!DeviceShape
    <3> QED BY <3>2, <3>3 DEF Archive!DeviceFile, Archive!DataShape
  <2> QED BY <2>1, <2>2, <2>3
<1> QED BY <1>1, <1>5, <1>6, <1>7 DEF Archive!Manifest, Archive!ARCHIVE_VERSION, Archive!ProjectFile, Archive!DeviceFile

\* The loop over the files finds the devices, in their order.
LEMMA DevicesOf ==
  ASSUME NEW content \in Exports, NEW data, data = Archive!ArchiveEntries(content)
  PROVE  /\ Archive!DevicesIn(data) \in Seq(Devs(Elements(data)))
         /\ Len(Archive!DevicesIn(data)) = Len(content.devices)
         /\ \A k \in 1..Len(content.devices) :
               Archive!DevicesIn(data)[k] = [is |-> "device", device |-> content.devices[k]]
<1> DEFINE n == Len(content.devices)
           Dv(k) == [is |-> "device", device |-> content.devices[k]]
           D == Devs(Elements(data))
<1>1. /\ n \in Nat /\ data \in Seq(Elements(data)) /\ Len(data) = n + 2
      /\ data[1].is = "manifest" /\ data[2].is = "project"
      /\ \A k \in 1..n : data[k + 2] = Dv(k) /\ data[k + 2].is = "device"
  <2>1. /\ n \in Nat /\ data \in Seq(Elements(data)) /\ Len(data) = n + 2
        /\ data[1] = [is |-> "manifest", version |-> 1]
        /\ data[2] = [is |-> "project", name |-> content.name, client |-> content.client]
        /\ \A k \in 1..n : data[k + 2] = Dv(k)
    BY EntriesOf
  <2>2. \A k \in 1..n : Dv(k).is = "device"
    OBVIOUS
  <2>3. data[1].is = "manifest" /\ data[2].is = "project"
    BY <2>1
  <2> HIDE DEF Dv, n
  <2>4. \A k \in 1..n : data[k + 2] = Dv(k) /\ data[k + 2].is = "device"
    BY <2>1, <2>2
  <2> QED BY <2>1, <2>3, <2>4
<1>2. PICK g \in [0..Len(data) -> Seq(D)] :
         /\ g[0] = <<>> /\ Archive!DevicesIn(data) = g[Len(data)]
         /\ \A i \in 1..Len(data) :
               g[i] = IF data[i].is = "device" THEN Append(g[i - 1], data[i]) ELSE g[i - 1]
  BY <1>1, DevicesRead
<1> HIDE DEF D
<1>3. g[2] = <<>>
  <2>1. 1 \in 1..Len(data) /\ 2 \in 1..Len(data)
    BY <1>1
  <2>2. g[1] = g[1 - 1] /\ g[2] = g[2 - 1]
    BY <1>1, <1>2, <2>1
  <2> QED BY <1>2, <2>2
<1> DEFINE J == {m \in 0..n : Len(g[m + 2]) = m /\ \A k \in 1..m : g[m + 2][k] = Dv(k)}
<1>4. 0 \in J
  <2>1. Len(g[0 + 2]) = 0 /\ 1..0 = {}
    BY <1>3
  <2>2. 0 \in 0..n
    BY <1>1
  <2> QED BY <2>1, <2>2
<1>5. ASSUME NEW m \in 0..n, m # n, m \in J PROVE m + 1 \in J
  <2> DEFINE s == g[m + 2]  t == g[(m + 1) + 2]  e == data[(m + 1) + 2]
  <2>1. /\ m + 1 \in 0..n /\ m + 1 \in 1..n /\ (m + 1) + 2 \in 1..Len(data)
        /\ ((m + 1) + 2) - 1 = m + 2 /\ m + 2 \in 0..Len(data) /\ m \in Nat
    <3>1. n \in Nat /\ Len(data) = n + 2 /\ m \in 0..n /\ m # n
      BY <1>1, <1>5, Zenon
    <3> DEFINE l == Len(data)
    <3>2. l = n + 2
      BY <3>1
    <3> HIDE DEF n, l
    <3>3. /\ m + 1 \in 0..n /\ m + 1 \in 1..n /\ (m + 1) + 2 \in 1..l
          /\ ((m + 1) + 2) - 1 = m + 2 /\ m + 2 \in 0..l /\ m \in Nat
      BY <3>1, <3>2
    <3> QED BY <3>3 DEF l
  <2>2. e = Dv(m + 1) /\ e.is = "device"
    BY <1>1, <2>1
  <2>3. t = Append(s, e)
    BY <1>2, <2>1, <2>2
  <2>4. s \in Seq(D) /\ Len(s) = m /\ \A k \in 1..m : s[k] = Dv(k)
    BY <1>2, <1>5, <2>1
  <2>5. e \in D
    <3>1. data[(m + 1) + 2] \in Elements(data)
      BY <1>1, <2>1, ElementOfSeq, Zenon
    <3> HIDE DEF Dv, s, t, n
    <3> QED BY <2>2, <3>1 DEF D, Devs
  <2> HIDE DEF s, t, e, Dv
  <2>6. Len(t) = m + 1 /\ \A k \in 1..(m + 1) : t[k] = Dv(k)
    <3>1. /\ Len(t) = Len(s) + 1 /\ t[Len(s) + 1] = e
          /\ \A k \in 1..Len(s) : t[k] = s[k]
      BY <2>3, <2>4, <2>5, AppendProperties
    <3>2. \A k \in 1..(m + 1) : k = m + 1 \/ k \in 1..m
      BY <2>1
    <3> QED BY <2>2, <2>4, <3>1, <3>2
  <2> QED BY <2>1, <2>6 DEF t
<1>6. n \in J
  <2>1. \A m \in 0..n : m \in J
    <3> HIDE DEF J, Dv, n
    <3> QED BY <1>1, <1>4, <1>5, Climb
  <2>2. n \in 0..n
    BY <1>1
  <2> HIDE DEF J, n
  <2> QED BY <2>1, <2>2, Zenon
<1>7. g[n + 2] \in Seq(D)
  BY <1>1, <1>2
<1> QED BY <1>1, <1>2, <1>6, <1>7 DEF D

\* An archive made of a project is the archive of one.
LEMMA EntriesHold ==
  ASSUME NEW content \in Exports, NEW data, data = Archive!ArchiveEntries(content)
  PROVE  Archive!ArchiveProblem(data) = "none"
<1> DEFINE n == Len(content.devices)
           ds == Archive!DevicesIn(data)
           Bearing(is) == {i \in DOMAIN data : data[i].is = is}
<1>1. /\ n \in Nat /\ DOMAIN content.devices = 1..n /\ DOMAIN data = 1..(n + 2)
      /\ data[1] = [is |-> "manifest", version |-> 1]
      /\ data[2] = [is |-> "project", name |-> content.name, client |-> content.client]
      /\ \A k \in 1..n : data[k + 2] = [is |-> "device", device |-> content.devices[k]]
  BY EntriesOf
<1>2. ds \in Seq(Devs(Elements(data))) /\ Len(ds) = n
      /\ \A k \in 1..n : ds[k] = [is |-> "device", device |-> content.devices[k]]
  BY DevicesOf
<1>3. DOMAIN ds = 1..n
  <2> HIDE DEF ds, n
  <2> QED BY <1>2, LenProperties
<1>4. 1 \in Bearing("manifest") /\ 2 \in Bearing("project")
  <2>1. 1 \in DOMAIN data /\ 2 \in DOMAIN data
    BY <1>1
  <2> QED BY <1>1, <2>1
<1>5. \A i \in Bearing("manifest") : ~(data[i].version > 1)
  <2> SUFFICES ASSUME NEW i \in Bearing("manifest") PROVE data[i].version = 1
    OBVIOUS
  <2>1. i \in 1..(n + 2) /\ data[i].is = "manifest"
    BY <1>1
  <2>2. CASE i = 1
    BY <1>1, <2>2
  <2>3. CASE i = 2
    BY <1>1, <2>1, <2>3
  <2>4. CASE i # 1 /\ i # 2
    <3>1. i - 2 \in 1..n /\ i = (i - 2) + 2
      BY <1>1, <2>1, <2>4
    <3>2. data[i] = [is |-> "device", device |-> content.devices[i - 2]]
      BY <1>1, <3>1
    <3> QED BY <2>1, <3>2
  <2> QED BY <2>2, <2>3, <2>4
<1>3a. \A i \in DOMAIN ds : i \in DOMAIN content.devices /\ ds[i].device = content.devices[i]
  <2> SUFFICES ASSUME NEW i \in DOMAIN ds
               PROVE  i \in DOMAIN content.devices /\ ds[i].device = content.devices[i]
    OBVIOUS
  <2> HIDE DEF ds, n
  <2>1. i \in 1..n
    BY <1>3
  <2>2. ds[i] = [is |-> "device", device |-> content.devices[i]]
    BY <1>2, <2>1
  <2> QED BY <1>1, <2>1, <2>2
<1>6. ASSUME NEW i \in DOMAIN ds PROVE Archive!DeviceReads(ds[i].device)
  <2>1. i \in DOMAIN content.devices /\ ds[i].device = content.devices[i]
    BY <1>3a
  <2>2. Holds(content.devices[i])
    BY <1>1, <2>1, ArchivesAssumption
  <2> HIDE DEF ds
  <2> QED BY <2>1, <2>2, ArchivesAssumption DEF Holds, Archive!DeviceReads
<1>7. ASSUME NEW i \in DOMAIN ds, NEW j \in DOMAIN ds, i # j PROVE ds[i].device.uuid # ds[j].device.uuid
  <2>1. /\ ds[i].device = content.devices[i] /\ ds[j].device = content.devices[j]
        /\ i \in DOMAIN content.devices /\ j \in DOMAIN content.devices
    BY <1>3a
  <2>2. content.devices[i].uuid # content.devices[j].uuid
    BY <1>7, <2>1, ArchivesAssumption
  <2> HIDE DEF ds
  <2> QED BY <2>1, <2>2
<1> HIDE DEF n
<1> QED BY <1>4, <1>5, <1>6, <1>7, Zenon DEF Archive!ArchiveProblem, Archive!ARCHIVE_VERSION

\* What readZip takes is whole, and sealed with the password that was typed or not at all.
LEMMA TakenIsWhole ==
  ASSUME NEW f, Archive!FileShape(f), NEW password, NEW chance,
         Archive!ZipProblem(f, password, chance) = "none"
  PROVE  /\ ~Archive!Broken(f) /\ ~Archive!HalfSealed(f)
         /\ \A i \in DOMAIN f.members : f.members[i].key \in {None, password}
<1> DEFINE n == Len(f.members)
           bad == {i \in DOMAIN f.members :
                     Archive!MemberProblem(f.members[i], password, chance) # "none"}
<1>1. DOMAIN f.members = 1..n /\ n \in Nat
  BY OfItself DEF Archive!FileShape
<1>2. Archive!ListProblem(f, password) = "none"
  <2> SUFFICES ASSUME Archive!ListProblem(f, password) # "none" PROVE FALSE
    OBVIOUS
  <2>1. Archive!ZipProblem(f, password, chance) = Archive!ListProblem(f, password)
    BY Zenon DEF Archive!ZipProblem
  <2> QED BY <2>1
<1>3. bad = {}
  <2> SUFFICES ASSUME bad # {} PROVE FALSE
    OBVIOUS
  <2>1. Archive!MemberProblem(f.members[Archive!Min(bad)], password, chance) = "none"
    BY <1>2 DEF Archive!ZipProblem
  <2>2. bad \in SUBSET Nat
    BY <1>1
  <2>3. LeastOf(bad) \in bad
    <3> HIDE DEF bad
    <3> QED BY <2>2, MinIn
  <2>4. Archive!Min(bad) = LeastOf(bad)
    BY DEF Archive!Min, LeastOf
  <2> QED BY <2>1, <2>3, <2>4
<1>4. /\ f.whole
      /\ \A i \in DOMAIN f.members : f.members[i].record
      /\ \A i, j \in DOMAIN f.members : ~(f.members[i].key = None /\ f.members[j].key # None)
  <2>1. f.whole /\ \A i \in DOMAIN f.members : f.members[i].record
    BY <1>2 DEF Archive!ListProblem
  <2>2. LET sealed == {i \in DOMAIN f.members : f.members[i].key # None}
        IN  ~(sealed # {} /\ sealed # DOMAIN f.members)
    BY <1>2 DEF Archive!ListProblem
  <2> QED BY <2>1, <2>2
<1>5. ASSUME NEW i \in DOMAIN f.members
      PROVE  LET m == f.members[i] IN
             /\ m.size = Archive!SizeOf(m.data) /\ m.data = m.over
             /\ m.key # None => m.head /\ m.key = password
  <2>1. Archive!MemberProblem(f.members[i], password, chance) = "none"
    BY <1>3
  <2> QED BY <2>1 DEF Archive!MemberProblem
<1>6. ~Archive!Broken(f)
  BY <1>4, <1>5 DEF Archive!Broken
<1>7. ~Archive!HalfSealed(f)
  BY <1>4 DEF Archive!HalfSealed
<1> QED BY <1>5, <1>6, <1>7

\* Nothing was typed: the question was not asked, or nothing was answered.
Untyped(password) == password \in {None, ""}

\* What readZip says of the list of a file that is as writeZip made it, within the limits:
\* a sealed one asks for its password, and that is all.
LEMMA UntouchedList ==
  ASSUME NEW content \in Exports, NEW key \in LongEnough \cup {None}, NEW deflates,
         NEW f, f = Archive!WriteZip(Archive!ArchiveEntries(content), deflates, key),
         Archive!WithinLimits(f), NEW password
  PROVE  /\ \A i \in DOMAIN f.members :
               /\ f.members[i].data = f.members[i].over /\ f.members[i].key = key
               /\ f.members[i].size = Archive!SizeOf(f.members[i].data) /\ f.members[i].head
         /\ Archive!ListProblem(f, password) =
               IF key # None /\ Untyped(password) THEN "needsPassword" ELSE "none"
<1> DEFINE data == Archive!ArchiveEntries(content)
           sealed == {i \in DOMAIN f.members : f.members[i].key # None}
<1>1. /\ data \in Seq(Elements(data)) /\ DOMAIN data = 1..(Len(content.devices) + 2)
      /\ Len(content.devices) \in Nat
      /\ \A i \in DOMAIN data : Archive!DataShape(data[i])
  BY EntriesOf
<1>2. /\ Archive!FileShape(f) /\ f.whole /\ DOMAIN f.members = DOMAIN data
      /\ \A i \in DOMAIN data :
           f.members[i] = [data |-> data[i], over |-> data[i], key |-> key,
                           size |-> Archive!SizeOf(data[i]), safe |-> TRUE,
                           record |-> TRUE, head |-> TRUE, length |-> f.members[i].length]
  <2>1. f = Archive!WriteZip(data, deflates, key)
    OBVIOUS
  <2> HIDE DEF data
  <2> QED BY <1>1, <2>1, ZipMade
<1>3. \A i \in DOMAIN f.members :
         /\ f.members[i].data = data[i] /\ f.members[i].over = data[i] /\ f.members[i].key = key
         /\ f.members[i].size = Archive!SizeOf(data[i]) /\ f.members[i].safe
         /\ f.members[i].record /\ f.members[i].head
  <2> HIDE DEF data
  <2> TAKE i \in DOMAIN f.members
  <2> DEFINE l == f.members[i].length
  <2>1. f.members[i] = [data |-> data[i], over |-> data[i], key |-> key,
                        size |-> Archive!SizeOf(data[i]), safe |-> TRUE,
                        record |-> TRUE, head |-> TRUE, length |-> l]
    BY <1>2
  <2> HIDE DEF l
  <2> QED BY <2>1
<1>4. IsFiniteSet(DOMAIN f.members)
  BY <1>1, <1>2, FS_Interval
<1>5. \A i \in DOMAIN f.members : f.members[i].size \in Int /\ f.members[i].length \in Int
  <2> TAKE i \in DOMAIN f.members
  <2>1. f.members[i].size = Archive!SizeOf(data[i])
    BY <1>3
  <2>2. f.members[i] = Archive!Member(data[i], deflates, key)
    BY <1>2 DEF Archive!WriteZip
  <2>3. f.members[i].length = (IF deflates THEN 1 ELSE Archive!SizeOf(data[i])) + Archive!Overhead(key)
    BY <2>2 DEF Archive!Member
  <2>4. Archive!SizeOf(data[i]) \in Int /\ Archive!Overhead(key) \in Int
    BY DEF Archive!SizeOf, Archive!Overhead
  <2> HIDE DEF data
  <2> QED BY <2>1, <2>3, <2>4
<1>6. Archive!Bytes(f) \in Int /\ Archive!Declared(f) \in Int
  <2> DEFINE S == DOMAIN f.members
             l == [i \in S |-> f.members[i].length]
             d == [i \in S |-> f.members[i].size]
  <2>1. \A i \in S : l[i] \in Int /\ d[i] \in Int
    BY <1>5
  <2>2. Archive!Bytes(f) = Archive!Total(l, S) /\ Archive!Declared(f) = Archive!Total(d, S)
    BY DEF Archive!Bytes, Archive!Declared
  <2> HIDE DEF S, l, d
  <2>3. IsFiniteSet(S)
    BY <1>4 DEF S
  <2>4. Archive!Total(l, S) \in Int /\ Archive!Total(d, S) \in Int
    BY <2>1, <2>3, TotalIsWhole
  <2> QED BY <2>2, <2>4
<1>7. /\ ~(Archive!Bytes(f) > MaxBytes) /\ ~(Archive!Declared(f) > MaxInflated)
      /\ ~(Len(f.members) > MaxEntries)
  <2>1. Len(f.members) \in Nat
    BY <1>2, OfItself DEF Archive!FileShape, Elements
  <2>2. MaxEntries \in Int /\ MaxInflated \in Int /\ MaxBytes \in Int
    <3>1. MaxEntries \in Nat /\ MaxInflated \in Nat /\ MaxBytes \in Nat
      BY ArchivesAssumption, Zenon
    <3> QED BY <3>1
  <2>3. Len(f.members) <= MaxEntries /\ Archive!Declared(f) <= MaxInflated /\ Archive!Bytes(f) <= MaxBytes
    BY DEF Archive!WithinLimits
  <2> DEFINE a == Len(f.members)  b == Archive!Declared(f)  c == Archive!Bytes(f)
  <2>4. a \in Int /\ b \in Int /\ c \in Int /\ a <= MaxEntries /\ b <= MaxInflated /\ c <= MaxBytes
    BY <1>6, <2>1, <2>3
  <2> HIDE DEF a, b, c
  <2>5. ~(c > MaxBytes) /\ ~(b > MaxInflated) /\ ~(a > MaxEntries)
    BY <2>2, <2>4
  <2> QED BY <2>5 DEF a, b, c
<1>8. IF key = None THEN sealed = {} ELSE sealed = DOMAIN f.members /\ sealed # {}
  <2>1. 1 \in DOMAIN f.members
    BY <1>1, <1>2
  <2> QED BY <1>3, <2>1
<1>9. Archive!ListProblem(f, password) =
        IF key # None /\ Untyped(password) THEN "needsPassword" ELSE "none"
  <2>1. /\ ~(\E i \in DOMAIN f.members : ~f.members[i].safe)
        /\ ~(\E i \in DOMAIN f.members : ~f.members[i].record)
    BY <1>3
  <2>2. ~(sealed # {} /\ sealed # DOMAIN f.members) /\ (sealed # {} <=> key # None)
    BY <1>8
  <2> HIDE DEF data
  <2> QED BY <1>2, <1>7, <2>1, <2>2, Zenon DEF Archive!ListProblem, Untyped
<1> QED BY <1>3, <1>9

\* The right password opens such a file, and a file without one needs none.
LEMMA UntouchedReads ==
  ASSUME NEW content \in Exports, NEW key \in LongEnough \cup {None}, NEW deflates,
         NEW f, f = Archive!WriteZip(Archive!ArchiveEntries(content), deflates, key),
         Archive!WithinLimits(f), NEW password, NEW chance, key # None => key = password
  PROVE  Archive!ZipProblem(f, password, chance) = "none"
<1>1. /\ \A i \in DOMAIN f.members :
           /\ f.members[i].data = f.members[i].over /\ f.members[i].key = key
           /\ f.members[i].size = Archive!SizeOf(f.members[i].data) /\ f.members[i].head
      /\ Archive!ListProblem(f, password) =
            IF key # None /\ Untyped(password) THEN "needsPassword" ELSE "none"
  BY UntouchedList
<1>2. key # None => ~Untyped(key)
  <2>1. key \in LongEnough => key \notin {""}
    BY ArchivesAssumption, Zenon
  <2> QED BY <2>1, Zenon DEF Untyped
<1>3. Archive!ListProblem(f, password) = "none"
  BY <1>1, <1>2
<1>4. ASSUME NEW i \in DOMAIN f.members
      PROVE  Archive!MemberProblem(f.members[i], password, chance) = "none"
  <2> DEFINE m == f.members[i]
  <2>1. m.data = m.over /\ Archive!SizeOf(m.data) = m.size /\ (m.key = None \/ (m.key = password /\ m.head))
    BY <1>1
  <2> HIDE DEF m
  <2>2. Archive!MemberProblem(m, password, chance) = "none"
    BY <2>1, Zenon DEF Archive!MemberProblem
  <2> QED BY <2>2 DEF m
<1>5. {i \in DOMAIN f.members : Archive!MemberProblem(f.members[i], password, chance) # "none"} = {}
  BY <1>4
<1> QED BY <1>3, <1>5, Zenon DEF Archive!ZipProblem

\* A sealed file asks for its password, and a prompt left empty is no password.
LEMMA UntouchedAsks ==
  ASSUME NEW content \in Exports, NEW key \in LongEnough, key # None, NEW deflates,
         NEW f, f = Archive!WriteZip(Archive!ArchiveEntries(content), deflates, key),
         Archive!WithinLimits(f), NEW password, Untyped(password), NEW chance
  PROVE  Archive!ZipProblem(f, password, chance) = "needsPassword"
<1>1. Archive!ListProblem(f, password) =
        IF key # None /\ Untyped(password) THEN "needsPassword" ELSE "none"
  BY UntouchedList
<1>2. Archive!ListProblem(f, password) = "needsPassword"
  BY <1>1
<1>3. "needsPassword" # "none"
  OBVIOUS
<1> QED BY <1>2, <1>3, Zenon DEF Archive!ZipProblem

\* What is read of a device: its codes derived again, its room one that is a path.
LEMMA DeviceRead ==
  ASSUME NEW d, Archive!DeviceShape(d), NEW e, e = Archive!ReadDevice(d)
  PROVE  /\ e.uuid = d.uuid /\ e.payload = d.payload
         /\ e.manual = IF d.payload = None THEN d.manual ELSE ManualOf[d.payload]
         /\ e.room = IF d.room \in PathRooms THEN d.room ELSE "Imported"
<1>1. /\ "manual" \in DOMAIN d /\ "room" \in DOMAIN d /\ "link" \in DOMAIN d
      /\ "uuid" \in DOMAIN d /\ "payload" \in DOMAIN d
  BY DEF Archive!DeviceShape
<1> QED BY <1>1 DEF Archive!ReadDevice, Archive!IMPORTED_ROOM

\* What readProjectArchive takes holds together.
LEMMA ReadHolds ==
  ASSUME NEW f, Archive!FileShape(f), Archive!ArchiveProblem(Archive!DataOf(f)) = "none",
         NEW r, r = Archive!ReadProjectArchive(Archive!DataOf(f)),
         NEW i \in DOMAIN r.devices
  PROVE  LET d == r.devices[i] IN
         /\ \A j \in DOMAIN r.devices : d.uuid = r.devices[j].uuid => i = j
         /\ d.room \in PathRooms \cup {"Imported"}
         /\ d.payload # None => /\ d.manual = ManualOf[d.payload]
                                /\ \E k \in DOMAIN f.members :
                                      /\ f.members[k].data.is = "device"
                                      /\ d.manual = f.members[k].data.device.manual
<1> DEFINE data == Archive!DataOf(f)
           ds == Archive!DevicesIn(data)
<1>1. DOMAIN f.members = 1..Len(f.members) /\ Len(f.members) \in Nat
  BY OfItself DEF Archive!FileShape
<1>2. data \in Seq(Elements(data)) /\ DOMAIN data = DOMAIN f.members
      /\ \A k \in DOMAIN data : data[k] = f.members[k].data /\ Archive!DataShape(data[k])
  <2>1. data = [k \in 1..Len(f.members) |-> f.members[k].data]
    BY <1>1 DEF Archive!DataOf
  <2>2. data \in [1..Len(f.members) -> Elements(data)]
    BY <2>1 DEF Elements
  <2>3. \A k \in DOMAIN f.members : Archive!DataShape(f.members[k].data)
    BY DEF Archive!FileShape, Archive!MemberShape
  <2>4. data \in Seq(Elements(data))
    <3> HIDE DEF data
    <3> QED BY <1>1, <2>2
  <2> QED BY <1>1, <2>1, <2>3, <2>4
<1>3. ds \in Seq(Devs(Elements(data)))
  <2>1. PICK g \in [0..Len(data) -> Seq(Devs(Elements(data)))] : ds = g[Len(data)]
    <3> HIDE DEF data
    <3> QED BY <1>2, DevicesRead
  <2>2. Len(data) \in Nat
    <3> HIDE DEF data
    <3> QED BY <1>2
  <2> HIDE DEF data, ds
  <2> QED BY <2>1, <2>2
<1> HIDE DEF data, ds
<1>4. ASSUME NEW n \in DOMAIN ds
      PROVE  /\ Archive!DeviceShape(ds[n].device)
             /\ \E k \in DOMAIN f.members : f.members[k].data.is = "device" /\ f.members[k].data = ds[n]
  <2>1. ds[n] \in Devs(Elements(data))
    BY <1>3, LenProperties, ElementOfSeq
  <2>2. PICK k \in DOMAIN data : ds[n] = data[k] /\ data[k].is = "device"
    BY <2>1 DEF Devs, Elements
  <2> QED BY <1>2, <2>2 DEF Archive!DataShape
<1>5. /\ r.devices = [n \in DOMAIN ds |-> Archive!ReadDevice(ds[n].device)]
      /\ DOMAIN r.devices = DOMAIN ds
      /\ \A n \in DOMAIN ds : r.devices[n] = Archive!ReadDevice(ds[n].device)
  BY DEF Archive!ReadProjectArchive, data, ds
<1>6. /\ \A n \in DOMAIN ds : Archive!DeviceReads(ds[n].device)
      /\ \A m, n \in DOMAIN ds : m # n => ds[m].device.uuid # ds[n].device.uuid
  <2>1. Archive!ArchiveProblem(data) = "none"
    BY DEF data
  <2>2. /\ ~(\E n \in DOMAIN ds : ~Archive!DeviceReads(ds[n].device))
        /\ ~(\E m, n \in DOMAIN ds : m # n /\ ds[m].device.uuid = ds[n].device.uuid)
    BY <2>1 DEF Archive!ArchiveProblem, ds
  <2> QED BY <2>2
<1> DEFINE d == ds[i].device
<1>7. i \in DOMAIN ds /\ Archive!DeviceShape(d) /\ r.devices[i] = Archive!ReadDevice(d)
  BY <1>4, <1>5
<1>8. ASSUME NEW j \in DOMAIN r.devices, r.devices[i].uuid = r.devices[j].uuid PROVE i = j
  <2>1. j \in DOMAIN ds /\ Archive!DeviceShape(ds[j].device) /\ r.devices[j] = Archive!ReadDevice(ds[j].device)
    BY <1>4, <1>5
  <2>2. r.devices[i].uuid = d.uuid /\ r.devices[j].uuid = ds[j].device.uuid
    BY <1>7, <2>1, DeviceRead
  <2> QED BY <1>6, <1>7, <1>8, <2>1, <2>2
<1>9. r.devices[i].room \in PathRooms \cup {"Imported"}
  BY <1>7, DeviceRead
<1>10. ASSUME r.devices[i].payload # None
       PROVE  /\ r.devices[i].manual = ManualOf[r.devices[i].payload]
              /\ \E k \in DOMAIN f.members :
                    /\ f.members[k].data.is = "device"
                    /\ r.devices[i].manual = f.members[k].data.device.manual
  <2>1. /\ r.devices[i].payload = d.payload
        /\ r.devices[i].manual = IF d.payload = None THEN d.manual ELSE ManualOf[d.payload]
    BY <1>7, DeviceRead
  <2>2. d.payload # None /\ d.manual # None
    BY <1>7, <1>10, <2>1 DEF Archive!DeviceShape
  <2>3. d.manual = ManualOf[d.payload]
    BY <1>6, <1>7, <2>2 DEF Archive!DeviceReads
  <2>4. PICK k \in DOMAIN f.members : f.members[k].data.is = "device" /\ f.members[k].data = ds[i]
    BY <1>4, <1>7
  <2> QED BY <2>1, <2>2, <2>3, <2>4
<1> QED BY <1>8, <1>9, <1>10

\* The invariant holds before anything was exported.
LEMMA ArchiveStarts == Archive!Init => Archive!IndInv
<1> SUFFICES ASSUME Archive!Init PROVE Archive!IndInv
  OBVIOUS
<1>1. Archive!SectionShape
  BY DEF Archive!Init, Archive!SectionShape
<1>2. Archive!Exported
  BY DEF Archive!Init, Archive!Exported
<1>3. Archive!Answered
  BY DEF Archive!Init, Archive!Answered
<1>4. Archive!ExportsReadBack
  BY DEF Archive!Init, Archive!ExportsReadBack
<1> QED BY <1>1, <1>2, <1>3, <1>4 DEF Archive!IndInv

\* The export dialog writes a file that is as writeZip makes it.
LEMMA ExportSteps ==
  ASSUME Archive!IndInv, NEW content \in Exports, NEW protect \in BOOLEAN, NEW deflates \in BOOLEAN,
         NEW p \in Passwords, NEW c \in Passwords,
         Archive!Export(content, protect, p, c, deflates)
  PROVE  Archive!IndInv'
<1> DEFINE key == IF protect THEN p ELSE None
           data == Archive!ArchiveEntries(content)
           zip == Archive!WriteZip(data, deflates, key)
<1>1. /\ s1 = None /\ Archive!WithinLimits(zip)
      /\ s1' = [content |-> content, key |-> key] /\ s2' = zip /\ s3' = s3 /\ s4' = s4
  BY DEF Archive!Export
<1>2. key \in LongEnough \cup {None}
  BY DEF Archive!Export, Archive!Acceptable
<1>3. s1' # None
  <2> HIDE DEF key
  <2> QED BY <1>1, <1>2, ArchivesAssumption
<1>4. Archive!FileShape(zip)
  <2>1. data \in Seq(Elements(data)) /\ \A i \in DOMAIN data : Archive!DataShape(data[i])
    BY EntriesOf
  <2> HIDE DEF data, key
  <2> QED BY <2>1, ZipMade
<1>5. /\ s3 = "none" /\ ~s4.reading /\ ~s4.asking /\ s4.result = None /\ s4.problem = "none"
  BY <1>1 DEF Archive!IndInv, Archive!Exported
<1>6. Archive!SectionShape'
  BY <1>1 DEF Archive!IndInv, Archive!SectionShape
<1>7. Archive!Exported'
  <2>1. s1'.content = content /\ s1'.key = key
    BY <1>1
  <2> HIDE DEF key, data, zip
  <2>2. s2' = Archive!WriteZip(Archive!ArchiveEntries(s1'.content), deflates, s1'.key)
    BY <1>1, <2>1 DEF zip, data
  <2> QED BY <1>1, <1>2, <1>3, <1>4, <2>1, <2>2 DEF Archive!Exported
<1>8. Archive!Answered'
  <2> HIDE DEF zip
  <2> QED BY <1>1, <1>5 DEF Archive!Answered
<1>9. Archive!ExportsReadBack'
  <2> HIDE DEF zip
  <2> QED BY <1>1, <1>5 DEF Archive!ExportsReadBack
<1> QED BY <1>6, <1>7, <1>8, <1>9 DEF Archive!IndInv

\* Whatever becomes of the file, nothing was answered of it yet.
LEMMA ChangeSteps ==
  ASSUME Archive!IndInv, NEW kind, NEW f, Archive!Changes(kind, f), kind # "none",
         Archive!FileShape(f), kind = "damaged" => Archive!Broken(f),
         kind = "mixed" => Archive!HalfSealed(f)
  PROVE  Archive!IndInv'
<1>1. /\ s2 # None /\ ~s4.reading /\ s4.result = None /\ s4.problem = "none"
      /\ s2' = f /\ s3' = kind /\ s1' = s1 /\ s4' = s4
  BY DEF Archive!Changes
<1>2. s1 # None
  BY <1>1 DEF Archive!IndInv, Archive!Exported
<1>3. Archive!SectionShape'
  BY <1>1 DEF Archive!IndInv, Archive!SectionShape
<1>4. Archive!Exported'
  BY <1>1, <1>2 DEF Archive!IndInv, Archive!Exported
<1>5. Archive!Answered'
  BY <1>1 DEF Archive!Answered
<1>6. Archive!ExportsReadBack'
  BY <1>1 DEF Archive!ExportsReadBack
<1> QED BY <1>3, <1>4, <1>5, <1>6 DEF Archive!IndInv

\* Each damage leaves a mark that a check of readZip is about.
LEMMA DamageSteps ==
  ASSUME Archive!IndInv, s2 # None, Archive!Damage
  PROVE  Archive!IndInv'
<1>1. Archive!FileShape(s2) /\ s1 # None
  BY DEF Archive!IndInv, Archive!Exported
<1>2. ASSUME NEW f, Archive!Changes("damaged", f)
      PROVE  s3 = "none"
  BY <1>2 DEF Archive!Changes
<1>3. ASSUME s3 = "none"
      PROVE  \A i \in DOMAIN s2.members : LET m == s2.members[i] IN
                m.data = m.over /\ m.size = Archive!SizeOf(m.data) /\ m.size \in Int
                /\ Archive!MemberShape(m)
  <2>1. PICK deflates \in BOOLEAN :
           s2 = Archive!WriteZip(Archive!ArchiveEntries(s1.content), deflates, s1.key)
    BY <1>1, <1>3 DEF Archive!IndInv, Archive!Exported
  <2> TAKE i \in DOMAIN s2.members
  <2> DEFINE data == Archive!ArchiveEntries(s1.content)
  <2>2. i \in DOMAIN data /\ s2.members[i] = Archive!Member(data[i], deflates, s1.key)
    BY <2>1 DEF Archive!WriteZip
  <2>3. Archive!MemberShape(s2.members[i])
    BY <1>1 DEF Archive!FileShape
  <2>4. Archive!SizeOf(data[i]) \in Int
    BY DEF Archive!SizeOf
  <2> HIDE DEF data
  <2> QED BY <2>2, <2>3, <2>4 DEF Archive!Member
<1>4. CASE Archive!Changes("damaged", [s2 EXCEPT !.whole = FALSE])
  <2> DEFINE f == [s2 EXCEPT !.whole = FALSE]
  <2>1. DOMAIN f = DOMAIN s2 /\ f.whole = FALSE /\ f.members = s2.members
    BY <1>1 DEF Archive!FileShape
  <2>2. Archive!FileShape(f)
    <3> HIDE DEF f
    <3> QED BY <1>1, <2>1 DEF Archive!FileShape
  <2>3. Archive!Broken(f)
    <3> HIDE DEF f
    <3> QED BY <2>1 DEF Archive!Broken
  <2> HIDE DEF f
  <2> QED BY <1>4, <2>2, <2>3, ChangeSteps DEF f
<1>5. ASSUME NEW i \in DOMAIN s2.members, NEW m, Archive!MemberShape(m),
             ~m.record \/ m.size # Archive!SizeOf(m.data) \/ m.data # m.over \/ (m.key # None /\ ~m.head),
             Archive!Changes("damaged", Archive!At(i, m))
      PROVE  Archive!IndInv'
  <2> DEFINE f == Archive!At(i, m)
  <2>1. f = [s2 EXCEPT !.members[i] = m]
    BY DEF Archive!At
  <2> HIDE DEF f
  <2>2. Archive!FileShape(f) /\ DOMAIN f.members = DOMAIN s2.members /\ f.members[i] = m
    BY <1>1, <1>5, <2>1, MemberTaken
  <2>3. Archive!Broken(f)
    BY <1>5, <2>2 DEF Archive!Broken
  <2> QED BY <1>5, <2>2, <2>3, ChangeSteps DEF f
<1>6. ASSUME NEW i \in DOMAIN s2.members,
             Archive!Changes("damaged", Archive!At(i, [s2.members[i] EXCEPT !.record = FALSE]))
      PROVE  Archive!IndInv'
  <2> DEFINE n == [s2.members[i] EXCEPT !.record = FALSE]
  <2>1. Archive!MemberShape(n) /\ n.record = FALSE
    <3>1. Archive!MemberShape(s2.members[i])
      BY <1>2, <1>3, <1>6
    <3> QED BY <3>1 DEF Archive!MemberShape
  <2> HIDE DEF n
  <2> QED BY <1>5, <1>6, <2>1 DEF n
<1>7. ASSUME NEW i \in DOMAIN s2.members,
             Archive!Changes("damaged", Archive!At(i, [s2.members[i] EXCEPT !.size = @ + 1]))
      PROVE  Archive!IndInv'
  <2> DEFINE n == [s2.members[i] EXCEPT !.size = @ + 1]
  <2>1. Archive!MemberShape(n) /\ n.size = s2.members[i].size + 1 /\ n.data = s2.members[i].data
    <3>1. Archive!MemberShape(s2.members[i])
      BY <1>2, <1>3, <1>7
    <3> QED BY <3>1 DEF Archive!MemberShape
  <2>2. s2.members[i].size = Archive!SizeOf(s2.members[i].data) /\ s2.members[i].size \in Int
    BY <1>2, <1>3, <1>7
  <2> HIDE DEF n
  <2>3. n.size # Archive!SizeOf(n.data)
    BY <2>1, <2>2
  <2> QED BY <1>5, <1>7, <2>1, <2>3 DEF n
<1>8. ASSUME NEW i \in DOMAIN s2.members, s2.members[i].key # None,
             Archive!Changes("damaged", Archive!At(i, [s2.members[i] EXCEPT !.head = FALSE]))
      PROVE  Archive!IndInv'
  <2> DEFINE n == [s2.members[i] EXCEPT !.head = FALSE]
  <2>1. Archive!MemberShape(n) /\ n.head = FALSE /\ n.key # None
    <3>1. Archive!MemberShape(s2.members[i])
      BY <1>2, <1>3, <1>8
    <3> QED BY <1>8, <3>1 DEF Archive!MemberShape
  <2> HIDE DEF n
  <2> QED BY <1>5, <1>8, <2>1 DEF n
<1>9. ASSUME NEW i \in DOMAIN s2.members, s2.members[i].data.is = "device",
             NEW r, r # s2.members[i].data.device.room,
             Archive!Changes("damaged", Archive!At(i, [s2.members[i] EXCEPT !.data.device.room = r]))
      PROVE  Archive!IndInv'
  <2> DEFINE m == s2.members[i]
             d == [m.data.device EXCEPT !.room = r]
             e == [m.data EXCEPT !.device = d]
             n == [m EXCEPT !.data = e]
  <2>0. n = [m EXCEPT !.data.device.room = r]
    OBVIOUS
  <2>1. /\ DOMAIN m = {"data", "over", "key", "size", "safe", "record", "head", "length"}
        /\ DOMAIN m.data = {"is", "device"} /\ Archive!DeviceShape(m.data.device)
        /\ m.data = m.over
    <3>1. Archive!MemberShape(m) /\ m.data = m.over
      BY <1>2, <1>3, <1>9
    <3> QED BY <1>9, <3>1 DEF Archive!MemberShape, Archive!DataShape
  <2>2. DOMAIN d = DOMAIN m.data.device /\ d.room = r /\ d.payload = m.data.device.payload /\ d.manual = m.data.device.manual
    BY <2>1 DEF Archive!DeviceShape
  <2>3. DOMAIN e = {"is", "device"} /\ e.device = d /\ e.is = "device"
    <3> HIDE DEF d
    <3> QED BY <1>9, <2>1
  <2>4. DOMAIN n = DOMAIN m /\ n.data = e /\ n.over = m.over
    <3> HIDE DEF e
    <3> QED BY <2>1
  <2> HIDE DEF d, e, n, m
  <2>5. Archive!MemberShape(n)
    BY <2>1, <2>2, <2>3, <2>4 DEF Archive!MemberShape, Archive!DataShape, Archive!DeviceShape
  <2>6. n.data # n.over
    BY <1>9, <2>1, <2>2, <2>3, <2>4 DEF m
  <2>7. Archive!Changes("damaged", Archive!At(i, n))
    BY <1>9, <2>0 DEF m
  <2> QED BY <1>5, <2>5, <2>6, <2>7
<1> QED BY <1>4, <1>6, <1>7, <1>8, <1>9 DEF Archive!Damage

\* A member made anew has what its data says.
LEMMA MemberMade ==
  ASSUME NEW data, Archive!DataShape(data), NEW deflates, NEW key,
         NEW m, m = Archive!Member(data, deflates, key)
  PROVE  Archive!MemberShape(m) /\ m.key = key /\ m.data = data
BY DEF Archive!Member, Archive!MemberShape

\* A plain member in a sealed file leaves it sealed by half.
LEMMA MixSteps ==
  ASSUME Archive!IndInv, Archive!Mix
  PROVE  Archive!IndInv'
<1>1. PICK i \in DOMAIN s2.members :
         Archive!Changes("mixed", Archive!At(i, Archive!Member(s2.members[i].data, FALSE, None)))
  BY DEF Archive!Mix
<1> DEFINE n == Archive!Member(s2.members[i].data, FALSE, None)
           f == Archive!At(i, n)
<1>2. s1 # None /\ s1.key # None /\ s3 = "none" /\ Archive!FileShape(s2)
  BY <1>1 DEF Archive!Mix, Archive!Changes, Archive!IndInv, Archive!Exported
<1>3. s1.content \in Exports /\ s1.key \in LongEnough \cup {None}
  BY <1>2 DEF Archive!IndInv, Archive!Exported
<1>4. PICK deflates \in BOOLEAN :
         s2 = Archive!WriteZip(Archive!ArchiveEntries(s1.content), deflates, s1.key)
  BY <1>2 DEF Archive!IndInv, Archive!Exported
<1>5. /\ DOMAIN s2.members = 1..(Len(s1.content.devices) + 2) /\ Len(s1.content.devices) \in Nat
      /\ \A j \in DOMAIN s2.members : s2.members[j].key = s1.key
  <2> DEFINE data == Archive!ArchiveEntries(s1.content)
  <2>1. DOMAIN data = 1..(Len(s1.content.devices) + 2) /\ Len(s1.content.devices) \in Nat
    BY <1>3, EntriesOf
  <2> HIDE DEF data
  <2>2. s2.members = [j \in DOMAIN data |-> Archive!Member(data[j], deflates, s1.key)]
    BY <1>4 DEF Archive!WriteZip, data
  <2> QED BY <2>1, <2>2 DEF Archive!Member
<1>6. Archive!MemberShape(n) /\ n.key = None
  <2>1. Archive!DataShape(s2.members[i].data)
    BY <1>2 DEF Archive!FileShape, Archive!MemberShape
  <2>2. Archive!MemberShape(n)
    BY <2>1, MemberMade
  <2>3. n.key = None
    BY DEF Archive!Member
  <2> QED BY <2>2, <2>3
<1> HIDE DEF n
<1>7. f = [s2 EXCEPT !.members[i] = n]
  BY DEF Archive!At
<1> HIDE DEF f
<1>8. /\ Archive!FileShape(f) /\ DOMAIN f.members = DOMAIN s2.members /\ f.members[i] = n
      /\ \A j \in DOMAIN s2.members : j # i => f.members[j] = s2.members[j]
  BY <1>2, <1>6, <1>7, MemberTaken
<1>9. PICK j \in DOMAIN s2.members : j # i
  <2>1. 1 \in DOMAIN s2.members /\ 2 \in DOMAIN s2.members
    BY <1>5
  <2> QED BY <2>1
<1>10. Archive!HalfSealed(f)
  BY <1>2, <1>5, <1>6, <1>8, <1>9 DEF Archive!HalfSealed
<1> QED BY <1>1, <1>8, <1>10, ChangeSteps DEF f, n

\* A sequence of members with one put at its end, or without one, is one.
LEMMA MembersRearranged ==
  ASSUME NEW f, Archive!FileShape(f), NEW t,
         \/ \E m : Archive!MemberShape(m) /\ t = Append(f.members, m)
         \/ \E i \in DOMAIN f.members : t = Archive!RemoveAt(f.members, i),
         NEW g, g = [f EXCEPT !.members = t]
  PROVE  Archive!FileShape(g)
<1> DEFINE s == f.members
<1>1. DOMAIN f = {"whole", "members"} /\ s \in Seq(Elements(s)) /\ \A j \in DOMAIN s : Archive!MemberShape(s[j])
  BY DEF Archive!FileShape, Elements
<1>2. DOMAIN g = {"whole", "members"} /\ g.members = t
  BY <1>1
<1>3. DOMAIN s = 1..Len(s) /\ Len(s) \in Nat
  <2> HIDE DEF s
  <2> QED BY <1>1, OfItself
<1>4. ASSUME NEW m, Archive!MemberShape(m), t = Append(s, m)
      PROVE  t \in Seq(Elements(t)) /\ \A j \in DOMAIN t : Archive!MemberShape(t[j])
  <2> DEFINE B == Elements(s) \cup {m}
  <2>1. Elements(s) \subseteq B /\ m \in B
    OBVIOUS
  <2> HIDE DEF B, s
  <2>2. s \in Seq(B)
    BY <1>1, <2>1, SeqMonotonic
  <2>3. t \in Seq(B) /\ Len(t) = Len(s) + 1 /\ t[Len(s) + 1] = m /\ \A j \in 1..Len(s) : t[j] = s[j]
    BY <1>4, <2>1, <2>2, AppendProperties
  <2>4. t \in Seq(Elements(t)) /\ DOMAIN t = 1..Len(t)
    BY <2>3, OfItself
  <2>5. \A j \in DOMAIN t : j = Len(s) + 1 \/ j \in 1..Len(s)
    BY <1>3, <2>3, <2>4
  <2> QED BY <1>1, <1>3, <1>4, <2>3, <2>4, <2>5
<1>5. ASSUME NEW i \in DOMAIN s, t = Archive!RemoveAt(s, i)
      PROVE  t \in Seq(Elements(t)) /\ \A j \in DOMAIN t : Archive!MemberShape(t[j])
  <2> DEFINE G == {e \in Elements(s) : Archive!MemberShape(e)}
             a == SubSeq(s, 1, i - 1)
             b == SubSeq(s, i + 1, Len(s))
  <2>1. \A j \in 1..Len(s) : s[j] \in G
    BY <1>1, <1>3 DEF Elements
  <2> HIDE DEF G, s
  <2>2. a \in Seq(G)
    <3>1. i - 1 \in Int /\ \A j \in 1 .. i - 1 : s[j] \in G
      BY <1>3, <1>5, <2>1
    <3> QED BY <3>1, SubSeqProperties
  <2>3. b \in Seq(G)
    <3>1. i + 1 \in Int /\ Len(s) \in Int /\ \A j \in i + 1 .. Len(s) : s[j] \in G
      BY <1>3, <1>5, <2>1
    <3> QED BY <3>1, SubSeqProperties
  <2>4. t = a \o b
    BY <1>5 DEF Archive!RemoveAt
  <2> HIDE DEF a, b
  <2>5. t \in Seq(G)
    BY <2>2, <2>3, <2>4, ConcatProperties
  <2>6. t \in Seq(Elements(t)) /\ DOMAIN t = 1..Len(t)
    BY <2>5, OfItself
  <2>7. \A j \in DOMAIN t : t[j] \in G
    BY <2>5, <2>6, ElementOfSeq
  <2> QED BY <2>6, <2>7 DEF G
<1> QED BY <1>2, <1>4, <1>5 DEF Archive!FileShape, Elements

\* A member left out of the list leaves a file of the same shape.
LEMMA LeaveSteps ==
  ASSUME Archive!IndInv, s2 # None, Archive!Leave
  PROVE  Archive!IndInv'
<1>1. PICK i \in DOMAIN s2.members :
         Archive!Changes("list", [s2 EXCEPT !.members = Archive!RemoveAt(@, i)])
  BY DEF Archive!Leave
<1>2. Archive!FileShape(s2)
  BY DEF Archive!IndInv, Archive!Exported
<1> DEFINE f == [s2 EXCEPT !.members = Archive!RemoveAt(s2.members, i)]
<1>3. Archive!FileShape(f)
  BY <1>2, MembersRearranged
<1>4. Archive!Changes("list", f)
  BY <1>1
<1> HIDE DEF f
<1> QED BY <1>3, <1>4, ChangeSteps

\* A plain file that was rewritten has the shape of one.
LEMMA RewriteSteps ==
  ASSUME Archive!IndInv, s2 # None, Archive!Rewrite
  PROVE  Archive!IndInv'
<1>1. Archive!FileShape(s2)
  BY DEF Archive!IndInv, Archive!Exported
<1>2. PICK i \in DOMAIN s2.members :
        LET m == s2.members[i] IN
          \/ /\ m.data.is = "manifest"
             /\ Archive!Changes("edited", Archive!At(i, Archive!Member([m.data EXCEPT !.version = 2], TRUE, None)))
          \/ /\ m.data.is = "device"
             /\ \/ \E d \in Archive!EditsOf(m.data.device) \ {m.data.device} :
                      Archive!Changes("edited", Archive!At(i, Archive!Member(Archive!DeviceFile(d), TRUE, None)))
                \/ Archive!Changes("edited", [s2 EXCEPT !.members = Append(@, m)])
          \/ Archive!Changes("edited", Archive!At(i, [m EXCEPT !.safe = FALSE]))
  BY DEF Archive!Rewrite
<1> DEFINE m == s2.members[i]
<1>3. Archive!MemberShape(m) /\ Archive!DataShape(m.data)
  BY <1>1 DEF Archive!FileShape, Archive!MemberShape
<1>4. ASSUME NEW n, Archive!MemberShape(n), Archive!Changes("edited", Archive!At(i, n))
      PROVE  Archive!IndInv'
  <2> DEFINE f == Archive!At(i, n)
  <2>1. f = [s2 EXCEPT !.members[i] = n]
    BY DEF Archive!At
  <2> HIDE DEF f
  <2>2. Archive!FileShape(f)
    BY <1>1, <1>4, <2>1, MemberTaken
  <2> QED BY <1>4, <2>2, ChangeSteps DEF f
<1>5. CASE m.data.is = "manifest" /\ Archive!Changes("edited",
              Archive!At(i, Archive!Member([m.data EXCEPT !.version = 2], TRUE, None)))
  <2> DEFINE e == [m.data EXCEPT !.version = 2]
  <2>1. Archive!DataShape(e)
    <3>1. DOMAIN e = DOMAIN m.data /\ DOMAIN m.data = {"is", "version"}
      BY <1>3, <1>5 DEF Archive!DataShape
    <3>2. e.is = "manifest"
      BY <1>5, <3>1
    <3> HIDE DEF e
    <3> QED BY <3>1, <3>2 DEF Archive!DataShape
  <2> HIDE DEF e
  <2>2. Archive!MemberShape(Archive!Member(e, TRUE, None))
    BY <2>1, MemberMade
  <2> QED BY <1>4, <1>5, <2>2 DEF e
<1>6. ASSUME m.data.is = "device", NEW d \in Archive!EditsOf(m.data.device),
             Archive!Changes("edited", Archive!At(i, Archive!Member(Archive!DeviceFile(d), TRUE, None)))
      PROVE  Archive!IndInv'
  <2>1. Archive!DeviceShape(m.data.device)
    BY <1>3, <1>6 DEF Archive!DataShape
  <2> DEFINE o == m.data.device
  <2>2. Archive!DeviceShape(d)
    <3>1. \/ \E p \in DOMAIN ManualOf : d = [o EXCEPT !.manual = ManualOf[p]]
          \/ d = [o EXCEPT !.payload = None, !.manual = None]
          \/ d = [o EXCEPT !.remarks = FALSE]
      BY <1>6 DEF Archive!EditsOf
    <3> HIDE DEF o
    <3>2. ASSUME NEW p \in DOMAIN ManualOf, d = [o EXCEPT !.manual = ManualOf[p]]
          PROVE  Archive!DeviceShape(d)
      <4>1. DOMAIN d = DOMAIN o /\ d.payload = o.payload /\ d.manual = ManualOf[p]
        BY <2>1, <3>2 DEF Archive!DeviceShape, o
      <4>2. ManualOf[p] # None
        BY ArchivesAssumption
      <4> QED BY <2>1, <4>1, <4>2 DEF Archive!DeviceShape, o
    <3>3. ASSUME d = [o EXCEPT !.payload = None, !.manual = None]
          PROVE  Archive!DeviceShape(d)
      <4>1. DOMAIN d = DOMAIN o /\ d.payload = None
        BY <2>1, <3>3 DEF Archive!DeviceShape, o
      <4> QED BY <2>1, <4>1 DEF Archive!DeviceShape, o
    <3>4. ASSUME d = [o EXCEPT !.remarks = FALSE]
          PROVE  Archive!DeviceShape(d)
      <4>1. DOMAIN d = DOMAIN o /\ d.payload = o.payload /\ d.manual = o.manual
        BY <2>1, <3>4 DEF Archive!DeviceShape, o
      <4> QED BY <2>1, <4>1 DEF Archive!DeviceShape, o
    <3> QED BY <3>1, <3>2, <3>3, <3>4
  <2>3. Archive!DataShape(Archive!DeviceFile(d))
    BY <2>2 DEF Archive!DeviceFile, Archive!DataShape
  <2>4. Archive!MemberShape(Archive!Member(Archive!DeviceFile(d), TRUE, None))
    BY <2>3, MemberMade
  <2> QED BY <1>4, <1>6, <2>4
<1>7. CASE Archive!Changes("edited", [s2 EXCEPT !.members = Append(@, m)])
  <2> DEFINE f == [s2 EXCEPT !.members = Append(s2.members, m)]
  <2>1. Archive!FileShape(f)
    BY <1>1, <1>3, MembersRearranged
  <2>2. Archive!Changes("edited", f)
    BY <1>7
  <2> HIDE DEF f
  <2> QED BY <2>1, <2>2, ChangeSteps
<1>8. CASE Archive!Changes("edited", Archive!At(i, [m EXCEPT !.safe = FALSE]))
  <2> DEFINE n == [m EXCEPT !.safe = FALSE]
  <2>1. Archive!MemberShape(n)
    BY <1>3 DEF Archive!MemberShape
  <2> HIDE DEF n
  <2> QED BY <1>4, <1>8, <2>1 DEF n
<1> QED BY <1>2, <1>5, <1>6, <1>7, <1>8

\* A new attempt forgets what the last one said.
LEMMA AttemptSteps ==
  ASSUME Archive!IndInv, s1 # None, NEW password, Archive!Attempt(password)
  PROVE  Archive!IndInv'
<1>1. DOMAIN s4 = {"reading", "typed", "asking", "wrong", "result", "problem"}
      /\ s4.reading \in BOOLEAN /\ s4.asking \in BOOLEAN
  BY DEF Archive!IndInv, Archive!SectionShape
<1>2. /\ s4' = [s4 EXCEPT !.reading = TRUE, !.typed = password, !.result = None, !.problem = "none"]
      /\ s1' = s1 /\ s2' = s2 /\ s3' = s3
  BY DEF Archive!Attempt
<1>3. /\ DOMAIN s4' = DOMAIN s4 /\ s4'.reading = TRUE /\ s4'.asking = s4.asking
      /\ s4'.result = None /\ s4'.problem = "none"
  BY <1>1, <1>2
<1>4. Archive!SectionShape'
  BY <1>1, <1>3 DEF Archive!SectionShape
<1>5. Archive!Exported'
  BY <1>2 DEF Archive!IndInv, Archive!Exported
<1>6. Archive!Answered'
  BY <1>2, <1>3 DEF Archive!IndInv, Archive!Answered
<1>7. Archive!ExportsReadBack'
  BY <1>2, <1>3 DEF Archive!IndInv, Archive!ExportsReadBack
<1> QED BY <1>4, <1>5, <1>6, <1>7 DEF Archive!IndInv

\* The prompt closed changes nothing that was answered.
LEMMA CancelSteps ==
  ASSUME Archive!IndInv, Archive!Cancel
  PROVE  Archive!IndInv'
<1>1. DOMAIN s4 = {"reading", "typed", "asking", "wrong", "result", "problem"}
      /\ s4.reading \in BOOLEAN /\ s4.asking \in BOOLEAN
  BY DEF Archive!IndInv, Archive!SectionShape
<1>2. /\ s4' = [s4 EXCEPT !.asking = FALSE, !.wrong = FALSE]
      /\ s1' = s1 /\ s2' = s2 /\ s3' = s3 /\ s4.asking
  BY DEF Archive!Cancel
<1>3. /\ DOMAIN s4' = DOMAIN s4 /\ s4'.reading = s4.reading /\ s4'.asking = FALSE
      /\ s4'.result = s4.result /\ s4'.problem = s4.problem /\ s4'.typed = s4.typed
  BY <1>1, <1>2
<1>4. Archive!SectionShape'
  BY <1>1, <1>3 DEF Archive!SectionShape
<1>5. Archive!Exported'
  BY <1>2 DEF Archive!IndInv, Archive!Exported
<1>6. Archive!Answered'
  BY <1>2, <1>3 DEF Archive!IndInv, Archive!Answered
<1>7. Archive!ExportsReadBack'
  BY <1>2, <1>3 DEF Archive!IndInv, Archive!ExportsReadBack
<1> QED BY <1>4, <1>5, <1>6, <1>7 DEF Archive!IndInv

\* An import answers for the file that is there: with a new project only if nothing refuses it.
LEMMA ImportSteps ==
  ASSUME Archive!IndInv, NEW chance \in BOOLEAN, Archive!Import(chance)
  PROVE  Archive!IndInv'
<1> DEFINE zip == Archive!ZipProblem(s2, s4.typed, chance)
           data == Archive!DataOf(s2)
           archive == Archive!ArchiveProblem(data)
           Answers(asking, result, problem) ==
              /\ DOMAIN s4' = DOMAIN s4 /\ s4'.reading = FALSE /\ s4'.asking = asking
              /\ s4'.result = result /\ s4'.problem = problem /\ s4'.typed = s4.typed
<1>1. DOMAIN s4 = {"reading", "typed", "asking", "wrong", "result", "problem"}
      /\ s4.reading \in BOOLEAN /\ s4.asking \in BOOLEAN /\ s4.reading
  BY DEF Archive!IndInv, Archive!SectionShape, Archive!Import
<1>2. s1' = s1 /\ s2' = s2 /\ s3' = s3 /\ s1 # None /\ s4.result = None
  BY <1>1 DEF Archive!Import, Archive!IndInv, Archive!Exported, Archive!Answered
<1>3. \/ zip \in {"needsPassword", "wrongPassword"} /\ Archive!Asks(zip)
      \/ zip \notin {"none", "needsPassword", "wrongPassword"} /\ Archive!Ends(None, zip)
      \/ zip = "none" /\ archive # "none" /\ Archive!Ends(None, archive)
      \/ zip = "none" /\ archive = "none" /\ Archive!Ends(Archive!ReadProjectArchive(data), "none")
  BY Zenon DEF Archive!Import
<1> HIDE DEF zip, data, archive
<1>4. ASSUME Archive!Asks(zip) PROVE Answers(TRUE, None, s4.problem)
  BY <1>1, <1>2, <1>4 DEF Archive!Asks
<1>5. ASSUME NEW result, NEW problem, Archive!Ends(result, problem) PROVE Answers(FALSE, result, problem)
  BY <1>1, <1>5 DEF Archive!Ends
<1>6. \/ zip \in {"needsPassword", "wrongPassword"} /\ Answers(TRUE, None, s4.problem)
      \/ zip \notin {"none", "needsPassword", "wrongPassword"} /\ Answers(FALSE, None, zip)
      \/ zip = "none" /\ archive # "none" /\ Answers(FALSE, None, archive)
      \/ zip = "none" /\ archive = "none" /\ Answers(FALSE, Archive!ReadProjectArchive(data), "none")
  <2> HIDE DEF Answers
  <2> QED BY <1>3, <1>4, <1>5
<1>7. Archive!SectionShape'
  BY <1>1, <1>6 DEF Archive!SectionShape
<1>8. Archive!Exported'
  BY <1>2 DEF Archive!IndInv, Archive!Exported
<1>9. Archive!Answered'
  <2>1. s4'.result # None => zip = "none" /\ archive = "none" /\ s4'.result = Archive!ReadProjectArchive(data)
    BY <1>6
  <2>2. ~s4'.reading /\ (s4'.asking => s4'.result = None) /\ s4'.typed = s4.typed
    BY <1>6
  <2>3. Archive!ZipProblem(s2, s4.typed, chance)' = Archive!ZipProblem(s2', s4'.typed, chance)
    OBVIOUS
  <2>4. s4'.result # None =>
          /\ Archive!ZipProblem(s2', s4'.typed, chance) = "none"
          /\ Archive!ArchiveProblem(Archive!DataOf(s2')) = "none"
          /\ s4'.result = Archive!ReadProjectArchive(Archive!DataOf(s2'))
    BY <1>2, <2>1, <2>2 DEF zip, archive, data
  <2>5. (s3' = "damaged" => Archive!Broken(s2')) /\ (s3' = "mixed" => Archive!HalfSealed(s2'))
    BY <1>2 DEF Archive!IndInv, Archive!Answered
  <2> QED BY <2>2, <2>4, <2>5 DEF Archive!Answered
<1>10. Archive!ExportsReadBack'
  <2> SUFFICES ASSUME s3 = "none"
               PROVE  /\ s4'.result # None =>
                            /\ s4'.result = Archive!ReadProjectArchive(Archive!ArchiveEntries(s1.content))
                            /\ s1.key \in {None, s4'.typed}
                      /\ s4'.problem # "none" => s1.key # None /\ s4'.typed \notin {None, s1.key}
                      /\ s4'.asking => s1.key # None
    BY <1>2 DEF Archive!ExportsReadBack
  <2>1. PICK deflates \in BOOLEAN :
           /\ s1.content \in Exports /\ s1.key \in LongEnough \cup {None}
           /\ Archive!FileShape(s2) /\ Archive!WithinLimits(s2)
           /\ s2 = Archive!WriteZip(Archive!ArchiveEntries(s1.content), deflates, s1.key)
    BY <1>2 DEF Archive!IndInv, Archive!Exported
  <2> DEFINE entries == Archive!ArchiveEntries(s1.content)
  <2>2. /\ entries \in Seq(Elements(entries)) /\ \A i \in DOMAIN entries : Archive!DataShape(entries[i])
        /\ DOMAIN entries = 1..(Len(s1.content.devices) + 2) /\ Len(s1.content.devices) \in Nat
    BY <2>1, EntriesOf
  <2>3. archive = "none"
    BY <2>1, <2>2, ZipMade, EntriesHold DEF archive, data
  <2>4. data = entries
    <3> HIDE DEF entries
    <3>1. s2 = Archive!WriteZip(entries, deflates, s1.key)
      BY <2>1 DEF entries
    <3> QED BY <2>2, <3>1, ZipMade DEF data
  <2>5. /\ s1.key \in {None, s4.typed} => zip = "none"
        /\ s1.key # None /\ s4.typed = None => zip = "needsPassword"
    <3> DEFINE c == s1.content  k == s1.key  p == s4.typed
    <3>1. /\ c \in Exports /\ k \in LongEnough \cup {None} /\ Archive!WithinLimits(s2)
          /\ s2 = Archive!WriteZip(Archive!ArchiveEntries(c), deflates, k)
      BY <2>1
    <3> HIDE DEF c, k, p
    <3>2. ASSUME k # None => k = p PROVE Archive!ZipProblem(s2, p, chance) = "none"
      BY <3>1, <3>2, UntouchedReads
    <3>3. ASSUME k # None, Untyped(p)
          PROVE  Archive!ZipProblem(s2, p, chance) = "needsPassword"
      <4>1. k \in LongEnough
        BY <3>1, <3>3
      <4> QED BY <3>1, <3>3, <4>1, UntouchedAsks
    <3>4. (k # None => k = p) => Archive!ZipProblem(s2, p, chance) = "none"
      BY <3>2
    <3>5. k # None /\ Untyped(p) => Archive!ZipProblem(s2, p, chance) = "needsPassword"
      BY <3>3
    <3>6. p = None => Untyped(p)
      BY Zenon DEF Untyped
    <3> QED BY <3>4, <3>5, <3>6 DEF c, k, p, zip
  <2>6. ASSUME zip = "none" PROVE s1.key \in {None, s4.typed}
    <3>1. \A i \in DOMAIN s2.members : s2.members[i].key \in {None, s4.typed}
      BY <2>1, <2>6, TakenIsWhole DEF zip
    <3>2. 1 \in DOMAIN s2.members /\ s2.members[1].key = s1.key
      <4>1. 1 \in DOMAIN entries
        BY <2>2
      <4> HIDE DEF entries
      <4>2. s2.members = [i \in DOMAIN entries |-> Archive!Member(entries[i], deflates, s1.key)]
        BY <2>1 DEF Archive!WriteZip, entries
      <4> QED BY <4>1, <4>2 DEF Archive!Member
    <3> QED BY <3>1, <3>2
  <2>7. s4.problem # "none" => s1.key # None /\ s4.typed \notin {None, s1.key}
    BY <1>2 DEF Archive!IndInv, Archive!ExportsReadBack
  <2> HIDE DEF entries
  <2> QED BY <1>6, <2>3, <2>4, <2>5, <2>6, <2>7 DEF entries
<1> QED BY <1>7, <1>8, <1>9, <1>10 DEF Archive!IndInv

\* Every step of the export, of what becomes of the file, and of the import keeps the invariant.
LEMMA ArchiveSteps == Archive!IndInv /\ [Archive!Next]_slots => Archive!IndInv'
<1> SUFFICES ASSUME Archive!IndInv, [Archive!Next]_slots PROVE Archive!IndInv'
  OBVIOUS
<1>1. ASSUME NEW content \in Exports, NEW protect \in BOOLEAN, NEW deflates \in BOOLEAN,
             NEW p \in Passwords, NEW c \in Passwords,
             Archive!Export(content, protect, p, c, deflates)
      PROVE  Archive!IndInv'
  BY <1>1, ExportSteps
<1>2. ASSUME s2 # None, Archive!Damage \/ Archive!Mix \/ Archive!Leave \/ Archive!Rewrite
      PROVE  Archive!IndInv'
  BY <1>2, DamageSteps, MixSteps, LeaveSteps, RewriteSteps
<1>3. ASSUME Archive!Choose PROVE Archive!IndInv'
  <2>1. s1 # None
    BY <1>3 DEF Archive!Choose, Archive!IndInv, Archive!Exported
  <2> QED BY <1>3, <2>1, AttemptSteps DEF Archive!Choose
<1>4. ASSUME Archive!Cancel PROVE Archive!IndInv'
  BY <1>4, CancelSteps
<1>5. ASSUME NEW p \in Passwords, Archive!Submit(p) PROVE Archive!IndInv'
  <2>1. s1 # None
    BY <1>5, Zenon DEF Archive!Submit, Archive!IndInv, Archive!Exported
  <2>2. Archive!Attempt(p)
    BY <1>5, Zenon DEF Archive!Submit
  <2> QED BY <2>1, <2>2, AttemptSteps
<1>6. ASSUME NEW chance \in BOOLEAN, Archive!Import(chance) PROVE Archive!IndInv'
  BY <1>6, ImportSteps
<1>7. CASE UNCHANGED slots
  BY <1>7 DEF slots, Archive!IndInv, Archive!SectionShape, Archive!Exported, Archive!Answered,
              Archive!ExportsReadBack
<1>8. CASE Archive!Next
  BY <1>1, <1>2, <1>3, <1>4, <1>5, <1>6, <1>8, Zenon DEF Archive!Next
<1> QED BY <1>7, <1>8

\* What is refused, from the invariant: an import that was answered is the import of the
\* file that is there, which nothing refuses.
LEMMA RefusedByInvariant == Archive!IndInv => Archive!DamageIsRefused
<1> SUFFICES ASSUME Archive!IndInv, s4.result # None
             PROVE  /\ s3 \notin {"damaged", "mixed"}
                    /\ \A i, j \in DOMAIN s4.result.devices :
                          LET d == s4.result.devices[i] IN
                          /\ d.uuid = s4.result.devices[j].uuid => i = j
                          /\ d.room \in PathRooms \cup {"Imported"}
                          /\ d.payload # None =>
                                /\ d.manual = ManualOf[d.payload]
                                /\ d.manual \in {s2.members[k].data.device.manual :
                                      k \in {k \in DOMAIN s2.members :
                                                s2.members[k].data.is = "device"}}
  BY DEF Archive!DamageIsRefused, Archive!IMPORTED_ROOM
<1>1. /\ s3 = "damaged" => Archive!Broken(s2)
      /\ s3 = "mixed" => Archive!HalfSealed(s2)
      /\ \E chance \in BOOLEAN : Archive!ZipProblem(s2, s4.typed, chance) = "none"
      /\ Archive!ArchiveProblem(Archive!DataOf(s2)) = "none"
      /\ s4.result = Archive!ReadProjectArchive(Archive!DataOf(s2))
  BY Zenon DEF Archive!IndInv, Archive!Answered
<1>2. Archive!FileShape(s2)
  BY Zenon DEF Archive!IndInv, Archive!Exported
<1>3. s3 \notin {"damaged", "mixed"}
  BY <1>1, <1>2, TakenIsWhole
<1>4. ASSUME NEW i \in DOMAIN s4.result.devices, NEW j \in DOMAIN s4.result.devices
      PROVE  LET d == s4.result.devices[i] IN
             /\ d.uuid = s4.result.devices[j].uuid => i = j
             /\ d.room \in PathRooms \cup {"Imported"}
             /\ d.payload # None =>
                   /\ d.manual = ManualOf[d.payload]
                   /\ d.manual \in {s2.members[k].data.device.manual :
                         k \in {k \in DOMAIN s2.members : s2.members[k].data.is = "device"}}
  <2> DEFINE r == s4.result  d == r.devices[i]
  <2>1. /\ \A k \in DOMAIN r.devices : d.uuid = r.devices[k].uuid => i = k
        /\ d.room \in PathRooms \cup {"Imported"}
        /\ d.payload # None => /\ d.manual = ManualOf[d.payload]
                               /\ \E k \in DOMAIN s2.members :
                                     /\ s2.members[k].data.is = "device"
                                     /\ d.manual = s2.members[k].data.device.manual
    BY <1>1, <1>2, ReadHolds
  <2> QED BY <2>1
<1> QED BY <1>3, <1>4

\* The invariant along every behaviour of the parts, of which the archive is one.
THEOREM ArchiveInvariance == AlgorithmsSpec => [](part = "archive" => Archive!IndInv)
<1>1. AlgorithmsInit => (part = "archive" => Archive!IndInv)
  BY ArchiveStarts DEF AlgorithmsInit
<1>2. (part = "archive" => Archive!IndInv) /\ [AlgorithmsNext]_<<vars, part, slots>>
      => (part = "archive" => Archive!IndInv)'
  <2> SUFFICES ASSUME part = "archive" => Archive!IndInv,
                      [AlgorithmsNext]_<<vars, part, slots>>, part' = "archive"
               PROVE  Archive!IndInv'
    OBVIOUS
  <2>1. part = "archive" /\ [Archive!Next]_slots
    BY Zenon DEF AlgorithmsNext
  <2> QED BY <2>1, ArchiveSteps
<1> QED BY <1>1, <1>2, PTL DEF AlgorithmsSpec

\* What an export wrote an import takes, whole, and no other password opens it.
THEOREM ArchivesReadBack == AlgorithmsSpec => [](part = "archive" => Archive!ExportsReadBack)
<1>1. Archive!IndInv => Archive!ExportsReadBack
  BY DEF Archive!IndInv
<1> QED BY <1>1, ArchiveInvariance, PTL

\* An archive damaged in a member or its end, or mixed with another, is refused, never half read.
THEOREM DamageRefused == AlgorithmsSpec => []DamageIsRefused
<1>1. (part = "archive" => Archive!IndInv) => DamageIsRefused
  BY RefusedByInvariant DEF DamageIsRefused
<1> QED BY <1>1, ArchiveInvariance, PTL

\* One answer, in whichever order the leaves of a device are read, in this composition too.
THEOREM PartsMerge == AlgorithmsSpec => Spec
<1>1. AlgorithmsInit => Init
  BY DEF AlgorithmsInit
<1>2. [AlgorithmsNext]_<<vars, part, slots>> => [Next]_vars
  BY Zenon DEF AlgorithmsNext
<1> QED BY <1>1, <1>2, PTL DEF AlgorithmsSpec, Spec

\* So the answers of the merge agree whichever other part runs.
THEOREM PartsAgree == AlgorithmsSpec => []OneAnswer
BY PartsMerge, MergeAgrees, PTL

-----------------------------------------------------------------------------
(* Setup codes: a slip in the digits is noticed (verhoeff.ts). *)

\* The permutation of a digit, once.
Q(d) == Code!Once[d + 1]

\* The permutation of one place, written out.
LEMMA Shuffled ==
  /\ Q(0) = 1 /\ Q(1) = 5 /\ Q(2) = 7 /\ Q(3) = 6 /\ Q(4) = 2
  /\ Q(5) = 8 /\ Q(6) = 3 /\ Q(7) = 0 /\ Q(8) = 9 /\ Q(9) = 4
BY DEF Q, Code!Once

\* It permutes the digits: none is the image of two.
LEMMA ShuffleIsOne ==
  /\ \A x \in 0..9 : Q(x) \in 0..9
  /\ \A x, y \in 0..9 : Q(x) = Q(y) => x = y
  /\ \A x \in 0..9 : Q(Q(Q(Q(Q(Q(Q(Q(x)))))))) = x
<1>1. \A x \in 0..9 : x = 0 \/ x = 1 \/ x = 2 \/ x = 3 \/ x = 4 \/ x = 5 \/ x = 6 \/ x = 7 \/ x = 8 \/ x = 9
  OBVIOUS
<1>2. \A x \in 0..9 : Q(x) \in 0..9
  BY <1>1, Shuffled
<1>3. \A x, y \in 0..9 : Q(x) = Q(y) => x = y
  BY <1>1, Shuffled
<1>4. \A x \in 0..9 : Q(Q(Q(Q(Q(Q(Q(Q(x)))))))) = x
  BY <1>1, Shuffled
<1> QED BY <1>2, <1>3, <1>4

\* The product of two digits, as numbers.
Times(x, y) == IF x < 5 THEN IF y < 5 THEN (x + y) % 5 ELSE 5 + ((x + y) % 5)
               ELSE IF y < 5 THEN 5 + ((x - y) % 5) ELSE (x - y) % 5

\* The product of the code's table is the product of the pentagon's group, written as sums.
LEMMA Multiplied ==
  ASSUME NEW x \in 0..9, NEW y \in 0..9
  PROVE  Code!MULTIPLY[x][y] = Times(x, y)
<1>1. Code!MULTIPLY[x][y] =
        CASE x < 5 /\ y < 5   -> (x + y) % 5
          [] x < 5 /\ y >= 5  -> 5 + ((x + y) % 5)
          [] x >= 5 /\ y < 5  -> 5 + ((x - y) % 5)
          [] x >= 5 /\ y >= 5 -> (x - y) % 5
  BY DEF Code!MULTIPLY, Code!Digit
<1>2. (x < 5 <=> ~(x >= 5)) /\ (y < 5 <=> ~(y >= 5))
  OBVIOUS
<1> QED BY <1>1, <1>2, Zenon DEF Times

\* The product of digits is a digit.
LEMMA TimesIsDigit ==
  ASSUME NEW x \in 0..9, NEW y \in 0..9
  PROVE  Times(x, y) \in 0..9 /\ Times(0, y) = y /\ Times(x, 0) = x
BY DEF Times

\* Two digits that differ make different products with the same digit.
LEMMA TimesCancels ==
  ASSUME NEW x \in 0..9, NEW y \in 0..9, NEW z \in 0..9
  PROVE  /\ Times(x, y) = Times(x, z) => y = z
         /\ Times(x, z) = Times(y, z) => x = y
<1>1. Times(x, y) = Times(x, z) => y = z
  BY DEF Times
<1>2. Times(x, z) = Times(y, z) => x = y
  BY DEF Times
<1> QED BY <1>1, <1>2

\* The product is associative, so a run of digits may be multiplied from either end.
LEMMA TimesAssociates ==
  ASSUME NEW x \in 0..9, NEW y \in 0..9, NEW z \in 0..9
  PROVE  Times(Times(x, y), z) = Times(x, Times(y, z))
BY DEF Times

\* Every digit has its inverse, on either side.
LEMMA TimesInverts ==
  ASSUME NEW x \in 0..9
  PROVE  (\E y \in 0..9 : Times(x, y) = 0) /\ \A y \in 0..9 : Times(x, y) = 0 => Times(y, x) = 0
<1>1. \E y \in 0..9 : Times(x, y) = 0
  <2>1. CASE x = 0
    BY <2>1, 0 \in 0..9 DEF Times
  <2>2. CASE x \in 1..4
    <3>1. 5 - x \in 0..9 /\ Times(x, 5 - x) = 0
      BY <2>2 DEF Times
    <3> QED BY <3>1
  <2>3. CASE x \in 5..9
    <3>1. Times(x, x) = 0
      BY <2>3 DEF Times
    <3> QED BY <3>1
  <2> QED BY <2>1, <2>2, <2>3
<1>2. \A y \in 0..9 : Times(x, y) = 0 => Times(y, x) = 0
  BY DEF Times
<1> QED BY <1>1, <1>2

\* Two digits side by side do not commute, which is what the permutation is for.
LEMMA NeighboursTell ==
  ASSUME NEW x \in 0..9, NEW y \in 0..9, x # y
  PROVE  Times(x, Q(y)) # Times(y, Q(x))
<1>1. \A d \in 0..9 : d = 0 \/ d = 1 \/ d = 2 \/ d = 3 \/ d = 4 \/ d = 5 \/ d = 6 \/ d = 7 \/ d = 8 \/ d = 9
  OBVIOUS
<1>2. PICK p \in 0..9 : p = Q(x)
  BY ShuffleIsOne
<1>3. PICK q \in 0..9 : q = Q(y)
  BY ShuffleIsOne
<1>4. <<y, q>> \in {<<0, 1>>, <<1, 5>>, <<2, 7>>, <<3, 6>>, <<4, 2>>, <<5, 8>>, <<6, 3>>, <<7, 0>>,
                    <<8, 9>>, <<9, 4>>}
  BY <1>1, <1>3, Shuffled
<1> SUFFICES Times(x, q) # Times(y, p)
  BY <1>2, <1>3
<1>10. CASE x = 0 /\ p = 1
  BY <1>4, <1>10 DEF Times
<1>11. CASE x = 1 /\ p = 5
  BY <1>4, <1>11 DEF Times
<1>12. CASE x = 2 /\ p = 7
  BY <1>4, <1>12 DEF Times
<1>13. CASE x = 3 /\ p = 6
  BY <1>4, <1>13 DEF Times
<1>14. CASE x = 4 /\ p = 2
  BY <1>4, <1>14 DEF Times
<1>15. CASE x = 5 /\ p = 8
  BY <1>4, <1>15 DEF Times
<1>16. CASE x = 6 /\ p = 3
  BY <1>4, <1>16 DEF Times
<1>17. CASE x = 7 /\ p = 0
  BY <1>4, <1>17 DEF Times
<1>18. CASE x = 8 /\ p = 9
  BY <1>4, <1>18 DEF Times
<1>19. CASE x = 9 /\ p = 4
  BY <1>4, <1>19 DEF Times
<1> QED BY <1>1, <1>2, Shuffled, <1>10, <1>11, <1>12, <1>13, <1>14, <1>15, <1>16, <1>17, <1>18, <1>19

\* The powers of the permutation, the first of them none; the eighth is none again.
LEMMA Permuted ==
  /\ \A d \in 0..9 : Code!PERMUTE[0][d] = d
  /\ \A i \in 1..7, d \in 0..9 : Code!PERMUTE[i][d] = Q(Code!PERMUTE[i - 1][d])
<1> DEFINE Good(f) == f = [i \in 0..7 |-> [d \in Code!Digit |-> IF i = 0 THEN d ELSE Code!Once[f[i - 1][d] + 1]]]
           w0 == [d \in 0..9 |-> d]
           On(r) == [d \in 0..9 |-> Code!Once[r[d] + 1]]
           w1 == On(w0)  w2 == On(w1)  w3 == On(w2)  w4 == On(w3)
           w5 == On(w4)  w6 == On(w5)  w7 == On(w6)
           f == [i \in 0..7 |-> IF i = 0 THEN w0 ELSE IF i = 1 THEN w1 ELSE IF i = 2 THEN w2
                                ELSE IF i = 3 THEN w3 ELSE IF i = 4 THEN w4 ELSE IF i = 5 THEN w5
                                ELSE IF i = 6 THEN w6 ELSE w7]
           p == CHOOSE g : Good(g)
<1>1. \A i \in 0..7 : f[i] = IF i = 0 THEN w0 ELSE On(f[i - 1])
  <2>1. /\ w1 = On(w0) /\ w2 = On(w1) /\ w3 = On(w2) /\ w4 = On(w3)
        /\ w5 = On(w4) /\ w6 = On(w5) /\ w7 = On(w6)
    OBVIOUS
  <2> HIDE DEF w0, w1, w2, w3, w4, w5, w6, w7, On
  <2>2. /\ f[0] = w0 /\ f[1] = w1 /\ f[2] = w2 /\ f[3] = w3 /\ f[4] = w4
        /\ f[5] = w5 /\ f[6] = w6 /\ f[7] = w7
    OBVIOUS
  <2> HIDE DEF f
  <2>3. \A i \in 0..7 : i = 0 \/ i = 1 \/ i = 2 \/ i = 3 \/ i = 4 \/ i = 5 \/ i = 6 \/ i = 7
    OBVIOUS
  <2>4. 1 - 1 = 0 /\ 2 - 1 = 1 /\ 3 - 1 = 2 /\ 4 - 1 = 3 /\ 5 - 1 = 4 /\ 6 - 1 = 5 /\ 7 - 1 = 6
    OBVIOUS
  <2> QED BY <2>1, <2>2, <2>3, <2>4
<1>2. \A i \in 0..7 : f[i] = [d \in Code!Digit |-> IF i = 0 THEN d ELSE Code!Once[f[i - 1][d] + 1]]
  <2> HIDE DEF f
  <2> TAKE i \in 0..7
  <2>1. CASE i = 0
    BY <1>1, <2>1 DEF Code!Digit
  <2>2. CASE i # 0
    BY <1>1, <2>2 DEF Code!Digit
  <2> QED BY <2>1, <2>2
<1>3. Good(f)
  <2>1. f = [i \in 0..7 |-> f[i]]
    OBVIOUS
  <2> HIDE DEF f
  <2> QED BY <1>2, <2>1
<1>4. Good(p)
  <2> HIDE DEF Good, f
  <2> QED BY <1>3
<1>5. Code!PERMUTE = p
  BY DEF Code!PERMUTE
<1> HIDE DEF p, f
<1>6. \A d \in 0..9 : p[0][d] = d
  BY <1>4 DEF Code!Digit
<1>7. ASSUME NEW i \in 1..7, NEW d \in 0..9 PROVE p[i][d] = Q(p[i - 1][d])
  <2>1. i \in 0..7 /\ i # 0 /\ d \in Code!Digit
    BY DEF Code!Digit
  <2>2. \A j \in 0..7 : p[j] = [e \in Code!Digit |-> IF j = 0 THEN e ELSE Code!Once[p[j - 1][e] + 1]]
    BY <1>4
  <2>3. p[i] = [e \in Code!Digit |-> IF i = 0 THEN e ELSE Code!Once[p[i - 1][e] + 1]]
    BY <2>1, <2>2
  <2>4. p[i][d] = Code!Once[p[i - 1][d] + 1]
    BY <2>1, <2>3
  <2> QED BY <2>4 DEF Q
<1> QED BY <1>5, <1>6, <1>7

\* So it goes on for ever, by places counted modulo eight, and keeps digits apart.
LEMMA Places ==
  /\ \A k \in 0..7, d \in 0..9 : Code!PERMUTE[k][d] \in 0..9
  /\ \A k \in 0..7, d, e \in 0..9 : Code!PERMUTE[k][d] = Code!PERMUTE[k][e] => d = e
  /\ \A i \in Nat, d \in 0..9 : Code!PERMUTE[(i + 1) % 8][d] = Q(Code!PERMUTE[i % 8][d])
<1> DEFINE P(k, d) == Code!PERMUTE[k][d]
<1>1. \A d \in 0..9 :
        /\ P(0, d) = d /\ P(1, d) = Q(d) /\ P(2, d) = Q(Q(d)) /\ P(3, d) = Q(Q(Q(d)))
        /\ P(4, d) = Q(Q(Q(Q(d)))) /\ P(5, d) = Q(Q(Q(Q(Q(d))))) /\ P(6, d) = Q(Q(Q(Q(Q(Q(d))))))
        /\ P(7, d) = Q(Q(Q(Q(Q(Q(Q(d)))))))
  <2> TAKE d \in 0..9
  <2>1. P(0, d) = d
    BY Permuted
  <2>2. \A i \in 1..7 : P(i, d) = Q(P(i - 1, d))
    BY Permuted
  <2> HIDE DEF P
  <2>3. /\ P(1, d) = Q(P(0, d)) /\ P(2, d) = Q(P(1, d)) /\ P(3, d) = Q(P(2, d)) /\ P(4, d) = Q(P(3, d))
        /\ P(5, d) = Q(P(4, d)) /\ P(6, d) = Q(P(5, d)) /\ P(7, d) = Q(P(6, d))
    <3>1. 1 - 1 = 0 /\ 2 - 1 = 1 /\ 3 - 1 = 2 /\ 4 - 1 = 3 /\ 5 - 1 = 4 /\ 6 - 1 = 5 /\ 7 - 1 = 6
      OBVIOUS
    <3>2. 1 \in 1..7 /\ 2 \in 1..7 /\ 3 \in 1..7 /\ 4 \in 1..7 /\ 5 \in 1..7 /\ 6 \in 1..7 /\ 7 \in 1..7
      OBVIOUS
    <3> QED BY <2>2, <3>1, <3>2
  <2> QED BY <2>1, <2>3
<1> HIDE DEF P
<1>2. \A k \in 0..7 : k = 0 \/ k = 1 \/ k = 2 \/ k = 3 \/ k = 4 \/ k = 5 \/ k = 6 \/ k = 7
  OBVIOUS
<1>3. \A k \in 0..7, d \in 0..9 : P(k, d) \in 0..9
  BY <1>1, <1>2, ShuffleIsOne
<1>4. \A k \in 0..7, d, e \in 0..9 : P(k, d) = P(k, e) => d = e
  <2> TAKE k \in 0..7, d \in 0..9, e \in 0..9
  <2> DEFINE S == {i \in 0..7 : P(i, d) = P(i, e) => d = e}
  <2>1. 0 \in S
    BY <1>1
  <2>2. ASSUME NEW i \in 0..7, i # 7, i \in S PROVE i + 1 \in S
    <3>1. i + 1 \in 1..7 /\ (i + 1) - 1 = i /\ i + 1 \in 0..7
      BY <2>2
    <3>2. P(i + 1, d) = Q(P(i, d)) /\ P(i + 1, e) = Q(P(i, e))
      BY <3>1, Permuted DEF P
    <3>3. P(i, d) \in 0..9 /\ P(i, e) \in 0..9
      BY <1>3
    <3>4. P(i + 1, d) = P(i + 1, e) => P(i, d) = P(i, e)
      BY <3>2, <3>3, ShuffleIsOne
    <3> QED BY <2>2, <3>1, <3>4
  <2>3. \A i \in 0..7 : i \in S
    <3> HIDE DEF S
    <3> QED BY <2>1, <2>2, Climb
  <2> QED BY <2>3
<1>5. \A i \in Nat, d \in 0..9 : P((i + 1) % 8, d) = Q(P(i % 8, d))
  <2> TAKE i \in Nat, d \in 0..9
  <2>1. i % 8 \in 0..7 /\ (i + 1) % 8 = IF i % 8 = 7 THEN 0 ELSE (i % 8) + 1
    OBVIOUS
  <2> DEFINE k == i % 8  l == (i + 1) % 8
  <2>2. k \in 0..7 /\ l = IF k = 7 THEN 0 ELSE k + 1
    BY <2>1
  <2> HIDE DEF k, l
  <2>3. CASE k = 7
    <3>1. P(0, d) = Q(P(7, d))
      BY <1>1, ShuffleIsOne
    <3> QED BY <2>2, <2>3, <3>1 DEF k, l
  <2>4. CASE k # 7
    <3>1. k + 1 \in 1..7 /\ (k + 1) - 1 = k
      BY <2>2, <2>4
    <3>2. P(k + 1, d) = Q(P((k + 1) - 1, d))
      BY <3>1, Permuted DEF P
    <3> QED BY <2>2, <2>4, <3>1, <3>2 DEF k, l
  <2> QED BY <2>3, <2>4
<1> QED BY <1>3, <1>4, <1>5 DEF P

\* The digits from the last, each permuted for its place.
Shifted(digits) ==
  [i \in 1..Len(digits) |-> Code!PERMUTE[(i - 1) % 8][digits[Len(digits) + 1 - i]]]

\* Accumulate multiplies them up from the left.
LEMMA AccumulateRuns ==
  ASSUME NEW digits \in Seq(0..9)
  PROVE  /\ Len(digits) \in Nat /\ Shifted(digits) \in [1..Len(digits) -> 0..9]
         /\ \E h \in [0..Len(digits) -> 0..9] :
               /\ h[0] = 0 /\ Code!Accumulate(digits) = h[Len(digits)]
               /\ \A i \in 1..Len(digits) : h[i] = Times(h[i - 1], Shifted(digits)[i])
<1> DEFINE n == Len(digits)
           p == Shifted(digits)
           S == DOMAIN p
           Good(it) == it = [s \in SUBSET S |-> IF s = {} THEN 0
                                ELSE Code!MULTIPLY[it[s \ {Greatest(s)}]][p[Greatest(s)]]]
           it == CHOOSE it : Good(it)
           step == [q \in (0..9) \X S |-> Code!MULTIPLY[q[1]][p[q[2]]]]
           pick == [T \in SUBSET S |-> Greatest(T)]
<1>1. S = 1..n /\ n \in Nat /\ IsFiniteSet(S)
  BY FS_Interval DEF Shifted
<1>0. \A i \in 1..n : p[i] \in 0..9
  <2> TAKE i \in 1..n
  <2>1. /\ n + 1 - i \in 1..n /\ (i - 1) % 8 \in 0..7
        /\ p[i] = Code!PERMUTE[(i - 1) % 8][digits[n + 1 - i]]
    BY <1>1 DEF Shifted
  <2>2. digits[n + 1 - i] \in 0..9
    BY <2>1
  <2> HIDE DEF p, n
  <2> QED BY <2>1, <2>2, Places
<1>2. \A T \in SUBSET S : T # {} => pick[T] \in T
  BY <1>1, MaxIn
<1>3. step \in [(0..9) \X S -> 0..9]
  <2>1. ASSUME NEW q \in (0..9) \X S PROVE Code!MULTIPLY[q[1]][p[q[2]]] \in 0..9
    <3>1. q[1] \in 0..9 /\ p[q[2]] \in 0..9
      BY <1>0, <1>1
    <3> HIDE DEF p
    <3> QED BY <3>1, Multiplied, TimesIsDigit
  <2> HIDE DEF S, p
  <2> QED BY <2>1
<1> HIDE DEF S, p
<1>4. PICK g \in [SUBSET S -> 0..9] : Folds(g, S, 0, step, pick)
  <2>1. 0 \in 0..9
    OBVIOUS
  <2> HIDE DEF step, pick
  <2> QED BY <1>1, <1>2, <1>3, <2>1, FoldsExist
<1>5. \A s \in SUBSET S : s # {} => s \ {Greatest(s)} \in SUBSET S /\ Greatest(s) \in S
  BY <1>2
<1>6. Good(g)
  BY <1>4, <1>5 DEF Folds
<1>7. Good(it)
  <2> HIDE DEF Good
  <2> QED BY <1>6
<1>8. Code!Accumulate(digits) = it[S]
  BY DEF Code!Accumulate, Code!FoldLeft, Code!MapThenFoldSet, Code!Max, Greatest, S, p, Shifted
<1> DEFINE h == [i \in 0..n |-> it[1..i]]
<1>9. ASSUME NEW i \in 1..n
      PROVE  h[i] = Code!MULTIPLY[h[i - 1]][p[i]]
  <2>1. 1..i \in SUBSET S /\ 1..i # {} /\ Greatest(1..i) = i /\ (1..i) \ {i} = 1..(i - 1)
    BY <1>1, Prefix
  <2>2. h[i] = it[1..i] /\ h[i - 1] = it[1..(i - 1)]
    BY <1>1
  <2>3. it[1..i] = Code!MULTIPLY[it[1..(i - 1)]][p[i]]
    BY <1>7, <2>1
  <2> HIDE DEF h, it, Good
  <2> QED BY <2>2, <2>3, Zenon
<1>10. h[0] = 0 /\ h[n] = it[S]
  <2>1. it[{}] = 0
    BY <1>7
  <2>2. 1..0 = {}
    OBVIOUS
  <2>3. h[0] = it[1..0] /\ h[n] = it[1..n]
    BY <1>1
  <2> QED BY <1>1, <2>1, <2>2, <2>3
<1>12. h = [i \in 0..n |-> h[i]]
  OBVIOUS
<1> HIDE DEF h, Good, it, n
<1>11. \A i \in 0..n : h[i] \in 0..9
  <2> DEFINE J == {j \in 0..n : h[j] \in 0..9}
  <2>1. 0 \in J
    BY <1>1, <1>10
  <2>2. ASSUME NEW i \in 0..n, i # n, i \in J PROVE i + 1 \in J
    <3>1. i + 1 \in 1..n /\ (i + 1) - 1 = i /\ h[i] \in 0..9 /\ p[i + 1] \in 0..9
      BY <1>0, <1>1, <2>2
    <3>2. h[i + 1] = Code!MULTIPLY[h[i]][p[i + 1]]
      BY <1>9, <3>1
    <3>3. h[i + 1] \in 0..9
      BY <3>1, <3>2, Multiplied, TimesIsDigit
    <3>4. i + 1 \in 0..n
      BY <1>1, <3>1
    <3> QED BY <3>3, <3>4, Zenon
  <2>3. \A i \in 0..n : i \in J
    <3> HIDE DEF J
    <3> QED BY <1>1, <2>1, <2>2, Climb
  <2> QED BY <2>3
<1>13. \A i \in 1..n : h[i] = Times(h[i - 1], p[i])
  <2> TAKE i \in 1..n
  <2>1. i - 1 \in 0..n
    BY <1>1
  <2> QED BY <1>0, <1>9, <1>11, <2>1, Multiplied
<1>14. h \in [0..n -> 0..9] /\ p \in [1..n -> 0..9]
  <2>1. p = [i \in 1..n |-> p[i]]
    BY DEF p, n, Shifted
  <2> QED BY <1>0, <1>11, <1>12, <2>1
<1> QED BY <1>1, <1>8, <1>10, <1>13, <1>14 DEF n, p

\* The products of the first i digits of p.
Runs(n, p, h) ==
  /\ p \in [1..n -> 0..9] /\ h \in [0..n -> 0..9] /\ h[0] = 0
  /\ \A i \in 1..n : h[i] = Times(h[i - 1], p[i])

\* Two runs that begin alike have one product as far as they are alike.
LEMMA RunsAlike ==
  ASSUME NEW n \in Nat, NEW p, NEW q, NEW g, NEW h, Runs(n, p, g), Runs(n, q, h),
         NEW k \in 0..n, \A j \in 1..k : p[j] = q[j]
  PROVE  g[k] = h[k]
<1> DEFINE J == {j \in 0..k : g[j] = h[j]}
<1>1. 0 \in J
  BY DEF Runs
<1>2. ASSUME NEW j \in 0..k, j # k, j \in J PROVE j + 1 \in J
  <2>1. j + 1 \in 1..k /\ j + 1 \in 1..n /\ (j + 1) - 1 = j /\ j + 1 \in 0..k
    BY <1>2
  <2>2. g[j + 1] = Times(g[j], p[j + 1]) /\ h[j + 1] = Times(h[j], q[j + 1]) /\ p[j + 1] = q[j + 1]
    BY <2>1 DEF Runs
  <2> QED BY <1>2, <2>1, <2>2
<1>3. \A j \in 0..k : j \in J
  <2> HIDE DEF J
  <2> QED BY <1>1, <1>2, Climb
<1>4. k \in 0..k
  OBVIOUS
<1> QED BY <1>3, <1>4

\* What differs once differs to the end, where the rest is alike.
LEMMA RunsApart ==
  ASSUME NEW n \in Nat, NEW p, NEW q, NEW g, NEW h, Runs(n, p, g), Runs(n, q, h),
         NEW k \in 0..n, g[k] # h[k], \A j \in (k + 1)..n : p[j] = q[j]
  PROVE  g[n] # h[n]
<1> DEFINE J == {j \in 0..(n - k) : g[k + j] # h[k + j]}
<1>1. 0 \in J
  OBVIOUS
<1>2. ASSUME NEW j \in 0..(n - k), j # n - k, j \in J PROVE j + 1 \in J
  <2> DEFINE l == k + (j + 1)  m == k + j
  <2>1. l \in 1..n /\ l \in (k + 1)..n /\ l - 1 = m /\ m \in 0..n /\ j + 1 \in 0..(n - k)
    BY <1>2
  <2>2. g[m] # h[m]
    BY <1>2
  <2> HIDE DEF l, m
  <2>3. /\ g[l] = Times(g[m], p[l]) /\ h[l] = Times(h[m], q[l]) /\ p[l] = q[l]
        /\ g[m] \in 0..9 /\ h[m] \in 0..9 /\ p[l] \in 0..9
    BY <2>1 DEF Runs
  <2>4. g[l] # h[l]
    BY <2>2, <2>3, TimesCancels
  <2> QED BY <2>1, <2>4 DEF l
<1>3. \A j \in 0..(n - k) : j \in J
  <2>1. n - k \in Nat
    OBVIOUS
  <2> HIDE DEF J
  <2> QED BY <1>1, <1>2, <2>1, Climb
<1>4. n - k \in 0..(n - k) /\ k + (n - k) = n
  OBVIOUS
<1>5. g[k + (n - k)] # h[k + (n - k)]
  BY <1>3, <1>4
<1> QED BY <1>4, <1>5

\* One digit taken for another changes the product.
LEMMA MistypedTells ==
  ASSUME NEW s \in Seq(0..9), NEW t \in Seq(0..9), Len(s) = Len(t),
         NEW i \in 1..Len(s), s[i] # t[i], \A j \in 1..Len(s) : j # i => s[j] = t[j]
  PROVE  Code!Accumulate(s) # Code!Accumulate(t)
<1> DEFINE n == Len(s)  p == Shifted(s)  q == Shifted(t)  k == n + 1 - i
<1>1. PICK g : Runs(n, p, g) /\ Code!Accumulate(s) = g[n]
  BY AccumulateRuns DEF Runs
<1>2. PICK h : Runs(n, q, h) /\ Code!Accumulate(t) = h[n]
  BY AccumulateRuns DEF Runs
<1>3. n \in Nat /\ k \in 1..n /\ k - 1 \in 0..n /\ k \in 0..n /\ n + 1 - k = i
  OBVIOUS
<1>4. \A j \in 1..n : /\ p[j] = Code!PERMUTE[(j - 1) % 8][s[n + 1 - j]]
                      /\ q[j] = Code!PERMUTE[(j - 1) % 8][t[n + 1 - j]]
                      /\ n + 1 - j \in 1..n /\ (n + 1 - j = i => j = k)
  BY DEF Shifted
<1> HIDE DEF p, q, k
<1>5. \A j \in 1..n : j # k => p[j] = q[j]
  <2> SUFFICES ASSUME NEW j \in 1..n, j # k PROVE p[j] = q[j]
    OBVIOUS
  <2> DEFINE m == n + 1 - j
  <2>1. s[m] = t[m]
    BY <1>4
  <2>2. p[j] = Code!PERMUTE[(j - 1) % 8][s[m]] /\ q[j] = Code!PERMUTE[(j - 1) % 8][t[m]]
    BY <1>4, Zenon
  <2> HIDE DEF m
  <2> QED BY <2>1, <2>2, Zenon
<1>6. p[k] # q[k]
  <2>1. (k - 1) % 8 \in 0..7 /\ s[i] \in 0..9 /\ t[i] \in 0..9
    BY <1>3
  <2>2. /\ p[k] = Code!PERMUTE[(k - 1) % 8][s[n + 1 - k]]
        /\ q[k] = Code!PERMUTE[(k - 1) % 8][t[n + 1 - k]]
    BY <1>3, <1>4, Zenon
  <2>3. p[k] = Code!PERMUTE[(k - 1) % 8][s[i]] /\ q[k] = Code!PERMUTE[(k - 1) % 8][t[i]]
    BY <1>3, <2>2, Zenon
  <2> DEFINE m == (k - 1) % 8  a == s[i]  b == t[i]
  <2>4. m \in 0..7 /\ a \in 0..9 /\ b \in 0..9 /\ a # b
    BY <2>1, Zenon
  <2>5. p[k] = Code!PERMUTE[m][a] /\ q[k] = Code!PERMUTE[m][b]
    BY <2>3, Zenon
  <2> HIDE DEF m, a, b
  <2> QED BY <2>4, <2>5, Places
<1>7. g[k - 1] = h[k - 1]
  <2>1. \A j \in 1..(k - 1) : p[j] = q[j]
    BY <1>3, <1>5
  <2> QED BY <1>1, <1>2, <1>3, <2>1, RunsAlike
<1>8. g[k] # h[k]
  <2>1. /\ g[k] = Times(g[k - 1], p[k]) /\ h[k] = Times(h[k - 1], q[k])
        /\ g[k - 1] \in 0..9 /\ p[k] \in 0..9 /\ q[k] \in 0..9
    BY <1>1, <1>2, <1>3 DEF Runs
  <2> QED BY <1>6, <1>7, <2>1, TimesCancels
<1>9. \A j \in (k + 1)..n : p[j] = q[j]
  BY <1>3, <1>5
<1> QED BY <1>1, <1>2, <1>3, <1>8, <1>9, RunsApart

\* So does an exchange of two that stand side by side.
LEMMA SwappedTells ==
  ASSUME NEW s \in Seq(0..9), NEW t \in Seq(0..9), Len(s) = Len(t),
         NEW i \in 1..(Len(s) - 1), s[i] # s[i + 1], t[i] = s[i + 1], t[i + 1] = s[i],
         \A j \in 1..Len(s) : j # i /\ j # i + 1 => s[j] = t[j]
  PROVE  Code!Accumulate(s) # Code!Accumulate(t)
<1> DEFINE n == Len(s)  p == Shifted(s)  q == Shifted(t)  k == n - i
<1>1. PICK g : Runs(n, p, g) /\ Code!Accumulate(s) = g[n]
  BY AccumulateRuns DEF Runs
<1>2. PICK h : Runs(n, q, h) /\ Code!Accumulate(t) = h[n]
  BY AccumulateRuns DEF Runs
<1>3. /\ n \in Nat /\ k \in 1..n /\ k - 1 \in 0..n /\ k + 1 \in 1..n /\ k + 1 \in 0..n
      /\ n + 1 - k = i + 1 /\ n + 1 - (k + 1) = i /\ i \in 1..n /\ i + 1 \in 1..n
      /\ k - 1 \in Nat /\ (k - 1) + 1 = k /\ (k + 1) - 1 = k
  OBVIOUS
<1>4. \A j \in 1..n : /\ p[j] = Code!PERMUTE[(j - 1) % 8][s[n + 1 - j]]
                      /\ q[j] = Code!PERMUTE[(j - 1) % 8][t[n + 1 - j]]
                      /\ n + 1 - j \in 1..n
                      /\ (n + 1 - j = i => j = k + 1) /\ (n + 1 - j = i + 1 => j = k)
  BY DEF Shifted
<1>5. \A j \in 1..n : j # k /\ j # k + 1 => p[j] = q[j]
  <2> HIDE DEF p, q, k
  <2> SUFFICES ASSUME NEW j \in 1..n, j # k, j # k + 1 PROVE p[j] = q[j]
    OBVIOUS
  <2> DEFINE m == n + 1 - j
  <2>1. m \in 1..n /\ m # i /\ m # i + 1
    BY <1>4
  <2>2. s[m] = t[m]
    BY <2>1
  <2>3. p[j] = Code!PERMUTE[(j - 1) % 8][s[m]] /\ q[j] = Code!PERMUTE[(j - 1) % 8][t[m]]
    BY <1>4
  <2> HIDE DEF m
  <2> QED BY <2>2, <2>3, Zenon
<1> DEFINE x == Code!PERMUTE[(k - 1) % 8][s[i + 1]]
           y == Code!PERMUTE[(k - 1) % 8][s[i]]
<1>6. x \in 0..9 /\ y \in 0..9 /\ x # y
  <2> HIDE DEF k
  <2>1. (k - 1) % 8 \in 0..7 /\ s[i] \in 0..9 /\ s[i + 1] \in 0..9
    BY <1>3
  <2> QED BY <2>1, Places
<1>7. p[k] = x /\ q[k] = y
  <2> HIDE DEF p, q, k
  <2> DEFINE m == n + 1 - k
  <2>1. p[k] = Code!PERMUTE[(k - 1) % 8][s[m]] /\ q[k] = Code!PERMUTE[(k - 1) % 8][t[m]]
    BY <1>3, <1>4, Zenon
  <2>2. m = i + 1
    BY <1>3
  <2> HIDE DEF m
  <2>3. s[m] = s[i + 1] /\ t[m] = s[i]
    BY <2>2
  <2> QED BY <2>1, <2>3, Zenon
<1>8. p[k + 1] = Q(y) /\ q[k + 1] = Q(x)
  <2> HIDE DEF p, q, k
  <2>1. p[k + 1] = Code!PERMUTE[k % 8][s[i]] /\ q[k + 1] = Code!PERMUTE[k % 8][s[i + 1]]
    BY <1>3, <1>4
  <2>2. \A d \in 0..9 : Code!PERMUTE[k % 8][d] = Q(Code!PERMUTE[(k - 1) % 8][d])
    <3>1. \A d \in 0..9 : Code!PERMUTE[((k - 1) + 1) % 8][d] = Q(Code!PERMUTE[(k - 1) % 8][d])
      BY <1>3, Places
    <3> QED BY <1>3, <3>1
  <2>3. s[i] \in 0..9 /\ s[i + 1] \in 0..9
    BY <1>3
  <2> QED BY <2>1, <2>2, <2>3
<1> HIDE DEF p, q, k, x, y
<1>9. g[k - 1] = h[k - 1]
  <2>1. \A j \in 1..(k - 1) : j \in 1..n /\ j # k /\ j # k + 1
    <3>1. \A l, m \in Nat : l \in 1..m =>
             \A j \in 1..(l - 1) : j \in 1..m /\ j # l /\ j # l + 1
      OBVIOUS
    <3>2. k \in Nat
      BY <1>3
    <3> HIDE DEF n
    <3> QED BY <1>3, <3>1, <3>2
  <2>2. \A j \in 1..(k - 1) : p[j] = q[j]
    BY <1>5, <2>1
  <2> QED BY <1>1, <1>2, <1>3, <2>2, RunsAlike
<1>10. g[k + 1] # h[k + 1]
  <2> DEFINE v == g[k - 1]
  <2>1. /\ g[k] = Times(v, x) /\ h[k] = Times(v, y) /\ v \in 0..9
        /\ g[k + 1] = Times(g[k], Q(y)) /\ h[k + 1] = Times(h[k], Q(x))
    BY <1>1, <1>2, <1>3, <1>7, <1>8, <1>9 DEF Runs
  <2> HIDE DEF v
  <2>2. Q(x) \in 0..9 /\ Q(y) \in 0..9
    BY <1>6, ShuffleIsOne
  <2>3. g[k + 1] = Times(v, Times(x, Q(y))) /\ h[k + 1] = Times(v, Times(y, Q(x)))
    <3>1. Times(Times(v, x), Q(y)) = Times(v, Times(x, Q(y)))
      BY <1>6, <2>1, <2>2, TimesAssociates
    <3>2. Times(Times(v, y), Q(x)) = Times(v, Times(y, Q(x)))
      BY <1>6, <2>1, <2>2, TimesAssociates
    <3> QED BY <2>1, <3>1, <3>2
  <2>4. Times(x, Q(y)) \in 0..9 /\ Times(y, Q(x)) \in 0..9 /\ Times(x, Q(y)) # Times(y, Q(x))
    BY <1>6, <2>2, TimesIsDigit, NeighboursTell
  <2> DEFINE a == Times(x, Q(y))  b == Times(y, Q(x))
  <2>5. v \in 0..9 /\ a \in 0..9 /\ b \in 0..9 /\ a # b
    BY <2>1, <2>4, Zenon
  <2> HIDE DEF a, b
  <2>6. Times(v, a) # Times(v, b)
    BY <2>5, TimesCancels, Zenon
  <2> QED BY <2>3, <2>6, Zenon DEF a, b
<1>11. \A j \in ((k + 1) + 1)..n : p[j] = q[j]
  BY <1>3, <1>5
<1> QED BY <1>1, <1>2, <1>3, <1>10, <1>11, RunsApart

\* The check digit makes the product of the whole zero.
LEMMA CheckDigitChecks ==
  ASSUME NEW body \in Seq(0..9), NEW c, c = Code!VerhoeffCheckDigit(body)
  PROVE  c \in 0..9 /\ Code!Accumulate(Append(body, c)) = 0
<1> DEFINE n == Len(body) + 1
           s == Append(body, 0)
           t == Append(body, c)
           p == Shifted(s)  q == Shifted(t)
           w == Code!Accumulate(s)
<1>1. s \in Seq(0..9) /\ Len(s) = n /\ n \in Nat /\ 1 \in 1..n
  OBVIOUS
<1>2. PICK g : Runs(n, p, g) /\ w = g[n]
  BY <1>1, AccumulateRuns DEF Runs
<1>3. w \in 0..9
  BY <1>1, <1>2 DEF Runs
<1>4. c \in 0..9 /\ Times(w, c) = 0
  <2>1. \E d \in 0..9 : Code!MULTIPLY[w][d] = 0
    <3> HIDE DEF w
    <3>1. PICK d \in 0..9 : Times(w, d) = 0
      BY <1>3, TimesInverts, Zenon
    <3>2. Code!MULTIPLY[w][d] = Times(w, d)
      BY <1>3, Multiplied, Zenon
    <3> QED BY <3>1, <3>2, Zenon
  <2>2. c = CHOOSE d \in 0..9 : Code!MULTIPLY[w][d] = 0
    <3>1. c = Code!INVERSE[w]
      BY DEF Code!VerhoeffCheckDigit
    <3> HIDE DEF w
    <3> QED BY <1>3, <3>1 DEF Code!INVERSE, Code!Digit
  <2> HIDE DEF w
  <2> QED BY <1>3, <2>1, <2>2, Multiplied
<1>5. Times(c, w) = 0
  <2> HIDE DEF w
  <2> QED BY <1>3, <1>4, TimesInverts
<1>6. t \in Seq(0..9) /\ Len(t) = n
  BY <1>4
<1>7. PICK h : Runs(n, q, h) /\ Code!Accumulate(t) = h[n]
  BY <1>1, <1>6, AccumulateRuns DEF Runs
<1>8. p[1] = 0 /\ q[1] = c
  <2>1. s[n] = 0 /\ t[n] = c
    BY <1>1, <1>6
  <2>2. /\ p[1] = Code!PERMUTE[(1 - 1) % 8][s[n + 1 - 1]]
        /\ q[1] = Code!PERMUTE[(1 - 1) % 8][t[n + 1 - 1]]
    <3> HIDE DEF n, s, t
    <3> QED BY <1>1, <1>6 DEF Shifted
  <2>3. (1 - 1) % 8 = 0 /\ n + 1 - 1 = n
    BY <1>1
  <2>4. \A d \in 0..9 : Code!PERMUTE[0][d] = d
    BY Permuted
  <2> HIDE DEF n, s, t, p, q
  <2> QED BY <1>4, <2>1, <2>2, <2>3, <2>4
<1>9. \A j \in 2..n : p[j] = q[j]
  <2> SUFFICES ASSUME NEW j \in 2..n PROVE p[j] = q[j]
    OBVIOUS
  <2> DEFINE m == n + 1 - j
  <2>1. m \in 1..Len(body) /\ j \in 1..n
    OBVIOUS
  <2>2. s[m] = t[m]
    <3> HIDE DEF m
    <3> QED BY <2>1
  <2>3. p[j] = Code!PERMUTE[(j - 1) % 8][s[m]] /\ q[j] = Code!PERMUTE[(j - 1) % 8][t[m]]
    <3> HIDE DEF n, s, t
    <3> QED BY <1>1, <1>6, <2>1 DEF Shifted
  <2> HIDE DEF m, s, t, p, q
  <2> QED BY <2>2, <2>3, Zenon
<1> HIDE DEF p, q, s, t, w, n
<1>10. g[1] = 0 /\ h[1] = c
  <2>1. /\ g[1] = Times(g[1 - 1], p[1]) /\ h[1] = Times(h[1 - 1], q[1])
        /\ g[0] = 0 /\ h[0] = 0
    BY <1>1, <1>2, <1>7 DEF Runs
  <2>2. 1 - 1 = 0 /\ 0 \in 0..9
    OBVIOUS
  <2> QED BY <1>4, <1>8, <2>1, <2>2, TimesIsDigit
<1> DEFINE J == {j \in 0..(n - 1) : h[j + 1] = Times(c, g[j + 1])}
<1>11. 0 \in J
  <2>1. h[0 + 1] = Times(c, g[0 + 1]) /\ 0 \in 0..(n - 1)
    BY <1>1, <1>4, <1>10, TimesIsDigit
  <2> QED BY <2>1
<1>12. ASSUME NEW j \in 0..(n - 1), j # n - 1, j \in J PROVE j + 1 \in J
  <2> DEFINE m == j + 1  l == (j + 1) + 1
  <2>1. l \in 1..n /\ l \in 2..n /\ l - 1 = m /\ m \in 0..n /\ m \in 0..(n - 1)
    BY <1>1, <1>12
  <2>2. h[m] = Times(c, g[m])
    BY <1>12
  <2> HIDE DEF l
  <2>3. /\ g[l] = Times(g[m], p[l]) /\ h[l] = Times(h[m], q[l]) /\ p[l] = q[l]
        /\ g[m] \in 0..9 /\ p[l] \in 0..9
    BY <1>2, <1>7, <1>9, <2>1 DEF Runs
  <2> HIDE DEF m
  <2>4. h[l] = Times(c, g[l])
    <3> DEFINE u == g[m]  v == p[l]
    <3>1. c \in 0..9 /\ u \in 0..9 /\ v \in 0..9
      BY <1>4, <2>3, Zenon
    <3>2. g[l] = Times(u, v) /\ h[l] = Times(Times(c, u), v)
      BY <2>2, <2>3, Zenon
    <3> HIDE DEF u, v
    <3>3. Times(Times(c, u), v) = Times(c, Times(u, v))
      BY <3>1, TimesAssociates, Zenon
    <3> QED BY <3>2, <3>3, Zenon
  <2> QED BY <2>1, <2>4 DEF l, m
<1>13. \A j \in 0..(n - 1) : j \in J
  <2>1. n - 1 \in Nat
    BY <1>1
  <2> HIDE DEF J
  <2> QED BY <1>11, <1>12, <2>1, Climb
<1>14. h[n] = Times(c, g[n])
  <2>1. n - 1 \in 0..(n - 1) /\ (n - 1) + 1 = n
    BY <1>1
  <2>2. h[(n - 1) + 1] = Times(c, g[(n - 1) + 1])
    BY <1>13, <2>1
  <2> QED BY <2>1, <2>2
<1> QED BY <1>2, <1>4, <1>5, <1>7, <1>14 DEF t

\* Two sequences of digits joined are digits, as many as both.
LEMMA Joined ==
  ASSUME NEW s \in Seq(0..9), NEW t \in Seq(0..9)
  PROVE  (s \o t) \in Seq(0..9) /\ Len(s \o t) = Len(s) + Len(t)
BY ConcatProperties

\* What lies between zero and a bound is a natural number.
LEMMA UpTo == ASSUME NEW m, NEW n \in 0..m PROVE n \in Nat
OBVIOUS

\* A number written out is written in digits.
LEMMA PaddedIsDigits ==
  ASSUME NEW value \in Nat, NEW width \in {4, 5}
  PROVE  Code!Padded(value, width) \in Seq(0..9) /\ Len(Code!Padded(value, width)) = width
<1> DEFINE tens(i) == Code!TENS[width + 1 - i]
           v(i) == (value \div tens(i)) % 10
<1>1. \A i \in 1..width : tens(i) \in Nat \ {0}
  <2> TAKE i \in 1..width
  <2>1. width + 1 - i \in 1..5
    OBVIOUS
  <2>2. \A k \in 1..5 : k = 1 \/ k = 2 \/ k = 3 \/ k = 4 \/ k = 5
    OBVIOUS
  <2>3. \A k \in 1..5 : Code!TENS[k] \in Nat \ {0}
    BY <2>2 DEF Code!TENS
  <2> QED BY <2>1, <2>3
<1>2. \A i \in 1..width : v(i) \in 0..9
  <2> TAKE i \in 1..width
  <2> DEFINE t == tens(i)  r == value \div t
  <2>1. t \in Nat \ {0}
    BY <1>1
  <2> HIDE DEF t
  <2>2. r \in Int
    BY <2>1
  <2> HIDE DEF r
  <2>3. r % 10 \in 0..9
    BY <2>2
  <2> QED BY <2>3 DEF r, t
<1>3. Code!Padded(value, width) = [i \in 1..width |-> v(i)]
  BY DEF Code!Padded
<1> HIDE DEF v
<1>4. [i \in 1..width |-> v(i)] \in Seq(0..9) /\ Len([i \in 1..width |-> v(i)]) = width
  BY <1>2
<1> QED BY <1>3, <1>4

\* A code that is derived is of digits, as long as it should be, and checks.
LEMMA DerivedChecks ==
  ASSUME NEW device \in Labels, NEW vendor \in BOOLEAN,
         NEW code, code = Code!DeriveManualCode(device, vendor)
  PROVE  /\ code \in Seq(0..9) /\ Len(code) \in {11, 21}
         /\ Code!Accumulate(code) = 0
<1> DEFINE short == device.discriminator \div 2 ^ 8
           first == (IF vendor THEN 4 ELSE 0) + (short \div 4)
           a == Code!Padded(Code!Group(short, device.passcode), 5)
           b == Code!Padded(device.passcode \div 2 ^ 14, 4)
           c == Code!Padded(device.vendorId, 5)
           d == Code!Padded(device.productId, 5)
           body == <<first>> \o a \o b \o (IF vendor THEN c \o d ELSE <<>>)
<1>1. /\ device.discriminator \in 0..4095 /\ device.passcode \in Nat
      /\ device.vendorId \in Nat /\ device.productId \in Nat
  <2>1. /\ device.discriminator \in 0 .. 2 ^ Code!WIDTH["discriminator"] - 1
        /\ device.passcode \in 0 .. 2 ^ Code!WIDTH["passcode"] - 1
        /\ device.vendorId \in 0 .. 2 ^ Code!WIDTH["vendorId"] - 1
        /\ device.productId \in 0 .. 2 ^ Code!WIDTH["productId"] - 1
    BY LabelsAssumption
  <2>2. Code!WIDTH["discriminator"] = 12 /\ 2 ^ 12 = 4096
    BY DEF Code!WIDTH
  <2>3. /\ device.passcode \in Nat /\ device.vendorId \in Nat /\ device.productId \in Nat
    BY <2>1, UpTo
  <2>4. device.discriminator \in 0..4095
    <3> DEFINE k == 2 ^ Code!WIDTH["discriminator"]  e == device.discriminator
    <3>1. e \in 0 .. k - 1
      BY <2>1
    <3>2. k = 4096
      BY <2>2
    <3> HIDE DEF k, e
    <3> QED BY <3>1, <3>2 DEF e
  <2> QED BY <2>3, <2>4
<1>2. short \in 0..15 /\ first \in 0..9
  <2>1. 2 ^ 8 = 256
    BY SMT
  <2> DEFINE e == device.discriminator
  <2>2. e \in 0..4095
    BY <1>1
  <2> HIDE DEF e
  <2>3. (e \div 256) \in 0..15
    BY <2>2
  <2>4. short = e \div 256
    BY <2>1 DEF e
  <2> HIDE DEF short
  <2>5. short \in 0..15
    BY <2>3, <2>4
  <2> QED BY <2>5
<1>3. Code!Group(short, device.passcode) \in Nat /\ (device.passcode \div 2 ^ 14) \in Nat
  <2>1. 2 ^ 14 = 16384
    BY SMT
  <2> DEFINE e == device.passcode
  <2>2. e \in Nat
    BY <1>1
  <2> HIDE DEF e, short
  <2>3. (e \div 16384) \in Nat /\ (e % 16384) \in Nat /\ (short % 4) * 16384 \in Nat
    BY <1>2, <2>2
  <2>4. Code!Group(short, e) = (short % 4) * 16384 + (e % 16384)
    BY <2>1 DEF Code!Group
  <2> QED BY <2>1, <2>3, <2>4 DEF e
<1>4. /\ a \in Seq(0..9) /\ Len(a) = 5 /\ b \in Seq(0..9) /\ Len(b) = 4
      /\ c \in Seq(0..9) /\ Len(c) = 5 /\ d \in Seq(0..9) /\ Len(d) = 5
  <2>1. 4 \in {4, 5} /\ 5 \in {4, 5}
    OBVIOUS
  <2> QED BY <1>1, <1>3, <2>1, PaddedIsDigits
<1>5. Append(body, Code!VerhoeffCheckDigit(body)) = code
  BY DEF Code!DeriveManualCode
<1> HIDE DEF a, b, c, d, first, short
<1>6. body \in Seq(0..9) /\ Len(body) \in {10, 20}
  <2>1. <<first>> \in Seq(0..9) /\ Len(<<first>>) = 1
    BY <1>2
  <2> DEFINE e == <<first>>  k == IF vendor THEN c \o d ELSE <<>>
  <2>2. k \in Seq(0..9) /\ Len(k) \in {0, 10}
    <3>1. (c \o d) \in Seq(0..9) /\ Len(c \o d) = Len(c) + Len(d)
      BY <1>4, Joined, Zenon
    <3> QED BY <1>4, <3>1
  <2> HIDE DEF e, k
  <2>3. e \in Seq(0..9) /\ Len(e) = 1
    BY <2>1 DEF e
  <2>4. (e \o a) \in Seq(0..9) /\ Len(e \o a) = 6
    <3>1. (e \o a) \in Seq(0..9) /\ Len(e \o a) = Len(e) + Len(a)
      BY <1>4, <2>3, Joined, Zenon
    <3> QED BY <1>4, <2>3, <3>1
  <2> DEFINE ea == e \o a
  <2> HIDE DEF ea
  <2>5. ea \in Seq(0..9) /\ Len(ea) = 6
    BY <2>4 DEF ea
  <2>6. (ea \o b) \in Seq(0..9) /\ Len(ea \o b) = 10
    <3>1. (ea \o b) \in Seq(0..9) /\ Len(ea \o b) = Len(ea) + Len(b)
      BY <1>4, <2>5, Joined, Zenon
    <3> QED BY <1>4, <2>5, <3>1
  <2> DEFINE eab == ea \o b
  <2> HIDE DEF eab
  <2>7. eab \in Seq(0..9) /\ Len(eab) = 10
    BY <2>6 DEF eab
  <2>8. (eab \o k) \in Seq(0..9) /\ Len(eab \o k) \in {10, 20}
    <3>1. (eab \o k) \in Seq(0..9) /\ Len(eab \o k) = Len(eab) + Len(k)
      BY <2>2, <2>7, Joined, Zenon
    <3> QED BY <2>2, <2>7, <3>1
  <2> QED BY <2>8 DEF e, k, ea, eab
<1> HIDE DEF body
<1> DEFINE x == Code!VerhoeffCheckDigit(body)
<1>7. x \in 0..9 /\ Code!Accumulate(Append(body, x)) = 0
  BY <1>6, CheckDigitChecks
<1>8. code = Append(body, x)
  BY <1>5
<1> HIDE DEF x
<1>9. Append(body, x) \in Seq(0..9) /\ Len(Append(body, x)) \in {11, 21}
  <2>1. Append(body, x) \in Seq(0..9) /\ Len(Append(body, x)) = Len(body) + 1
    BY <1>6, <1>7, AppendProperties
  <2> DEFINE l == Len(body)  e == Append(body, x)
  <2>2. l \in {10, 20} /\ Len(e) = l + 1 /\ e \in Seq(0..9)
    BY <1>6, <2>1
  <2> HIDE DEF l, e
  <2>3. Len(e) \in {11, 21}
    BY <2>2
  <2> QED BY <2>2, <2>3 DEF e
<1> QED BY <1>7, <1>8, <1>9

\* Digits have no spaces around them.
LEMMA DigitsTrimmed == ASSUME NEW s \in Seq(0..9) PROVE Code!Trimmed(s) = s
<1> DEFINE n == Len(s)  said == {i \in DOMAIN s : s[i] # Code!Space}
<1>1. n \in Nat /\ DOMAIN s = 1..n /\ \A i \in 1..n : s[i] \in 0..9
  OBVIOUS
<1>2. said = 1..n
  BY <1>1 DEF Code!Space
<1>3. CASE n = 0
  <2>1. said = {} /\ s = <<>>
    BY <1>2, <1>3
  <2> QED BY <2>1 DEF Code!Trimmed
<1>4. CASE n # 0
  <2>1. 1 \in said /\ n \in said /\ said # {} /\ said \subseteq Int
        /\ (\A y \in said : 1 <= y) /\ (\A y \in said : y <= n)
    BY <1>1, <1>2, <1>4
  <2>2. LeastOf(said) = 1 /\ Greatest(said) = n
    <3> HIDE DEF said
    <3> QED BY <2>1, EndsOf
  <2>3. Code!Trimmed(s) = SubSeq(s, LeastOf(said), Greatest(said))
    BY <2>1, Zenon DEF Code!Trimmed, Code!Min, Code!Max, LeastOf, Greatest
  <2>4. SubSeq(s, 1, n) = s
    BY <1>1
  <2> QED BY <2>2, <2>3, <2>4
<1> QED BY <1>3, <1>4

\* And no separators between them.
LEMMA DigitsKept == ASSUME NEW s \in Seq(0..9) PROVE Code!WithoutSeparators(s) = s
<1> DEFINE n == Len(s)
           S == DOMAIN s
           D == Seq(0..9)
           Good(it) == it = [t \in SUBSET S |-> IF t = {} THEN <<>>
                                ELSE IF s[Greatest(t)] \in Code!Separator THEN it[t \ {Greatest(t)}]
                                     ELSE Append(it[t \ {Greatest(t)}], s[Greatest(t)])]
           it == CHOOSE it : Good(it)
           step == [q \in D \X S |-> IF s[q[2]] \in Code!Separator THEN q[1] ELSE Append(q[1], s[q[2]])]
           pick == [T \in SUBSET S |-> Greatest(T)]
<1>1. S = 1..n /\ n \in Nat /\ IsFiniteSet(S) /\ \A i \in 1..n : s[i] \in 0..9
  BY FS_Interval
<1>2. \A T \in SUBSET S : T # {} => pick[T] \in T
  BY <1>1, MaxIn
<1>3. step \in [D \X S -> D]
  <2>1. ASSUME NEW q \in D \X S
        PROVE  (IF s[q[2]] \in Code!Separator THEN q[1] ELSE Append(q[1], s[q[2]])) \in D
    <3>1. q[1] \in D /\ s[q[2]] \in 0..9
      BY <1>1
    <3> QED BY <3>1
  <2> HIDE DEF S, D
  <2> QED BY <2>1
<1> HIDE DEF S
<1>4. PICK g \in [SUBSET S -> D] : Folds(g, S, <<>>, step, pick)
  <2>1. <<>> \in D
    OBVIOUS
  <2> HIDE DEF step, pick, D
  <2> QED BY <1>1, <1>2, <1>3, <2>1, FoldsExist
<1>5. \A t \in SUBSET S : t # {} => t \ {Greatest(t)} \in SUBSET S /\ Greatest(t) \in S
  BY <1>2
<1>6. Good(g)
  BY <1>4, <1>5 DEF Folds
<1>7. Good(it)
  <2> HIDE DEF Good
  <2> QED BY <1>6
<1>8. Code!WithoutSeparators(s) = it[S]
  BY DEF Code!WithoutSeparators, Code!FoldLeft, Code!MapThenFoldSet, Code!Max, Greatest, S
<1> DEFINE h == [i \in 0..n |-> it[1..i]]
<1>9. ASSUME NEW i \in 1..n PROVE h[i] = Append(h[i - 1], s[i])
  <2>1. 1..i \in SUBSET S /\ 1..i # {} /\ Greatest(1..i) = i /\ (1..i) \ {i} = 1..(i - 1)
    BY <1>1, Prefix
  <2>2. h[i] = it[1..i] /\ h[i - 1] = it[1..(i - 1)]
    BY <1>1
  <2>3. it[1..i] = IF s[i] \in Code!Separator THEN it[1..(i - 1)] ELSE Append(it[1..(i - 1)], s[i])
    BY <1>7, <2>1
  <2>4. s[i] \notin Code!Separator
    BY <1>1 DEF Code!Separator, Code!Dash, Code!Space
  <2> HIDE DEF h, it, Good
  <2> QED BY <2>2, <2>3, <2>4, Zenon
<1>10. h[0] = <<>> /\ h[n] = it[S]
  <2>1. it[{}] = <<>>
    BY <1>7
  <2>2. 1..0 = {}
    OBVIOUS
  <2>3. h[0] = it[1..0] /\ h[n] = it[1..n]
    BY <1>1
  <2> QED BY <1>1, <2>1, <2>2, <2>3
<1> HIDE DEF h, Good, it, n
<1> DEFINE J == {j \in 0..n : h[j] \in D /\ Len(h[j]) = j /\ \A k \in 1..j : h[j][k] = s[k]}
<1>11. 0 \in J
  <2>1. h[0] \in D /\ Len(h[0]) = 0 /\ 1..0 = {} /\ 0 \in 0..n
    BY <1>1, <1>10
  <2> QED BY <2>1
<1>12. ASSUME NEW j \in 0..n, j # n, j \in J PROVE j + 1 \in J
  <2> DEFINE a == h[j]  b == h[j + 1]  e == s[j + 1]
  <2>1. j + 1 \in 1..n /\ (j + 1) - 1 = j /\ j + 1 \in 0..n /\ j \in Nat
    BY <1>1, <1>12
  <2>2. b = Append(a, e) /\ e \in 0..9 /\ a \in Seq(0..9) /\ Len(a) = j /\ \A k \in 1..j : a[k] = s[k]
    BY <1>1, <1>9, <1>12, <2>1
  <2> HIDE DEF a, b
  <2>3. b \in Seq(0..9) /\ Len(b) = Len(a) + 1 /\ b[Len(a) + 1] = e /\ \A k \in 1..Len(a) : b[k] = a[k]
    BY <2>2, AppendProperties
  <2>4. \A k \in 1..(j + 1) : k = j + 1 \/ k \in 1..j
    BY <2>1
  <2>5. \A k \in 1..(j + 1) : b[k] = s[k]
    BY <2>2, <2>3, <2>4
  <2> QED BY <2>1, <2>2, <2>3, <2>5 DEF b
<1>13. \A j \in 0..n : j \in J
  <2> HIDE DEF J
  <2> QED BY <1>1, <1>11, <1>12, Climb
<1>14. h[n] \in Seq(0..9) /\ Len(h[n]) = Len(s) /\ \A k \in 1..Len(s) : h[n][k] = s[k]
  <2>1. n \in 0..n
    BY <1>1
  <2>2. n \in J
    BY <1>13, <2>1
  <2> QED BY <2>2 DEF n
<1>15. h[n] = s
  <2> DEFINE t == h[n]
  <2>1. t \in Seq(0..9) /\ Len(t) = Len(s) /\ \A k \in 1..Len(t) : t[k] = s[k]
    BY <1>14
  <2> HIDE DEF t
  <2>2. t = s
    BY <2>1, SeqEqual
  <2> QED BY <2>2 DEF t
<1> QED BY <1>8, <1>10, <1>15

\* Digits that are no code are refused.
LEMMA DigitsRefused ==
  ASSUME NEW t, "body" \in DOMAIN t, ~Code!HasScheme(t), t.body \in Seq(0..9), ~Code!ManualReads(t.body)
  PROVE  Code!ReadCredential(t) = Code!Refused
<1> DEFINE trimmed == [t EXCEPT !.body = Code!Trimmed(t.body)]
           digits == Code!WithoutSeparators(trimmed.body)
<1>1. trimmed.body = Code!Trimmed(t.body)
  OBVIOUS
<1>2. digits = t.body
  BY <1>1, DigitsTrimmed, DigitsKept
<1>3. \A d : d = t.body => ~Code!ManualReads(d)
  OBVIOUS
<1>4. ~Code!ManualReads(digits)
  <2> HIDE DEF digits
  <2> QED BY <1>2, <1>3
<1> QED BY <1>4, Zenon DEF Code!ReadCredential

\* No scheme at all.
Unschemed == ""

\* What a label says in digits is digits, of one of two lengths, and checks.
LEMMA PrintedDigits ==
  ASSUME NEW device \in Labels, NEW form \in {"long", "short"},
         NEW body, body = Code!Printed(device, form).body
  PROVE  /\ body \in Seq(0..9) /\ Len(body) \in {11, 21} /\ Code!Accumulate(body) = 0
         /\ ~Code!HasScheme(Code!Printed(device, form))
         /\ DOMAIN Code!Printed(device, form) = {"scheme", "body"}
<1>1. PICK vendor \in BOOLEAN :
         Code!Printed(device, form) = [scheme |-> Unschemed, body |-> Code!DeriveManualCode(device, vendor)]
  <2>1. CASE form = "long"
    <3>1. form # "payload" /\ form # "short"
      BY <2>1
    <3>2. Code!Printed(device, form) = [scheme |-> Unschemed, body |-> Code!DeriveManualCode(device, TRUE)]
      BY <2>1, <3>1, Zenon DEF Code!Printed, Unschemed
    <3> QED BY <3>2, Zenon
  <2>2. CASE form = "short"
    <3>1. form # "payload" /\ form # "long"
      BY <2>2
    <3>2. Code!Printed(device, form) = [scheme |-> Unschemed, body |-> Code!DeriveManualCode(device, FALSE)]
      BY <2>2, <3>1, Zenon DEF Code!Printed, Unschemed
    <3> QED BY <3>2, Zenon
  <2> QED BY <2>1, <2>2
<1> DEFINE r == Code!Printed(device, form)  code == Code!DeriveManualCode(device, vendor)
<1>2. r = [scheme |-> Unschemed, body |-> code] /\ body = r.body
  BY <1>1
<1>3. code \in Seq(0..9) /\ Len(code) \in {11, 21} /\ Code!Accumulate(code) = 0
  BY DerivedChecks
<1> HIDE DEF r, code
<1>4. r.scheme = Unschemed /\ body = code /\ DOMAIN r = {"scheme", "body"}
  BY <1>2
<1>5. ~Code!HasScheme(r)
  BY <1>4, Zenon DEF Code!HasScheme, Unschemed
<1> QED BY <1>3, <1>4, <1>5 DEF r

\* The invariant holds of the label as it was printed.
LEMMA CodesStart == Code!Init => Code!IndInv
<1> SUFFICES ASSUME Code!Init PROVE Code!IndInv
  OBVIOUS
<1>1. PICK device \in Labels, form \in {"payload", "long", "short"} :
         /\ s1 = [device |-> device, form |-> form]
         /\ s2 = Code!Printed(device, form)
         /\ s3 = "none" /\ s4 = Code!Unanswered
  BY DEF Code!Init
<1>2. s1.device = device /\ s1.form = form
  BY <1>1
<1>3. DOMAIN s2 = {"scheme", "body"}
  <2>1. CASE form = "payload"
    <3>1. s2 = [scheme |-> "MT:", body |-> Code!EncodePayload(device)]
      <4>1. form # "long" /\ form # "short"
        BY <2>1
      <4> QED BY <1>1, <2>1, <4>1, Zenon DEF Code!Printed
    <3> QED BY <3>1, Zenon
  <2>2. CASE form \in {"long", "short"}
    BY <1>1, <2>2, PrintedDigits
  <2> QED BY <2>1, <2>2
<1>4. form # "payload" => ~Code!HasScheme(s2)
  BY <1>1, PrintedDigits
<1>5. s2.body = Code!Printed(s1.device, s1.form).body
  BY <1>1, <1>2
<1> QED BY <1>1, <1>2, <1>3, <1>4, <1>5 DEF Code!IndInv

\* A slip over a text that had none: what it leaves.
LEMMA SlipSteps ==
  ASSUME Code!IndInv, NEW kind, NEW body, Code!Slips(kind, body),
         LET printed == Code!Printed(s1.device, s1.form).body IN
         s1.form # "payload" =>
            /\ kind # "none"
            /\ kind = "mistyped" => \E i \in DOMAIN printed, c \in 0..9 :
                  c # printed[i] /\ body = [printed EXCEPT ![i] = c]
            /\ kind = "swapped" => \E i \in 1 .. Len(printed) - 1 :
                  /\ printed[i] # printed[i + 1]
                  /\ body = [printed EXCEPT ![i] = printed[i + 1], ![i + 1] = printed[i]]
            /\ kind = "dropped" => \E i \in DOMAIN printed : body = Code!RemoveAt(printed, i)
  PROVE  Code!IndInv'
<1>1. /\ s4 = Code!Unanswered /\ s3 = "none" /\ s2' = [s2 EXCEPT !.body = body]
      /\ s3' = kind /\ s1' = s1 /\ s4' = s4
  BY DEF Code!Slips
<1>2. DOMAIN s2 = {"scheme", "body"}
  BY DEF Code!IndInv
<1>3. /\ DOMAIN s2' = {"scheme", "body"} /\ s2'.body = body /\ s2'.scheme = s2.scheme
  BY <1>1, <1>2
<1>4. Code!HasScheme(s2)' <=> Code!HasScheme(s2)
  BY <1>3, Zenon DEF Code!HasScheme
<1>5. s1.form # "payload" => ~Code!HasScheme(s2')
  BY <1>4 DEF Code!IndInv
<1>6. /\ s1.device \in Labels /\ s1.form \in {"payload", "long", "short"}
  BY DEF Code!IndInv
<1> QED BY <1>1, <1>3, <1>5, <1>6 DEF Code!IndInv, Code!Digit

\* A slip leaves the label with one slip, since none follows another, and a reading answers to the text.
LEMMA CodesStep == Code!IndInv /\ [Code!Next]_slots => Code!IndInv'
<1> SUFFICES ASSUME Code!IndInv, [Code!Next]_slots PROVE Code!IndInv'
  OBVIOUS
<1> DEFINE printed == Code!Printed(s1.device, s1.form).body
<1>0. s1.form # "payload" /\ s3 = "none" => s2.body = printed
  BY DEF Code!IndInv
<1>00. s1.form # "payload" => printed \in Seq(0..9)
  <2>1. s1.device \in Labels /\ s1.form \in {"payload", "long", "short"}
    BY DEF Code!IndInv
  <2>2. s1.form # "payload" => s1.form \in {"long", "short"}
    BY <2>1
  <2> QED BY <2>1, <2>2, PrintedDigits
<1>1. CASE Code!Mistype
  <2>1. PICK i \in DOMAIN s2.body : \E c \in IF s1.form = "payload" THEN Code!Characters ELSE Code!Digit :
           Code!Slips("mistyped", [s2.body EXCEPT ![i] = c])
    BY <1>1 DEF Code!Mistype
  <2>2. PICK c \in IF s1.form = "payload" THEN Code!Characters ELSE Code!Digit :
           Code!Slips("mistyped", [s2.body EXCEPT ![i] = c])
    BY <2>1
  <2>3. s3 = "none" /\ [s2.body EXCEPT ![i] = c] # s2.body
    BY <2>2 DEF Code!Slips
  <2>4. s1.form # "payload" =>
          c \in 0..9 /\ i \in DOMAIN printed /\ c # printed[i] /\ [s2.body EXCEPT ![i] = c] = [printed EXCEPT ![i] = c]
    <3> SUFFICES ASSUME s1.form # "payload"
                 PROVE  c \in 0..9 /\ i \in DOMAIN printed /\ c # printed[i]
                        /\ [s2.body EXCEPT ![i] = c] = [printed EXCEPT ![i] = c]
      OBVIOUS
    <3>1. s2.body = printed /\ printed \in Seq(0..9)
      BY <1>0, <1>00, <2>3
    <3> HIDE DEF printed
    <3>2. c \in 0..9 /\ i \in DOMAIN printed
      BY <3>1 DEF Code!Digit
    <3>3. [printed EXCEPT ![i] = printed[i]] = printed
      BY <3>1, <3>2
    <3> QED BY <2>3, <3>1, <3>2, <3>3
  <2> HIDE DEF printed
  <2> QED BY <2>2, <2>4, SlipSteps DEF printed
<1>2. CASE Code!Swap
  <2>1. PICK i \in 1 .. Len(s2.body) - 1 :
           Code!Slips("swapped", [s2.body EXCEPT ![i] = s2.body[i + 1], ![i + 1] = s2.body[i]])
    BY <1>2 DEF Code!Swap
  <2> DEFINE t == [s2.body EXCEPT ![i] = s2.body[i + 1], ![i + 1] = s2.body[i]]
  <2>2. s3 = "none" /\ t # s2.body
    BY <2>1 DEF Code!Slips
  <2>3. s1.form # "payload" =>
          /\ i \in 1 .. Len(printed) - 1 /\ printed[i] # printed[i + 1]
          /\ t = [printed EXCEPT ![i] = printed[i + 1], ![i + 1] = printed[i]]
    <3> SUFFICES ASSUME s1.form # "payload"
                 PROVE  /\ i \in 1 .. Len(printed) - 1 /\ printed[i] # printed[i + 1]
                        /\ t = [printed EXCEPT ![i] = printed[i + 1], ![i + 1] = printed[i]]
      OBVIOUS
    <3>1. s2.body = printed /\ printed \in Seq(0..9)
      BY <1>0, <1>00, <2>2
    <3> HIDE DEF printed
    <3>2. i \in 1 .. Len(printed) - 1 /\ t = [printed EXCEPT ![i] = printed[i + 1], ![i + 1] = printed[i]]
      BY <3>1
    <3>3. printed[i] = printed[i + 1] => [printed EXCEPT ![i] = printed[i + 1], ![i + 1] = printed[i]] = printed
      BY <3>1, <3>2
    <3> QED BY <2>2, <3>1, <3>2, <3>3
  <2> HIDE DEF printed, t
  <2> QED BY <2>1, <2>3, SlipSteps DEF printed, t
<1>3. CASE Code!Drop
  <2>1. PICK i \in DOMAIN s2.body : Code!Slips("dropped", Code!RemoveAt(s2.body, i))
    BY <1>3 DEF Code!Drop
  <2>2. s3 = "none"
    BY <2>1 DEF Code!Slips
  <2>3. s1.form # "payload" =>
          i \in DOMAIN printed /\ Code!RemoveAt(s2.body, i) = Code!RemoveAt(printed, i)
    BY <1>0, <2>2
  <2> HIDE DEF printed
  <2> QED BY <2>1, <2>3, SlipSteps DEF printed
<1>4. CASE Code!Spell
  <2>1. PICK body : Code!Slips("spelled", body)
    BY <1>4, Zenon DEF Code!Spell
  <2> QED BY <2>1, SlipSteps
<1>5. CASE Code!Lower
  <2>1. /\ s2' = [s2 EXCEPT !.scheme = "mt:"] /\ s1' = s1 /\ s4' = s4 /\ s4 = Code!Unanswered
        /\ s3' = "lower"
    BY <1>5, Zenon DEF Code!Lower
  <2>2. Code!HasScheme(s2)
    BY <1>5, Zenon DEF Code!Lower, Code!HasScheme
  <2>3. s1.form = "payload" /\ DOMAIN s2 = {"scheme", "body"} /\ s1.device \in Labels
    BY <2>2, Zenon DEF Code!IndInv
  <2>4. DOMAIN s2' = {"scheme", "body"}
    BY <2>1, <2>3
  <2> QED BY <2>1, <2>3, <2>4 DEF Code!IndInv
<1>6. CASE Code!Read
  <2>1. s4' = Code!ReadCredential(s2) /\ s1' = s1 /\ s2' = s2 /\ s3' = s3
    BY <1>6 DEF Code!Read
  <2> QED BY <2>1 DEF Code!IndInv
<1>7. CASE UNCHANGED slots
  BY <1>7 DEF slots, Code!IndInv
<1> QED BY <1>1, <1>2, <1>3, <1>4, <1>5, <1>6, <1>7 DEF Code!Next

\* The label's digits with one slip are refused.
LEMMA SlipIsRefused ==
  ASSUME Code!IndInv, s1.form # "payload", s3 \in {"mistyped", "swapped", "dropped"}
  PROVE  Code!ReadCredential(s2) = Code!Refused
<1> DEFINE printed == Code!Printed(s1.device, s1.form).body
           body == s2.body
<1>1. s1.device \in Labels /\ s1.form \in {"long", "short"} /\ "body" \in DOMAIN s2 /\ ~Code!HasScheme(s2)
  BY DEF Code!IndInv
<1>2. printed \in Seq(0..9) /\ Len(printed) \in {11, 21} /\ Code!Accumulate(printed) = 0
  BY <1>1, PrintedDigits
<1>3. /\ s3 = "mistyped" => \E i \in DOMAIN printed, c \in 0..9 :
            c # printed[i] /\ body = [printed EXCEPT ![i] = c]
      /\ s3 = "swapped" => \E i \in 1 .. Len(printed) - 1 :
            /\ printed[i] # printed[i + 1]
            /\ body = [printed EXCEPT ![i] = printed[i + 1], ![i + 1] = printed[i]]
      /\ s3 = "dropped" => \E i \in DOMAIN printed : body = Code!RemoveAt(printed, i)
  BY DEF Code!IndInv, Code!Digit
<1> HIDE DEF printed, body
<1>4. body \in Seq(0..9) /\ ~Code!ManualReads(body)
  <2>1. CASE s3 = "mistyped"
    <3>1. PICK i \in DOMAIN printed, c \in 0..9 : c # printed[i] /\ body = [printed EXCEPT ![i] = c]
      BY <1>3, <2>1
    <3>2. body \in Seq(0..9) /\ Len(body) = Len(printed)
      BY <1>2, <3>1
    <3>3. i \in 1..Len(printed) /\ body[i] = c /\ \A j \in 1..Len(printed) : j # i => printed[j] = body[j]
      BY <1>2, <3>1
    <3>4. Code!Accumulate(printed) # Code!Accumulate(body)
      <4>1. Len(printed) = Len(body) /\ printed[i] # body[i]
        BY <3>1, <3>2, <3>3, Zenon
      <4> QED BY <1>2, <3>2, <3>3, <4>1, MistypedTells, Zenon
    <3> QED BY <1>2, <3>2, <3>4 DEF Code!ManualReads, Code!IsVerhoeffValid
  <2>2. CASE s3 = "swapped"
    <3>1. PICK i \in 1 .. Len(printed) - 1 :
            /\ printed[i] # printed[i + 1]
            /\ body = [printed EXCEPT ![i] = printed[i + 1], ![i + 1] = printed[i]]
      BY <1>3, <2>2
    <3>2. body \in Seq(0..9) /\ Len(body) = Len(printed)
      BY <1>2, <3>1
    <3>3. /\ i \in 1..(Len(printed) - 1) /\ body[i] = printed[i + 1] /\ body[i + 1] = printed[i]
          /\ \A j \in 1..Len(printed) : j # i /\ j # i + 1 => printed[j] = body[j]
      BY <1>2, <3>1
    <3>4. Code!Accumulate(printed) # Code!Accumulate(body)
      <4> DEFINE n == Len(printed)
      <4>1. n = Len(body) /\ i \in 1..(n - 1) /\ printed[i] # printed[i + 1]
        BY <3>1, <3>2
      <4> QED BY <1>2, <3>2, <3>3, <4>1, SwappedTells, Zenon
    <3> QED BY <1>2, <3>2, <3>4 DEF Code!ManualReads, Code!IsVerhoeffValid
  <2>3. CASE s3 = "dropped"
    <3>1. PICK i \in DOMAIN printed : body = Code!RemoveAt(printed, i)
      BY <1>3, <2>3
    <3>2. i \in 1..Len(printed) /\ Len(printed) \in Nat
      BY <1>2, <3>1
    <3> DEFINE a == SubSeq(printed, 1, i - 1)  b == SubSeq(printed, i + 1, Len(printed))
    <3>3. a \in Seq(0..9) /\ b \in Seq(0..9) /\ Len(a) = i - 1 /\ Len(b) = Len(printed) - i
      <4>1. \A j \in 1..Len(printed) : printed[j] \in 0..9
        BY <1>2, ElementOfSeq, Zenon
      <4>2. a \in Seq(0..9) /\ Len(a) = i - 1
        <5>1. 1 \in Int /\ i - 1 \in Int /\ \A j \in 1..(i - 1) : printed[j] \in 0..9
          BY <3>2, <4>1
        <5>2. /\ a \in Seq(0..9)
              /\ Len(a) = IF 1 <= i - 1 THEN (i - 1) - 1 + 1 ELSE 0
          BY <5>1, SubSeqProperties
        <5> HIDE DEF a
        <5> QED BY <3>2, <5>2
      <4>3. b \in Seq(0..9) /\ Len(b) = Len(printed) - i
        <5>1. /\ i + 1 \in Int /\ Len(printed) \in Int
              /\ \A j \in (i + 1)..Len(printed) : printed[j] \in 0..9
          BY <3>2, <4>1
        <5>2. /\ b \in Seq(0..9)
              /\ Len(b) = IF i + 1 <= Len(printed) THEN Len(printed) - (i + 1) + 1 ELSE 0
          BY <5>1, SubSeqProperties
        <5> HIDE DEF b
        <5> QED BY <3>2, <5>2
      <4> QED BY <4>2, <4>3
    <3>4. body = a \o b
      BY <3>1 DEF Code!RemoveAt
    <3> HIDE DEF a, b
    <3>5. body \in Seq(0..9) /\ Len(body) = Len(a) + Len(b)
      BY <3>3, <3>4, Joined
    <3>6. Len(body) = Len(printed) - 1
      BY <3>2, <3>3, <3>5
    <3>7. Len(body) \notin {11, 21}
      <4>1. \A n \in {11, 21} : \A m : m = n - 1 => m \notin {11, 21}
        OBVIOUS
      <4> QED BY <1>2, <3>6, <4>1
    <3> QED BY <3>5, <3>7 DEF Code!ManualReads, Code!SHORT_LENGTH, Code!LONG_LENGTH
  <2> QED BY <2>1, <2>2, <2>3
<1> QED BY <1>1, <1>4, DigitsRefused DEF body

\* So a slip in the digits is refused.
LEMMA CodesSafe == Code!IndInv => Code!SlipsAreNoticed
<1> SUFFICES ASSUME Code!IndInv, s4 # Code!Unanswered, s1.form # "payload",
                    s3 \in {"mistyped", "swapped", "dropped"}
             PROVE  s4 = Code!Refused
  BY DEF Code!SlipsAreNoticed
<1>1. s4 \in {Code!Unanswered, Code!ReadCredential(s2)}
  BY DEF Code!IndInv
<1> QED BY <1>1, SlipIsRefused, Zenon

\* The text that reaches the form is what the label says, or one slip away from it.
THEOREM CodesInvariance == AlgorithmsSpec => [](part = "codes" => Code!IndInv)
<1>1. AlgorithmsInit => (part = "codes" => Code!IndInv)
  BY CodesStart DEF AlgorithmsInit
<1>2. (part = "codes" => Code!IndInv) /\ [AlgorithmsNext]_<<vars, part, slots>>
      => (part = "codes" => Code!IndInv)'
  <2> SUFFICES ASSUME part = "codes" => Code!IndInv,
                      [AlgorithmsNext]_<<vars, part, slots>>, part' = "codes"
               PROVE  Code!IndInv'
    OBVIOUS
  <2>1. part = "codes" /\ [Code!Next]_slots
    BY Zenon DEF AlgorithmsNext
  <2> QED BY <2>1, CodesStep
<1> QED BY <1>1, <1>2, PTL DEF AlgorithmsSpec

\* One digit wrong, two exchanged or one left out, and the digits of a label are refused, whatever
\* the devices are (isVerhoeffValid, parseManualCode).
THEOREM SlipsNoticed == AlgorithmsSpec => []SlipsAreNoticed
<1>1. (part = "codes" => Code!IndInv) => SlipsAreNoticed
  BY CodesSafe DEF SlipsAreNoticed
<1> QED BY <1>1, CodesInvariance, PTL

-----------------------------------------------------------------------------
(* Project rows: a project counts once (projects-model.ts, project-actions.ts). *)

\* What the server says of a project, as far as the counting asks: that it is there, the
\* caller's own, and not archived.
Knows(in, id)  == \E c \in Rowed!Heard(in) : c.id = id
Gives(in, id)  == \E c \in Rowed!Heard(in) : c.id = id /\ c.role \in {None, "owner"}
Serves(in, id) == \E c \in Rowed!Heard(in) : c.id = id /\ ~c.archived

\* Whether the row of a database counts.
CountsHere(e, in) ==
    \/ e.id = None
    \/ e.id # None /\ e.db \in LocalOnly /\ (Knows(in, e.id) => Gives(in, e.id))
    \/ /\ e.id # None /\ e.db \notin LocalOnly
       /\ Knows(in, e.id) => Gives(in, e.id) /\ Serves(in, e.id)
       /\ ~Knows(in, e.id) => ~Rowed!IsFresh(in) /\ e.role \in {None, "owner"}

\* The names of the rows that count.
CountedRows(in) == {row \in Rowed!Rows(in) : Rowed!Owns(row) /\ row.kind \in Rowed!Counted}
CountedDbs(in)  == {row.db : row \in CountedRows(in)}

\* A database and a project match if they have one id.
LEMMA MatchesById ==
  ASSUME NEW in, Rowed!WellFormed(in), NEW e \in in.local, NEW c \in Rowed!Heard(in)
  PROVE  Rowed!Matches(e, c) <=> c.id = e.id
BY DEF Rowed!Matches, Rowed!WellFormed

\* The row of a database, and when it counts.
LEMMA RowHere ==
  ASSUME NEW in, Rowed!WellFormed(in), NEW e \in in.local, NEW r, r = Rowed!LocalRow(e, in)
  PROVE  /\ r.db = e.db /\ r.id = e.id
         /\ Rowed!Owns(r) /\ r.kind \in Rowed!Counted <=> CountsHere(e, in)
<1> DEFINE listed == {c \in Rowed!Heard(in) : Rowed!Matches(e, c)}
           kind == Rowed!KindOf(e, listed, Rowed!IsFresh(in))
           role == IF listed # {} THEN (CHOOSE c \in listed : TRUE).role
                   ELSE IF ~Rowed!IsCopy(e) THEN None
                   ELSE IF e.role = None THEN "owner" ELSE e.role
<1>1. r.db = e.db /\ r.id = e.id /\ r.kind = kind /\ r.role = role
  BY DEF Rowed!LocalRow
<1>2. listed = {c \in Rowed!Heard(in) : c.id = e.id}
  BY MatchesById
<1> HIDE DEF listed
<1>3. \A c, d \in listed : c = d
  BY <1>2 DEF Rowed!WellFormed
<1>4. e.id = None => listed = {}
  BY <1>2 DEF Rowed!WellFormed
<1>5. listed # {} <=> Knows(in, e.id)
  BY <1>2 DEF Knows
<1>6. listed # {} => (role \in {None, "owner"} <=> Gives(in, e.id))
  BY <1>2, <1>3 DEF Gives
<1>7. listed # {} => ((\E c \in listed : c.archived) <=> ~Serves(in, e.id))
  BY <1>2, <1>3 DEF Serves
<1>8. CASE e.id = None
  <2>1. kind = "local-only" /\ role = None
    BY <1>4, <1>8 DEF Rowed!KindOf, Rowed!IsCopy
  <2> QED BY <1>1, <1>8, <2>1 DEF Rowed!Owns, Rowed!Counted, CountsHere
<1>9. CASE e.id # None /\ e.db \in LocalOnly
  <2>1. kind = "promoting"
    BY <1>9 DEF Rowed!KindOf
  <2>2. listed = {} => role = None
    BY <1>9 DEF Rowed!IsCopy
  <2> HIDE DEF role, kind
  <2> QED BY <1>1, <1>5, <1>6, <1>9, <2>1, <2>2 DEF Rowed!Owns, Rowed!Counted, CountsHere
<1>10. CASE e.id # None /\ e.db \notin LocalOnly
  <2>1. listed # {} => kind = IF \E c \in listed : c.archived THEN "remnant" ELSE "synced"
    BY <1>10 DEF Rowed!KindOf
  <2>2. listed = {} => kind = IF Rowed!IsFresh(in) THEN "orphan" ELSE "synced"
    BY <1>10 DEF Rowed!KindOf
  <2>3. listed = {} => (role \in {None, "owner"} <=> e.role \in {None, "owner"})
    BY <1>10 DEF Rowed!IsCopy
  <2> HIDE DEF role, kind
  <2> QED BY <1>1, <1>5, <1>6, <1>7, <1>10, <2>1, <2>2, <2>3
          DEF Rowed!Owns, Rowed!Counted, CountsHere
<1> QED BY <1>1, <1>8, <1>9, <1>10

\* The row of a project that only the server has.
LEMMA RowThere ==
  ASSUME NEW in, NEW c, NEW r, r = Rowed!ServerRow(c, in)
  PROVE  /\ r.db = c.id /\ r.id = c.id
         /\ Rowed!Owns(r) /\ r.kind \in Rowed!Counted <=> c.role \in {None, "owner"} /\ ~c.archived
<1>1. /\ r.db = c.id /\ r.id = c.id /\ r.role = c.role
      /\ r.kind = IF c.archived THEN "grace-archived" ELSE "server"
  BY DEF Rowed!ServerRow
<1> QED BY <1>1 DEF Rowed!Owns, Rowed!Counted

\* A row is of a database, or of a project that no database matches.
LEMMA RowOf ==
  ASSUME NEW in, Rowed!WellFormed(in)
  PROVE  /\ \A r \in Rowed!Rows(in) :
               \/ \E e \in Rowed!Finished(in.local) : e \in in.local /\ r = Rowed!LocalRow(e, in)
               \/ \E c \in Rowed!Heard(in) :
                     /\ r = Rowed!ServerRow(c, in) /\ ~\E e \in Rowed!Finished(in.local) : e.id = c.id
                     /\ ~c.archived \/ (c.grace /\ c.role = "owner")
         /\ \A e \in Rowed!Finished(in.local) : e \in in.local /\ Rowed!LocalRow(e, in) \in Rowed!Rows(in)
         /\ \A c \in Rowed!Heard(in) :
               ~c.archived /\ (~\E e \in Rowed!Finished(in.local) : e.id = c.id)
                  => Rowed!ServerRow(c, in) \in Rowed!Rows(in)
<1> DEFINE local == Rowed!Finished(in.local)  heard == Rowed!Heard(in)
           Here(e) == Rowed!LocalRow(e, in)  There(c) == Rowed!ServerRow(c, in)
           Alone(c) == ~\E e \in local : Rowed!Matches(e, c)
<1>1. Rowed!Rows(in) = {Here(e) : e \in local} \cup
         {There(c) : c \in {c \in heard : Alone(c) /\ (~c.archived \/ (c.grace /\ c.role = "owner"))}}
  BY DEF Rowed!Rows
<1>2. \A e \in local : e \in in.local
  BY DEF Rowed!Finished
<1>3. \A c \in heard : Alone(c) <=> ~\E e \in local : e.id = c.id
  BY <1>2, MatchesById
<1> HIDE DEF local, heard, Here, There, Alone
<1>4. \A r \in Rowed!Rows(in) :
         \/ \E e \in local : e \in in.local /\ r = Here(e)
         \/ \E c \in heard : /\ r = There(c) /\ ~\E e \in local : e.id = c.id
                             /\ ~c.archived \/ (c.grace /\ c.role = "owner")
  BY <1>1, <1>2, <1>3
<1>5. \A e \in local : e \in in.local /\ Here(e) \in Rowed!Rows(in)
  BY <1>1, <1>2
<1>6. \A c \in heard : ~c.archived /\ (~\E e \in local : e.id = c.id) => There(c) \in Rowed!Rows(in)
  BY <1>1, <1>3
<1> QED BY <1>4, <1>5, <1>6 DEF local, heard, Here, There

\* What counts, said of names alone.
LEMMA CountedIs ==
  ASSUME NEW in, Rowed!WellFormed(in), NEW x
  PROVE  x \in CountedDbs(in) <=>
            \/ \E e \in Rowed!Finished(in.local) : e.db = x /\ CountsHere(e, in)
            \/ /\ Gives(in, x) /\ Serves(in, x)
               /\ ~\E e \in Rowed!Finished(in.local) : e.id = x
<1>1. ASSUME x \in CountedDbs(in)
      PROVE  \/ \E e \in Rowed!Finished(in.local) : e.db = x /\ CountsHere(e, in)
             \/ /\ Gives(in, x) /\ Serves(in, x)
                /\ ~\E e \in Rowed!Finished(in.local) : e.id = x
  <2>1. PICK r \in Rowed!Rows(in) : r.db = x /\ Rowed!Owns(r) /\ r.kind \in Rowed!Counted
    BY <1>1 DEF CountedDbs, CountedRows
  <2>2. CASE \E e \in Rowed!Finished(in.local) : e \in in.local /\ r = Rowed!LocalRow(e, in)
    BY <2>1, <2>2, RowHere
  <2>3. CASE \E c \in Rowed!Heard(in) :
                     /\ r = Rowed!ServerRow(c, in) /\ ~\E e \in Rowed!Finished(in.local) : e.id = c.id
                     /\ ~c.archived \/ (c.grace /\ c.role = "owner")
    <3>1. PICK c \in Rowed!Heard(in) :
                /\ r = Rowed!ServerRow(c, in) /\ ~\E e \in Rowed!Finished(in.local) : e.id = c.id
      BY <2>3
    <3>2. c.id = x /\ c.role \in {None, "owner"} /\ ~c.archived
      BY <2>1, <3>1, RowThere
    <3> QED BY <3>1, <3>2 DEF Gives, Serves
  <2> QED BY <2>1, <2>2, <2>3, RowOf
<1>2. ASSUME NEW e \in Rowed!Finished(in.local), e.db = x, CountsHere(e, in)
      PROVE  x \in CountedDbs(in)
  <2>1. e \in in.local /\ Rowed!LocalRow(e, in) \in Rowed!Rows(in)
    BY RowOf
  <2> DEFINE r == Rowed!LocalRow(e, in)
  <2>2. r.db = x /\ Rowed!Owns(r) /\ r.kind \in Rowed!Counted
    BY <1>2, <2>1, RowHere
  <2> HIDE DEF r
  <2>3. r \in Rowed!Rows(in)
    BY <2>1 DEF r
  <2> QED BY <2>2, <2>3 DEF CountedDbs, CountedRows
<1>3. ASSUME Gives(in, x), Serves(in, x), ~\E e \in Rowed!Finished(in.local) : e.id = x
      PROVE  x \in CountedDbs(in)
  <2>1. PICK c \in Rowed!Heard(in) : c.id = x /\ c.role \in {None, "owner"}
    BY <1>3 DEF Gives
  <2>2. ~c.archived
    BY <1>3, <2>1 DEF Serves, Rowed!WellFormed
  <2> DEFINE r == Rowed!ServerRow(c, in)
  <2>3. r.db = x /\ Rowed!Owns(r) /\ r.kind \in Rowed!Counted
    BY <2>1, <2>2, RowThere
  <2>4. r \in Rowed!Rows(in)
    BY <1>3, <2>1, <2>2, RowOf
  <2> HIDE DEF r
  <2> QED BY <2>3, <2>4 DEF CountedDbs, CountedRows
<1> QED BY <1>1, <1>2, <1>3

\* A project is one row.
LEMMA RowsDiffer ==
  ASSUME NEW in, Rowed!WellFormed(in), NEW r \in Rowed!Rows(in), NEW s \in Rowed!Rows(in), r # s
  PROVE  r.db # s.db /\ (r.id = None \/ r.id # s.id)
<1> DEFINE local == Rowed!Finished(in.local)  heard == Rowed!Heard(in)
<1>0. /\ \A e \in local : e \in in.local /\ e.id \notin LocalOnly
                          /\ (e.db \in LocalOnly \/ (e.id = e.db /\ e.id # None))
      /\ \A c \in heard : c.id \notin LocalOnly /\ c.id # None
      /\ \A c, d \in heard : c.id = d.id => c = d
      /\ \A e, f \in local : e.db = f.db => e = f
  BY DEF Rowed!Finished, Rowed!WellFormed
<1>1. \A e, f \in local : e.id = f.id /\ e.id # None => e = f
  <2> SUFFICES ASSUME NEW e \in local, NEW f \in local, e.id = f.id, e.id # None PROVE e = f
    OBVIOUS
  <2>1. (e.db \in LocalOnly <=> f.db \in LocalOnly) => e = f
    BY DEF Rowed!Finished, Rowed!WellFormed
  <2>2. ~(e.db \in LocalOnly /\ f.db \notin LocalOnly) /\ ~(f.db \in LocalOnly /\ e.db \notin LocalOnly)
    BY DEF Rowed!Finished, Rowed!IsCopy
  <2> QED BY <2>1, <2>2
<1>2. \A q \in Rowed!Rows(in) :
         \/ \E e \in local : q = Rowed!LocalRow(e, in) /\ q.db = e.db /\ q.id = e.id
         \/ \E c \in heard : /\ q = Rowed!ServerRow(c, in) /\ q.db = c.id /\ q.id = c.id
                             /\ ~\E e \in local : e.id = c.id
  BY RowOf, RowHere, RowThere
<1> HIDE DEF local, heard
<1>3. CASE \E e \in local : r = Rowed!LocalRow(e, in) /\ r.db = e.db /\ r.id = e.id
  BY <1>0, <1>1, <1>2, <1>3
<1>4. CASE \E c \in heard : /\ r = Rowed!ServerRow(c, in) /\ r.db = c.id /\ r.id = c.id
                            /\ ~\E e \in local : e.id = c.id
  BY <1>0, <1>1, <1>2, <1>4
<1> QED BY <1>2, <1>3, <1>4

\* The instance counts as anyone does.
LEMMA CardinalityOf ==
  ASSUME NEW S
  PROVE  (Rowed!IsFiniteSet(S) <=> IsFiniteSet(S)) /\ Rowed!Cardinality(S) = Cardinality(S)
BY Zenon DEF Rowed!IsFiniteSet, IsFiniteSet, Rowed!Cardinality, Cardinality

\* What was said of lists as well formed, one fact a line.
LEMMA FormedSays ==
  ASSUME NEW in, Rowed!WellFormed(in)
  PROVE  /\ DOMAIN in = {"local", "server", "stale", "session", "online", "syncs", "limit"}
         /\ in.limit \in Int /\ IsFiniteSet(in.local) /\ IsFiniteSet(Rowed!Heard(in))
         /\ \A e \in in.local :
               /\ DOMAIN e = {"db", "id", "role"} /\ e.id \notin LocalOnly
               /\ e.db \in LocalOnly \/ (e.id = e.db /\ e.id # None)
         /\ \A e, f \in in.local : e.db = f.db => e = f
         /\ \A e, f \in in.local :
               e.id = f.id /\ e.id # None /\ (e.db \in LocalOnly <=> f.db \in LocalOnly) => e = f
         /\ \A c \in Rowed!Heard(in) :
               /\ DOMAIN c = {"id", "role", "archived", "readOnly", "grace"}
               /\ c.id \notin LocalOnly \cup {None}
         /\ \A c, d \in Rowed!Heard(in) : c.id = d.id => c = d
BY CardinalityOf, Zenon DEF Rowed!WellFormed

\* And the other way.
LEMMA FormedIs ==
  ASSUME NEW in,
         DOMAIN in = {"local", "server", "stale", "session", "online", "syncs", "limit"},
         in.limit \in Int, IsFiniteSet(in.local), IsFiniteSet(Rowed!Heard(in)),
         \A e \in in.local :
               /\ DOMAIN e = {"db", "id", "role"} /\ e.id \notin LocalOnly
               /\ e.db \in LocalOnly \/ (e.id = e.db /\ e.id # None),
         \A e, f \in in.local : e.db = f.db => e = f,
         \A e, f \in in.local :
               e.id = f.id /\ e.id # None /\ (e.db \in LocalOnly <=> f.db \in LocalOnly) => e = f,
         \A c \in Rowed!Heard(in) :
               /\ DOMAIN c = {"id", "role", "archived", "readOnly", "grace"}
               /\ c.id \notin LocalOnly \cup {None},
         \A c, d \in Rowed!Heard(in) : c.id = d.id => c = d
  PROVE  Rowed!WellFormed(in)
BY CardinalityOf, Zenon DEF Rowed!WellFormed

\* What makes a list show a database.
Hidden(g, l) == g.id # None /\ g.db \in LocalOnly /\ \E d \in l : Rowed!IsCopy(d) /\ d.id = g.id

\* A list shows all but what is hidden.
LEMMA ShownUnlessHidden ==
  ASSUME NEW l, NEW g PROVE g \in Rowed!Finished(l) <=> g \in l /\ ~Hidden(g, l)
BY DEF Rowed!Finished, Hidden

\* What a function takes to from a finite set is finite.
LEMMA ImageFinite ==
  ASSUME NEW S, IsFiniteSet(S), NEW f, NEW T, \A t \in T : \E s \in S : f[s] = t
  PROVE  IsFiniteSet(T)
<1> DEFINE U == {f[s] : s \in S}  g == [s \in S |-> f[s]]
<1>1. g \in Surjection(S, U)
  BY Fun_IsSurj
<1>2. IsFiniteSet(U)
  BY <1>1, FS_Surjection
<1>3. T \in SUBSET U
  OBVIOUS
<1> QED BY <1>2, <1>3, FS_Subset

\* As many count as names do.
LEMMA CountIs ==
  ASSUME NEW in, Rowed!WellFormed(in)
  PROVE  /\ IsFiniteSet(CountedDbs(in)) /\ Cardinality(CountedDbs(in)) \in Nat
         /\ Rowed!OwnedCount(in) = Cardinality(CountedDbs(in))
<1> DEFINE R == CountedRows(in)  D == CountedDbs(in)
           local == Rowed!Finished(in.local)  heard == Rowed!Heard(in)
           lf == [e \in local |-> Rowed!LocalRow(e, in)]
           sf == [c \in heard |-> Rowed!ServerRow(c, in)]
           A == {r \in R : \E e \in local : lf[e] = r}
           B == {r \in R : \E c \in heard : sf[c] = r}
<1>1. IsFiniteSet(local) /\ IsFiniteSet(heard)
  <2>1. local \in SUBSET in.local /\ IsFiniteSet(in.local) /\ IsFiniteSet(heard)
    BY CardinalityOf DEF Rowed!Finished, Rowed!WellFormed
  <2> HIDE DEF local, heard
  <2> QED BY <2>1, FS_Subset
<1>2. R \subseteq A \cup B
  <2> SUFFICES ASSUME NEW r \in R PROVE r \in A \cup B
    OBVIOUS
  <2>1. r \in Rowed!Rows(in)
    BY DEF CountedRows
  <2>2. (\E e \in local : r = Rowed!LocalRow(e, in)) \/ (\E c \in heard : r = Rowed!ServerRow(c, in))
    BY <2>1, RowOf
  <2> HIDE DEF local, heard
  <2> QED BY <2>2
<1>3. IsFiniteSet(A) /\ IsFiniteSet(B)
  <2>1. \A r \in A : \E e \in local : lf[e] = r
    OBVIOUS
  <2>2. \A r \in B : \E c \in heard : sf[c] = r
    OBVIOUS
  <2> HIDE DEF A, B, lf, sf, local, heard
  <2> QED BY <1>1, <2>1, <2>2, ImageFinite
<1>4. IsFiniteSet(R)
  <2> HIDE DEF A, B, R
  <2>1. IsFiniteSet(A \cup B)
    BY <1>3, FS_Union
  <2> QED BY <1>2, <2>1, FS_Subset
<1> DEFINE f == [r \in R |-> r.db]
<1>5. f \in Bijection(R, D)
  <2>1. \A r, s \in R : r # s => r.db # s.db
    BY RowsDiffer DEF CountedRows
  <2>2. D = {r.db : r \in R}
    BY DEF CountedDbs
  <2> HIDE DEF R, D
  <2>3. f \in [R -> D] /\ (\A r, s \in R : f[r] = f[s] => r = s) /\ \A d \in D : \E r \in R : f[r] = d
    BY <2>1, <2>2
  <2> HIDE DEF f
  <2> QED BY <2>3, Fun_IsBij
<1>6. ExistsBijection(R, D)
  <2> HIDE DEF R, D, f
  <2> QED BY <1>5, Fun_ExistsBij
<1>7. IsFiniteSet(D) /\ Cardinality(D) = Cardinality(R)
  <2> HIDE DEF R, D
  <2> QED BY <1>4, <1>6, FS_Bijection
<1>8. Rowed!OwnedCount(in) = Cardinality(R)
  BY CardinalityOf, Zenon DEF Rowed!OwnedCount, CountedRows
<1>9. Cardinality(D) \in Nat
  <2> HIDE DEF R, D
  <2> QED BY <1>7, FS_CardinalityType
<1> QED BY <1>7, <1>8, <1>9

\* One name for another, and there are no more.
LEMMA NoMore ==
  ASSUME NEW S, NEW T, IsFiniteSet(S), IsFiniteSet(T), NEW a, NEW b,
         T \subseteq (S \ {a}) \cup {b}, b \in T => a \in S
  PROVE  Cardinality(T) <= Cardinality(S)
<1>1. /\ Cardinality(S) \in Nat /\ Cardinality(T) \in Nat
      /\ IsFiniteSet(S \ {a})
      /\ Cardinality(S \ {a}) = IF a \in S THEN Cardinality(S) - 1 ELSE Cardinality(S)
  BY FS_CardinalityType, FS_RemoveElement
<1>2. CASE b \in T
  <2> DEFINE U == S \ {a}
  <2>1. IsFiniteSet(U) /\ Cardinality(U) = Cardinality(S) - 1 /\ T \subseteq U \cup {b}
    BY <1>1, <1>2
  <2> HIDE DEF U
  <2>2. IsFiniteSet(U \cup {b}) /\ Cardinality(U \cup {b}) = IF b \in U THEN Cardinality(U) ELSE Cardinality(U) + 1
    BY <2>1, FS_AddElement
  <2>3. Cardinality(U \cup {b}) <= Cardinality(S)
    BY <1>1, <2>1, <2>2
  <2>4. Cardinality(T) <= Cardinality(U \cup {b}) /\ Cardinality(U \cup {b}) \in Nat
    BY <2>1, <2>2, FS_Subset, FS_CardinalityType
  <2> QED BY <1>1, <2>3, <2>4
<1>3. CASE b \notin T
  <2>1. T \in SUBSET S
    BY <1>3
  <2> QED BY <2>1, FS_Subset
<1> QED BY <1>2, <1>3

\* One name more at most.
LEMMA OneMore ==
  ASSUME NEW S, NEW T, IsFiniteSet(S), IsFiniteSet(T), NEW b, T \subseteq S \cup {b}
  PROVE  Cardinality(T) <= Cardinality(S) + 1
<1>1. Cardinality(S) \in Nat /\ Cardinality(T) \in Nat
  BY FS_CardinalityType
<1>2. IsFiniteSet(S \cup {b}) /\ Cardinality(S \cup {b}) = IF b \in S THEN Cardinality(S) ELSE Cardinality(S) + 1
  BY FS_AddElement
<1>3. Cardinality(T) <= Cardinality(S \cup {b}) /\ Cardinality(S \cup {b}) \in Nat
  BY <1>2, FS_Subset, FS_CardinalityType
<1> QED BY <1>1, <1>2, <1>3

\* What the kind of a row says of what it is the row of.
LEMMA KindSays ==
  ASSUME NEW in, Rowed!WellFormed(in), NEW r \in Rowed!Rows(in)
  PROVE  /\ r.kind \in {"local-only", "promoting", "synced", "remnant", "orphan"} =>
               \E e \in Rowed!Finished(in.local) :
                  /\ e \in in.local /\ r.db = e.db /\ r.id = e.id
                  /\ r.kind = "local-only" => e.id = None
                  /\ r.kind = "promoting" => e.id # None
                  /\ r.kind \in {"local-only", "promoting"} => e.db \in LocalOnly
                  /\ r.kind = "remnant" => Knows(in, e.id)
                  /\ r.kind = "synced" /\ Rowed!IsFresh(in) => Knows(in, e.id)
         /\ r.kind = "server" =>
               \E c \in Rowed!Heard(in) :
                  /\ r.db = c.id /\ r.id = c.id /\ ~c.archived
                  /\ ~\E e \in Rowed!Finished(in.local) : e.id = c.id
<1>1. CASE \E e \in Rowed!Finished(in.local) : e \in in.local /\ r = Rowed!LocalRow(e, in)
  <2>1. PICK e \in Rowed!Finished(in.local) : e \in in.local /\ r = Rowed!LocalRow(e, in)
    BY <1>1
  <2> DEFINE listed == {c \in Rowed!Heard(in) : Rowed!Matches(e, c)}
  <2>2. r.kind = Rowed!KindOf(e, listed, Rowed!IsFresh(in)) /\ r.db = e.db /\ r.id = e.id
    BY <2>1 DEF Rowed!LocalRow
  <2>3. listed = {c \in Rowed!Heard(in) : c.id = e.id}
    BY <2>1, MatchesById
  <2> HIDE DEF listed
  <2>4. listed # {} <=> Knows(in, e.id)
    BY <2>3 DEF Knows
  <2>5. (e.db \in LocalOnly \/ (e.id = e.db /\ e.id # None)) /\ (e.id = None => listed = {})
    BY <2>1, <2>3 DEF Rowed!WellFormed
  <2>6. /\ r.kind = "local-only" => e.id = None
        /\ r.kind = "promoting" => e.id # None /\ e.db \in LocalOnly
        /\ r.kind = "remnant" => listed # {}
        /\ r.kind = "synced" /\ Rowed!IsFresh(in) => listed # {}
        /\ r.kind # "server"
    BY <2>2, <2>5 DEF Rowed!KindOf
  <2> QED BY <2>1, <2>2, <2>4, <2>5, <2>6
<1>2. CASE \E c \in Rowed!Heard(in) :
              /\ r = Rowed!ServerRow(c, in) /\ ~\E e \in Rowed!Finished(in.local) : e.id = c.id
              /\ ~c.archived \/ (c.grace /\ c.role = "owner")
  <2>1. PICK c \in Rowed!Heard(in) :
              r = Rowed!ServerRow(c, in) /\ ~\E e \in Rowed!Finished(in.local) : e.id = c.id
    BY <1>2
  <2>2. r.db = c.id /\ r.id = c.id /\ r.kind = IF c.archived THEN "grace-archived" ELSE "server"
    BY <2>1 DEF Rowed!ServerRow
  <2> QED BY <2>1, <2>2
<1> QED BY <1>1, <1>2, RowOf

\* The page with other lists.
Relists(in, l, v) == [in EXCEPT !.local = l, !.server = v]

\* All else is as it was.
Keeps(in, new, l, v) ==
    /\ DOMAIN new = DOMAIN in /\ new.local = l /\ new.server = v
    /\ new.limit = in.limit /\ new.stale = in.stale /\ new.syncs = in.syncs
    /\ new.session = in.session /\ new.online = in.online
    /\ v = in.server => Rowed!Heard(new) = Rowed!Heard(in) /\ Rowed!IsFresh(new) = Rowed!IsFresh(in)
    /\ v # None => Rowed!Heard(new) = v
    /\ v # None /\ in.server # None => Rowed!IsFresh(new) = Rowed!IsFresh(in)

\* So it is of a page with other lists.
LEMMA Relisted ==
  ASSUME NEW in, Rowed!WellFormed(in), NEW l, NEW v, NEW new, new = Relists(in, l, v)
  PROVE  Keeps(in, new, l, v)
<1>1. /\ DOMAIN new = DOMAIN in /\ new.local = l /\ new.server = v
      /\ new.limit = in.limit /\ new.stale = in.stale /\ new.syncs = in.syncs
      /\ new.session = in.session /\ new.online = in.online
  <2> DEFINE a == [in EXCEPT !.local = l]
  <2>1. new = [a EXCEPT !.server = v]
    BY Zenon DEF Relists
  <2>2. DOMAIN in = {"local", "server", "stale", "session", "online", "syncs", "limit"}
    BY DEF Rowed!WellFormed
  <2>3. /\ DOMAIN a = DOMAIN in /\ a.local = l /\ a.limit = in.limit /\ a.stale = in.stale
        /\ a.syncs = in.syncs /\ a.session = in.session /\ a.online = in.online
    BY <2>2
  <2> HIDE DEF a
  <2> QED BY <2>1, <2>2, <2>3
<1> QED BY <1>1 DEF Rowed!Heard, Rowed!IsFresh, Keeps

\* What is said alike counts alike.
LEMMA CountsAlike ==
  ASSUME NEW in, NEW new, NEW e, Rowed!IsFresh(new) = Rowed!IsFresh(in),
         Knows(new, e.id) <=> Knows(in, e.id), Gives(new, e.id) <=> Gives(in, e.id),
         Serves(new, e.id) <=> Serves(in, e.id)
  PROVE  CountsHere(e, new) <=> CountsHere(e, in)
BY Zenon DEF CountsHere

\* What the creation of e leaves, in one word.
CreatedTo(in, e, new) ==
    /\ Rowed!WellFormed(new) /\ CountedDbs(new) \subseteq CountedDbs(in) \cup {NewLocal}
    /\ e \in Rowed!Finished(new.local)

\* A local-only database more, as when one is created: one name more.
LEMMA CreateCounts ==
  ASSUME NEW in, Rowed!WellFormed(in), Rowed!Unborn(in),
         NEW e, e = [db |-> NewLocal, id |-> None, role |-> None],
         NEW new, new = Relists(in, in.local \cup {e}, in.server)
  PROVE  CreatedTo(in, e, new)
<1>1. /\ DOMAIN new = DOMAIN in /\ new.local = in.local \cup {e} /\ new.limit = in.limit
      /\ Rowed!Heard(new) = Rowed!Heard(in) /\ Rowed!IsFresh(new) = Rowed!IsFresh(in)
  <2>1. Keeps(in, new, in.local \cup {e}, in.server)
    BY Relisted
  <2> QED BY <2>1 DEF Keeps
<1>2. e.db = NewLocal /\ e.id = None /\ e.db \in LocalOnly /\ DOMAIN e = {"db", "id", "role"}
      /\ None \notin LocalOnly
  BY ListsAssumption
<1>3. \A f \in in.local : f.db # e.db
  BY <1>2 DEF Rowed!Unborn
<1>4. Rowed!WellFormed(new)
  <2>1. IsFiniteSet(in.local \cup {e}) /\ IsFiniteSet(Rowed!Heard(in))
    BY CardinalityOf, FS_AddElement DEF Rowed!WellFormed
  <2>2. Rowed!IsFiniteSet(new.local) /\ Rowed!IsFiniteSet(Rowed!Heard(new))
    BY <1>1, <2>1, CardinalityOf
  <2>3. \A f \in new.local : f = e \/ f \in in.local
    BY <1>1
  <2>4. \A f, g \in new.local : f.db = g.db => f = g
    BY <1>3, <2>3 DEF Rowed!WellFormed
  <2>5. \A f, g \in new.local :
           f.id = g.id /\ f.id # None /\ (f.db \in LocalOnly <=> g.db \in LocalOnly) => f = g
    BY <1>2, <2>3 DEF Rowed!WellFormed
  <2>6. \A f \in new.local :
           /\ DOMAIN f = {"db", "id", "role"} /\ f.id \notin LocalOnly
           /\ f.db \in LocalOnly \/ (f.id = f.db /\ f.id # None)
    BY <1>2, <2>3 DEF Rowed!WellFormed
  <2> QED BY <1>1, <2>2, <2>4, <2>5, <2>6 DEF Rowed!WellFormed
<1>5. \A f : f \in Rowed!Finished(new.local) <=> f = e \/ f \in Rowed!Finished(in.local)
  BY <1>1, <1>2, <1>3 DEF Rowed!Finished, Rowed!IsCopy
<1>6. \A x : (Knows(new, x) <=> Knows(in, x)) /\ (Gives(new, x) <=> Gives(in, x)) /\ (Serves(new, x) <=> Serves(in, x))
  BY <1>1 DEF Knows, Gives, Serves
<1>7. ASSUME NEW x \in CountedDbs(new), x # NewLocal PROVE x \in CountedDbs(in)
  <2>1. CASE \E f \in Rowed!Finished(new.local) : f.db = x /\ CountsHere(f, new)
    <3>1. PICK f \in Rowed!Finished(new.local) : f.db = x /\ CountsHere(f, new)
      BY <2>1
    <3>2. f \in Rowed!Finished(in.local)
      BY <1>2, <1>5, <1>7, <3>1
    <3>3. CountsHere(f, in)
      BY <1>1, <1>6, <3>1, CountsAlike
    <3> QED BY <3>1, <3>2, <3>3, CountedIs
  <2>2. CASE Gives(new, x) /\ Serves(new, x) /\ ~\E f \in Rowed!Finished(new.local) : f.id = x
    BY <1>5, <1>6, <2>2, CountedIs
  <2> QED BY <1>4, <2>1, <2>2, CountedIs
<1> QED BY <1>4, <1>5, <1>7 DEF CreatedTo

\* A copy in the place of the database it was promoted from: one name for the other.
LEMMA PromoteCounts ==
  ASSUME NEW in, Rowed!WellFormed(in), Rowed!Unborn(in), Rowed!IsFresh(in),
         NEW e \in Rowed!Finished(in.local), e.db \in LocalOnly,
         NEW id, id = IF e.id = None THEN NewProject ELSE e.id,
         NEW f, f = [db |-> id, id |-> id, role |-> "owner"],
         NEW v, v = IF Knows(in, id) THEN in.server ELSE Rowed!Heard(in) \cup {Rowed!OnServer(id)},
         NEW new, new = Relists(in, (in.local \ {e}) \cup {f}, v)
  PROVE  /\ Rowed!WellFormed(new) /\ CountedDbs(new) \subseteq (CountedDbs(in) \ {e.db}) \cup {id}
         /\ id \in CountedDbs(new) => e.db \in CountedDbs(in)
<1> DEFINE c == Rowed!OnServer(id)
<1>0. in.server # None /\ Rowed!Heard(in) = in.server /\ e \in in.local
  BY DEF Rowed!IsFresh, Rowed!Heard, Rowed!Finished
<1>a. \A g, h \in in.local : g.db = h.db => g = h
  BY DEF Rowed!WellFormed
<1>b. \A g, h \in in.local :
         g.id = h.id /\ g.id # None /\ (g.db \in LocalOnly <=> h.db \in LocalOnly) => g = h
  BY DEF Rowed!WellFormed
<1>c. \A d, b \in Rowed!Heard(in) : d.id = b.id => d = b
  BY DEF Rowed!WellFormed
<1>1. /\ c.id = id /\ c.role = "owner" /\ ~c.archived
      /\ DOMAIN c = {"id", "role", "archived", "readOnly", "grace"}
  BY DEF Rowed!OnServer
<1>2. v # None
  <2>1. id \in {NewProject} \cup {g.id : g \in in.local}
    BY <1>0
  <2>2. c \in Rowed!Sayings(in)
    <3> DEFINE said == {Rowed!OnServer(x) : x \in {NewProject} \cup {g.id : g \in in.local}}
               rest == UNION {{[b EXCEPT !.archived = TRUE], [b EXCEPT !.archived = FALSE, !.grace = FALSE],
                               [b EXCEPT !.readOnly = TRUE], [b EXCEPT !.readOnly = FALSE]} :
                                b \in Rowed!Heard(in)}
    <3>1. Rowed!Sayings(in) = said \cup rest
      BY Zenon DEF Rowed!Sayings
    <3>2. c \in said
      BY <2>1, Zenon
    <3> HIDE DEF said, rest, c
    <3> QED BY <3>1, <3>2, Zenon
  <2> HIDE DEF c
  <2>3. \A said \in SUBSET Rowed!Heard(in), d \in Rowed!Sayings(in) : said \cup {d} # None
    BY DEF Rowed!Unborn
  <2>4. Rowed!Heard(in) \cup {c} # None
    BY <2>2, <2>3
  <2> QED BY <1>0, <2>4 DEF c
<1>3. /\ DOMAIN new = DOMAIN in /\ new.local = (in.local \ {e}) \cup {f} /\ new.limit = in.limit
      /\ Rowed!IsFresh(new) = Rowed!IsFresh(in)
      /\ Rowed!Heard(new) = IF Knows(in, id) THEN Rowed!Heard(in) ELSE Rowed!Heard(in) \cup {c}
  <2> DEFINE l == (in.local \ {e}) \cup {f}
  <2>1. new = Relists(in, l, v) /\ v = IF Knows(in, id) THEN in.server ELSE Rowed!Heard(in) \cup {c}
    OBVIOUS
  <2> HIDE DEF l, c
  <2>2. /\ DOMAIN new = DOMAIN in /\ new.local = l /\ new.limit = in.limit
        /\ Rowed!Heard(new) = v /\ Rowed!IsFresh(new) = Rowed!IsFresh(in)
    <3>1. Keeps(in, new, l, v)
      BY <2>1, Relisted, Zenon
    <3> QED BY <1>0, <1>2, <3>1 DEF Keeps
  <2>3. v = IF Knows(in, id) THEN Rowed!Heard(in) ELSE Rowed!Heard(in) \cup {c}
    BY <1>0, <2>1
  <2> QED BY <2>2, <2>3 DEF l
<1>4. /\ f.db = id /\ f.id = id /\ DOMAIN f = {"db", "id", "role"}
      /\ id \notin LocalOnly /\ id # None
  BY <1>0, ListsAssumption DEF Rowed!WellFormed
<1> HIDE DEF c
<1>5. \A g \in in.local : g.db = id => g.id = id
  BY <1>4 DEF Rowed!WellFormed
<1>6. \A g \in in.local : g # e => g.id # id
  <2> SUFFICES ASSUME NEW g \in in.local, g # e, g.id = id PROVE FALSE
    OBVIOUS
  <2>1. e.id # None /\ id = e.id
    BY DEF Rowed!Unborn
  <2>2. g.db \notin LocalOnly
    BY <1>0, <2>1 DEF Rowed!WellFormed
  <2>3. Rowed!IsCopy(g) /\ g.id = e.id
    BY <1>4, <2>1, <2>2 DEF Rowed!IsCopy
  <2> QED BY <2>1, <2>3 DEF Rowed!Finished
<1>7. \A g \in in.local : g # e => g.db # id
  BY <1>5, <1>6
<1>8. Rowed!WellFormed(new)
  <2> DEFINE L == in.local \ {e}  H == Rowed!Heard(in)
  <2>1. IsFiniteSet(L \cup {f}) /\ IsFiniteSet(H) /\ IsFiniteSet(H \cup {c})
    <3>1. IsFiniteSet(in.local) /\ IsFiniteSet(H)
      BY CardinalityOf DEF Rowed!WellFormed
    <3>2. IsFiniteSet(L)
      BY <3>1, FS_RemoveElement
    <3> HIDE DEF L, H
    <3> QED BY <3>1, <3>2, FS_AddElement
  <2>2. Rowed!IsFiniteSet(new.local) /\ Rowed!IsFiniteSet(Rowed!Heard(new))
    BY <1>3, <2>1, CardinalityOf
  <2>3. \A g \in new.local : g = f \/ (g \in in.local /\ g # e)
    BY <1>3
  <2>4. \A g, h \in new.local : g.db = h.db => g = h
    <3> SUFFICES ASSUME NEW g \in new.local, NEW h \in new.local, g.db = h.db PROVE g = h
      OBVIOUS
    <3>1. f.db = id
      BY <1>4
    <3>2. g = f => h = f
      BY <1>7, <2>3, <3>1, Zenon
    <3>3. h = f => g = f
      BY <1>7, <2>3, <3>1, Zenon
    <3> QED BY <1>a, <2>3, <3>2, <3>3, Zenon
  <2>5. \A g, h \in new.local :
           g.id = h.id /\ g.id # None /\ (g.db \in LocalOnly <=> h.db \in LocalOnly) => g = h
    <3> SUFFICES ASSUME NEW g \in new.local, NEW h \in new.local,
                        g.id = h.id, g.id # None, g.db \in LocalOnly <=> h.db \in LocalOnly
                 PROVE  g = h
      OBVIOUS
    <3>1. f.id = id
      BY <1>4
    <3>2. g = f => h = f
      BY <1>6, <2>3, <3>1, Zenon
    <3>3. h = f => g = f
      BY <1>6, <2>3, <3>1, Zenon
    <3> QED BY <1>b, <2>3, <3>2, <3>3, Zenon
  <2>6. \A g \in new.local :
           /\ DOMAIN g = {"db", "id", "role"} /\ g.id \notin LocalOnly
           /\ g.db \in LocalOnly \/ (g.id = g.db /\ g.id # None)
    <3> SUFFICES ASSUME NEW g \in new.local
                 PROVE  /\ DOMAIN g = {"db", "id", "role"} /\ g.id \notin LocalOnly
                        /\ g.db \in LocalOnly \/ (g.id = g.db /\ g.id # None)
      OBVIOUS
    <3>1. CASE g = f
      BY <1>4, <3>1, Zenon
    <3>2. CASE g \in in.local
      BY <3>2, FormedSays, Zenon
    <3> QED BY <2>3, <3>1, <3>2, Zenon
  <2>7. \A d \in Rowed!Heard(new) : d \in Rowed!Heard(in) \/ (d = c /\ ~Knows(in, id))
    BY <1>3
  <2>8. \A d \in Rowed!Heard(new) :
           /\ DOMAIN d = {"id", "role", "archived", "readOnly", "grace"}
           /\ d.id \notin LocalOnly \cup {None}
    <3> SUFFICES ASSUME NEW d \in Rowed!Heard(new)
                 PROVE  /\ DOMAIN d = {"id", "role", "archived", "readOnly", "grace"}
                        /\ d.id \notin LocalOnly \cup {None}
      OBVIOUS
    <3>1. CASE d = c
      <4>1. id \notin LocalOnly \cup {None}
        BY <1>4, Zenon
      <4> QED BY <1>1, <3>1, <4>1, Zenon
    <3>2. CASE d \in Rowed!Heard(in)
      BY <3>2, FormedSays, Zenon
    <3> QED BY <2>7, <3>1, <3>2, Zenon
  <2>9. \A d, b \in Rowed!Heard(new) : d.id = b.id => d = b
    <3>1. \A d \in Rowed!Heard(in) : ~Knows(in, id) => d.id # id
      BY Zenon DEF Knows
    <3> SUFFICES ASSUME NEW d \in Rowed!Heard(new), NEW b \in Rowed!Heard(new), d.id = b.id
                 PROVE  d = b
      OBVIOUS
    <3>2. c.id = id
      BY <1>1, Zenon
    <3>3. ASSUME NEW a \in Rowed!Heard(new), NEW o \in Rowed!Heard(new), a.id = o.id, a \notin Rowed!Heard(in)
          PROVE  a = o
      <4>1. a = c /\ ~Knows(in, id)
        BY <2>7, <3>3, Zenon
      <4>2. o.id = id
        BY <3>2, <3>3, <4>1, Zenon
      <4>3. o \notin Rowed!Heard(in)
        BY <3>1, <4>1, <4>2, Zenon
      <4> QED BY <2>7, <4>1, <4>3, Zenon
    <3>4. CASE d \notin Rowed!Heard(in)
      BY <3>3, <3>4, Zenon
    <3>5. CASE b \notin Rowed!Heard(in)
      <4>1. b = d
        BY <3>3, <3>5
      <4> QED BY <4>1
    <3>6. CASE d \in Rowed!Heard(in) /\ b \in Rowed!Heard(in)
      BY <1>c, <3>6, Zenon
    <3> QED BY <3>4, <3>5, <3>6, Zenon
  <2>10. in.limit \in Int /\ DOMAIN in = {"local", "server", "stale", "session", "online", "syncs", "limit"}
    BY FormedSays, Zenon
  <2>11. /\ new.limit \in Int /\ IsFiniteSet(new.local) /\ IsFiniteSet(Rowed!Heard(new))
         /\ DOMAIN new = {"local", "server", "stale", "session", "online", "syncs", "limit"}
    <3>1. IsFiniteSet(new.local) /\ IsFiniteSet(Rowed!Heard(new))
      BY <2>2, CardinalityOf
    <3>2. DOMAIN new = DOMAIN in /\ new.limit = in.limit
      BY <1>3
    <3> QED BY <2>10, <3>1, <3>2, Zenon
  <2> QED BY <2>2, <2>4, <2>5, <2>6, <2>8, <2>9, <2>11, Zenon DEF Rowed!WellFormed
<1>9. \A g : g \in Rowed!Finished(new.local) <=> g = f \/ (g \in Rowed!Finished(in.local) /\ g # e)
  <2>1. Rowed!IsCopy(f) /\ ~Rowed!IsCopy(e)
    BY <1>4 DEF Rowed!IsCopy
  <2> DEFINE L == (in.local \ {e}) \cup {f}
  <2>2. \A l, g : g \in Rowed!Finished(l) <=> g \in l /\ ~Hidden(g, l)
    BY ShownUnlessHidden, Zenon
  <2>3. \A g \in in.local \ {e} : Hidden(g, L) <=> Hidden(g, in.local)
    BY <1>4, <1>6, <2>1 DEF Hidden
  <2>4. ~Hidden(f, L)
    BY <1>4 DEF Hidden
  <2>5. \A g \in in.local : g # e => g # f
    BY <1>4, <1>7
  <2>6. e # f
    BY <2>1
  <2>7. \A g : g \in L <=> g = f \/ (g \in in.local /\ g # e)
    BY <2>6
  <2>8. new.local = L
    BY <1>3
  <2> HIDE DEF L
  <2>9. f \in Rowed!Finished(new.local)
    BY <2>2, <2>4, <2>7, <2>8, Zenon
  <2>10. ASSUME NEW g, g # f
         PROVE  g \in Rowed!Finished(new.local) <=> g \in Rowed!Finished(in.local) /\ g # e
    <3>1. g \in L <=> g \in in.local \ {e}
      BY <2>7, <2>10
    <3>2. g \in Rowed!Finished(L) <=> g \in L /\ ~Hidden(g, L)
      BY <2>2, Zenon
    <3>3. g \in Rowed!Finished(in.local) <=> g \in in.local /\ ~Hidden(g, in.local)
      BY <2>2, Zenon
    <3>4. g \in in.local \ {e} => (Hidden(g, L) <=> Hidden(g, in.local))
      BY <2>3, Zenon
    <3> QED BY <2>8, <3>1, <3>2, <3>3, <3>4
  <2> TAKE g
  <2>11. CASE g = f
    BY <2>9, <2>11, Zenon
  <2>12. CASE g # f
    BY <2>10, <2>12, Zenon
  <2> QED BY <2>11, <2>12, Zenon
<1>10. \A x : x # id => /\ Knows(new, x) <=> Knows(in, x)
                        /\ Gives(new, x) <=> Gives(in, x)
                        /\ Serves(new, x) <=> Serves(in, x)
  BY <1>1, <1>3 DEF Knows, Gives, Serves
<1>11. ASSUME NEW x \in CountedDbs(new), x # id PROVE x \in CountedDbs(in) \ {e.db}
  <2>1. CASE \E g \in Rowed!Finished(new.local) : g.db = x /\ CountsHere(g, new)
    <3>1. PICK g \in Rowed!Finished(new.local) : g.db = x /\ CountsHere(g, new)
      BY <2>1
    <3>2. g \in Rowed!Finished(in.local) /\ g # e /\ g \in in.local
      BY <1>4, <1>9, <1>11, <3>1 DEF Rowed!Finished
    <3>3. CountsHere(g, in)
      BY <1>3, <1>6, <1>10, <3>1, <3>2, CountsAlike
    <3>4. g.db # e.db
      BY <1>0, <3>2 DEF Rowed!WellFormed
    <3> QED BY <3>1, <3>2, <3>3, <3>4, CountedIs
  <2>2. CASE Gives(new, x) /\ Serves(new, x) /\ ~\E g \in Rowed!Finished(new.local) : g.id = x
    <3>1. Gives(in, x) /\ Serves(in, x)
      BY <1>10, <1>11, <2>2
    <3>2. x # None /\ x \notin LocalOnly
      BY <3>1 DEF Gives, Rowed!WellFormed
    <3>3. e.id # x
      BY <1>11, <3>2
    <3>4. ~\E g \in Rowed!Finished(in.local) : g.id = x
      BY <1>9, <2>2, <3>3
    <3> QED BY <3>1, <3>2, <3>4, CountedIs
  <2> QED BY <1>8, <2>1, <2>2, CountedIs
<1>12. ASSUME id \in CountedDbs(new) PROVE e.db \in CountedDbs(in)
  <2>1. f \in Rowed!Finished(new.local)
    BY <1>9
  <2>2. PICK g \in Rowed!Finished(new.local) : g.db = id /\ CountsHere(g, new)
    BY <1>4, <1>8, <1>12, <2>1, CountedIs
  <2>3. g = f
    BY <1>7, <1>9, <2>2 DEF Rowed!Finished
  <2>4. Knows(new, id)
    BY <1>1, <1>3 DEF Knows
  <2>5. Gives(new, id)
    BY <1>4, <2>2, <2>3, <2>4 DEF CountsHere
  <2>6. e.id # None /\ Knows(in, e.id) => Gives(in, e.id)
    BY <1>3, <2>5 DEF Gives
  <2>7. CountsHere(e, in)
    BY <2>6 DEF CountsHere
  <2> QED BY <2>7, CountedIs
<1> QED BY <1>8, <1>11, <1>12

\* A copy of what only the server had: the name that counted already.
LEMMA DownloadCounts ==
  ASSUME NEW in, Rowed!WellFormed(in), NEW c \in Rowed!Heard(in),
         ~\E e \in Rowed!Finished(in.local) : e.id = c.id,
         NEW f, f.db = c.id, f.id = c.id, DOMAIN f = {"db", "id", "role"},
         NEW new, new = Relists(in, in.local \cup {f}, in.server)
  PROVE  Rowed!WellFormed(new) /\ CountedDbs(new) \subseteq CountedDbs(in)
<1>1. /\ DOMAIN new = DOMAIN in /\ new.local = in.local \cup {f} /\ new.limit = in.limit
      /\ Rowed!Heard(new) = Rowed!Heard(in) /\ Rowed!IsFresh(new) = Rowed!IsFresh(in)
  <2>1. Keeps(in, new, in.local \cup {f}, in.server)
    BY Relisted
  <2> QED BY <2>1 DEF Keeps
<1>2. c.id \notin LocalOnly /\ c.id # None
  BY FormedSays
<1>3. Rowed!IsCopy(f)
  BY <1>2 DEF Rowed!IsCopy
<1>4. \A g \in in.local : g.db \notin LocalOnly => g.id # c.id
  <2> SUFFICES ASSUME NEW g \in in.local, g.db \notin LocalOnly, g.id = c.id PROVE FALSE
    OBVIOUS
  <2>1. g \in Rowed!Finished(in.local)
    BY ShownUnlessHidden DEF Hidden
  <2> QED BY <2>1
<1>5. \A g \in in.local : g.db # c.id
  <2>1. \A g \in in.local : g.db \in LocalOnly \/ g.id = g.db
    BY FormedSays
  <2> QED BY <1>2, <1>4, <2>1
<1>6. \A g \in new.local : g = f \/ g \in in.local
  BY <1>1
<1>7. Rowed!WellFormed(new)
  <2>1. IsFiniteSet(in.local \cup {f}) /\ IsFiniteSet(Rowed!Heard(in))
    BY FormedSays, FS_AddElement
  <2>2. \A g, h \in new.local : g.db = h.db => g = h
    <3> SUFFICES ASSUME NEW g \in new.local, NEW h \in new.local, g.db = h.db PROVE g = h
      OBVIOUS
    <3>1. (g = f => h = f) /\ (h = f => g = f)
      BY <1>5, <1>6
    <3>2. \A a, b \in in.local : a.db = b.db => a = b
      BY FormedSays
    <3> QED BY <1>6, <3>1, <3>2
  <2>3. \A g, h \in new.local :
           g.id = h.id /\ g.id # None /\ (g.db \in LocalOnly <=> h.db \in LocalOnly) => g = h
    <3> SUFFICES ASSUME NEW g \in new.local, NEW h \in new.local, g.id = h.id, g.id # None,
                        g.db \in LocalOnly <=> h.db \in LocalOnly
                 PROVE  g = h
      OBVIOUS
    <3>1. g = f => h = f
      BY <1>2, <1>4, <1>6
    <3>2. h = f => g = f
      BY <1>2, <1>4, <1>6
    <3>3. \A a, b \in in.local :
             a.id = b.id /\ a.id # None /\ (a.db \in LocalOnly <=> b.db \in LocalOnly) => a = b
      BY FormedSays
    <3> QED BY <1>6, <3>1, <3>2, <3>3
  <2>4. \A g \in new.local :
           /\ DOMAIN g = {"db", "id", "role"} /\ g.id \notin LocalOnly
           /\ g.db \in LocalOnly \/ (g.id = g.db /\ g.id # None)
    BY <1>2, <1>6, FormedSays
  <2> QED BY <1>1, <2>1, <2>2, <2>3, <2>4, FormedIs, FormedSays
<1>8. \A g : g \in Rowed!Finished(new.local) <=> g = f \/ g \in Rowed!Finished(in.local)
  <2>1. \A g \in in.local : Hidden(g, in.local) => Hidden(g, new.local)
    BY <1>1 DEF Hidden
  <2>2. \A g \in in.local : Hidden(g, new.local) => Hidden(g, in.local) \/ g.id = c.id
    BY <1>6 DEF Hidden
  <2>3. ~Hidden(f, new.local)
    BY <1>2 DEF Hidden
  <2>4. \A g \in Rowed!Finished(in.local) : g.id # c.id
    OBVIOUS
  <2>5. \A g : g \in new.local <=> g = f \/ g \in in.local
    BY <1>1
  <2>6. \A l, g : g \in Rowed!Finished(l) <=> g \in l /\ ~Hidden(g, l)
    BY ShownUnlessHidden
  <2>7. ASSUME NEW g \in Rowed!Finished(new.local), g # f PROVE g \in Rowed!Finished(in.local)
    <3>1. g \in new.local /\ ~Hidden(g, new.local)
      BY <2>6, Zenon
    <3>2. g \in in.local
      BY <2>5, <2>7, <3>1, Zenon
    <3>3. ~Hidden(g, in.local)
      BY <2>1, <3>1, <3>2, Zenon
    <3> QED BY <2>6, <3>2, <3>3, Zenon
  <2>8. ASSUME NEW g \in Rowed!Finished(in.local) PROVE g \in Rowed!Finished(new.local)
    <3>1. g \in in.local /\ ~Hidden(g, in.local)
      BY <2>6, Zenon
    <3>2. g.id # c.id
      BY <2>4, Zenon
    <3>3. ~Hidden(g, new.local)
      BY <2>2, <3>1, <3>2, Zenon
    <3>4. g \in new.local
      BY <2>5, <3>1, Zenon
    <3> QED BY <2>6, <3>3, <3>4, Zenon
  <2>9. f \in Rowed!Finished(new.local)
    <3>1. f \in new.local
      BY <2>5, Zenon
    <3> QED BY <2>3, <2>6, <3>1, Zenon
  <2> QED BY <2>7, <2>8, <2>9, Zenon
<1>9. \A x : (Knows(new, x) <=> Knows(in, x)) /\ (Gives(new, x) <=> Gives(in, x)) /\ (Serves(new, x) <=> Serves(in, x))
  BY <1>1 DEF Knows, Gives, Serves
<1>10. ASSUME NEW x \in CountedDbs(new) PROVE x \in CountedDbs(in)
  <2>1. CASE \E g \in Rowed!Finished(new.local) : g.db = x /\ CountsHere(g, new)
    <3>1. PICK g \in Rowed!Finished(new.local) : g.db = x /\ CountsHere(g, new)
      BY <2>1
    <3>2. CASE g = f
      <4>1. Knows(in, c.id)
        BY DEF Knows
      <4>2. Gives(in, c.id) /\ Serves(in, c.id)
        BY <1>2, <1>9, <3>1, <3>2, <4>1 DEF CountsHere
      <4> QED BY <3>1, <3>2, <4>2, CountedIs
    <3>3. CASE g \in Rowed!Finished(in.local)
      <4>1. CountsHere(g, in)
        BY <1>1, <1>9, <3>1, CountsAlike
      <4> QED BY <3>1, <3>3, <4>1, CountedIs
    <3> QED BY <1>8, <3>2, <3>3
  <2>2. CASE Gives(new, x) /\ Serves(new, x) /\ ~\E g \in Rowed!Finished(new.local) : g.id = x
    BY <1>8, <1>9, <2>2, CountedIs
  <2> QED BY <1>7, <2>1, <2>2, CountedIs
<1> QED BY <1>7, <1>10

\* What the forgetting of e leaves, in one word.
ForgottenTo(in, e, new) ==
    /\ Rowed!WellFormed(new)
    /\ \/ \E g \in in.local \ Rowed!Finished(in.local) : g \in Rowed!Finished(new.local)
       \/ /\ CountedDbs(new) \subseteq (CountedDbs(in) \ {e.db}) \cup {e.id}
          /\ e.id \in CountedDbs(new) => e.db \in CountedDbs(in)

\* A database less: what it hid on the server counts in its place, if nothing else comes to light.
LEMMA ForgetCounts ==
  ASSUME NEW in, Rowed!WellFormed(in), NEW e \in Rowed!Finished(in.local),
         NEW new, new = Relists(in, in.local \ {e}, in.server)
  PROVE  ForgottenTo(in, e, new)
<1>1. /\ DOMAIN new = DOMAIN in /\ new.local = in.local \ {e} /\ new.limit = in.limit
      /\ Rowed!Heard(new) = Rowed!Heard(in) /\ Rowed!IsFresh(new) = Rowed!IsFresh(in)
  <2>1. Keeps(in, new, in.local \ {e}, in.server)
    BY Relisted
  <2> QED BY <2>1 DEF Keeps
<1>2. e \in in.local
  BY ShownUnlessHidden
<1>3. \A g \in new.local : g \in in.local /\ g # e
  BY <1>1
<1>4. Rowed!WellFormed(new)
  <2>1. IsFiniteSet(in.local \ {e}) /\ IsFiniteSet(Rowed!Heard(in))
    BY FormedSays, FS_RemoveElement
  <2>2. \A g, h \in new.local : g.db = h.db => g = h
    BY <1>3, FormedSays, Zenon
  <2>3. \A g, h \in new.local :
           g.id = h.id /\ g.id # None /\ (g.db \in LocalOnly <=> h.db \in LocalOnly) => g = h
    BY <1>3, FormedSays, Zenon
  <2>4. \A g \in new.local :
           /\ DOMAIN g = {"db", "id", "role"} /\ g.id \notin LocalOnly
           /\ g.db \in LocalOnly \/ (g.id = g.db /\ g.id # None)
    BY <1>3, FormedSays, Zenon
  <2> QED BY <1>1, <2>1, <2>2, <2>3, <2>4, FormedIs, FormedSays
<1> SUFFICES ASSUME ~\E g \in in.local \ Rowed!Finished(in.local) : g \in Rowed!Finished(new.local)
             PROVE  /\ CountedDbs(new) \subseteq (CountedDbs(in) \ {e.db}) \cup {e.id}
                    /\ e.id \in CountedDbs(new) => e.db \in CountedDbs(in)
  BY <1>4 DEF ForgottenTo
<1>5. \A g \in Rowed!Finished(new.local) : g \in Rowed!Finished(in.local) /\ g \in in.local /\ g # e
  BY <1>3, ShownUnlessHidden
<1>6. \A g \in Rowed!Finished(in.local) : g # e => g \in Rowed!Finished(new.local)
  <2>1. \A g \in in.local : Hidden(g, new.local) => Hidden(g, in.local)
    BY <1>3 DEF Hidden
  <2> QED BY <1>1, <2>1, ShownUnlessHidden
<1>7. \A x : (Knows(new, x) <=> Knows(in, x)) /\ (Gives(new, x) <=> Gives(in, x)) /\ (Serves(new, x) <=> Serves(in, x))
  BY <1>1 DEF Knows, Gives, Serves
<1>8. /\ \A g \in in.local : g.db = e.db => g = e
      /\ \A g \in in.local : g.db \in LocalOnly \/ (g.id = g.db /\ g.id # None)
      /\ e.id \notin LocalOnly
      /\ \A g \in in.local : g.id = e.id /\ g.id # None /\ (g.db \in LocalOnly <=> e.db \in LocalOnly) => g = e
      /\ \A d \in Rowed!Heard(in) : d.id \notin LocalOnly /\ d.id # None
  BY <1>2, FormedSays
<1>9. ASSUME NEW x \in CountedDbs(new), x # e.id PROVE x \in CountedDbs(in) \ {e.db}
  <2>1. CASE \E g \in Rowed!Finished(new.local) : g.db = x /\ CountsHere(g, new)
    <3>1. PICK g \in Rowed!Finished(new.local) : g.db = x /\ CountsHere(g, new)
      BY <2>1
    <3>2. CountsHere(g, in)
      BY <1>1, <1>7, <3>1, CountsAlike
    <3>3. g \in Rowed!Finished(in.local) /\ g.db # e.db
      BY <1>5, <1>8, <3>1
    <3> QED BY <3>1, <3>2, <3>3, CountedIs
  <2>2. CASE Gives(new, x) /\ Serves(new, x) /\ ~\E g \in Rowed!Finished(new.local) : g.id = x
    <3>1. ~\E g \in Rowed!Finished(in.local) : g.id = x
      BY <1>6, <1>9, <2>2
    <3>2. Gives(in, x) /\ Serves(in, x)
      BY <1>7, <2>2
    <3>3. x \notin LocalOnly
      BY <1>8, <3>2 DEF Gives
    <3>4. x # e.db
      BY <1>2, <1>8, <1>9, <3>3
    <3> QED BY <3>1, <3>2, <3>4, CountedIs
  <2> QED BY <1>4, <2>1, <2>2, CountedIs
<1>10. ASSUME e.id \in CountedDbs(new) PROVE e.db \in CountedDbs(in)
  <2>1. ~\E g \in Rowed!Finished(new.local) : g.db = e.id
    <3> SUFFICES ASSUME NEW g \in Rowed!Finished(new.local), g.db = e.id PROVE FALSE
      OBVIOUS
    <3>1. g \in in.local /\ g # e /\ g.db \notin LocalOnly /\ g.id = e.id /\ g.id # None
      BY <1>5, <1>8
    <3>2. e.db \in LocalOnly
      BY <1>8, <3>1
    <3>3. Rowed!IsCopy(g)
      BY <3>1 DEF Rowed!IsCopy
    <3>4. Hidden(e, in.local)
      BY <3>1, <3>2, <3>3 DEF Hidden
    <3> QED BY <3>4, ShownUnlessHidden
  <2>2. Gives(new, e.id) /\ Serves(new, e.id)
    BY <1>4, <1>10, <2>1, CountedIs
  <2>3. CountsHere(e, in)
    <3>1. Gives(in, e.id) /\ Serves(in, e.id) /\ Knows(in, e.id)
      BY <1>7, <2>2 DEF Gives, Knows
    <3> QED BY <3>1 DEF CountsHere
  <2> QED BY <2>3, CountedIs
<1> QED BY <1>9, <1>10

\* What saying d of a project, in place of c, leaves, in one word.
ResaidTo(in, c, d, new) ==
    /\ Rowed!WellFormed(new) /\ CountedDbs(new) \subseteq CountedDbs(in) \cup {c.id}
    /\ d.archived \/ ~c.archived => CountedDbs(new) \subseteq CountedDbs(in)

\* What the server says of one project changed: one name more, if it was put back.
LEMMA RelistCounts ==
  ASSUME NEW in, Rowed!WellFormed(in), Rowed!Unborn(in), NEW c \in Rowed!Heard(in),
         NEW d \in Rowed!Sayings(in), d.id = c.id, d.role = c.role, DOMAIN d = DOMAIN c,
         NEW v, v = (Rowed!Heard(in) \ {b \in Rowed!Heard(in) : b.id = c.id}) \cup {d},
         NEW new, new = Relists(in, in.local, v)
  PROVE  ResaidTo(in, c, d, new)
<1>1. in.server # None /\ v # None
  <2> DEFINE said == Rowed!Heard(in) \ {b \in Rowed!Heard(in) : b.id = c.id}
  <2>1. in.server # None
    BY DEF Rowed!Heard
  <2>2. \A s \in SUBSET Rowed!Heard(in), b \in Rowed!Sayings(in) : s \cup {b} # None
    BY DEF Rowed!Unborn
  <2>3. said \in SUBSET Rowed!Heard(in) /\ v = said \cup {d}
    OBVIOUS
  <2> HIDE DEF said
  <2> QED BY <2>1, <2>2, <2>3
<1>2. /\ DOMAIN new = DOMAIN in /\ new.local = in.local /\ new.limit = in.limit
      /\ Rowed!Heard(new) = v /\ Rowed!IsFresh(new) = Rowed!IsFresh(in)
  <2>1. Keeps(in, new, in.local, v)
    BY Relisted
  <2> QED BY <1>1, <2>1 DEF Keeps
<1>3. \A b \in v : b = d \/ (b \in Rowed!Heard(in) /\ b.id # c.id)
  OBVIOUS
<1>4. Rowed!WellFormed(new)
  <2>1. IsFiniteSet(v)
    <3> DEFINE said == Rowed!Heard(in) \ {b \in Rowed!Heard(in) : b.id = c.id}
    <3>1. said \in SUBSET Rowed!Heard(in) /\ v = said \cup {d} /\ IsFiniteSet(Rowed!Heard(in))
      BY FormedSays
    <3> HIDE DEF said
    <3>2. IsFiniteSet(said)
      BY <3>1, FS_Subset
    <3> QED BY <3>1, <3>2, FS_AddElement
  <2>2. \A a, b \in v : a.id = b.id => a = b
    <3>1. \A a, b \in Rowed!Heard(in) : a.id = b.id => a = b
      BY FormedSays
    <3> QED BY <1>3, <3>1
  <2>3. \A b \in v : /\ DOMAIN b = {"id", "role", "archived", "readOnly", "grace"}
                     /\ b.id \notin LocalOnly \cup {None}
    BY <1>3, FormedSays
  <2>4. /\ IsFiniteSet(in.local)
        /\ \A e \in in.local :
              /\ DOMAIN e = {"db", "id", "role"} /\ e.id \notin LocalOnly
              /\ e.db \in LocalOnly \/ (e.id = e.db /\ e.id # None)
        /\ \A e, f \in in.local : e.db = f.db => e = f
        /\ \A e, f \in in.local :
              e.id = f.id /\ e.id # None /\ (e.db \in LocalOnly <=> f.db \in LocalOnly) => e = f
    BY FormedSays, Zenon
  <2>5. new.limit \in Int /\ DOMAIN new = {"local", "server", "stale", "session", "online", "syncs", "limit"}
    BY <1>2, FormedSays
  <2>6. /\ IsFiniteSet(new.local)
        /\ \A e \in new.local :
              /\ DOMAIN e = {"db", "id", "role"} /\ e.id \notin LocalOnly
              /\ e.db \in LocalOnly \/ (e.id = e.db /\ e.id # None)
        /\ \A e, f \in new.local : e.db = f.db => e = f
        /\ \A e, f \in new.local :
              e.id = f.id /\ e.id # None /\ (e.db \in LocalOnly <=> f.db \in LocalOnly) => e = f
    BY <1>2, <2>4, Zenon
  <2>7. /\ IsFiniteSet(Rowed!Heard(new))
        /\ \A a, b \in Rowed!Heard(new) : a.id = b.id => a = b
        /\ \A b \in Rowed!Heard(new) : /\ DOMAIN b = {"id", "role", "archived", "readOnly", "grace"}
                                       /\ b.id \notin LocalOnly \cup {None}
    BY <1>2, <2>1, <2>2, <2>3, Zenon
  <2> QED BY <2>5, <2>6, <2>7, FormedIs, Zenon
<1>5. \A x : Knows(new, x) <=> Knows(in, x)
  BY <1>2 DEF Knows
<1>6. \A x : Gives(new, x) <=> Gives(in, x)
  <2>1. \A a, b \in Rowed!Heard(in) : a.id = b.id => a = b
    BY FormedSays
  <2> QED BY <1>2, <2>1 DEF Gives
<1>7. /\ \A x : x # c.id => (Serves(new, x) <=> Serves(in, x))
      /\ d.archived \/ ~c.archived => (Serves(new, c.id) => Serves(in, c.id))
  BY <1>2 DEF Serves
<1>8. ASSUME NEW x \in CountedDbs(new), x # c.id \/ (Serves(new, c.id) => Serves(in, c.id))
      PROVE  x \in CountedDbs(in)
  <2>1. CASE \E g \in Rowed!Finished(new.local) : g.db = x /\ CountsHere(g, new)
    <3>1. PICK g \in Rowed!Finished(new.local) : g.db = x /\ CountsHere(g, new)
      BY <2>1
    <3>2. g \in Rowed!Finished(in.local) /\ g \in in.local
      BY <1>2, <3>1, ShownUnlessHidden
    <3>3. g.db \notin LocalOnly => g.id = g.db
      BY <3>2, FormedSays
    <3>4. g.db \notin LocalOnly => (Serves(new, g.id) => Serves(in, g.id))
      BY <1>7, <1>8, <3>1, <3>3
    <3>5. CountsHere(g, in)
      BY <1>2, <1>5, <1>6, <3>1, <3>4 DEF CountsHere
    <3> QED BY <3>1, <3>2, <3>5, CountedIs
  <2>2. CASE Gives(new, x) /\ Serves(new, x) /\ ~\E g \in Rowed!Finished(new.local) : g.id = x
    <3>1. Gives(in, x) /\ Serves(in, x)
      BY <1>6, <1>7, <1>8, <2>2
    <3> QED BY <1>2, <2>2, <3>1, CountedIs
  <2> QED BY <1>4, <2>1, <2>2, CountedIs
<1> QED BY <1>4, <1>7, <1>8 DEF ResaidTo

\* What an action leaves settles the invariant, once its lists are well formed and it is known
\* how many more count.
LEMMA DoesSettle ==
  ASSUME Rowed!IndInv, NEW is, NEW db, NEW l, NEW v, Rowed!Does(is, db, l, v), is # "nothing",
         Rowed!WellFormed(s1'),
         is = "create" /\ Rowed!CreateTarget(s1) = "synced" =>
            \E row \in Rowed!Rows(s1') : row.db = NewLocal /\ Rowed!MayPromote(s1', row),
         \/ Cardinality(CountedDbs(s1')) <= Cardinality(CountedDbs(s1))
         \/ /\ Rowed!RoomForOne(s1)
            /\ Cardinality(CountedDbs(s1')) <= Cardinality(CountedDbs(s1)) + 1
         \/ /\ is = "forget"
            /\ \E g \in s1.local \ Rowed!Finished(s1.local) : g \in Rowed!Finished(s1'.local)
  PROVE  Rowed!IndInv'
<1>1. s3' = [is |-> is, db |-> db] /\ s2' = s1 /\ s1' = Relists(s1, l, v)
  BY Zenon DEF Rowed!Does, Relists
<1>2. Rowed!WellFormed(s1)
  BY DEF Rowed!IndInv
<1>3. s1'.limit = s1.limit /\ s1.limit \in Int
  <2>1. Keeps(s1, s1', l, v)
    BY <1>1, <1>2, Relisted, Zenon
  <2> QED BY <1>2, <2>1, FormedSays DEF Keeps
<1>4. s3'.is = is
  BY <1>1
<1> DEFINE m == Rowed!OwnedCount(s1)  n == Rowed!OwnedCount(s1')
<1>5. m \in Nat /\ n \in Nat
      /\ m = Cardinality(CountedDbs(s1)) /\ n = Cardinality(CountedDbs(s1'))
  BY <1>2, CountIs
<1>6. /\ Rowed!OverLimit(s1') <=> s1.limit # -1 /\ n > s1.limit
      /\ Rowed!OverLimit(s1) <=> s1.limit # -1 /\ m > s1.limit
      /\ Rowed!RoomForOne(s1) <=> s1.limit = -1 \/ m < s1.limit
  <2> HIDE DEF m, n
  <2> QED BY <1>3, Zenon DEF Rowed!OverLimit, Rowed!RoomForOne, Rowed!Unlimited, m, n
<1> HIDE DEF m, n
<1>7. Rowed!OverLimit(s1') =>
         \/ Rowed!OverLimit(s1) /\ n <= m
         \/ /\ is = "forget"
            /\ \E g \in s1.local \ Rowed!Finished(s1.local) : g \in Rowed!Finished(s1'.local)
  <2>1. CASE n <= m
    BY <1>3, <1>5, <1>6, <2>1
  <2>2. CASE Rowed!RoomForOne(s1) /\ n <= m + 1
    BY <1>3, <1>5, <1>6, <2>2
  <2> QED BY <1>5, <2>1, <2>2
<1>8. \A r, s \in Rowed!Rows(s1') : r # s => r.db # s.db /\ (r.id = None \/ r.id # s.id)
  BY RowsDiffer
<1>9. Rowed!CountedOnce'
  <2>1. Rowed!RowFor(NewLocal)' = {row \in Rowed!Rows(s1') : row.db = NewLocal}
    BY DEF Rowed!RowFor
  <2>2. Rowed!ShowsLeftover' <=>
           \E g \in s1.local \ Rowed!Finished(s1.local) : g \in Rowed!Finished(s1'.local)
    BY <1>1 DEF Rowed!ShowsLeftover
  <2>3. Rowed!OverLimit(s1') =>
           \/ Rowed!OverLimit(s2') /\ n <= Rowed!OwnedCount(s2')
           \/ s3'.is = "forget" /\ Rowed!ShowsLeftover'
    BY <1>1, <1>4, <1>7, <2>2, Zenon DEF m
  <2>4. s3'.is = "create" /\ Rowed!CreateTarget(s2') = "synced" =>
           \E row \in Rowed!RowFor(NewLocal)' : Rowed!MayPromote(s1', row)
    BY <1>1, <1>4, <2>1
  <2> QED BY <1>8, <2>3, <2>4, Zenon DEF Rowed!CountedOnce, n
<1> QED BY <1>1, <1>2, <1>4, <1>9, Zenon DEF Rowed!IndInv

\* A project created to be put on the server may be put there, with itself counted in.
LEMMA CreateSettles == Rowed!IndInv /\ Rowed!Creates => Rowed!IndInv'
<1> SUFFICES ASSUME Rowed!IndInv, Rowed!Creates PROVE Rowed!IndInv'
  OBVIOUS
<1> DEFINE e == [db |-> NewLocal, id |-> None, role |-> None]
<1>1. Rowed!MayCreate(s1) /\ Rowed!Does("create", NewLocal, s1.local \cup {e}, s1.server)
  BY DEF Rowed!Creates
<1>2. Rowed!WellFormed(s1) /\ Rowed!Unborn(s1)
  BY <1>1 DEF Rowed!IndInv, Rowed!Does
<1>3. s1' = Relists(s1, s1.local \cup {e}, s1.server)
  BY <1>1, Zenon DEF Rowed!Does, Relists
<1>4. e.db = NewLocal /\ e.id = None
  OBVIOUS
<1>4a. e = [db |-> NewLocal, id |-> None, role |-> None]
  OBVIOUS
<1> HIDE DEF e
<1>5. /\ Rowed!WellFormed(s1') /\ CountedDbs(s1') \subseteq CountedDbs(s1) \cup {NewLocal}
      /\ e \in Rowed!Finished(s1'.local)
  <2>1. CreatedTo(s1, e, s1')
    BY <1>2, <1>3, <1>4a, CreateCounts, Zenon
  <2> QED BY <2>1 DEF CreatedTo
<1>6. Rowed!RoomForOne(s1) /\ Cardinality(CountedDbs(s1')) <= Cardinality(CountedDbs(s1)) + 1
  BY <1>1, <1>2, <1>5, CountIs, OneMore DEF Rowed!MayCreate
<1>7. ASSUME Rowed!CreateTarget(s1) = "synced"
      PROVE  \E row \in Rowed!Rows(s1') : row.db = NewLocal /\ Rowed!MayPromote(s1', row)
  <2>1. Rowed!SignedIn(s1) /\ s1.online /\ s1.syncs
    BY <1>7 DEF Rowed!CreateTarget
  <2>2. Rowed!IsFresh(s1)
    BY <1>1, <1>7 DEF Rowed!MayCreate
  <2>3. /\ s1'.session = s1.session /\ s1'.online = s1.online /\ s1'.syncs = s1.syncs
        /\ s1'.limit = s1.limit /\ Rowed!IsFresh(s1') = Rowed!IsFresh(s1)
    <3>1. Keeps(s1, s1', s1.local \cup {e}, s1.server)
      BY <1>2, <1>3, Relisted, Zenon
    <3> QED BY <3>1 DEF Keeps
  <2>4. Rowed!ServerAnswers(s1') /\ s1'.syncs
    BY <2>1, <2>2, <2>3 DEF Rowed!ServerAnswers, Rowed!SignedIn
  <2>5. ~Rowed!OverLimit(s1')
    <3> DEFINE m == Rowed!OwnedCount(s1)  n == Rowed!OwnedCount(s1')
    <3>1. m \in Nat /\ n \in Nat /\ n <= m + 1
      BY <1>2, <1>5, <1>6, CountIs
    <3>2. s1.limit = -1 \/ m < s1.limit
      BY <1>6, Zenon DEF Rowed!RoomForOne, Rowed!Unlimited
    <3>3. Rowed!OverLimit(s1') <=> s1.limit # -1 /\ n > s1.limit
      BY <2>3, Zenon DEF Rowed!OverLimit, Rowed!Unlimited
    <3>4. s1.limit \in Int
      BY <1>2, FormedSays
    <3> HIDE DEF m, n
    <3> QED BY <3>1, <3>2, <3>3, <3>4
  <2> DEFINE row == Rowed!LocalRow(e, s1')
  <2>6. row.db = NewLocal /\ row.kind = "local-only" /\ row \in Rowed!Rows(s1')
    <3> DEFINE listed == {c \in Rowed!Heard(s1') : Rowed!Matches(e, c)}
    <3>1. e \in s1'.local /\ row \in Rowed!Rows(s1')
      BY <1>5, RowOf
    <3>2. row.db = e.db /\ row.kind = Rowed!KindOf(e, listed, Rowed!IsFresh(s1'))
      BY DEF Rowed!LocalRow
    <3>3. listed = {}
      BY <1>4, <1>5, <3>1, MatchesById, FormedSays
    <3>4. Rowed!KindOf(e, {}, Rowed!IsFresh(s1')) = "local-only"
      BY <1>4 DEF Rowed!KindOf
    <3> HIDE DEF row, listed
    <3> QED BY <1>4, <3>1, <3>2, <3>3, <3>4
  <2> HIDE DEF row
  <2>7. Rowed!MayPromote(s1', row)
    BY <2>4, <2>5, <2>6 DEF Rowed!MayPromote
  <2> QED BY <2>6, <2>7
<1> QED BY <1>1, <1>5, <1>6, <1>7, DoesSettle

\* A promotion leaves as many as it found, or fewer.
LEMMA PromoteSettles ==
  ASSUME Rowed!IndInv, NEW row \in Rowed!Rows(s1), Rowed!Promotes(row) PROVE Rowed!IndInv'
<1> DEFINE id == IF row.id = None THEN NewProject ELSE row.id
           f == Rowed!Copy([role |-> None], id)
           w == IF Rowed!ListedAs(id) # {} THEN s1.server ELSE Rowed!Listing(id, {Rowed!OnServer(id)})
           g == Rowed!EntryOf(row)
<1>1. /\ Rowed!MayPromote(s1, row)
      /\ Rowed!Does("promote", id, (s1.local \ {g}) \cup {f}, w)
  BY Zenon DEF Rowed!Promotes
<1>2. Rowed!WellFormed(s1) /\ Rowed!Unborn(s1)
  BY <1>1 DEF Rowed!IndInv, Rowed!Does
<1>3. Rowed!IsFresh(s1) /\ row.kind \in {"local-only", "promoting"}
  BY <1>1 DEF Rowed!MayPromote, Rowed!ServerAnswers
<1>4. PICK e \in Rowed!Finished(s1.local) :
         e \in s1.local /\ row.db = e.db /\ row.id = e.id /\ e.db \in LocalOnly
  BY <1>2, <1>3, KindSays
<1>5. g = e
  <2>1. \A a, b \in s1.local : a.db = b.db => a = b
    BY <1>2, FormedSays
  <2> QED BY <1>4, <2>1 DEF Rowed!EntryOf
<1>6. f = [db |-> id, id |-> id, role |-> "owner"]
  BY DEF Rowed!Copy
<1>7. id = IF e.id = None THEN NewProject ELSE e.id
  BY <1>4
<1>8. w = IF Knows(s1, id) THEN s1.server ELSE Rowed!Heard(s1) \cup {Rowed!OnServer(id)}
  <2> HIDE DEF id
  <2>1. Rowed!ListedAs(id) # {} <=> Knows(s1, id)
    BY DEF Rowed!ListedAs, Knows
  <2>2. Rowed!ListedAs(id) = {} => Rowed!Listing(id, {Rowed!OnServer(id)}) = Rowed!Heard(s1) \cup {Rowed!OnServer(id)}
    BY DEF Rowed!Listing
  <2> QED BY <2>1, <2>2
<1>9. s1' = Relists(s1, (s1.local \ {e}) \cup {f}, w)
  BY <1>1, <1>5, Zenon DEF Rowed!Does, Relists
<1> HIDE DEF id, f, w, g
<1>10. /\ Rowed!WellFormed(s1') /\ CountedDbs(s1') \subseteq (CountedDbs(s1) \ {e.db}) \cup {id}
       /\ id \in CountedDbs(s1') => e.db \in CountedDbs(s1)
  BY <1>2, <1>3, <1>4, <1>6, <1>7, <1>8, <1>9, PromoteCounts
<1>11. Cardinality(CountedDbs(s1')) <= Cardinality(CountedDbs(s1))
  BY <1>2, <1>10, CountIs, NoMore
<1> QED BY <1>1, <1>10, <1>11, DoesSettle

\* So does a download.
LEMMA DownloadSettles ==
  ASSUME Rowed!IndInv, NEW row \in Rowed!Rows(s1), Rowed!Downloads(row) PROVE Rowed!IndInv'
<1> DEFINE f == Rowed!Copy(row, row.id)
<1>1. Rowed!MayDownload(s1, row) /\ Rowed!Does("download", row.db, s1.local \cup {f}, s1.server)
  BY DEF Rowed!Downloads
<1>2. Rowed!WellFormed(s1) /\ row.kind = "server"
  BY <1>1 DEF Rowed!IndInv, Rowed!MayDownload
<1>3. PICK c \in Rowed!Heard(s1) : row.id = c.id /\ ~\E e \in Rowed!Finished(s1.local) : e.id = c.id
  BY <1>2, KindSays
<1>4. f.db = c.id /\ f.id = c.id /\ DOMAIN f = {"db", "id", "role"}
  BY <1>3 DEF Rowed!Copy
<1>5. s1' = Relists(s1, s1.local \cup {f}, s1.server)
  BY <1>1, Zenon DEF Rowed!Does, Relists
<1> HIDE DEF f
<1>6. Rowed!WellFormed(s1') /\ CountedDbs(s1') \subseteq CountedDbs(s1)
  BY <1>2, <1>3, <1>4, <1>5, DownloadCounts
<1>7. Cardinality(CountedDbs(s1')) <= Cardinality(CountedDbs(s1))
  BY <1>2, <1>6, CountIs, FS_Subset
<1> QED BY <1>1, <1>6, <1>7, DoesSettle

\* And a deletion, but for what it brings to light.
LEMMA ForgetSettles ==
  ASSUME Rowed!IndInv, NEW row \in Rowed!Rows(s1), Rowed!Forgets(row) PROVE Rowed!IndInv'
<1> DEFINE g == Rowed!EntryOf(row)
<1>1. /\ Rowed!MayRemoveLocal(s1, row) \/ Rowed!MayDeleteLocal(row)
      /\ Rowed!Does("forget", row.db, s1.local \ {g}, s1.server)
  BY DEF Rowed!Forgets
<1>2. /\ Rowed!WellFormed(s1)
      /\ row.kind \in {"local-only", "promoting", "synced", "remnant", "orphan"}
  BY <1>1 DEF Rowed!IndInv, Rowed!MayRemoveLocal, Rowed!MayDeleteLocal
<1>3. PICK e \in Rowed!Finished(s1.local) : e \in s1.local /\ row.db = e.db /\ row.id = e.id
  BY <1>2, KindSays
<1>4. g = e
  <2>1. \A a, b \in s1.local : a.db = b.db => a = b
    BY <1>2, FormedSays
  <2> QED BY <1>3, <2>1 DEF Rowed!EntryOf
<1>5. s1' = Relists(s1, s1.local \ {e}, s1.server)
  BY <1>1, <1>4, Zenon DEF Rowed!Does, Relists
<1> HIDE DEF g
<1>6. /\ Rowed!WellFormed(s1')
      /\ \/ \E h \in s1.local \ Rowed!Finished(s1.local) : h \in Rowed!Finished(s1'.local)
         \/ /\ CountedDbs(s1') \subseteq (CountedDbs(s1) \ {e.db}) \cup {e.id}
            /\ e.id \in CountedDbs(s1') => e.db \in CountedDbs(s1)
  <2>1. ForgottenTo(s1, e, s1')
    BY <1>2, <1>3, <1>5, ForgetCounts, Zenon
  <2> QED BY <2>1 DEF ForgottenTo
<1>7. CASE \E h \in s1.local \ Rowed!Finished(s1.local) : h \in Rowed!Finished(s1'.local)
  BY <1>1, <1>6, <1>7, DoesSettle
<1>8. CASE /\ CountedDbs(s1') \subseteq (CountedDbs(s1) \ {e.db}) \cup {e.id}
           /\ e.id \in CountedDbs(s1') => e.db \in CountedDbs(s1)
  <2>1. Cardinality(CountedDbs(s1')) <= Cardinality(CountedDbs(s1))
    BY <1>2, <1>6, <1>8, CountIs, NoMore
  <2> QED BY <1>1, <1>6, <2>1, DoesSettle
<1> QED BY <1>6, <1>7, <1>8

\* A fresh list names the project of a row once, if it named it at all.
LEMMA ListedOnce ==
  ASSUME Rowed!WellFormed(s1), NEW row \in Rowed!Rows(s1),
         row.kind \in {"server", "synced", "remnant"}, Rowed!IsFresh(s1)
  PROVE  \E c \in Rowed!Heard(s1) : c.id = row.id /\ Rowed!ListedAs(row.id) = {c}
<1>1. \E c \in Rowed!Heard(s1) : c.id = row.id
  <2>1. CASE row.kind = "server"
    <3>1. \E c \in Rowed!Heard(s1) : row.id = c.id
      BY <2>1, KindSays
    <3> QED BY <3>1
  <2>2. CASE row.kind \in {"synced", "remnant"}
    <3>1. \E e \in Rowed!Finished(s1.local) : row.id = e.id /\ Knows(s1, e.id)
      BY <2>2, KindSays
    <3> QED BY <3>1 DEF Knows
  <2> QED BY <2>1, <2>2
<1>2. PICK c \in Rowed!Heard(s1) : c.id = row.id
  BY <1>1
<1>3. \A b \in Rowed!Heard(s1) : b.id = c.id => b = c
  BY FormedSays, Zenon
<1>4. Rowed!ListedAs(row.id) = {c}
  BY <1>2, <1>3 DEF Rowed!ListedAs
<1> QED BY <1>2, <1>4

\* What the server is made to say of one project settles the invariant, if there is room for what
\* is put back.
LEMMA RelistSettles ==
  ASSUME Rowed!IndInv, NEW c \in Rowed!Heard(s1), NEW d \in Rowed!Sayings(s1),
         d.id = c.id, d.role = c.role, DOMAIN d = DOMAIN c,
         NEW is, is \notin {"nothing", "create", "forget"}, NEW db, NEW v, v = Rowed!Listing(c.id, {d}),
         Rowed!Does(is, db, s1.local, v), (d.archived \/ ~c.archived) \/ Rowed!RoomForOne(s1)
  PROVE  Rowed!IndInv'
<1>1. Rowed!WellFormed(s1) /\ Rowed!Unborn(s1)
  BY DEF Rowed!IndInv, Rowed!Does
<1>2. s1' = Relists(s1, s1.local, v)
  BY Zenon DEF Rowed!Does, Relists
<1>3. v = (Rowed!Heard(s1) \ {b \in Rowed!Heard(s1) : b.id = c.id}) \cup {d}
  BY DEF Rowed!Listing, Rowed!ListedAs
<1>4. ResaidTo(s1, c, d, s1')
  BY <1>1, <1>2, <1>3, RelistCounts, Zenon
<1>5. /\ Rowed!WellFormed(s1') /\ CountedDbs(s1') \subseteq CountedDbs(s1) \cup {c.id}
      /\ d.archived \/ ~c.archived => CountedDbs(s1') \subseteq CountedDbs(s1)
  BY <1>4 DEF ResaidTo
<1>6. /\ IsFiniteSet(CountedDbs(s1)) /\ IsFiniteSet(CountedDbs(s1'))
  BY <1>1, <1>5, CountIs
<1>7. CASE d.archived \/ ~c.archived
  <2>1. Cardinality(CountedDbs(s1')) <= Cardinality(CountedDbs(s1))
    BY <1>5, <1>6, <1>7, FS_Subset
  <2> QED BY <1>5, <2>1, DoesSettle
<1>8. CASE Rowed!RoomForOne(s1)
  <2>1. Cardinality(CountedDbs(s1')) <= Cardinality(CountedDbs(s1)) + 1
    BY <1>5, <1>6, OneMore
  <2> QED BY <1>5, <1>8, <2>1, DoesSettle
<1> QED BY <1>7, <1>8

\* What an action makes of what the server said is among what can be said.
LEMMA SayingsHave ==
  ASSUME NEW in, NEW c \in Rowed!Heard(in), NEW d,
         \/ d = [c EXCEPT !.archived = TRUE]
         \/ d = [c EXCEPT !.archived = FALSE, !.grace = FALSE]
         \/ d = [c EXCEPT !.readOnly = TRUE]
         \/ d = [c EXCEPT !.readOnly = FALSE]
  PROVE  d \in Rowed!Sayings(in)
<1> DEFINE Of(b) == {[b EXCEPT !.archived = TRUE], [b EXCEPT !.archived = FALSE, !.grace = FALSE],
                     [b EXCEPT !.readOnly = TRUE], [b EXCEPT !.readOnly = FALSE]}
           new == {Rowed!OnServer(id) : id \in {NewProject} \cup {e.id : e \in in.local}}
<1>1. d \in Of(c)
  BY Zenon
<1>2. Rowed!Sayings(in) = new \cup UNION {Of(b) : b \in Rowed!Heard(in)}
  BY Zenon DEF Rowed!Sayings
<1> HIDE DEF Of, new
<1> QED BY <1>1, <1>2

\* A project archived counts no more.
LEMMA ArchiveSettles ==
  ASSUME Rowed!IndInv, NEW row \in Rowed!Rows(s1), Rowed!Archives(row) PROVE Rowed!IndInv'
<1> DEFINE v == Rowed!Listing(row.id, {[c EXCEPT !.archived = TRUE] : c \in Rowed!ListedAs(row.id)})
<1>1. Rowed!MayRemoveServer(s1, row) /\ Rowed!Does("archive", row.db, s1.local, v)
  BY DEF Rowed!Archives
<1>2. Rowed!WellFormed(s1) /\ row.kind \in {"server", "synced", "remnant"} /\ Rowed!IsFresh(s1)
  BY <1>1 DEF Rowed!IndInv, Rowed!MayRemoveServer, Rowed!ServerAnswers
<1>3. PICK c \in Rowed!Heard(s1) : c.id = row.id /\ Rowed!ListedAs(row.id) = {c}
  BY <1>2, ListedOnce
<1> DEFINE d == [c EXCEPT !.archived = TRUE]
<1>4. d \in Rowed!Sayings(s1)
  BY SayingsHave, Zenon
<1>5. d.id = c.id /\ d.role = c.role /\ DOMAIN d = DOMAIN c /\ d.archived
  BY <1>2, FormedSays
<1>6. v = Rowed!Listing(c.id, {d})
  BY <1>3
<1> HIDE DEF v, d
<1> QED BY <1>1, <1>4, <1>5, <1>6, RelistSettles

\* One put back counts again, where there is room for it.
LEMMA RestoreSettles ==
  ASSUME Rowed!IndInv, NEW row \in Rowed!Rows(s1), Rowed!Restores(row) PROVE Rowed!IndInv'
<1> DEFINE Now(c) == [c EXCEPT !.archived = FALSE, !.grace = FALSE]
           v == Rowed!Listing(row.id, {Now(c) : c \in Rowed!ListedAs(row.id)})
<1>1. Rowed!MayRestore(s1, row) /\ Rowed!Does("restore", row.db, s1.local, v)
  BY Zenon DEF Rowed!Restores
<1>2. /\ Rowed!WellFormed(s1) /\ row.kind \in {"server", "synced", "remnant"} /\ Rowed!IsFresh(s1)
      /\ Rowed!RoomForOne(s1)
  <2>1. Rowed!WellFormed(s1)
    BY Zenon DEF Rowed!IndInv
  <2> HIDE DEF Now, v
  <2>2. Rowed!MayRestore(s1, row)
    BY <1>1, Zenon
  <2>3. row.kind \in {"server", "synced", "remnant"} /\ Rowed!IsFresh(s1) /\ Rowed!RoomForOne(s1)
    BY <2>2 DEF Rowed!MayRestore, Rowed!ServerAnswers
  <2> QED BY <2>1, <2>3, Zenon
<1>3. PICK c \in Rowed!Heard(s1) : c.id = row.id /\ Rowed!ListedAs(row.id) = {c}
  BY <1>2, ListedOnce
<1> DEFINE d == Now(c)
<1>4. d \in Rowed!Sayings(s1)
  BY SayingsHave, Zenon
<1>5. d.id = c.id /\ d.role = c.role /\ DOMAIN d = DOMAIN c
  <2> DEFINE b == [c EXCEPT !.archived = FALSE]
  <2>1. DOMAIN c = {"id", "role", "archived", "readOnly", "grace"}
    BY <1>2, FormedSays
  <2>2. b.id = c.id /\ b.role = c.role /\ DOMAIN b = DOMAIN c
    BY <2>1
  <2>3. d = [b EXCEPT !.grace = FALSE]
    BY Zenon
  <2> HIDE DEF b, d
  <2> QED BY <2>1, <2>2, <2>3
<1> HIDE DEF Now
<1>6. v = Rowed!Listing(c.id, {d})
  BY <1>3
<1> HIDE DEF v, d
<1> QED BY <1>1, <1>2, <1>4, <1>5, <1>6, RelistSettles

\* A slot taken or freed is no project more or less.
LEMMA SwapSettles ==
  ASSUME Rowed!IndInv, NEW row \in Rowed!Rows(s1), NEW readOnly \in BOOLEAN,
         Rowed!SetsReadOnly(row, readOnly)
  PROVE  Rowed!IndInv'
<1> DEFINE v == Rowed!Listing(row.id, {[c EXCEPT !.readOnly = readOnly] : c \in Rowed!ListedAs(row.id)})
<1>1. /\ IF readOnly THEN Rowed!MayMakeReadOnly(s1, row) ELSE Rowed!MayKeepActive(s1, row)
      /\ Rowed!Does("swap", row.db, s1.local, v)
  BY DEF Rowed!SetsReadOnly
<1>2. Rowed!WellFormed(s1) /\ row.kind \in {"server", "synced", "remnant"} /\ Rowed!IsFresh(s1)
  BY <1>1 DEF Rowed!IndInv, Rowed!MayMakeReadOnly, Rowed!MayKeepActive, Rowed!ServerAnswers
<1>3. PICK c \in Rowed!Heard(s1) : c.id = row.id /\ Rowed!ListedAs(row.id) = {c}
  BY <1>2, ListedOnce
<1> DEFINE d == [c EXCEPT !.readOnly = readOnly]
<1>4. d \in Rowed!Sayings(s1)
  <2>1. readOnly = TRUE \/ readOnly = FALSE
    OBVIOUS
  <2> QED BY <2>1, SayingsHave, Zenon
<1>5. /\ d.id = c.id /\ d.role = c.role /\ DOMAIN d = DOMAIN c
      /\ d.archived \/ ~c.archived
  BY <1>2, FormedSays
<1>6. v = Rowed!Listing(c.id, {d})
  BY <1>3
<1> HIDE DEF v, d
<1> QED BY <1>1, <1>4, <1>5, <1>6, RelistSettles

\* At first nothing was done, and the lists are what they may be.
LEMMA RowsStart == Rowed!Init => Rowed!IndInv
<1> SUFFICES ASSUME Rowed!Init PROVE Rowed!IndInv
  OBVIOUS
<1>1. s1 \in Inputs /\ s2 = s1 /\ s3.is = "nothing"
  BY DEF Rowed!Init
<1>2. Rowed!WellFormed(s1) /\ Rowed!WellFormed(s2) /\ Rowed!Unborn(s1)
  BY <1>1, ListsAssumption
<1>3. \A r, s \in Rowed!Rows(s1) : r # s => r.db # s.db /\ (r.id = None \/ r.id # s.id)
  BY <1>2, RowsDiffer
<1>4. Rowed!OwnedCount(s1) <= Rowed!OwnedCount(s2)
  <2>1. Rowed!OwnedCount(s1) \in Nat /\ Rowed!OwnedCount(s2) = Rowed!OwnedCount(s1)
    BY <1>1, <1>2, CountIs
  <2> QED BY <2>1
<1>5. Rowed!OverLimit(s1) => Rowed!OverLimit(s2)
  BY <1>1
<1>6. Rowed!CountedOnce
  BY <1>1, <1>3, <1>4, <1>5, Zenon DEF Rowed!CountedOnce
<1> QED BY <1>1, <1>2, <1>6 DEF Rowed!IndInv

\* A step of the page leaves both lists well formed, and nobody over the limit who was not.
LEMMA RowsStep == Rowed!IndInv /\ [Rowed!Next]_slots => Rowed!IndInv'
<1> SUFFICES ASSUME Rowed!IndInv, [Rowed!Next]_slots PROVE Rowed!IndInv'
  OBVIOUS
<1>1. CASE Rowed!Creates
  BY <1>1, CreateSettles
<1>2. CASE \E row \in Rowed!Rows(s1) :
             \/ Rowed!Promotes(row) \/ Rowed!Downloads(row) \/ Rowed!Forgets(row)
             \/ Rowed!Archives(row) \/ Rowed!Restores(row)
             \/ \E readOnly \in BOOLEAN : Rowed!SetsReadOnly(row, readOnly)
  <2>1. PICK row \in Rowed!Rows(s1) :
             \/ Rowed!Promotes(row) \/ Rowed!Downloads(row) \/ Rowed!Forgets(row)
             \/ Rowed!Archives(row) \/ Rowed!Restores(row)
             \/ \E readOnly \in BOOLEAN : Rowed!SetsReadOnly(row, readOnly)
    BY <1>2
  <2>2. CASE Rowed!Promotes(row)
    BY <2>2, PromoteSettles
  <2>3. CASE Rowed!Downloads(row)
    BY <2>3, DownloadSettles
  <2>4. CASE Rowed!Forgets(row)
    BY <2>4, ForgetSettles
  <2>5. CASE Rowed!Archives(row)
    BY <2>5, ArchiveSettles
  <2>6. CASE Rowed!Restores(row)
    BY <2>6, RestoreSettles
  <2>7. CASE \E readOnly \in BOOLEAN : Rowed!SetsReadOnly(row, readOnly)
    BY <2>7, SwapSettles
  <2> QED BY <2>1, <2>2, <2>3, <2>4, <2>5, <2>6, <2>7
<1>3. CASE UNCHANGED slots
  <2>1. s1' = s1 /\ s2' = s2 /\ s3' = s3
    BY <1>3 DEF slots
  <2> QED BY <2>1 DEF Rowed!IndInv, Rowed!CountedOnce, Rowed!RowFor, Rowed!ShowsLeftover
<1> QED BY <1>1, <1>2, <1>3 DEF Rowed!Next

\* The invariant of the rows, on every page their lists can make (projects-model.ts).
THEOREM RowsInvariance == AlgorithmsSpec => [](part = "rows" => Rowed!IndInv)
<1>1. AlgorithmsInit => (part = "rows" => Rowed!IndInv)
  BY RowsStart DEF AlgorithmsInit
<1>2. (part = "rows" => Rowed!IndInv) /\ [AlgorithmsNext]_<<vars, part, slots>>
        => (part = "rows" => Rowed!IndInv)'
  <2> SUFFICES ASSUME part = "rows" => Rowed!IndInv, [AlgorithmsNext]_<<vars, part, slots>>, part' = "rows"
               PROVE  Rowed!IndInv'
    OBVIOUS
  <2>1. part' = part
    BY DEF AlgorithmsNext
  <2>2. [Rowed!Next]_slots
    BY <2>1, Zenon DEF AlgorithmsNext
  <2> QED BY <2>1, <2>2, RowsStep
<1> QED BY <1>1, <1>2, PTL DEF AlgorithmsSpec

\* OneOfEach, of projects: a project is one row and counts once, and no action that the page
\* offers takes an owner over the limit, but one that brings to light what it hid
\* (projects-model.ts, project-actions.ts).
THEOREM ProjectsCountOnce == AlgorithmsSpec => [](part = "rows" => Rowed!CountedOnce)
<1>1. (part = "rows" => Rowed!IndInv) => (part = "rows" => Rowed!CountedOnce)
  BY DEF Rowed!IndInv
<1> QED BY <1>1, RowsInvariance, PTL

-----------------------------------------------------------------------------
(* Rooms: a rename moves what was in the room, and nothing else (path.ts, list.ts). *)

\* A segment that was trimmed is one, and is trimmed.
LEMMA SegmentsTrim == \A x \in Segments : TrimmedTo(x) \in Segments /\ TrimmedTo(TrimmedTo(x)) = TrimmedTo(x)
<1>1. \A x \in Segments : TrimmedTo(TrimmedTo(x)) = TrimmedTo(x)
  BY PathsAssumption
<1>2. ASSUME NEW x \in Segments PROVE TrimmedTo(x) \in Segments
  <2>1. CASE x \in Spoken
    BY <2>1 DEF Segments
  <2>2. CASE \E y \in Spoken : x = TrimmedTo(y)
    <3>1. PICK y \in Spoken : x = TrimmedTo(y)
      BY <2>2
    <3>2. y \in Segments
      BY DEF Segments
    <3>3. TrimmedTo(x) = x
      BY <1>1, <3>1, <3>2
    <3> QED BY <3>3
  <2> QED BY <2>1, <2>2 DEF Segments
<1> QED BY <1>1, <1>2

\* The key of a path, segment by segment.
LEMMA KeyPlaces ==
  ASSUME NEW a \in Seq(Segments)
  PROVE  /\ Rooms!Key(a) = [i \in 1..Len(a) |-> FoldedTo(TrimmedTo(a[i]))] /\ Len(Rooms!Key(a)) = Len(a)
         /\ Rooms!Key(a) \in Seq({FoldedTo(TrimmedTo(x)) : x \in Segments})
BY DEF Rooms!Key

\* Being within a room, segment by segment.
LEMMA WithinPlaces ==
  ASSUME NEW a \in Seq(Segments), NEW b \in Seq(Segments)
  PROVE  Rooms!IsWithinRoom(a, b)
           <=> Len(b) <= Len(a) /\ \A i \in 1..Len(b) : FoldedTo(TrimmedTo(b[i])) = FoldedTo(TrimmedTo(a[i]))
<1> DEFINE T == {FoldedTo(TrimmedTo(x)) : x \in Segments}
           ka == Rooms!Key(a)
           kb == Rooms!Key(b)
<1>1. /\ ka \in Seq(T) /\ Len(ka) = Len(a) /\ \A i \in 1..Len(a) : ka[i] = FoldedTo(TrimmedTo(a[i]))
      /\ kb \in Seq(T) /\ Len(kb) = Len(b) /\ \A i \in 1..Len(b) : kb[i] = FoldedTo(TrimmedTo(b[i]))
  BY KeyPlaces
<1>2. Rooms!IsWithinRoom(a, b) <=> Len(kb) <= Len(ka) /\ SubSeq(kb, 1, Len(kb)) = SubSeq(ka, 1, Len(kb))
  BY DEF Rooms!IsWithinRoom, Rooms!IsPrefix
<1> HIDE DEF ka, kb, T
<1>3. CASE Len(b) <= Len(a)
  <2>1. /\ SubSeq(kb, 1, Len(kb)) = [i \in 1..Len(b) |-> kb[i]]
        /\ SubSeq(ka, 1, Len(kb)) = [i \in 1..Len(b) |-> ka[i]]
    BY <1>1, <1>3
  <2>2. SubSeq(kb, 1, Len(kb)) = SubSeq(ka, 1, Len(kb)) <=> \A i \in 1..Len(b) : kb[i] = ka[i]
    BY <2>1
  <2>3. 1..Len(b) \subseteq 1..Len(a)
    BY <1>3
  <2> QED BY <1>1, <1>2, <1>3, <2>2, <2>3
<1> QED BY <1>1, <1>2, <1>3

\* A path as it is kept, segment by segment.
LEMMA KeptPlaces ==
  ASSUME NEW a \in Seq(Segments)
  PROVE  LET n == Rooms!Normalise(a)
         IN n \in Seq(Segments) /\ Len(n) = Len(a) /\ \A i \in 1..Len(a) : n[i] = TrimmedTo(a[i])
BY SegmentsTrim DEF Rooms!Normalise

\* What r is, if it is t after s.
JoinedSo(S, s, t, r) ==
    /\ r \in Seq(S) /\ Len(r) = Len(s) + Len(t)
    /\ \A i \in 1..Len(r) : r[i] = IF i <= Len(s) THEN s[i] ELSE t[i - Len(s)]

\* Two paths joined, segment by segment.
LEMMA JoinedPlaces ==
  ASSUME NEW S, NEW s \in Seq(S), NEW t \in Seq(S), NEW r, r = s \o t PROVE JoinedSo(S, s, t, r)
BY ConcatProperties DEF JoinedSo

\* What the segments of r are, if it is the path a renamed.
RenamedSo(a, from, to, r) ==
    /\ Len(from) <= Len(a)
    /\ r \in Seq(Segments) /\ Len(r) = Len(to) + (Len(a) - Len(from))
    /\ \A i \in 1..Len(r) : FoldedTo(TrimmedTo(r[i])) = IF i <= Len(to) THEN FoldedTo(TrimmedTo(to[i]))
                               ELSE FoldedTo(TrimmedTo(a[i - Len(to) + Len(from)]))

\* A path renamed, segment by segment.
LEMMA RenamedPlaces ==
  ASSUME NEW a \in Seq(Segments), NEW from \in Seq(Segments), NEW to \in Seq(Segments),
         Rooms!IsWithinRoom(a, from), NEW r, r = Rooms!RenamedPath(a, from, to)
  PROVE  RenamedSo(a, from, to, r)
<1> DEFINE n == Rooms!Normalise(a)  t == Rooms!Normalise(to)
           rest == SubSeq(n, Len(from) + 1, Len(a))
<1>1. /\ n \in Seq(Segments) /\ Len(n) = Len(a) /\ \A i \in 1..Len(a) : n[i] = TrimmedTo(a[i])
      /\ t \in Seq(Segments) /\ Len(t) = Len(to) /\ \A i \in 1..Len(to) : t[i] = TrimmedTo(to[i])
  BY KeptPlaces
<1>2. r = t \o rest
  BY DEF Rooms!RenamedPath
<1>3. Len(from) \in Nat /\ Len(to) \in Nat /\ Len(a) \in Nat /\ Len(from) <= Len(a)
  BY WithinPlaces
<1> HIDE DEF n, t
<1>4. /\ rest \in Seq(Segments) /\ Len(rest) = Len(a) - Len(from)
      /\ \A i \in 1..Len(rest) : rest[i] = n[Len(from) + i]
  BY <1>1, <1>3
<1> HIDE DEF rest
<1>5. JoinedSo(Segments, t, rest, r)
  BY <1>1, <1>2, <1>4, JoinedPlaces, Zenon
<1>6. /\ r \in Seq(Segments) /\ Len(r) = Len(to) + Len(rest)
      /\ \A i \in 1..Len(r) : r[i] = IF i <= Len(to) THEN t[i] ELSE rest[i - Len(to)]
  BY <1>1, <1>5 DEF JoinedSo
<1>7. ASSUME NEW i \in 1..Len(r)
      PROVE  FoldedTo(TrimmedTo(r[i])) = IF i <= Len(to) THEN FoldedTo(TrimmedTo(to[i]))
                                   ELSE FoldedTo(TrimmedTo(a[i - Len(to) + Len(from)]))
  <2>1. CASE i <= Len(to)
    <3>1. i \in 1..Len(to) /\ r[i] = t[i]
      BY <1>3, <1>6, <2>1
    <3>2. r[i] = TrimmedTo(to[i])
      BY <1>1, <3>1, Zenon
    <3>3. to[i] \in Segments
      BY <3>1, ElementOfSeq
    <3>4. FoldedTo(TrimmedTo(r[i])) = FoldedTo(TrimmedTo(to[i]))
      BY <3>2, <3>3, SegmentsTrim, Zenon
    <3> QED BY <2>1, <3>4
  <2>2. CASE ~(i <= Len(to))
    <3> DEFINE k == i - Len(to) + Len(from)
    <3>1. i - Len(to) \in 1..Len(rest) /\ k \in 1..Len(a) /\ k = Len(from) + (i - Len(to))
      BY <1>3, <1>4, <1>6, <2>2
    <3>2. r[i] = n[k]
      BY <1>4, <1>6, <2>2, <3>1
    <3> HIDE DEF k
    <3>3. r[i] = TrimmedTo(a[k])
      BY <1>1, <3>1, <3>2, Zenon
    <3>4. a[k] \in Segments
      BY <3>1, ElementOfSeq
    <3>5. FoldedTo(TrimmedTo(r[i])) = FoldedTo(TrimmedTo(a[k]))
      BY <3>3, <3>4, SegmentsTrim, Zenon
    <3> QED BY <2>2, <3>5 DEF k
  <2> QED BY <2>1, <2>2
<1> QED BY <1>3, <1>4, <1>6, <1>7 DEF RenamedSo

\* What was in the old room is as deep in the new one, and not in the old one any more, but for a
\* room renamed into itself or to one that it is in.
LEMMA RenamedMoves ==
  ASSUME NEW a \in Seq(Segments), NEW from \in Seq(Segments), NEW to \in Seq(Segments),
         Rooms!IsWithinRoom(a, from), NEW r, r = Rooms!RenamedPath(a, from, to)
  PROVE  /\ Rooms!Key(r) = Rooms!Key(to) \o SubSeq(Rooms!Key(a), Len(from) + 1, Len(a))
         /\ Rooms!IsWithinRoom(r, from) => Rooms!IsWithinRoom(to, from) \/ Rooms!IsWithinRoom(from, to)
<1> DEFINE T == {FoldedTo(TrimmedTo(x)) : x \in Segments}
           ka == Rooms!Key(a)  kt == Rooms!Key(to)  kr == Rooms!Key(r)
           rest == SubSeq(ka, Len(from) + 1, Len(a))
<1>1. /\ Len(from) <= Len(a) /\ Len(from) \in Nat /\ Len(to) \in Nat /\ Len(a) \in Nat
      /\ r \in Seq(Segments) /\ Len(r) = Len(to) + (Len(a) - Len(from))
      /\ \A i \in 1..Len(r) : FoldedTo(TrimmedTo(r[i])) = IF i <= Len(to) THEN FoldedTo(TrimmedTo(to[i]))
                                 ELSE FoldedTo(TrimmedTo(a[i - Len(to) + Len(from)]))
  <2>1. RenamedSo(a, from, to, r)
    BY RenamedPlaces, Zenon
  <2> QED BY <2>1 DEF RenamedSo
<1>2. /\ ka \in Seq(T) /\ Len(ka) = Len(a) /\ \A i \in 1..Len(a) : ka[i] = FoldedTo(TrimmedTo(a[i]))
      /\ kt \in Seq(T) /\ Len(kt) = Len(to) /\ \A i \in 1..Len(to) : kt[i] = FoldedTo(TrimmedTo(to[i]))
      /\ kr \in Seq(T) /\ Len(kr) = Len(r) /\ \A i \in 1..Len(r) : kr[i] = FoldedTo(TrimmedTo(r[i]))
  BY <1>1, KeyPlaces
<1>3. kr = kt \o rest
  <2> HIDE DEF ka, kt, kr, T
  <2>1. /\ rest \in Seq(T) /\ Len(rest) = Len(a) - Len(from)
        /\ \A i \in 1..Len(rest) : rest[i] = ka[Len(from) + i]
    BY <1>1, <1>2
  <2> HIDE DEF rest
  <2> DEFINE joined == kt \o rest
  <2>2. JoinedSo(T, kt, rest, joined)
    BY <1>2, <2>1, JoinedPlaces, Zenon
  <2>3. /\ joined \in Seq(T) /\ Len(joined) = Len(kr)
        /\ \A i \in 1..Len(kr) : joined[i] = IF i <= Len(to) THEN kt[i] ELSE rest[i - Len(to)]
    <3> HIDE DEF joined
    <3> QED BY <1>1, <1>2, <2>1, <2>2 DEF JoinedSo
  <2> HIDE DEF joined
  <2>4. ASSUME NEW i \in 1..Len(kr) PROVE joined[i] = kr[i]
    <3>1. CASE i <= Len(to)
      <4>1. i \in 1..Len(to) /\ i \in 1..Len(r)
        BY <1>1, <1>2, <3>1
      <4> QED BY <1>1, <1>2, <2>3, <3>1, <4>1
    <3>2. CASE ~(i <= Len(to))
      <4> DEFINE k == i - Len(to) + Len(from)
      <4>1. i \in 1..Len(r) /\ i - Len(to) \in 1..Len(rest) /\ k \in 1..Len(a) /\ k = Len(from) + (i - Len(to))
        BY <1>1, <1>2, <2>1, <3>2
      <4>2. joined[i] = ka[k]
        BY <1>1, <1>2, <2>1, <2>3, <3>2, <4>1
      <4>3. kr[i] = FoldedTo(TrimmedTo(a[k]))
        BY <1>1, <1>2, <3>2, <4>1
      <4> HIDE DEF k
      <4> QED BY <1>2, <4>1, <4>2, <4>3
    <3> QED BY <3>1, <3>2
  <2>5. joined = kr
    BY <1>2, <2>3, <2>4, SeqEqual
  <2> QED BY <2>5 DEF joined
<1>4. ASSUME Rooms!IsWithinRoom(r, from)
      PROVE  Rooms!IsWithinRoom(to, from) \/ Rooms!IsWithinRoom(from, to)
  <2>1. Len(from) <= Len(r) /\ \A i \in 1..Len(from) : FoldedTo(TrimmedTo(from[i])) = FoldedTo(TrimmedTo(r[i]))
    BY <1>1, <1>4, WithinPlaces
  <2>2. ASSUME NEW i \in 1..Len(from), i <= Len(to) PROVE FoldedTo(TrimmedTo(from[i])) = FoldedTo(TrimmedTo(to[i]))
    <3>1. i \in 1..Len(r)
      BY <1>1, <2>1
    <3> QED BY <1>1, <2>1, <2>2, <3>1
  <2>3. CASE Len(from) <= Len(to)
    <3>1. \A i \in 1..Len(from) : i <= Len(to)
      BY <1>1, <2>3
    <3> QED BY <2>2, <2>3, <3>1, WithinPlaces
  <2>4. CASE Len(to) <= Len(from)
    <3>1. \A i \in 1..Len(to) : i \in 1..Len(from) /\ i <= Len(to)
      BY <1>1, <2>4
    <3>2. \A i \in 1..Len(to) : FoldedTo(TrimmedTo(to[i])) = FoldedTo(TrimmedTo(from[i]))
      BY <2>2, <3>1
    <3> QED BY <2>4, <3>2, WithinPlaces
  <2> QED BY <1>1, <2>3, <2>4
<1> QED BY <1>3, <1>4

\* At first nothing has been done to the devices that are filed.
LEMMA RoomsStart == Rooms!Init => Rooms!IndInv
BY DEF Rooms!Init, Rooms!IndInv, Rooms!RenamedAway

\* A device of a project whose rooms were renamed: it was not in the old room and is as it was, or
\* it was there and bears the path renamed.
LEMMA RenamedOne ==
  ASSUME s1 \in Filed, NEW from \in Written, NEW to \in Written, Rooms!Renames(from, to),
         NEW i \in DOMAIN s1
  PROVE  LET room == s1[i].room
         IN IF room # <<>> /\ Rooms!IsWithinRoom(room, from)
              THEN s1'[i].room = Rooms!RenamedPath(room, from, to)
              ELSE s1'[i] = s1[i]
<1> DEFINE room == s1[i].room
           paths == [k \in DOMAIN s1 |-> s1[k].room]
           renamed == Rooms!RenameRoom(paths, from, to)
           to1 == Rooms!RenamedPath(room, from, to)
<1>1. s1' = [k \in DOMAIN s1 |-> IF k \in DOMAIN renamed THEN [s1[k] EXCEPT !.room = renamed[k]]
                                ELSE s1[k]]
  BY Zenon DEF Rooms!Renames
<1>2. /\ i \in DOMAIN renamed <=> room # <<>> /\ to1 # room
      /\ i \in DOMAIN renamed => renamed[i] = to1
  <2>1. paths[i] = room /\ DOMAIN paths = DOMAIN s1
    OBVIOUS
  <2> DEFINE changed == {d \in DOMAIN paths : paths[d] # <<>> /\ Rooms!RenamedPath(paths[d], from, to) # paths[d]}
  <2>2. renamed = [d \in changed |-> Rooms!RenamedPath(paths[d], from, to)]
    BY DEF Rooms!RenameRoom
  <2>3. i \in changed <=> room # <<>> /\ to1 # room
    BY <2>1, Zenon
  <2> HIDE DEF changed, paths, room, renamed
  <2> QED BY <2>1, <2>2, <2>3 DEF room
<1> HIDE DEF renamed
<1>3. s1'[i] = IF i \in DOMAIN renamed THEN [s1[i] EXCEPT !.room = renamed[i]] ELSE s1[i]
  BY <1>1
<1>4. DOMAIN s1[i] = {"room", "disabled"} /\ Rooms!Normalise(room) = room
  BY PathsAssumption
<1>5. i \in DOMAIN renamed => s1'[i].room = to1
  BY <1>2, <1>3, <1>4
<1>6. ~Rooms!IsWithinRoom(room, from) => to1 = room
  BY <1>4 DEF Rooms!RenamedPath
<1> HIDE DEF room, to1
<1>7. room # <<>> /\ Rooms!IsWithinRoom(room, from) => s1'[i].room = to1
  BY <1>2, <1>3, <1>5 DEF room
<1>8. ~(room # <<>> /\ Rooms!IsWithinRoom(room, from)) => s1'[i] = s1[i]
  BY <1>2, <1>3, <1>6
<1> QED BY <1>7, <1>8, Zenon DEF room, to1

\* A step of the rooms is one rename, or files one device.
LEMMA RoomsStep == Rooms!IndInv /\ [Rooms!Next]_slots => Rooms!IndInv'
<1> SUFFICES ASSUME Rooms!IndInv, [Rooms!Next]_slots PROVE Rooms!IndInv'
  OBVIOUS
<1>1. CASE UNCHANGED slots
  <2>1. s1' = s1 /\ s2' = s2 /\ s3' = s3
    BY <1>1 DEF slots
  <2> QED BY <2>1 DEF Rooms!IndInv, Rooms!RenamedAway
<1>2. ASSUME NEW path \in Written, Rooms!Next, Rooms!Files(path) PROVE Rooms!IndInv'
  <2>1. s3' = [is |-> "filed", path |-> path] /\ s3' # None
    BY <1>2, PathsAssumption DEF Rooms!Files
  <2> QED BY <2>1 DEF Rooms!IndInv, Rooms!RenamedAway
<1>3. ASSUME NEW from \in Written, NEW to \in Written, Rooms!Next, Rooms!Renames(from, to)
      PROVE  Rooms!IndInv'
  <2>1. s3' = [is |-> "renamed", from |-> from, to |-> to] /\ s3' # None
    BY <1>3, PathsAssumption DEF Rooms!Renames
  <2>2. s2' = s1 /\ s1 \in Filed
    BY <1>3 DEF Rooms!Next, Rooms!IndInv
  <2>3. DOMAIN s1' = DOMAIN s1
    BY <1>3, Zenon DEF Rooms!Renames
  <2>4. from \in Seq(Segments) /\ to \in Seq(Segments)
    BY PathsAssumption
  <2>5. ASSUME NEW i \in DOMAIN s1
        PROVE  LET a == s1[i].room  r == s1'[i].room
               IN IF a # <<>> /\ Rooms!IsWithinRoom(a, from)
                    THEN /\ Rooms!Key(r) = Rooms!Key(to) \o SubSeq(Rooms!Key(a), Len(from) + 1, Len(a))
                         /\ Rooms!IsWithinRoom(r, from) =>
                              Rooms!IsWithinRoom(to, from) \/ Rooms!IsWithinRoom(from, to)
                    ELSE s1'[i] = s1[i]
    <3> DEFINE a == s1[i].room  r == s1'[i].room
    <3>1. a \in Seq(Segments)
      BY <2>2, PathsAssumption
    <3>2. IF a # <<>> /\ Rooms!IsWithinRoom(a, from) THEN r = Rooms!RenamedPath(a, from, to)
          ELSE s1'[i] = s1[i]
      BY <1>3, <2>2, RenamedOne, Zenon
    <3> HIDE DEF a, r
    <3>3. CASE a # <<>> /\ Rooms!IsWithinRoom(a, from)
      <4>1. /\ Rooms!Key(r) = Rooms!Key(to) \o SubSeq(Rooms!Key(a), Len(from) + 1, Len(a))
            /\ Rooms!IsWithinRoom(r, from) =>
                  Rooms!IsWithinRoom(to, from) \/ Rooms!IsWithinRoom(from, to)
        BY <2>4, <3>1, <3>2, <3>3, RenamedMoves, Zenon
      <4> QED BY <3>3, <4>1, Zenon DEF a, r
    <3>4. CASE ~(a # <<>> /\ Rooms!IsWithinRoom(a, from))
      BY <3>2, <3>4, Zenon DEF a, r
    <3> QED BY <3>3, <3>4
  <2>6. s3'.from = from /\ s3'.to = to
    BY <2>1
  <2>7. Rooms!RenamedAway'
    BY <2>2, <2>3, <2>5, <2>6, Zenon DEF Rooms!RenamedAway
  <2> QED BY <2>1, <2>7 DEF Rooms!IndInv
<1> QED BY <1>1, <1>2, <1>3 DEF Rooms!Next

\* The invariant of the rooms along every behaviour of the parts.
THEOREM RoomsInvariance == AlgorithmsSpec => [](part = "rooms" => Rooms!IndInv)
<1>1. AlgorithmsInit => (part = "rooms" => Rooms!IndInv)
  BY RoomsStart DEF AlgorithmsInit
<1>2. (part = "rooms" => Rooms!IndInv) /\ [AlgorithmsNext]_<<vars, part, slots>>
        => (part = "rooms" => Rooms!IndInv)'
  <2> SUFFICES ASSUME part = "rooms" => Rooms!IndInv,
                      [AlgorithmsNext]_<<vars, part, slots>>, part' = "rooms"
               PROVE  Rooms!IndInv'
    OBVIOUS
  <2>1. part = "rooms" /\ [Rooms!Next]_slots
    BY Zenon DEF AlgorithmsNext
  <2> QED BY <2>1, RoomsStep
<1> QED BY <1>1, <1>2, PTL DEF AlgorithmsSpec

\* WrittenReadsBack, of renames: whatever the paths, their spellings and the rooms inside, each room
\* that was in the old one is as deep in the new one, none is left behind but what repeats the
\* name, and nothing else has moved (list.ts, path.ts).
THEOREM RenamesMove == AlgorithmsSpec => [](part = "rooms" => Rooms!RenamedAway)
<1>1. (part = "rooms" => Rooms!IndInv) => (part = "rooms" => Rooms!RenamedAway)
  BY DEF Rooms!IndInv
<1> QED BY <1>1, RoomsInvariance, PTL
=============================================================================
