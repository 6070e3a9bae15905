--------------------------- MODULE InterfaceProofs ---------------------------
(***************************************************************************)
(* Theorems of MCInterface, for every number of projects, accounts,        *)
(* devices, rooms, builds and sends, and for any bounds: what the views    *)
(* show is what is open, what is written is what was meant, what is under  *)
(* way is shown, and a late answer undoes nothing.                         *)
(*                                                                         *)
(* A section for each part states what is kept besides its property: whose *)
(* every read, write, pass and code on its way is, and which of them still *)
(* counts.  The last section puts the parts together.                      *)
(***************************************************************************)
EXTENDS MCInterface, SequenceTheorems, TLAPS

(* 1. DevicePage.                                                               *)

PageInv == Page!PageTyped /\ Page!PageOwns /\ Page!MineOwned

LEMMA PageInit == Page!Init => PageInv
BY InterfaceAssumption DEF Page!Init, PageInv, Page!PageTyped, Page!PageOwns, Page!MineOwned, Page!OnPage, Page!Other

\* A read begins with nothing; an overtaken write is nobody's.
LEMMA PageParts ==
  /\ \A p \in Things, u \in Others : Page!Read(p, u) \in Page!ReadOf /\ Page!Blank(u) \in Page!View
  /\ \A u \in Others, refused \in BOOLEAN : [Page!Blank(u) EXCEPT !.refusedLocked = refused] \in Page!View
  /\ \A W \in SUBSET Page!WriteOf :
        LET left == {[w EXCEPT !.here = FALSE] : w \in W}
            past == {[w EXCEPT !.current = FALSE] : w \in {x \in W : x.here}} \cup {x \in W : ~x.here}
        IN /\ left \subseteq Page!WriteOf /\ \A w \in left : ~Page!Mine(w)
           /\ past \subseteq Page!WriteOf /\ \A w \in past : ~Page!Mine(w)
<1>1. /\ \A p \in Things, u \in Others : Page!Read(p, u) \in Page!ReadOf /\ Page!Blank(u) \in Page!View
      /\ \A u \in Others, refused \in BOOLEAN : [Page!Blank(u) EXCEPT !.refusedLocked = refused] \in Page!View
  BY DEF Page!Read, Page!ReadOf, Page!Blank, Page!View
<1>2. ASSUME NEW w \in Page!WriteOf
      PROVE  /\ [w EXCEPT !.here = FALSE] \in Page!WriteOf /\ ~Page!Mine([w EXCEPT !.here = FALSE])
             /\ [w EXCEPT !.current = FALSE] \in Page!WriteOf /\ ~Page!Mine([w EXCEPT !.current = FALSE])
             /\ ~w.here => ~Page!Mine(w)
  BY DEF Page!WriteOf, Page!Mine
<1>3. ASSUME NEW W \in SUBSET Page!WriteOf
      PROVE  LET left == {[w EXCEPT !.here = FALSE] : w \in W}
                 past == {[w EXCEPT !.current = FALSE] : w \in {x \in W : x.here}} \cup {x \in W : ~x.here}
             IN /\ left \subseteq Page!WriteOf /\ \A w \in left : ~Page!Mine(w)
                /\ past \subseteq Page!WriteOf /\ \A w \in past : ~Page!Mine(w)
  BY <1>2
<1> QED BY <1>1, <1>3

LEMMA DeviceAt ==
  ASSUME NEW d \in Page!Device, NEW rev \in Nat, NEW locked \in BOOLEAN
  PROVE  LET at == [d EXCEPT !.rev = rev, !.locked = locked]
         IN at \in Page!Device /\ at.of = d.of /\ at.uuid = d.uuid /\ at.rev = rev
BY DEF Page!Device

LEMMA PageStep == ASSUME PageInv, Page!Next PROVE PageInv'
<1> USE DEF PageInv
<1>1. ASSUME NEW uuid \in Others, Page!Goto(uuid) PROVE PageInv'
  <2>0. s1' \in Page!View
    <3>1. PICK refused : refused = (Page!OnPage /\ s1.refusedLocked)
      OBVIOUS
    <3>2. refused \in BOOLEAN
      BY <3>1 DEF Page!PageTyped, Page!View
    <3>3. s1' = [Page!Blank(uuid) EXCEPT !.refusedLocked = refused]
      BY <1>1, <3>1 DEF Page!Goto
    <3> QED BY <3>2, <3>3, PageParts
  <2>1. Page!PageTyped' /\ Page!MineOwned'
    BY <1>1, <2>0, PageParts DEF Page!Goto, Page!PageTyped, Page!Newest, Page!Overtaken, Page!OnPage, Page!MineOwned, Page!store
  <2>2. Page!PageOwns'
    BY <1>1 DEF Page!Goto, Page!PageTyped, Page!Blank, Page!Newest, Page!Read, Page!PageOwns, Page!OnPage, Page!store, Page!Owns
  <2> QED BY <2>1, <2>2
<1>2. CASE Page!Leave
  <2>1. Page!PageTyped' /\ Page!MineOwned'
    BY <1>2, PageParts DEF Page!Leave, Page!PageTyped, Page!OnPage, Page!Other, Page!MineOwned, Page!store
  <2>2. Page!PageOwns'
    BY <1>2 DEF Page!Leave, Page!PageOwns, Page!OnPage
  <2> QED BY <2>1, <2>2
<1>3. ASSUME NEW p \in Things, Page!Switch(p) PROVE PageInv'
  <2>1. /\ Page!OnPage' <=> Page!OnPage
        /\ Page!OnPage => s1.uuid \in Others /\ s1' \in Page!View
        /\ s6' \subseteq Page!ReadOf
    <3>1. Page!OnPage => s1.uuid \in Others /\ s1' \in Page!View
      BY <1>3 DEF Page!Switch, Page!PageTyped, Page!OnPage, Page!View
    <3>2. Page!OnPage' <=> Page!OnPage
      BY <1>3, <3>1, InterfaceAssumption DEF Page!Switch, Page!PageTyped, Page!OnPage, Page!Other, Page!View
    <3>3. s6' \subseteq Page!ReadOf
      BY <1>3, <3>1, PageParts DEF Page!Switch, Page!PageTyped, Page!Newest
    <3> QED BY <3>1, <3>2, <3>3
  <2>2. s7' \subseteq Page!WriteOf /\ \A w \in s7' : ~Page!Mine(w) \/ (~Page!OnPage /\ w \in s7)
    <3>1. s7 \in SUBSET Page!WriteOf /\ s7' = IF Page!OnPage THEN Page!Overtaken ELSE s7
      BY <1>3 DEF Page!Switch, Page!PageTyped
    <3>2. Page!Overtaken \subseteq Page!WriteOf /\ \A w \in Page!Overtaken : ~Page!Mine(w)
      BY <3>1, PageParts DEF Page!Overtaken
    <3> QED BY <3>1, <3>2
  <2>3. Page!PageTyped' /\ Page!MineOwned'
    <3>1. Page!PageTyped'
      BY <1>3, <2>1, <2>2 DEF Page!Switch, Page!PageTyped, Page!store
    <3>2. Page!MineOwned'
      BY <2>2 DEF Page!MineOwned, Page!Mine
    <3> QED BY <3>1, <3>2
  <2>4. Page!PageOwns'
    BY <1>3 DEF Page!Switch, Page!PageTyped, Page!Newest, Page!Read, Page!PageOwns, Page!OnPage, Page!store, Page!View, Page!Owns
  <2> QED BY <2>3, <2>4
<1>4. ASSUME NEW uuid \in Others, Page!News(uuid) PROVE PageInv'
  <2>1. /\ s1' = s1 /\ s2' = s2 /\ s7' = s7 /\ s5' \in BOOLEAN
        /\ s3' = s3 \/ (s3[s2][uuid] < Max.revs /\ s3' = [s3 EXCEPT ![s2][uuid] = @ + 1])
    BY <1>4 DEF Page!News, Page!Moved, Page!PageTyped
  <2>2. s3' \in [Things -> [Others -> 1..Max.revs]]
        /\ \A p \in Things, u \in Others : s3[p][u] <= s3'[p][u] /\ s3'[p][u] \in Nat
    BY <2>1, InterfaceAssumption DEF Page!PageTyped
  <2>3. /\ Page!OnPage => s6' = {Page!Read(s2, s1.uuid)} /\ s8' = s3'[s2][s1.uuid]
        /\ ~Page!OnPage => s6' = s6 /\ s8' = s8
    BY <1>4 DEF Page!News, Page!Newest
  <2>4. Page!OnPage => s1.uuid \in Others
    BY DEF Page!PageTyped, Page!View
  <2>8. s8' \in Nat /\ s6' \subseteq Page!ReadOf
    BY <2>2, <2>3, <2>4, PageParts DEF Page!PageTyped
  <2>5. Page!PageTyped'
    BY <2>1, <2>2, <2>8 DEF Page!PageTyped, Page!OnPage, Page!Other
  <2>6. Page!PageOwns'
    <3> SUFFICES ASSUME Page!OnPage PROVE Page!PageOwns'
      BY <2>1 DEF Page!PageOwns, Page!OnPage, Page!Other
    <3>1. s6' # {} /\ \A r \in s6' : r.of = s2 /\ r.uuid = s1.uuid /\ r.got = None
      <4> DEFINE read == Page!Read(s2, s1.uuid)
      <4>1. read.of = s2 /\ read.uuid = s1.uuid /\ read.got = None
        BY DEF Page!Read
      <4> HIDE DEF read
      <4>2. s6' = {read}
        BY <2>3 DEF read
      <4> QED BY <4>1, <4>2
    <3>2. s8' = s3'[s2][s1.uuid] /\ s8' \in Nat
      BY <2>2, <2>3, <2>4 DEF Page!PageTyped
    <3> QED BY <2>1, <3>1, <3>2 DEF Page!PageOwns, Page!OnPage, Page!Other, Page!Owns
  <2>7. Page!MineOwned'
    BY <2>1 DEF Page!MineOwned, Page!Mine, Page!OnPage, Page!Other, Page!Owns
  <2> QED BY <2>5, <2>6, <2>7
<1>5. ASSUME NEW uuid \in Others, Page!Quietly(uuid) PROVE PageInv'
  <2>1. /\ s1' = s1 /\ s2' = s2 /\ s7' = s7 /\ s5' = s5 /\ s6' = s6 /\ s8' = s8
        /\ s3[s2][uuid] < Max.revs /\ s3' = [s3 EXCEPT ![s2][uuid] = @ + 1]
    BY <1>5 DEF Page!Quietly, Page!Moved
  <2>2. s3' \in [Things -> [Others -> 1..Max.revs]]
        /\ \A p \in Things, u \in Others : s3[p][u] <= s3'[p][u] /\ s3'[p][u] \in Nat
    BY <2>1, InterfaceAssumption DEF Page!PageTyped
  <2>3. Page!PageTyped'
    BY <2>1, <2>2 DEF Page!PageTyped, Page!OnPage, Page!Other
  <2>4. Page!PageOwns'
    BY <2>1, <2>2 DEF Page!PageOwns, Page!PageTyped, Page!View, Page!OnPage, Page!Other, Page!Owns
  <2>5. Page!MineOwned'
    BY <2>1 DEF Page!MineOwned, Page!Mine, Page!OnPage, Page!Other, Page!Owns
  <2> QED BY <2>3, <2>4, <2>5
<1>6. CASE Page!ReadTakes
  <2>1. PICK r \in s6 : /\ s6' = (s6 \ {r}) \cup {[r EXCEPT !.taken = TRUE, !.got = Page!Found(r.of, r.uuid)]}
                        /\ UNCHANGED <<s1, s2, s3, s5, s7, s8>>
    BY <1>6 DEF Page!ReadTakes, Page!store
  <2> DEFINE found == Page!Found(r.of, r.uuid)
             got == [r EXCEPT !.taken = TRUE, !.got = found]
  <2>2. r \in Page!ReadOf /\ s3[r.of][r.uuid] \in Nat
    BY InterfaceAssumption DEF Page!PageTyped, Page!ReadOf
  <2>3. /\ found \in Page!Device \cup {None}
        /\ found # None => found.of = r.of /\ found.uuid = r.uuid /\ found.rev = s3[r.of][r.uuid]
    BY <2>2 DEF Page!Found, Page!Device, Page!ReadOf, Page!PageTyped
  <2>4. got \in Page!ReadOf /\ got.of = r.of /\ got.uuid = r.uuid /\ got.got = found
    BY <2>2, <2>3 DEF Page!ReadOf
  <2> HIDE DEF found, got
  <2>5. s6' = (s6 \ {r}) \cup {got}
    BY <2>1 DEF got, found
  <2>6. Page!PageTyped'
    BY <2>1, <2>4, <2>5 DEF Page!PageTyped, Page!OnPage, Page!Other
  <2>7. Page!PageOwns'
    BY <2>1, <2>3, <2>4, <2>5 DEF Page!PageOwns, Page!OnPage, Page!Other, Page!Owns
  <2>8. Page!MineOwned'
    BY <2>1 DEF Page!MineOwned, Page!Mine, Page!OnPage, Page!Other, Page!Owns
  <2> QED BY <2>6, <2>7, <2>8
<1>7. CASE Page!ReadAnswers
  <2>1. PICK r \in s6 : /\ r.taken /\ Page!OnPage /\ s6' = s6 \ {r}
                        /\ s1' = [s1 EXCEPT
                             !.device = r.got, !.loaded = TRUE, !.failed = FALSE,
                             !.refusedLocked = @ /\ ~Page!Unlocks(r.got),
                             !.failure = IF Page!Unlocks(r.got) THEN "none" ELSE @,
                             !.remarkError = IF Page!Unlocks(r.got) /\ @ = "storage" THEN "none" ELSE @]
                        /\ UNCHANGED <<s2, s3, s5, s7, s8>>
    BY <1>7 DEF Page!ReadAnswers, Page!store
  <2>2. r \in Page!ReadOf /\ s1 \in Page!View
    BY <2>1 DEF Page!PageTyped
  <2>3. s1' \in Page!View /\ s1'.device = r.got /\ s1'.uuid = s1.uuid
    <3> DEFINE lock == s1.refusedLocked /\ ~Page!Unlocks(r.got)
               failure == IF Page!Unlocks(r.got) THEN "none" ELSE s1.failure
               remark == IF Page!Unlocks(r.got) /\ s1.remarkError = "storage" THEN "none"
                         ELSE s1.remarkError
    <3>1. s1' = [s1 EXCEPT !.device = r.got, !.loaded = TRUE, !.failed = FALSE,
                           !.refusedLocked = lock, !.failure = failure, !.remarkError = remark]
      BY <2>1
    <3>2. /\ r.got \in Page!Device \cup {None} /\ lock \in BOOLEAN
          /\ failure \in {"none", "toggle", "delete"} /\ remark \in {"none", "blank", "storage"}
      BY <2>2 DEF Page!View, Page!ReadOf
    <3> HIDE DEF lock, failure, remark
    <3> QED BY <2>2, <3>1, <3>2 DEF Page!View
  <2>4. Page!PageTyped'
    BY <2>1, <2>3 DEF Page!PageTyped
  <2>5. Page!PageOwns'
    BY <2>1, <2>3 DEF Page!PageOwns, Page!Owns
  <2>6. Page!MineOwned'
    BY <2>1, <2>2, <2>3, InterfaceAssumption DEF Page!MineOwned, Page!Mine, Page!OnPage, Page!Other, Page!Owns
  <2> QED BY <2>4, <2>5, <2>6
<1>8. CASE Page!ReadFails
  <2>1. PICK r \in s6 : /\ Page!OnPage /\ s6' = s6 \ {r} /\ s1' = [s1 EXCEPT !.failed = TRUE]
                        /\ UNCHANGED <<s2, s3, s5, s7, s8>>
    BY <1>8 DEF Page!ReadFails, Page!store
  <2>2. s1 \in Page!View
    BY <2>1 DEF Page!PageTyped
  <2>3. s1' \in Page!View /\ s1'.device = s1.device /\ s1'.uuid = s1.uuid /\ s1'.failed
    BY <2>1, <2>2 DEF Page!View
  <2>4. Page!PageTyped'
    BY <2>1, <2>3 DEF Page!PageTyped
  <2>5. Page!PageOwns'
    BY <2>1, <2>3 DEF Page!PageOwns, Page!Owns
  <2>6. Page!MineOwned'
    BY <2>1, <2>3, InterfaceAssumption DEF Page!MineOwned, Page!Mine, Page!OnPage, Page!Other, Page!Owns
  <2> QED BY <2>4, <2>5, <2>6
<1>9. CASE Page!Looks
  <2>1. /\ Page!OnPage /\ UNCHANGED <<s2, s3, s5, s6, s7, s8>>
        /\ s1' = [s1 EXCEPT !.confirming = ~@] \/ s1' = [s1 EXCEPT !.remarkError = "blank"]
    BY <1>9 DEF Page!Looks, Page!store, Page!Shown
  <2>2. s1 \in Page!View
    BY <2>1 DEF Page!PageTyped
  <2>3. s1' \in Page!View /\ s1'.device = s1.device /\ s1'.uuid = s1.uuid /\ s1'.failed = s1.failed
    BY <2>1, <2>2 DEF Page!View
  <2>4. Page!PageTyped'
    BY <2>1, <2>3 DEF Page!PageTyped
  <2>5. Page!PageOwns'
    BY <2>1, <2>3 DEF Page!PageOwns, Page!Owns
  <2>6. Page!MineOwned'
    BY <2>1, <2>3, InterfaceAssumption DEF Page!MineOwned, Page!Mine, Page!OnPage, Page!Other, Page!Owns
  <2> QED BY <2>4, <2>5, <2>6
<1>10. ASSUME NEW kind \in {"toggle", "delete", "remark"}, Page!Acts(kind) PROVE PageInv'
  <2> DEFINE new == [to |-> s2, seen |-> s1.device, rev |-> s1.device.rev, kind |-> kind, tries |-> 1,
                     current |-> TRUE, here |-> TRUE]
  <2>1. /\ Page!OnPage /\ s1.device # None /\ UNCHANGED <<s2, s3, s5, s6, s8>>
        /\ s1' = [s1 EXCEPT !.busy = TRUE] /\ s7' = s7 \cup {new}
    BY <1>10 DEF Page!Acts, Page!store, Page!Shown
  <2>2. s1 \in Page!View
    BY <2>1 DEF Page!PageTyped
  <2>3. s1' \in Page!View /\ s1'.device = s1.device /\ s1'.uuid = s1.uuid /\ s1'.failed = s1.failed
    BY <2>1, <2>2 DEF Page!View
  <2>4. new \in Page!WriteOf /\ new.to = s2 /\ new.seen = s1.device
    BY <2>1, <2>2 DEF Page!View, Page!WriteOf, Page!Device, Page!PageTyped
  <2> HIDE DEF new
  <2>5. Page!PageTyped'
    BY <2>1, <2>3, <2>4 DEF Page!PageTyped
  <2>6. Page!PageOwns'
    BY <2>1, <2>3 DEF Page!PageOwns, Page!Owns
  <2>7. Page!MineOwned'
    BY <2>1, <2>3, <2>4, InterfaceAssumption
    DEF Page!MineOwned, Page!PageOwns, Page!Mine, Page!OnPage, Page!Other, Page!Owns
  <2> QED BY <2>5, <2>6, <2>7
<1>11. ASSUME NEW w \in s7, Page!Saves(w) PROVE PageInv'
  <2> DEFINE saved == [w.seen EXCEPT !.rev = w.rev + 1, !.locked = s5]
  <2>1. /\ s2' = s2 /\ s5' = s5 /\ s7' = s7 \ {w}
        /\ s3[w.to][w.seen.uuid] < Max.revs /\ s3' = [s3 EXCEPT ![w.to][w.seen.uuid] = @ + 1]
        /\ w.rev = s3[w.to][w.seen.uuid]
        /\ ~Page!Mine(w) => UNCHANGED <<s1, s6, s8>>
        /\ Page!Mine(w) => /\ s8' = w.rev + 1 /\ s6' = {}
                           /\ \/ s1' = [s1 EXCEPT !.busy = FALSE, !.remarkError = "none", !.device = saved]
                              \/ s1' = [s1 EXCEPT !.busy = FALSE, !.failure = "none", !.device = saved]
    BY <1>11 DEF Page!Saves, Page!Settles, Page!Landed, Page!Moved
  <2>2. w \in Page!WriteOf /\ w.seen \in Page!Device
    BY DEF Page!PageTyped, Page!WriteOf
  <2>3. saved \in Page!Device /\ saved.of = w.seen.of /\ saved.uuid = w.seen.uuid /\ saved.rev = w.rev + 1
    <3>1. w.rev + 1 \in Nat /\ s5 \in BOOLEAN
      BY <2>2 DEF Page!WriteOf, Page!PageTyped
    <3> QED BY <2>2, <3>1, DeviceAt
  <2> HIDE DEF saved
  <2>4. s3' \in [Things -> [Others -> 1..Max.revs]]
        /\ \A p \in Things, u \in Others : s3[p][u] <= s3'[p][u] /\ s3'[p][u] \in Nat
    BY <2>1, <2>2, InterfaceAssumption DEF Page!PageTyped, Page!WriteOf, Page!Device
  <2>5. CASE Page!Mine(w)
    <3>1. Page!OnPage /\ w.to = s2 /\ w.seen.of = s2 /\ w.seen.uuid = s1.uuid /\ s1 \in Page!View
      BY <2>5 DEF Page!MineOwned, Page!PageTyped, Page!Owns
    <3>2. s1' \in Page!View /\ s1'.device = saved /\ s1'.uuid = s1.uuid
      BY <2>1, <2>3, <2>5, <3>1 DEF Page!View
    <3>3. s3'[s2][s1.uuid] = w.rev + 1 /\ w.rev \in Nat
      BY <2>1, <2>2, <3>1 DEF Page!PageTyped, Page!View, Page!WriteOf, Page!Device
    <3>4. Page!PageTyped'
      BY <2>1, <2>4, <2>5, <3>2, <3>3 DEF Page!PageTyped
    <3>5. Page!PageOwns'
      BY <2>1, <2>3, <2>5, <3>1, <3>2, <3>3 DEF Page!PageOwns, Page!Owns
    <3>6. Page!MineOwned'
      BY <2>1, <3>2, InterfaceAssumption DEF Page!MineOwned, Page!Mine, Page!OnPage, Page!Other, Page!Owns
    <3> QED BY <3>4, <3>5, <3>6
  <2>6. CASE ~Page!Mine(w)
    <3>1. s1' = s1 /\ s6' = s6 /\ s8' = s8
      BY <2>1, <2>6
    <3>2. Page!PageTyped'
      BY <2>1, <2>4, <3>1 DEF Page!PageTyped, Page!OnPage, Page!Other
    <3>3. Page!PageOwns'
      BY <2>1, <2>4, <3>1 DEF Page!PageOwns, Page!PageTyped, Page!View, Page!OnPage, Page!Other, Page!Owns
    <3>4. Page!MineOwned'
      BY <2>1, <3>1 DEF Page!MineOwned, Page!Mine, Page!OnPage, Page!Other, Page!Owns
    <3> QED BY <3>2, <3>3, <3>4
  <2> QED BY <2>5, <2>6
<1>12. ASSUME NEW w \in s7, Page!Removes(w) PROVE PageInv'
  <2>1. CASE w.current
    <3>1. /\ s1' = None /\ s6' = {} /\ s7' = {[x EXCEPT !.here = FALSE] : x \in s7 \ {w}}
          /\ UNCHANGED <<s2, s3, s5, s8>>
      BY <1>12, <2>1 DEF Page!Removes, Page!Other
    <3>2. s7' \subseteq Page!WriteOf /\ \A x \in s7' : ~Page!Mine(x)
      BY <3>1, PageParts DEF Page!PageTyped
    <3> QED BY <3>1, <3>2 DEF Page!PageTyped, Page!PageOwns, Page!MineOwned, Page!OnPage, Page!Other, Page!Mine
  <2>2. CASE ~w.current
    <3>1. s7' = s7 \ {w} /\ UNCHANGED <<s1, s2, s3, s5, s6, s8>>
      BY <1>12, <2>2 DEF Page!Removes, Page!Settles
    <3> QED BY <3>1 DEF Page!PageTyped, Page!PageOwns, Page!MineOwned, Page!OnPage, Page!Other, Page!Mine, Page!Owns
  <2> QED BY <2>1, <2>2
<1>13. ASSUME NEW w \in s7, Page!TriesAgain(w) PROVE PageInv'
  <2> DEFINE again == [w EXCEPT !.tries = 2, !.rev = s3[w.to][w.seen.uuid]]
  <2>1. s7' = (s7 \ {w}) \cup {again} /\ UNCHANGED <<s1, s2, s3, s5, s6, s8>>
    BY <1>13 DEF Page!TriesAgain, Page!store
  <2>2. w \in Page!WriteOf /\ s3[w.to][w.seen.uuid] \in Nat
    BY InterfaceAssumption DEF Page!PageTyped, Page!WriteOf, Page!Device
  <2>3. /\ again \in Page!WriteOf /\ again.to = w.to /\ again.seen = w.seen
        /\ again.current = w.current /\ again.here = w.here
    BY <2>2 DEF Page!WriteOf
  <2> HIDE DEF again
  <2>4. Page!PageTyped' /\ Page!PageOwns'
    BY <2>1, <2>3 DEF Page!PageTyped, Page!PageOwns, Page!OnPage, Page!Other, Page!Owns
  <2>5. Page!MineOwned'
    BY <2>1, <2>3 DEF Page!MineOwned, Page!OnPage, Page!Other, Page!Mine, Page!Owns
  <2> QED BY <2>4, <2>5
<1>14. ASSUME NEW w \in s7, Page!Refused(w) PROVE PageInv'
  <2>1. s7' = s7 \ {w} /\ UNCHANGED <<s2, s3, s5, s6, s8>>
    BY <1>14 DEF Page!Refused, Page!Settles, Page!store
  <2>2. CASE ~Page!Mine(w)
    <3>1. s1' = s1
      BY <1>14, <2>2 DEF Page!Refused
    <3> QED BY <2>1, <3>1 DEF Page!PageTyped, Page!PageOwns, Page!MineOwned, Page!OnPage, Page!Other, Page!Mine, Page!Owns
  <2>3. CASE Page!Mine(w)
    <3>1. Page!OnPage /\ s1 \in Page!View /\ w.kind \in {"toggle", "delete", "remark"}
      BY <2>3 DEF Page!MineOwned, Page!PageTyped, Page!WriteOf
    <3>2. PICK lock \in BOOLEAN :
             IF w.kind = "remark"
             THEN s1' = [s1 EXCEPT !.busy = FALSE, !.remarkError = "storage", !.refusedLocked = lock]
             ELSE s1' = [s1 EXCEPT !.busy = FALSE, !.failure = w.kind, !.refusedLocked = lock]
      BY <1>14, <2>3 DEF Page!Refused, Page!PageTyped
    <3>3. s1' \in Page!View /\ s1'.device = s1.device /\ s1'.uuid = s1.uuid /\ s1'.failed = s1.failed
      <4>1. CASE w.kind = "remark"
        <5>1. s1' = [s1 EXCEPT !.busy = FALSE, !.remarkError = "storage", !.refusedLocked = lock]
          BY <3>2, <4>1, Zenon
        <5> QED BY <3>1, <5>1 DEF Page!View
      <4>2. CASE w.kind # "remark"
        <5>1. s1' = [s1 EXCEPT !.busy = FALSE, !.failure = w.kind, !.refusedLocked = lock]
          BY <3>2, <4>2, Zenon
        <5>2. w.kind \in {"none", "toggle", "delete"}
          BY <3>1, <4>2
        <5> QED BY <3>1, <5>1, <5>2 DEF Page!View
      <4> QED BY <4>1, <4>2, Zenon
    <3>4. Page!PageTyped'
      BY <2>1, <3>3 DEF Page!PageTyped
    <3>5. Page!PageOwns'
      BY <2>1, <3>1, <3>3 DEF Page!PageOwns, Page!Owns
    <3>6. Page!MineOwned'
      BY <2>1, <3>3, InterfaceAssumption DEF Page!MineOwned, Page!Mine, Page!OnPage, Page!Other, Page!Owns
    <3> QED BY <3>4, <3>5, <3>6
  <2> QED BY <2>2, <2>3
<1> QED
  BY <1>1, <1>2, <1>3, <1>4, <1>5, <1>6, <1>7, <1>8, <1>9, <1>10, <1>11, <1>12, <1>13, <1>14 DEF Page!Next

(* 2. DeviceList.                                                               *)

ListInv == List!ListTyped /\ List!ListOwns /\ List!BuildsOwn

ReadOfList == [of : Things, newest : BOOLEAN, got : List!Listing \cup {None}]

LEMMA ListInit == List!Init => ListInv /\ List!FilesAreOfTheProject /\ List!ExportingIsTrue
<1> SUFFICES ASSUME List!Init PROVE ListInv /\ List!FilesAreOfTheProject /\ List!ExportingIsTrue
  OBVIOUS
<1> DEFINE load == List!Fresh(s1)
<1>1. load \in ReadOfList /\ load.of = s1 /\ load.got = None
  BY DEF List!Init, List!Fresh, ReadOfList
<1> HIDE DEF load
<1>2. s6 = {load} /\ s3 = None /\ s12 = {} /\ s13 = {} /\ s7 \in Nat
  BY DEF List!Init, load
<1>3. s1 \in Things /\ s2 \in [Things -> {"plain", "locked"}]
  BY DEF List!Init
<1>4. /\ s4 \in BOOLEAN /\ s5 \in BOOLEAN /\ s8 \in BOOLEAN /\ s9 \in BOOLEAN /\ s10 \in BOOLEAN /\ s11 \in BOOLEAN
      /\ ~s4 /\ ~s8 /\ ~s9
  BY Zenon DEF List!Init
<1>5. List!DeviceListTypeOK
  BY <1>2, <1>3, <1>4 DEF List!DeviceListTypeOK
<1>6. List!ListTyped
  BY <1>1, <1>2, <1>5 DEF List!ListTyped, ReadOfList
<1>7. List!ListOwns /\ List!BuildsOwn /\ List!FilesAreOfTheProject /\ List!ExportingIsTrue
  BY <1>1, <1>2, <1>4 DEF List!ListOwns, List!BuildsOwn, List!FilesAreOfTheProject, List!ExportingIsTrue
<1> QED BY <1>6, <1>7 DEF ListInv

\* The reads after a new one: it alone is the newest.
LEMMA ListLoads ==
  ASSUME NEW p \in Things, s6 \subseteq ReadOfList,
         \A l \in s6 : l.got # None => l.got.of = l.of
  PROVE  /\ List!Load(p) \subseteq ReadOfList
         /\ \A l \in List!Load(p) : (l.newest => l.of = p) /\ (l.got # None => l.got.of = l.of)
<1>1. ASSUME NEW l \in s6
      PROVE  LET old == [l EXCEPT !.newest = FALSE]
             IN old \in ReadOfList /\ ~old.newest /\ (old.got # None => old.got.of = old.of)
  BY DEF ReadOfList
<1>2. LET new == List!Fresh(p)
      IN new \in ReadOfList /\ new.of = p /\ new.got = None
  BY DEF List!Fresh, ReadOfList
<1> QED BY <1>1, <1>2 DEF List!Load

LEMMA ListStep == ASSUME ListInv, List!Next PROVE ListInv'
<1> USE DEF ListInv
<1>1. s6 \subseteq ReadOfList /\ \A l \in s6 : l.got # None => l.got.of = l.of
  BY DEF List!ListTyped, List!ListOwns, ReadOfList
<1>2. CASE List!LoadTakes
  <2>1. PICK l \in s6 : /\ s6' = (s6 \ {l}) \cup {[l EXCEPT !.got = [of |-> l.of, is |-> s2[l.of]]]}
                        /\ UNCHANGED <<s1, s2, s3, s4, s5, s7, s8, s9, s10, s11, s12, s13>>
    BY <1>2 DEF List!LoadTakes, List!screen, List!export
  <2> DEFINE read == [l EXCEPT !.got = [of |-> l.of, is |-> s2[l.of]]]
  <2>2. read \in ReadOfList /\ read.of = l.of /\ read.newest = l.newest /\ read.got.of = l.of
    BY <1>1 DEF ReadOfList, List!Listing, List!ListTyped, List!DeviceListTypeOK
  <2> HIDE DEF read
  <2>3. s6' = (s6 \ {l}) \cup {read}
    BY <2>1 DEF read
  <2>4. List!ListTyped'
    BY <1>1, <2>1, <2>2, <2>3 DEF List!ListTyped, List!DeviceListTypeOK, ReadOfList
  <2>5. List!ListOwns'
    BY <2>1, <2>2, <2>3 DEF List!ListOwns
  <2>6. List!BuildsOwn'
    BY <2>1 DEF List!BuildsOwn
  <2> QED BY <2>4, <2>5, <2>6
<1>3. CASE List!LoadLands
  <2>1. PICK l \in s6 : /\ l.got # None /\ s6' = s6 \ {l}
                        /\ IF l.newest
                           THEN s3' = l.got /\ s4' = TRUE /\ s11' = (s11 /\ l.got.is = "locked")
                           ELSE UNCHANGED <<s3, s4, s11>>
                        /\ UNCHANGED <<s1, s2, s5, s7, s8, s9, s10, s12, s13>>
    BY <1>3 DEF List!LoadLands, List!export
  <2>2. l \in ReadOfList /\ l.got \in List!Listing /\ l.got.of = l.of
    BY <1>1, <2>1 DEF ReadOfList
  <2>3. List!ListTyped'
    <3>1. s11' \in BOOLEAN /\ s4' \in BOOLEAN
      BY <2>1, Zenon DEF List!ListTyped, List!DeviceListTypeOK
    <3>2. s3' \in List!Listing \cup {None} /\ (s4' <=> s3' # None)
      BY <2>1, <2>2, InterfaceAssumption DEF List!ListTyped, List!DeviceListTypeOK
    <3> QED BY <2>1, <3>1, <3>2 DEF List!ListTyped, List!DeviceListTypeOK
  <2>4. List!ListOwns'
    BY <2>1, <2>2 DEF List!ListOwns
  <2>5. List!BuildsOwn'
    BY <2>1 DEF List!BuildsOwn
  <2> QED BY <2>3, <2>4, <2>5
<1>4. CASE List!LoadFails
  <2>1. s6' \subseteq s6 /\ s5' = TRUE /\ UNCHANGED <<s1, s2, s3, s4, s7, s8, s9, s10, s11, s12, s13>>
    BY <1>4 DEF List!LoadFails, List!export
  <2> QED BY <2>1 DEF List!ListTyped, List!DeviceListTypeOK, List!ListOwns, List!BuildsOwn
<1>5. ASSUME NEW p \in Things, List!Arrives(p) PROVE ListInv'
  <2>1. /\ s2' = [s2 EXCEPT ![p] = IF @ = "plain" THEN "locked" ELSE "plain"]
        /\ s6' = s6 \/ (p = s1 /\ s6' = List!Load(p))
        /\ UNCHANGED <<s1, s3, s4, s5, s7, s8, s9, s10, s11, s12, s13>>
    BY <1>5 DEF List!Arrives, List!screen, List!export
  <2>2. s2' \in [Things -> {"plain", "locked"}]
    BY <2>1 DEF List!ListTyped, List!DeviceListTypeOK
  <2>3. s6' \subseteq ReadOfList /\ \A l \in s6' : (l.newest => l.of = s1) /\ (l.got # None => l.got.of = l.of)
    BY <1>1, <2>1, ListLoads DEF List!ListOwns
  <2>4. List!ListTyped'
    BY <2>1, <2>2, <2>3 DEF List!ListTyped, List!DeviceListTypeOK, ReadOfList
  <2>5. List!ListOwns' /\ List!BuildsOwn'
    BY <2>1, <2>3 DEF List!ListOwns, List!BuildsOwn
  <2> QED BY <2>4, <2>5
<1>6. CASE List!Cancels
  <2>1. /\ s7' = s7 + 1 /\ s8' = FALSE /\ s9' = FALSE
        /\ UNCHANGED <<s1, s2, s3, s4, s5, s6, s10, s11, s12, s13>>
    BY <1>6 DEF List!Cancels, List!Cancelled, List!screen
  <2>2. List!ListTyped' /\ List!ListOwns'
    <3>1. s8' \in BOOLEAN /\ s9' \in BOOLEAN
      BY <2>1, Zenon
    <3>2. s7' \in Nat
      BY <2>1 DEF List!ListTyped, List!DeviceListTypeOK
    <3>3. List!DeviceListTypeOK'
      BY <2>1, <3>1, <3>2 DEF List!ListTyped, List!DeviceListTypeOK
    <3> QED BY <2>1, <3>3 DEF List!ListTyped, List!ListOwns
  <2>3. List!BuildsOwn'
    BY <2>1 DEF List!BuildsOwn, List!ListTyped, List!DeviceListTypeOK
  <2> QED BY <2>2, <2>3
<1>7. ASSUME NEW p \in Things, List!Switch(p) PROVE ListInv'
  <2>1. /\ s1' = p /\ s7' = s7 + 1 /\ s8' = FALSE /\ s9' = FALSE
        /\ s3' = None /\ s4' = FALSE /\ s5' = FALSE /\ s11' = FALSE /\ s6' = List!Load(p)
        /\ UNCHANGED <<s2, s10, s12, s13>>
    BY <1>7 DEF List!Switch, List!SwitchCancels, List!Cancelled
  <2>2. s6' \subseteq ReadOfList /\ \A l \in s6' : (l.newest => l.of = p) /\ (l.got # None => l.got.of = l.of)
    BY <1>1, <2>1, ListLoads
  <2>3. List!ListTyped'
    <3>1. /\ s4' \in BOOLEAN /\ s5' \in BOOLEAN /\ s8' \in BOOLEAN /\ s9' \in BOOLEAN
          /\ s11' \in BOOLEAN /\ ~s4'
      BY <2>1, Zenon
    <3>2. s7' \in Nat
      BY <2>1 DEF List!ListTyped, List!DeviceListTypeOK
    <3>3. List!DeviceListTypeOK'
      BY <2>1, <3>1, <3>2 DEF List!ListTyped, List!DeviceListTypeOK
    <3> QED BY <2>1, <2>2, <3>3 DEF List!ListTyped, ReadOfList
  <2>4. List!ListOwns'
    BY <2>1, <2>2 DEF List!ListOwns
  <2>5. List!BuildsOwn'
    BY <2>1 DEF List!BuildsOwn, List!ListTyped, List!DeviceListTypeOK
  <2> QED BY <2>3, <2>4, <2>5
<1>8. ASSUME NEW reports \in BOOLEAN, List!Exports(reports) PROVE ListInv'
  <2>1. CASE List!Refused
    <3>1. /\ s11' = TRUE /\ s10' = FALSE
          /\ UNCHANGED <<s1, s2, s3, s4, s5, s6, s7, s8, s9, s12, s13>>
      BY <1>8, <2>1 DEF List!Exports
    <3> QED BY <3>1 DEF List!ListTyped, List!DeviceListTypeOK, List!ListOwns, List!BuildsOwn
  <2>2. CASE ~List!Refused
    <3> DEFINE new == [token |-> s7', from |-> s3, reports |-> reports]
    <3>1. /\ s4 /\ s7' = s7 + 1 /\ s8' = TRUE /\ s9' = reports /\ s10' = FALSE /\ s11' = FALSE
          /\ s12' = s12 \cup {new} /\ UNCHANGED <<s1, s2, s3, s4, s5, s6, s13>>
      BY <1>8, <2>2 DEF List!Exports
    <3>2. s3 \in List!Listing /\ s3.of = s1 /\ s3.is = "plain"
      BY <2>2, <3>1 DEF List!ListTyped, List!DeviceListTypeOK, List!ListOwns, List!Refused, List!Listing
    <3>3. /\ new.token = s7 + 1 /\ new.from = s3 /\ s7 \in Nat
          /\ new \in [token : Nat, from : List!Listing, reports : BOOLEAN]
      BY <3>1, <3>2 DEF List!ListTyped, List!DeviceListTypeOK
    <3> HIDE DEF new
    <3>4. List!ListTyped' /\ List!ListOwns'
      BY <3>1, <3>3 DEF List!ListTyped, List!DeviceListTypeOK, List!ListOwns
    <3>5. \A b \in s12 : b.token \in Nat /\ b.token <= s7
      BY DEF List!ListTyped, List!BuildsOwn
    <3>6. List!BuildsOwn'
      BY <3>1, <3>2, <3>3, <3>5 DEF List!BuildsOwn
    <3> QED BY <3>4, <3>6
  <2> QED BY <2>1, <2>2
<1>9. ASSUME NEW b \in s12, List!Settled(b)
      PROVE  s8' \in BOOLEAN /\ s9' \in BOOLEAN
  <2>1. CASE b.token # s7
    BY <1>9, <2>1, Zenon DEF List!Settled, List!ListTyped, List!DeviceListTypeOK
  <2>2. CASE b.token = s7
    <3>1. s8' = FALSE /\ s9' = (s9 /\ ~b.reports)
      BY <1>9, <2>2 DEF List!Settled
    <3> QED BY <3>1, Zenon
  <2> QED BY <2>1, <2>2
<1>10. CASE List!Delivers
  <2>1. PICK b \in s12 :
             /\ s12' = s12 \ {b} /\ List!Settled(b)
             /\ s13' = IF b.token = s7 THEN s13 \cup {[from |-> b.from, under |-> s1]} ELSE s13
             /\ UNCHANGED <<s1, s2, s3, s4, s5, s6, s7, s10, s11>>
    BY <1>10 DEF List!Delivers, List!screen
  <2>2. b.from \in List!Listing /\ s8' \in BOOLEAN /\ s9' \in BOOLEAN
    BY <1>9, <2>1 DEF List!ListTyped
  <2>3. List!ListTyped'
    BY <2>1, <2>2 DEF List!ListTyped, List!DeviceListTypeOK
  <2>4. List!ListOwns' /\ List!BuildsOwn'
    BY <2>1 DEF List!ListOwns, List!BuildsOwn
  <2> QED BY <2>3, <2>4
<1>11. CASE List!BuildFails
  <2>1. PICK b \in s12 :
             /\ s12' = s12 \ {b} /\ List!Settled(b)
             /\ s10' = (s10 \/ b.token = s7)
             /\ UNCHANGED <<s1, s2, s3, s4, s5, s6, s7, s11, s13>>
    BY <1>11 DEF List!BuildFails, List!screen
  <2>2. s8' \in BOOLEAN /\ s9' \in BOOLEAN
    BY <1>9, <2>1
  <2>3. s10' \in BOOLEAN
    BY <2>1, Zenon
  <2>4. List!ListTyped'
    BY <2>1, <2>2, <2>3 DEF List!ListTyped, List!DeviceListTypeOK
  <2>5. List!ListOwns' /\ List!BuildsOwn'
    BY <2>1 DEF List!ListOwns, List!BuildsOwn
  <2> QED BY <2>4, <2>5
<1> QED
  BY <1>2, <1>3, <1>4, <1>5, <1>6, <1>7, <1>8, <1>10, <1>11 DEF List!Next

\* Only the export of the token that stands hands a file over, and it is of the open project.
LEMMA FilesStep ==
  ASSUME ListInv, List!FilesAreOfTheProject, List!Next
  PROVE  List!FilesAreOfTheProject'
<1>1. List!ListOwns'
  BY ListStep DEF ListInv
<1>2. CASE List!Delivers
  <2>1. PICK b \in s12 :
             s13' = IF b.token = s7 THEN s13 \cup {[from |-> b.from, under |-> s1]} ELSE s13
    BY <1>2 DEF List!Delivers
  <2>2. b.token = s7 => b.from.of = s1 /\ b.from.is = "plain"
    BY DEF ListInv, List!BuildsOwn
  <2> QED BY <1>1, <2>1, <2>2 DEF List!FilesAreOfTheProject, List!ListOwns
<1>3. CASE ~List!Delivers
  <2>1. s13' = s13
    BY <1>3 DEF List!Next, List!LoadTakes, List!LoadLands, List!LoadFails, List!Cancels, List!BuildFails,
                List!Switch, List!Arrives, List!Exports, List!export
  <2> QED BY <1>1, <2>1 DEF List!FilesAreOfTheProject, List!ListOwns
<1> QED BY <1>2, <1>3

\* A token is one export's: what ends another leaves the page saying what it said.
LEMMA ExportingStep ==
  ASSUME ListInv, List!ExportingIsTrue, List!Next
  PROVE  List!ExportingIsTrue'
<1>1. s7 \in Nat /\ \A b \in s12 : b.token \in Nat /\ b.token <= s7
  BY DEF ListInv, List!ListTyped, List!DeviceListTypeOK, List!BuildsOwn
<1>2. ASSUME s7' = s7 + 1, s8' = FALSE, s9' = FALSE, s12' = s12
      PROVE  List!ExportingIsTrue'
  BY <1>1, <1>2 DEF List!ExportingIsTrue
<1>3. ASSUME NEW b \in s12, s12' = s12 \ {b}, List!Settled(b), s7' = s7
      PROVE  List!ExportingIsTrue'
  <2>1. CASE b.token # s7
    <3>1. s8' = s8 /\ s9' = s9
      BY <1>3, <2>1 DEF List!Settled
    <3> QED BY <1>3, <2>1, <3>1 DEF List!ExportingIsTrue
  <2>2. CASE b.token = s7
    <3>1. s8' = FALSE /\ ~s9'
      BY <1>3, <2>2 DEF List!Settled, List!ExportingIsTrue
    <3>2. \A c \in s12' : c.token # s7
      BY <1>3, <2>2 DEF ListInv, List!BuildsOwn
    <3> QED BY <1>3, <3>1, <3>2 DEF List!ExportingIsTrue
  <2> QED BY <2>1, <2>2
<1>4. ASSUME UNCHANGED <<s7, s8, s9, s12>> PROVE List!ExportingIsTrue'
  BY <1>4 DEF List!ExportingIsTrue
<1>5. CASE List!LoadTakes \/ List!LoadLands \/ List!LoadFails \/ \E p \in Things : List!Arrives(p)
  BY <1>4, <1>5 DEF List!LoadTakes, List!LoadLands, List!LoadFails, List!Arrives, List!export
<1>6. CASE List!Cancels \/ \E p \in Things : List!Switch(p)
  BY <1>2, <1>6 DEF List!Cancels, List!Switch, List!SwitchCancels, List!Cancelled
<1>7. CASE List!Delivers \/ List!BuildFails
  BY <1>3, <1>7 DEF List!Delivers, List!BuildFails
<1>8. ASSUME NEW reports \in BOOLEAN, List!Exports(reports) PROVE List!ExportingIsTrue'
  <2>1. CASE List!Refused
    BY <1>4, <1>8, <2>1 DEF List!Exports
  <2>2. CASE ~List!Refused
    <3> DEFINE new == [token |-> s7', from |-> s3, reports |-> reports]
    <3>1. s7' = s7 + 1 /\ s8' = TRUE /\ s9' = reports /\ s12' = s12 \cup {new}
      BY <1>8, <2>2 DEF List!Exports
    <3>2. new.token = s7 + 1 /\ new.reports = reports
      BY <3>1
    <3> HIDE DEF new
    <3> QED BY <1>1, <3>1, <3>2 DEF List!ExportingIsTrue
  <2> QED BY <2>1, <2>2
<1> QED BY <1>5, <1>6, <1>7, <1>8 DEF List!Next

(* 3. EditForm.                                                                 *)

EditInv == Edit!EditTyped /\ Edit!ReadsOwn /\ Edit!HoldsItsOwn

ReadOfEdit == [id : Things, newest : BOOLEAN, full : BOOLEAN, via : {"route", "reread"},
               got : Edit!Version \cup {None}]
SavingOfEdit == [device : Edit!Version, at : {"rooms", "writing", "reread"}, typed : Things \cup {None}]

LEMMA EditRead ==
  ASSUME NEW id \in Things, NEW full \in BOOLEAN, NEW via \in {"route", "reread"}
  PROVE  LET read == Edit!Read(id, full, via)
         IN read \in ReadOfEdit /\ read.id = id /\ read.via = via /\ read.got = None
BY DEF Edit!Read, ReadOfEdit

LEMMA EditHeld ==
  ASSUME s1 \in [Things -> [rev : Nat, locked : BOOLEAN]],
         NEW id \in Things, NEW via \in {"route", "reread"}
  PROVE  LET held == Edit!Held(id, via)
         IN held \in Edit!Version /\ held.id = id /\ held.via = via /\ Edit!Known(held)
BY DEF Edit!Held, Edit!Version, Edit!Known

LEMMA EditInit == Edit!Init => EditInv
<1> SUFFICES ASSUME Edit!Init PROVE EditInv
  OBVIOUS
<1>1. s1 \in [Things -> [rev : Nat, locked : BOOLEAN]] /\ \A id \in Things : s1[id].rev = 1
  BY DEF Edit!Init
<1> DEFINE read == Edit!Read(s2, TRUE, "route")
<1>2. s2 \in Things /\ read \in ReadOfEdit /\ read.id = s2 /\ read.got = None
  BY EditRead DEF Edit!Init
<1> HIDE DEF read
<1>3. s5 = {read} /\ s3 = None /\ s4 = None /\ s6 = None /\ s7 = "no"
  BY DEF Edit!Init, read
<1>4. Edit!EditTyped
  BY <1>1, <1>2, <1>3 DEF Edit!EditTyped, Edit!EditFormTypeOK, ReadOfEdit
<1> QED BY <1>2, <1>3, <1>4 DEF EditInv, Edit!ReadsOwn, Edit!HoldsItsOwn

\* A step that moves no revision back, and leaves the form what it holds.
LEMMA EditStep == ASSUME EditInv, Edit!Next PROVE EditInv'
<1> USE DEF EditInv
<1>1. /\ s5 \subseteq ReadOfEdit /\ s1 \in [Things -> [rev : Nat, locked : BOOLEAN]]
      /\ s3 # None => s3 \in Edit!Version /\ Edit!Known(s3)
      /\ s6 # None => s6 \in SavingOfEdit
  BY DEF Edit!EditTyped, Edit!EditFormTypeOK, ReadOfEdit, SavingOfEdit, Edit!Known
<1>2. ASSUME NEW id \in Things, Edit!Follows(id) PROVE EditInv'
  <2>1. s2' = id /\ s3' = None /\ s5' = Edit!Load(id) /\ UNCHANGED <<s1, s4, s6, s7>>
    BY <1>2 DEF Edit!Follows
  <2>2. ASSUME NEW r \in s5
        PROVE  LET old == [r EXCEPT !.newest = FALSE]
               IN old \in ReadOfEdit /\ ~old.newest
                  /\ (old.got # None => old.got.id = old.id /\ old.got.via = old.via /\ Edit!Known(old.got))
    BY <1>1 DEF ReadOfEdit, Edit!ReadsOwn
  <2>3. LET new == Edit!Read(id, TRUE, "route")
        IN new \in ReadOfEdit /\ new.id = id /\ new.got = None
    BY EditRead
  <2>4. /\ s5' \subseteq ReadOfEdit
        /\ \A r \in s5' : /\ r.newest => r.id = id
                          /\ r.got # None => r.got.id = r.id /\ r.got.via = r.via /\ Edit!Known(r.got)
    BY <2>1, <2>2, <2>3 DEF Edit!Load
  <2>5. Edit!EditTyped'
    BY <2>1, <2>4 DEF Edit!EditTyped, Edit!EditFormTypeOK, ReadOfEdit
  <2>6. Edit!ReadsOwn' /\ Edit!HoldsItsOwn'
    BY <2>1, <2>4 DEF Edit!ReadsOwn, Edit!HoldsItsOwn, Edit!Known
  <2> QED BY <2>5, <2>6
<1>3. CASE Edit!ReadTakes
  <2>1. PICK r \in s5 : /\ s5' = (s5 \ {r}) \cup {[r EXCEPT !.got = Edit!Held(r.id, r.via)]}
                        /\ UNCHANGED <<s1, s2, s3, s4, s6, s7>>
    BY <1>3 DEF Edit!ReadTakes
  <2> DEFINE held == Edit!Held(r.id, r.via)
             read == [r EXCEPT !.got = held]
  <2>2. held \in Edit!Version /\ held.id = r.id /\ held.via = r.via /\ Edit!Known(held)
    BY <1>1, EditHeld DEF ReadOfEdit
  <2>3. read \in ReadOfEdit /\ read.id = r.id /\ read.via = r.via /\ read.newest = r.newest /\ read.got = held
    BY <1>1, <2>2 DEF ReadOfEdit
  <2> HIDE DEF held, read
  <2>4. s5' = (s5 \ {r}) \cup {read}
    BY <2>1 DEF held, read
  <2>5. Edit!EditTyped'
    BY <1>1, <2>1, <2>3, <2>4 DEF Edit!EditTyped, Edit!EditFormTypeOK, ReadOfEdit
  <2>6. Edit!ReadsOwn' /\ Edit!HoldsItsOwn'
    BY <2>1, <2>2, <2>3, <2>4 DEF Edit!ReadsOwn, Edit!HoldsItsOwn, Edit!Known
  <2> QED BY <2>5, <2>6
<1>4. CASE Edit!ReadLands
  <2>1. PICK r \in s5 : /\ r.got # None /\ s5' = s5 \ {r}
                        /\ IF r.newest THEN s3' = r.got /\ s4' = (IF r.full THEN r.id ELSE s4)
                           ELSE UNCHANGED <<s3, s4>>
                        /\ UNCHANGED <<s1, s2, s6, s7>>
    BY <1>4 DEF Edit!ReadLands
  <2>2. r \in ReadOfEdit /\ r.got \in Edit!Version /\ Edit!Known(r.got)
        /\ r.got.id = r.id /\ r.got.via = r.via
    BY <1>1, <2>1 DEF ReadOfEdit, Edit!ReadsOwn
  <2>3. s3' \in Edit!Version \cup {None} /\ s4' \in Things \cup {None}
        /\ (s3' # None => s3'.id \in Things /\ s3'.rev <= s1[s3'.id].rev)
    BY <1>1, <2>1, <2>2 DEF ReadOfEdit, Edit!EditTyped, Edit!EditFormTypeOK, Edit!Known, Edit!Version
  <2>4. Edit!EditTyped'
    BY <2>1, <2>3 DEF Edit!EditTyped, Edit!EditFormTypeOK
  <2>5. Edit!ReadsOwn'
    BY <2>1 DEF Edit!ReadsOwn, Edit!Known
  <2>6. Edit!HoldsItsOwn'
    BY <2>1, <2>2 DEF Edit!ReadsOwn, Edit!HoldsItsOwn
  <2> QED BY <2>4, <2>5, <2>6
<1>5. ASSUME NEW id \in Things, Edit!Elsewhere(id) PROVE EditInv'
  <2>1. /\ s1' = [s1 EXCEPT ![id] = [rev |-> @.rev + 1, locked |-> FALSE]]
        /\ s7' = IF s7 = "locked" THEN "no" ELSE s7
        /\ s5' = s5 \/ (s3 # None /\ s5' = s5 \cup {Edit!Read(s3.id, FALSE, s3.via)})
        /\ UNCHANGED <<s2, s3, s4, s6>>
    BY <1>5 DEF Edit!Elsewhere
  <2>2. /\ s1' \in [Things -> [rev : Nat, locked : BOOLEAN]]
        /\ \A i \in Things : s1[i].rev <= s1'[i].rev /\ s1'[i].rev \in Nat \ {0}
    BY <1>1, <2>1 DEF Edit!EditTyped, Edit!EditFormTypeOK
  <2>3. \A d \in Edit!Version : Edit!Known(d) => d.rev <= s1'[d.id].rev
    BY <1>1, <2>2 DEF Edit!Version, Edit!Known
  <2>4. /\ s5' \subseteq ReadOfEdit
        /\ \A r \in s5' : r \in s5 \/ (r.id = s3.id /\ r.via = s3.via /\ r.got = None /\ s3 # None)
    <3>1. CASE s5' = s5
      BY <1>1, <3>1
    <3>2. CASE s3 # None /\ s5' = s5 \cup {Edit!Read(s3.id, FALSE, s3.via)}
      <4> DEFINE read == Edit!Read(s3.id, FALSE, s3.via)
      <4>0. s3.id \in Things /\ s3.via \in {"route", "reread"}
        BY <1>1, <3>2 DEF Edit!Version
      <4>1. read \in ReadOfEdit /\ read.id = s3.id /\ read.via = s3.via /\ read.got = None
        BY <4>0, EditRead
      <4> HIDE DEF read
      <4>2. s5' = s5 \cup {read}
        BY <3>2 DEF read
      <4> QED BY <1>1, <3>2, <4>1, <4>2
    <3> QED BY <2>1, <3>1, <3>2
  <2>5. Edit!EditTyped'
    <3>1. s7' \in {"no", "locked", "storage"}
      BY <2>1 DEF Edit!EditTyped, Edit!EditFormTypeOK
    <3>2. s3' # None => s3'.id \in Things /\ s3'.rev <= s1'[s3'.id].rev
      BY <1>1, <2>1, <2>3 DEF Edit!Version
    <3> QED BY <2>1, <2>2, <2>4, <3>1, <3>2 DEF Edit!EditTyped, Edit!EditFormTypeOK, ReadOfEdit
  <2>6. Edit!ReadsOwn'
    <3> SUFFICES ASSUME NEW r \in s5'
                 PROVE  /\ r.newest => r.id = s2 \/ r.via = "reread"
                        /\ r.got # None => r.got.id = r.id /\ r.got.via = r.via /\ r.got.rev <= s1'[r.got.id].rev
      BY <2>1 DEF Edit!ReadsOwn, Edit!Known
    <3>1. CASE r \in s5
      BY <1>1, <2>3, <3>1 DEF Edit!ReadsOwn, ReadOfEdit
    <3>2. CASE r \notin s5
      BY <2>4, <3>2 DEF Edit!HoldsItsOwn
    <3> QED BY <3>1, <3>2
  <2>7. Edit!HoldsItsOwn'
    BY <2>1 DEF Edit!HoldsItsOwn
  <2> QED BY <2>5, <2>6, <2>7
<1>6. CASE Edit!Submits \/ Edit!Plans \/ Edit!PlanFails \/ Edit!SaveFails
  <2>1. UNCHANGED <<s1, s2, s3, s4, s5>> /\ s7' \in {"no", "locked", "storage"}
    BY <1>6 DEF Edit!Submits, Edit!Plans, Edit!PlanFails, Edit!SaveFails, Edit!EditTyped, Edit!EditFormTypeOK
  <2>2. s6' # None => s6' \in SavingOfEdit
    <3>1. CASE Edit!Submits
      BY <1>1, <3>1 DEF Edit!Submits, SavingOfEdit
    <3>2. CASE Edit!Plans
      BY <1>1, <3>2 DEF Edit!Plans, SavingOfEdit, Edit!EditTyped, Edit!EditFormTypeOK
    <3>3. CASE Edit!PlanFails
      BY <3>3 DEF Edit!PlanFails
    <3>4. CASE Edit!SaveFails
      BY <1>1, <3>4 DEF Edit!SaveFails, SavingOfEdit
    <3> QED BY <1>6, <3>1, <3>2, <3>3, <3>4
  <2>3. Edit!EditTyped'
    BY <2>1, <2>2 DEF Edit!EditTyped, Edit!EditFormTypeOK, SavingOfEdit
  <2> QED BY <2>1, <2>3 DEF Edit!ReadsOwn, Edit!HoldsItsOwn, Edit!Known
<1>7. CASE Edit!Saves
  <2> DEFINE id == s6.device.id
  <2>1. /\ s6 # None /\ s1' = [s1 EXCEPT ![id].rev = @ + 1] /\ s6' = None /\ s7' = "no"
        /\ UNCHANGED <<s2, s3, s4, s5>>
    BY <1>7 DEF Edit!Saves
  <2>2. id \in Things
    BY <1>1, <2>1 DEF SavingOfEdit, Edit!Version
  <2>3. /\ s1' \in [Things -> [rev : Nat, locked : BOOLEAN]]
        /\ \A i \in Things : s1[i].rev <= s1'[i].rev /\ s1'[i].rev \in Nat \ {0}
    BY <1>1, <2>1, <2>2 DEF Edit!EditTyped, Edit!EditFormTypeOK
  <2>4. \A d \in Edit!Version : Edit!Known(d) => d.rev <= s1'[d.id].rev
    BY <1>1, <2>3 DEF Edit!Version, Edit!Known
  <2>5. Edit!EditTyped'
    <3>1. s3' # None => s3'.id \in Things /\ s3'.rev <= s1'[s3'.id].rev
      BY <1>1, <2>1, <2>4 DEF Edit!Version
    <3> QED BY <2>1, <2>3, <3>1 DEF Edit!EditTyped, Edit!EditFormTypeOK
  <2>6. Edit!ReadsOwn' /\ Edit!HoldsItsOwn'
    BY <1>1, <2>1, <2>4 DEF Edit!ReadsOwn, Edit!HoldsItsOwn, Edit!Known, ReadOfEdit
  <2> QED BY <2>5, <2>6
<1>8. CASE Edit!Rereads
  <2> DEFINE held == Edit!Held(s6.device.id, "reread")
  <2>1. s6 # None /\ s6' = None /\ s3' = held /\ UNCHANGED <<s1, s2, s4, s5, s7>>
    BY <1>8 DEF Edit!Rereads
  <2>2. held \in Edit!Version /\ held.via = "reread" /\ Edit!Known(held) /\ held.id \in Things
    BY <1>1, <2>1, EditHeld DEF SavingOfEdit, Edit!Version
  <2> HIDE DEF held
  <2>3. Edit!EditTyped'
    BY <2>1, <2>2 DEF Edit!EditTyped, Edit!EditFormTypeOK, Edit!Known
  <2>4. Edit!ReadsOwn' /\ Edit!HoldsItsOwn'
    BY <2>1, <2>2 DEF Edit!ReadsOwn, Edit!HoldsItsOwn, Edit!Known
  <2> QED BY <2>3, <2>4
<1> QED BY <1>2, <1>3, <1>4, <1>5, <1>6, <1>7, <1>8 DEF Edit!Next

(* 4. RoomsPage.                                                                *)

LEMMA KeyAt ==
  ASSUME NEW S, NEW a \in Seq(S)
  PROVE  /\ Rooms!R!Key(a) = [i \in 1..Len(a) |-> Fold(Trimmed(a[i]))]
         /\ Rooms!R!Key(a) \in Seq({Fold(Trimmed(x)) : x \in S}) /\ Len(Rooms!R!Key(a)) = Len(a)
BY DEF Rooms!R!Key

\* Being within a room, segment by segment.
LEMMA WithinAt ==
  ASSUME NEW S, NEW a \in Seq(S), NEW b \in Seq(S)
  PROVE  Rooms!R!IsWithinRoom(a, b)
           <=> Len(b) <= Len(a) /\ \A i \in 1..Len(b) : Fold(Trimmed(b[i])) = Fold(Trimmed(a[i]))
<1> DEFINE T == {Fold(Trimmed(x)) : x \in S}
           ka == Rooms!R!Key(a)
           kb == Rooms!R!Key(b)
<1>1. /\ ka \in Seq(T) /\ Len(ka) = Len(a) /\ \A i \in 1..Len(a) : ka[i] = Fold(Trimmed(a[i]))
      /\ kb \in Seq(T) /\ Len(kb) = Len(b) /\ \A i \in 1..Len(b) : kb[i] = Fold(Trimmed(b[i]))
  BY KeyAt
<1>2. Rooms!R!IsWithinRoom(a, b) <=> Len(kb) <= Len(ka) /\ SubSeq(kb, 1, Len(kb)) = SubSeq(ka, 1, Len(kb))
  BY DEF Rooms!R!IsWithinRoom, Rooms!R!IsPrefix
<1> HIDE DEF ka, kb, T
<1>3. CASE Len(b) <= Len(a)
  <2>1. /\ SubSeq(kb, 1, Len(kb)) = [i \in 1..Len(b) |-> kb[i]]
        /\ SubSeq(ka, 1, Len(kb)) = [i \in 1..Len(b) |-> ka[i]]
    BY <1>1, <1>3
  <2>2. SubSeq(kb, 1, Len(kb)) = SubSeq(ka, 1, Len(kb)) <=> \A i \in 1..Len(b) : kb[i] = ka[i]
    BY <2>1
  <2>3. 1..Len(b) \subseteq 1..Len(a)
    BY <1>3
  <2> QED BY <1>1, <1>2, <1>3, <2>2, <2>3
<1> QED BY <1>1, <1>2, <1>3

LEMMA NormaliseAt ==
  ASSUME NEW S, NEW a \in Seq(S), \A x \in S : Trimmed(x) \in S /\ Trimmed(Trimmed(x)) = Trimmed(x)
  PROVE  LET n == Rooms!R!Normalise(a)
         IN /\ n \in Seq(S) /\ Len(n) = Len(a) /\ \A i \in 1..Len(a) : n[i] = Trimmed(a[i])
            /\ Rooms!R!Normalise(n) = n
BY DEF Rooms!R!Normalise

LEMMA RenamedAt ==
  ASSUME NEW S, NEW a \in Seq(S), NEW from \in Seq(S), NEW to \in Seq(S),
         \A x \in S : Trimmed(x) \in S /\ Trimmed(Trimmed(x)) = Trimmed(x)
  PROVE  LET renamed == Rooms!R!RenamedPath(a, from, to)
         IN /\ renamed \in Seq(S) /\ Rooms!R!Normalise(renamed) = renamed
            /\ ~Rooms!R!IsWithinRoom(to, from) /\ ~Rooms!R!IsWithinRoom(from, to)
                 => Rooms!R!RenamedPath(renamed, from, to) = renamed
<1> DEFINE n == Rooms!R!Normalise(a)
           t == Rooms!R!Normalise(to)
           rest == SubSeq(n, Len(from) + 1, Len(a))
           r == t \o rest
<1>1. /\ n \in Seq(S) /\ Len(n) = Len(a) /\ (\A i \in 1..Len(a) : n[i] = Trimmed(a[i]))
      /\ t \in Seq(S) /\ Len(t) = Len(to) /\ (\A i \in 1..Len(to) : t[i] = Trimmed(to[i]))
      /\ Rooms!R!Normalise(n) = n
  BY NormaliseAt
<1>2. CASE ~Rooms!R!IsWithinRoom(a, from)
  <2>1. Rooms!R!RenamedPath(a, from, to) = n
    BY <1>2 DEF Rooms!R!RenamedPath
  <2>2. ~Rooms!R!IsWithinRoom(n, from)
    <3> HIDE DEF n
    <3>1. Rooms!R!IsWithinRoom(a, from)
            <=> Len(from) <= Len(a) /\ \A i \in 1..Len(from) : Fold(Trimmed(from[i])) = Fold(Trimmed(a[i]))
      BY WithinAt
    <3>2. Rooms!R!IsWithinRoom(n, from)
            <=> Len(from) <= Len(n) /\ \A i \in 1..Len(from) : Fold(Trimmed(from[i])) = Fold(Trimmed(n[i]))
      BY <1>1, WithinAt
    <3>3. \A i \in 1..Len(a) : a[i] \in S /\ Trimmed(n[i]) = Trimmed(a[i])
      BY <1>1
    <3> QED BY <1>1, <1>2, <3>1, <3>2, <3>3
  <2>3. Rooms!R!RenamedPath(n, from, to) = n
    BY <1>1, <2>2 DEF Rooms!R!RenamedPath
  <2> QED BY <1>1, <2>1, <2>3
<1>3. CASE Rooms!R!IsWithinRoom(a, from)
  <2>1. Rooms!R!RenamedPath(a, from, to) = r
    BY <1>3 DEF Rooms!R!RenamedPath
  <2> HIDE DEF n, t
  <2>2. Len(from) \in Nat /\ Len(a) \in Nat /\ Len(from) <= Len(a)
    BY <1>3, WithinAt
  <2>3. /\ rest \in Seq(S) /\ Len(rest) = Len(a) - Len(from)
        /\ \A i \in 1..Len(rest) : rest[i] = n[Len(from) + i]
    BY <1>1, <2>2
  <2>4. \A i \in 1..Len(rest) : Trimmed(rest[i]) = rest[i]
    <3> TAKE i \in 1..Len(rest)
    <3>1. Len(from) + i \in 1..Len(a)
      BY <2>2, <2>3
    <3>2. rest[i] = Trimmed(a[Len(from) + i]) /\ a[Len(from) + i] \in S
      BY <1>1, <2>3, <3>1
    <3> QED BY <3>2
  <2>5. \A i \in 1..Len(to) : Trimmed(t[i]) = t[i]
    BY <1>1
  <2> HIDE DEF rest
  <2>6. /\ r \in Seq(S) /\ Len(r) = Len(to) + Len(rest)
        /\ \A i \in 1..Len(to) : r[i] = t[i]
        /\ \A i \in 1..Len(r) : Trimmed(r[i]) = r[i]
    <3>1. r \in Seq(S) /\ Len(r) = Len(to) + Len(rest)
      <4>1. t \in Seq(S) /\ rest \in Seq(S) /\ Len(t) = Len(to)
        BY <1>1, <2>3
      <4>2. (t \o rest) \in Seq(S) /\ Len(t \o rest) = Len(t) + Len(rest)
        BY <4>1, ConcatProperties
      <4> QED BY <4>1, <4>2
    <3>2. \A i \in 1..Len(r) : r[i] = IF i <= Len(to) THEN t[i] ELSE rest[i - Len(to)]
      BY <1>1, <2>3
    <3>3. ASSUME NEW i \in 1..Len(r) PROVE Trimmed(r[i]) = r[i]
      <4>1. CASE i <= Len(to)
        BY <2>5, <3>2, <4>1
      <4>2. CASE ~(i <= Len(to))
        <5>1. i - Len(to) \in 1..Len(rest)
          BY <3>1, <4>2, <2>3
        <5> QED BY <2>4, <3>2, <4>2, <5>1
      <4> QED BY <4>1, <4>2
    <3>4. \A i \in 1..Len(to) : r[i] = t[i]
      BY <2>2, <2>3, <3>1, <3>2
    <3> QED BY <3>1, <3>3, <3>4
  <2> HIDE DEF r
  <2>7. Rooms!R!Normalise(r) = r
    BY <2>6 DEF Rooms!R!Normalise
  <2>8. ASSUME ~Rooms!R!IsWithinRoom(to, from), ~Rooms!R!IsWithinRoom(from, to)
        PROVE  ~Rooms!R!IsWithinRoom(r, from)
    <3> SUFFICES ASSUME Rooms!R!IsWithinRoom(r, from) PROVE FALSE
      OBVIOUS
    <3>1. Len(from) <= Len(r) /\ \A i \in 1..Len(from) : Fold(Trimmed(from[i])) = Fold(Trimmed(r[i]))
      BY <2>6, WithinAt
    <3>2. \A i \in 1..Len(to) : to[i] \in S /\ Trimmed(r[i]) = Trimmed(to[i])
      <4> TAKE i \in 1..Len(to)
      <4>1. r[i] = t[i] /\ t[i] = Trimmed(to[i]) /\ to[i] \in S
        BY <1>1, <2>6
      <4> QED BY <4>1
    <3>3. \A i \in 1..Len(to) : i <= Len(from) => Fold(Trimmed(from[i])) = Fold(Trimmed(to[i]))
      BY <2>2, <3>1, <3>2
    <3>4. CASE Len(from) <= Len(to)
      <4>1. \A i \in 1..Len(from) : Fold(Trimmed(from[i])) = Fold(Trimmed(to[i]))
        BY <2>2, <3>3, <3>4
      <4> QED BY <2>8, <3>4, <4>1, WithinAt
    <3>5. CASE Len(to) <= Len(from)
      <4>1. \A i \in 1..Len(to) : Fold(Trimmed(to[i])) = Fold(Trimmed(from[i]))
        BY <2>2, <3>3, <3>5
      <4> QED BY <2>8, <3>5, <4>1, WithinAt
    <3> QED BY <2>2, <3>4, <3>5
  <2> QED BY <2>1, <2>6, <2>7, <2>8 DEF Rooms!R!RenamedPath
<1> QED BY <1>2, <1>3

RoomsInv == Rooms!RoomsTyped /\ Rooms!RoomsOwn /\ Rooms!PlansOwn

ReadOfRooms == [of : Things, newest : BOOLEAN, mine : BOOLEAN, got : Rooms!Copy \cup {None}]

\* Every load of the rename is this one, and each brings what was stored.
SoundLoads(loads, opened) ==
    /\ loads \subseteq ReadOfRooms
    /\ \A l, m \in loads : l.mine /\ m.mine => l = m
    /\ \A l \in loads : /\ l.newest => l.of = opened
                        /\ l.got # None => l.got.of = l.of /\ Rooms!Current(l.got)

\* No step takes a revision back, and none moves a device under the same revision.
Forward ==
    \A p \in Things, d \in Others :
      /\ s3'[p][d] \in Nat /\ s3[p][d] <= s3'[p][d]
      /\ s3'[p][d] = s3[p][d] => s2'[p][d] = s2[p][d]

LEMMA SegmentsTrimmed ==
  /\ \A x \in Rooms!Segments : Trimmed(x) \in Rooms!Segments /\ Trimmed(Trimmed(x)) = Trimmed(x)
  /\ Paths \subseteq Seq(Rooms!Segments)
  /\ \A r \in Renames : r.from \in Seq(Rooms!Segments) /\ r.to \in Seq(Rooms!Segments)
BY RoomsAssumption DEF Rooms!Segments

LEMMA RoomsInit == Rooms!Init => RoomsInv /\ Rooms!MovedOnce
<1> SUFFICES ASSUME Rooms!Init PROVE RoomsInv /\ Rooms!MovedOnce
  OBVIOUS
<1> DEFINE load == Rooms!Fresh(s1, FALSE)
<1>1. load \in ReadOfRooms /\ load.of = s1 /\ load.got = None /\ ~load.mine
  BY DEF Rooms!Init, Rooms!Fresh, ReadOfRooms
<1> HIDE DEF load
<1>2. s5 = {load} /\ s4 = None /\ s6 = None /\ s7 = FALSE /\ s9 = s2
  BY DEF Rooms!Init, load
<1>3. /\ s1 \in Things /\ s8 \in Renames /\ s2 \in [Things -> [Others -> Seq(Rooms!Segments)]]
      /\ s3 \in [Things -> [Others -> Nat]]
  BY SegmentsTrimmed DEF Rooms!Init
<1>4. Rooms!RoomsTyped
  BY <1>1, <1>2, <1>3 DEF Rooms!RoomsTyped, Rooms!RoomsTypeOK, ReadOfRooms
<1>5. Rooms!RoomsOwn /\ Rooms!PlansOwn /\ Rooms!MovedOnce
  BY <1>1, <1>2 DEF Rooms!RoomsOwn, Rooms!PlansOwn, Rooms!MovedOnce
<1> QED BY <1>4, <1>5 DEF RoomsInv

\* What RoomsInv says of the loads and of the rename, in the terms of the lemmas.
LEMMA RoomsParts ==
  ASSUME RoomsInv
  PROVE  /\ SoundLoads(s5, s1) /\ \A l \in s5 : l.mine => s6 # None /\ s6.at # "saving"
         /\ s1 \in Things /\ s8 \in Renames
         /\ s4 # None => s4 \in Rooms!Copy /\ s4.of = s1 /\ Rooms!Current(s4)
         /\ s6 # None => /\ s6 \in Rooms!Renaming /\ s6.of \in Things
                         /\ Rooms!PlannedOf(s6.of, s6.planned, s6.rev)
BY DEF RoomsInv, Rooms!RoomsTyped, Rooms!RoomsTypeOK, Rooms!RoomsOwn, Rooms!PlansOwn, SoundLoads, ReadOfRooms,
       Rooms!Renaming

\* The loads after a new one.
LEMMA RoomsLoads ==
  ASSUME RoomsInv, NEW p \in Things, NEW mine \in BOOLEAN, mine => \A l \in s5 : ~l.mine
  PROVE  /\ SoundLoads(Rooms!Load(p, mine), p)
         /\ \A l \in Rooms!Load(p, mine) : l.mine => mine \/ \E m \in s5 : m.mine
<1>1. SoundLoads(s5, s1)
  BY RoomsParts
<1>2. ASSUME NEW l \in s5
      PROVE  LET old == [l EXCEPT !.newest = FALSE]
             IN /\ old \in ReadOfRooms /\ ~old.newest /\ old.mine = l.mine
                /\ old.of = l.of /\ old.got = l.got
  BY <1>1 DEF SoundLoads, ReadOfRooms
<1>3. LET new == Rooms!Fresh(p, mine)
      IN new \in ReadOfRooms /\ new.of = p /\ new.got = None /\ new.mine = mine
  BY DEF Rooms!Fresh, ReadOfRooms
<1> DEFINE new == Rooms!Fresh(p, mine)
<1>4. \A l \in Rooms!Load(p, mine) :
        l = new \/ \E m \in s5 : m.mine /\ l = [m EXCEPT !.newest = FALSE]
  BY DEF Rooms!Load, Rooms!Overtaken
<1> HIDE DEF new
<1>5. new \in ReadOfRooms /\ new.of = p /\ new.got = None /\ new.mine = mine
  BY <1>3 DEF new
<1>6. ASSUME NEW l \in Rooms!Load(p, mine)
      PROVE  /\ l \in ReadOfRooms
             /\ l.newest => l.of = p
             /\ l.got # None => l.got.of = l.of /\ Rooms!Current(l.got)
             /\ l.mine => mine \/ \E m \in s5 : m.mine
  <2>1. CASE l = new
    BY <1>5, <2>1
  <2>2. ASSUME NEW m \in s5, m.mine, l = [m EXCEPT !.newest = FALSE]
        PROVE  /\ l \in ReadOfRooms
               /\ l.newest => l.of = p
               /\ l.got # None => l.got.of = l.of /\ Rooms!Current(l.got)
               /\ l.mine => mine \/ \E x \in s5 : x.mine
    <3>1. l \in ReadOfRooms /\ ~l.newest /\ l.of = m.of /\ l.got = m.got
      BY <1>2, <2>2
    <3> QED BY <1>1, <2>2, <3>1 DEF SoundLoads
  <2> QED BY <1>4, <2>1, <2>2
<1>7. ASSUME NEW l \in Rooms!Load(p, mine), NEW m \in Rooms!Load(p, mine), l.mine, m.mine PROVE l = m
  <2>1. CASE mine
    BY <1>4, <1>7, <2>1
  <2>2. CASE ~mine
    BY <1>1, <1>4, <1>5, <1>7, <2>2 DEF SoundLoads
  <2> QED BY <2>1, <2>2
<1> QED BY <1>6, <1>7 DEF SoundLoads

LEMMA CopiesLast ==
  ASSUME RoomsInv, Forward
  PROVE  /\ \A c \in Rooms!Copy : Rooms!Current(c) =>
              \A d \in Others : /\ c.rev[d] <= s3'[c.of][d]
                                /\ c.rev[d] = s3'[c.of][d] => c.room[d] = s2'[c.of][d]
         /\ s6 # None =>
              \A d \in DOMAIN s6.planned :
                /\ s6.rev[d] <= s3'[s6.of][d]
                /\ s6.rev[d] = s3'[s6.of][d]
                     => s6.planned[d] = Rooms!R!RenamedPath(s2'[s6.of][d], s8.from, s8.to)
<1>1. \A p \in Things, d \in Others : s3[p][d] \in Nat
  BY DEF RoomsInv, Rooms!RoomsTyped
<1>2. ASSUME NEW c \in Rooms!Copy, Rooms!Current(c), NEW d \in Others
      PROVE  c.rev[d] <= s3'[c.of][d] /\ (c.rev[d] = s3'[c.of][d] => c.room[d] = s2'[c.of][d])
  <2>1. c.of \in Things /\ c.rev[d] \in Nat
    BY DEF Rooms!Copy
  <2>2. c.rev[d] <= s3[c.of][d] /\ (c.rev[d] = s3[c.of][d] => c.room[d] = s2[c.of][d])
    BY <1>2 DEF Rooms!Current
  <2>3. s3'[c.of][d] \in Nat /\ s3[c.of][d] <= s3'[c.of][d] /\ s3[c.of][d] \in Nat
        /\ (s3'[c.of][d] = s3[c.of][d] => s2'[c.of][d] = s2[c.of][d])
    BY <1>1, <2>1 DEF Forward
  <2>4. c.rev[d] = s3'[c.of][d] => c.rev[d] = s3[c.of][d] /\ s3'[c.of][d] = s3[c.of][d]
    BY <2>1, <2>2, <2>3
  <2> QED BY <2>1, <2>2, <2>3, <2>4
<1>3. ASSUME s6 # None, NEW d \in DOMAIN s6.planned
      PROVE  /\ s6.rev[d] <= s3'[s6.of][d]
             /\ s6.rev[d] = s3'[s6.of][d]
                  => s6.planned[d] = Rooms!R!RenamedPath(s2'[s6.of][d], s8.from, s8.to)
  <2>1. s6.of \in Things /\ d \in Others /\ s6.rev[d] \in Nat
    BY <1>3, RoomsParts DEF Rooms!Renaming
  <2>2. s6.rev[d] <= s3[s6.of][d]
        /\ (s6.rev[d] = s3[s6.of][d] => s6.planned[d] = Rooms!R!RenamedPath(s2[s6.of][d], s8.from, s8.to))
    BY <1>3, RoomsParts DEF Rooms!PlannedOf
  <2>3. s3'[s6.of][d] \in Nat /\ s3[s6.of][d] <= s3'[s6.of][d] /\ s3[s6.of][d] \in Nat
        /\ (s3'[s6.of][d] = s3[s6.of][d] => s2'[s6.of][d] = s2[s6.of][d])
    BY <1>1, <2>1 DEF Forward
  <2>4. s6.rev[d] = s3'[s6.of][d] => s6.rev[d] = s3[s6.of][d] /\ s3'[s6.of][d] = s3[s6.of][d]
    BY <2>1, <2>2, <2>3
  <2> QED BY <2>1, <2>2, <2>3, <2>4
<1> QED BY <1>2, <1>3

\* A device moved, under a revision of its own.
LEMMA DeviceMoves ==
  ASSUME RoomsInv, NEW d \in Others, NEW path \in Seq(Rooms!Segments),
         s2' = [s2 EXCEPT ![s1][d] = path], s3' = [s3 EXCEPT ![s1][d] = @ + 1]
  PROVE  /\ s2' \in [Things -> [Others -> Seq(Rooms!Segments)]] /\ s3' \in [Things -> [Others -> Nat]]
         /\ Forward /\ s2'[s1][d] = path
         /\ \A p \in Things, e \in Others : p # s1 \/ e # d => s2'[p][e] = s2[p][e] /\ s3'[p][e] = s3[p][e]
<1>1. s1 \in Things /\ s2 \in [Things -> [Others -> Seq(Rooms!Segments)]] /\ s3 \in [Things -> [Others -> Nat]]
  BY DEF RoomsInv, Rooms!RoomsTyped, Rooms!RoomsTypeOK
<1>2. s2' \in [Things -> [Others -> Seq(Rooms!Segments)]] /\ s3' \in [Things -> [Others -> Nat]]
  BY <1>1
<1>3. /\ s2'[s1][d] = path /\ s3'[s1][d] = s3[s1][d] + 1
      /\ \A p \in Things, e \in Others : p # s1 \/ e # d => s2'[p][e] = s2[p][e] /\ s3'[p][e] = s3[p][e]
  BY <1>1
<1>4. Forward
  BY <1>1, <1>2, <1>3 DEF Forward
<1> QED BY <1>2, <1>3, <1>4

\* What the invariant says after a step that moved some devices, or none.
LEMMA RoomsAfter ==
  ASSUME RoomsInv, Forward, s1' \in Things, s8' = s8, s7' \in BOOLEAN,
         s2' \in [Things -> [Others -> Seq(Rooms!Segments)]], s3' \in [Things -> [Others -> Nat]],
         s9' \in [Things -> [Others -> Seq(Rooms!Segments)]],
         s4' # None => s4' \in Rooms!Copy /\ s4'.of = s1' /\ Rooms!Current(s4'),
         SoundLoads(s5', s1'), \A l \in s5' : l.mine => s6' # None /\ s6'.at # "saving",
         s6' # None => s6' \in Rooms!Renaming,
         s6' # None => \A d \in DOMAIN s6'.planned :
                         /\ s6'.rev[d] <= s3'[s6'.of][d]
                         /\ s6'.rev[d] = s3'[s6'.of][d]
                              => s6'.planned[d] = Rooms!R!RenamedPath(s2'[s6'.of][d], s8.from, s8.to)
  PROVE  RoomsInv'
<1>1. ASSUME NEW c \in Rooms!Copy, Rooms!Current(c)
      PROVE  \A d \in Others : /\ c.rev[d] <= s3'[c.of][d]
                               /\ c.rev[d] = s3'[c.of][d] => c.room[d] = s2'[c.of][d]
  BY <1>1, CopiesLast
<1>2. s5' \subseteq ReadOfRooms /\ s8 \in Renames
  BY RoomsParts DEF SoundLoads
<1>3. Rooms!RoomsTyped'
  <2>1. s6' # None => s6'.at \in {"saving", "reread", "refused"}
    BY DEF Rooms!Renaming
  <2> QED BY <1>2, <2>1 DEF Rooms!RoomsTyped, Rooms!RoomsTypeOK, ReadOfRooms, SoundLoads
<1>4. Rooms!RoomsOwn'
  <2>1. s4' # None => /\ s4'.of = s1'
                      /\ \A d \in Others : /\ s4'.rev[d] <= s3'[s4'.of][d]
                                           /\ s4'.rev[d] = s3'[s4'.of][d] => s4'.room[d] = s2'[s4'.of][d]
    BY <1>1
  <2>2. \A l \in s5' : l.got # None => l.got \in Rooms!Copy
    BY <1>2 DEF ReadOfRooms
  <2>3. ASSUME NEW l \in s5'
        PROVE  /\ l.newest => l.of = s1'
               /\ l.got # None =>
                    /\ l.got.of = l.of
                    /\ \A d \in Others : /\ l.got.rev[d] <= s3'[l.got.of][d]
                                         /\ l.got.rev[d] = s3'[l.got.of][d] => l.got.room[d] = s2'[l.got.of][d]
               /\ l.mine => s6' # None /\ s6'.at # "saving"
    BY <1>1, <2>2 DEF SoundLoads
  <2> QED BY <2>1, <2>3 DEF Rooms!RoomsOwn, Rooms!Current
<1>5. Rooms!PlansOwn'
  BY DEF Rooms!PlansOwn, Rooms!PlannedOf
<1> QED BY <1>3, <1>4, <1>5 DEF RoomsInv

LEMMA RoomsStep == ASSUME RoomsInv, Rooms!Next PROVE RoomsInv'
<1>1. /\ s2 \in [Things -> [Others -> Seq(Rooms!Segments)]] /\ s3 \in [Things -> [Others -> Nat]]
      /\ s9 \in [Things -> [Others -> Seq(Rooms!Segments)]] /\ s7 \in BOOLEAN
  BY DEF RoomsInv, Rooms!RoomsTyped, Rooms!RoomsTypeOK
<1>2. ASSUME UNCHANGED <<s2, s3>> PROVE Forward
  BY <1>1, <1>2 DEF Forward
<1>3. /\ SoundLoads(s5, s1) /\ \A l \in s5 : l.mine => s6 # None /\ s6.at # "saving"
      /\ s1 \in Things /\ s8 \in Renames
      /\ s4 # None => s4 \in Rooms!Copy /\ s4.of = s1 /\ Rooms!Current(s4)
      /\ s6 # None => s6 \in Rooms!Renaming /\ s6.of \in Things
  BY RoomsParts
<1>4. ASSUME Forward, s6' = s6
      PROVE  /\ s6' # None => s6' \in Rooms!Renaming
             /\ s6' # None => \A d \in DOMAIN s6'.planned :
                         /\ s6'.rev[d] <= s3'[s6'.of][d]
                         /\ s6'.rev[d] = s3'[s6'.of][d]
                              => s6'.planned[d] = Rooms!R!RenamedPath(s2'[s6'.of][d], s8.from, s8.to)
  BY <1>3, <1>4, CopiesLast
<1>5. CASE Rooms!LoadTakes
  <2>1. PICK l \in s5 : /\ s5' = (s5 \ {l}) \cup
                                  {[l EXCEPT !.got = [of |-> l.of, room |-> s2[l.of], rev |-> s3[l.of]]]}
                        /\ UNCHANGED <<s1, s2, s3, s4, s6, s7, s8, s9>>
    BY <1>5 DEF Rooms!LoadTakes, Rooms!store
  <2> DEFINE copy == [of |-> l.of, room |-> s2[l.of], rev |-> s3[l.of]]
             read == [l EXCEPT !.got = copy]
  <2>2. copy \in Rooms!Copy /\ copy.of = l.of /\ Rooms!Current(copy)
    BY <1>1, <1>3 DEF SoundLoads, ReadOfRooms, Rooms!Copy, Rooms!Current
  <2>3. /\ read \in ReadOfRooms /\ read.of = l.of /\ read.newest = l.newest /\ read.mine = l.mine
        /\ read.got = copy
    BY <1>3, <2>2 DEF SoundLoads, ReadOfRooms
  <2> HIDE DEF copy, read
  <2>4. s5' = (s5 \ {l}) \cup {read}
    BY <2>1 DEF copy, read
  <2>5. SoundLoads(s5', s1)
    BY <1>3, <2>2, <2>3, <2>4 DEF SoundLoads
  <2>6. \A x \in s5' : x.mine => s6 # None /\ s6.at # "saving"
    BY <1>3, <2>3, <2>4
  <2>7. s4' # None => s4' \in Rooms!Copy /\ s4'.of = s1' /\ Rooms!Current(s4')
    BY <1>3, <2>1
  <2> QED BY <1>1, <1>2, <1>3, <1>4, <2>1, <2>5, <2>6, <2>7, RoomsAfter
<1>6. CASE Rooms!LoadEnds
  <2>1. PICK l \in s5 : /\ s5' = s5 \ {l} /\ Rooms!Ends(l)
                        /\ s4' = IF l.newest /\ l.got # None THEN l.got ELSE s4
                        /\ UNCHANGED <<s1, s2, s3, s8, s9>>
    BY <1>6 DEF Rooms!LoadEnds, Rooms!store
  <2>2. s6' = IF l.mine THEN None ELSE s6
    BY <2>1 DEF Rooms!Ends
  <2>3. s7' \in BOOLEAN
    BY <2>1, Zenon DEF Rooms!Ends
  <2>4. SoundLoads(s5', s1)
    BY <1>3, <2>1 DEF SoundLoads
  <2>5. \A x \in s5' : x.mine => s6' # None /\ s6'.at # "saving"
    BY <1>3, <2>1, <2>2 DEF SoundLoads
  <2>6. s4' # None => s4' \in Rooms!Copy /\ s4'.of = s1' /\ Rooms!Current(s4')
    <3>1. CASE l.newest /\ l.got # None
      <4>1. l.got \in Rooms!Copy /\ l.got.of = s1 /\ Rooms!Current(l.got)
        BY <1>3, <3>1 DEF SoundLoads, ReadOfRooms
      <4> QED BY <2>1, <3>1, <4>1
    <3>2. CASE ~(l.newest /\ l.got # None)
      BY <1>3, <2>1, <3>2
    <3> QED BY <3>1, <3>2
  <2>7. CASE l.mine
    BY <1>1, <1>2, <1>3, <2>1, <2>2, <2>3, <2>4, <2>5, <2>6, <2>7, RoomsAfter
  <2>8. CASE ~l.mine
    <3>1. s6' = s6
      BY <2>2, <2>8
    <3> QED BY <1>1, <1>2, <1>3, <1>4, <2>1, <3>1, <2>3, <2>4, <2>5, <2>6, RoomsAfter
  <2> QED BY <2>7, <2>8
<1>7. ASSUME NEW p \in Things, Rooms!Switch(p) PROVE RoomsInv'
  <2>1. s1' = p /\ s4' = None /\ s5' = Rooms!Load(p, FALSE) /\ UNCHANGED <<s2, s3, s6, s7, s8, s9>>
    BY <1>7 DEF Rooms!Switch, Rooms!store
  <2>2. SoundLoads(s5', s1') /\ \A l \in s5' : l.mine => s6 # None /\ s6.at # "saving"
    BY <1>3, <2>1, RoomsLoads
  <2> QED BY <1>1, <1>2, <1>4, <2>1, <2>2, RoomsAfter
<1>8. ASSUME NEW d \in Others, NEW path \in Paths, Rooms!Elsewhere(d, path) PROVE RoomsInv'
  <2>1. /\ s2' = [s2 EXCEPT ![s1][d] = path] /\ s9' = [s9 EXCEPT ![s1][d] = path]
        /\ s3' = [s3 EXCEPT ![s1][d] = @ + 1]
        /\ s5' = Rooms!Load(s1, FALSE) /\ UNCHANGED <<s1, s4, s6, s7, s8>>
    BY <1>8 DEF Rooms!Elsewhere
  <2>2. path \in Seq(Rooms!Segments)
    BY SegmentsTrimmed
  <2>3. /\ s2' \in [Things -> [Others -> Seq(Rooms!Segments)]] /\ s3' \in [Things -> [Others -> Nat]]
        /\ Forward
    BY <2>1, <2>2, DeviceMoves
  <2>4. s9' \in [Things -> [Others -> Seq(Rooms!Segments)]]
    BY <1>1, <2>1, <2>2
  <2>5. SoundLoads(s5', s1') /\ \A l \in s5' : l.mine => s6 # None /\ s6.at # "saving"
    BY <1>3, <2>1, RoomsLoads
  <2>6. s4' # None => s4' \in Rooms!Copy /\ s4'.of = s1' /\ Rooms!Current(s4')
    BY <1>3, <2>1
  <2> QED BY <1>1, <1>3, <1>4, <2>1, <2>3, <2>4, <2>5, <2>6, RoomsAfter
<1>9. CASE Rooms!Begins
  <2> DEFINE planned == Rooms!R!RenameRoom(s4.room, s8.from, s8.to)
             new == [of |-> s4.of, planned |-> planned, rev |-> s4.rev, at |-> "saving"]
  <2>1. s4 # None /\ s6 = None /\ s6' = new /\ UNCHANGED <<s1, s2, s3, s4, s5, s7, s8, s9>>
    BY <1>9 DEF Rooms!Begins, Rooms!store
  <2>2. s4 \in Rooms!Copy /\ s4.of = s1 /\ Rooms!Current(s4) /\ s4.room \in [Others -> Seq(Rooms!Segments)]
    BY <1>3, <2>1 DEF Rooms!Copy
  <2>3. /\ DOMAIN planned \subseteq Others
        /\ \A d \in DOMAIN planned : planned[d] = Rooms!R!RenamedPath(s4.room[d], s8.from, s8.to)
        /\ planned = [d \in DOMAIN planned |-> planned[d]]
    BY <2>2 DEF Rooms!R!RenameRoom
  <2>4. \A d \in DOMAIN planned : planned[d] \in Seq(Rooms!Segments)
    <3> HIDE DEF planned
    <3> TAKE d \in DOMAIN planned
    <3>1. s4.room[d] \in Seq(Rooms!Segments) /\ s8.from \in Seq(Rooms!Segments) /\ s8.to \in Seq(Rooms!Segments)
      BY <1>3, <2>2, <2>3, SegmentsTrimmed
    <3> QED BY <2>3, <3>1, SegmentsTrimmed, RenamedAt
  <2> HIDE DEF planned
  <2>5. planned \in UNION {[D -> Seq(Rooms!Segments)] : D \in SUBSET Others}
    <3>1. planned \in [DOMAIN planned -> Seq(Rooms!Segments)]
      BY <2>3, <2>4
    <3> QED BY <2>3, <3>1
  <2>6. new \in Rooms!Renaming /\ new.of = s4.of /\ new.planned = planned /\ new.rev = s4.rev
    BY <2>2, <2>5 DEF Rooms!Renaming, Rooms!Copy
  <2> HIDE DEF new
  <2>7. \A d \in DOMAIN planned :
           /\ s4.rev[d] <= s3[s4.of][d]
           /\ s4.rev[d] = s3[s4.of][d] => planned[d] = Rooms!R!RenamedPath(s2[s4.of][d], s8.from, s8.to)
    BY <2>2, <2>3 DEF Rooms!Current
  <2>8. SoundLoads(s5', s1') /\ \A l \in s5' : ~l.mine
    BY <1>3, <2>1
  <2>9. s4' # None => s4' \in Rooms!Copy /\ s4'.of = s1' /\ Rooms!Current(s4')
    BY <2>1, <2>2
  <2> QED BY <1>1, <1>2, <1>3, <2>1, <2>6, <2>7, <2>8, <2>9, RoomsAfter
<1>10. CASE Rooms!Saves
  <2>1. PICK d \in DOMAIN s6.planned :
             /\ s6 # None /\ s6.at = "saving" /\ s6.of = s1 /\ s6.rev[d] = s3[s1][d]
             /\ s2' = [s2 EXCEPT ![s1][d] = s6.planned[d]] /\ s3' = [s3 EXCEPT ![s1][d] = @ + 1]
             /\ s6' = [s6 EXCEPT !.planned = [x \in DOMAIN s6.planned \ {d} |-> s6.planned[x]]]
             /\ UNCHANGED <<s1, s4, s5, s7, s8, s9>>
    BY <1>10 DEF Rooms!Saves, Rooms!SavesWhat
  <2> DEFINE left == [x \in DOMAIN s6.planned \ {d} |-> s6.planned[x]]
  <2>2. d \in Others /\ s6.planned[d] \in Seq(Rooms!Segments) /\ s6 \in Rooms!Renaming
        /\ DOMAIN s6.planned \subseteq Others /\ \A x \in DOMAIN s6.planned : s6.planned[x] \in Seq(Rooms!Segments)
    BY <1>3, <2>1 DEF Rooms!Renaming
  <2>3. left \in UNION {[D -> Seq(Rooms!Segments)] : D \in SUBSET Others}
    <3>1. left \in [DOMAIN s6.planned \ {d} -> Seq(Rooms!Segments)]
      BY <2>2
    <3> QED BY <2>2, <3>1
  <2>4. DOMAIN left = DOMAIN s6.planned \ {d} /\ \A x \in DOMAIN left : left[x] = s6.planned[x]
    OBVIOUS
  <2> HIDE DEF left
  <2>5. /\ s6' \in Rooms!Renaming /\ s6'.of = s6.of /\ s6'.rev = s6.rev /\ s6'.at = s6.at
        /\ s6'.planned = left
    BY <2>1, <2>2, <2>3 DEF Rooms!Renaming, left
  <2>6. /\ s2' \in [Things -> [Others -> Seq(Rooms!Segments)]] /\ s3' \in [Things -> [Others -> Nat]]
        /\ Forward
    BY <2>1, <2>2, DeviceMoves
  <2>7. \A x \in DOMAIN s6'.planned :
           /\ s6'.rev[x] <= s3'[s6'.of][x]
           /\ s6'.rev[x] = s3'[s6'.of][x]
                => s6'.planned[x] = Rooms!R!RenamedPath(s2'[s6'.of][x], s8.from, s8.to)
    BY <2>1, <2>4, <2>5, <2>6, CopiesLast
  <2>8. SoundLoads(s5', s1') /\ \A l \in s5' : ~l.mine
    BY <1>3, <2>1
  <2>9. s4' # None => s4' \in Rooms!Copy /\ s4'.of = s1' /\ Rooms!Current(s4')
    BY <1>3, <2>1
  <2> QED BY <1>1, <1>3, <2>1, <2>5, <2>6, <2>7, <2>8, <2>9, RoomsAfter
<1>11. CASE Rooms!Stops
  <2>1. PICK at \in {"reread", "refused"} :
           /\ s6 # None /\ s6.at = "saving" /\ s6' = [s6 EXCEPT !.at = at]
           /\ s5' = Rooms!Load(s1, TRUE) /\ UNCHANGED <<s1, s2, s3, s4, s7, s8, s9>>
    BY <1>11 DEF Rooms!Stops, Rooms!store
  <2>2. /\ s6' \in Rooms!Renaming /\ s6'.of = s6.of /\ s6'.rev = s6.rev /\ s6'.at = at
        /\ s6'.planned = s6.planned
    BY <1>3, <2>1 DEF Rooms!Renaming
  <2>3. s6' # None
    BY <2>2, InterfaceAssumption
  <2>4. \A l \in s5 : ~l.mine
    BY <1>3, <2>1
  <2>5. SoundLoads(s5', s1') /\ \A l \in s5' : l.mine => s6' # None /\ s6'.at # "saving"
    BY <1>3, <2>1, <2>2, <2>3, <2>4, RoomsLoads
  <2>6. \A d \in DOMAIN s6'.planned :
           /\ s6'.rev[d] <= s3'[s6'.of][d]
           /\ s6'.rev[d] = s3'[s6'.of][d]
                => s6'.planned[d] = Rooms!R!RenamedPath(s2'[s6'.of][d], s8.from, s8.to)
    BY <1>2, <2>1, <2>2, CopiesLast
  <2>7. s4' # None => s4' \in Rooms!Copy /\ s4'.of = s1' /\ Rooms!Current(s4')
    BY <1>3, <2>1
  <2> QED BY <1>1, <1>2, <1>3, <2>1, <2>2, <2>5, <2>6, <2>7, RoomsAfter
<1> QED
  BY <1>5, <1>6, <1>7, <1>8, <1>9, <1>10, <1>11 DEF Rooms!Next

\* A save writes the rename of what is stored, which renamed again is itself.
LEMMA MovedStep ==
  ASSUME RoomsInv, Rooms!MovedOnce, Rooms!Next
  PROVE  Rooms!MovedOnce'
<1>1. s8' = s8 /\ s8 \in Renames
  BY RoomsParts DEF Rooms!Next, Rooms!LoadTakes, Rooms!LoadEnds, Rooms!Begins, Rooms!Saves, Rooms!Stops,
                    Rooms!Switch, Rooms!Elsewhere
<1> DEFINE Renamed(path) == Rooms!R!RenamedPath(path, s8.from, s8.to)
<1> SUFFICES ASSUME ~Rooms!R!IsWithinRoom(s8.to, s8.from), ~Rooms!R!IsWithinRoom(s8.from, s8.to),
                    NEW p \in Things, NEW e \in Others
             PROVE  s2'[p][e] \in {s9'[p][e], Renamed(s9'[p][e])}
  BY <1>1 DEF Rooms!MovedOnce
<1>2. s2[p][e] \in {s9[p][e], Renamed(s9[p][e])}
  BY DEF Rooms!MovedOnce
<1>3. s9 \in [Things -> [Others -> Seq(Rooms!Segments)]] /\ s1 \in Things
      /\ s2 \in [Things -> [Others -> Seq(Rooms!Segments)]]
  BY DEF RoomsInv, Rooms!RoomsTyped, Rooms!RoomsTypeOK
<1>4. CASE UNCHANGED <<s2, s9>>
  BY <1>2, <1>4
<1>5. ASSUME NEW d \in Others, NEW path \in Paths, Rooms!Elsewhere(d, path)
      PROVE  s2'[p][e] \in {s9'[p][e], Renamed(s9'[p][e])}
  <2>1. s2' = [s2 EXCEPT ![s1][d] = path] /\ s9' = [s9 EXCEPT ![s1][d] = path]
    BY <1>5 DEF Rooms!Elsewhere
  <2>2. (s2'[p][e] = s2[p][e] /\ s9'[p][e] = s9[p][e]) \/ (s2'[p][e] = path /\ s9'[p][e] = path)
    BY <1>3, <2>1
  <2> QED BY <1>2, <2>2
<1>6. CASE Rooms!Saves
  <2>1. PICK d \in DOMAIN s6.planned :
             /\ s6 # None /\ s6.of = s1 /\ s6.rev[d] = s3[s1][d]
             /\ s2' = [s2 EXCEPT ![s1][d] = s6.planned[d]] /\ s9' = s9
    BY <1>6 DEF Rooms!Saves, Rooms!SavesWhat
  <2>2. s6.planned[d] = Renamed(s2[s1][d])
    BY <2>1, RoomsParts DEF Rooms!PlannedOf
  <2>3. s2'[p][e] = s2[p][e] \/ s2'[p][e] = Renamed(s2[p][e])
    BY <1>3, <2>1, <2>2
  <2>4. Renamed(Renamed(s9[p][e])) = Renamed(s9[p][e])
    <3>1. s9[p][e] \in Seq(Rooms!Segments) /\ s8.from \in Seq(Rooms!Segments) /\ s8.to \in Seq(Rooms!Segments)
      BY <1>1, <1>3, SegmentsTrimmed
    <3> QED BY <3>1, SegmentsTrimmed, RenamedAt
  <2> HIDE DEF Renamed
  <2> QED BY <1>2, <2>1, <2>3, <2>4
<1>7. CASE Rooms!LoadTakes \/ Rooms!LoadEnds \/ Rooms!Begins \/ Rooms!Stops \/ \E q \in Things : Rooms!Switch(q)
  BY <1>4, <1>7 DEF Rooms!LoadTakes, Rooms!LoadEnds, Rooms!Begins, Rooms!Stops, Rooms!Switch, Rooms!store
<1> QED BY <1>5, <1>6, <1>7 DEF Rooms!Next

(* 5. SignOut.                                                                  *)

SignOutInv == Leaving!SignOutTypeOK /\ Leaving!ChecksOwn /\ Leaving!ToldOfAll /\ Leaving!NothingLostUnasked

LEMMA SignOutInit == Leaving!Init => SignOutInv
BY DEF Leaving!Init, SignOutInv, Leaving!SignOutTypeOK, Leaving!ChecksOwn, Leaving!ToldOfAll,
       Leaving!NothingLostUnasked

\* What the copies hold is waiting or refused as soon as a check looks at them.
LEMMA CheckSees ==
  ASSUME Leaving!SignOutTypeOK, s8 \in Nat
  PROVE  LET looked == Leaving!Check
             blind == [Leaving!Check EXCEPT !.waiting = {}, !.failed = {}, !.unreadable = TRUE]
         IN /\ looked \in Leaving!CheckOf /\ looked.attempt = s8 /\ ~looked.cancelled
            /\ s3 \subseteq looked.waiting \cup looked.failed
            /\ blind \in Leaving!CheckOf /\ blind.attempt = s8 /\ ~blind.cancelled /\ blind.unreadable
<1>1. /\ s3 \subseteq Leaving!Synced \cup Leaving!Unpushable
      /\ Leaving!Synced \subseteq Things /\ Leaving!Unpushable \subseteq Things
  BY DEF Leaving!SignOutTypeOK, Leaving!Synced, Leaving!Unpushable, Leaving!Held, Leaving!Kinds
<1> QED BY <1>1 DEF Leaving!Check, Leaving!CheckOf

LEMMA SignOutStep == ASSUME SignOutInv, Leaving!Next PROVE SignOutInv'
<1> USE DEF SignOutInv
<1>1. /\ s8 \in Nat /\ s9 \subseteq Leaving!CheckOf /\ \A k \in s9 : k.attempt \in Nat /\ k.attempt <= s8
      /\ s3 \subseteq Things
  BY DEF Leaving!ChecksOwn, Leaving!CheckOf, Leaving!SignOutTypeOK, Leaving!Held
<1>2. CASE Leaving!Asks
  <2>1. s8' = s8 + 1 /\ s5' = "ask" /\ UNCHANGED <<s2, s3, s9, s11, s12>>
    BY <1>2 DEF Leaving!Asks, Leaving!device
  <2>2. Leaving!ChecksOwn'
    BY <1>1, <2>1 DEF Leaving!ChecksOwn
  <2> QED
    BY <2>1, <2>2 DEF Leaving!SignOutTypeOK, Leaving!Held, Leaving!ToldOfAll, Leaving!NothingLostUnasked
<1>3. CASE Leaving!Cancels
  <2>1. /\ s8' = s8 + 1 /\ s5' = "closed" /\ UNCHANGED <<s2, s3, s10, s11, s12>>
        /\ s9' = {[k EXCEPT !.cancelled = TRUE] : k \in s9}
    BY <1>3 DEF Leaving!Cancels, Leaving!device
  <2>2. ASSUME NEW k \in s9
        PROVE  LET over == [k EXCEPT !.cancelled = TRUE]
               IN over \in Leaving!CheckOf /\ over.attempt = k.attempt
    BY <1>1 DEF Leaving!CheckOf
  <2>3. s9' \subseteq Leaving!CheckOf /\ \A k \in s9' : k.attempt <= s8 /\ k.attempt \in Nat
    BY <1>1, <2>1, <2>2
  <2>4. Leaving!ChecksOwn'
    BY <1>1, <2>1, <2>3 DEF Leaving!ChecksOwn
  <2> QED
    BY <2>1, <2>4 DEF Leaving!SignOutTypeOK, Leaving!Held, Leaving!ToldOfAll, Leaving!NothingLostUnasked
<1>4. CASE Leaving!Confirms
  <2>1. PICK check \in {Leaving!Check, [Leaving!Check EXCEPT !.waiting = {}, !.failed = {}, !.unreadable = TRUE]} :
           /\ s5 = "ask" /\ s5' = "pushing" /\ s9' = s9 \cup {check}
           /\ UNCHANGED <<s2, s3, s8, s11, s12>>
    BY <1>4 DEF Leaving!Confirms, Leaving!device
  <2>2. /\ check \in Leaving!CheckOf /\ check.attempt = s8 /\ ~check.cancelled
        /\ check.unreadable \/ s3 \subseteq check.waiting \cup check.failed
    BY <1>1, CheckSees
  <2>3. \A k \in s9 : k.attempt # s8
    BY <2>1 DEF Leaving!ChecksOwn
  <2>4. Leaving!ChecksOwn'
    BY <1>1, <2>1, <2>2, <2>3 DEF Leaving!ChecksOwn
  <2> QED
    BY <2>1, <2>4 DEF Leaving!SignOutTypeOK, Leaving!Held, Leaving!ToldOfAll, Leaving!NothingLostUnasked
<1>6. CASE Leaving!ConfirmsUnpushed
  <2> DEFINE told == IF s7 THEN Things ELSE s6
  <2>1. s5 = "unpushed" /\ Leaving!Destroys(told) /\ UNCHANGED <<s8, s9, s10, s12>>
    BY <1>6 DEF Leaving!ConfirmsUnpushed
  <2>2. s3 \subseteq told \cup s10
    BY <1>1, <2>1 DEF Leaving!ToldOfAll
  <2> HIDE DEF told
  <2>3. s5' = "closed" /\ s2' = [c \in Things |-> "absent"] /\ s3' = {} /\ s11' = s11 \cup (s3 \ (told \cup s10))
    BY <2>1 DEF Leaving!Destroys
  <2>4. Leaving!ChecksOwn'
    BY <1>1, <2>1, <2>3 DEF Leaving!ChecksOwn
  <2> QED
    BY <2>1, <2>2, <2>3, <2>4
    DEF Leaving!SignOutTypeOK, Leaving!Held, Leaving!Kinds, Leaving!ToldOfAll, Leaving!NothingLostUnasked
<1>7. ASSUME NEW k \in s9, Leaving!Checked(k) PROVE SignOutInv'
  <2>1. s9' = s9 \ {k} /\ s8' = s8 /\ s10' = s10 /\ k.waiting = {}
    BY <1>7 DEF Leaving!Checked
  <2>2. CASE k.attempt # s8
    <3>1. UNCHANGED <<s2, s3, s5, s6, s7, s11, s12>>
      BY <1>7, <2>2 DEF Leaving!Checked, Leaving!device
    <3> QED
      BY <2>1, <3>1 DEF Leaving!SignOutTypeOK, Leaving!Held, Leaving!ChecksOwn, Leaving!ToldOfAll,
                        Leaving!NothingLostUnasked
  <2>3. CASE k.attempt = s8
    <3>1. \A m \in s9' : m.attempt # s8
      BY <2>1, <2>3 DEF Leaving!ChecksOwn
    <3>2. ~k.cancelled /\ (k.unreadable \/ s3 \subseteq s10 \cup k.failed)
      BY <2>1, <2>3 DEF Leaving!ChecksOwn
    <3>3. Leaving!ChecksOwn'
      BY <1>1, <2>1, <3>1 DEF Leaving!ChecksOwn
    <3>4. CASE k.failed # {} \/ k.unreadable
      <4>1. s5' = "unpushed" /\ s6' = k.failed /\ s7' = k.unreadable /\ UNCHANGED <<s2, s3, s11, s12>>
        BY <1>7, <2>3, <3>4 DEF Leaving!Checked, Leaving!device
      <4> QED
        BY <2>1, <3>2, <3>3, <4>1
        DEF Leaving!SignOutTypeOK, Leaving!Held, Leaving!ToldOfAll, Leaving!NothingLostUnasked
    <3>5. CASE ~(k.failed # {} \/ k.unreadable)
      <4>1. Leaving!Destroys({}) /\ s12' = (s12 \/ k.cancelled)
        BY <1>7, <2>3, <3>5 DEF Leaving!Checked
      <4>2. s3 \subseteq {} \cup s10
        BY <3>2, <3>5
      <4>3. s5' = "closed" /\ s2' = [c \in Things |-> "absent"] /\ s3' = {} /\ s11' = s11 \cup (s3 \ ({} \cup s10))
        BY <4>1 DEF Leaving!Destroys
      <4>4. ~s12'
        BY <3>2, <4>1 DEF Leaving!NothingLostUnasked
      <4> QED
        BY <3>3, <4>2, <4>3, <4>4
        DEF Leaving!SignOutTypeOK, Leaving!Held, Leaving!Kinds, Leaving!ToldOfAll, Leaving!NothingLostUnasked
    <3> QED BY <3>4, <3>5
  <2> QED BY <2>2, <2>3
<1>8. ASSUME NEW k \in s9, NEW c \in Things, Leaving!Pushes(k, c) PROVE SignOutInv'
  <2> DEFINE pushed == [k EXCEPT !.waiting = @ \ {c}]
             failed == [k EXCEPT !.waiting = @ \ {c}, !.failed = @ \cup {c}]
  <2>1. UNCHANGED <<s2, s5, s6, s7, s8, s11, s12>>
    BY <1>8 DEF Leaving!Pushes
  <2>2. /\ pushed \in Leaving!CheckOf /\ pushed.attempt = k.attempt /\ pushed.cancelled = k.cancelled
        /\ pushed.unreadable = k.unreadable /\ pushed.waiting = k.waiting \ {c} /\ pushed.failed = k.failed
        /\ failed \in Leaving!CheckOf /\ failed.attempt = k.attempt /\ failed.cancelled = k.cancelled
        /\ failed.unreadable = k.unreadable /\ failed.waiting = k.waiting \ {c}
        /\ failed.failed = k.failed \cup {c}
    BY <1>1 DEF Leaving!CheckOf
  <2>3. \/ /\ s3' = s3 \ {c} /\ s10' \in {s10, s10 \ {c}} /\ s9' = (s9 \ {k}) \cup {pushed}
        \/ s3' = s3 /\ s10' = s10 /\ s9' = (s9 \ {k}) \cup {failed}
    BY <1>8 DEF Leaving!Pushes
  <2> HIDE DEF pushed, failed
  <2>4. Leaving!SignOutTypeOK' /\ Leaving!NothingLostUnasked'
    BY <2>1, <2>3 DEF Leaving!SignOutTypeOK, Leaving!Held, Leaving!NothingLostUnasked
  <2>5. Leaving!ToldOfAll'
    BY <2>1, <2>3 DEF Leaving!ToldOfAll
  <2>6. Leaving!ChecksOwn'
    <3>1. PICK new \in Leaving!CheckOf :
             /\ s9' = (s9 \ {k}) \cup {new} /\ new.attempt = k.attempt /\ new.cancelled = k.cancelled
             /\ new.unreadable = k.unreadable
             /\ s3 \subseteq s10 \cup k.waiting \cup k.failed => s3' \subseteq s10' \cup new.waiting \cup new.failed
             /\ \A m \in s9 : s3 \subseteq s10 \cup m.waiting \cup m.failed
                                 => s3' \subseteq s10' \cup m.waiting \cup m.failed
      BY <2>2, <2>3
    <3>2. s9' \subseteq Leaving!CheckOf
      BY <1>1, <3>1
    <3> QED BY <1>1, <2>1, <3>1, <3>2 DEF Leaving!ChecksOwn
  <2> QED BY <2>4, <2>5, <2>6
<1>9. ASSUME NEW c \in Things, Leaving!Writes(c) \/ Leaving!Turns(c) \/ Leaving!Replicates(c) PROVE SignOutInv'
  <2>1. /\ UNCHANGED <<s5, s6, s7, s8, s9, s11, s12>>
        /\ \/ s2' = s2 /\ s2[c] # "absent" /\ s3' = s3 \cup {c} /\ s10' = s10 \cup {c}
           \/ s2' = [s2 EXCEPT ![c] = "synced"] /\ s3' = s3 /\ s10' = s10 \cup {c}
           \/ s2' = [s2 EXCEPT ![c] = "remnant"] /\ s3' = s3 /\ s10' = s10 \cup {c}
           \/ s2' = s2 /\ s3' = s3 \ {c} /\ s10' = s10
    BY <1>9 DEF Leaving!Writes, Leaving!Turns, Leaving!Replicates
  <2>2. Leaving!SignOutTypeOK'
    BY <2>1 DEF Leaving!SignOutTypeOK, Leaving!Held, Leaving!Kinds
  <2>3. s3' \ s10' \subseteq s3 \ s10
    BY <2>1
  <2>4. Leaving!ChecksOwn'
    BY <1>1, <2>1, <2>3 DEF Leaving!ChecksOwn
  <2>5. Leaving!ToldOfAll' /\ Leaving!NothingLostUnasked'
    BY <2>1, <2>3 DEF Leaving!ToldOfAll, Leaving!NothingLostUnasked
  <2> QED BY <2>2, <2>4, <2>5
<1>10. CASE Leaving!Network
  <2>1. UNCHANGED <<s2, s3, s5, s6, s7, s8, s9, s10, s11, s12>>
    BY <1>10 DEF Leaving!Network
  <2> QED
    BY <2>1 DEF Leaving!SignOutTypeOK, Leaving!Held, Leaving!ChecksOwn, Leaving!ToldOfAll,
                Leaving!NothingLostUnasked
<1> QED
  BY <1>2, <1>3, <1>4, <1>6, <1>7, <1>8, <1>9, <1>10 DEF Leaving!Next

(* 6. OfflineShell.                                                             *)

ShellInv ==
    Shell!OfflineShellTypeOK /\ Shell!WholeUnlessCut /\ Shell!CachedByInstall /\ Shell!InOrder
      /\ Shell!OfferedWhenReady

Workers == [of : Shell!Builds, shell : Shell!Builds \cup {None}]
Pages == [at : {"closed", "document", "running", "failed"}, of : Shell!Builds \cup {None},
          watch : {"no", "updates", "nothing"}]

LEMMA ShellInit == Shell!Init => ShellInv
<1> SUFFICES ASSUME Shell!Init PROVE ShellInv
  OBVIOUS
<1>1. Shell!OfflineShellTypeOK
  <2>1. s3 \in BOOLEAN /\ s12 \in BOOLEAN
    BY Zenon DEF Shell!Init
  <2>2. 1 \in 1..Max.builds /\ 0 \in 0..Max.drops
    BY ShellAssumption
  <2> QED BY <2>1, <2>2 DEF Shell!Init, Shell!Closed, Shell!OfflineShellTypeOK, Shell!Builds
<1>2. s5 = None /\ s7 = None /\ s8 = None /\ s9 = None /\ s11 = None
      /\ s10.watch = "no" /\ s10.at = "closed" /\ ~s12
  BY DEF Shell!Init, Shell!Closed
<1> QED
  BY <1>1, <1>2 DEF ShellInv, Shell!WholeUnlessCut, Shell!CachedByInstall, Shell!InOrder, Shell!OfferedWhenReady

LEMMA ShellTyped ==
  ASSUME Shell!OfflineShellTypeOK
  PROVE  /\ s1 \in Shell!Builds /\ s1 \in Nat /\ s2 \in Shell!Builds /\ s2 \in Nat /\ s2 <= s1
         /\ s7 # None => s7 \in Nat
         /\ s8 # None => s8 \in Nat
         /\ s9 # None => s9 \in Workers /\ s9.of \in Nat /\ s9.of \in Shell!Builds
         /\ s10 \in Pages
         /\ s11 # None => s11 \in Nat
BY ShellAssumption DEF Shell!OfflineShellTypeOK, Shell!Builds, Workers, Pages

\* A navigation, by the reader or to take an update.
LEMMA ShellNavigates ==
  ASSUME ShellInv, Shell!Navigates
  PROVE  /\ s11' = None /\ s12' \in BOOLEAN /\ s10' \in Pages /\ s10'.watch = "no" /\ s10'.at # "closed"
         /\ s5' \in Shell!Builds \cup {None} /\ s13' \subseteq Shell!Builds
         /\ s13 \subseteq s13' /\ (s10.at = "document" => s10.of \in s13')
         /\ (s5' # s5 => s5' = s1 /\ s7 # None)
         /\ (s5' # None /\ s7 # None => s10'.at = "document" /\ s10'.of = s5')
<1>1. s1 \in Shell!Builds /\ s5 \in Shell!Builds \cup {None} /\ s13 \subseteq Shell!Builds /\ s10 \in Pages
      /\ (s10.at = "document" => s10.of \in Shell!Builds)
  BY ShellTyped DEF ShellInv, Shell!OfflineShellTypeOK, Shell!InOrder, Pages
<1>2. ASSUME NEW b \in Shell!Builds \cup {None}, Shell!Document(b)
      PROVE  /\ s11' = None /\ s12' \in BOOLEAN /\ s10' \in Pages /\ s10'.watch = "no" /\ s10'.at # "closed"
             /\ s13' \subseteq Shell!Builds
             /\ s13 \subseteq s13' /\ (s10.at = "document" => s10.of \in s13')
             /\ (b # None => s10'.at = "document" /\ s10'.of = b)
  <2>1. s12' \in BOOLEAN
    BY <1>2, Zenon DEF Shell!Document
  <2>2. s10' \in Pages /\ s10'.watch = "no" /\ s10'.at # "closed"
        /\ (b # None => s10'.at = "document" /\ s10'.of = b)
    BY <1>2 DEF Shell!Document, Shell!Closed, Pages
  <2> QED BY <1>1, <1>2, <2>1, <2>2 DEF Shell!Document, Shell!Abandoned, Pages
<1> QED BY <1>1, <1>2 DEF Shell!Navigates

LEMMA ShellStep == ASSUME ShellInv, Shell!Next PROVE ShellInv'
<1> USE DEF ShellInv
<1>1. /\ s1 \in Shell!Builds /\ s1 \in Nat /\ s2 \in Shell!Builds /\ s2 \in Nat /\ s2 <= s1
      /\ s3 \in BOOLEAN /\ s4 \in 0..Max.drops
      /\ s5 \in Shell!Builds \cup {None} /\ s6 \subseteq Shell!Builds /\ s13 \subseteq Shell!Builds
      /\ s7 \in Shell!Builds \cup {None} /\ s8 \in Shell!Builds \cup {None} /\ s9 \in Workers \cup {None}
      /\ s10 \in Pages /\ s11 \in Shell!Builds \cup {None} /\ s12 \in BOOLEAN
      /\ (s10.at = "document" => s10.of \in Shell!Builds)
  BY ShellTyped DEF Shell!OfflineShellTypeOK, Shell!InOrder, Pages, Workers
<1>2. /\ s7 # None => s7 \in Nat /\ s7 <= s2
      /\ s8 # None => s8 \in Nat /\ s8 <= s2 /\ (s7 # None => s7 < s8)
      /\ s9 # None => /\ s9 \in Workers /\ s9.of \in Nat /\ s9.of \in Shell!Builds /\ s9.of <= s2
                      /\ s7 # None => s7 < s9.of
                      /\ s8 # None => s8 < s9.of
      /\ s11 # None => s11 \in Nat
  BY ShellTyped DEF Shell!InOrder
<1>3. CASE Shell!Deploys
  <2>1. /\ s1 < Max.builds /\ s1' = s1 + 1 /\ s2' \in {s2, s1'}
        /\ UNCHANGED <<s3, s4, s5, s6, s7, s8, s9, s10, s11, s12, s13>>
    BY <1>3 DEF Shell!Deploys, Shell!network, Shell!workers
  <2>2. s1' \in Shell!Builds /\ s2' \in 1..s1' /\ s2 <= s2' /\ s2' \in Nat
    BY <1>1, <2>1, ShellAssumption DEF Shell!Builds
  <2>3. Shell!OfflineShellTypeOK'
    BY <2>1, <2>2 DEF Shell!OfflineShellTypeOK, Shell!Builds
  <2>4. Shell!InOrder'
    BY <1>1, <1>2, <2>1, <2>2 DEF Shell!InOrder
  <2>5. Shell!WholeUnlessCut' /\ Shell!CachedByInstall' /\ Shell!OfferedWhenReady'
    BY <2>1 DEF Shell!WholeUnlessCut, Shell!CachedByInstall, Shell!OfferedWhenReady
  <2> QED BY <2>3, <2>4, <2>5
<1>4. CASE Shell!Connection \/ Shell!Takes
  <2>1. UNCHANGED <<s1, s2, s5, s6, s7, s8, s9, s10, s11, s13>>
    BY <1>4 DEF Shell!Connection, Shell!Takes, Shell!server, Shell!network, Shell!workers
  <2>2. s4' \in 0..Max.drops
    BY <1>1, <1>4, ShellAssumption DEF Shell!Connection, Shell!Takes, Shell!network
  <2>3. s3' \in BOOLEAN /\ s12' \in BOOLEAN
    BY <1>1, <1>4, Zenon DEF Shell!Connection, Shell!Takes, Shell!network
  <2>4. Shell!OfflineShellTypeOK'
    BY <2>1, <2>2, <2>3 DEF Shell!OfflineShellTypeOK, Shell!Builds
  <2>5. Shell!InOrder'
    <3>1. s12' => s11 # None
      BY <1>4 DEF Shell!Connection, Shell!Takes, Shell!InOrder
    <3> QED BY <2>1, <3>1 DEF Shell!InOrder
  <2>6. Shell!WholeUnlessCut' /\ Shell!CachedByInstall' /\ Shell!OfferedWhenReady'
    BY <2>1 DEF Shell!WholeUnlessCut, Shell!CachedByInstall, Shell!OfferedWhenReady
  <2> QED BY <2>4, <2>5, <2>6
<1>5. ASSUME Shell!Navigates, UNCHANGED <<s1, s2, s3, s4, s6, s9>>,
             UNCHANGED <<s7, s8>> \/ (s8 # None /\ s7' = s8 /\ s8' = None)
      PROVE  ShellInv'
  <2>1. /\ s11' = None /\ s12' \in BOOLEAN /\ s10' \in Pages /\ s10'.watch = "no" /\ s10'.at # "closed"
        /\ s5' \in Shell!Builds \cup {None} /\ s13' \subseteq Shell!Builds
        /\ s13 \subseteq s13' /\ (s10.at = "document" => s10.of \in s13')
        /\ (s5' # s5 => s5' = s1 /\ s7 # None)
        /\ (s5' # None /\ s7 # None => s10'.at = "document" /\ s10'.of = s5')
    BY <1>5, ShellNavigates
  <2>9. ~s12'
    BY <1>5 DEF Shell!Navigates, Shell!Document
  <2>2. s10'.at = "document" => s10'.of # None
    BY <1>1, <1>5, ShellAssumption DEF Shell!Navigates, Shell!Document, Shell!Closed
  <2>3. Shell!OfflineShellTypeOK'
    <3>1. s1' \in Shell!Builds /\ s2' \in 1..s1' /\ s3' \in BOOLEAN /\ s4' \in 0..Max.drops
      BY <1>5 DEF Shell!OfflineShellTypeOK
    <3>2. s7' \in Shell!Builds \cup {None} /\ s8' \in Shell!Builds \cup {None} /\ s9' \in Workers \cup {None}
          /\ s6' \subseteq Shell!Builds
      BY <1>1, <1>5
    <3> QED BY <2>1, <3>1, <3>2 DEF Shell!OfflineShellTypeOK, Pages, Workers, Shell!Builds
  <2>4. Shell!InOrder'
    BY <1>2, <1>5, <2>1, <2>2, <2>9 DEF Shell!InOrder
  <2>5. Shell!OfferedWhenReady'
    BY <2>1 DEF Shell!OfferedWhenReady
  <2>6. s7 = None => s5' = s5 /\ (s5 # None /\ s5 \notin s6 => s5 \in s13 \/ (s9 # None /\ s9.shell = s5))
    BY <2>1 DEF Shell!CachedByInstall
  <2>7. Shell!WholeUnlessCut'
    BY <1>5, <2>1, <2>6 DEF Shell!WholeUnlessCut
  <2>8. Shell!CachedByInstall'
    BY <1>5, <2>1, <2>6 DEF Shell!CachedByInstall
  <2> QED BY <2>3, <2>4, <2>5, <2>7, <2>8
<1>6. CASE Shell!Opens \/ Shell!TakesOver \/ Shell!TimesOut
  <2>1. CASE Shell!Opens
    BY <1>5, <2>1 DEF Shell!Opens, Shell!server, Shell!network, Shell!workers
  <2>2. CASE Shell!TimesOut
    BY <1>5, <2>2 DEF Shell!TimesOut, Shell!server, Shell!network, Shell!workers
  <2>3. CASE Shell!TakesOver
    <3>1. s8 # None
      BY <2>3 DEF Shell!TakesOver, Shell!InOrder
    <3> QED BY <1>5, <2>3, <3>1 DEF Shell!TakesOver, Shell!server, Shell!network
  <2> QED BY <1>6, <2>1, <2>2, <2>3
<1>7. CASE Shell!LoadsAsset
  <2> DEFINE here == (s7 # None /\ s10.of \in s6) \/ Shell!Serves(s10.of)
             at == IF here THEN "running" ELSE "failed"
  <2>1. /\ s10.at = "document" /\ s10' = [s10 EXCEPT !.at = at]
        /\ s6' = IF here /\ s7 # None THEN s6 \cup {s10.of} ELSE s6
        /\ s13' = IF here THEN s13 ELSE s13 \cup {s10.of}
        /\ UNCHANGED <<s1, s2, s3, s4, s5, s7, s8, s9, s11, s12>>
    BY <1>7 DEF Shell!LoadsAsset, Shell!server, Shell!network, Shell!workers
  <2>2. s10.of \in Shell!Builds /\ at \in {"running", "failed"}
    BY <1>1, <2>1
  <2>3. ~here => s10.of \in s13'
    BY <2>1
  <2>4. here /\ s7 # None => s10.of \in s6'
    BY <2>1
  <2>5. s6 \subseteq s6' /\ s13 \subseteq s13' /\ s6' \subseteq Shell!Builds /\ s13' \subseteq Shell!Builds
    BY <1>1, <2>1, <2>2
  <2> HIDE DEF here, at
  <2>6. s10' \in Pages /\ s10'.of = s10.of /\ s10'.watch = s10.watch /\ s10'.at \notin {"document", "closed"}
    BY <1>1, <2>1, <2>2 DEF Pages
  <2>7. Shell!OfflineShellTypeOK'
    BY <2>1, <2>5, <2>6 DEF Shell!OfflineShellTypeOK, Pages, Workers, Shell!Builds
  <2>8. Shell!InOrder'
    BY <2>1, <2>6 DEF Shell!InOrder
  <2>9. Shell!OfferedWhenReady'
    BY <2>1, <2>6 DEF Shell!OfferedWhenReady
  <2>10. Shell!CachedByInstall'
    BY <2>1, <2>5 DEF Shell!CachedByInstall
  <2>11. Shell!WholeUnlessCut'
    <3> SUFFICES ASSUME s5 # None, s5 \notin s6', s5 \notin s13', ~(s9 # None /\ s9.shell = s5)
                 PROVE  FALSE
      BY <2>1 DEF Shell!WholeUnlessCut
    <3>1. s10.of = s5
      BY <2>1, <2>5 DEF Shell!WholeUnlessCut
    <3>2. s7 = None
      BY <2>3, <2>4, <3>1
    <3> QED BY <2>5, <3>2 DEF Shell!CachedByInstall
  <2> QED BY <2>7, <2>8, <2>9, <2>10, <2>11
<1>8. CASE Shell!Closes
  <2>1. /\ s10' = Shell!Closed /\ s11' = None /\ s12' = FALSE /\ s13' = s13 \cup Shell!Abandoned
        /\ UNCHANGED <<s1, s2, s3, s4, s5, s6, s7, s8, s9>>
    BY <1>8 DEF Shell!Closes, Shell!server, Shell!network, Shell!workers
  <2>2. s10' \in Pages /\ s10'.at = "closed" /\ s10'.watch = "no"
    BY <2>1 DEF Shell!Closed, Pages
  <2>3. s13 \subseteq s13' /\ s13' \subseteq Shell!Builds /\ (s10.at = "document" => s10.of \in s13')
    BY <1>1, <2>1 DEF Shell!Abandoned
  <2>4. s12' \in BOOLEAN
    BY <2>1, Zenon
  <2>5. Shell!OfflineShellTypeOK'
    BY <2>1, <2>2, <2>3, <2>4 DEF Shell!OfflineShellTypeOK, Pages, Workers, Shell!Builds
  <2>6. Shell!InOrder'
    BY <2>1, <2>2 DEF Shell!InOrder
  <2>7. Shell!OfferedWhenReady' /\ Shell!CachedByInstall' /\ Shell!WholeUnlessCut'
    BY <2>1, <2>2, <2>3 DEF Shell!OfferedWhenReady, Shell!CachedByInstall, Shell!WholeUnlessCut
  <2> QED BY <2>5, <2>6, <2>7
<1>9. ASSUME s9 = None, s2 \notin {s7, s8}, Shell!Installing(s2)
      PROVE  /\ s9' \in Workers /\ s9' # None /\ s9'.of = s2 /\ s9'.shell = None
             /\ (s7 # None => s7 < s2) /\ (s8 # None => s8 < s2)
  <2>1. s9' = [of |-> s2, shell |-> None]
    BY <1>9 DEF Shell!Installing
  <2>2. s9' \in Workers /\ s9'.of = s2 /\ s9'.shell = None
    BY <1>1, <2>1 DEF Workers
  <2> QED BY <1>1, <1>2, <1>9, <2>2, ShellAssumption DEF Workers
<1>10. CASE Shell!Registers
  <2> DEFINE watch == IF s7 # None THEN "updates" ELSE "nothing"
  <2>1. /\ s10.at = "running" /\ s10.watch = "no" /\ s9 = None /\ s10' = [s10 EXCEPT !.watch = watch]
        /\ s11' = IF s7 # None THEN s8 ELSE None
        /\ s9' = s9 \/ (s7 = None /\ s8 = None /\ Shell!Installing(s2))
        /\ UNCHANGED <<s1, s2, s3, s4, s5, s6, s7, s8, s12, s13>>
    BY <1>10 DEF Shell!Registers, Shell!server, Shell!network
  <2>2. s10' \in Pages /\ s10'.at = "running" /\ s10'.of = s10.of /\ s10'.watch = watch
    BY <1>1, <2>1 DEF Pages
  <2>3. s11 = None /\ ~s12
    BY <2>1 DEF Shell!InOrder
  <2>4. CASE s9' = s9
    <3>1. Shell!OfflineShellTypeOK'
      BY <1>1, <2>1, <2>2, <2>4 DEF Shell!OfflineShellTypeOK, Pages, Workers, Shell!Builds
    <3>2. Shell!InOrder'
      BY <1>2, <2>1, <2>2, <2>3, <2>4 DEF Shell!InOrder
    <3>3. Shell!OfferedWhenReady'
      BY <1>2, <2>1, <2>2 DEF Shell!OfferedWhenReady
    <3>4. Shell!CachedByInstall' /\ Shell!WholeUnlessCut'
      BY <2>1, <2>2, <2>4 DEF Shell!CachedByInstall, Shell!WholeUnlessCut
    <3> QED BY <3>1, <3>2, <3>3, <3>4
  <2>5. CASE s7 = None /\ s8 = None /\ Shell!Installing(s2)
    <3>1. s9' \in Workers /\ s9' # None /\ s9'.of = s2 /\ s9'.shell = None
      <4>1. s2 # None
        BY <1>1, ShellAssumption
      <4>2. s9 = None /\ s2 \notin {s7, s8}
        BY <2>1, <2>5, <4>1
      <4> QED BY <1>9, <2>5, <4>2
    <3>2. Shell!OfflineShellTypeOK'
      BY <1>1, <2>1, <2>2, <3>1 DEF Shell!OfflineShellTypeOK, Pages, Workers, Shell!Builds
    <3>3. Shell!InOrder'
      BY <1>1, <1>2, <2>1, <2>2, <2>3, <2>5, <3>1 DEF Shell!InOrder
    <3>4. Shell!OfferedWhenReady'
      BY <2>1, <2>2, <2>5 DEF Shell!OfferedWhenReady
    <3>5. Shell!CachedByInstall' /\ Shell!WholeUnlessCut'
      BY <2>1, <2>2 DEF Shell!CachedByInstall, Shell!WholeUnlessCut
    <3> QED BY <3>2, <3>3, <3>4, <3>5
  <2> QED BY <2>1, <2>4, <2>5
<1>11. CASE Shell!Checks
  <2>1. /\ s9 = None /\ s7 # None /\ s2 \notin {s7, s8} /\ Shell!Installing(s2)
        /\ UNCHANGED <<s1, s2, s3, s4, s5, s6, s7, s8, s10, s11, s12, s13>>
    BY <1>11 DEF Shell!Checks, Shell!server, Shell!network
  <2>2. /\ s9' \in Workers /\ s9' # None /\ s9'.of = s2 /\ s9'.shell = None
        /\ (s7 # None => s7 < s2) /\ (s8 # None => s8 < s2)
    BY <1>9, <2>1
  <2>3. Shell!OfflineShellTypeOK'
    BY <2>1, <2>2 DEF Shell!OfflineShellTypeOK, Pages, Workers, Shell!Builds
  <2>4. Shell!InOrder'
    BY <1>1, <2>1, <2>2 DEF Shell!InOrder
  <2>5. Shell!OfferedWhenReady' /\ Shell!CachedByInstall' /\ Shell!WholeUnlessCut'
    BY <2>1 DEF Shell!OfferedWhenReady, Shell!CachedByInstall, Shell!WholeUnlessCut
  <2> QED BY <2>3, <2>4, <2>5
<1>12. CASE Shell!PrecachesShell
  <2>1. /\ s9 # None /\ s9.shell = None
        /\ UNCHANGED <<s1, s2, s3, s4, s6, s7, s8, s10, s11, s12, s13>>
        /\ \/ s5' = s1 /\ s9' = [s9 EXCEPT !.shell = s1]
           \/ s5' = s5 /\ s9' = None
    BY <1>12 DEF Shell!PrecachesShell, Shell!server, Shell!network
  <2>2. CASE s5' = s1 /\ s9' = [s9 EXCEPT !.shell = s1]
    <3>1. s9' \in Workers /\ s9'.of = s9.of /\ s9'.shell = s1
      BY <1>1, <1>2, <2>1, <2>2 DEF Workers
    <3>2. s9' # None
      BY <3>1, ShellAssumption DEF Workers
    <3>3. Shell!OfflineShellTypeOK'
      BY <1>1, <2>1, <2>2, <3>1 DEF Shell!OfflineShellTypeOK, Pages, Workers, Shell!Builds
    <3>4. Shell!InOrder'
      BY <1>2, <2>1, <3>1 DEF Shell!InOrder
    <3>5. Shell!OfferedWhenReady' /\ Shell!CachedByInstall' /\ Shell!WholeUnlessCut'
      BY <2>1, <2>2, <3>1, <3>2 DEF Shell!OfferedWhenReady, Shell!CachedByInstall, Shell!WholeUnlessCut
    <3> QED BY <3>3, <3>4, <3>5
  <2>3. CASE s5' = s5 /\ s9' = None
    <3>1. Shell!OfflineShellTypeOK'
      BY <2>1, <2>3 DEF Shell!OfflineShellTypeOK, Shell!Builds
    <3>2. Shell!InOrder'
      BY <2>1, <2>3 DEF Shell!InOrder
    <3>3. Shell!OfferedWhenReady' /\ Shell!CachedByInstall' /\ Shell!WholeUnlessCut'
      BY <2>1, <2>3 DEF Shell!OfferedWhenReady, Shell!CachedByInstall, Shell!WholeUnlessCut
    <3> QED BY <3>1, <3>2, <3>3
  <2> QED BY <2>1, <2>2, <2>3
<1>13. CASE Shell!PrecachesAssets
  <2>1. /\ s9 # None /\ s9.shell # None /\ s9' = None /\ s8' = s9.of
        /\ s11' = IF s10.watch = "updates" /\ s11 = None THEN s9.of ELSE s11
        /\ UNCHANGED <<s1, s2, s3, s4, s5, s7, s10, s12>>
        /\ \/ s6' = s6 \cup {s9.shell} /\ s13' = s13
           \/ s6' = s6 /\ s13' = s13 \cup {s9.shell}
    BY <1>13 DEF Shell!PrecachesAssets, Shell!server, Shell!network
  <2>2. s9.of \in Shell!Builds /\ s9.shell \in Shell!Builds /\ s9.of # None
    BY <1>2, <2>1, ShellAssumption DEF Workers
  <2>3. Shell!OfflineShellTypeOK'
    BY <1>1, <2>1, <2>2 DEF Shell!OfflineShellTypeOK, Shell!Builds
  <2>4. Shell!InOrder'
    BY <1>2, <2>1, <2>2 DEF Shell!InOrder
  <2>5. Shell!OfferedWhenReady'
    <3>1. s10.watch = "updates" => s7 # None
      BY DEF Shell!InOrder
    <3> QED BY <1>2, <2>1, <2>2, <3>1 DEF Shell!OfferedWhenReady
  <2>6. Shell!CachedByInstall' /\ Shell!WholeUnlessCut'
    BY <2>1 DEF Shell!CachedByInstall, Shell!WholeUnlessCut
  <2> QED BY <2>3, <2>4, <2>5, <2>6
<1>14. CASE Shell!Activates
  <2>1. /\ s8 # None /\ (s7 = None \/ s10.at = "closed") /\ s7' = s8 /\ s8' = None
        /\ UNCHANGED <<s1, s2, s3, s4, s5, s6, s9, s10, s11, s12, s13>>
    BY <1>14 DEF Shell!Activates, Shell!server, Shell!network
  <2>2. s11 = None
    BY <2>1 DEF Shell!InOrder
  <2>3. Shell!OfflineShellTypeOK'
    BY <1>1, <2>1 DEF Shell!OfflineShellTypeOK, Shell!Builds
  <2>4. Shell!InOrder'
    BY <1>2, <2>1 DEF Shell!InOrder
  <2>5. Shell!OfferedWhenReady' /\ Shell!CachedByInstall' /\ Shell!WholeUnlessCut'
    BY <2>1, <2>2 DEF Shell!OfferedWhenReady, Shell!CachedByInstall, Shell!WholeUnlessCut
  <2> QED BY <2>3, <2>4, <2>5
<1> QED
  BY <1>3, <1>4, <1>6, <1>7, <1>8, <1>10, <1>11, <1>12, <1>13, <1>14 DEF Shell!Next

(* 7. AddForm.                                                                  *)

AddInv ==
    Add!AddTyped /\ Add!FetchesOwn /\ Add!LookupIsOfTyped /\ Add!SavesOwn /\ Add!SavedAsTyped

Lookup == [kind : {"idle", "pending", "found"}, code : Others \cup {None}]
Fetch == [code : Others, live : BOOLEAN]

LEMMA AddInit == Add!Init => AddInv
<1> SUFFICES ASSUME Add!Init PROVE AddInv
  OBVIOUS
<1>1. s3 \in Lookup /\ s3 = Add!Idle /\ s3.kind = "idle"
  BY DEF Add!Init, Add!Idle, Lookup
<1>2. Add!AddTyped
  BY <1>1 DEF Add!Init, Add!AddTyped, Add!AddFormTypeOK, Lookup
<1>3. Add!FetchesOwn /\ Add!LookupIsOfTyped /\ Add!SavesOwn /\ Add!SavedAsTyped
  BY <1>1 DEF Add!Init, Add!FetchesOwn, Add!LookupIsOfTyped, Add!SavesOwn, Add!SavedAsTyped
<1> QED BY <1>2, <1>3 DEF AddInv

\* Whatever is aborted shows nothing.
LEMMA AddAborts ==
  ASSUME s5 \subseteq Fetch
  PROVE  Add!Aborted \subseteq Fetch /\ \A f \in Add!Aborted : ~f.live
<1>1. ASSUME NEW f \in s5
      PROVE  LET over == [f EXCEPT !.live = FALSE] IN over \in Fetch /\ ~over.live
  BY DEF Fetch
<1> QED BY <1>1 DEF Add!Aborted

\* The invariant, in parts that a step leaves alone or not: what is looked up, and what is saved.
LookingInv ==
    /\ s2 \in Others \cup {None} /\ s3 \in Lookup /\ s4 \in Others \cup {None} /\ s5 \subseteq Fetch
    /\ \A f, g \in s5 : f.live /\ g.live => f = g
    /\ Add!FetchesOwn /\ Add!LookupIsOfTyped
SavingInv ==
    /\ s1 \in Things /\ s8 \in Things \cup {None} /\ s10 \in {"no", "locked", "storage"}
    /\ s9 # None => s9 \in Add!Saving
    /\ Add!SavesOwn /\ Add!SavedAsTyped

LEMMA AddParts == AddInv <=> LookingInv /\ SavingInv
BY DEF AddInv, LookingInv, SavingInv, Add!AddTyped, Add!AddFormTypeOK, Lookup, Fetch

LEMMA LookingStep == ASSUME LookingInv, Add!Next PROVE LookingInv'
<1> USE DEF LookingInv
<1>1. CASE UNCHANGED <<s2, s3, s4, s5>>
  BY <1>1 DEF Add!FetchesOwn, Add!LookupIsOfTyped
<1>2. ASSUME s2' \in Others \cup {None}, s5' = Add!Aborted, s3' \in Lookup, s3'.kind # "pending",
             s3'.kind # "idle" => s3'.code = s2', s4' # None => s4' = s2' /\ s3' = Add!Idle
      PROVE  LookingInv'
  <2>1. s5' \subseteq Fetch /\ \A f \in s5' : ~f.live
    BY <1>2, AddAborts
  <2> QED BY <1>2, <2>1 DEF Add!FetchesOwn, Add!LookupIsOfTyped
<1>3. Add!Idle \in Lookup /\ Add!Idle.kind = "idle"
  BY DEF Add!Idle, Lookup
<1>4. ASSUME NEW code \in Others \cup {None}, Add!Types(code) PROVE LookingInv'
  <2>1. code # s2 /\ s2' = code /\ Add!Schedule(code)
    BY <1>4 DEF Add!Types
  <2>2. ~(s3.kind # "idle" /\ code # None /\ s3.code = code)
    BY <2>1 DEF Add!LookupIsOfTyped
  <2>3. s3' = Add!Idle /\ s5' = Add!Aborted /\ (s4' = code \/ s4' = None)
    BY <2>1, <2>2 DEF Add!Schedule
  <2> QED BY <1>2, <1>3, <2>1, <2>3
<1>5. ASSUME UNCHANGED s2, s4' = None, s5' = Add!Aborted,
             s3' = IF s3.kind = "pending" THEN Add!Idle ELSE s3
      PROVE  LookingInv'
  BY <1>2, <1>3, <1>5 DEF Add!LookupIsOfTyped, Lookup
<1>6. CASE Add!Debounced
  <2> DEFINE pending == [kind |-> "pending", code |-> s4]
             fetch == [code |-> s4, live |-> TRUE]
  <2>1. s4 # None /\ s4' = None /\ s3' = pending /\ s5' = s5 \cup {fetch} /\ s2' = s2
    BY <1>6 DEF Add!Debounced
  <2>2. s4 = s2 /\ s3 = Add!Idle /\ s4 \in Others
    BY <2>1 DEF Add!LookupIsOfTyped
  <2>3. /\ pending \in Lookup /\ pending.kind = "pending" /\ pending.code = s4
        /\ fetch \in Fetch /\ fetch.code = s4 /\ fetch.live
    BY <2>2 DEF Lookup, Fetch
  <2>4. \A f \in s5 : ~f.live
    BY <1>3, <2>2 DEF Add!LookupIsOfTyped
  <2> HIDE DEF pending, fetch
  <2> QED BY <2>1, <2>2, <2>3, <2>4 DEF Add!FetchesOwn, Add!LookupIsOfTyped
<1>7. CASE Add!Answers
  <2>1. PICK f \in s5, found \in BOOLEAN : s5' = s5 \ {f} /\ Add!Heard(f, found) /\ s2' = s2 /\ s4' = s4
    BY <1>7 DEF Add!Answers
  <2>2. CASE ~f.live
    <3>1. s3' = s3
      BY <2>1, <2>2 DEF Add!Heard
    <3> QED BY <2>1, <2>2, <3>1 DEF Add!FetchesOwn, Add!LookupIsOfTyped
  <2>3. CASE f.live
    <3> DEFINE answer == [kind |-> "found", code |-> f.code]
    <3>1. s3' = IF found THEN answer ELSE Add!Idle
      BY <2>1, <2>3 DEF Add!Heard
    <3>2. f.code = s2 /\ f.code \in Others
      BY <2>3 DEF Add!FetchesOwn, Fetch
    <3>3. answer \in Lookup /\ answer.kind = "found" /\ answer.code = s2
      BY <3>2 DEF Lookup
    <3>4. s3.kind = "pending" /\ \A g \in s5' : ~g.live
      BY <2>1, <2>3 DEF Add!LookupIsOfTyped
    <3>5. s4 = None
      BY <1>3, <3>4 DEF Add!LookupIsOfTyped
    <3> HIDE DEF answer
    <3> QED BY <1>3, <2>1, <3>1, <3>3, <3>4, <3>5 DEF Add!FetchesOwn, Add!LookupIsOfTyped
  <2> QED BY <2>2, <2>3
<1>8. CASE Add!Saves \/ Add!Leaves \/ \E p \in Things : Add!Switch(p)
  BY <1>1, <1>5, <1>8 DEF Add!Saves, Add!Leaves, Add!Switch, Add!Stop, Add!looking
<1>9. CASE Add!Reaches \/ Add!Submits \/ Add!Plans \/ Add!PlanFails \/ Add!SaveFails \/ Add!DataChanges
  BY <1>1, <1>9 DEF Add!Reaches, Add!Submits, Add!Plans, Add!PlanFails, Add!SaveFails, Add!DataChanges, Add!looking
<1> QED BY <1>4, <1>6, <1>7, <1>8, <1>9 DEF Add!Next

LEMMA SavingStep == ASSUME SavingInv, s2 \in Others \cup {None}, Add!Next PROVE SavingInv'
<1> USE DEF SavingInv
<1>1. CASE UNCHANGED <<s1, s8, s9, s10, s12>> /\ (s7' => s7)
  BY <1>1 DEF Add!SavesOwn, Add!SavedAsTyped
<1>2. CASE \/ Add!Debounced \/ Add!Answers \/ Add!Reaches \/ Add!Leaves
           \/ \E code \in Others \cup {None} : Add!Types(code)
  BY <1>1, <1>2 DEF Add!Debounced, Add!Answers, Add!Reaches, Add!Leaves, Add!Types, Add!submit
<1>3. CASE Add!Submits
  <2> DEFINE new == [begun |-> s1, same |-> TRUE, at |-> "rooms", plan |-> None]
  <2>1. /\ s7 /\ s9 = None /\ s8' = (IF s8 = None THEN s1 ELSE s8) /\ s9' = new
        /\ UNCHANGED <<s1, s7, s10, s12>>
    BY <1>3 DEF Add!Submits
  <2>2. new \in Add!Saving /\ new.begun = s1 /\ new.at = "rooms"
    BY DEF Add!Saving
  <2>3. s8' = s1
    BY <2>1 DEF Add!SavesOwn
  <2> HIDE DEF new
  <2> QED BY <2>1, <2>2, <2>3 DEF Add!SavesOwn, Add!SavedAsTyped
<1>4. CASE Add!Plans
  <2>1. s9 # None /\ s9.at = "rooms" /\ s9 \in Add!Saving /\ UNCHANGED <<s1, s7, s10, s12>>
    BY <1>4 DEF Add!Plans
  <2>2. CASE ~s9.same
    <3>1. s8' = s8 /\ s9' = None
      BY <1>4, <2>2 DEF Add!Plans, Add!Writes
    <3> QED BY <2>1, <3>1 DEF Add!SavesOwn, Add!SavedAsTyped
  <2>3. CASE s9.same
    <3> DEFINE plan == [into |-> s8', code |-> s2, answer |-> Add!AnswerForSave]
               new == [s9 EXCEPT !.at = "writing", !.plan = plan]
    <3>1. s8' = (IF s8 = None THEN s1 ELSE s8) /\ s9' = new
      BY <1>4, <2>3 DEF Add!Plans, Add!Writes
    <3>2. s8 = s9.begun /\ s9.begun \in Things
      BY <2>1, <2>3 DEF Add!SavesOwn, Add!Saving
    <3>3. s8' = s9.begun
      BY <3>1, <3>2, InterfaceAssumption
    <3>4. Add!AnswerForSave \in {None, s2}
      BY DEF Add!AnswerForSave
    <3>5. plan \in Add!Planned /\ plan.into = s9.begun /\ plan.answer \in {None, plan.code}
      BY <3>2, <3>3, <3>4 DEF Add!Planned
    <3> HIDE DEF plan
    <3>6. new \in Add!Saving /\ new.begun = s9.begun /\ new.plan = plan
      BY <2>1, <3>5 DEF Add!Saving
    <3>7. plan # None
      BY <3>5, InterfaceAssumption
    <3> HIDE DEF new
    <3>8. s7 => s1 = s8'
      BY <3>1 DEF Add!SavesOwn
    <3> QED BY <2>1, <3>1, <3>2, <3>3, <3>5, <3>6, <3>7, <3>8 DEF Add!SavesOwn, Add!SavedAsTyped
  <2> QED BY <2>2, <2>3
<1>5. CASE Add!PlanFails \/ Add!SaveFails \/ Add!DataChanges
  <2>1. (s9' = None \/ s9' = s9) /\ s10' \in {"no", "locked", "storage"} /\ UNCHANGED <<s1, s7, s8, s12>>
    BY <1>5 DEF Add!PlanFails, Add!SaveFails, Add!DataChanges
  <2> QED BY <2>1 DEF Add!SavesOwn, Add!SavedAsTyped
<1>6. CASE Add!Saves
  <2> DEFINE written == [begun |-> s9.begun, into |-> s9.plan.into, code |-> s9.plan.code,
                         answer |-> s9.plan.answer]
  <2>1. /\ s9 # None /\ s9.at = "writing" /\ s12' = s12 \cup {written}
        /\ s9' = None /\ s10' = "no" /\ s7' = FALSE /\ UNCHANGED <<s1, s8>>
    BY <1>6 DEF Add!Saves
  <2>2. written.into = written.begun /\ written.answer \in {None, written.code}
    BY <2>1 DEF Add!SavesOwn
  <2> HIDE DEF written
  <2> QED BY <2>1, <2>2 DEF Add!SavesOwn, Add!SavedAsTyped
<1>7. ASSUME NEW p \in Things, Add!Switch(p) PROVE SavingInv'
  <2>1. CASE s7
    <3>1. /\ s1' = p /\ s8' = None /\ s7' = FALSE /\ UNCHANGED <<s10, s12>>
          /\ s9' = IF s9 = None THEN None ELSE [s9 EXCEPT !.same = FALSE]
      BY <1>7, <2>1 DEF Add!Switch
    <3>2. s9 # None => /\ s9' \in Add!Saving /\ ~s9'.same /\ s9'.begun = s9.begun /\ s9'.at = s9.at
                       /\ s9'.plan = s9.plan
      BY <3>1 DEF Add!Saving
    <3> QED BY <3>1, <3>2 DEF Add!SavesOwn, Add!SavedAsTyped
  <2>2. CASE ~s7
    <3>1. s1' = p /\ UNCHANGED <<s7, s8, s9, s10, s12>>
      BY <1>7, <2>2 DEF Add!Switch
    <3> QED BY <2>2, <3>1 DEF Add!SavesOwn, Add!SavedAsTyped
  <2> QED BY <2>1, <2>2
<1> QED BY <1>2, <1>3, <1>4, <1>5, <1>6, <1>7 DEF Add!Next

LEMMA AddStep == ASSUME AddInv, Add!Next PROVE AddInv'
<1>1. LookingInv /\ SavingInv
  BY AddParts
<1>2. LookingInv'
  BY <1>1, LookingStep
<1>3. SavingInv'
  BY <1>1, SavingStep DEF LookingInv
<1>4. AddInv' <=> LookingInv' /\ SavingInv'
  BY AddParts, PTL
<1> QED BY <1>2, <1>3, <1>4

(* 8. Replication.                                                              *)

ReplicationInv == Rep!HandlesInOrder /\ Rep!RefusalRemembered

LEMMA ReplicationInit == Rep!Init => ReplicationInv
<1> SUFFICES ASSUME Rep!Init PROVE ReplicationInv
  OBVIOUS
<1>1. \A h \in Rep!Handles : h \in Nat /\ h > 0
  BY InterfaceAssumption DEF Rep!Handles
<1>2. /\ s4 = 0 /\ s3 = 0 /\ s2 = [h \in Rep!Handles |-> "none"] /\ s6 = [h \in Rep!Handles |-> "none"]
      /\ s1 = FALSE /\ s7 = "none" /\ s12 = "no"
  BY DEF Rep!Init
<1>3. s4 \in 0..Max.starts /\ s3 \in 0..s4
  BY <1>2, InterfaceAssumption
<1>4. Rep!HandlesInOrder
  BY <1>1, <1>2, <1>3 DEF Rep!HandlesInOrder
<1>5. Rep!RefusalRemembered
  BY <1>2 DEF Rep!RefusalRemembered
<1> QED BY <1>4, <1>5 DEF ReplicationInv

\* What is heard of a handle that has stopped changes nothing.
LEMMA HearsAt ==
  ASSUME ReplicationInv, NEW h \in Rep!Handles, h <= s4,
         NEW next \in Rep!SyncStates \ {"stopped"}, NEW clear \in BOOLEAN, Rep!Hears(h, next, clear)
  PROVE  \/ UNCHANGED <<s2, s7, s8>> /\ (h = s3 => s2[h] = next \/ (s2[h] = "denied" /\ ~clear))
         \/ h = s3 /\ s2' = [s2 EXCEPT ![h] = next] /\ s7' = next /\ s8' = (s8 \/ next = "denied")
<1>1. h # s3 => s2[h] = "stopped"
  BY DEF ReplicationInv, Rep!HandlesInOrder
<1>2. h = s3 => s2[h] # "stopped"
  BY DEF ReplicationInv, Rep!HandlesInOrder
<1> QED BY <1>1, <1>2 DEF Rep!Hears

\* Whatever the live handle reports, the handles stay in order.
LEMMA LiveHeard ==
  ASSUME ReplicationInv, s3 # 0, NEW next \in Rep!SyncStates \ {"stopped"}, NEW clear \in BOOLEAN,
         Rep!Hears(s3, next, clear), UNCHANGED <<s1, s3, s4>>,
         s6' \in [Rep!Handles -> {"none", "asked", "reached", "failed"}],
         \A h \in Rep!Handles : h > s4 => s6'[h] = "none",
         next = "denied" => s12' # "no", s12' = s12 \/ (s12 = "no" /\ s12' = "yes" /\ next = "denied")
  PROVE  Rep!HandlesInOrder' /\ Rep!RefusalRemembered'
<1>1. s3 \in Rep!Handles /\ s3 <= s4
  BY InterfaceAssumption DEF ReplicationInv, Rep!HandlesInOrder, Rep!Handles
<1>2. CASE UNCHANGED <<s2, s7, s8>>
  <2>1. Rep!HandlesInOrder'
    BY <1>2 DEF ReplicationInv, Rep!HandlesInOrder
  <2>2. s2[s3] = next \/ s2[s3] = "denied"
    BY <1>1, HearsAt, <1>2 DEF Rep!Hears, ReplicationInv, Rep!HandlesInOrder
  <2>3. next = "denied" => s2[s3] = "denied"
    BY <2>2
  <2>4. Rep!RefusalRemembered'
    BY <1>2, <2>3 DEF ReplicationInv, Rep!RefusalRemembered
  <2> QED BY <2>1, <2>4
<1>3. CASE s2' = [s2 EXCEPT ![s3] = next] /\ s7' = next /\ s8' = (s8 \/ next = "denied")
  <2>1. s2'[s3] = next /\ \A h \in Rep!Handles \ {s3} : s2'[h] = s2[h]
    BY <1>1, <1>3 DEF ReplicationInv, Rep!HandlesInOrder
  <2>2. s2' \in [Rep!Handles -> Rep!SyncStates \cup {"none"}]
    BY <1>3 DEF ReplicationInv, Rep!HandlesInOrder
  <2>3. Rep!HandlesInOrder'
    BY <2>1, <2>2 DEF ReplicationInv, Rep!HandlesInOrder
  <2>4. Rep!RefusalRemembered'
    BY <1>3, <2>1 DEF ReplicationInv, Rep!RefusalRemembered
  <2> QED BY <2>3, <2>4
<1> QED BY <1>1, <1>2, <1>3, HearsAt

LEMMA ReplicationStep == ASSUME ReplicationInv, Rep!Next PROVE ReplicationInv'
<1> USE DEF ReplicationInv
<1> DEFINE Probes == [Rep!Handles -> {"none", "asked", "reached", "failed"}]
<1>0. s3 # 0 => s3 \in Rep!Handles /\ s3 <= s4
  BY InterfaceAssumption DEF Rep!HandlesInOrder, Rep!Handles
<1>1. CASE Rep!Starts
  <2>1. /\ s3 = 0 /\ s4 < Max.starts /\ s1' = TRUE /\ s4' = s4 + 1 /\ s3' = s4'
        /\ s2' = [s2 EXCEPT ![s4'] = "active"] /\ s7' = "active" /\ UNCHANGED <<s6, s8, s12>>
    BY <1>1 DEF Rep!Starts, Rep!documents
  <2>2. s4' \in Rep!Handles /\ s4' \in 0..Max.starts /\ s4' \in Nat /\ s4 \in Nat
    BY <2>1, InterfaceAssumption DEF Rep!HandlesInOrder, Rep!Handles
  <2>3. s2'[s4'] = "active" /\ \A h \in Rep!Handles \ {s4'} : s2'[h] = s2[h]
    BY <2>1, <2>2 DEF Rep!HandlesInOrder
  <2>4. s2' \in [Rep!Handles -> Rep!SyncStates \cup {"none"}]
    BY <2>1 DEF Rep!HandlesInOrder, Rep!SyncStates
  <2>5. \A h \in Rep!Handles : h \in Nat \ {0}
    BY InterfaceAssumption DEF Rep!Handles
  <2>6. Rep!HandlesInOrder'
    BY <2>1, <2>2, <2>3, <2>4, <2>5 DEF Rep!HandlesInOrder, Rep!SyncStates
  <2>7. Rep!RefusalRemembered'
    BY <2>1, <2>3 DEF Rep!RefusalRemembered, Rep!SyncStates
  <2> QED BY <2>6, <2>7
<1>2. CASE Rep!Suspends \/ Rep!Leaves
  <2>1. /\ s3' = 0 /\ UNCHANGED <<s4, s6>>
        /\ s2' = IF s3 = 0 THEN s2 ELSE [s2 EXCEPT ![s3] = "stopped"]
        /\ s1' \in BOOLEAN /\ s7' \in {"stopped", "none"}
        /\ (s8' = s8 /\ s12' = s12) \/ s12' = "no"
    BY <1>2 DEF Rep!Suspends, Rep!Leaves, Rep!documents, Rep!RefusalRemembered
  <2>2. s3 # 0 => s2'[s3] = "stopped" /\ \A h \in Rep!Handles \ {s3} : s2'[h] = s2[h]
    BY <1>0, <2>1 DEF Rep!HandlesInOrder
  <2>3. s2' \in [Rep!Handles -> Rep!SyncStates \cup {"none"}]
    BY <2>1 DEF Rep!HandlesInOrder, Rep!SyncStates
  <2>4. \A h \in Rep!Handles : h \in Nat \ {0}
    BY InterfaceAssumption DEF Rep!Handles
  <2>5. Rep!HandlesInOrder'
    BY <1>0, <2>1, <2>2, <2>3, <2>4 DEF Rep!HandlesInOrder
  <2>6. Rep!RefusalRemembered'
    BY <2>1 DEF Rep!RefusalRemembered, Rep!SyncStates
  <2> QED BY <2>5, <2>6
<1>3. CASE Rep!Works \/ Rep!Pulled \/ Rep!Errs
  <2>1. PICK next \in {"active", "offline"} : Rep!Hears(s3, next, FALSE)
    BY <1>3 DEF Rep!Works, Rep!Pulled, Rep!Errs
  <2>2. s3 # 0 /\ UNCHANGED <<s1, s3, s4, s6, s12>>
    BY <1>3 DEF Rep!Works, Rep!Pulled, Rep!Errs, Rep!documents
  <2>3. next \in Rep!SyncStates \ {"stopped"}
    BY DEF Rep!SyncStates
  <2>4. s6' \in Probes /\ \A h \in Rep!Handles : h > s4 => s6'[h] = "none"
    BY <2>2 DEF Rep!HandlesInOrder
  <2> QED BY <2>1, <2>2, <2>3, <2>4, LiveHeard
<1>4. CASE Rep!Pushed \/ Rep!Denied
  <2>1. PICK next \in {"active", "denied"} :
          /\ Rep!Hears(s3, next, TRUE)
          /\ s12' = IF next = "denied" /\ s12 = "no" THEN "yes" ELSE s12
    BY <1>4 DEF Rep!Pushed, Rep!Denied
  <2>2. s3 # 0 /\ UNCHANGED <<s1, s3, s4, s6>>
    BY <1>4 DEF Rep!Pushed, Rep!Denied
  <2>3. next \in Rep!SyncStates \ {"stopped"}
    BY DEF Rep!SyncStates
  <2>4. s6' \in Probes /\ \A h \in Rep!Handles : h > s4 => s6'[h] = "none"
    BY <2>2 DEF Rep!HandlesInOrder
  <2>5. next = "denied" => s12' # "no"
    BY <2>1
  <2>6. s12' = s12 \/ (s12 = "no" /\ s12' = "yes" /\ next = "denied")
    BY <2>1
  <2> QED BY <2>1, <2>2, <2>3, <2>4, <2>5, <2>6, LiveHeard
<1>5. CASE Rep!Paused \/ \E h \in Rep!Handles : Rep!ProbeAsked(h)
  <2>1. /\ s6' \in Probes /\ \A h \in Rep!Handles : s6[h] = "none" /\ h # s3 => s6'[h] = "none"
        /\ UNCHANGED <<s1, s2, s3, s4, s7, s8, s12>>
    BY <1>5 DEF Rep!Paused, Rep!ProbeAsked, Rep!documents, Rep!HandlesInOrder
  <2>2. \A h \in Rep!Handles : h > s4 => h # s3
    BY DEF Rep!HandlesInOrder, Rep!Handles
  <2>3. Rep!HandlesInOrder'
    BY <2>1, <2>2 DEF Rep!HandlesInOrder
  <2> QED BY <2>1, <2>3 DEF Rep!RefusalRemembered
<1>6. ASSUME NEW h \in Rep!Handles, Rep!ProbeAnswers(h) PROVE ReplicationInv'
  <2>1. PICK next \in {"idle", "offline"} : Rep!Hears(h, next, FALSE)
    BY <1>6 DEF Rep!ProbeAnswers
  <2>2. s6[h] # "none" /\ s6' = [s6 EXCEPT ![h] = "none"] /\ UNCHANGED <<s1, s3, s4, s12>>
    BY <1>6 DEF Rep!ProbeAnswers, Rep!documents
  <2>3. next \in Rep!SyncStates \ {"stopped"}
    BY DEF Rep!SyncStates
  <2>4. s6' \in Probes /\ \A g \in Rep!Handles : g > s4 => s6'[g] = "none"
    BY <2>2 DEF Rep!HandlesInOrder
  <2>5. h <= s4
    BY <2>2, InterfaceAssumption DEF Rep!HandlesInOrder, Rep!Handles
  <2>6. CASE h = s3
    <3>1. s3 # 0
      BY <2>6, InterfaceAssumption DEF Rep!Handles
    <3> QED BY <2>1, <2>2, <2>3, <2>4, <2>6, <3>1, LiveHeard
  <2>7. CASE h # s3
    <3>1. UNCHANGED <<s2, s7, s8>>
      BY <2>1, <2>3, <2>5, <2>7, HearsAt
    <3> QED BY <2>2, <2>4, <3>1 DEF Rep!HandlesInOrder, Rep!RefusalRemembered
  <2> QED BY <2>6, <2>7
<1>7. CASE Rep!Dropped \/ Rep!PushBegins \/ Rep!PushReaches \/ Rep!Writes \/ Rep!Network \/ Rep!Server
  <2>1. UNCHANGED <<s1, s2, s3, s4, s6, s7, s8, s12>>
    BY <1>7 DEF Rep!Dropped, Rep!PushBegins, Rep!PushReaches, Rep!Writes, Rep!Network, Rep!Server, Rep!documents
  <2> QED BY <2>1 DEF Rep!HandlesInOrder, Rep!RefusalRemembered
<1>8. CASE Rep!PushAnswers
  <2>1. /\ UNCHANGED <<s1, s2, s3, s4, s6, s7>>
        /\ s8' = (s8 /\ s9 = "failed") /\ s9 \in {"taken", "failed"}
        /\ s12' = IF s12 = "yes" /\ s9 = "taken" THEN "over" ELSE s12
    BY <1>8 DEF Rep!PushAnswers
  <2>2. Rep!HandlesInOrder'
    BY <2>1 DEF Rep!HandlesInOrder
  <2>3. Rep!RefusalRemembered'
    BY <2>1 DEF Rep!RefusalRemembered
  <2> QED BY <2>2, <2>3
<1> QED BY <1>1, <1>2, <1>3, <1>4, <1>5, <1>6, <1>7, <1>8 DEF Rep!Next, Rep!Answers

LEMMA RefusalIsShown == ReplicationInv => Rep!RefusalShown
BY DEF ReplicationInv, Rep!RefusalRemembered, Rep!RefusalShown, Rep!StatusShown, Rep!Shown

(* 9. ScanDialog.                                                               *)

ScanInv == Scan!ScanDialogTypeOK /\ Scan!ReadsWhileOpen

LEMMA ScanInit == Scan!Init => ScanInv
<1> SUFFICES ASSUME Scan!Init PROVE ScanInv
  OBVIOUS
<1>1. /\ s1 = FALSE /\ s2 = TRUE /\ s3 = {} /\ s4 = {} /\ s5 = None /\ s6 = FALSE /\ s8 = 0 /\ s10 = 0
  BY DEF Scan!Init
<1>2. 0 \in 0..Max.opens
  BY InterfaceAssumption
<1> QED BY <1>1, <1>2 DEF ScanInv, Scan!ScanDialogTypeOK, Scan!ReadsWhileOpen

LEMMA ScanStep == ASSUME ScanInv, Scan!Next PROVE ScanInv'
<1> USE DEF ScanInv, Scan!ScanDialogTypeOK, Scan!ReadsWhileOpen
<1>0. s10 \in Nat /\ s8 \in Nat /\ Max.opens \in Nat
  BY InterfaceAssumption
<1>1. CASE Scan!Opens
  <2>1. /\ s10 < Max.opens /\ s1' = TRUE /\ s10' = s10 + 1 /\ s3' \in {s3, s3 \cup {s10'}}
        /\ UNCHANGED <<s2, s4, s5, s6, s8>>
    BY <1>1 DEF Scan!Opens
  <2>2. s10' \in 0..Max.opens /\ s10' \in 1..Max.opens
    BY <1>0, <2>1
  <2> QED BY <2>1, <2>2
<1>2. CASE Scan!Closes \/ Scan!Leaves
  <2>1. /\ s1' \in BOOLEAN /\ s2' \in BOOLEAN /\ s5' = None /\ s6' = FALSE /\ s4' = s4 \ {s5}
        /\ UNCHANGED <<s3, s8, s10>>
    BY <1>2 DEF Scan!Closes, Scan!Leaves, Scan!Stop
  <2> QED BY <2>1
<1>3. CASE Scan!Granted
  <2>1. PICK s \in s3 :
          /\ s3' = s3 \ {s} /\ UNCHANGED <<s1, s2, s8, s10>>
          /\ \/ s1 /\ s5' = s /\ s6' = TRUE /\ s4' = s4 \cup {s}
             \/ UNCHANGED <<s4, s5, s6>>
    BY <1>3 DEF Scan!Granted, Scan!Wanted
  <2>2. s \in 1..Max.opens /\ s # None
    BY InterfaceAssumption
  <2>3. CASE s1 /\ s5' = s /\ s6' = TRUE /\ s4' = s4 \cup {s}
    <3>1. s6' /\ s5' # None /\ s5' \in s4' /\ s4' \subseteq 1..Max.opens /\ s3' \subseteq 1..Max.opens
      BY <2>1, <2>2, <2>3
    <3> QED BY <2>1, <2>3, <3>1
  <2>4. CASE UNCHANGED <<s4, s5, s6>>
    BY <2>1, <2>4
  <2> QED BY <2>1, <2>3, <2>4
<1>4. CASE Scan!Denied \/ Scan!FrameBegins
  <2>1. s3' \subseteq s3 /\ UNCHANGED <<s1, s2, s4, s5, s6, s8, s10>>
    BY <1>4 DEF Scan!Denied, Scan!FrameBegins
  <2> QED BY <2>1
<1>5. CASE Scan!FrameRead \/ Scan!ImageChosen \/ Scan!ImageRead
  <2>1. /\ UNCHANGED <<s2, s3, s10>>
        /\ \/ UNCHANGED <<s1, s4, s5, s6>>
           \/ s1' = FALSE /\ s5' = None /\ s6' = FALSE /\ s4' = s4 \ {s5}
    BY <1>5 DEF Scan!FrameRead, Scan!ImageChosen, Scan!ImageRead, Scan!Accept, Scan!Stop
  <2>2. s8' \in 0..Max.opens
    BY <1>0, <1>5 DEF Scan!FrameRead, Scan!ImageChosen, Scan!ImageRead
  <2>3. CASE UNCHANGED <<s1, s4, s5, s6>>
    BY <2>1, <2>2, <2>3
  <2>4. CASE s1' = FALSE /\ s5' = None /\ s6' = FALSE /\ s4' = s4 \ {s5}
    <3>1. s1' \in BOOLEAN
      BY <2>4, Zenon
    <3>2. ~s6' /\ s5' = None /\ s4' \subseteq 1..Max.opens
      BY <2>4
    <3> QED BY <2>1, <2>2, <3>1, <3>2
  <2> QED BY <2>1, <2>3, <2>4
<1> QED BY <1>1, <1>2, <1>3, <1>4, <1>5 DEF Scan!Next

(* 10. AccountPage.                                                             *)

AccountInv == Account!AccountTyped /\ Account!OverIsNobodys /\ Account!NothingLeftBehind

ReadOfAccount ==
  [of : Things \cup {None}, newest : BOOLEAN, got : Account!Said \cup Account!Shown \cup {None}, ends : BOOLEAN]

\* What is said holds no methods, and what is shown holds those of one account.
LEMMA SaidOrShown ==
  /\ \A a \in Account!Said : "of" \notin DOMAIN a
  /\ \A a \in Account!Shown : "of" \in DOMAIN a /\ a.of \in Things /\ a.passkeys \subseteq Others
  /\ \A p \in Things, k \in SUBSET Others : Account!Methods(p, k) \in Account!Shown
  /\ \A what \in {"nothing", "signed-out", "unreachable"} : Account!Says(what) \in Account!Said
BY DEF Account!Said, Account!Shown, Account!Methods, Account!Says

LEMMA AccountInit == Account!Init => AccountInv
<1> SUFFICES ASSUME Account!Init PROVE AccountInv
  OBVIOUS
<1> DEFINE read == [of |-> None, newest |-> TRUE, got |-> None, ends |-> FALSE]
<1>1. /\ s1 = "unknown" /\ s2 = None /\ s3 \in [Things -> SUBSET Others] /\ s4 = Account!Says("nothing")
      /\ s5 = {read} /\ s8 = None /\ s13 = FALSE
  BY DEF Account!Init, Account!Says
<1>2. read \in ReadOfAccount /\ read.of = None /\ read.got = None
  BY DEF ReadOfAccount
<1> HIDE DEF read
<1>3. Account!AccountTyped
  BY <1>1, <1>2, SaidOrShown DEF Account!AccountTyped, Account!Sessions, Account!Read, ReadOfAccount
<1>4. Account!OverIsNobodys
  BY <1>1, <1>2 DEF Account!OverIsNobodys
<1>5. Account!NothingLeftBehind
  BY <1>1 DEF Account!NothingLeftBehind
<1> QED BY <1>3, <1>4, <1>5 DEF AccountInv

\* A read that is overtaken keeps what it holds, and a new one holds nothing yet.
LEMMA AccountReads ==
  ASSUME AccountInv, NEW of \in Things \cup {None}, NEW ends \in BOOLEAN
  PROVE  /\ Account!Overtaken \subseteq ReadOfAccount
         /\ \A r \in Account!Overtaken : ~r.newest /\ (r.of = None => r.got \in Account!Said \cup {None})
         /\ Account!Refreshes(of, ends) \subseteq ReadOfAccount
         /\ \A r, s \in Account!Refreshes(of, ends) : r.newest /\ s.newest => r = s
         /\ \A r \in Account!Refreshes(of, ends) :
              (r.newest => r.of = of) /\ (r.of = None => r.got \in Account!Said \cup {None})
<1> DEFINE read == [of |-> of, newest |-> TRUE, got |-> None, ends |-> ends]
<1>1. ASSUME NEW r \in s5
      PROVE  LET past == [r EXCEPT !.newest = FALSE]
             IN past \in ReadOfAccount /\ ~past.newest /\ past.of = r.of /\ past.got = r.got
  BY DEF AccountInv, Account!AccountTyped, Account!Read, ReadOfAccount
<1>2. /\ Account!Overtaken \subseteq ReadOfAccount
      /\ \A r \in Account!Overtaken : ~r.newest /\ (r.of = None => r.got \in Account!Said \cup {None})
  <2> SUFFICES ASSUME NEW q \in Account!Overtaken
               PROVE  q \in ReadOfAccount /\ ~q.newest /\ (q.of = None => q.got \in Account!Said \cup {None})
    OBVIOUS
  <2>1. PICK r \in s5 : q = [r EXCEPT !.newest = FALSE]
    BY DEF Account!Overtaken
  <2>2. q \in ReadOfAccount /\ ~q.newest /\ q.of = r.of /\ q.got = r.got
    BY <1>1, <2>1
  <2> QED BY <2>2 DEF AccountInv, Account!OverIsNobodys
<1>3. read \in ReadOfAccount /\ read.of = of /\ read.got = None
  BY DEF ReadOfAccount
<1>4. Account!Refreshes(of, ends) = Account!Overtaken \cup {read}
  BY DEF Account!Refreshes
<1> HIDE DEF read
<1> QED BY <1>2, <1>3, <1>4

\* The end of an action leaves the page as typed, and empty if it was.
LEMMA ActionLoads ==
  ASSUME AccountInv, Account!ActionLands
  PROVE  s4' \in Account!Said \cup Account!Shown /\ (s4 \in Account!Said => s4' \in Account!Said)
<1>1. s8 \in Account!Action
  BY DEF AccountInv, Account!AccountTyped, Account!ActionLands
<1>2. s8.passkey \in Others
  BY <1>1 DEF Account!Action
<1>3. Account!Listed \subseteq Others
  BY SaidOrShown DEF AccountInv, Account!AccountTyped, Account!Listed, Account!HasMethods
<1>4. \/ s4' = Account!Says("signed-out") \/ s4' = s4
      \/ s4' = Account!SetPasskeys(Account!Listed \cup {s8.passkey})
      \/ s4' = Account!SetPasskeys(Account!Listed \ {s8.passkey})
  BY DEF Account!ActionLands
<1>5. \A k \in SUBSET Others : /\ Account!SetPasskeys(k) \in Account!Said \cup Account!Shown
                               /\ s4 \in Account!Said => Account!SetPasskeys(k) = s4
  BY SaidOrShown DEF AccountInv, Account!AccountTyped, Account!SetPasskeys, Account!HasMethods
<1> QED BY <1>2, <1>3, <1>4, <1>5, SaidOrShown DEF AccountInv, Account!AccountTyped

LEMMA AccountStep == ASSUME AccountInv, Account!Next PROVE AccountInv'
<1> USE DEF AccountInv
<1> DEFINE PlansInv == s13 => s11 # "none" /\ s12
           Unread == UNCHANGED <<s4, s5>>
<1>0. /\ Account!NothingLeftBehind => PlansInv
      /\ Account!OverIsNobodys /\ PlansInv => Account!NothingLeftBehind
  BY SaidOrShown DEF Account!NothingLeftBehind, Account!HasMethods, Account!OverIsNobodys
<1>00. Account!OverIsNobodys' /\ PlansInv' => Account!NothingLeftBehind'
  BY SaidOrShown DEF Account!NothingLeftBehind, Account!HasMethods, Account!OverIsNobodys
<1>1. ASSUME NEW a \in Things, Account!Begins(a) PROVE AccountInv'
  <2>1. /\ s1' = "in" /\ s2' = a /\ s5' = Account!Refreshes(a, FALSE)
        /\ UNCHANGED <<s3, s4, s8, s11, s12, s13>>
    BY <1>1 DEF Account!Begins, Account!plans
  <2>2. Account!AccountTyped'
    BY <2>1, AccountReads DEF Account!AccountTyped, Account!Sessions, Account!Read, ReadOfAccount
  <2>3. Account!OverIsNobodys'
    BY <2>1, AccountReads DEF Account!OverIsNobodys
  <2> QED BY <1>0, <1>00, <2>1, <2>2, <2>3
<1>2. CASE Account!IsHeld
  <2>1. /\ s1' = "held" /\ s2' \in Things
        /\ UNCHANGED <<s3, s4, s5, s8, s11, s12, s13>>
    BY <1>2 DEF Account!IsHeld, Account!plans
  <2>2. Account!AccountTyped'
    BY <2>1 DEF Account!AccountTyped, Account!Sessions
  <2>3. Account!OverIsNobodys'
    BY <2>1 DEF Account!OverIsNobodys
  <2> QED BY <1>0, <1>00, <2>1, <2>2, <2>3
<1>3. CASE Account!Ends
  <2>1. /\ s1' = "out" /\ s2' = None /\ s4' = Account!Says("signed-out") /\ s5' = Account!Overtaken
        /\ UNCHANGED <<s3, s8, s11, s12, s13>>
    BY <1>3 DEF Account!Ends, Account!Forgets, Account!plans
  <2>2. Account!AccountTyped'
    BY <2>1, AccountReads, SaidOrShown DEF Account!AccountTyped, Account!Sessions, Account!Read, ReadOfAccount
  <2>3. Account!OverIsNobodys'
    BY <2>1, AccountReads, SaidOrShown DEF Account!OverIsNobodys
  <2> QED BY <1>0, <1>00, <2>1, <2>2, <2>3
<1>4. CASE Account!ReadAnswers
  <2>10. PICK r \in s5 :
          /\ \E got \in {Account!Says("unreachable"), IF r.of = None THEN Account!Says("signed-out")
                                                      ELSE Account!Methods(r.of, s3[r.of])} :
               s5' = (s5 \ {r}) \cup {[r EXCEPT !.got = got]}
          /\ UNCHANGED <<s1, s2, s3, s4, s8, s11, s12, s13>>
    BY <1>4 DEF Account!ReadAnswers, Account!plans
  <2>1. PICK got \in {Account!Says("unreachable"), IF r.of = None THEN Account!Says("signed-out")
                                                 ELSE Account!Methods(r.of, s3[r.of])} :
          /\ s5' = (s5 \ {r}) \cup {[r EXCEPT !.got = got]}
          /\ UNCHANGED <<s1, s2, s3, s4, s8, s11, s12, s13>>
    BY <2>10
  <2>2. r \in ReadOfAccount
    BY DEF Account!AccountTyped, Account!Read, ReadOfAccount
  <2>3. got \in Account!Said \cup Account!Shown /\ (r.of = None => got \in Account!Said)
    <3>1. r.of \in Things \cup {None}
      BY <2>2 DEF ReadOfAccount
    <3>2. r.of # None => s3[r.of] \in SUBSET Others
      BY <3>1 DEF Account!AccountTyped
    <3> QED BY <3>1, <3>2, SaidOrShown
  <2> DEFINE read == [r EXCEPT !.got = got]
  <2>4. read \in ReadOfAccount /\ read.of = r.of /\ read.newest = r.newest /\ read.got = got
    BY <2>2, <2>3 DEF ReadOfAccount
  <2>5. s5' = (s5 \ {r}) \cup {read}
    BY <2>1
  <2> HIDE DEF read
  <2>6. s5' \subseteq Account!Read
    BY <2>4, <2>5 DEF Account!AccountTyped, Account!Read, ReadOfAccount
  <2>7. \A x, y \in s5' : x.newest /\ y.newest => x = y
    BY <2>4, <2>5 DEF Account!AccountTyped
  <2>8. Account!AccountTyped'
    BY <2>1, <2>6, <2>7 DEF Account!AccountTyped
  <2>9. Account!OverIsNobodys'
    BY <2>1, <2>3, <2>4, <2>5 DEF Account!OverIsNobodys
  <2> QED BY <1>0, <1>00, <2>1, <2>8, <2>9
<1>5. CASE Account!ReadLands
  <2>1. PICK r \in s5 :
          /\ r.got # None /\ s5' = s5 \ {r} /\ s4' = IF r.newest THEN r.got ELSE s4
          /\ (s8' = None \/ s8' = s8) /\ UNCHANGED <<s1, s2, s3, s11, s12, s13>>
    BY <1>5 DEF Account!ReadLands, Account!plans
  <2>2. r.got \in Account!Said \cup Account!Shown
    BY <2>1 DEF Account!AccountTyped, Account!Read
  <2>3. Account!AccountTyped'
    BY <2>1, <2>2 DEF Account!AccountTyped
  <2>4. Account!OverIsNobodys'
    BY <2>1, <2>2 DEF Account!OverIsNobodys
  <2> QED BY <1>0, <1>00, <2>1, <2>3, <2>4
<1>6. ASSUME NEW k \in Others,
             \/ Account!Edits(k)
             \/ \E kind \in {"add", "rename", "remove"} : Account!Acts(kind, k)
             \/ \E a \in Things : Account!RemovedElsewhere(a, k)
      PROVE AccountInv'
  <2>1. /\ UNCHANGED <<s1, s2, s4, s5, s11, s12, s13>>
        /\ s3' = s3 \/ \E a \in Things : s3' = [s3 EXCEPT ![a] = @ \ {k}]
        /\ s8' = s8 \/ \E kind \in {"add", "rename", "remove"} :
                          s8' = [of |-> s2, kind |-> kind, passkey |-> k, answer |-> "none"]
    BY <1>6 DEF Account!Edits, Account!Acts, Account!RemovedElsewhere, Account!plans
  <2>2. s8' \in Account!Action \cup {None}
    BY <2>1 DEF Account!AccountTyped, Account!Action
  <2>3. s3' \in [Things -> SUBSET Others]
    BY <2>1 DEF Account!AccountTyped
  <2>4. Account!AccountTyped'
    BY <2>1, <2>2, <2>3 DEF Account!AccountTyped
  <2>5. Account!OverIsNobodys'
    BY <2>1 DEF Account!OverIsNobodys
  <2> QED BY <1>0, <1>00, <2>1, <2>4, <2>5
<1>7. CASE Account!ActionAnswers
  <2>1. /\ s8 # None /\ UNCHANGED <<s1, s2, s4, s5, s11, s12, s13>>
    BY <1>7 DEF Account!ActionAnswers, Account!plans
  <2>2. s8 \in Account!Action
    BY <2>1 DEF Account!AccountTyped
  <2>3. PICK answer \in {"done", "missing", "signed-out", "unreachable", "dismissed"} :
          /\ s8' = [s8 EXCEPT !.answer = answer]
          /\ s3' = IF answer # "done" THEN s3
                   ELSE [s3 EXCEPT ![s8.of] = CASE s8.kind = "add" -> @ \cup {s8.passkey}
                                                [] s8.kind = "remove" -> @ \ {s8.passkey}
                                                [] OTHER -> @]
    BY <1>7, <2>2 DEF Account!ActionAnswers, Account!Action
  <2>4. s8' \in Account!Action
    BY <2>2, <2>3 DEF Account!Action
  <2>5. s8.passkey \in Others
    BY <2>2 DEF Account!Action
  <2>6. s3' \in [Things -> SUBSET Others]
    BY <2>3, <2>5 DEF Account!AccountTyped
  <2>7. Account!AccountTyped'
    BY <2>1, <2>4, <2>6 DEF Account!AccountTyped
  <2>8. Account!OverIsNobodys'
    BY <2>1 DEF Account!OverIsNobodys
  <2> QED BY <1>0, <1>00, <2>1, <2>7, <2>8
<1>8. CASE Account!ActionLands
  <2>1. /\ s8' = None /\ UNCHANGED <<s1, s2, s3, s5, s11, s12, s13>>
    BY <1>8 DEF Account!ActionLands, Account!Over, Account!plans
  <2>2. Account!AccountTyped'
    BY <1>8, <2>1, ActionLoads DEF Account!AccountTyped
  <2>3. Account!OverIsNobodys'
    BY <1>8, <2>1, ActionLoads DEF Account!OverIsNobodys
  <2> QED BY <1>0, <1>00, <2>1, <2>2, <2>3
<1>9. CASE Account!RenameMisses
  <2>1. s5' = Account!Refreshes(s2, TRUE) /\ UNCHANGED <<s1, s2, s3, s4, s8, s11, s12, s13>>
    BY <1>9 DEF Account!RenameMisses, Account!plans
  <2>2. s2 \in Things \cup {None}
    BY DEF Account!AccountTyped
  <2>3. Account!AccountTyped'
    BY <2>1, <2>2, AccountReads DEF Account!AccountTyped, Account!Read, ReadOfAccount
  <2>4. Account!OverIsNobodys'
    BY <2>1, <2>2, AccountReads DEF Account!OverIsNobodys
  <2> QED BY <1>0, <1>00, <2>1, <2>3, <2>4
<1>10. CASE Account!Network \/ Account!LoadEnds
  <2>1. UNCHANGED <<s1, s2, s3, s4, s5, s8>>
    BY <1>10 DEF Account!Network, Account!LoadEnds
  <2>2. PlansInv'
    <3>1. CASE Account!Network
      BY <1>0, <3>1 DEF Account!Network, Account!Loads
    <3>2. CASE Account!LoadEnds
      BY <1>0, <3>2 DEF Account!LoadEnds
    <3> QED BY <1>10, <3>1, <3>2
  <2>3. Account!AccountTyped'
    BY <2>1 DEF Account!AccountTyped
  <2>4. Account!OverIsNobodys'
    BY <2>1 DEF Account!OverIsNobodys
  <2> QED BY <1>00, <2>2, <2>3, <2>4
<1> QED BY <1>1, <1>2, <1>3, <1>4, <1>5, <1>6, <1>7, <1>8, <1>9, <1>10 DEF Account!Next

(* 11. SignInDialog.                                                            *)

DialogInv == Dialog!DialogTyped /\ Dialog!SendsInOrder /\ Dialog!DialogAgrees

\* The steps the dialog shows.
LEMMA DialogSteps ==
  /\ \A name \in {"chooser", "email", "code"}, email \in Things \cup {None}, busy \in BOOLEAN :
       /\ Dialog!Step(name, email, busy) \in Dialog!Shown
       /\ Dialog!Step(name, email, busy).step = name /\ Dialog!Step(name, email, busy).busy = busy
  /\ \A methods, unavailable :
       LET chooser == Dialog!Chooser(methods, unavailable)
       IN chooser \in Dialog!Shown /\ chooser.step = "chooser" /\ ~chooser.busy
            /\ chooser.offers = Dialog!Offers(methods, unavailable)
  /\ \A email \in Things :
       LET code == Dialog!CodeStep(email)
       IN code \in Dialog!Shown /\ code.step = "code" /\ ~code.busy /\ code.email = email
<1>1. \A name \in {"chooser", "email", "code"}, email \in Things \cup {None}, busy \in BOOLEAN :
        /\ Dialog!Step(name, email, busy) \in Dialog!Shown
        /\ Dialog!Step(name, email, busy).step = name /\ Dialog!Step(name, email, busy).busy = busy
  BY DEF Dialog!Step, Dialog!Shown
<1>2. ASSUME NEW methods, NEW unavailable
      PROVE  LET chooser == Dialog!Chooser(methods, unavailable)
             IN chooser \in Dialog!Shown /\ chooser.step = "chooser" /\ ~chooser.busy
                  /\ chooser.offers = Dialog!Offers(methods, unavailable)
  <2>1. Dialog!Offers(methods, unavailable) \in SUBSET Dialog!Methods
    BY DEF Dialog!Offers
  <2> QED BY <2>1 DEF Dialog!Chooser, Dialog!Step, Dialog!Shown
<1>3. ASSUME NEW email \in Things
      PROVE  LET code == Dialog!CodeStep(email)
             IN code \in Dialog!Shown /\ code.step = "code" /\ ~code.busy /\ code.email = email
  BY DEF Dialog!CodeStep, Dialog!Step, Dialog!Shown
<1> QED BY <1>1, <1>2, <1>3

\* A dialog made busy or idle, or whose wait is over, is otherwise what it was.
LEMMA DialogKept ==
  ASSUME NEW d \in Dialog!Shown, NEW b \in BOOLEAN
  PROVE  LET idle == [d EXCEPT !.busy = b]
             waited == [d EXCEPT !.wait = b]
         IN /\ idle \in Dialog!Shown /\ idle.busy = b
            /\ idle.step = d.step /\ idle.email = d.email /\ idle.offers = d.offers
            /\ waited \in Dialog!Shown /\ waited.busy = d.busy
            /\ waited.step = d.step /\ waited.email = d.email /\ waited.offers = d.offers
BY DEF Dialog!Shown

LEMMA DialogInit == Dialog!Init => DialogInv
BY InterfaceAssumption DEF Dialog!Init, DialogInv, Dialog!DialogTyped, Dialog!SendsInOrder, Dialog!DialogAgrees

\* A sign-in that arrives closes the dialog that asked for it, and no other.
LEMMA SignedIn ==
  ASSUME DialogInv, NEW asked, Dialog!Committed(asked), UNCHANGED <<s5, s8, s10, s11>>,
         s6' = s6 \/ (s6' = None /\ (s6 # None => asked = s6.attempt))
  PROVE  DialogInv' /\ (s1 = None => s1' = None)
<1> USE DEF DialogInv
<1>1. CASE asked = s3
  <2>1. s3' = s3 + 1 /\ s1' = None /\ s2' = "none" /\ s4' = None
    BY <1>1 DEF Dialog!Committed, Dialog!Closed
  <2>2. Dialog!DialogTyped'
    BY <2>1 DEF Dialog!DialogTyped
  <2>3. s5 # None => s5.attempt \in Nat
    BY DEF Dialog!DialogTyped, Dialog!Sending
  <2>4. Dialog!SendsInOrder'
    BY <2>1, <2>3 DEF Dialog!SendsInOrder, Dialog!DialogTyped, Dialog!Mailed
  <2>5. Dialog!DialogAgrees'
    BY <2>1 DEF Dialog!DialogAgrees
  <2> QED BY <2>1, <2>2, <2>4, <2>5
<1>2. CASE asked # s3
  <2>1. UNCHANGED <<s1, s2, s3, s4>>
    BY <1>2 DEF Dialog!Committed
  <2>2. Dialog!DialogTyped'
    BY <2>1 DEF Dialog!DialogTyped
  <2>3. Dialog!SendsInOrder'
    BY <2>1 DEF Dialog!SendsInOrder, Dialog!Mailed
  <2>4. Dialog!DialogAgrees'
    BY <1>2, <2>1 DEF Dialog!DialogAgrees, Dialog!At
  <2> QED BY <2>1, <2>2, <2>3, <2>4
<1> QED BY <1>1, <1>2

LEMMA DialogStep == ASSUME DialogInv, Dialog!Next PROVE DialogInv' /\ Dialog!OnlyTheReaderOpens
<1> USE DEF DialogInv
<1>1. CASE Dialog!Opens \/ Dialog!Back
  <2>1. /\ s1' = Dialog!Chooser(s8, s10) /\ s2' = "none" /\ UNCHANGED <<s5, s6, s8, s10, s11>>
        /\ \/ s1 = None /\ UNCHANGED <<s3, s4, s7>>
           \/ s1 # None /\ s3' = s3 + 1 /\ s4' = None
    BY <1>1 DEF Dialog!Opens, Dialog!Back, Dialog!ChooserStep, Dialog!Visible, Dialog!requests, Dialog!deployment
  <2>2. s1' \in Dialog!Shown /\ s1'.step = "chooser" /\ ~s1'.busy /\ s1'.offers = Dialog!Offers(s8, s10)
    BY <2>1, DialogSteps
  <2>3. Dialog!DialogTyped'
    BY <2>1, <2>2 DEF Dialog!DialogTyped
  <2>4. s5 # None => s5.attempt \in Nat
    BY DEF Dialog!DialogTyped, Dialog!Sending
  <2>5. Dialog!SendsInOrder'
    BY <2>1, <2>2, <2>4, InterfaceAssumption DEF Dialog!SendsInOrder, Dialog!DialogTyped, Dialog!Mailed
  <2>6. Dialog!DialogAgrees'
    BY <2>1, <2>2 DEF Dialog!DialogAgrees, Dialog!At
  <2>7. Dialog!OnlyTheReaderOpens
    BY <2>1 DEF Dialog!OnlyTheReaderOpens, Dialog!requests
  <2> QED BY <2>3, <2>5, <2>6, <2>7
<1>2. CASE Dialog!MethodsRead
  <2>1. /\ UNCHANGED <<s2, s3, s4, s5, s6, s10, s11>>
        /\ \/ s1' = s1 /\ (s8' = s8 \/ ~Dialog!At("chooser"))
           \/ Dialog!At("chooser") /\ s1' = Dialog!Chooser(s8', s10)
    BY <1>2 DEF Dialog!MethodsRead, Dialog!requests
  <2>2. CASE s1' = s1 /\ (s8' = s8 \/ ~Dialog!At("chooser"))
    BY <2>1, <2>2 DEF Dialog!DialogTyped, Dialog!SendsInOrder, Dialog!Mailed, Dialog!DialogAgrees, Dialog!At,
                      Dialog!OnlyTheReaderOpens
  <2>3. CASE Dialog!At("chooser") /\ s1' = Dialog!Chooser(s8', s10)
    <3>1. /\ s1' \in Dialog!Shown /\ s1'.step = "chooser" /\ ~s1'.busy
          /\ s1'.offers = Dialog!Offers(s8', s10')
      BY <2>1, <2>3, DialogSteps
    <3>2. s1' # None /\ s1 # None
      BY <3>1, <2>3, InterfaceAssumption DEF Dialog!At
    <3> QED BY <2>1, <3>1, <3>2 DEF Dialog!DialogTyped, Dialog!SendsInOrder, Dialog!Mailed, Dialog!DialogAgrees, Dialog!At,
                      Dialog!OnlyTheReaderOpens
  <2> QED BY <2>1, <2>2, <2>3
<1>3. CASE Dialog!Closes
  <2>1. /\ s1' = None /\ s3' = s3 + 1 /\ s2' = "none" /\ s4' = None /\ UNCHANGED <<s5, s6, s8, s10, s11>>
    BY <1>3 DEF Dialog!Closes, Dialog!Closed, Dialog!requests, Dialog!deployment
  <2>2. s5 # None => s5.attempt \in Nat
    BY DEF Dialog!DialogTyped, Dialog!Sending
  <2> QED BY <2>1, <2>2 DEF Dialog!DialogTyped, Dialog!SendsInOrder, Dialog!Mailed, Dialog!DialogAgrees,
                            Dialog!OnlyTheReaderOpens
<1>4. CASE Dialog!Email
  <2>1. /\ s1 # None /\ s1' = Dialog!Step("email", None, FALSE) /\ s2' = "none"
        /\ UNCHANGED <<s3, s4, s5, s6, s8, s10, s11>>
    BY <1>4 DEF Dialog!Email, Dialog!At, Dialog!requests, Dialog!deployment
  <2>2. s1' \in Dialog!Shown /\ s1'.step = "email" /\ ~s1'.busy
    BY <2>1, DialogSteps
  <2>3. s1' # None
    BY <2>2, InterfaceAssumption
  <2> QED BY <2>1, <2>2, <2>3 DEF Dialog!DialogTyped, Dialog!SendsInOrder, Dialog!Mailed, Dialog!DialogAgrees, Dialog!At,
                            Dialog!OnlyTheReaderOpens
<1>5. ASSUME NEW email \in Things, Dialog!Sends(email) PROVE DialogInv' /\ Dialog!OnlyTheReaderOpens
  <2> DEFINE new == [email |-> email, attempt |-> s3, kind |-> None, id |-> 0]
  <2>1. /\ s1 # None /\ s5' = new /\ UNCHANGED <<s2, s3, s4, s6, s8, s10, s11>>
        /\ s1' = IF Dialog!At("email") THEN [s1 EXCEPT !.busy = TRUE] ELSE s1
    BY <1>5 DEF Dialog!Sends, Dialog!Visible, Dialog!Idle, Dialog!deployment
  <2>2. s1 \in Dialog!Shown
    BY <2>1 DEF Dialog!DialogTyped
  <2>32. /\ s1' \in Dialog!Shown /\ s1'.step = s1.step /\ s1'.email = s1.email
         /\ s1'.offers = s1.offers /\ (s1'.busy = s1.busy \/ s1.step = "email")
         /\ s1.step = "email" \/ s1' = s1
    <3>1. CASE s1.step = "email"
      <4>1. s1' = [s1 EXCEPT !.busy = TRUE]
        BY <2>1, <3>1 DEF Dialog!At
      <4> QED BY <2>2, <3>1, <4>1, DialogKept
    <3>2. CASE s1.step # "email"
      BY <2>1, <2>2, <3>2 DEF Dialog!At
    <3> QED BY <3>1, <3>2
  <2>3. /\ s1' \in Dialog!Shown /\ s1' # None /\ s1'.step = s1.step /\ s1'.email = s1.email
        /\ s1'.offers = s1.offers /\ (s1'.busy = s1.busy \/ s1.step = "email")
        /\ s1.step = "email" \/ s1' = s1
    BY <2>32, InterfaceAssumption
  <2>4. new \in Dialog!Sending /\ new.attempt = s3 /\ new.kind = None
    BY DEF Dialog!Sending, Dialog!DialogTyped
  <2> HIDE DEF new
  <2>5. s5' # None /\ s5' \in Dialog!Sending /\ s5'.attempt = s3 /\ s5'.kind = None
    BY <2>1, <2>4, InterfaceAssumption
  <2>6. Dialog!DialogTyped'
    BY <2>1, <2>3, <2>5 DEF Dialog!DialogTyped
  <2>7. Dialog!SendsInOrder'
    BY <2>1, <2>3, <2>5 DEF Dialog!SendsInOrder, Dialog!Mailed, Dialog!DialogTyped
  <2>8. Dialog!DialogAgrees'
    BY <2>1, <2>3, <2>5 DEF Dialog!DialogAgrees, Dialog!At
  <2> QED BY <2>1, <2>6, <2>7, <2>8 DEF Dialog!OnlyTheReaderOpens
<1>6. CASE Dialog!Waits
  <2>1. /\ s1 # None /\ s1' = [s1 EXCEPT !.wait = FALSE] /\ UNCHANGED <<s2, s3, s4, s5, s6, s8, s10, s11>>
    BY <1>6 DEF Dialog!Waits, Dialog!At, Dialog!requests, Dialog!deployment
  <2>2. s1 \in Dialog!Shown
    BY <2>1 DEF Dialog!DialogTyped
  <2>30. /\ s1' \in Dialog!Shown /\ s1'.step = s1.step /\ s1'.email = s1.email
         /\ s1'.offers = s1.offers /\ s1'.busy = s1.busy
    BY <2>1, <2>2, DialogKept
  <2>3. /\ s1' \in Dialog!Shown /\ s1' # None /\ s1'.step = s1.step /\ s1'.email = s1.email
        /\ s1'.offers = s1.offers /\ s1'.busy = s1.busy
    BY <2>30, InterfaceAssumption
  <2> QED BY <2>1, <2>3 DEF Dialog!DialogTyped, Dialog!SendsInOrder, Dialog!Mailed, Dialog!DialogAgrees, Dialog!At,
                            Dialog!OnlyTheReaderOpens
<1>7. CASE Dialog!Verifies
  <2> DEFINE new == [challenge |-> s4, attempt |-> s3, kind |-> None]
  <2>1. /\ s1 # None /\ s4 # None /\ s1.step = "code" /\ UNCHANGED <<s3, s4, s5, s8, s10, s11>>
        /\ \/ s2' = "verify" /\ UNCHANGED <<s1, s6>>
           \/ s1' = [s1 EXCEPT !.busy = TRUE] /\ s2' = s2 /\ s6' = new
    BY <1>7 DEF Dialog!Verifies, Dialog!Visible, Dialog!At, Dialog!Idle, Dialog!deployment
  <2>2. CASE s2' = "verify" /\ UNCHANGED <<s1, s6>>
    BY <2>1, <2>2 DEF Dialog!DialogTyped, Dialog!SendsInOrder, Dialog!Mailed, Dialog!DialogAgrees, Dialog!At,
                      Dialog!OnlyTheReaderOpens
  <2>3. CASE s1' = [s1 EXCEPT !.busy = TRUE] /\ s2' = s2 /\ s6' = new
    <3>1. s1 \in Dialog!Shown /\ s4 \in Dialog!Challenge /\ s3 \in Nat
      BY <2>1 DEF Dialog!DialogTyped
    <3>20. s1' \in Dialog!Shown /\ s1'.step = s1.step /\ s1'.email = s1.email
      BY <2>3, <3>1, DialogKept
    <3>2. s1' \in Dialog!Shown /\ s1' # None /\ s1'.step = "code" /\ s1'.email = s1.email
      BY <2>1, <3>20, InterfaceAssumption
    <3>3. new \in Dialog!Verifying /\ new.attempt = s3
      BY <3>1 DEF Dialog!Verifying
    <3> HIDE DEF new
    <3>4. s6' \in Dialog!Verifying /\ s6' # None /\ s6'.attempt = s3
      BY <2>3, <3>3, InterfaceAssumption
    <3>5. Dialog!DialogTyped'
      BY <2>1, <2>3, <3>2, <3>4 DEF Dialog!DialogTyped
    <3>6. Dialog!SendsInOrder'
      BY <2>1, <2>3, <3>2 DEF Dialog!SendsInOrder, Dialog!Mailed
    <3>7. Dialog!DialogAgrees'
      BY <2>1, <2>3, <3>2, <3>4 DEF Dialog!DialogAgrees, Dialog!At
    <3> QED BY <2>1, <3>5, <3>6, <3>7 DEF Dialog!OnlyTheReaderOpens
  <2> QED BY <2>1, <2>2, <2>3
<1>8. CASE Dialog!Passkey \/ Dialog!Asserts \/ Dialog!SessionTurns
  <2>1. UNCHANGED <<s1, s3, s4, s5, s6, s8, s10, s11>> /\ s2' \in {s2, "none"}
    BY <1>8 DEF Dialog!Passkey, Dialog!Asserts, Dialog!SessionTurns, Dialog!requests, Dialog!deployment
  <2> QED BY <2>1 DEF Dialog!DialogTyped, Dialog!SendsInOrder, Dialog!Mailed, Dialog!DialogAgrees, Dialog!At,
                      Dialog!OnlyTheReaderOpens
<1>9. CASE Dialog!Mails
  <2>1. s5 # None /\ s5.kind = None /\ s5 \in Dialog!Sending /\ UNCHANGED <<s1, s2, s3, s4, s6, s8, s10>>
    BY <1>9 DEF Dialog!Mails, Dialog!DialogTyped, Dialog!deployment
  <2>2. PICK kind \in Dialog!StartKinds :
          /\ kind = "challenge" => Len(s11) < Max.codes
          /\ s5' = [s5 EXCEPT !.kind = kind, !.id = IF kind = "challenge" THEN Len(s11) + 1 ELSE 0]
          /\ s11' = IF kind = "challenge" THEN Append(s11, s5.email) ELSE s11
    BY <1>9 DEF Dialog!Mails
  <2>3. s11 \in Seq(Things) /\ Len(s11) \in Nat /\ s5.email \in Things
    BY <2>1 DEF Dialog!DialogTyped, Dialog!Sending
  <2> DEFINE number == IF kind = "challenge" THEN Len(s11) + 1 ELSE 0
  <2>40. number \in Nat /\ s5' = [s5 EXCEPT !.kind = kind, !.id = number]
    BY <2>2, <2>3
  <2> HIDE DEF number
  <2>41. /\ s5' \in Dialog!Sending /\ s5'.attempt = s5.attempt /\ s5'.email = s5.email /\ s5'.kind = kind
         /\ s5'.id = number
    BY <2>1, <2>40 DEF Dialog!Sending
  <2>4. /\ s5' \in Dialog!Sending /\ s5'.attempt = s5.attempt /\ s5'.email = s5.email /\ s5'.kind = kind
        /\ kind = "challenge" => s5'.id = Len(s11) + 1
    <3>1. kind = "challenge" => number = Len(s11) + 1
      BY DEF number
    <3> QED BY <2>41, <3>1
  <2>5. s5' # None
    BY <2>4, InterfaceAssumption
  <2>6. /\ s11' \in Seq(Things) /\ Len(s11') <= Max.codes
        /\ kind = "challenge" => Len(s11') = Len(s11) + 1 /\ s11'[Len(s11) + 1] = s5.email
        /\ \A id \in 1..Len(s11) : id \in 1..Len(s11') /\ s11'[id] = s11[id]
    BY <2>2, <2>3, InterfaceAssumption DEF Dialog!DialogTyped
  <2>7. Dialog!DialogTyped'
    BY <2>1, <2>4, <2>6 DEF Dialog!DialogTyped
  <2>8. s4 # None => Dialog!Mailed(s4.id, s4.email)'
    BY <2>1, <2>6 DEF Dialog!SendsInOrder, Dialog!Mailed
  <2>9. kind = "challenge" => Dialog!Mailed(s5.id, s5.email)'
    <3> SUFFICES ASSUME kind = "challenge" PROVE Dialog!Mailed(s5.id, s5.email)'
      OBVIOUS
    <3>1. s5'.id = Len(s11) + 1 /\ Len(s11') = Len(s11) + 1 /\ s11'[Len(s11) + 1] = s5.email
      BY <2>4, <2>6
    <3>2. s5'.id \in 1..Len(s11')
      BY <2>3, <3>1
    <3> QED BY <2>4, <3>1, <3>2 DEF Dialog!Mailed
  <2>10. Dialog!SendsInOrder'
    BY <2>1, <2>4, <2>8, <2>9 DEF Dialog!SendsInOrder
  <2>11. Dialog!DialogAgrees'
    <3>1. s1 # None /\ s1.step = "code" => s4 # None /\ s4.email = s1.email /\ Dialog!Mailed(s4.id, s4.email)'
      BY <2>8 DEF Dialog!DialogAgrees, Dialog!At
    <3> QED BY <2>1, <2>4, <2>5, <3>1 DEF Dialog!DialogAgrees, Dialog!At, Dialog!Mailed
  <2> QED BY <2>1, <2>7, <2>10, <2>11 DEF Dialog!OnlyTheReaderOpens
<1>10. CASE Dialog!Checks
  <2>1. /\ s6 # None /\ s6 \in Dialog!Verifying /\ UNCHANGED <<s1, s2, s3, s4, s5, s8, s10, s11>>
        /\ \E kind \in Dialog!VerifyKinds : s6' = [s6 EXCEPT !.kind = kind]
    BY <1>10 DEF Dialog!Checks, Dialog!DialogTyped, Dialog!deployment
  <2>2. s6' \in Dialog!Verifying /\ s6'.attempt = s6.attempt
    BY <2>1 DEF Dialog!Verifying
  <2>3. s6' # None
    BY <2>2, InterfaceAssumption
  <2> QED BY <2>1, <2>2, <2>3 DEF Dialog!DialogTyped, Dialog!SendsInOrder, Dialog!Mailed, Dialog!DialogAgrees,
                                  Dialog!At, Dialog!OnlyTheReaderOpens
<1>11. CASE Dialog!Sent
  <2>1. s5 # None /\ s5.kind # None /\ s5' = None /\ s5 \in Dialog!Sending /\ UNCHANGED <<s3, s6, s8, s11>>
    BY <1>11 DEF Dialog!Sent, Dialog!DialogTyped
  <2>2. CASE s5.attempt # s3
    <3>1. UNCHANGED <<s1, s2, s4, s10>>
      BY <1>11, <2>2 DEF Dialog!Sent
    <3> QED BY <2>1, <2>2, <3>1 DEF Dialog!DialogTyped, Dialog!SendsInOrder, Dialog!Mailed, Dialog!DialogAgrees,
                                    Dialog!At, Dialog!OnlyTheReaderOpens
  <2>3. CASE s5.attempt = s3
    <3>1. s1 # None /\ s1 \in Dialog!Shown
      BY <2>1, <2>3 DEF Dialog!SendsInOrder, Dialog!DialogTyped
    <3>2. CASE s5.kind = "challenge"
      <4> DEFINE new == [id |-> s5.id, email |-> s5.email]
      <4>1. s4' = new /\ s1' = Dialog!CodeStep(s5.email) /\ s2' = "none" /\ s10' = s10
        BY <1>11, <2>3, <3>2 DEF Dialog!Sent
      <4>2. new \in Dialog!Challenge /\ new.id = s5.id /\ new.email = s5.email /\ s5.email \in Things
        BY <2>1 DEF Dialog!Sending, Dialog!Challenge
      <4> HIDE DEF new
      <4>3. s4' # None /\ s4' \in Dialog!Challenge /\ s4'.id = s5.id /\ s4'.email = s5.email
        BY <4>1, <4>2, InterfaceAssumption
      <4>4. s1' \in Dialog!Shown /\ s1'.step = "code" /\ ~s1'.busy /\ s1'.email = s5.email
        BY <4>1, <4>2, DialogSteps
      <4>5. Dialog!Mailed(s5.id, s5.email)
        BY <2>1, <3>2 DEF Dialog!SendsInOrder
      <4>6. Dialog!DialogTyped'
        BY <2>1, <4>1, <4>3, <4>4 DEF Dialog!DialogTyped
      <4>7. Dialog!SendsInOrder'
        BY <2>1, <4>3, <4>5 DEF Dialog!SendsInOrder, Dialog!Mailed
      <4>8. Dialog!DialogAgrees'
        BY <2>1, <4>3, <4>4, <4>5 DEF Dialog!DialogAgrees, Dialog!At, Dialog!Mailed
      <4> QED BY <3>1, <4>6, <4>7, <4>8 DEF Dialog!OnlyTheReaderOpens
    <3>3. CASE s5.kind = "unavailable"
      <4>1. s2' = "send" /\ s1' = Dialog!Chooser(s8', s10') /\ s4' = s4
        BY <1>11, <2>1, <2>3, <3>3 DEF Dialog!Sent
      <4>2. s1' \in Dialog!Shown /\ s1'.step = "chooser" /\ ~s1'.busy /\ s1'.offers = Dialog!Offers(s8', s10')
        BY <4>1, DialogSteps
      <4> QED BY <2>1, <3>1, <4>1, <4>2 DEF Dialog!DialogTyped, Dialog!SendsInOrder, Dialog!Mailed,
                                           Dialog!DialogAgrees, Dialog!At, Dialog!OnlyTheReaderOpens
    <3>4. CASE s5.kind \notin {"challenge", "unavailable"}
      <4>1. s2' = "send" /\ s1' = Dialog!AfterSend /\ s4' = s4 /\ s10' = s10
        BY <1>11, <2>3, <3>4 DEF Dialog!Sent
      <4>2. CASE s1.step = "code"
        <5>1. s1' = [s1 EXCEPT !.busy = FALSE]
          BY <3>1, <4>1, <4>2 DEF Dialog!AfterSend, Dialog!At, Dialog!Idle
        <5>2. s1' \in Dialog!Shown /\ s1'.step = "code" /\ ~s1'.busy /\ s1'.email = s1.email
          BY <3>1, <4>2, <5>1, DialogKept
        <5> QED BY <2>1, <3>1, <4>1, <4>2, <5>2
                DEF Dialog!DialogTyped, Dialog!SendsInOrder, Dialog!Mailed, Dialog!DialogAgrees, Dialog!At,
                    Dialog!OnlyTheReaderOpens
      <4>3. CASE s1.step # "code"
        <5>1. s1' = Dialog!Step("email", None, FALSE)
          BY <4>1, <4>3 DEF Dialog!AfterSend, Dialog!At
        <5>2. s1' \in Dialog!Shown /\ s1'.step = "email" /\ ~s1'.busy
          BY <5>1, DialogSteps
        <5> QED BY <2>1, <3>1, <4>1, <5>2
                DEF Dialog!DialogTyped, Dialog!SendsInOrder, Dialog!Mailed, Dialog!DialogAgrees, Dialog!At,
                    Dialog!OnlyTheReaderOpens
      <4> QED BY <4>2, <4>3
    <3> QED BY <3>2, <3>3, <3>4
  <2> QED BY <2>2, <2>3
<1>12. CASE Dialog!Verified
  <2>1. s6 # None /\ s6' = None /\ UNCHANGED <<s5, s8, s10, s11>>
    BY <1>12 DEF Dialog!Verified, Dialog!deployment
  <2>2. CASE s6.kind = "signed-in"
    <3>1. Dialog!Committed(s6.attempt)
      BY <1>12, <2>2 DEF Dialog!Verified
    <3> QED BY <2>1, <3>1, SignedIn DEF Dialog!OnlyTheReaderOpens
  <2>3. CASE s6.kind # "signed-in"
    <3>1. /\ UNCHANGED <<s3, s4>>
          /\ IF s6.attempt # s3 THEN UNCHANGED <<s1, s2>>
             ELSE s2' = "verify" /\ s1' = IF Dialog!At("code") THEN Dialog!Idle(FALSE) ELSE s1
      BY <1>12, <2>3 DEF Dialog!Verified
    <3>2. CASE s6.attempt = s3 /\ Dialog!At("code")
      <4>1. s1 \in Dialog!Shown /\ s1 # None /\ s1' = [s1 EXCEPT !.busy = FALSE] /\ s2' = "verify" /\ s1.step = "code"
        BY <3>1, <3>2 DEF Dialog!At, Dialog!Idle, Dialog!DialogTyped
      <4>20. s1' \in Dialog!Shown /\ s1'.step = s1.step /\ ~s1'.busy /\ s1'.email = s1.email
        BY <4>1, DialogKept
      <4>2. s1' \in Dialog!Shown /\ s1'.step = "code" /\ ~s1'.busy /\ s1'.email = s1.email /\ s1' # None
        BY <4>1, <4>20, InterfaceAssumption
      <4> QED BY <2>1, <3>1, <4>1, <4>2
              DEF Dialog!DialogTyped, Dialog!SendsInOrder, Dialog!Mailed, Dialog!DialogAgrees, Dialog!At,
                  Dialog!OnlyTheReaderOpens
    <3>3. CASE ~(s6.attempt = s3 /\ Dialog!At("code"))
      <4>1. UNCHANGED s1 /\ s2' \in {s2, "verify"}
        BY <3>1, <3>3
      <4> QED BY <2>1, <3>1, <3>3, <4>1
              DEF Dialog!DialogTyped, Dialog!SendsInOrder, Dialog!Mailed, Dialog!DialogAgrees, Dialog!At,
                  Dialog!OnlyTheReaderOpens
    <3> QED BY <3>2, <3>3
  <2> QED BY <2>2, <2>3
<1>13. CASE Dialog!Asserted
  <2>1. UNCHANGED <<s5, s6, s8, s10, s11>>
    BY <1>13 DEF Dialog!Asserted, Dialog!deployment
  <2>2. CASE s7.kind = "signed-in"
    <3>1. Dialog!Committed(s7.attempt)
      BY <1>13, <2>2 DEF Dialog!Asserted
    <3> QED BY <2>1, <3>1, SignedIn DEF Dialog!OnlyTheReaderOpens
  <2>3. CASE s7.kind # "signed-in"
    <3>1. UNCHANGED <<s1, s3, s4>> /\ s2' \in {s2, "passkey"}
      BY <1>13, <2>3 DEF Dialog!Asserted
    <3> QED BY <2>1, <3>1 DEF Dialog!DialogTyped, Dialog!SendsInOrder, Dialog!Mailed, Dialog!DialogAgrees, Dialog!At,
                              Dialog!OnlyTheReaderOpens
  <2> QED BY <2>2, <2>3
<1> QED BY <1>1, <1>2, <1>3, <1>4, <1>5, <1>6, <1>7, <1>8, <1>9, <1>10, <1>11, <1>12, <1>13 DEF Dialog!Next

(* 12. AccountFacts.                                                            *)

FactsInv == Facts!FactsTyped /\ Facts!FactsInOrder

\* The dialog goes with the button it was opened by.
UpgradeInv == s5 => Facts!OffersUpgrade(s4)

LEMMA FactsInit == Facts!Init => FactsInv
<1> SUFFICES ASSUME Facts!Init PROVE FactsInv
  OBVIOUS
<1>1. ASSUME NEW a \in Things
      PROVE  LET new == [of |-> a, plan |-> "low", asked |-> FALSE, age |-> 0]
             IN new \in Facts!Profile /\ new.of = a
  BY DEF Facts!Profile
<1>2. s3 \in [Things -> Facts!Profile] /\ \A a \in Things : s3[a].of = a
  BY <1>1 DEF Facts!Init
<1> QED BY <1>2 DEF Facts!Init, FactsInv, Facts!FactsTyped, Facts!FactsInOrder, Facts!Problems

\* Ageing is all that happens to one that ages.
LEMMA AgedAt ==
  ASSUME NEW p \in Facts!Profile
  PROVE  /\ Facts!Aged(p) \in Facts!Profile /\ Facts!Aged(p).of = p.of /\ Facts!Aged(p).age = p.age + 1
         /\ \A to \in BOOLEAN : LET asked == [Facts!Aged(p) EXCEPT !.asked = to]
                            IN asked \in Facts!Profile /\ asked.of = p.of /\ asked.age = p.age + 1
         /\ LET top == [Facts!Aged(p) EXCEPT !.plan = "top"]
            IN top \in Facts!Profile /\ top.of = p.of /\ top.age = p.age + 1
<1> DEFINE age == p.age + 1
           aged == [p EXCEPT !.age = age]
<1>1. p.age \in Nat
  BY DEF Facts!Profile
<1>2. age \in Nat
  BY <1>1
<1>3. Facts!Aged(p) = aged
  BY DEF Facts!Aged
<1> HIDE DEF age
<1>4. aged \in Facts!Profile /\ aged.of = p.of /\ aged.age = age
  BY <1>2 DEF Facts!Profile
<1> HIDE DEF aged
<1>5. \A to \in BOOLEAN : LET asked == [aged EXCEPT !.asked = to]
                         IN asked \in Facts!Profile /\ asked.of = p.of /\ asked.age = age
  BY <1>4 DEF Facts!Profile
<1>6. LET top == [aged EXCEPT !.plan = "top"]
      IN top \in Facts!Profile /\ top.of = p.of /\ top.age = age
  BY <1>4 DEF Facts!Profile
<1> QED BY <1>3, <1>4, <1>5, <1>6 DEF age

\* A profile that ages is the same account's.
LEMMA ProfileAges ==
  ASSUME FactsInv, NEW a \in Things, NEW p \in Facts!Profile, p.of = a, p.age = s3[a].age + 1,
         s3' = [s3 EXCEPT ![a] = p]
  PROVE  /\ s3' \in [Things -> Facts!Profile] /\ \A b \in Things : s3'[b].of = b
         /\ \A b \in Things : s3[b].age \in Nat /\ s3'[b].age \in Nat /\ s3[b].age <= s3'[b].age
<1>1. s3' \in [Things -> Facts!Profile] /\ s3'[a] = p /\ \A b \in Things \ {a} : s3'[b] = s3[b]
  BY DEF FactsInv, Facts!FactsTyped
<1>2. \A q \in Facts!Profile : q.age \in Nat
  BY DEF Facts!Profile
<1>3. \A b \in Things : s3[b] \in Facts!Profile /\ s3[b].of = b
  BY DEF FactsInv, Facts!FactsTyped
<1>4. \A b \in Things : s3[b].age \in Nat
  BY <1>2, <1>3
<1>5. ASSUME NEW b \in Things PROVE s3'[b].of = b /\ s3'[b].age \in Nat /\ s3[b].age <= s3'[b].age
  <2>1. CASE b = a
    BY <1>1, <1>2, <1>4, <2>1
  <2>2. CASE b # a
    BY <1>1, <1>3, <1>4, <2>2
  <2> QED BY <2>1, <2>2
<1> QED BY <1>1, <1>4, <1>5

\* A read that begins holds nothing yet.
LEMMA Rereads ==
  ASSUME FactsInv, NEW idle \in BOOLEAN
  PROVE  LET r == Facts!Reread(idle)
         IN r \in Facts!Later /\ r.generation = s2 /\ r.changes = s9 /\ r.idle = idle /\ r.got = None
BY DEF FactsInv, Facts!FactsTyped, Facts!Reread, Facts!Later

LEMMA FactsStep == ASSUME FactsInv, Facts!Next PROVE FactsInv' /\ Facts!LandsInOrder
<1> USE DEF FactsInv
<1> DEFINE Goal == FactsInv' /\ Facts!LandsInOrder
<1>0. /\ s2 \in Nat /\ s9 \in Nat /\ s12 \in Nat
      /\ s8 # None => s8 \in Facts!Change
      /\ \A r \in s10 : r.generation \in Nat /\ r.changes \in Nat
      /\ \A a \in Things : s3[a] \in Facts!Profile /\ s3[a].of = a /\ s3[a].age \in Nat
      /\ \A c \in Facts!Change : c.generation \in Nat
  BY DEF Facts!FactsTyped, Facts!Later, Facts!Profile, Facts!Change
<1>1. ASSUME NEW a \in Things, Facts!SignsIn(a) PROVE Goal
  <2>1. /\ s1 = None /\ s1' = a /\ s4' = None /\ s12' = 0 /\ UNCHANGED <<s2, s3, s6, s8, s9, s10>>
    BY <1>1 DEF Facts!SignsIn, Facts!dialog
  <2>2. Facts!FactsTyped'
    BY <1>0, <2>1 DEF Facts!FactsTyped
  <2>3. Facts!FactsInOrder'
    <3>1. /\ s8 # None => s8.generation <= s2 /\ s8.generation # s2
          /\ \A r \in s10 : r.generation <= s2 /\ r.changes <= s9 /\ r.generation # s2
      BY <2>1, <1>0, InterfaceAssumption DEF Facts!FactsInOrder, Facts!Change
    <3> QED BY <2>1, <3>1 DEF Facts!FactsInOrder
  <2> QED BY <2>1, <2>2, <2>3 DEF Facts!LandsInOrder
<1>2. CASE Facts!SignsOut \/ Facts!Expires
  <2>1. /\ s1' = None /\ s2' = s2 + 1 /\ (s4' = None \/ s4' = s4) /\ s12' \in {0, s12}
        /\ s6' \in {s6, "none"} /\ UNCHANGED <<s3, s8, s9, s10>>
    BY <1>2 DEF Facts!SignsOut, Facts!Expires, Facts!Ends, Facts!dialog, Facts!Cache, Facts!Closes
  <2>2. Facts!FactsTyped'
    BY <2>1 DEF Facts!FactsTyped, Facts!Problems
  <2>3. Facts!FactsInOrder'
    <3>1. /\ s8 # None => s8.generation <= s2' /\ s8.generation # s2'
          /\ \A r \in s10 : r.generation <= s2' /\ r.changes <= s9 /\ r.generation # s2'
      BY <2>1, <1>0 DEF Facts!FactsInOrder
    <3> QED BY <2>1, <3>1 DEF Facts!FactsInOrder
  <2> QED BY <2>1, <2>2, <2>3 DEF Facts!LandsInOrder
<1>3. CASE Facts!StartupAnswers \/ Facts!StartupLands \/ Facts!StartupFails \/ Facts!Upgrades \/ Facts!ClosesUpgrade
  <2>1. UNCHANGED <<s1, s2, s3, s8, s9, s10, s12>> /\ s6' \in {s6, "none"}
    BY <1>3 DEF Facts!StartupAnswers, Facts!StartupLands, Facts!StartupFails, Facts!Upgrades, Facts!ClosesUpgrade,
                Facts!dialog, Facts!Cache, Facts!Closes
  <2> QED BY <2>1 DEF Facts!FactsTyped, Facts!Problems, Facts!FactsInOrder, Facts!LandsInOrder
<1>4. ASSUME NEW join \in BOOLEAN, Facts!Changes(join) PROVE Goal
  <2> DEFINE new == [of |-> s1, generation |-> s2, join |-> join, answer |-> "none"]
  <2>1. /\ s1 # None /\ s8' = new /\ s9' = s9 + 1 /\ s6' = "none" /\ UNCHANGED <<s1, s2, s3, s4, s10, s12>>
    BY <1>4 DEF Facts!Changes
  <2>2. new \in Facts!Change /\ new.generation = s2 /\ new.of = s1
    BY <2>1, <1>0 DEF Facts!Change, Facts!FactsTyped
  <2> HIDE DEF new
  <2>3. Facts!FactsTyped'
    BY <1>0, <2>1, <2>2 DEF Facts!FactsTyped, Facts!Problems
  <2>4. Facts!FactsInOrder'
    <3>1. \A r \in s10 : r.changes <= s9' /\ r.changes # s9'
      BY <1>0, <2>1 DEF Facts!FactsInOrder
    <3> QED BY <1>0, <2>1, <2>2, <3>1 DEF Facts!FactsInOrder
  <2> QED BY <2>1, <2>3, <2>4 DEF Facts!LandsInOrder
<1>5. CASE Facts!ChangeAnswers
  <2>1. s8 # None /\ s8 \in Facts!Change /\ UNCHANGED <<s1, s2, s4, s6, s9, s10, s12>>
    BY <1>0, <1>5 DEF Facts!ChangeAnswers, Facts!dialog
  <2>2. PICK answer \in {"done", "already-on-plan", "unavailable"} :
          /\ s8' = [s8 EXCEPT !.answer = answer]
          /\ \/ s3' = s3
             \/ s3' = [s3 EXCEPT ![s8.of] = [Facts!Aged(@) EXCEPT !.asked = s8.join]]
    BY <1>5 DEF Facts!ChangeAnswers
  <2>3. s8' \in Facts!Change /\ s8'.generation = s8.generation /\ s8'.of = s8.of
    BY <2>1, <2>2 DEF Facts!Change
  <2>4. /\ s3' \in [Things -> Facts!Profile] /\ \A b \in Things : s3'[b].of = b
        /\ \A b \in Things : s3[b].age \in Nat /\ s3'[b].age \in Nat /\ s3[b].age <= s3'[b].age
    <3>1. CASE s3' = s3
      BY <1>0, <3>1 DEF Facts!FactsTyped
    <3>2. CASE s3' = [s3 EXCEPT ![s8.of] = [Facts!Aged(@) EXCEPT !.asked = s8.join]]
      <4> DEFINE a == s8.of
                 new == [Facts!Aged(s3[a]) EXCEPT !.asked = s8.join]
      <4>1. a \in Things /\ s8.join \in BOOLEAN
        BY <2>1 DEF Facts!Change
      <4>2. s3[a] \in Facts!Profile /\ s3[a].of = a
        BY <1>0, <4>1
      <4>3. new \in Facts!Profile /\ new.of = a /\ new.age = s3[a].age + 1
        BY <4>1, <4>2, AgedAt
      <4>4. s3' = [s3 EXCEPT ![a] = new]
        BY <3>2
      <4> HIDE DEF a, new
      <4> QED BY <4>1, <4>3, <4>4, ProfileAges
    <3> QED BY <2>2, <3>1, <3>2
  <2>5. Facts!FactsTyped'
    BY <1>0, <2>1, <2>3, <2>4 DEF Facts!FactsTyped
  <2>6. Facts!FactsInOrder'
    BY <2>1, <2>3 DEF Facts!FactsInOrder
  <2> QED BY <2>1, <2>5, <2>6 DEF Facts!LandsInOrder
<1>6. CASE Facts!Settles
  <2>1. s8 # None /\ s8 \in Facts!Change /\ s8' = None /\ UNCHANGED <<s1, s2, s3, s9>>
    BY <1>0, <1>6 DEF Facts!Settles
  <2>2. s8.of \in Things /\ s8.answer \in {"none", "done", "already-on-plan", "unavailable"}
    BY <2>1 DEF Facts!Change
  <2>3. CASE s8.generation # s2
    <3>1. UNCHANGED <<s4, s6, s10, s12>>
      BY <1>6, <2>3 DEF Facts!Settles, Facts!dialog
    <3> QED BY <2>1, <3>1 DEF Facts!FactsTyped, Facts!FactsInOrder, Facts!LandsInOrder
  <2>4. CASE s8.generation = s2 /\ s8.answer = "done"
    <3>1. s1 = s8.of
      BY <2>1, <2>4 DEF Facts!FactsInOrder
    <3>2. /\ s10' = s10 /\ s6' \in {s6, "none", "not-stored"}
          /\ \/ s4' = s3[s1] /\ s12' = s3[s1].age
             \/ UNCHANGED <<s4, s12>>
      BY <1>6, <2>4, <3>1 DEF Facts!Settles, Facts!Cache, Facts!Closes
    <3>3. s3[s1] \in Facts!Profile /\ s3[s1].of = s1 /\ s3[s1].age \in Nat
      BY <1>0, <2>2, <3>1
    <3>4. Facts!FactsTyped'
      BY <2>1, <3>2, <3>3 DEF Facts!FactsTyped, Facts!Problems
    <3>5. Facts!FactsInOrder'
      BY <2>1, <3>2 DEF Facts!FactsInOrder
    <3> QED BY <3>2, <3>3, <3>4, <3>5 DEF Facts!LandsInOrder
  <2>5. CASE s8.generation = s2 /\ s8.answer # "done"
    <3>1. /\ s6' = s8.answer /\ s8.answer # "none" /\ UNCHANGED <<s4, s12>>
          /\ s10' = s10 \/ s10' = s10 \cup {Facts!Reread(TRUE)}
      BY <1>6, <2>5 DEF Facts!Settles
    <3>2. s1 # None
      BY <2>1, <2>2, <2>5, InterfaceAssumption DEF Facts!FactsInOrder
    <3> DEFINE new == Facts!Reread(TRUE)
    <3>3. new \in Facts!Later /\ new.generation = s2 /\ new.changes = s9 /\ new.got = None
      BY Rereads
    <3>6. s10' = s10 \/ s10' = s10 \cup {new}
      BY <3>1
    <3> HIDE DEF new
    <3>4. Facts!FactsTyped'
      BY <2>1, <2>2, <2>5, <3>1, <3>3, <3>6 DEF Facts!FactsTyped, Facts!Problems
    <3>5. Facts!FactsInOrder'
      BY <1>0, <2>1, <3>1, <3>2, <3>3, <3>6 DEF Facts!FactsInOrder
    <3> QED BY <3>1, <3>4, <3>5 DEF Facts!LandsInOrder
  <2> QED BY <2>3, <2>4, <2>5
<1>7. CASE Facts!MatrixBehind
  <2>1. s1 # None /\ s10' = {Facts!Reread(s8 = None)} /\ UNCHANGED <<s1, s2, s3, s4, s6, s8, s9, s12>>
    BY <1>7 DEF Facts!MatrixBehind, Facts!dialog
  <2> DEFINE idle == s8 = None
             new == Facts!Reread(idle)
  <2>2. idle \in BOOLEAN
    BY Zenon
  <2>3. /\ new \in Facts!Later /\ new.generation = s2 /\ new.changes = s9 /\ new.got = None
        /\ new.idle = idle
    <3> HIDE DEF idle
    <3> QED BY <2>2, Rereads
  <2>4. new.idle => s8 = None
    BY <2>3
  <2>5. s10' = {new}
    BY <2>1
  <2> HIDE DEF new
  <2>6. Facts!FactsTyped'
    BY <2>1, <2>3, <2>5 DEF Facts!FactsTyped
  <2>7. Facts!FactsInOrder'
    BY <1>0, <2>1, <2>3, <2>4, <2>5 DEF Facts!FactsInOrder
  <2> QED BY <2>1, <2>6, <2>7 DEF Facts!LandsInOrder
<1>8. CASE Facts!RereadAnswers
  <2>1. PICK r \in s10 : /\ r.got = None /\ s1 # None
                         /\ s10' = (s10 \ {r}) \cup Facts!Answered({r}, s3[s1])
                         /\ UNCHANGED <<s1, s2, s3, s4, s6, s8, s9, s12>>
    BY <1>8 DEF Facts!RereadAnswers, Facts!dialog
  <2> DEFINE got == s3[s1]
             new == [r EXCEPT !.got = got]
  <2>2. got \in Facts!Profile /\ got.of = s1 /\ s12 <= got.age
    BY <1>0, <2>1 DEF Facts!FactsTyped
  <2>3. s10' = (s10 \ {r}) \cup {new}
    BY <2>1 DEF Facts!Answered
  <2> HIDE DEF got
  <2>4. r \in Facts!Later
    BY DEF Facts!FactsTyped
  <2>5. /\ new \in Facts!Later /\ new.generation = r.generation /\ new.changes = r.changes
        /\ new.idle = r.idle /\ new.got = got
    BY <2>2, <2>4 DEF Facts!Later
  <2> HIDE DEF new
  <2>6. Facts!FactsTyped'
    BY <2>1, <2>3, <2>5 DEF Facts!FactsTyped
  <2>7. Facts!FactsInOrder'
    BY <2>1, <2>2, <2>3, <2>5 DEF Facts!FactsInOrder
  <2> QED BY <2>1, <2>6, <2>7 DEF Facts!LandsInOrder
<1>9. CASE Facts!RereadLands
  <2>1. PICK r \in s10 : /\ r.got # None /\ s10' = s10 \ {r}
                         /\ s4' = IF r.generation # s2 \/ r.changes # s9 THEN s4 ELSE r.got
                         /\ s6' \in {s6, "none"} /\ UNCHANGED <<s1, s2, s3, s8, s9, s12>>
    BY <1>9 DEF Facts!RereadLands, Facts!Cache, Facts!Closes, Facts!dialog
  <2>2. Facts!FactsTyped' /\ Facts!FactsInOrder'
    BY <2>1 DEF Facts!FactsTyped, Facts!FactsInOrder, Facts!Problems
  <2>3. r \in Facts!Later
    BY DEF Facts!FactsTyped
  <2>4. r.got \in Facts!Profile
    BY <2>1, <2>3 DEF Facts!Later
  <2>5. r.got.age \in Nat
    BY <2>4 DEF Facts!Profile
  <2>6. Facts!LandsInOrder
    BY <1>0, <2>1, <2>5 DEF Facts!FactsInOrder, Facts!LandsInOrder
  <2> QED BY <2>2, <2>6
<1>10. ASSUME NEW a \in Things, Facts!Granted(a) PROVE Goal
  <2> DEFINE new == [Facts!Aged(s3[a]) EXCEPT !.plan = "top"]
  <2>1. s3' = [s3 EXCEPT ![a] = new] /\ UNCHANGED <<s1, s2, s4, s6, s8, s9, s10, s12>>
    BY <1>10 DEF Facts!Granted, Facts!dialog
  <2>2. s3[a] \in Facts!Profile /\ s3[a].of = a
    BY <1>0
  <2>3. new \in Facts!Profile /\ new.of = a /\ new.age = s3[a].age + 1
    BY <2>2, AgedAt
  <2> HIDE DEF new
  <2>4. /\ s3' \in [Things -> Facts!Profile] /\ \A b \in Things : s3'[b].of = b
        /\ \A b \in Things : s3[b].age \in Nat /\ s3'[b].age \in Nat /\ s3[b].age <= s3'[b].age
    BY <2>1, <2>3, ProfileAges
  <2>5. Facts!FactsTyped'
    BY <1>0, <2>1, <2>4 DEF Facts!FactsTyped
  <2> QED BY <2>1, <2>5 DEF Facts!FactsInOrder, Facts!LandsInOrder
<1> QED BY <1>1, <1>2, <1>3, <1>4, <1>5, <1>6, <1>7, <1>8, <1>9, <1>10 DEF Facts!Next

LEMMA UpgradeStep == ASSUME UpgradeInv, Facts!Next PROVE UpgradeInv'
<1> USE DEF UpgradeInv
<1>1. CASE Facts!Upgrades \/ Facts!ClosesUpgrade
  BY <1>1 DEF Facts!Upgrades, Facts!ClosesUpgrade, Facts!Closes
<1>2. CASE \E profile, says : Facts!Cache(profile, says)
  <2>1. PICK profile : s4' = profile /\ (s5' => Facts!OffersUpgrade(profile))
    BY <1>2 DEF Facts!Cache, Facts!Closes
  <2> QED BY <2>1
<1>3. CASE Facts!StartupLands \/ Facts!RereadLands \/ Facts!Settles
  <2>1. (\E profile, says : Facts!Cache(profile, says)) \/ UNCHANGED <<s4, s5>>
    BY <1>3 DEF Facts!StartupLands, Facts!RereadLands, Facts!Settles, Facts!dialog
  <2> QED BY <1>2, <2>1
<1>4. CASE (\E a \in Things : Facts!SignsIn(a)) \/ Facts!SignsOut
  <2>1. s4' = None
    BY <1>4 DEF Facts!SignsIn, Facts!SignsOut, Facts!Cache
  <2> QED BY <2>1 DEF Facts!OffersUpgrade
<1>5. CASE \/ Facts!Expires \/ Facts!StartupAnswers \/ Facts!StartupFails \/ Facts!ChangeAnswers
           \/ Facts!MatrixBehind \/ Facts!RereadAnswers
           \/ (\E a \in Things : Facts!Granted(a)) \/ \E join \in BOOLEAN : Facts!Changes(join)
  <2>1. UNCHANGED <<s4, s5>>
    BY <1>5 DEF Facts!Expires, Facts!StartupAnswers, Facts!StartupFails, Facts!ChangeAnswers, Facts!MatrixBehind,
                Facts!RereadAnswers, Facts!Granted, Facts!Changes, Facts!dialog
  <2> QED BY <2>1
<1> QED BY <1>1, <1>3, <1>4, <1>5 DEF Facts!Next

(* 13. Backfill.                                                                *)

FillInv == Fill!BackfillTyped /\ Fill!WritesOverNeed

LEMMA FillInit == Fill!Init => FillInv
<1> SUFFICES ASSUME Fill!Init PROVE FillInv
  OBVIOUS
<1>1. [rev : {1}, block : {"none", "found"}] \subseteq Fill!Device
  BY DEF Fill!Device
<1>2. s2 \in [Projects -> [Devices -> Fill!Device]]
  <2>1. s2 \in [Projects -> [Devices -> [rev : {1}, block : {"none", "found"}]]]
    BY DEF Fill!Init
  <2> QED BY <1>1, <2>1
<1>3. s1 \in Projects /\ s3 \in BOOLEAN /\ s4 = FALSE /\ s5 = None /\ s6 = FALSE /\ s7 = None
  BY DEF Fill!Init
<1> QED BY <1>2, <1>3 DEF FillInv, Fill!BackfillTyped, Fill!WritesOverNeed

\* A pass that begins has no device in hand; one that is told to stop is where it was.
LEMMA Passes ==
  /\ \A p \in Projects : Fill!Pass(p) \in Fill!Passing /\ Fill!Pass(p).at = "list"
  /\ \A r \in Fill!Passing : LET told == [r EXCEPT !.live = FALSE]
                             IN /\ told \in Fill!Passing /\ told.of = r.of /\ told.at = r.at /\ told.id = r.id
                                /\ told.answer = r.answer /\ told.over = r.over
  /\ \A r \in Fill!Passing : r.of \in Projects /\ r.over \in Nat
  /\ \A d \in Fill!Device : d.rev \in Nat
BY DEF Fill!Pass, Fill!Passing, Fill!Device

\* Wherever a pass is told, begun or over, and the devices are left alone, the invariant stays.
LEMMA PassKept ==
  ASSUME FillInv, UNCHANGED s2, s1' \in Projects, s3' \in BOOLEAN, s4' \in BOOLEAN, s6' \in BOOLEAN,
         s7' \in Projects \cup {None}, s6' => s5' # None,
         \/ s5' = s5 \/ s5' = Fill!Stopped \/ s5' = None
         \/ \E p \in Projects : s5' = Fill!Pass(p)
  PROVE  FillInv'
<1> USE DEF FillInv
<1>1. s5 # None => s5 \in Fill!Passing
  BY DEF Fill!BackfillTyped
<1>2. CASE s5' = s5 \/ s5' = None
  BY <1>2 DEF Fill!BackfillTyped, Fill!WritesOverNeed
<1>3. CASE s5' = Fill!Stopped /\ s5 # None
  <2>1. s5' = [s5 EXCEPT !.live = FALSE]
    BY <1>3 DEF Fill!Stopped
  <2>2. /\ s5' \in Fill!Passing /\ s5'.of = s5.of /\ s5'.at = s5.at /\ s5'.id = s5.id
        /\ s5'.answer = s5.answer /\ s5'.over = s5.over
    BY <1>1, <1>3, <2>1, Passes
  <2>3. Fill!BackfillTyped'
    BY <2>2 DEF Fill!BackfillTyped
  <2>4. Fill!WritesOverNeed'
    BY <1>3, <2>2 DEF Fill!WritesOverNeed
  <2> QED BY <2>3, <2>4
<1>4. ASSUME NEW p \in Projects, s5' = Fill!Pass(p) PROVE FillInv'
  <2>1. s5' \in Fill!Passing /\ s5'.at = "list"
    BY <1>4, Passes
  <2> QED BY <2>1 DEF Fill!BackfillTyped, Fill!WritesOverNeed
<1>5. s5 = None => Fill!Stopped = None
  BY DEF Fill!Stopped
<1> QED BY <1>2, <1>3, <1>4, <1>5

\* A device written is newer than it was, and no other is touched.
Stored(p, d, block) == [s2 EXCEPT ![p][d] = [rev |-> @.rev + 1, block |-> block]]

LEMMA DeviceWritten ==
  ASSUME FillInv, NEW p \in Projects, NEW d \in Devices, NEW block \in {"none", "missing", "found", "unusable"}
  PROVE  /\ Stored(p, d, block) \in [Projects -> [Devices -> Fill!Device]]
         /\ \A q \in Projects, e \in Devices :
              LET now == Stored(p, d, block)[q][e]
              IN IF q = p /\ e = d THEN now.rev = s2[q][e].rev + 1 /\ now.block = block
                 ELSE now = s2[q][e]
<1> DEFINE new == [rev |-> s2[p][d].rev + 1, block |-> block]
           all == Stored(p, d, block)
<1>1. s2 \in [Projects -> [Devices -> Fill!Device]]
  BY DEF FillInv, Fill!BackfillTyped
<1>2. s2[p][d] \in Fill!Device
  BY <1>1
<1>3. s2[p][d].rev + 1 \in Nat
  BY <1>2, Passes
<1>4. new \in Fill!Device /\ new.rev = s2[p][d].rev + 1 /\ new.block = block
  BY <1>3 DEF Fill!Device
<1>5. all = [s2 EXCEPT ![p][d] = new]
  BY DEF Stored
<1> HIDE DEF new, all
<1>6. all \in [Projects -> [Devices -> Fill!Device]]
  BY <1>1, <1>4, <1>5
<1>7. all[p][d] = new /\ \A q \in Projects, e \in Devices : q # p \/ e # d => all[q][e] = s2[q][e]
  BY <1>1, <1>5
<1> QED BY <1>4, <1>6, <1>7 DEF all

LEMMA FillStep == ASSUME FillInv, Fill!Next PROVE FillInv' /\ Fill!KeepsWhatWasFound
<1> USE DEF FillInv
<1>0. /\ s5 # None => s5 \in Fill!Passing
      /\ s2 \in [Projects -> [Devices -> Fill!Device]]
      /\ UNCHANGED s2 => Fill!KeepsWhatWasFound
  BY DEF Fill!BackfillTyped, Fill!KeepsWhatWasFound
<1> DEFINE Kept == /\ UNCHANGED s2 /\ s1' \in Projects /\ s3' \in BOOLEAN /\ s4' \in BOOLEAN /\ s6' \in BOOLEAN
                   /\ s7' \in Projects \cup {None} /\ (s6' => s5' # None)
                   /\ \/ s5' = s5 \/ s5' = Fill!Stopped \/ s5' = None
                      \/ \E p \in Projects : s5' = Fill!Pass(p)
<1>1. ASSUME NEW p \in Projects, Fill!Switch(p) PROVE Kept
  <2>1. s1' = p /\ UNCHANGED <<s2, s3, s4>>
    BY <1>1 DEF Fill!Switch
  <2>2. \/ Fill!Stopped = None /\ s5' = Fill!Pass(p) /\ s6' = FALSE /\ s7' = None
        \/ Fill!Stopped # None /\ s5' = Fill!Stopped /\ s6' = TRUE /\ s7' = p
        \/ s5' = Fill!Stopped /\ s6' = FALSE /\ s7' = None
    BY <1>1 DEF Fill!Switch, Fill!Trigger
  <2> QED BY <2>1, <2>2 DEF Fill!BackfillTyped
<1>2. CASE Fill!Wanted
  <2>1. s3' = TRUE /\ UNCHANGED <<s1, s2, s4>>
    BY <1>2 DEF Fill!Wanted
  <2>2. \/ s5 = None /\ s5' = Fill!Pass(s1) /\ s6' = FALSE /\ s7' = None
        \/ s5 # None /\ s5' = s5 /\ s6' = TRUE /\ s7' = s1
    BY <1>2 DEF Fill!Wanted, Fill!Trigger
  <2>3. Kept
    BY <2>1, <2>2 DEF Fill!BackfillTyped
  <2> QED BY <1>0, <2>3, PassKept
<1>3. CASE Fill!Loses \/ Fill!Left \/ Fill!Ends
  <2>1. Kept
    <3>1. /\ UNCHANGED <<s1, s2>> /\ s3' \in BOOLEAN /\ s4' \in BOOLEAN
          /\ \/ UNCHANGED <<s5, s6, s7>>
             \/ s5' = Fill!Stopped /\ s6' = FALSE /\ s7' = None
      <4>1. CASE Fill!Loses
        BY <4>1 DEF Fill!Loses, Fill!BackfillTyped
      <4>2. CASE Fill!Left
        BY <4>2 DEF Fill!Left, Fill!BackfillTyped
      <4>3. CASE Fill!Ends
        BY <4>3 DEF Fill!Ends
      <4> QED BY <1>3, <4>1, <4>2, <4>3
    <3>2. s1' \in Projects /\ (UNCHANGED <<s5, s6, s7>> => Kept)
      BY <3>1 DEF Fill!BackfillTyped
    <3>3. s5' = Fill!Stopped /\ s6' = FALSE /\ s7' = None => Kept
      BY <3>1, <3>2
    <3> QED BY <3>1, <3>2, <3>3
  <2> QED BY <1>0, <2>1, PassKept
<1>4. ASSUME NEW p \in Projects, NEW d \in Devices, Fill!Elsewhere(p, d) PROVE FillInv' /\ Fill!KeepsWhatWasFound
  <2>1. PICK block \in {s2[p][d].block, "found"} :
          s2' = [s2 EXCEPT ![p][d] = [rev |-> @.rev + 1, block |-> block]]
    BY <1>4 DEF Fill!Elsewhere
  <2>2. UNCHANGED <<s1, s3, s4, s5, s6, s7>>
    BY <1>4 DEF Fill!Elsewhere
  <2>3. block \in {"none", "missing", "found", "unusable"}
    <3>1. s2[p][d] \in Fill!Device
      BY <1>0
    <3> QED BY <2>1, <3>1 DEF Fill!Device
  <2>4. /\ s2' \in [Projects -> [Devices -> Fill!Device]]
        /\ \A q \in Projects, e \in Devices :
             IF q = p /\ e = d THEN s2'[q][e].rev = s2[q][e].rev + 1 /\ s2'[q][e].block = block
             ELSE s2'[q][e] = s2[q][e]
    <3>1. s2' = Stored(p, d, block)
      BY <2>1 DEF Stored
    <3> QED BY <2>3, <3>1, DeviceWritten
  <2>5. \A q \in Projects, e \in Devices : s2[q][e].rev \in Nat
    BY <1>0, Passes
  <2>6. Fill!BackfillTyped'
    BY <2>2, <2>4 DEF Fill!BackfillTyped
  <2>7. s5 # None => s5.of \in Projects /\ s5.over \in Nat
    BY <1>0, Passes
  <2>8. Fill!WritesOverNeed'
    BY <2>2, <2>4, <2>5, <2>7 DEF Fill!WritesOverNeed, Fill!Needs
  <2>9. Fill!KeepsWhatWasFound
    BY <2>1, <2>4 DEF Fill!KeepsWhatWasFound
  <2> QED BY <2>6, <2>8, <2>9
<1>5. ASSUME Fill!PassEnds, UNCHANGED <<s1, s2, s3, s4>>, s5 # None PROVE Kept
  BY <1>5 DEF Fill!PassEnds, Fill!BackfillTyped
<1>6. CASE Fill!Lists
  <2>1. s5 # None /\ s5.at = "list" /\ UNCHANGED <<s1, s2, s3, s4>>
    BY <1>6 DEF Fill!Lists, Fill!Step
  <2>2. \/ Fill!PassEnds
        \/ \E left \in SUBSET Devices : s5' = [s5 EXCEPT !.left = left, !.at = "next"] /\ UNCHANGED <<s6, s7>>
    BY <1>6 DEF Fill!Lists
  <2>3. ASSUME NEW left \in SUBSET Devices, s5' = [s5 EXCEPT !.left = left, !.at = "next"], UNCHANGED <<s6, s7>>
        PROVE  FillInv'
    <3>1. s5' \in Fill!Passing /\ s5'.at = "next"
      BY <1>0, <2>1, <2>3 DEF Fill!Passing
    <3>2. s5' # None
      BY <3>1, InterfaceAssumption
    <3> QED BY <2>1, <2>3, <3>1, <3>2 DEF Fill!BackfillTyped, Fill!WritesOverNeed
  <2> QED BY <1>0, <1>5, <2>1, <2>2, <2>3, PassKept
<1>7. CASE Fill!Chooses
  <2>1. s5 # None /\ UNCHANGED <<s1, s2, s3, s4>>
    BY <1>7 DEF Fill!Chooses, Fill!Step
  <2>2. \/ Fill!PassEnds
        \/ \E d \in s5.left : s5' = [s5 EXCEPT !.left = @ \ {d}, !.id = d, !.at = "ask"] /\ UNCHANGED <<s6, s7>>
    BY <1>7 DEF Fill!Chooses
  <2>3. ASSUME NEW d \in s5.left, s5' = [s5 EXCEPT !.left = @ \ {d}, !.id = d, !.at = "ask"], UNCHANGED <<s6, s7>>
        PROVE  FillInv'
    <3>1. s5.left \in SUBSET Devices
      BY <1>0, <2>1 DEF Fill!Passing
    <3>2. s5' \in Fill!Passing /\ s5'.at = "ask" /\ s5'.id = d
      BY <1>0, <2>1, <2>3, <3>1 DEF Fill!Passing
    <3>3. s5' # None /\ d \in Devices
      BY <3>1, <3>2, InterfaceAssumption
    <3> QED BY <2>1, <2>3, <3>2, <3>3 DEF Fill!BackfillTyped, Fill!WritesOverNeed
  <2> QED BY <1>0, <1>5, <2>1, <2>2, <2>3, PassKept
<1>8. CASE Fill!Answered
  <2>1. s5 # None /\ s5.at = "ask" /\ UNCHANGED <<s1, s2, s3, s4>>
    BY <1>8 DEF Fill!Answered, Fill!Step
  <2>2. \/ Fill!PassEnds
        \/ \E answer \in {"found", "missing", "unusable"} :
             s5' = [s5 EXCEPT !.answer = answer, !.at = "get"] /\ UNCHANGED <<s6, s7>>
    BY <1>8 DEF Fill!Answered
  <2>3. ASSUME NEW answer \in {"found", "missing", "unusable"}, s5' = [s5 EXCEPT !.answer = answer, !.at = "get"],
               UNCHANGED <<s6, s7>>
        PROVE  FillInv'
    <3>1. s5' \in Fill!Passing /\ s5'.at = "get" /\ s5'.id = s5.id /\ s5'.answer = answer
      BY <1>0, <2>1, <2>3 DEF Fill!Passing
    <3>2. s5' # None
      BY <3>1, InterfaceAssumption
    <3> QED BY <2>1, <2>3, <3>1, <3>2 DEF Fill!BackfillTyped, Fill!WritesOverNeed
  <2> QED BY <1>0, <1>5, <2>1, <2>2, <2>3, PassKept
<1>9. CASE Fill!Reads
  <2>1. s5 # None /\ s5.at = "get" /\ UNCHANGED <<s1, s2, s3, s4, s6, s7>>
    BY <1>9 DEF Fill!Reads, Fill!Step
  <2> DEFINE fresh == s2[s5.of][s5.id]
  <2>2. \/ Fill!Needs(fresh) /\ s5' = [s5 EXCEPT !.at = "save", !.over = fresh.rev]
        \/ s5' = [s5 EXCEPT !.at = "next"]
    BY <1>9 DEF Fill!Reads, Fill!Fills
  <2>3. s5 \in Fill!Passing /\ s5.of \in Projects /\ s5.id \in Devices
    BY <1>0, <2>1, Passes DEF Fill!WritesOverNeed
  <2>4. fresh.rev \in Nat
    BY <1>0, <2>3, Passes
  <2>5. CASE Fill!Needs(fresh) /\ s5' = [s5 EXCEPT !.at = "save", !.over = fresh.rev]
    <3> DEFINE rev == fresh.rev
    <3>1. Fill!Needs(fresh) /\ s5' = [s5 EXCEPT !.at = "save", !.over = rev] /\ rev \in Nat
      BY <2>4, <2>5
    <3>2. Fill!Needs(s2[s5.of][s5.id]) /\ rev = s2[s5.of][s5.id].rev
      BY <3>1
    <3> HIDE DEF rev, fresh
    <3>3. /\ s5' \in Fill!Passing /\ s5'.at = "save" /\ s5'.id = s5.id /\ s5'.of = s5.of
          /\ s5'.answer = s5.answer /\ s5'.over = rev
      BY <2>3, <3>1 DEF Fill!Passing
    <3>4. s5' # None
      BY <3>3, InterfaceAssumption
    <3>5. Fill!BackfillTyped'
      BY <2>1, <3>3, <3>4 DEF Fill!BackfillTyped
    <3>6. Fill!WritesOverNeed'
      BY <2>1, <2>3, <3>1, <3>2, <3>3 DEF Fill!WritesOverNeed
    <3> QED BY <1>0, <2>1, <3>5, <3>6
  <2>6. CASE s5' = [s5 EXCEPT !.at = "next"]
    <3>1. s5' \in Fill!Passing /\ s5'.at = "next"
      BY <2>3, <2>6 DEF Fill!Passing
    <3>2. s5' # None
      BY <3>1, InterfaceAssumption
    <3> QED BY <1>0, <2>1, <3>1, <3>2 DEF Fill!BackfillTyped, Fill!WritesOverNeed
  <2> QED BY <2>2, <2>5, <2>6
<1>10. CASE Fill!Writes
  <2>1. s5 # None /\ s5.at = "save" /\ UNCHANGED <<s1, s3, s4>>
    BY <1>10 DEF Fill!Writes
  <2>2. \/ UNCHANGED s2 /\ Fill!PassEnds
        \/ /\ s2' = IF s2[s5.of][s5.id].rev # s5.over THEN s2
                    ELSE [s2 EXCEPT ![s5.of][s5.id] = [rev |-> @.rev + 1, block |-> s5.answer]]
           /\ s5' = [s5 EXCEPT !.at = "next"] /\ UNCHANGED <<s6, s7>>
    BY <1>10 DEF Fill!Writes
  <2>3. CASE UNCHANGED s2 /\ Fill!PassEnds
    BY <1>0, <1>5, <2>1, <2>3, PassKept
  <2>4. CASE /\ s2' = IF s2[s5.of][s5.id].rev # s5.over THEN s2
                      ELSE [s2 EXCEPT ![s5.of][s5.id] = [rev |-> @.rev + 1, block |-> s5.answer]]
             /\ s5' = [s5 EXCEPT !.at = "next"] /\ UNCHANGED <<s6, s7>>
    <3>1. /\ s5 \in Fill!Passing /\ s5.of \in Projects /\ s5.id \in Devices
          /\ s5.answer \in {"found", "missing", "unusable"}
      BY <1>0, <2>1, Passes DEF Fill!WritesOverNeed
    <3>2. s5' \in Fill!Passing /\ s5'.at = "next"
      BY <2>4, <3>1 DEF Fill!Passing
    <3>3. s5' # None
      BY <3>2, InterfaceAssumption
    <3>4. s2' \in [Projects -> [Devices -> Fill!Device]] /\ Fill!KeepsWhatWasFound
      <4>1. CASE s2' = s2
        BY <1>0, <4>1
      <4>2. CASE s2[s5.of][s5.id].rev = s5.over
        <5> DEFINE p == s5.of
                   d == s5.id
                   block == s5.answer
        <5>1. s2' = Stored(p, d, block)
          BY <2>4, <4>2 DEF Stored
        <5>2. s2[p][d].block # "found"
          BY <2>1, <4>2 DEF Fill!WritesOverNeed, Fill!Needs
        <5>3. p \in Projects /\ d \in Devices /\ block \in {"none", "missing", "found", "unusable"}
          BY <3>1
        <5> HIDE DEF p, d, block
        <5>4. /\ s2' \in [Projects -> [Devices -> Fill!Device]]
              /\ \A q \in Projects, e \in Devices :
                   IF q = p /\ e = d THEN s2'[q][e].rev = s2[q][e].rev + 1 /\ s2'[q][e].block = block
                   ELSE s2'[q][e] = s2[q][e]
          BY <5>1, <5>3, DeviceWritten
        <5> QED BY <5>2, <5>4 DEF Fill!KeepsWhatWasFound
      <4> QED BY <2>4, <4>1, <4>2
    <3> QED BY <2>1, <2>4, <3>2, <3>3, <3>4 DEF Fill!BackfillTyped, Fill!WritesOverNeed
  <2> QED BY <2>2, <2>3, <2>4
<1>11. ASSUME NEW p \in Projects, Fill!Switch(p) PROVE FillInv' /\ Fill!KeepsWhatWasFound
  BY <1>0, <1>1, <1>11, PassKept
<1> QED BY <1>2, <1>3, <1>4, <1>6, <1>7, <1>8, <1>9, <1>10, <1>11 DEF Fill!Next, Fill!Works

(* 14. The interface.                                                           *)

Parts == {"replication", "signIn", "device", "facts", "signOut", "account", "rooms", "list", "add",
          "edit", "scan", "backfill", "shell"}

\* The invariant of the part that is explored.
InterfaceInv ==
    /\ part \in Parts
    /\ part = "replication" => ReplicationInv
    /\ part = "signIn" => DialogInv
    /\ part = "device" => PageInv
    /\ part = "facts" => FactsInv /\ UpgradeInv
    /\ part = "signOut" => SignOutInv
    /\ part = "account" => AccountInv
    /\ part = "rooms" => RoomsInv /\ Rooms!MovedOnce
    /\ part = "list" => ListInv /\ List!FilesAreOfTheProject /\ List!ExportingIsTrue
    /\ part = "add" => AddInv
    /\ part = "edit" => EditInv
    /\ part = "scan" => ScanInv
    /\ part = "backfill" => FillInv
    /\ part = "shell" => ShellInv

LEMMA InterfaceStarts == InterfaceInit => InterfaceInv
<1> SUFFICES ASSUME InterfaceInit PROVE InterfaceInv
  OBVIOUS
<1> USE DEF InterfaceInv, Parts
<1>1. CASE part = "replication" /\ Rep!Init
  BY <1>1, ReplicationInit
<1>2. CASE part = "signIn" /\ Dialog!Init
  BY <1>2, DialogInit
<1>3. CASE part = "device" /\ Page!Init
  BY <1>3, PageInit
<1>4. CASE part = "facts" /\ Facts!Init
  <2>1. UpgradeInv
    BY <1>4 DEF Facts!Init, UpgradeInv
  <2> QED BY <1>4, <2>1, FactsInit
<1>5. CASE part = "signOut" /\ Leaving!Init
  BY <1>5, SignOutInit
<1>6. CASE part = "account" /\ Account!Init
  BY <1>6, AccountInit
<1>7. CASE part = "rooms" /\ Rooms!Init
  BY <1>7, RoomsInit
<1>8. CASE part = "list" /\ List!Init
  BY <1>8, ListInit
<1>9. CASE part = "add" /\ Add!Init
  BY <1>9, AddInit
<1>10. CASE part = "edit" /\ Edit!Init
  BY <1>10, EditInit
<1>11. CASE part = "scan" /\ Scan!Init
  BY <1>11, ScanInit
<1>12. CASE part = "backfill" /\ Fill!Init
  BY <1>12, FillInit
<1>13. CASE part = "shell" /\ Shell!Init
  BY <1>13, ShellInit
<1> QED BY <1>1, <1>2, <1>3, <1>4, <1>5, <1>6, <1>7, <1>8, <1>9, <1>10, <1>11, <1>12, <1>13 DEF InterfaceInit

\* A step of a part keeps the part's invariant; and so does a step of none.
LEMMA InterfaceStep == InterfaceInv /\ [InterfaceNext]_vars => InterfaceInv'
<1> SUFFICES ASSUME InterfaceInv, [InterfaceNext]_vars PROVE InterfaceInv'
  OBVIOUS
<1>1. CASE part = "replication" /\ Rep!Next /\ UNCHANGED part
  <2>1. ReplicationInv'
    BY <1>1, ReplicationStep DEF InterfaceInv
  <2> QED BY <1>1, <2>1 DEF InterfaceInv
<1>2. CASE part = "signIn" /\ Dialog!Next /\ UNCHANGED part
  <2>1. DialogInv
    BY <1>2 DEF InterfaceInv
  <2>2. DialogInv'
    BY <1>2, <2>1, DialogStep
  <2> QED BY <1>2, <2>2 DEF InterfaceInv
<1>3. CASE part = "device" /\ Page!Next /\ UNCHANGED part
  <2>1. PageInv'
    BY <1>3, PageStep DEF InterfaceInv
  <2> QED BY <1>3, <2>1 DEF InterfaceInv
<1>4. CASE part = "facts" /\ Facts!Next /\ UNCHANGED part
  <2>1. FactsInv /\ UpgradeInv
    BY <1>4 DEF InterfaceInv
  <2>2. FactsInv' /\ UpgradeInv'
    BY <1>4, <2>1, FactsStep, UpgradeStep
  <2> QED BY <1>4, <2>2 DEF InterfaceInv
<1>5. CASE part = "signOut" /\ Leaving!Next /\ UNCHANGED part
  <2>1. SignOutInv'
    BY <1>5, SignOutStep DEF InterfaceInv
  <2> QED BY <1>5, <2>1 DEF InterfaceInv
<1>6. CASE part = "account" /\ Account!Next /\ UNCHANGED part
  <2>1. AccountInv'
    BY <1>6, AccountStep DEF InterfaceInv
  <2> QED BY <1>6, <2>1 DEF InterfaceInv
<1>7. CASE part = "rooms" /\ Rooms!Next /\ UNCHANGED part
  <2>1. RoomsInv /\ Rooms!MovedOnce
    BY <1>7 DEF InterfaceInv
  <2>2. RoomsInv' /\ Rooms!MovedOnce'
    BY <1>7, <2>1, RoomsStep, MovedStep
  <2> QED BY <1>7, <2>2 DEF InterfaceInv
<1>8. CASE part = "list" /\ List!Next /\ UNCHANGED part
  <2>1. ListInv /\ List!FilesAreOfTheProject /\ List!ExportingIsTrue
    BY <1>8 DEF InterfaceInv
  <2>2. ListInv' /\ List!FilesAreOfTheProject' /\ List!ExportingIsTrue'
    BY <1>8, <2>1, ListStep, FilesStep, ExportingStep
  <2> QED BY <1>8, <2>2 DEF InterfaceInv
<1>9. CASE part = "add" /\ Add!Next /\ UNCHANGED part
  <2>1. AddInv'
    BY <1>9, AddStep DEF InterfaceInv
  <2> QED BY <1>9, <2>1 DEF InterfaceInv
<1>10. CASE part = "edit" /\ Edit!Next /\ UNCHANGED part
  <2>1. EditInv'
    BY <1>10, EditStep DEF InterfaceInv
  <2> QED BY <1>10, <2>1 DEF InterfaceInv
<1>11. CASE part = "scan" /\ Scan!Next /\ UNCHANGED part
  <2>1. ScanInv'
    BY <1>11, ScanStep DEF InterfaceInv
  <2> QED BY <1>11, <2>1 DEF InterfaceInv
<1>12. CASE part = "backfill" /\ Fill!Next /\ UNCHANGED part
  <2>1. FillInv
    BY <1>12 DEF InterfaceInv
  <2>2. FillInv'
    BY <1>12, <2>1, FillStep
  <2> QED BY <1>12, <2>2 DEF InterfaceInv
<1>13. CASE part = "shell" /\ Shell!Next /\ UNCHANGED part
  <2>1. ShellInv'
    BY <1>13, ShellStep DEF InterfaceInv
  <2> QED BY <1>13, <2>1 DEF InterfaceInv
<1>14. CASE UNCHANGED vars
  <2>1. UNCHANGED <<part, s1, s2, s3, s4, s5, s6, s7, s8, s9, s10, s11, s12, s13, s14, s15, s16>>
    BY <1>14 DEF vars, after8
  <2>2. part = "replication" => (ReplicationInv)'
    BY <2>1 DEF InterfaceInv, ReplicationInv, Rep!HandlesInOrder, Rep!RefusalRemembered
  <2>3. part = "signIn" => (DialogInv)'
    BY <2>1 DEF InterfaceInv, DialogInv, Dialog!DialogTyped, Dialog!SendsInOrder, Dialog!Mailed, Dialog!DialogAgrees, Dialog!At
  <2>4. part = "device" => (PageInv)'
    BY <2>1 DEF InterfaceInv, PageInv, Page!PageTyped, Page!PageOwns, Page!MineOwned, Page!OnPage, Page!Owns
  <2>5. part = "facts" => (FactsInv /\ UpgradeInv)'
    BY <2>1 DEF InterfaceInv, FactsInv, UpgradeInv, Facts!FactsTyped, Facts!FactsInOrder
  <2>6. part = "signOut" => (SignOutInv)'
    BY <2>1 DEF InterfaceInv, SignOutInv, Leaving!SignOutTypeOK, Leaving!ChecksOwn, Leaving!ToldOfAll, Leaving!NothingLostUnasked, Leaving!Held
  <2>7. part = "account" => (AccountInv)'
    BY <2>1 DEF InterfaceInv, AccountInv, Account!AccountTyped, Account!OverIsNobodys, Account!NothingLeftBehind, Account!HasMethods
  <2>8. part = "rooms" => (RoomsInv /\ Rooms!MovedOnce)'
    BY <2>1 DEF InterfaceInv, RoomsInv, Rooms!RoomsTyped, Rooms!RoomsTypeOK, Rooms!RoomsOwn, Rooms!Current, Rooms!PlansOwn, Rooms!PlannedOf, Rooms!MovedOnce
  <2>9. part = "list" => (ListInv /\ List!FilesAreOfTheProject /\ List!ExportingIsTrue)'
    BY <2>1 DEF InterfaceInv, ListInv, List!ListTyped, List!DeviceListTypeOK, List!ListOwns, List!BuildsOwn, List!FilesAreOfTheProject, List!ExportingIsTrue
  <2>10. part = "add" => (AddInv)'
    BY <2>1 DEF InterfaceInv, AddInv, Add!AddTyped, Add!AddFormTypeOK, Add!FetchesOwn, Add!LookupIsOfTyped, Add!SavesOwn, Add!SavedAsTyped
  <2>11. part = "edit" => (EditInv)'
    BY <2>1 DEF InterfaceInv, EditInv, Edit!EditTyped, Edit!EditFormTypeOK, Edit!ReadsOwn, Edit!HoldsItsOwn, Edit!Known
  <2>12. part = "scan" => (ScanInv)'
    BY <2>1 DEF InterfaceInv, ScanInv, Scan!ScanDialogTypeOK, Scan!ReadsWhileOpen
  <2>13. part = "backfill" => (FillInv)'
    BY <2>1 DEF InterfaceInv, FillInv, Fill!BackfillTyped, Fill!WritesOverNeed
  <2>14. part = "shell" => (ShellInv)'
    BY <2>1 DEF InterfaceInv, ShellInv, Shell!OfflineShellTypeOK, Shell!WholeUnlessCut, Shell!CachedByInstall, Shell!InOrder, Shell!OfferedWhenReady
  <2> QED BY <2>1, <2>2, <2>3, <2>4, <2>5, <2>6, <2>7, <2>8, <2>9, <2>10, <2>11, <2>12, <2>13, <2>14 DEF InterfaceInv
<1> QED BY <1>1, <1>2, <1>3, <1>4, <1>5, <1>6, <1>7, <1>8, <1>9, <1>10, <1>11, <1>12, <1>13, <1>14 DEF InterfaceNext

LEMMA Invariance == InterfaceSpec => []InterfaceInv
BY InterfaceStarts, InterfaceStep, PTL DEF InterfaceSpec

\* What is kept of the handles says that they are well typed.
LEMMA ReplicationIsTyped == ReplicationInv => Rep!ReplicationTypeOK
<1> SUFFICES ASSUME ReplicationInv PROVE Rep!ReplicationTypeOK
  OBVIOUS
<1>1. s4 \in 0..Max.starts /\ s3 \in 0..s4
  BY DEF ReplicationInv, Rep!HandlesInOrder
<1>2. s3 # 0 => s3 \in Rep!Handles
  BY <1>1, InterfaceAssumption DEF Rep!Handles
<1>3. s3 # 0 => s2[s3] # "stopped"
  BY <1>2 DEF ReplicationInv, Rep!HandlesInOrder
<1>4. \A h \in Rep!Handles : s2[h] \in Rep!SyncStates \cup {"none"}
  BY DEF ReplicationInv, Rep!HandlesInOrder
<1>5. /\ s1 \in BOOLEAN /\ s7 \in Rep!SyncStates \cup {"none"}
      /\ s3 # 0 => s1 /\ s7 = s2[s3]
  BY DEF ReplicationInv, Rep!RefusalRemembered
<1> QED BY <1>1, <1>3, <1>4, <1>5 DEF Rep!ReplicationTypeOK

\* TypeCorrect: every part of the interface keeps its state well typed.
THEOREM TypeCorrect == InterfaceSpec => []InterfaceTypeOK
<1>1. InterfaceInv => InterfaceTypeOK
  <2> SUFFICES ASSUME InterfaceInv PROVE InterfaceTypeOK
    OBVIOUS
  <2>1. part = "replication" => Rep!ReplicationTypeOK
    BY ReplicationIsTyped DEF InterfaceInv
  <2>2. part = "signIn" => Dialog!DialogTypeOK
    BY DEF InterfaceInv, DialogInv, Dialog!DialogTypeOK, Dialog!DialogTyped, Dialog!Shown
  <2>3. part = "device" => Page!DevicePageTypeOK
    BY DEF InterfaceInv, PageInv, Page!DevicePageTypeOK, Page!PageTyped, Page!View
  <2>4. part = "facts" => Facts!FactsTypeOK
    BY DEF InterfaceInv, FactsInv, UpgradeInv, Facts!FactsTypeOK, Facts!FactsTyped
  <2>5. part = "signOut" => Leaving!SignOutTypeOK
    BY DEF InterfaceInv, SignOutInv
  <2>6. part = "account" => Account!AccountPageTypeOK
    BY DEF InterfaceInv, AccountInv, Account!AccountPageTypeOK, Account!AccountTyped, Account!Shows, Account!HasMethods, Account!Said, Account!Shown
  <2>7. part = "rooms" => Rooms!RoomsTypeOK
    BY DEF InterfaceInv, RoomsInv, Rooms!RoomsTyped
  <2>8. part = "list" => List!DeviceListTypeOK
    BY DEF InterfaceInv, ListInv, List!ListTyped
  <2>9. part = "add" => Add!AddFormTypeOK
    BY DEF InterfaceInv, AddInv, Add!AddTyped
  <2>10. part = "edit" => Edit!EditFormTypeOK
    BY DEF InterfaceInv, EditInv, Edit!EditTyped
  <2>11. part = "scan" => Scan!ScanDialogTypeOK
    BY DEF InterfaceInv, ScanInv
  <2>12. part = "backfill" => Fill!BackfillTypeOK
    BY DEF InterfaceInv, FillInv, Fill!BackfillTypeOK, Fill!BackfillTyped, Fill!Passing
  <2>13. part = "shell" => Shell!OfflineShellTypeOK
    BY DEF InterfaceInv, ShellInv
  <2>14. part \in Parts
    BY Zenon DEF InterfaceInv
  <2>15. CASE part \in {"replication", "signIn", "device", "facts"}
    BY <2>1, <2>2, <2>3, <2>4, <2>15 DEF InterfaceTypeOK
  <2>16. CASE part \in {"signOut", "account", "rooms", "list"}
    BY <2>5, <2>6, <2>7, <2>8, <2>16 DEF InterfaceTypeOK
  <2>17. CASE part \in {"add", "edit", "scan", "backfill", "shell"}
    BY <2>9, <2>10, <2>11, <2>12, <2>13, <2>17 DEF InterfaceTypeOK
  <2> QED BY <2>14, <2>15, <2>16, <2>17 DEF Parts
<1> QED BY <1>1, Invariance, PTL

\* OpenIsShown: whatever is read late, and whichever project, route or export was left meanwhile,
\* what a view shows, edits or hands over is of the project or of the device that is open.
THEOREM OpenIsShown == InterfaceSpec => []ShownIsOpen
<1>1. PageInv => Page!ShowsItsOwn /\ Page!HeardIsShown
  BY DEF PageInv, Page!PageOwns, Page!Owns, Page!ShowsItsOwn, Page!HeardIsShown, Page!Shown
<1>2. RoomsInv => Rooms!RoomsAreTheProjects
  BY DEF RoomsInv, Rooms!RoomsOwn, Rooms!RoomsAreTheProjects
<1>3. EditInv => Edit!HoldsItsOwn
  BY DEF EditInv
<1>4. InterfaceInv => ShownIsOpen
  BY <1>1, <1>2, <1>3 DEF InterfaceInv, ShownIsOpen
<1> QED BY <1>4, Invariance, PTL

\* MeantIsWritten: a rename that is tried again, a form whose project is switched, a sign-out
\* cancelled and begun again, and an install that is cut off write, destroy or cache what they
\* were meant to.
THEOREM MeantIsWritten == InterfaceSpec => []WrittenAsMeant
<1>1. AddInv => Add!SavedAsTyped
  BY DEF AddInv
<1>2. SignOutInv => Leaving!NothingLostUnasked
  BY DEF SignOutInv
<1>3. ShellInv => Shell!WholeUnlessCut
  BY DEF ShellInv
<1>4. InterfaceInv => WrittenAsMeant
  BY <1>1, <1>2, <1>3 DEF InterfaceInv, WrittenAsMeant
<1> QED BY <1>4, Invariance, PTL

\* ShownIsUnderWay: a refusal, a request, an export, a lookup, a camera or an update is what its
\* view says it is, and a session that is over leaves nothing on the account page.
THEOREM ShownIsUnderWay == InterfaceSpec => []UnderWayIsShown
<1>1. DialogInv => Dialog!DialogAgrees
  BY DEF DialogInv
<1>2. AddInv => Add!LookupIsOfTyped
  BY DEF AddInv
<1>3. ScanInv => Scan!ReadsWhileOpen
  BY DEF ScanInv
<1>4. AccountInv => Account!NothingLeftBehind
  BY DEF AccountInv
<1>5. ShellInv => Shell!OfferedWhenReady
  BY DEF ShellInv
<1>6. InterfaceInv => UnderWayIsShown
  BY <1>1, <1>2, <1>3, <1>4, <1>5, RefusalIsShown DEF InterfaceInv, UnderWayIsShown
<1> QED BY <1>6, Invariance, PTL

\* LateUndoesNothing: an answer that comes late opens no dialog the reader closed, and neither
\* the profile cached nor a manufacturer found is put back to what it was.
THEOREM LateUndoesNothing == InterfaceSpec => LateAnswersUndoNothing
<1> DEFINE Late == /\ part = "signIn" => Dialog!OnlyTheReaderOpens
                   /\ part = "facts" => Facts!LandsInOrder
                   /\ part = "backfill" => Fill!KeepsWhatWasFound
<1>1. InterfaceInv /\ [InterfaceNext]_vars => [Late]_vars
  <2> SUFFICES ASSUME InterfaceInv, InterfaceNext PROVE Late
    OBVIOUS
  <2>1. part = "signIn" => Dialog!OnlyTheReaderOpens
    <3>1. part = "signIn" => DialogInv /\ Dialog!Next
      BY DEF InterfaceInv, InterfaceNext
    <3> QED BY <3>1, DialogStep
  <2>2. part = "facts" => Facts!LandsInOrder
    <3>1. part = "facts" => FactsInv /\ Facts!Next
      BY DEF InterfaceInv, InterfaceNext
    <3> QED BY <3>1, FactsStep
  <2>3. part = "backfill" => Fill!KeepsWhatWasFound
    <3>1. part = "backfill" => FillInv /\ Fill!Next
      BY DEF InterfaceInv, InterfaceNext
    <3> QED BY <3>1, FillStep
  <2> QED BY <2>1, <2>2, <2>3
<1>2. [][Late]_vars => LateAnswersUndoNothing
  BY DEF LateAnswersUndoNothing
<1> QED BY <1>1, <1>2, Invariance, PTL DEF InterfaceSpec
===============================================================================
