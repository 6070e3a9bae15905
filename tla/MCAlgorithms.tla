---------------------------- MODULE MCAlgorithms ----------------------------
(***************************************************************************)
(* The computations that answer without waiting, one of them a behaviour:  *)
(*   merge     three leaves of a device, two of one generation and one of  *)
(*             the next, stamped late or early, with or without a lookup;  *)
(*   codes     the label of a device with nothing set, with everything set *)
(*             and with some of both, read right or with one slip;         *)
(*   archive   a project without devices, with one or two, one too large   *)
(*             and one that is locked, exported plain or sealed;           *)
(*   rooms     three devices in rooms spelled in more than one way, one    *)
(*             filed or one room renamed;                                  *)
(*   rows      what this device lists, what the server does, and the plan; *)
(*   paper     up to three rooms of up to four devices on pages that hold  *)
(*             from one device up to five, and devices on three by two     *)
(*             labels of which some are used.                              *)
(***************************************************************************)
EXTENDS MergeOrder, Sequences, TLC

CONSTANTS
    r1, t1, t2, None,
    Labels,                              \* MatterCodes
    Exports, ManualOf, PathRooms, Passwords, LongEnough,
    MaxEntries, MaxInflated, MaxBytes,   \* Archives
    TrimmedTo(_), FoldedTo(_), Filed, Written,   \* RoomList
    LocalOnly, Inputs, NewLocal, NewProject   \* ProjectRows

VARIABLES part, s1, s2, s3, s4

slots == <<s1, s2, s3, s4>>

Leaves3 == {[gen |-> 9, hash |-> 0], [gen |-> 9, hash |-> 1], [gen |-> 10, hash |-> 0]}

Brought == [id : Leaves3, updatedAt : {1, 2}, checkedAt : {0, 1, 2},
            remarks : [RemarkIds -> Texts \cup {NoText}]]

Code == INSTANCE MatterCodes WITH label <- s1, text <- s2, slip <- s3, read <- s4

\* What decodePayload and the forms let a device hold.
ASSUME LabelsAssumption ==
    \A device \in Labels, name \in {"discriminator", "passcode", "vendorId", "productId"} :
        device[name] \in 0 .. 2 ^ Code!WIDTH[name] - 1

DeviceFields == {"uuid", "payload", "manual", "room", "link", "remarks", "locked"}

\* What the forms let a device be: it has a payload or digits, and of a payload the digits
\* that it derives.
Holds(d) ==
    /\ DOMAIN d = DeviceFields
    /\ d.remarks
    /\ IF d.payload = None THEN d.manual # None
       ELSE d.payload \in DOMAIN ManualOf /\ d.manual = ManualOf[d.payload]

ASSUME ArchivesAssumption ==
    /\ MaxEntries \in Nat /\ MaxInflated \in Nat /\ MaxBytes \in Nat
    /\ None \notin Passwords /\ LongEnough \subseteq Passwords \ {""}
    /\ \A p \in DOMAIN ManualOf : ManualOf[p] # None
    /\ \A content \in Exports, key \in LongEnough \cup {None} :
          [content |-> content, key |-> key] # None
    /\ \A content \in Exports :
          /\ content.devices \in Seq({content.devices[i] : i \in DOMAIN content.devices})
          /\ \A i \in DOMAIN content.devices : Holds(content.devices[i])
          /\ \A i, j \in DOMAIN content.devices :
                content.devices[i].uuid = content.devices[j].uuid => i = j

Archive == INSTANCE Archives
            WITH Contents <- Exports, Rooms <- PathRooms,
                 saved <- s1, file <- s2, change <- s3, section <- s4

\* "Bad" and "Bad2" stand for one name composed and decomposed, which no locale tells apart.
InLocale == "Bad" :> 1 @@ "Bad2" :> 1 @@ "Hall" :> 2 @@ "hall" :> 3 @@ "Loft" :> 4
ByCode == "Bad" :> 1 @@ "Bad2" :> 2 @@ "HALL" :> 3 @@ "Hall" :> 4 @@ "Loft" :> 5 @@ "hall" :> 6

Rooms == INSTANCE RoomList
            WITH Blank <- "", Trimmed <- TrimmedTo, Fold <- FoldedTo, ByLocale <- InLocale,
                 ByCodePoint <- ByCode, Contents <- Filed, Typed <- Written,
                 devices <- s1, before <- s2, done <- s3

\* The segments of the paths there are, as typed and as kept.
Spoken == UNION {{path[n] : n \in DOMAIN path} :
                   path \in Written \cup UNION {{d[i].room : i \in DOMAIN d} : d \in Filed}}
Segments == Spoken \cup {TrimmedTo(x) : x \in Spoken}

\* A device keeps the path that normaliseRoomPath() made of what was typed.
ASSUME PathsAssumption ==
    /\ Written \subseteq Seq(Segments)
    /\ \A x \in Segments : TrimmedTo(TrimmedTo(x)) = TrimmedTo(x)
    /\ \A all \in Filed : \A i \in DOMAIN all :
          /\ DOMAIN all[i] = {"room", "disabled"}
          /\ all[i].room \in Seq(Segments) /\ Rooms!Normalise(all[i].room) = all[i].room
    /\ \A path, to \in Written :
          None \notin {[is |-> "filed", path |-> path], [is |-> "renamed", from |-> path, to |-> to]}

Rowed == INSTANCE ProjectRows WITH input <- s1, before <- s2, done <- s3

\* What the index and the server let the lists be.
ASSUME ListsAssumption ==
    /\ NewLocal \in LocalOnly /\ None \notin LocalOnly /\ NewProject \notin LocalOnly \cup {None}
    /\ \A in \in Inputs : Rowed!WellFormed(in) /\ Rowed!Unborn(in)

Named == <<"a", "b", "c", "d", "e", "f", "g", "h">>
Sizes == UNION {[1..n -> 1..4] : n \in 0..3}
ThreeRooms(sizes) == [g \in DOMAIN sizes |-> [path |-> <<Named[g]>>,
                    devices |-> [n \in 1..sizes[g] |-> <<g, n>>]]]

Paper == INSTANCE PaperLayout
            WITH Inventories <-
                    {[groups |-> ThreeRooms(sizes),
                      geometry |-> [height |-> 4 + usable, margin |-> 1, footerHeight |-> 2,
                                    entryHeight |-> 4, headingHeight |-> 1]] :
                        sizes \in Sizes, usable \in {5, 8, 9, 10, 14, 22}},
                 LabelJobs <-
                    {[subjects |-> SubSeq(Named, 1, n), start |-> [row |-> row, column |-> column],
                      stock |-> [columns |-> 3, rows |-> 2, left |-> 1, top |-> 2, pitchX |-> 5,
                                 pitchY |-> 4]] :
                        n \in 0..8, row \in {None, -1, 0, 1, 2, 3}, column \in {None, 0, 1, 2, 3, 4}},
                 job <- s1, pages <- s2

(* What TLC is given. *)

Least == [version |-> 0, vendorId |-> 0, productId |-> 0, customFlow |-> 0, discovery |-> 0,
          discriminator |-> 0, passcode |-> 1, extension |-> <<>>]
Most  == [version |-> 7, vendorId |-> 65535, productId |-> 65535, customFlow |-> 3,
          discovery |-> 255, discriminator |-> 4095, passcode |-> 134217727,
          extension |-> <<0, 255>>]
Usual == [Least EXCEPT !.vendorId = 65521, !.productId = 32769, !.discovery = 4,
                       !.discriminator = 3840, !.passcode = 20202021]
Labelled == {Least, Most, Usual}

ByPayload == [uuid |-> "u1", payload |-> "p1", manual |-> "m1", room |-> "Hall",
              link |-> "https", remarks |-> TRUE, locked |-> FALSE]
ByDigits  == [ByPayload EXCEPT !.uuid = "u2", !.payload = None, !.manual = "m2",
                               !.room = "", !.link = "http"]
Locked    == [ByDigits EXCEPT !.locked = TRUE]

Kept == {<<>>, <<ByPayload>>, <<ByPayload, ByDigits>>, <<ByPayload, Locked>>,
         <<ByPayload, ByDigits, [ByPayload EXCEPT !.uuid = "u3"]>>}
Exported == [name : {"House"}, client : {None, "Owner"}, devices : Kept]
Derived  == [p \in {"p1", "p2"} |-> IF p = "p1" THEN "m1" ELSE "m2"]

TrimmedHere(segment) == IF segment = " Hall" THEN "Hall" ELSE segment
FoldedHere(segment) == CASE segment = "hall" -> "HALL" [] segment = "Hall" -> "HALL"
                         [] segment = "Bad2" -> "Bad" [] OTHER -> segment
Shelves == {<<>>, <<"Bad">>, <<"Bad2">>, <<"Hall">>, <<"hall">>, <<"Hall", "Loft">>,
            <<"hall", "Loft">>, <<"Loft">>}
ThreeFiled == {<<[room |-> p, disabled |-> FALSE], [room |-> q, disabled |-> TRUE],
                 [room |-> r, disabled |-> FALSE]>> : p, q, r \in Shelves}
TypedIn == {<<" Hall">>, <<"hall", "Loft">>, <<"Hall", "Bad2">>, <<"Bad", "">>}

Home   == [db |-> "home", id |-> None, role |-> None]
Copies(p, roles) == {{}} \cup {{[db |-> p, id |-> p, role |-> role]} : role \in roles}
Rescued == {{}, {[db |-> "rescue", id |-> None, role |-> None]},
            {[db |-> "rescue", id |-> "p", role |-> None]}}
Listed(p, roles, states) ==
    {{}} \cup {{[id |-> p, role |-> role, archived |-> state \in {"archived", "grace"},
                readOnly |-> state = "locked", grace |-> state = "grace"]} :
                role \in roles, state \in states}

Pages == {[local |-> {Home} \cup rescued \cup p \cup q, server |-> server,
           stale |-> stale, session |-> session, online |-> TRUE, syncs |-> syncs, limit |-> limit] :
            rescued \in Rescued, p \in Copies("p", {None, "owner", "write"}),
            q \in Copies("q", {"owner"}), stale \in BOOLEAN,
            server \in {None} \cup {a \cup b :
               a \in Listed("p", {"owner", "write"}, {"active", "locked", "archived", "grace"}),
               b \in Listed("q", {"owner"}, {"active", "locked"})},
            session \in {"signed-in", "expired"}, syncs \in BOOLEAN, limit \in {-1, 1, 2}}

AlgorithmsInit ==
    /\ Init
    /\ \/ part = "merge" /\ s1 = None /\ s2 = None /\ s3 = None /\ s4 = None
       \/ part = "codes" /\ Code!Init
       \/ part = "archive" /\ Archive!Init
       \/ part = "rooms" /\ Rooms!Init /\ s4 = None
       \/ part = "rows" /\ Rowed!Init /\ s4 = None
       \/ part = "paper" /\ Paper!Init /\ s3 = None /\ s4 = None

AlgorithmsNext ==
    /\ UNCHANGED part
    /\ \/ part = "merge" /\ Next /\ UNCHANGED slots
       \/ part = "codes" /\ Code!Next /\ UNCHANGED vars
       \/ part = "archive" /\ Archive!Next /\ UNCHANGED vars
       \/ part = "rooms" /\ Rooms!Next /\ UNCHANGED <<vars, s4>>
       \/ part = "rows" /\ Rowed!Next /\ UNCHANGED <<vars, s4>>
       \/ part = "paper" /\ Paper!Next /\ UNCHANGED <<vars, s3, s4>>

AlgorithmsSpec == AlgorithmsInit /\ [][AlgorithmsNext]_<<vars, part, slots>>

\* What is written reads back: a label read aright is the device (credential.ts), an export
\* read with its password is the project (project-import.ts), a device is found in the room
\* that was typed (draft.ts), and after a rename in the room renamed to (list.ts).
WrittenReadsBack ==
    /\ part = "codes" => Code!ReadAsPrinted
    /\ part = "archive" => Archive!ExportsReadBack
    /\ part = "rooms" => Rooms!FiledWhereTyped /\ Rooms!RenamedAway

\* One of each: a device has one payload text (base38.ts, payload.ts), a room one group on every
\* replica with the rooms inside it behind it (list.ts, browse.ts), a project one row that
\* counts once (projects-model.ts), and a device one place on paper (layout.ts, labels.ts).
OneOfEach ==
    /\ part = "codes" => Code!OneTextPerDevice
    /\ part = "rooms" => Rooms!OneListForAll /\ Rooms!SubRoomsFollow
    /\ part = "rows" => Rowed!CountedOnce
    /\ part = "paper" => Paper!InventoryIsWhole /\ Paper!LabelsAreDistinct

\* One slip of a person who types digits is noticed (verhoeff.ts).
SlipsAreNoticed == part = "codes" => Code!SlipsAreNoticed

\* An archive damaged in its members or its end, or mixed with another, is refused, never half
\* read; a member gone from the list of files is not noticed (zip.ts, project-archive.ts).
DamageIsRefused == part = "archive" => Archive!DamageIsRefused
=============================================================================
