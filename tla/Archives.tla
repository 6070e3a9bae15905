------------------------------ MODULE Archives ------------------------------
(***************************************************************************)
(* A project as a file: what an export writes, what may become of the file *)
(* between, and what an import makes of it (domain/archive, ui/archive and *)
(* the import section of the projects page). Sizes count in units: a file  *)
(* is its list of members and the record at its end. Deflate, PBKDF2, AES  *)
(* and HMAC are external, and do what they promise.                        *)
(***************************************************************************)
EXTENDS Integers, Sequences, SequencesExt, FiniteSets

CONSTANTS
    Contents,       \* what the exported project may hold: [name, client, devices]
    ManualOf,       \* [payloads -> the manual code each derives]
    Rooms,          \* rooms that are paths; a device may carry something else
    Passwords,      \* what may be typed, "" for nothing
    LongEnough,     \* those of ARCHIVE_PASSWORD_MIN_LENGTH characters
    MaxEntries, MaxInflated, MaxBytes,
    None            \* no value

VARIABLES
    saved,      \* what the export was given: [content, key], None before it
    file,       \* the zip: [whole, members], None when there is none
    change,     \* what became of it since
    section     \* the import section: [reading, typed, asking, wrong, result, problem]

vars == <<saved, file, change, section>>

IMPORTED_ROOM   == "Imported"
ARCHIVE_VERSION == 1

Total(f, S) == FoldFunctionOnSet(+, 0, f, S)
-----------------------------------------------------------------------------
(* project-archive.ts: the files an archive is made of. *)

Manifest == [is |-> "manifest", version |-> ARCHIVE_VERSION]

ProjectFile(content) == [is |-> "project", name |-> content.name, client |-> content.client]

DeviceFile(device) == [is |-> "device", device |-> device]

ArchiveEntries(content) ==
    <<Manifest, ProjectFile(content)>>
    \o [i \in DOMAIN content.devices |-> DeviceFile(content.devices[i])]

SizeOf(data) == IF data.is = "device" THEN 2 ELSE 1

\* readDevice: the codes are derived again, a room that is no path becomes Imported,
\* and of the catalogue block only links over https are taken over.
ReadDevice(d) ==
    [d EXCEPT !.manual = IF d.payload = None THEN d.manual ELSE ManualOf[d.payload],
              !.room   = IF d.room \in Rooms THEN d.room ELSE IMPORTED_ROOM,
              !.link   = IF d.link = "https" THEN d.link ELSE None]

DeviceReads(d) ==
    /\ d.remarks
    /\ d.payload # None \/ d.manual # None
    /\ d.payload # None /\ d.manual # None => d.manual = ManualOf[d.payload]

\* The loop over the files: what is no device is passed over.
DevicesIn(data) ==
    FoldLeft(LAMBDA found, e : IF e.is = "device" THEN Append(found, e) ELSE found, <<>>, data)

Refiled(data) ==
    Cardinality({i \in DOMAIN DevicesIn(data) : DevicesIn(data)[i].device.room \notin Rooms})

\* readProjectArchive's refusals, in its order.
ArchiveProblem(data) ==
    LET named(is) == {i \in DOMAIN data : data[i].is = is}
        devices   == DevicesIn(data)
    IN  CASE named("manifest") = {} -> "notAProject"
          [] \E i \in named("manifest") : data[i].version > ARCHIVE_VERSION -> "newerVersion"
          [] named("project") = {} -> "notAProject"
          [] \E i \in DOMAIN devices : ~DeviceReads(devices[i].device) -> "badDevice"
          [] \E i, j \in DOMAIN devices :
                i # j /\ devices[i].device.uuid = devices[j].device.uuid -> "badDevice"
          [] OTHER -> "none"

ReadProjectArchive(data) ==
    LET project == data[CHOOSE i \in DOMAIN data : data[i].is = "project"] IN
    [name    |-> project.name,
     client  |-> project.client,
     devices |-> [i \in DOMAIN DevicesIn(data) |-> ReadDevice(DevicesIn(data)[i].device)],
     refiled |-> Refiled(data)]
-----------------------------------------------------------------------------
(* zip.ts and winzip-aes.ts: a member keeps its data, the password it is      *)
(* sealed under, what its checksum and authentication code were taken over,   *)
(* and what the list of files says of it.                                     *)

Overhead(key) == IF key = None THEN 0 ELSE 1

Member(data, deflates, key) ==
    [data |-> data, over |-> data, key |-> key, size |-> SizeOf(data), safe |-> TRUE,
     record |-> TRUE, head |-> TRUE,
     length |-> (IF deflates THEN 1 ELSE SizeOf(data)) + Overhead(key)]

WriteZip(data, deflates, key) ==
    [whole |-> TRUE, members |-> [i \in DOMAIN data |-> Member(data[i], deflates, key)]]

DataOf(f)   == [i \in DOMAIN f.members |-> f.members[i].data]
Bytes(f)    == Total([i \in DOMAIN f.members |-> f.members[i].length], DOMAIN f.members)
Declared(f) == Total([i \in DOMAIN f.members |-> f.members[i].size], DOMAIN f.members)

\* What the list of files alone is refused for, before anything is opened.
ListProblem(f, password) ==
    LET sealed == {i \in DOMAIN f.members : f.members[i].key # None} IN
    CASE Bytes(f) > MaxBytes -> "tooLarge"
      [] ~f.whole -> "notAZip"
      [] Len(f.members) > MaxEntries -> "tooLarge"
      [] \E i \in DOMAIN f.members : ~f.members[i].safe -> "unsupported"
      [] Declared(f) > MaxInflated -> "tooLarge"
      [] \E i \in DOMAIN f.members : ~f.members[i].record -> "corrupt"
      [] sealed # {} /\ sealed # DOMAIN f.members -> "unsupported"
      [] sealed # {} /\ password \in {None, ""} -> "needsPassword"
      [] OTHER -> "none"

\* Mutant: a sealed member has no checksum, and its code is not looked at.
MemberProblemUnauthenticated(m, password, chance) ==
    CASE m.key # None /\ (m.key # password \/ ~m.head) /\ ~chance -> "wrongPassword"
      [] m.key = None /\ m.data # m.over -> "corrupt"
      [] SizeOf(m.data) # m.size -> "corrupt"
      [] OTHER -> "none"

\* openAes and the checksum: the verifier of two bytes tells most wrong passwords, by
\* chance not all, and the authentication code the others and any change.
MemberProblem(m, password, chance) ==
    CASE m.key # None /\ (m.key # password \/ ~m.head) /\ ~chance -> "wrongPassword"
      [] m.key # None /\ (m.key # password \/ ~m.head) /\ chance -> "corrupt"
      [] m.data # m.over -> "corrupt"
      [] SizeOf(m.data) # m.size -> "corrupt"
      [] OTHER -> "none"

\* The refusals of readZip: the list's, then the first of a member's.
ZipProblem(f, password, chance) ==
    LET bad == {i \in DOMAIN f.members :
                   MemberProblem(f.members[i], password, chance) # "none"}
    IN  IF ListProblem(f, password) # "none" THEN ListProblem(f, password)
        ELSE IF bad # {} THEN MemberProblem(f.members[Min(bad)], password, chance)
        ELSE "none"
-----------------------------------------------------------------------------
(* project-export.ts and the export dialog *)

Init ==
    /\ saved = None /\ file = None /\ change = "none"
    /\ section = [reading |-> FALSE, typed |-> None, asking |-> FALSE, wrong |-> FALSE,
                  result |-> None, problem |-> "none"]

\* passwordProblem: the dialog's button is off while there is one.
Acceptable(password, confirmation) == password \in LongEnough /\ confirmation = password

\* Mutant: the limits are checked before the file is zipped only.
WithinLimitsUnzipped(f) == Len(f.members) <= MaxEntries /\ Declared(f) <= MaxInflated

WithinLimits(f) ==
    /\ Len(f.members) <= MaxEntries
    /\ Declared(f) <= MaxInflated
    /\ Bytes(f) <= MaxBytes

\* Nothing is exported while a device is locked, nor what no import would read.
Export(content, protect, password, confirmation, deflates) ==
    LET key == IF protect THEN password ELSE None
        zip == WriteZip(ArchiveEntries(content), deflates, key)
    IN  /\ saved = None
        /\ protect => Acceptable(password, confirmation)
        /\ \A i \in DOMAIN content.devices : ~content.devices[i].locked
        /\ WithinLimits(zip)
        /\ saved' = [content |-> content, key |-> key]
        /\ file' = zip
        /\ UNCHANGED <<change, section>>
-----------------------------------------------------------------------------
(* What becomes of the file: damage on the way, or a person with a zip tool,  *)
(* who can rewrite a plain archive but not a sealed one.                      *)

Changes(kind, f) ==
    /\ file # None /\ change = "none" /\ ~section.reading
    /\ section.result = None /\ section.problem = "none"
    /\ file' = f
    /\ change' = kind
    /\ UNCHANGED <<saved, section>>

At(i, m) == [file EXCEPT !.members[i] = m]

\* The end is missing, or a member's data, its record, its declared size, the salt
\* that a password is checked with.
Damage ==
    \/ Changes("damaged", [file EXCEPT !.whole = FALSE])
    \/ \E i \in DOMAIN file.members :
          LET m == file.members[i] IN
          \/ Changes("damaged", At(i, [m EXCEPT !.record = FALSE]))
          \/ Changes("damaged", At(i, [m EXCEPT !.size = @ + 1]))
          \/ /\ m.key # None
             /\ Changes("damaged", At(i, [m EXCEPT !.head = FALSE]))
          \/ /\ m.data.is = "device"
             /\ \E r \in Rooms \ {m.data.device.room} :
                   Changes("damaged", At(i, [m EXCEPT !.data.device.room = r]))

\* A file is put into a sealed zip without the password.
Mix ==
    /\ file # None /\ saved.key # None
    /\ \E i \in DOMAIN file.members :
          Changes("mixed", At(i, Member(file.members[i].data, FALSE, None)))

\* A member is gone from the list of files, which nothing is taken over.
Leave ==
    \E i \in DOMAIN file.members : Changes("list", [file EXCEPT !.members = RemoveAt(@, i)])

\* What an editor may make of a device: another manual code, no code, remarks that are none.
EditsOf(d) ==
    {[d EXCEPT !.manual = ManualOf[p]] : p \in DOMAIN ManualOf} \cup
    {[d EXCEPT !.payload = None, !.manual = None], [d EXCEPT !.remarks = FALSE]}

\* A plain archive is rewritten: another version, another device, a device twice, a
\* name that leads out of the archive.
Rewrite ==
    /\ file # None /\ saved.key = None
    /\ \E i \in DOMAIN file.members :
          LET m == file.members[i] IN
          \/ /\ m.data.is = "manifest"
             /\ Changes("edited", At(i, Member([m.data EXCEPT !.version = 2], TRUE, None)))
          \/ /\ m.data.is = "device"
             /\ \/ \E d \in EditsOf(m.data.device) \ {m.data.device} :
                      Changes("edited", At(i, Member(DeviceFile(d), TRUE, None)))
                \/ Changes("edited", [file EXCEPT !.members = Append(@, m)])
          \/ Changes("edited", At(i, [m EXCEPT !.safe = FALSE]))
-----------------------------------------------------------------------------
(* project-import.ts: a file is chosen, read, and asked a password for. *)

\* attempt begins: what the last one said is gone.
Attempt(password) ==
    /\ section' = [section EXCEPT !.reading = TRUE, !.typed = password,
                                  !.result = None, !.problem = "none"]
    /\ UNCHANGED <<saved, file, change>>

Choose ==
    /\ file # None
    /\ ~section.reading /\ ~section.asking
    /\ section.result = None /\ section.problem = "none"
    /\ Attempt(None)

Submit(password) ==
    /\ section.asking /\ ~section.reading
    /\ password # ""
    /\ Attempt(password)

\* The prompt can be closed while nothing is read.
Cancel ==
    /\ section.asking /\ ~section.reading
    /\ section' = [section EXCEPT !.asking = FALSE, !.wrong = FALSE]
    /\ UNCHANGED <<saved, file, change>>

Asks(problem) ==
    section' = [section EXCEPT !.reading = FALSE, !.asking = TRUE,
                               !.wrong = problem = "wrongPassword"]

Ends(result, problem) ==
    section' = [section EXCEPT !.reading = FALSE, !.asking = FALSE, !.wrong = FALSE,
                               !.result = result, !.problem = problem]

\* importProjectFile answers: a new project, a question for the password, or a refusal
\* that leaves nothing behind.
Import(chance) ==
    LET zip     == ZipProblem(file, section.typed, chance)
        archive == ArchiveProblem(DataOf(file))
    IN  /\ section.reading
        /\ CASE zip \in {"needsPassword", "wrongPassword"} -> Asks(zip)
             [] zip \notin {"none", "needsPassword", "wrongPassword"} -> Ends(None, zip)
             [] zip = "none" /\ archive # "none" -> Ends(None, archive)
             [] zip = "none" /\ archive = "none" -> Ends(ReadProjectArchive(DataOf(file)), "none")
        /\ UNCHANGED <<saved, file, change>>

Next ==
    \/ \E content \in Contents, protect, deflates \in BOOLEAN, p, c \in Passwords :
          Export(content, protect, p, c, deflates)
    \/ file # None /\ (Damage \/ Mix \/ Leave \/ Rewrite)
    \/ Choose \/ Cancel
    \/ \E p \in Passwords : Submit(p)
    \/ \E chance \in BOOLEAN : Import(chance)

Spec == Init /\ [][Next]_vars
-----------------------------------------------------------------------------
\* What an export wrote an import takes, whole: every device with its codes, and the
\* limits of the two are the same. The right password opens it, and no other.
ExportsReadBack ==
    change = "none" /\ saved # None =>
        /\ section.result # None =>
              /\ section.result = ReadProjectArchive(ArchiveEntries(saved.content))
              /\ saved.key \in {None, section.typed}
        /\ section.problem # "none" => saved.key # None /\ section.typed \notin {None, saved.key}
        /\ section.asking => saved.key # None

\* A file that was damaged, or that another file was put into, is refused: it never
\* becomes a project with part of what was exported, or with anything else. One whose list of
\* files lost a member, or that was edited, is taken only if its devices hold together.
DamageIsRefused ==
    section.result # None =>
        /\ change \notin {"damaged", "mixed"}
        /\ \A i, j \in DOMAIN section.result.devices :
              LET d == section.result.devices[i] IN
              /\ d.uuid = section.result.devices[j].uuid => i = j
              /\ d.room \in Rooms \cup {IMPORTED_ROOM}
              /\ d.payload # None => /\ d.manual = ManualOf[d.payload]
                                     /\ d.manual \in {file.members[k].data.device.manual :
                                           k \in {k \in DOMAIN file.members :
                                                     file.members[k].data.is = "device"}}
-----------------------------------------------------------------------------
(* The inductive invariant, in named parts: what every file is made of, what  *)
(* is the matter with one that was damaged or mixed, and that an import       *)
(* answered is the import of the file that is there.                          *)

DeviceShape(d) ==
    /\ DOMAIN d = {"uuid", "payload", "manual", "room", "link", "remarks", "locked"}
    /\ d.payload # None => d.manual # None

DataShape(data) ==
    /\ data.is \in {"manifest", "project", "device"}
    /\ data.is = "manifest" => DOMAIN data = {"is", "version"}
    /\ data.is = "device" => DOMAIN data = {"is", "device"} /\ DeviceShape(data.device)

MemberShape(m) ==
    /\ DOMAIN m = {"data", "over", "key", "size", "safe", "record", "head", "length"}
    /\ DataShape(m.data)

FileShape(f) ==
    /\ DOMAIN f = {"whole", "members"}
    /\ f.members \in Seq({f.members[i] : i \in DOMAIN f.members})
    /\ \A i \in DOMAIN f.members : MemberShape(f.members[i])

SectionShape ==
    /\ DOMAIN section = {"reading", "typed", "asking", "wrong", "result", "problem"}
    /\ section.reading \in BOOLEAN /\ section.asking \in BOOLEAN

\* Nothing was exported, or it is there as it was written until something became of it.
Exported ==
    IF saved = None
    THEN /\ file = None /\ change = "none"
         /\ ~section.reading /\ ~section.asking
         /\ section.result = None /\ section.problem = "none"
    ELSE /\ saved.content \in Contents /\ saved.key \in LongEnough \cup {None}
         /\ FileShape(file)
         /\ change = "none" =>
               /\ WithinLimits(file)
               /\ \E deflates \in BOOLEAN :
                     file = WriteZip(ArchiveEntries(saved.content), deflates, saved.key)

\* A member is not what its own record, checksum, code or salt say.
Broken(f) ==
    \/ ~f.whole
    \/ \E i \in DOMAIN f.members :
          LET m == f.members[i] IN
          ~m.record \/ m.size # SizeOf(m.data) \/ m.data # m.over \/ (m.key # None /\ ~m.head)

HalfSealed(f) == \E i, j \in DOMAIN f.members : f.members[i].key = None /\ f.members[j].key # None

\* No damage goes unseen, and a new project is what the file says and nothing refuses.
Answered ==
    /\ change = "damaged" => Broken(file)
    /\ change = "mixed" => HalfSealed(file)
    /\ section.reading \/ section.asking => section.result = None
    /\ section.result # None =>
          /\ \E chance \in BOOLEAN : ZipProblem(file, section.typed, chance) = "none"
          /\ ArchiveProblem(DataOf(file)) = "none"
          /\ section.result = ReadProjectArchive(DataOf(file))

IndInv == SectionShape /\ Exported /\ Answered /\ ExportsReadBack
=============================================================================
