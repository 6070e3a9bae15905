----------------------------- MODULE PaperLayout -----------------------------
(***************************************************************************)
(* Where the devices of a project go on paper: the pages of the inventory  *)
(* (domain/pdf/layout.ts) and the sheets of labels (domain/pdf/labels.ts). *)
(* A job is a list of rooms, each with its devices, or a list of devices   *)
(* for a sheet of which some labels are used. Lengths are in any unit.     *)
(***************************************************************************)
EXTENDS Integers, SequencesExt

CONSTANTS Inventories,   \* [groups, geometry]
          LabelJobs,     \* [subjects, stock, start]
          None

VARIABLES job, pages
-----------------------------------------------------------------------------
(* The inventory. *)

Usable(geometry) == geometry.height - 2 * geometry.margin - geometry.footerHeight

\* Each device, with its room and whether it is the first of it.
Lines(groups) ==
    FlattenSeq([g \in DOMAIN groups |->
        [n \in DOMAIN groups[g].devices |->
            [path |-> groups[g].path, device |-> groups[g].devices[n], starting |-> n = 1]]])

HeadingBlock(path, top, continued) ==
    [kind |-> "heading", path |-> path, top |-> top, continued |-> continued, device |-> None]
EntryBlock(path, top, device) ==
    [kind |-> "entry", path |-> path, top |-> top, continued |-> FALSE, device |-> device]

\* The heading and its first device are placed together, and a room that goes on on another
\* page has its heading again.
Placed(line, laid, geometry) ==
    LET needed == geometry.entryHeight + (IF line.starting THEN geometry.headingHeight ELSE 0)
        turned == laid.cursor + needed > Usable(geometry) /\ Last(laid.pages) # <<>>
        before == IF turned THEN Append(laid.pages, <<>>) ELSE laid.pages
        top == IF turned THEN 0 ELSE laid.cursor
        heading == line.starting \/ turned
        below == IF heading THEN top + geometry.headingHeight ELSE top
        blocks == (IF heading THEN <<HeadingBlock(line.path, top, ~line.starting)>> ELSE <<>>)
                  \o <<EntryBlock(line.path, below, line.device)>>
    IN [pages |-> [before EXCEPT ![Len(before)] = @ \o blocks],
        cursor |-> below + geometry.entryHeight]

LayoutInventory(groups, geometry) ==
    FoldLeft(LAMBDA laid, line : Placed(line, laid, geometry),
             [pages |-> <<<<>>>>, cursor |-> 0], Lines(groups)).pages
-----------------------------------------------------------------------------
(* Labels. *)

\* A number that is none counts as the first.
Clamp(value, max) == IF value = None \/ value < 1 THEN 1 ELSE IF value > max THEN max ELSE value

Skipped(stock, start) ==
    (Clamp(start.row, stock.rows) - 1) * stock.columns + Clamp(start.column, stock.columns) - 1

\* The labels used count once, on the first sheet.
LayoutLabels(subjects, stock, start) ==
    LET perSheet == stock.columns * stock.rows
        Position(i) == i - 1 + Skipped(stock, start)
        Label(i) == [device |-> subjects[i],
                     x |-> stock.left + ((Position(i) % perSheet) % stock.columns) * stock.pitchX,
                     y |-> stock.top + ((Position(i) % perSheet) \div stock.columns) * stock.pitchY]
        On(sheet) == SelectSeq([i \in DOMAIN subjects |-> i], LAMBDA i : Position(i) \div perSheet = sheet)
    IN IF subjects = <<>> THEN <<>>
       ELSE [sheet \in 1..(Position(Len(subjects)) \div perSheet + 1) |->
               [k \in DOMAIN On(sheet - 1) |-> Label(On(sheet - 1)[k])]]
-----------------------------------------------------------------------------
Init == job \in Inventories \cup LabelJobs /\ pages = None

PrintsInventory ==
    /\ job \in Inventories /\ pages' = LayoutInventory(job.groups, job.geometry)

PrintsLabels ==
    /\ job \in LabelJobs /\ pages' = LayoutLabels(job.subjects, job.stock, job.start)

Next == pages = None /\ UNCHANGED job /\ (PrintsInventory \/ PrintsLabels)
-----------------------------------------------------------------------------
Height(block) == IF block.kind = "heading" THEN job.geometry.headingHeight ELSE job.geometry.entryHeight

\* Each device is printed once, in the order of the list, under the name of its room, which is
\* said to go on where it does; a heading is never the last of its page, nothing lies over
\* another or over the foot of a page, and a page is left only when it is full (layout.ts 4-9).
InventoryIsWhole ==
    pages # None /\ job \in Inventories =>
      LET lines == Lines(job.groups)
          Entries == SelectSeq(FlattenSeq(pages), LAMBDA b : b.kind = "entry")
          \* the room is named above, with entries of it alone in between
          Named(page, i) == \E h \in 1..i : /\ page[h].kind = "heading" /\ page[h].path = page[i].path
                                            /\ \A k \in (h + 1)..i : page[k].kind = "entry"
          Fresh(p, i) == \A q \in 1..p : \A k \in DOMAIN pages[q] :
                            (q < p \/ k < i) => pages[q][k].path # pages[p][i].path
      IN /\ Len(Entries) = Len(lines)
         /\ \A i \in DOMAIN lines : Entries[i].device = lines[i].device /\ Entries[i].path = lines[i].path
         /\ \A p \in DOMAIN pages : \A i \in DOMAIN pages[p] :
              LET page == pages[p]
                  block == page[i]
              IN /\ block.kind = "heading" => i < Len(page) /\ (block.continued <=> ~Fresh(p, i))
                 /\ Named(page, i)
                 /\ block.top = (IF i = 1 THEN 0 ELSE page[i - 1].top + Height(page[i - 1]))
                 /\ block.top + Height(block) <= Usable(job.geometry)
         /\ \A p \in 2..Len(pages) :
              LET foot == Last(pages[p - 1])
                  next == job.geometry.entryHeight
                          + (IF pages[p][1].continued THEN 0 ELSE job.geometry.headingHeight)
              IN foot.top + Height(foot) + next > Usable(job.geometry)

\* Each device has a label of its own, none of them where one is used already, and nothing of
\* a sheet is wasted: only the last is not full (labels.ts 199-228).
LabelsAreDistinct ==
    pages # None /\ job \in LabelJobs =>
      LET stock == job.stock
          Cells == {[x |-> stock.left + c * stock.pitchX, y |-> stock.top + r * stock.pitchY] :
                      c \in 0..(stock.columns - 1), r \in 0..(stock.rows - 1)}
          At(label) == [x |-> label.x, y |-> label.y]
          Begun == {cell \in Cells :
                      LET row == Clamp(job.start.row, stock.rows) - 1
                          column == Clamp(job.start.column, stock.columns) - 1
                      IN \/ cell.y < stock.top + row * stock.pitchY
                         \/ /\ cell.y = stock.top + row * stock.pitchY
                            /\ cell.x < stock.left + column * stock.pitchX}
          Free(p) == IF p = 1 THEN Cells \ Begun ELSE Cells
          Used(p) == {At(pages[p][i]) : i \in DOMAIN pages[p]}
      IN /\ FlattenSeq([p \in DOMAIN pages |-> [i \in DOMAIN pages[p] |-> pages[p][i].device]])
              = job.subjects
         /\ \A p \in DOMAIN pages :
              /\ pages[p] # <<>> /\ Used(p) \subseteq Free(p)
              /\ \A i, j \in DOMAIN pages[p] : i # j => At(pages[p][i]) # At(pages[p][j])
              /\ p < Len(pages) => Used(p) = Free(p)
=============================================================================
