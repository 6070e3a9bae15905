----------------------------- MODULE ScanDialog -----------------------------
(***************************************************************************)
(* The dialog that reads a code from the camera or from an image           *)
(* (ui/views/scan-dialog.ts). Opening the camera may take as long as the   *)
(* reader thinks about a permission prompt, and reading a frame or an      *)
(* image takes a while, so each answers to a dialog that may have been     *)
(* closed, reopened or taken off the page. What it says went wrong is left *)
(* out.                                                                    *)
(***************************************************************************)
EXTENDS Integers, FiniteSets

CONSTANTS MaxOpens,   \* bound: times the dialog is opened
          None

VARIABLES
    open,       \* whether the form shows the dialog
    mounted,    \* whether the form is on the page
    prompts,    \* the calls of open() under way
    live,       \* the streams granted and not closed
    stream,     \* the stream the dialog holds, or None
    scanning,   \* whether frames are read
    frame,      \* whether a frame is being read
    images,     \* how many images are being read
    scans,      \* history: the openings in which a code was handed to the form
    opens       \* how many times it was opened

scan_vars == <<open, mounted, prompts, live, stream, scanning, frame, images, scans, opens>>

Init ==
    /\ open = FALSE /\ mounted = TRUE /\ prompts = {} /\ live = {} /\ stream = None
    /\ scanning = FALSE /\ frame = FALSE /\ images = 0 /\ scans = {} /\ opens = 0
-----------------------------------------------------------------------------
\* stop(): the stream held is closed.
Stop == stream' = None /\ scanning' = FALSE /\ live' = live \ {stream}

\* willUpdate(), updated(): a camera is asked for, unless one is being read already.
Opens ==
    /\ opens < MaxOpens /\ mounted /\ ~open
    /\ open' = TRUE /\ opens' = opens + 1
    /\ prompts' = IF scanning THEN prompts ELSE prompts \cup {opens'}
    /\ UNCHANGED <<mounted, live, stream, scanning, frame, images, scans>>

Closes ==
    /\ open /\ mounted /\ open' = FALSE /\ Stop
    /\ UNCHANGED <<mounted, prompts, frame, images, scans, opens>>

\* disconnectedCallback(): what was asked for goes on.
Leaves ==
    /\ mounted /\ mounted' = FALSE /\ Stop
    /\ UNCHANGED <<open, prompts, frame, images, scans, opens>>

\* Mutant: the dialog is not looked at again.
WantedAnyway == TRUE

\* start(), after the prompt.
Wanted == open

Granted ==
    \E s \in prompts :
      /\ prompts' = prompts \ {s}
      /\ IF Wanted THEN stream' = s /\ scanning' = TRUE /\ live' = live \cup {s}
         ELSE UNCHANGED <<stream, scanning, live>>
      /\ UNCHANGED <<open, mounted, frame, images, scans, opens>>

Denied ==
    \E s \in prompts :
      /\ prompts' = prompts \ {s}
      /\ UNCHANGED <<open, mounted, live, stream, scanning, frame, images, scans, opens>>
-----------------------------------------------------------------------------
\* accept(), of a code that can be read: the camera is released before anyone is told.
Accept == Stop /\ open' = FALSE /\ scans' = scans \cup {opens}

\* loop(), readFrame().
FrameBegins ==
    /\ scanning /\ ~frame /\ frame' = TRUE
    /\ UNCHANGED <<open, mounted, prompts, live, stream, scanning, images, scans, opens>>

\* A frame read after the dialog has stopped counts for nothing.
FrameRead ==
    /\ frame /\ frame' = FALSE
    /\ \/ UNCHANGED <<open, live, stream, scanning, scans>>
       \/ scanning /\ Accept
    /\ UNCHANGED <<mounted, prompts, images, opens>>

\* onUpload().
ImageChosen ==
    /\ open /\ mounted /\ images < MaxOpens /\ images' = images + 1
    /\ UNCHANGED <<open, mounted, prompts, live, stream, scanning, frame, scans, opens>>

ImageRead ==
    /\ images > 0 /\ images' = images - 1
    /\ \/ Accept
       \/ UNCHANGED <<open, live, stream, scanning, scans>>
    /\ UNCHANGED <<mounted, prompts, frame, opens>>
-----------------------------------------------------------------------------
Next ==
    \/ Opens \/ Closes \/ Leaves \/ Granted \/ Denied
    \/ FrameBegins \/ FrameRead \/ ImageChosen \/ ImageRead

Spec == Init /\ [][Next]_scan_vars
-----------------------------------------------------------------------------
ScanDialogTypeOK ==
    /\ open \in BOOLEAN /\ mounted \in BOOLEAN /\ prompts \subseteq 1..MaxOpens /\ live \subseteq 1..MaxOpens
    /\ stream \in live \cup {None} /\ opens \in 0..MaxOpens /\ images \in 0..MaxOpens
    /\ scanning <=> stream # None

\* However long a permission prompt stays up, the dialog reads frames only while it is open
\* (scan-dialog.ts 121-160): a camera granted after it was closed is given back.
ReadsWhileOpen == scanning => open

\* "Without this the camera is opened after the user has left, and stays open"
\* (scan-dialog.ts 132-134): no camera is on that the dialog does not hold.
\* Meant, and not kept: the README says how the code breaks it.
CameraIsOff == live \subseteq {stream}
=============================================================================
