---------------------------- MODULE SignInDialog ----------------------------
(***************************************************************************)
(* The shell's sign-in dialog (ui/app-shell.ts, ui/sign-in-dialog.ts): the *)
(* chooser, the address, the code, the passkey, and the answers that come  *)
(* back after the reader has gone on, back or away. What a sign-in does to *)
(* the tokens is Session's.                                                *)
(***************************************************************************)
EXTENDS Integers, Sequences

CONSTANTS Emails,      \* the addresses a reader may type
          MaxAttempts, \* bound: closings and steps back
          MaxCodes,    \* bound: codes the server mails
          None

Methods == {"google", "github", "email", "passkey"}
StartKinds == {"challenge", "refused", "throttled", "unavailable", "unreachable"}
VerifyKinds == {"signed-in", "failed", "unreachable"}
PasskeyKinds == {"signed-in", "dismissed", "failed", "unavailable", "unreachable"}

\* What a deployment can serve; this browser can run the passkey ceremony.
Deployments == {{"google"}, Methods}

VARIABLES
    dialog,      \* None, or the step shown: [step, offers, email, busy, wait]
    notice,      \* what the status line is about
    attempt,     \* how often the dialog was closed or a step undone
    challenge,   \* the challenge a typed code is for: [id, email]
    sending, verifying, passkey,  \* the request of each kind under way: [attempt, ...]
    heard,       \* the methods the deployment named
    loading,     \* whether they are being read
    emailUnavailable,
    codes,       \* the address of every code mailed
    session,     \* whether the shell is signed in
    adopted      \* history: sign-ins completed

dialog_vars == <<dialog, notice, attempt, challenge, sending, verifying, passkey, heard,
                 loading, emailUnavailable, codes, session, adopted>>
requests == <<sending, verifying, passkey>>
deployment == <<heard, loading, emailUnavailable>>
-----------------------------------------------------------------------------
\* chooserStep(): what was heard, or what has always been there.
Offers(methods, unavailable) ==
    {m \in Methods :
       CASE m = "google" -> IF methods = None THEN TRUE ELSE m \in methods
         [] m \in {"github", "passkey"} -> methods # None /\ m \in methods
         [] m = "email" -> (IF methods = None THEN TRUE ELSE m \in methods) /\ ~unavailable}

Step(name, email, busy) ==
    [step |-> name, offers |-> {}, email |-> email, busy |-> busy, wait |-> FALSE]
Chooser(methods, unavailable) ==
    [Step("chooser", None, FALSE) EXCEPT !.offers = Offers(methods, unavailable)]
ChooserStep == Chooser(heard, emailUnavailable)
CodeStep(email) == [Step("code", email, FALSE) EXCEPT !.wait = TRUE]

At(name) == dialog # None /\ dialog.step = name
Visible == dialog # None /\ ~session
Idle(busy) == IF dialog = None THEN dialog ELSE [dialog EXCEPT !.busy = busy]

Init ==
    /\ dialog = None /\ notice = "none" /\ attempt = 0 /\ challenge = None
    /\ sending = None /\ verifying = None /\ passkey = None
    /\ heard = None /\ loading = FALSE /\ emailUnavailable = FALSE
    /\ codes = <<>> /\ session = FALSE /\ adopted = 0
-----------------------------------------------------------------------------
(* The reader. *)

\* "Sign in": the chooser at once, and one read of the deployment's methods.
Opens ==
    /\ dialog = None /\ ~session
    /\ dialog' = ChooserStep /\ notice' = "none" /\ loading' = TRUE
    /\ UNCHANGED <<attempt, challenge, requests, heard, emailUnavailable, codes, session, adopted>>

MethodsRead ==
    /\ loading /\ loading' = FALSE
    /\ \E methods \in Deployments \cup {None} :
         IF methods = None THEN UNCHANGED <<heard, dialog>>
         ELSE /\ heard' = methods
              /\ dialog' = IF At("chooser") THEN Chooser(methods, emailUnavailable) ELSE dialog
    /\ UNCHANGED <<notice, attempt, challenge, requests, emailUnavailable, codes, session, adopted>>

\* closeSignIn(), which a redirect does first too.
Closed ==
    /\ attempt' = attempt + 1 /\ dialog' = None /\ notice' = "none" /\ challenge' = None

Closes ==
    /\ Visible /\ attempt < MaxAttempts /\ Closed
    /\ UNCHANGED <<requests, deployment, codes, session, adopted>>

Back ==
    /\ Visible /\ dialog.step \in {"email", "code"} /\ attempt < MaxAttempts
    /\ attempt' = attempt + 1 /\ dialog' = ChooserStep /\ notice' = "none" /\ challenge' = None
    /\ UNCHANGED <<requests, deployment, codes, session, adopted>>

Email ==
    /\ Visible /\ At("chooser") /\ "email" \in dialog.offers
    /\ dialog' = Step("email", None, FALSE) /\ notice' = "none"
    /\ UNCHANGED <<attempt, challenge, requests, deployment, codes, session, adopted>>

\* A code is asked for: for an address typed, or again once the cooldown is over.
Sends(email) ==
    /\ Visible /\ sending = None
    /\ \/ At("email") /\ ~dialog.busy
       \/ At("code") /\ ~dialog.wait /\ email = challenge.email
    /\ dialog' = IF At("email") THEN Idle(TRUE) ELSE dialog
    /\ sending' = [email |-> email, attempt |-> attempt, kind |-> None, id |-> 0]
    /\ UNCHANGED <<notice, attempt, challenge, verifying, passkey, deployment, codes, session, adopted>>

\* The resend cooldown runs out.
Waits ==
    /\ At("code") /\ dialog.wait /\ dialog' = [dialog EXCEPT !.wait = FALSE]
    /\ UNCHANGED <<notice, attempt, challenge, requests, deployment, codes, session, adopted>>

\* A code is typed. One that is not six digits is not sent.
Verifies ==
    /\ Visible /\ At("code") /\ challenge # None /\ verifying = None
    /\ \/ /\ notice' = "verify" /\ UNCHANGED <<dialog, verifying>>
       \/ /\ dialog' = Idle(TRUE) /\ UNCHANGED notice
          /\ verifying' = [challenge |-> challenge, attempt |-> attempt, kind |-> None]
    /\ UNCHANGED <<attempt, challenge, sending, passkey, deployment, codes, session, adopted>>

Passkey ==
    /\ Visible /\ At("chooser") /\ "passkey" \in dialog.offers /\ passkey = None
    /\ passkey' = [attempt |-> attempt, kind |-> None] /\ notice' = "none"
    /\ UNCHANGED <<dialog, attempt, challenge, sending, verifying, deployment, codes, session, adopted>>
-----------------------------------------------------------------------------
(* The server. A code is mailed when the request arrives; its answer comes later. *)

Mails ==
    /\ sending # None /\ sending.kind = None
    /\ \E kind \in StartKinds :
         /\ kind = "challenge" => Len(codes) < MaxCodes
         /\ sending' = [sending EXCEPT !.kind = kind,
                                       !.id = IF kind = "challenge" THEN Len(codes) + 1 ELSE 0]
         /\ codes' = IF kind = "challenge" THEN Append(codes, sending.email) ELSE codes
    /\ UNCHANGED <<dialog, notice, attempt, challenge, verifying, passkey, deployment, session, adopted>>

Checks ==
    /\ verifying # None /\ verifying.kind = None
    /\ \E kind \in VerifyKinds : verifying' = [verifying EXCEPT !.kind = kind]
    /\ UNCHANGED <<dialog, notice, attempt, challenge, sending, passkey, deployment, codes, session, adopted>>

Asserts ==
    /\ passkey # None /\ passkey.kind = None
    /\ \E kind \in PasskeyKinds : passkey' = [passkey EXCEPT !.kind = kind]
    /\ UNCHANGED <<dialog, notice, attempt, challenge, sending, verifying, deployment, codes, session, adopted>>
-----------------------------------------------------------------------------
(* The answers. *)

AfterSend == IF At("code") THEN Idle(FALSE) ELSE Step("email", None, FALSE)

\* Mutant: whoever asked, the answer is shown.
SentToAnyone ==
    /\ sending # None /\ sending.kind # None /\ sending' = None
    /\ CASE sending.kind = "challenge" ->
              /\ challenge' = [id |-> sending.id, email |-> sending.email]
              /\ dialog' = CodeStep(sending.email) /\ notice' = "none"
              /\ UNCHANGED emailUnavailable
         [] sending.kind = "unavailable" ->
              /\ emailUnavailable' = TRUE /\ notice' = "send"
              /\ dialog' = Chooser(heard, emailUnavailable') /\ UNCHANGED challenge
         [] OTHER ->
              /\ notice' = "send" /\ dialog' = AfterSend
              /\ UNCHANGED <<challenge, emailUnavailable>>
    /\ UNCHANGED <<attempt, verifying, passkey, heard, loading, codes, session, adopted>>

\* Nothing, when the reader has closed the dialog or stepped back since.
Sent ==
    /\ sending # None /\ sending.kind # None /\ sending' = None
    /\ IF sending.attempt # attempt THEN UNCHANGED <<challenge, dialog, notice, emailUnavailable>>
       ELSE CASE sending.kind = "challenge" ->
                   /\ challenge' = [id |-> sending.id, email |-> sending.email]
                   /\ dialog' = CodeStep(sending.email) /\ notice' = "none"
                   /\ UNCHANGED emailUnavailable
              [] sending.kind = "unavailable" ->
                   /\ emailUnavailable' = TRUE /\ notice' = "send"
                   /\ dialog' = Chooser(heard, emailUnavailable') /\ UNCHANGED challenge
              [] OTHER ->
                   /\ notice' = "send" /\ dialog' = AfterSend
                   /\ UNCHANGED <<challenge, emailUnavailable>>
    /\ UNCHANGED <<attempt, verifying, passkey, heard, loading, codes, session, adopted>>

\* commitSignIn(): the tokens are held, so the sign-in counts whether or not the dialog
\* is still the one that asked. Only its own dialog is closed.
Committed(asked) ==
    /\ session' = TRUE /\ adopted' = adopted + 1
    /\ IF asked = attempt THEN Closed ELSE UNCHANGED <<dialog, notice, attempt, challenge>>

Verified ==
    /\ verifying # None /\ verifying.kind # None /\ verifying' = None
    /\ IF verifying.kind = "signed-in" THEN Committed(verifying.attempt)
       ELSE /\ IF verifying.attempt # attempt THEN UNCHANGED <<dialog, notice>>
               ELSE notice' = "verify" /\ dialog' = IF At("code") THEN Idle(FALSE) ELSE dialog
            /\ UNCHANGED <<attempt, challenge, session, adopted>>
    /\ UNCHANGED <<sending, passkey, deployment, codes>>

Asserted ==
    /\ passkey # None /\ passkey.kind # None /\ passkey' = None
    /\ IF passkey.kind = "signed-in" THEN Committed(passkey.attempt)
       ELSE /\ notice' = IF passkey.attempt = attempt /\ At("chooser") /\ passkey.kind # "dismissed"
                         THEN "passkey" ELSE notice
            /\ UNCHANGED <<dialog, attempt, challenge, session, adopted>>
    /\ UNCHANGED <<sending, verifying, deployment, codes>>

\* The session ends by itself, or is resumed without the dialog.
SessionTurns ==
    /\ adopted > 0 \/ dialog # None
    /\ adopted < MaxAttempts + 1 /\ session' = ~session /\ adopted' = adopted + 1
    /\ UNCHANGED <<dialog, notice, attempt, challenge, requests, deployment, codes>>
-----------------------------------------------------------------------------
Next ==
    \/ Opens \/ MethodsRead \/ Closes \/ Back \/ Email
    \/ \E email \in Emails : Sends(email)
    \/ Waits \/ Verifies \/ Passkey
    \/ Mails \/ Checks \/ Asserts
    \/ Sent \/ Verified \/ Asserted \/ SessionTurns

Spec == Init /\ [][Next]_dialog_vars
-----------------------------------------------------------------------------
DialogTypeOK ==
    /\ attempt \in Nat /\ notice \in {"none", "send", "verify", "passkey"}
    /\ dialog # None => dialog.offers \subseteq Methods /\ dialog.busy \in BOOLEAN
    /\ Len(codes) \in 0..MaxCodes

\* What the dialog, a challenge and the requests for a code and of one hold.
Shown == [step : {"chooser", "email", "code"}, offers : SUBSET Methods, email : Emails \cup {None},
          busy : BOOLEAN, wait : BOOLEAN]
Challenge == [id : Nat, email : Emails]
Sending == [email : Emails, attempt : Nat, kind : StartKinds \cup {None}, id : Nat]
Verifying == [challenge : Challenge, attempt : Nat, kind : VerifyKinds \cup {None}]

DialogTyped ==
    /\ dialog \in Shown \cup {None} /\ attempt \in Nat /\ challenge \in Challenge \cup {None}
    /\ notice \in {"none", "send", "verify", "passkey"}
    /\ sending \in Sending \cup {None} /\ verifying \in Verifying \cup {None}
    /\ codes \in Seq(Emails) /\ Len(codes) <= MaxCodes

\* A code was mailed to the address of its challenge; and what is being sent was asked for by
\* this attempt, of a dialog still open, or by an earlier one.
Mailed(id, email) == id \in 1..Len(codes) /\ codes[id] = email
SendsInOrder ==
    /\ challenge # None => Mailed(challenge.id, challenge.email)
    /\ sending # None =>
         /\ sending.attempt <= attempt /\ (dialog = None => sending.attempt < attempt)
         /\ sending.kind # None /\ sending.kind = "challenge" => Mailed(sending.id, sending.email)

\* What the dialog shows is what its requests and the deployment's answer say: a step that
\* is busy has a request of its own attempt under way (or nothing would ever make it usable
\* again), a code is for the address it is shown with, and the chooser offers what was heard.
DialogAgrees ==
    dialog # None =>
      /\ dialog.busy =>
           \/ At("email") /\ sending # None /\ sending.attempt = attempt
           \/ At("code") /\ verifying # None /\ verifying.attempt = attempt
      /\ At("code") => /\ challenge # None /\ challenge.email = dialog.email
                       /\ codes[challenge.id] = dialog.email
      /\ At("chooser") => dialog.offers = Offers(heard, emailUnavailable)

\* No answer opens a dialog the reader closed (signInAttempt).
OnlyTheReaderOpens == dialog = None /\ dialog' # None => UNCHANGED <<attempt, requests>>
=============================================================================
