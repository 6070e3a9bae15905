------------------------------- MODULE SignOut -------------------------------
(***************************************************************************)
(* Signing out in two steps (ui/app-shell.ts, ui/projects-controller.ts):  *)
(* it asks, pushes every synchronized copy, names the copies that may hold *)
(* changes the server lacks, and asks again; the reader may cancel and ask *)
(* anew while pushes are under way. Signing out destroys every copy of a   *)
(* server project on the device. What it does to tokens is Session's.      *)
(***************************************************************************)
EXTENDS Integers, FiniteSets

CONSTANTS Copies,     \* the server projects this device may hold a copy of
          MaxAsks,    \* bound: attempts begun or cancelled
          MaxWrites,  \* bound: changes made here, or copies brought by another tab
          None

Kinds == {"absent", "synced", "remnant"}   \* a remnant: archived, or no longer listed

VARIABLES
    signedIn,
    copy,       \* [Copies -> Kinds]
    unsent,     \* the copies holding changes the server lacks
    online,     \* whether the shell is online and replicates
    step,       \* the dialog: "closed", "ask", "pushing", "unpushed"
    named,      \* the copies it names
    unreadable, \* or that the index could not be read
    attempt,
    checks,     \* the checks under way: [attempt, rows, waiting, failed, cancelled]
    late,       \* history: copies changed since the dialog's check looked at them
    lost,       \* history: copies destroyed with changes nobody was told of
    mistaken,   \* history: a cancelled sign-out went ahead
    writes

signout_vars == <<signedIn, copy, unsent, online, step, named, unreadable, attempt, checks,
                  late, lost, mistaken, writes>>
device == <<signedIn, copy, unsent, online, lost>>

Held == {c \in Copies : copy[c] # "absent"}

Init ==
    /\ signedIn = TRUE /\ online = TRUE
    /\ copy \in [Copies -> Kinds] /\ unsent \in SUBSET Held
    /\ step = "closed" /\ named = {} /\ unreadable = FALSE /\ attempt = 0 /\ checks = {}
    /\ late = {} /\ lost = {} /\ mistaken = FALSE /\ writes = 0
-----------------------------------------------------------------------------
Asks ==
    /\ signedIn /\ step = "closed" /\ attempt < MaxAsks
    /\ attempt' = attempt + 1 /\ step' = "ask" /\ late' = {}
    /\ UNCHANGED <<device, named, unreadable, checks, mistaken, writes>>

\* onCancelSignOut(), at either step: what is being pushed goes on, and decides nothing.
Cancels ==
    /\ step # "closed" /\ step' = "closed" /\ attempt' = attempt + 1
    /\ named' = {} /\ unreadable' = FALSE
    /\ checks' = {[k EXCEPT !.cancelled = TRUE] : k \in checks}
    /\ UNCHANGED <<device, late, mistaken, writes>>

\* unpushedCopies() names what cannot be pushed without trying.
Unpushable == {c \in Copies : copy[c] = "remnant"}

\* Every synchronized copy is pushed at once, if there is a server to push to.
Synced == {c \in Copies : copy[c] = "synced"}

Check ==
    [attempt |-> attempt, unreadable |-> FALSE, cancelled |-> FALSE,
     waiting |-> IF online THEN Synced ELSE {},
     failed |-> IF online THEN Unpushable ELSE Unpushable \cup Synced]

\* onSignOut().
Confirms ==
    /\ step = "ask" /\ step' = "pushing"
    /\ \E check \in {Check, [Check EXCEPT !.waiting = {}, !.failed = {}, !.unreadable = TRUE]} :
         checks' = checks \cup {check}
    /\ late' = {} /\ UNCHANGED <<device, named, unreadable, attempt, mistaken, writes>>

\* pushNow(), which is taken whole or fails, or is given up on after a while.
Pushes(k, c) ==
    /\ c \in k.waiting
    /\ \/ /\ copy[c] = "synced"
          /\ unsent' = unsent \ {c} /\ late' = IF k.attempt = attempt THEN late \ {c} ELSE late
          /\ checks' = (checks \ {k}) \cup {[k EXCEPT !.waiting = @ \ {c}]}
       \/ /\ checks' = (checks \ {k}) \cup {[k EXCEPT !.waiting = @ \ {c}, !.failed = @ \cup {c}]}
          /\ UNCHANGED <<unsent, late>>
    /\ UNCHANGED <<signedIn, copy, online, step, named, unreadable, attempt, lost, mistaken, writes>>

\* Every copy of a server project goes. Told: what the dialog named, or all of them when it
\* said that it could not tell.
Destroys(told) ==
    /\ signedIn' = FALSE /\ step' = "closed"
    /\ copy' = [c \in Copies |-> "absent"] /\ unsent' = {}
    /\ lost' = lost \cup (unsent \ (told \cup late))
    /\ named' = {} /\ unreadable' = FALSE
    /\ UNCHANGED online

\* Mutant: a check of an attempt cancelled since goes ahead.
CheckedAnyway(k) ==
    /\ k.waiting = {} /\ checks' = checks \ {k}
    /\ IF k.failed # {} \/ k.unreadable
         THEN /\ step' = "unpushed" /\ named' = k.failed /\ unreadable' = k.unreadable
              /\ UNCHANGED <<device, mistaken>>
         ELSE /\ Destroys({}) /\ mistaken' = (mistaken \/ k.cancelled)
    /\ UNCHANGED <<attempt, late, writes>>

\* The pushes are over: out at once, or the second question.
Checked(k) ==
    /\ k.waiting = {} /\ checks' = checks \ {k}
    /\ IF k.attempt # attempt
         THEN UNCHANGED <<device, step, named, unreadable, mistaken>>
         ELSE IF k.failed # {} \/ k.unreadable
           THEN /\ step' = "unpushed" /\ named' = k.failed /\ unreadable' = k.unreadable
                /\ UNCHANGED <<device, mistaken>>
           ELSE /\ Destroys({}) /\ mistaken' = (mistaken \/ k.cancelled)
    /\ UNCHANGED <<attempt, late, writes>>

\* onSignOutUnpushed().
ConfirmsUnpushed ==
    /\ step = "unpushed" /\ Destroys(IF unreadable THEN Copies ELSE named)
    /\ UNCHANGED <<attempt, checks, late, mistaken, writes>>
-----------------------------------------------------------------------------
(* Meanwhile. *)

Writes(c) ==
    /\ writes < MaxWrites /\ writes' = writes + 1
    /\ copy[c] # "absent" /\ unsent' = unsent \cup {c} /\ late' = late \cup {c}
    /\ UNCHANGED <<signedIn, copy, online, step, named, unreadable, attempt, checks, lost, mistaken>>

\* Another tab downloads a project; the server archives it, or names it no longer.
Turns(c) ==
    /\ writes < MaxWrites /\ writes' = writes + 1
    /\ \/ copy[c] = "absent" /\ signedIn /\ copy' = [copy EXCEPT ![c] = "synced"]
       \/ copy[c] = "synced" /\ copy' = [copy EXCEPT ![c] = "remnant"]
    /\ late' = late \cup {c}
    /\ UNCHANGED <<signedIn, unsent, online, step, named, unreadable, attempt, checks, lost, mistaken>>

Replicates(c) ==
    /\ online /\ copy[c] = "synced" /\ c \in unsent /\ unsent' = unsent \ {c}
    /\ UNCHANGED <<signedIn, copy, online, step, named, unreadable, attempt, checks, late, lost,
                   mistaken, writes>>

Network ==
    /\ writes < MaxWrites /\ writes' = writes + 1 /\ online' = ~online
    /\ UNCHANGED <<signedIn, copy, unsent, step, named, unreadable, attempt, checks, late, lost, mistaken>>
-----------------------------------------------------------------------------
Next ==
    \/ Asks \/ Cancels \/ Confirms \/ ConfirmsUnpushed
    \/ \E k \in checks : Checked(k) \/ \E c \in Copies : Pushes(k, c)
    \/ \E c \in Copies : Writes(c) \/ Turns(c) \/ Replicates(c)
    \/ Network

Spec == Init /\ [][Next]_signout_vars
-----------------------------------------------------------------------------
SignOutTypeOK ==
    /\ step \in {"closed", "ask", "pushing", "unpushed"} /\ unsent \subseteq Held
    /\ copy \in [Copies -> Kinds]

CheckOf == [attempt : Nat, unreadable : BOOLEAN, cancelled : BOOLEAN,
            waiting : SUBSET Copies, failed : SUBSET Copies]

\* The check of this attempt is the only one, nobody cancelled it, and the changes its copies
\* hold are waiting to be pushed, have failed to be, or were made since it looked.
ChecksOwn ==
    /\ attempt \in Nat /\ checks \subseteq CheckOf
    /\ \A k \in checks :
         /\ k.attempt <= attempt
         /\ k.attempt = attempt =>
              /\ step = "pushing" /\ ~k.cancelled
              /\ k.unreadable \/ unsent \subseteq late \cup k.waiting \cup k.failed
              /\ \A m \in checks : m.attempt = attempt => m = k
ToldOfAll == step = "unpushed" => unreadable \/ unsent \subseteq late \cup named

\* Signing out destroys no change the reader was not told of, save one made after its copy was
\* pushed, and a sign-out cancelled while the copies are pushed does not go ahead, however
\* often the reader asked and cancelled since (signOutAttempt).
NothingLostUnasked == lost = {} /\ ~mistaken
=============================================================================
