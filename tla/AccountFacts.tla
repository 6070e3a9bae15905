---------------------------- MODULE AccountFacts ----------------------------
(***************************************************************************)
(* What the shell knows of the account (ui/app-shell.ts): the cached       *)
(* profile behind the header and the upgrade dialog, the waitlist changes  *)
(* made there, and the reads of the profile that answer late: at the start *)
(* of a session, after a refused change, behind the account page's matrix. *)
(***************************************************************************)
EXTENDS Integers

CONSTANTS Accounts,
          MaxSessions, \* bound: sessions begun
          MaxTurns,    \* bound: waitlist changes, the server's own included
          None

VARIABLES
    account,     \* who is signed in, or None
    generation,  \* the session (ProjectsController.generation)
    server,      \* [account -> the profile it holds: whose, plan, request, and its age]
    cached,      \* mm-local's profile, or None; the shell's facts follow it
    upgrading,   \* whether the upgrade dialog is open
    problem, left,
    change,      \* the waitlist change under way: [of, generation, to, answer]
    changes,     \* how many were sent
    rereads,     \* reads of the profile under way: [generation, changes, idle, got]
    startup,     \* the read a session starts with: [of, got]
    settled,     \* history: the age of the last change this device cached
    turns

facts_vars == <<account, generation, server, cached, upgrading, problem, left, change, changes,
                rereads, startup, settled, turns>>
dialog == <<upgrading, problem, left>>

Problems == {"none", "already-on-plan", "unavailable", "not-stored"}

\* offersUpgrade(): a bigger plan, or a request pending.
OffersUpgrade(profile) ==
    IF profile = None THEN TRUE ELSE profile.plan # "top" \/ profile.asked

Init ==
    /\ account = None /\ generation = 0
    /\ server = [a \in Accounts |-> [of |-> a, plan |-> "low", asked |-> FALSE, age |-> 0]]
    /\ cached = None /\ upgrading = FALSE /\ problem = "none" /\ left = FALSE
    /\ change = None /\ changes = 0 /\ rereads = {} /\ startup = {}
    /\ settled = 0 /\ turns = 0

\* onCloseUpgrade(): what the dialog said goes with it.
Closes == upgrading' = FALSE /\ problem' = "none" /\ left' = FALSE

\* writeProfile(), then the facts read again: the dialog goes with its button (willUpdate), or
\* stays and says whether a request was left.
Cache(profile, says) ==
    /\ cached' = profile
    /\ \/ upgrading /\ ~OffersUpgrade(profile) /\ Closes
       \/ /\ upgrading => OffersUpgrade(profile)
          /\ left' = says /\ UNCHANGED <<upgrading, problem>>

Turn == turns < MaxTurns /\ turns' = turns + 1
-----------------------------------------------------------------------------
(* Sessions. *)

\* A new token drops the profile cached for another (tokens.ts); startSyncing() reads its own.
SignsIn(a) ==
    /\ account = None /\ generation < MaxSessions
    /\ account' = a /\ cached' = None /\ settled' = 0
    /\ startup' = startup \cup {[of |-> a, got |-> None]}
    /\ UNCHANGED <<generation, server, dialog, change, changes, rereads, turns>>

Ends == account # None /\ account' = None /\ generation' = generation + 1

\* signOut() moves the generation first, and the account's data goes.
SignsOut ==
    /\ Ends /\ Cache(None, left) /\ settled' = 0
    /\ UNCHANGED <<server, change, changes, rereads, startup, turns>>

\* The session expires. Local data stays.
Expires ==
    /\ Ends
    /\ UNCHANGED <<server, cached, dialog, change, changes, rereads, startup, settled, turns>>

\* GET /profile, answered for whoever asked.
Answered(reads, got) == {[r EXCEPT !.got = got] : r \in reads}
StartupAnswers ==
    \E r \in startup :
      /\ r.got = None
      /\ startup' = (startup \ {r}) \cup Answered({r}, server[r.of])
      /\ UNCHANGED <<account, generation, server, cached, dialog, change, changes, rereads, settled, turns>>

\* resolveProfileLocale(): cached whoever is signed in by now.
StartupLands ==
    \E r \in startup :
      /\ r.got # None /\ startup' = startup \ {r}
      /\ Cache(r.got, left)
      /\ UNCHANGED <<account, generation, server, change, changes, rereads, settled, turns>>

StartupFails ==
    \E r \in startup :
      /\ startup' = startup \ {r}
      /\ UNCHANGED <<account, generation, server, cached, dialog, change, changes, rereads, settled, turns>>
-----------------------------------------------------------------------------
(* The upgrade dialog and the waitlist. *)

Upgrades ==
    /\ ~upgrading /\ OffersUpgrade(cached)
    /\ upgrading' = TRUE /\ problem' = "none" /\ left' = FALSE
    /\ UNCHANGED <<account, generation, server, cached, change, changes, rereads, startup, settled, turns>>

ClosesUpgrade ==
    /\ upgrading /\ Closes
    /\ UNCHANGED <<account, generation, server, cached, change, changes, rereads, startup, settled, turns>>

\* changeWaitlist(): one at a time, and only what the buttons offer.
Changes(join) ==
    /\ Turn /\ upgrading /\ account # None /\ change = None
    /\ cached # None /\ cached.asked # join
    /\ change' = [of |-> account, generation |-> generation, join |-> join, answer |-> "none"]
    /\ changes' = changes + 1 /\ problem' = "none" /\ left' = FALSE
    /\ UNCHANGED <<account, generation, server, cached, upgrading, rereads, startup, settled>>

Aged(profile) == [profile EXCEPT !.age = @ + 1]

ChangeAnswers ==
    /\ change # None /\ change.answer = "none"
    /\ \/ /\ change.join => server[change.of].plan # "top"
          /\ server' = [server EXCEPT ![change.of] = [Aged(@) EXCEPT !.asked = change.join]]
          /\ change' = [change EXCEPT !.answer = "done"]
       \/ /\ change.join /\ server[change.of].plan = "top"
          /\ change' = [change EXCEPT !.answer = "already-on-plan"] /\ UNCHANGED server
       \/ change' = [change EXCEPT !.answer = "unavailable"] /\ UNCHANGED server
    /\ UNCHANGED <<account, generation, cached, dialog, changes, rereads, startup, settled, turns>>

Reread(idle) == [generation |-> generation, changes |-> changes, idle |-> idle, got |-> None]

\* settleWaitlist(): nothing of a session that has ended.
Settles ==
    /\ change # None /\ change.answer # "none" /\ change' = None
    /\ IF change.generation # generation
         THEN UNCHANGED <<cached, dialog, rereads, settled>>
         ELSE IF change.answer = "done"
           THEN /\ \/ /\ Cache(server[change.of], ~change.join /\ OffersUpgrade(server[change.of]))
                      /\ settled' = server[change.of].age
                   \/ problem' = "not-stored" /\ UNCHANGED <<cached, upgrading, left, settled>>
                /\ UNCHANGED rereads
           ELSE /\ problem' = change.answer
                /\ rereads' = IF change.answer = "already-on-plan" THEN rereads \cup {Reread(TRUE)}
                              ELSE rereads
                /\ UNCHANGED <<cached, upgrading, left, settled>>
    /\ UNCHANGED <<account, generation, server, changes, startup, turns>>

\* The account page's matrix is here, and the profile is read behind it.
MatrixBehind ==
    /\ account # None /\ rereads = {}
    /\ rereads' = {Reread(change = None)}
    /\ UNCHANGED <<account, generation, server, cached, dialog, change, changes, startup, settled, turns>>

RereadAnswers ==
    \E r \in rereads :
      /\ r.got = None /\ account # None
      /\ rereads' = (rereads \ {r}) \cup Answered({r}, server[account])
      /\ UNCHANGED <<account, generation, server, cached, dialog, change, changes, startup, settled, turns>>

\* rereadProfile(): dropped with its session, or when a change was sent since.
RereadLands ==
    \E r \in rereads :
      /\ r.got # None /\ rereads' = rereads \ {r}
      /\ IF r.generation # generation \/ r.changes # changes THEN UNCHANGED <<cached, dialog>>
         ELSE Cache(r.got, left)
      /\ UNCHANGED <<account, generation, server, change, changes, startup, settled, turns>>

\* The plan is granted on the server.
Granted(a) ==
    /\ Turn /\ server[a].plan = "low"
    /\ server' = [server EXCEPT ![a] = [Aged(@) EXCEPT !.plan = "top"]]
    /\ UNCHANGED <<account, generation, cached, dialog, change, changes, rereads, startup, settled>>
-----------------------------------------------------------------------------
Next ==
    \/ \E a \in Accounts : SignsIn(a) \/ Granted(a)
    \/ SignsOut \/ Expires \/ StartupAnswers \/ StartupLands \/ StartupFails
    \/ Upgrades \/ ClosesUpgrade \/ \E join \in BOOLEAN : Changes(join)
    \/ ChangeAnswers \/ Settles \/ MatrixBehind \/ RereadAnswers \/ RereadLands

Spec == Init /\ [][Next]_facts_vars
-----------------------------------------------------------------------------
FactsTypeOK ==
    /\ account \in Accounts \cup {None} /\ problem \in Problems
    /\ upgrading => OffersUpgrade(cached)

\* A profile, the change under way and a read begun later, as they are kept.
Profile == [of : Accounts, plan : {"low", "top"}, asked : BOOLEAN, age : Nat]
Change == [of : Accounts, generation : Nat, join : BOOLEAN,
           answer : {"none", "done", "already-on-plan", "unavailable"}]
Later == [generation : Nat, changes : Nat, idle : BOOLEAN, got : Profile \cup {None}]

FactsTyped ==
    /\ account \in Accounts \cup {None} /\ generation \in Nat /\ changes \in Nat /\ settled \in Nat
    /\ server \in [Accounts -> Profile] /\ problem \in Problems
    /\ change \in Change \cup {None} /\ rereads \subseteq Later
    /\ \A a \in Accounts : server[a].of = a
    /\ account # None => settled <= server[account].age

\* A change or a read of this generation is of the account signed in; and a read begun while no
\* change was under way, since when none was sent, is no older than the last change cached.
FactsInOrder ==
    /\ change # None => /\ change.generation <= generation
                        /\ change.generation = generation => account = change.of
    /\ \A r \in rereads :
         /\ r.generation <= generation /\ r.changes <= changes
         /\ r.generation = generation =>
              /\ account # None /\ (r.got # None => r.got.of = account)
              /\ r.idle /\ r.changes = changes =>
                   change = None /\ (r.got # None => settled <= r.got.age)

\* What a change or a later read caches is the signed-in account's, and a read begun while no
\* change was under way never undoes a change this device has cached since (rereadProfile: "its
\* answer is newer than this read's, and writing this one over it would undo it").
LandsInOrder ==
    cached' # cached /\ cached' # None =>
      /\ change' # change \/ rereads' # rereads => cached'.of = account
      /\ \A r \in rereads \ rereads' : r.idle => cached'.age >= settled

\* The profile cached is the signed-in account's (composition.ts, profile.ts).
\* Meant, and not kept: the README says how the code breaks it.
CachedIsOwn == account # None /\ cached # None => cached.of = account
=============================================================================
