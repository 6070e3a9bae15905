------------------------------ MODULE Session ------------------------------
(***************************************************************************)
(* The session of one browser: its tabs, the refresh token and the cached  *)
(* profile they share in mm-local, and the API that rotates the token.     *)
(*                                                                         *)
(*   ui/composition.ts      requestTokens, endSession                      *)
(*   ui/token-refresher.ts  the loop around it                             *)
(*   ui/tokens.ts           the stored refresh token, the access token     *)
(*   ui/app-shell.ts        what the shell does with each outcome          *)
(*   ui/session.ts, ui/email-signin.ts, ui/passkey-signin.ts, ui/profile.ts*)
(*                                                                         *)
(* An asynchronous function is a job: a record that names the step it      *)
(* waits at.  Steps of different jobs interleave; one step is what runs    *)
(* between two awaits.  The server is external and follows openapi.yaml.   *)
(***************************************************************************)
EXTENDS Naturals, FiniteSets, TLC

CONSTANTS
  Tabs,      \* the tabs (and windows) of one browser profile
  Jobs,      \* names for the calls in flight; their number is a bound
  Accounts,  \* the people who use this browser
  Tokens,    \* names for refresh tokens; one no longer known to anybody is used again
  None,      \* no token, no account
  Faults     \* which of FaultKinds the environment may commit

\* lost: a request or its answer is lost; late: the rotation window closes on
\* an exchange under way; revoke: the account's sessions are ended elsewhere;
\* reload: a tab is reloaded; storage: a write to mm-local is refused;
\* overlap: a person starts a sign-in before the last one is through.
FaultKinds == {"lost", "late", "revoke", "reload", "storage", "overlap"}

ASSUME FaultsAreKnown == Faults \subseteq FaultKinds
ASSUME NoneIsNoValue == None \notin Accounts \cup Tokens \cup Tabs

VARIABLES
  status,   \* server: what it makes of each token when it is presented
  owner,    \* server: the account each token was issued to
  succ,     \* server: the token the latest exchange of this one returned
  handoff,  \* the handoff cookie a redirect sign-in leaves in the browser
  token,    \* mm-local: the stored refresh token
  profile,  \* mm-local: the account whose profile is cached
  session,  \* per tab: what the shell shows
  held,     \* per tab: the account of the access token it would send
  armed,    \* per tab: a refresh is scheduled
  syncing,  \* per tab: replication runs
  usable,   \* per tab: its handle on mm-local still works
  job       \* the calls in flight

server == <<status, owner, succ, handoff>>
store == <<token, profile>>
tabs == <<session, held, armed, syncing, usable>>
vars == <<server, store, tabs, job>>

SessionState == {"unknown", "signed-in", "signed-out", "expired", "offline-held"}
TokenStatus == {"unused", "live", "grace", "consumed", "gone"}
Kind == {"none", "refresh", "signin", "signout", "follow", "reread"}
Step == {"idle", "read", "asked", "answered", "clearGet", "clearRemove", "writeGet",
         "forgetGet", "forgetRemove", "put", "revoke", "destroy", "begin", "fetch",
         "cacheGet", "cachePut"}
\* What a job remembers of a revision it read: nothing was stored, it is still
\* the current one, or another write has replaced it.
Seen == {"missing", "current", "stale"}

Job == [kind : Kind, tab : Tabs \cup {None}, pc : Step,
        live : BOOLEAN,   \* not aborted (a refresh), not overtaken (a reread)
        usable : BOOLEAN, \* its handle on mm-local still works
        sent : Tokens \cup {None}, got : Tokens \cup {None},
        who : Accounts \cup {None}, rev : Seen, prev : Seen]

New(kind, t, pc, u, who) ==
  [kind |-> kind, tab |-> t, pc |-> pc, live |-> TRUE, usable |-> u, sent |-> None,
   got |-> None, who |-> who, rev |-> "missing", prev |-> "missing"]
Idle == New("none", None, "idle", FALSE, None)

At(j, kinds, pc) == job[j].kind \in kinds /\ job[j].pc = pc
Busy(t, kind) == \E j \in Jobs : job[j].kind = kind /\ job[j].tab = t
LiveRefresh(t) == {j \in Jobs : job[j].kind = "refresh" /\ job[j].tab = t /\ job[j].live}
\* No request of this tab is under way, and none is scheduled.
Quiet(t) == ~armed[t] /\ ~Busy(t, "refresh") /\ ~Busy(t, "signin")
May(fault) == fault \in Faults

Init ==
  /\ status = [k \in Tokens |-> "unused"]
  /\ owner = [k \in Tokens |-> None]
  /\ succ = [k \in Tokens |-> None]
  /\ handoff = None
  /\ token = None /\ profile = None
  /\ session = [t \in Tabs |-> "unknown"]
  /\ held = [t \in Tabs |-> None]
  /\ armed = [t \in Tabs |-> TRUE]
  /\ syncing = [t \in Tabs |-> FALSE]
  /\ usable = [t \in Tabs |-> TRUE]
  /\ job = [j \in Jobs |-> Idle]

------------------------------------------------------------------------------
(* The server.                                                             *)

\* A name is free once this browser has no copy: nobody can present it again.
Free(k) == k # token /\ \A j \in Jobs : k \notin {job[j].sent, job[j].got}

\* A new token for account a, the successor of the tokens in from.
Mint(k, a, from) ==
  /\ Free(k)
  /\ owner' = [owner EXCEPT ![k] = a]
  /\ status' = [l \in Tokens |-> IF l = k THEN "live"
                                 ELSE IF l \in from THEN "grace"
                                 ELSE IF \E p \in from : succ[p] = l THEN "gone"
                                 ELSE status[l]]
  /\ succ' = [l \in Tokens |-> IF l \in from THEN k
                               ELSE IF l = k \/ succ[l] = k THEN None ELSE succ[l]]

Answer(j, k, a) == job' = [job EXCEPT ![j].pc = "answered", ![j].got = k, ![j].who = a]

\* POST /auth/token.  A handoff wins; a stored token is consumed and replaced; a
\* consumed one presented in its window is replaced again, which invalidates the
\* previous answer; presented later it ends every session of its account.
Exchange(j) ==
  /\ At(j, {"refresh"}, "asked")
  /\ UNCHANGED <<store, tabs>>
  /\ LET k == job[j].sent IN
     \/ /\ handoff # None
        /\ \E n \in Tokens : Mint(n, handoff, {}) /\ Answer(j, n, handoff)
        /\ handoff' = None
     \/ /\ handoff = None /\ k # None /\ status[k] \in {"live", "grace"}
        /\ \E n \in Tokens : Mint(n, owner[k], {k}) /\ Answer(j, n, owner[k])
        /\ UNCHANGED handoff
     \/ /\ handoff = None
        /\ k # None => status[k] \in {"consumed", "gone"}
        /\ Answer(j, None, None)
        /\ status' = [l \in Tokens |->
                        IF k # None /\ status[k] = "consumed" /\ owner[l] = owner[k]
                        THEN "gone" ELSE status[l]]
        /\ UNCHANGED <<owner, succ, handoff>>

\* POST /auth/email/{challenge} or /auth/passkey accepts the person.
Verify(j) ==
  /\ At(j, {"signin"}, "asked")
  /\ \E n \in Tokens : Mint(n, job[j].who, {}) /\ Answer(j, n, job[j].who)
  /\ UNCHANGED <<handoff, store, tabs>>

\* The sixty seconds after a rotation have passed.  Without the late fault the
\* window outlasts every exchange begun in it.
GraceEnds(k) ==
  /\ status[k] = "grace"
  /\ May("late") \/ \A j \in Jobs : job[j].sent # k
  /\ status' = [status EXCEPT ![k] = "consumed"]
  /\ UNCHANGED <<owner, succ, handoff, store, tabs, job>>

\* The account's refresh tokens are revoked from elsewhere, or forgotten.
Revoke(a) ==
  /\ May("revoke")
  /\ \E k \in Tokens : owner[k] = a /\ status[k] \in {"live", "grace"}
  /\ status' = [k \in Tokens |-> IF owner[k] = a /\ status[k] \in {"live", "grace"}
                                 THEN "gone" ELSE status[k]]
  /\ UNCHANGED <<owner, succ, handoff, store, tabs, job>>

------------------------------------------------------------------------------
(* The tab.                                                                *)

\* A write of the token (field rev) or the profile (field prev) makes every
\* revision read before it stale.
TouchToken(jobs) ==
  [j \in Jobs |-> IF jobs[j].rev = "current" THEN [jobs[j] EXCEPT !.rev = "stale"] ELSE jobs[j]]
TouchProfile(jobs) ==
  [j \in Jobs |-> IF jobs[j].prev = "current" THEN [jobs[j] EXCEPT !.prev = "stale"] ELSE jobs[j]]

\* TouchToken and TouchProfile leave kind, tab and live alone; these two do not.
\* Mutant: stopping clears the timer only, the request runs on and reports.
StopTimerOnly(jobs, t) == jobs
StopRefresher(jobs, t) ==
  [j \in Jobs |-> IF jobs[j].kind = "refresh" /\ jobs[j].tab = t
                  THEN [jobs[j] EXCEPT !.live = FALSE] ELSE jobs[j]]
\* The generation moves: what a reread has fetched is no longer wanted.
EndReplication(jobs, t) ==
  [j \in Jobs |-> IF jobs[j].kind = "reread" /\ jobs[j].tab = t
                  THEN [jobs[j] EXCEPT !.live = FALSE] ELSE jobs[j]]

\* Mutant: coming online asks again although a request is under way.
RunRefreshAnyway(t) ==
  /\ session[t] \in {"unknown", "signed-in", "offline-held"}
  /\ \E j \in Jobs :
       /\ job[j] = Idle
       /\ job' = [job EXCEPT ![j] = New("refresh", t, "read", usable[t], None)]
  /\ armed' = [armed EXCEPT ![t] = FALSE]
  /\ UNCHANGED <<server, store, session, held, syncing, usable>>

\* The refresher's timer, the browser back online, or the page visible again.
RunRefresh(t) ==
  /\ armed[t]
  /\ \E j \in Jobs :
       /\ job[j] = Idle
       /\ job' = [job EXCEPT ![j] = New("refresh", t, "read", usable[t], None)]
  /\ armed' = [armed EXCEPT ![t] = FALSE]
  /\ UNCHANGED <<server, store, session, held, syncing, usable>>

\* How a request ends: run() re-arms or stops, onTokenOutcome acts.  J is the
\* jobs after what the step itself changed.
Silent(j, J) == job' = [J EXCEPT ![j] = Idle] /\ UNCHANGED tabs

Refreshed(j, J) ==
  LET t == job[j].tab IN
  /\ armed' = [armed EXCEPT ![t] = TRUE]
  /\ session' = [session EXCEPT ![t] = "signed-in"]
  /\ \/ /\ session[t] = "signed-in"
        /\ job' = [J EXCEPT ![j] = Idle]
        /\ UNCHANGED syncing
     \/ /\ session[t] # "signed-in"
        /\ job' = [J EXCEPT ![j] = New("follow", t, "begin", usable[t], None)]
        /\ syncing' = [syncing EXCEPT ![t] = TRUE]
  /\ UNCHANGED <<held, usable>>

\* Mutant: the loop ends with the first failure.
UnreachableUnarmed(j, J, tokenStored) ==
  /\ session' = [session EXCEPT ![job[j].tab] =
                   IF @ = "unknown" /\ tokenStored THEN "offline-held" ELSE @]
  /\ job' = [J EXCEPT ![j] = Idle]
  /\ UNCHANGED <<held, armed, syncing, usable>>

Unreachable(j, J, tokenStored) ==
  /\ armed' = [armed EXCEPT ![job[j].tab] = TRUE]
  /\ session' = [session EXCEPT ![job[j].tab] =
                   IF @ = "unknown" /\ tokenStored THEN "offline-held" ELSE @]
  /\ job' = [J EXCEPT ![j] = Idle]
  /\ UNCHANGED <<held, syncing, usable>>

SignedOut(j, J) ==
  LET t == job[j].tab IN
  /\ session' = [session EXCEPT ![t] = "signed-out"]
  /\ \/ /\ session[t] = "signed-in"
        /\ syncing' = [syncing EXCEPT ![t] = FALSE]
        /\ held' = [held EXCEPT ![t] = None]
        /\ job' = EndReplication([J EXCEPT ![j] = Idle], t)
     \/ /\ session[t] # "signed-in"
        /\ job' = [J EXCEPT ![j] = Idle]
        /\ UNCHANGED <<syncing, held>>
  /\ UNCHANGED <<armed, usable>>

Ended(j, J) ==
  LET t == job[j].tab IN
  /\ session' = [session EXCEPT ![t] = "expired"]
  /\ syncing' = [syncing EXCEPT ![t] = FALSE]
  /\ held' = [held EXCEPT ![t] = None]
  /\ job' = EndReplication([J EXCEPT ![j] = Idle], t)
  /\ UNCHANGED <<armed, usable>>

\* A stopped refresher is told nothing.
Outcome(j, J, kind, tokenStored) ==
  \/ ~job[j].live /\ Silent(j, J)
  \/ job[j].live /\ kind = "refreshed" /\ Refreshed(j, J)
  \/ job[j].live /\ kind = "unreachable" /\ Unreachable(j, J, tokenStored)
  \/ job[j].live /\ kind = "signed-out" /\ SignedOut(j, J)
  \/ job[j].live /\ kind = "ended" /\ Ended(j, J)

\* Mutant: what is remembered is that there was a token.
ReadTokenPresence(j) ==
  /\ At(j, {"refresh"}, "read")
  /\ job' = [job EXCEPT ![j].pc = "asked", ![j].sent = token # None]
  /\ UNCHANGED <<server, store, tabs>>

ReadToken(j) ==
  /\ At(j, {"refresh"}, "read")
  /\ LET stored == IF job[j].usable THEN token ELSE None IN
     IF job[j].live
     THEN job' = [job EXCEPT ![j].pc = "asked", ![j].sent = stored] /\ UNCHANGED tabs
     ELSE Outcome(j, job, "unreachable", stored # None)
  /\ UNCHANGED <<server, store>>

\* Offline, a timeout, a 5xx or an unusable body, whether or not the server acted.
NoAnswer(j) ==
  /\ May("lost")
  /\ job[j].pc \in {"asked", "answered"}
  /\ \/ job[j].kind = "refresh" /\ Outcome(j, job, "unreachable", job[j].sent # None)
     \/ job[j].kind = "signin" /\ job' = [job EXCEPT ![j] = Idle] /\ UNCHANGED tabs
  /\ UNCHANGED <<server, store>>

\* The answer arrives, checked against the abort before anything is changed.
Receive(j) ==
  /\ At(j, {"refresh", "signin"}, "answered")
  /\ UNCHANGED <<server, store>>
  /\ \/ /\ job[j].live /\ job[j].got # None
        /\ held' = [held EXCEPT ![job[j].tab] = job[j].who]
        /\ job' = [job EXCEPT ![j].pc = "writeGet", ![j].who = None]
        /\ UNCHANGED <<session, armed, syncing, usable>>
     \/ /\ job[j].kind = "refresh" /\ ~job[j].live
        /\ Outcome(j, job, "unreachable", job[j].sent # None)
     \/ /\ job[j].kind = "refresh" /\ job[j].live /\ job[j].got = None /\ job[j].sent = None
        /\ Outcome(j, job, "signed-out", FALSE)
     \/ /\ job[j].kind = "refresh" /\ job[j].live /\ job[j].got = None /\ job[j].sent # None
        /\ job' = [job EXCEPT ![j].pc = "clearGet"]
        /\ UNCHANGED tabs

------------------------------------------------------------------------------
(* The refresh-token store: write and clear, one step per await.           *)

\* A successful write: the refresh is done, a sign-in starts a refresher of its
\* own.  A failed one: the refresh is tried again, a sign-in gives up its token.
Written(j, J) ==
  LET t == job[j].tab IN
  \/ job[j].kind = "refresh" /\ Outcome(j, J, "refreshed", TRUE)
  \/ /\ job[j].kind = "signin"
     /\ job' = [StopRefresher(J, t) EXCEPT ![j] = New("refresh", t, "read", usable[t], None)]
     /\ armed' = [armed EXCEPT ![t] = FALSE]
     /\ UNCHANGED <<session, held, syncing, usable>>
\* Mutant: a write that fails is not caught.
NotWrittenUncaught(j) == job' = [job EXCEPT ![j] = Idle] /\ UNCHANGED tabs

NotWritten(j) ==
  \/ job[j].kind = "refresh" /\ Outcome(j, job, "unreachable", FALSE)
  \/ /\ job[j].kind = "signin"
     /\ job' = [job EXCEPT ![j] = Idle]
     /\ held' = [held EXCEPT ![job[j].tab] = None]
     /\ UNCHANGED <<session, armed, syncing, usable>>

\* The stored token and its revision; an unreadable store reads as empty.
WriteGet(j) ==
  /\ At(j, {"refresh", "signin"}, "writeGet")
  /\ LET there == job[j].usable /\ token # None
         same == there /\ token = job[j].got
     IN job' = [job EXCEPT ![j].rev = IF there THEN "current" ELSE "missing",
                           ![j].pc = IF same THEN "put" ELSE "forgetGet"]
  /\ UNCHANGED <<server, store, tabs>>

\* A different token: the cached profile is forgotten first.  A cache that
\* refuses does not stop the sign-in.
ForgetGet(j) ==
  /\ At(j, {"refresh", "signin"}, "forgetGet")
  /\ LET there == job[j].usable /\ profile # None IN
     job' = [job EXCEPT ![j].prev = IF there THEN "current" ELSE "missing",
                        ![j].pc = IF there THEN "forgetRemove" ELSE "put"]
  /\ UNCHANGED <<server, store, tabs>>
ForgetRemove(j) ==
  /\ At(j, {"refresh", "signin"}, "forgetRemove")
  /\ \/ /\ job[j].usable /\ job[j].prev = "current"
        /\ profile' = None
        /\ job' = [TouchProfile(job) EXCEPT ![j].pc = "put", ![j].prev = "missing"]
     \/ /\ ~job[j].usable \/ job[j].prev # "current" \/ May("storage")
        /\ job' = [job EXCEPT ![j].pc = "put", ![j].prev = "missing"]
        /\ UNCHANGED profile
  /\ UNCHANGED <<server, token, tabs>>

Matches(j) == \/ job[j].rev = "missing" /\ token = None
              \/ job[j].rev = "current"

\* Mutant: the rule from before rotation, a stored token stays.
WritePutOnce(j) ==
  /\ At(j, {"refresh", "signin"}, "put")
  /\ token' = IF token = None THEN job[j].got ELSE token
  /\ Written(j, job)
  /\ UNCHANGED <<server, profile>>

WritePut(j) ==
  /\ At(j, {"refresh", "signin"}, "put")
  /\ \/ /\ job[j].usable /\ Matches(j)
        /\ token' = job[j].got
        /\ Written(j, TouchToken(job))
     \/ /\ ~job[j].usable \/ ~Matches(j) \/ May("storage")
        /\ NotWritten(j)
        /\ UNCHANGED token
  /\ UNCHANGED <<server, profile>>

\* Clearing: a missing token is already cleared, any other failure is rethrown,
\* which a refresh reports as unreachable and a sign-out passes over.
Cleared(j, J, ok) ==
  \/ job[j].kind = "refresh" /\ Outcome(j, J, IF ok THEN "ended" ELSE "unreachable", FALSE)
  \/ /\ job[j].kind = "signout"
     /\ job' = [J EXCEPT ![j].pc = "revoke", ![j].rev = "missing"]
     /\ UNCHANGED tabs

ClearGet(j) ==
  /\ At(j, {"refresh", "signout"}, "clearGet")
  /\ \/ /\ job[j].usable /\ token # None
        /\ job' = [job EXCEPT ![j].pc = "clearRemove", ![j].rev = "current"]
        /\ UNCHANGED tabs
     \/ /\ ~job[j].usable \/ token = None
        /\ Cleared(j, job, job[j].usable)
  /\ UNCHANGED <<server, store>>
ClearRemove(j) ==
  /\ At(j, {"refresh", "signout"}, "clearRemove")
  /\ \/ /\ job[j].usable /\ job[j].rev = "current"
        /\ token' = None
        /\ Cleared(j, TouchToken(job), TRUE)
     \/ /\ ~job[j].usable \/ job[j].rev # "current" \/ May("storage")
        /\ Cleared(j, job, job[j].usable /\ token = None)
        /\ UNCHANGED token
  /\ UNCHANGED <<server, profile>>

------------------------------------------------------------------------------
(* Signing in and out.                                                     *)

\* The dialog is offered to a signed-out tab; an emailed code and a passkey may
\* both be in flight, each only once.
SignInOffered(t) ==
  /\ session[t] \in {"signed-out", "expired"}
  /\ May("overlap") \/ Quiet(t)
StartSignIn(t, a) ==
  /\ SignInOffered(t)
  /\ Cardinality({j \in Jobs : job[j].kind = "signin" /\ job[j].tab = t}) < 2
  /\ \E j \in Jobs :
       /\ job[j] = Idle
       /\ job' = [job EXCEPT ![j] = New("signin", t, "asked", usable[t], a)]
  /\ UNCHANGED <<server, store, tabs>>

\* The page goes away and comes back: memory is gone, mm-local is opened anew.
Load(t) ==
  /\ session' = [session EXCEPT ![t] = "unknown"]
  /\ held' = [held EXCEPT ![t] = None]
  /\ armed' = [armed EXCEPT ![t] = TRUE]
  /\ syncing' = [syncing EXCEPT ![t] = FALSE]
  /\ usable' = [usable EXCEPT ![t] = TRUE]
  /\ job' = [j \in Jobs |-> IF job[j].tab = t THEN Idle ELSE job[j]]
Reload(t) == May("reload") /\ Load(t) /\ UNCHANGED <<server, store>>

\* Google or GitHub: a navigation that comes back with the handoff cookie.
RedirectSignIn(t, a) ==
  /\ SignInOffered(t)
  /\ handoff' = a
  /\ Load(t)
  /\ UNCHANGED <<status, owner, succ, store>>

\* Replication and the refresher stop first, whatever follows.
StartSignOut(t) ==
  /\ session[t] \in {"signed-in", "offline-held"}
  /\ ~Busy(t, "signout")
  /\ \E j \in Jobs :
       /\ job[j] = Idle
       /\ job' = [EndReplication(StopRefresher(job, t), t) EXCEPT
                    ![j] = New("signout", t, "read", usable[t], None)]
  /\ syncing' = [syncing EXCEPT ![t] = FALSE]
  /\ armed' = [armed EXCEPT ![t] = FALSE]
  /\ UNCHANGED <<server, store, session, held, usable>>

\* endSession takes the credentials the server is to revoke; signOut forgets the
\* access token in the same breath.
TakeCredentials(j) ==
  /\ At(j, {"signout"}, "read")
  /\ job' = [job EXCEPT ![j].sent = IF job[j].usable THEN token ELSE None,
                        ![j].pc = "clearGet"]
  /\ held' = [held EXCEPT ![job[j].tab] = None]
  /\ UNCHANGED <<server, store, session, armed, syncing, usable>>

\* Mutant: with nothing to revoke the request is never settled.
EndServerSessionHangs(j) ==
  /\ At(j, {"signout"}, "revoke") /\ job[j].sent # None
  /\ job' = [job EXCEPT ![j].pc = "destroy"]
  /\ status' = [status EXCEPT ![job[j].sent] = "gone"]
  /\ UNCHANGED <<owner, succ, handoff, store, tabs>>

\* POST /auth/signout revokes the presented refresh token, or is not heard.
EndServerSession(j) ==
  /\ At(j, {"signout"}, "revoke")
  /\ job' = [job EXCEPT ![j].pc = "destroy"]
  /\ \/ /\ job[j].sent # None
        /\ status' = [status EXCEPT ![job[j].sent] = "gone"]
     \/ /\ job[j].sent = None \/ May("lost")
        /\ UNCHANGED status
  /\ UNCHANGED <<owner, succ, handoff, store, tabs>>

\* mm-local goes: every handle on it is dead, this tab opens a new one.  Whatever
\* failed, the shell reads signed out.
RemoveLocalData(j) ==
  /\ At(j, {"signout"}, "destroy")
  /\ LET t == job[j].tab
         Dead == [i \in Jobs |-> [job[i] EXCEPT !.usable = FALSE]]
     IN /\ \/ /\ token' = None /\ profile' = None
              /\ job' = [Dead EXCEPT ![j] = Idle]
              /\ usable' = [u \in Tabs |-> u = t]
           \/ /\ May("storage")
              /\ job' = [job EXCEPT ![j] = Idle]
              /\ usable' = [usable EXCEPT ![t] = TRUE]
              /\ UNCHANGED store
        /\ session' = [session EXCEPT ![t] = "signed-out"]
  /\ UNCHANGED <<server, held, armed, syncing>>

------------------------------------------------------------------------------
(* The cached profile.                                                     *)

\* resolveProfileLocale asks with the token of the moment.
FollowProfile(j) ==
  /\ At(j, {"follow"}, "begin")
  /\ LET a == held[job[j].tab] IN
     job' = [job EXCEPT ![j] = IF a = None THEN Idle
                               ELSE [@ EXCEPT !.pc = "fetch", !.who = a]]
  /\ UNCHANGED <<server, store, tabs>>

\* The account page, or a waitlist answer, asks again.
StartReread(t) ==
  /\ session[t] = "signed-in" /\ held[t] # None
  /\ \E j \in Jobs :
       /\ job[j] = Idle
       /\ job' = [job EXCEPT ![j] = New("reread", t, "fetch", usable[t], held[t])]
  /\ UNCHANGED <<server, store, tabs>>

\* The profile arrives; only a reread asks whether it is still wanted.
ProfileArrives(j) ==
  /\ At(j, {"follow", "reread"}, "fetch")
  /\ \/ job' = [job EXCEPT ![j] = IF @.kind = "reread" /\ ~@.live THEN Idle
                                  ELSE [@ EXCEPT !.pc = "cacheGet"]]
     \/ May("lost") /\ job' = [job EXCEPT ![j] = Idle]
  /\ UNCHANGED <<server, store, tabs>>

CacheGet(j) ==
  /\ At(j, {"follow", "reread"}, "cacheGet")
  /\ job' = [job EXCEPT ![j] = IF ~@.usable THEN Idle
                               ELSE [@ EXCEPT !.pc = "cachePut",
                                              !.prev = IF profile = None THEN "missing"
                                                       ELSE "current"]]
  /\ UNCHANGED <<server, store, tabs>>
CachePut(j) ==
  /\ At(j, {"follow", "reread"}, "cachePut")
  /\ LET matches == \/ job[j].prev = "missing" /\ profile = None
                    \/ job[j].prev = "current"
     IN \/ /\ job[j].usable /\ matches
           /\ profile' = job[j].who
           /\ job' = [TouchProfile(job) EXCEPT ![j] = Idle]
        \/ /\ ~job[j].usable \/ ~matches \/ May("storage")
           /\ job' = [job EXCEPT ![j] = Idle]
           /\ UNCHANGED profile
  /\ UNCHANGED <<server, token, tabs>>

\* The access token nears its expiry and is no longer offered.
AccessTokenExpires(t) ==
  /\ held[t] # None
  /\ held' = [held EXCEPT ![t] = None]
  /\ UNCHANGED <<server, store, session, armed, syncing, usable, job>>

------------------------------------------------------------------------------
ServerStep ==
  \/ \E j \in Jobs : Exchange(j) \/ Verify(j)
  \/ \E k \in Tokens : GraceEnds(k)
  \/ \E a \in Accounts : Revoke(a)
StoreStep(j) ==
  \/ WriteGet(j) \/ ForgetGet(j) \/ ForgetRemove(j) \/ WritePut(j)
  \/ ClearGet(j) \/ ClearRemove(j)
ProfileStep(j) == FollowProfile(j) \/ ProfileArrives(j) \/ CacheGet(j) \/ CachePut(j)
SignOutStep(j) == TakeCredentials(j) \/ EndServerSession(j) \/ RemoveLocalData(j)
JobStep(j) ==
  \/ ReadToken(j) \/ NoAnswer(j) \/ Receive(j)
  \/ StoreStep(j) \/ ProfileStep(j) \/ SignOutStep(j)
TabStep(t) ==
  \/ RunRefresh(t) \/ Reload(t) \/ StartSignOut(t) \/ StartReread(t) \/ AccessTokenExpires(t)
  \/ \E a \in Accounts : StartSignIn(t, a) \/ RedirectSignIn(t, a)

Next ==
  \/ ServerStep
  \/ \E j \in Jobs : JobStep(j)
  \/ \E t \in Tabs : TabStep(t)

Spec == Init /\ [][Next]_vars

\* Fairness: an await on this device ends; a request made again and again is
\* answered some day; an armed timer fires.  Nobody has to sign in or out.
Fairness ==
  /\ \A t \in Tabs : WF_vars(RunRefresh(t))
  /\ \A j \in Jobs : /\ WF_vars(ReadToken(j)) /\ WF_vars(StoreStep(j))
                     /\ WF_vars(SignOutStep(j))
                     /\ SF_vars(Exchange(j)) /\ SF_vars(Receive(j))
FairSpec == Spec /\ Fairness

------------------------------------------------------------------------------
(* Properties.                                                             *)

\* Every variable keeps its type.
TypeOK ==
  /\ status \in [Tokens -> TokenStatus]
  /\ owner \in [Tokens -> Accounts \cup {None}]
  /\ succ \in [Tokens -> Tokens \cup {None}]
  /\ handoff \in Accounts \cup {None}
  /\ token \in Tokens \cup {None}
  /\ profile \in Accounts \cup {None}
  /\ session \in [Tabs -> SessionState]
  /\ held \in [Tabs -> Accounts \cup {None}]
  /\ armed \in [Tabs -> BOOLEAN] /\ syncing \in [Tabs -> BOOLEAN]
  /\ usable \in [Tabs -> BOOLEAN]
  /\ job \in [Jobs -> Job]

\* Replication never outlives the session it was started for: every way out of
\* "signed-in" - a refusal, another tab's sign-out, this tab's own - ends it, and
\* no request that was under way then starts it again (app-shell.ts).
SyncWithinSession == \A t \in Tabs : syncing[t] => session[t] = "signed-in"

\* A tab never waits for two token requests, nor for one beside a scheduled one:
\* each consumes the token the other presents (token-refresher.ts).
OneRefreshPerTab ==
  \A t \in Tabs :
    /\ \A i, j \in LiveRefresh(t) : i = j
    /\ armed[t] => LiveRefresh(t) = {}

\* The loop never dies quietly: a tab that may still have a session, and is not
\* signing out, has a refresh under way or scheduled, whatever failed on the way.
RefresherAlive ==
  \A t \in Tabs :
    session[t] \in {"unknown", "signed-in", "offline-held"} /\ ~Busy(t, "signout")
      => armed[t] \/ LiveRefresh(t) # {}

TokenSettled == \A j \in Jobs : job[j].kind \notin {"refresh", "signin", "signout"}

\* When no exchange, sign-in or sign-out is under way, the stored token is one
\* the server takes: writing the answer back whenever it differs is all a client
\* has to do under rotation (composition.ts, requestTokens).
StoredTokenAccepted ==
  token # None /\ handoff = None /\ TokenSettled => status[token] \in {"live", "grace"}

\* A signed-in tab between two refreshes can renew its session.
RenewableWhileSignedIn ==
  \A t \in Tabs : session[t] = "signed-in" /\ armed[t]
                  => token # None /\ status[token] \in {"live", "grace"}

\* Nobody is told that the session has ended (token-refresher.ts: a network blip
\* must never sign anybody out).  To be asked where nobody revokes anything.
NeverExpires == \A t \in Tabs : session[t] # "expired"

\* A tab that offers Sign in, with nothing under way, holds no access token.
QuietTabHoldsNothing ==
  \A t \in Tabs : session[t] \in {"signed-out", "expired"} /\ Quiet(t) => held[t] = None

\* The stored token never sits beside another account's profile (tokens.ts).
\* Meant, and not kept: the README says how the code breaks it.
NeverBesideAnother == token # None /\ profile # None => owner[token] = profile

\* A refresh, which stores a token of the same account, forgets no profile
\* (tokens.ts: nothing is forgotten then).
\* Meant, and not kept: the README says how the code breaks it.
RefreshKeepsProfile ==
  [][\A j \in Jobs : /\ job[j].kind = "refresh" /\ ForgetRemove(j)
                     /\ token # None /\ owner[token] = owner[job[j].got]
                     => UNCHANGED profile]_vars

\* Once a sign-out has cleared the stored token, a refresh it stopped stores
\* nothing (composition.ts: an aborted request changes nothing).
\* Meant, and not kept: the README says how the code breaks it.
StoppedRefreshStoresNothing ==
  [][\A i, j \in Jobs : /\ job[i].kind = "signout" /\ job[i].pc \in {"revoke", "destroy"}
                        /\ job[j].kind = "refresh" /\ ~job[j].live
                        /\ job[j].tab = job[i].tab /\ WritePut(j)
                        => UNCHANGED token]_vars

\* A sign-out ends, and leaves the tab signed out, whatever is lost on the way.
SignOutCompletes ==
  \A t \in Tabs : Busy(t, "signout") ~> ~Busy(t, "signout") /\ session[t] = "signed-out"

\* A tab that does not know its session learns it once the server is heard again:
\* the retries neither stop nor overtake each other.
SessionResolves ==
  \A t \in Tabs : session[t] \in {"unknown", "offline-held"}
                   ~> session[t] \in {"signed-in", "signed-out", "expired"}
-----------------------------------------------------------------------------
\* For the runs: no name is special, so any may stand for another.
Symmetry ==
  Permutations(Tabs) \cup Permutations(Jobs) \cup Permutations(Accounts) \cup Permutations(Tokens)
=============================================================================
