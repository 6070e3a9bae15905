--------------------------- MODULE SessionProofs ---------------------------
(***************************************************************************)
(* Theorems of Session, for any number of tabs, calls in flight, accounts  *)
(* and token names, and for every fault but overlapping sign-ins:          *)
(*   - every variable keeps its type;                                      *)
(*   - replication never outlives its session (SyncWithinSession);         *)
(*   - a tab never has two refreshes, nor one beside an armed timer        *)
(*     (OneRefreshPerTab);                                                 *)
(*   - the refresher of a session that goes on never dies                  *)
(*     (RefresherAlive).                                                   *)
(* The three follow from one invariant of a tab, TabInv.  What it says of  *)
(* a job is its kind, its tab and whether it is live, so most steps keep   *)
(* it because they keep these; the others are the five lemmas of section 3.*)
(* Section 5: while nothing fails, the session of a tab that is alone can  *)
(* always be renewed and never ends by itself, from a second invariant of  *)
(* a tab, Steady.                                                          *)
(***************************************************************************)
EXTENDS Session, TLAPS

Live(j, t) == job[j].kind = "refresh" /\ job[j].tab = t /\ job[j].live
IsIn(j, t) == job[j].kind = "signin" /\ job[j].tab = t
IsOut(j, t) == job[j].kind = "signout" /\ job[j].tab = t

\* Every call in flight belongs to a tab.
Placed == \A j \in Jobs : job[j].kind # "none" => job[j].tab \in Tabs

\* One tab, its session and its jobs: a refresh under way excludes the timer and
\* any other; a sign-out has stopped both and replication; a sign-in is alone.
TabInv(t) ==
  /\ \A i, j \in Jobs : Live(i, t) /\ Live(j, t) => i = j
  /\ \A j \in Jobs : Live(j, t) => ~armed[t]
  /\ syncing[t] => session[t] = "signed-in"
  /\ \A j \in Jobs : IsOut(j, t) =>
       /\ session[t] \in {"signed-in", "offline-held"} /\ ~armed[t] /\ ~syncing[t]
       /\ \A i \in Jobs : ~Live(i, t) /\ (IsOut(i, t) => i = j)
  /\ \A j \in Jobs : IsIn(j, t) =>
       /\ session[t] \in {"signed-out", "expired"} /\ ~armed[t]
       /\ \A i \in Jobs : ~Live(i, t) /\ (IsIn(i, t) => i = j)
  /\ session[t] \in {"unknown", "signed-in", "offline-held"} =>
       armed[t] \/ \E j \in Jobs : Live(j, t) \/ IsOut(j, t)

TypeInv == TypeOK /\ Placed
IInv == TypeInv /\ \A t \in Tabs : TabInv(t)

------------------------------------------------------------------------------
(* 1. Types.                                                               *)

Jobtype == [Jobs -> Job]

LEMMA NewTyped ==
  ASSUME NEW kind \in Kind, NEW t \in Tabs, NEW pc \in Step, NEW u \in BOOLEAN,
         NEW who \in Accounts \cup {None}
  PROVE  New(kind, t, pc, u, who) \in Job /\ Idle \in Job
BY DEF New, Idle, Job, Kind, Step, Seen

LEMMA IdleTyped == Idle \in Job
BY DEF New, Idle, Job, Kind, Step, Seen

\* What the functions over all jobs keep.
LEMMA JobsTyped ==
  ASSUME NEW jobs \in Jobtype, NEW t
  PROVE  /\ TouchToken(jobs) \in Jobtype /\ TouchProfile(jobs) \in Jobtype
         /\ StopRefresher(jobs, t) \in Jobtype /\ EndReplication(jobs, t) \in Jobtype
<1>1. \A j \in Jobs : /\ jobs[j] \in Job
                      /\ [jobs[j] EXCEPT !.rev = "stale"] \in Job
                      /\ [jobs[j] EXCEPT !.prev = "stale"] \in Job
                      /\ [jobs[j] EXCEPT !.live = FALSE] \in Job
  <2> TAKE j \in Jobs
  <2>1. jobs[j] \in Job
    BY DEF Jobtype
  <2> QED BY <2>1 DEF Job, Seen
<1>2. TouchToken(jobs) \in Jobtype
  BY <1>1 DEF Jobtype, TouchToken
<1>3. TouchProfile(jobs) \in Jobtype
  BY <1>1 DEF Jobtype, TouchProfile
<1>4. StopRefresher(jobs, t) \in Jobtype
  BY <1>1 DEF Jobtype, StopRefresher
<1>5. EndReplication(jobs, t) \in Jobtype
  BY <1>1 DEF Jobtype, EndReplication
<1> QED BY <1>2, <1>3, <1>4, <1>5

TabsTyped ==
  /\ session \in [Tabs -> SessionState]
  /\ held \in [Tabs -> Accounts \cup {None}]
  /\ armed \in [Tabs -> BOOLEAN] /\ syncing \in [Tabs -> BOOLEAN]
  /\ usable \in [Tabs -> BOOLEAN]

\* Every call in J belongs to a tab.
PlacedIn(J) == \A j \in Jobs : J[j].kind # "none" => J[j].tab \in Tabs

LEMMA OutcomeTyped ==
  ASSUME TypeInv, NEW j \in Jobs, job[j].kind # "none", NEW J \in Jobtype, PlacedIn(J),
         NEW kind, NEW stored, Outcome(j, J, kind, stored)
  PROVE  TabsTyped' /\ job' \in Jobtype /\ PlacedIn(job')
<1> DEFINE t == job[j].tab
<1>1. t \in Tabs /\ TabsTyped
  BY DEF TypeInv, TypeOK, Placed, TabsTyped
<1>2. Idle \in Job /\ Idle.kind = "none"
  BY IdleTyped DEF Idle, New
<1>3. [J EXCEPT ![j] = Idle] \in Jobtype /\ PlacedIn([J EXCEPT ![j] = Idle])
  BY <1>2 DEF Jobtype, PlacedIn
<1>4. CASE Silent(j, J)
  BY <1>1, <1>3, <1>4 DEF Silent, tabs, TabsTyped
<1>5. CASE Refreshed(j, J)
  <2> DEFINE n == New("follow", t, "begin", usable[t], None)
  <2>1. n \in Job /\ n.tab \in Tabs
    <3>1. usable[t] \in BOOLEAN
      BY <1>1 DEF TabsTyped
    <3> QED BY <1>1, <3>1, NewTyped DEF Kind, Step, New
  <2>2. [J EXCEPT ![j] = n] \in Jobtype /\ PlacedIn([J EXCEPT ![j] = n])
    BY <2>1 DEF Jobtype, PlacedIn
  <2>3. job' \in Jobtype /\ PlacedIn(job')
    BY <1>3, <1>5, <2>2 DEF Refreshed
  <2>4. TabsTyped'
    BY <1>1, <1>5 DEF Refreshed, TabsTyped, SessionState
  <2> QED BY <2>3, <2>4
<1>6. CASE Unreachable(j, J, stored)
  BY <1>1, <1>3, <1>6 DEF Unreachable, TabsTyped, SessionState
<1>7. EndReplication([J EXCEPT ![j] = Idle], t) \in Jobtype
      /\ PlacedIn(EndReplication([J EXCEPT ![j] = Idle], t))
  <2>1. EndReplication([J EXCEPT ![j] = Idle], t) \in Jobtype
    BY <1>3, JobsTyped
  <2> QED BY <1>3, <2>1 DEF PlacedIn, EndReplication, Jobtype, Job
<1>8. CASE SignedOut(j, J)
  <2>1. TabsTyped'
    BY <1>1, <1>8 DEF SignedOut, TabsTyped, SessionState
  <2> QED BY <1>3, <1>7, <1>8, <2>1 DEF SignedOut
<1>9. CASE Ended(j, J)
  <2>1. TabsTyped'
    BY <1>1, <1>9 DEF Ended, TabsTyped, SessionState
  <2> QED BY <1>7, <1>9, <2>1 DEF Ended
<1> QED BY <1>4, <1>5, <1>6, <1>8, <1>9 DEF Outcome
ServerTyped ==
  /\ status \in [Tokens -> TokenStatus]
  /\ owner \in [Tokens -> Accounts \cup {None}]
  /\ succ \in [Tokens -> Tokens \cup {None}]
  /\ handoff \in Accounts \cup {None}
StoreTyped == token \in Tokens \cup {None} /\ profile \in Accounts \cup {None}
JobTyped == job \in Jobtype /\ PlacedIn(job)

LEMMA TypeParts == TypeInv <=> ServerTyped /\ StoreTyped /\ TabsTyped /\ JobTyped
BY DEF TypeInv, TypeOK, ServerTyped, StoreTyped, TabsTyped, JobTyped, Jobtype, PlacedIn, Placed

\* One job takes a step.
LEMMA Moved ==
  ASSUME JobTyped, NEW j \in Jobs, NEW J \in Jobtype, PlacedIn(J), NEW r \in Job,
         r.kind # "none" => r.tab \in Tabs, job' = [J EXCEPT ![j] = r]
  PROVE  JobTyped'
BY DEF JobTyped, Jobtype, PlacedIn

LEMMA MintTyped ==
  ASSUME TypeInv, NEW k \in Tokens, NEW a \in Accounts \cup {None}, NEW from \in SUBSET Tokens,
         Mint(k, a, from)
  PROVE  /\ status' \in [Tokens -> TokenStatus]
         /\ owner' \in [Tokens -> Accounts \cup {None}]
         /\ succ' \in [Tokens -> Tokens \cup {None}]
BY DEF Mint, TypeInv, TypeOK, TokenStatus

LEMMA AnswerTyped ==
  ASSUME TypeInv, NEW j \in Jobs, NEW k \in Tokens \cup {None}, NEW a \in Accounts \cup {None},
         Answer(j, k, a)
  PROVE  JobTyped'
<1>1. job[j] \in Job /\ (job[j].kind # "none" => job[j].tab \in Tabs) /\ JobTyped
  BY TypeParts DEF JobTyped, Jobtype, PlacedIn
<1> DEFINE r == [job[j] EXCEPT !.pc = "answered", !.got = k, !.who = a]
<1>2. r \in Job /\ r.kind = job[j].kind /\ r.tab = job[j].tab
  BY <1>1 DEF Job, Step
<1>3. job' = [job EXCEPT ![j] = r]
  BY <1>1 DEF Answer, Job, Jobtype, JobTyped
<1>4. job \in Jobtype /\ PlacedIn(job)
  BY <1>1 DEF JobTyped
<1> HIDE DEF r
<1> QED BY <1>1, <1>2, <1>3, <1>4, Moved

LEMMA ServerTypes ==
  ASSUME TypeInv, ServerStep
  PROVE  TypeInv'
<1>0. ServerTyped /\ StoreTyped /\ TabsTyped /\ JobTyped
  BY TypeParts
<1>1. ASSUME NEW j \in Jobs, Exchange(j)
      PROVE  TypeInv'
  <2> DEFINE k == job[j].sent
  <2>1. k \in Tokens \cup {None}
    BY <1>0 DEF JobTyped, Jobtype, Job
  <2>2. StoreTyped' /\ TabsTyped'
    BY <1>0, <1>1 DEF Exchange, store, tabs, StoreTyped, TabsTyped
  <2>3. CASE /\ \E n \in Tokens : Mint(n, handoff, {}) /\ Answer(j, n, handoff)
             /\ handoff' = None
    <3>1. handoff \in Accounts \cup {None}
      BY <1>0 DEF ServerTyped
    <3>2. JobTyped'
      BY <2>3, <3>1, AnswerTyped
    <3>3. ServerTyped'
      BY <2>3, <3>1, MintTyped DEF ServerTyped
    <3> QED BY <2>2, <3>2, <3>3, TypeParts, PTL
  <2>4. CASE /\ k # None /\ \E n \in Tokens : Mint(n, owner[k], {k}) /\ Answer(j, n, owner[k])
             /\ UNCHANGED handoff
    <3>1. owner[k] \in Accounts \cup {None} /\ {k} \in SUBSET Tokens
      BY <1>0, <2>1, <2>4 DEF ServerTyped
    <3>2. JobTyped'
      BY <2>4, <3>1, AnswerTyped
    <3>3. ServerTyped'
      BY <1>0, <2>4, <3>1, MintTyped DEF ServerTyped
    <3> QED BY <2>2, <3>2, <3>3, TypeParts, PTL
  <2>5. CASE /\ Answer(j, None, None)
             /\ status' = [l \in Tokens |->
                             IF k # None /\ status[k] = "consumed" /\ owner[l] = owner[k]
                             THEN "gone" ELSE status[l]]
             /\ UNCHANGED <<owner, succ, handoff>>
    <3>1. JobTyped'
      BY <2>5, AnswerTyped
    <3>2. ServerTyped'
      BY <1>0, <2>5 DEF ServerTyped, TokenStatus
    <3> QED BY <2>2, <3>1, <3>2, TypeParts, PTL
  <2> QED BY <1>1, <2>3, <2>4, <2>5 DEF Exchange
<1>2. ASSUME NEW j \in Jobs, Verify(j)
      PROVE  TypeInv'
  <2>1. job[j].who \in Accounts \cup {None} /\ {} \in SUBSET Tokens
    BY <1>0 DEF JobTyped, Jobtype, Job
  <2>2. PICK n \in Tokens : Mint(n, job[j].who, {}) /\ Answer(j, n, job[j].who)
    BY <1>2 DEF Verify
  <2>3. JobTyped'
    BY <2>1, <2>2, AnswerTyped
  <2>4. ServerTyped'
    BY <1>0, <1>2, <2>1, <2>2, MintTyped DEF ServerTyped, Verify
  <2>5. StoreTyped' /\ TabsTyped'
    BY <1>0, <1>2 DEF Verify, store, tabs, StoreTyped, TabsTyped
  <2> QED BY <2>3, <2>4, <2>5, TypeParts, PTL
<1>3. ASSUME UNCHANGED <<owner, succ, handoff, store, tabs, job>>,
             status' \in [Tokens -> TokenStatus]
      PROVE  TypeInv'
  BY <1>3 DEF TypeInv, TypeOK, Placed, store, tabs
<1>4. ASSUME NEW k \in Tokens, GraceEnds(k)
      PROVE  TypeInv'
  <2>1. status' \in [Tokens -> TokenStatus]
    BY <1>0, <1>4 DEF GraceEnds, ServerTyped, TokenStatus
  <2> QED BY <1>3, <1>4, <2>1 DEF GraceEnds
<1>5. ASSUME NEW a \in Accounts, Revoke(a)
      PROVE  TypeInv'
  <2>1. status' \in [Tokens -> TokenStatus]
    BY <1>0, <1>5 DEF Revoke, ServerTyped, TokenStatus
  <2> QED BY <1>3, <1>5, <2>1 DEF Revoke
<1> QED BY <1>1, <1>2, <1>4, <1>5 DEF ServerStep

LEMMA LoadTypes ==
  ASSUME TypeInv, NEW t \in Tabs, Load(t)
  PROVE  TabsTyped' /\ JobTyped'
<1>1. TabsTyped /\ JobTyped
  BY TypeParts
<1>2. Idle \in Job /\ Idle.kind = "none"
  BY IdleTyped DEF Idle, New
<1>3. TabsTyped'
  BY <1>1 DEF Load, TabsTyped, SessionState
<1>4. JobTyped'
  BY <1>1, <1>2 DEF Load, JobTyped, Jobtype, PlacedIn
<1> QED BY <1>3, <1>4

LEMMA TabTypes ==
  ASSUME TypeInv, NEW t \in Tabs, TabStep(t)
  PROVE  TypeInv'
<1>0. ServerTyped /\ StoreTyped /\ TabsTyped /\ JobTyped
  BY TypeParts
<1>0a. job \in Jobtype /\ PlacedIn(job) /\ usable[t] \in BOOLEAN
       /\ held[t] \in Accounts \cup {None}
  BY <1>0 DEF JobTyped, TabsTyped
<1>1. CASE RunRefresh(t)
  <2>1. PICK j \in Jobs : job' = [job EXCEPT ![j] = New("refresh", t, "read", usable[t], None)]
    BY <1>1 DEF RunRefresh
  <2> DEFINE r == New("refresh", t, "read", usable[t], None)
  <2>2. r \in Job /\ r.tab = t
    BY <1>0a, NewTyped DEF Kind, Step, New
  <2>3. JobTyped'
    <3> HIDE DEF r
    <3> QED BY <1>0, <1>0a, <2>1, <2>2, Moved DEF r
  <2>4. ServerTyped' /\ StoreTyped' /\ TabsTyped'
    BY <1>0, <1>1 DEF RunRefresh, server, store, ServerTyped, StoreTyped, TabsTyped
  <2> QED BY <2>3, <2>4, TypeParts, PTL
<1>2. CASE Reload(t)
  <2>1. ServerTyped' /\ StoreTyped'
    BY <1>0, <1>2 DEF Reload, server, store, ServerTyped, StoreTyped
  <2>2. TabsTyped' /\ JobTyped'
    BY <1>2, LoadTypes DEF Reload
  <2> QED BY <2>1, <2>2, TypeParts, PTL
<1>3. ASSUME NEW a \in Accounts, RedirectSignIn(t, a)
      PROVE  TypeInv'
  <2>1. ServerTyped' /\ StoreTyped'
    BY <1>0, <1>3 DEF RedirectSignIn, store, ServerTyped, StoreTyped
  <2>2. TabsTyped' /\ JobTyped'
    BY <1>3, LoadTypes DEF RedirectSignIn
  <2> QED BY <2>1, <2>2, TypeParts, PTL
<1>4. CASE StartSignOut(t)
  <2> DEFINE J == EndReplication(StopRefresher(job, t), t)
             r == New("signout", t, "read", usable[t], None)
  <2>1. PICK j \in Jobs : job' = [J EXCEPT ![j] = r]
    BY <1>4 DEF StartSignOut
  <2>2. r \in Job /\ r.tab = t
    BY <1>0a, NewTyped DEF Kind, Step, New
  <2>3. J \in Jobtype
    BY <1>0a, JobsTyped
  <2>4. PlacedIn(J)
    BY <1>0a DEF PlacedIn, EndReplication, StopRefresher, Jobtype, Job
  <2>5. JobTyped'
    <3> HIDE DEF r, J
    <3> QED BY <1>0, <2>1, <2>2, <2>3, <2>4, Moved
  <2>6. ServerTyped' /\ StoreTyped' /\ TabsTyped'
    BY <1>0, <1>4 DEF StartSignOut, server, store, ServerTyped, StoreTyped, TabsTyped
  <2> QED BY <2>5, <2>6, TypeParts, PTL
<1>5. CASE StartReread(t)
  <2> DEFINE r == New("reread", t, "fetch", usable[t], held[t])
  <2>1. PICK j \in Jobs : job' = [job EXCEPT ![j] = r]
    BY <1>5 DEF StartReread
  <2>2. r \in Job /\ r.tab = t
    <3>1. "reread" \in Kind /\ "fetch" \in Step
      BY DEF Kind, Step
    <3>2. usable[t] \in BOOLEAN /\ held[t] \in Accounts \cup {None}
      BY <1>0a
    <3>3. r \in Job
      BY <3>1, <3>2, NewTyped, Zenon
    <3>4. r.tab = t
      BY DEF New
    <3> QED BY <3>3, <3>4, Zenon
  <2>3. JobTyped'
    <3> HIDE DEF r
    <3> QED BY <1>0, <1>0a, <2>1, <2>2, Moved
  <2>4. ServerTyped' /\ StoreTyped' /\ TabsTyped'
    BY <1>0, <1>5 DEF StartReread, server, store, tabs, ServerTyped, StoreTyped, TabsTyped
  <2> QED BY <2>3, <2>4, TypeParts, PTL
<1>6. CASE AccessTokenExpires(t)
  <2>1. TabsTyped'
    BY <1>0, <1>6 DEF AccessTokenExpires, TabsTyped
  <2>2. ServerTyped' /\ StoreTyped' /\ JobTyped'
    BY <1>0, <1>6 DEF AccessTokenExpires, server, store, ServerTyped, StoreTyped, JobTyped
  <2> QED BY <2>1, <2>2, TypeParts, PTL
<1>7. ASSUME NEW a \in Accounts, StartSignIn(t, a)
      PROVE  TypeInv'
  <2> DEFINE r == New("signin", t, "asked", usable[t], a)
  <2>1. PICK j \in Jobs : job' = [job EXCEPT ![j] = r]
    BY <1>7 DEF StartSignIn
  <2>2. r \in Job /\ r.tab = t
    BY <1>0a, NewTyped DEF Kind, Step, New
  <2>3. JobTyped'
    <3> HIDE DEF r
    <3> QED BY <1>0, <1>0a, <2>1, <2>2, Moved
  <2>4. ServerTyped' /\ StoreTyped' /\ TabsTyped'
    BY <1>0, <1>7 DEF StartSignIn, server, store, tabs, ServerTyped, StoreTyped, TabsTyped
  <2> QED BY <2>3, <2>4, TypeParts, PTL
<1> QED BY <1>1, <1>2, <1>3, <1>4, <1>5, <1>6, <1>7 DEF TabStep

\* What is known of a call in flight.
LEMMA JobKnown ==
  ASSUME TypeInv, NEW j \in Jobs
  PROVE  /\ job \in Jobtype /\ PlacedIn(job) /\ job[j] \in Job
         /\ job[j].kind # "none" => job[j].tab \in Tabs
         /\ job[j].sent \in Tokens \cup {None} /\ job[j].got \in Tokens \cup {None}
         /\ job[j].who \in Accounts \cup {None}
BY TypeParts DEF JobTyped, Jobtype, PlacedIn, Job

LEMMA EndsTyped ==
  ASSUME TypeInv, NEW j \in Jobs, NEW J \in Jobtype, PlacedIn(J), job' = [J EXCEPT ![j] = Idle]
  PROVE  JobTyped'
<1>1. Idle \in Job /\ Idle.kind = "none" /\ JobTyped
  BY IdleTyped, TypeParts DEF Idle, New
<1> QED BY <1>1, Moved

\* A step that reports an outcome, with the jobs touched or not.
LEMMA OutcomeTypes ==
  ASSUME TypeInv, NEW j \in Jobs, job[j].kind # "none", NEW J \in Jobtype, PlacedIn(J),
         NEW kind, NEW stored, Outcome(j, J, kind, stored), UNCHANGED server, StoreTyped'
  PROVE  TypeInv'
<1>1. TabsTyped' /\ JobTyped'
  BY OutcomeTyped DEF JobTyped
<1>2. ServerTyped'
  BY TypeParts DEF ServerTyped, server
<1> QED BY <1>1, <1>2, TypeParts, PTL

LEMMA Touched ==
  ASSUME TypeInv
  PROVE  /\ TouchToken(job) \in Jobtype /\ PlacedIn(TouchToken(job))
         /\ TouchProfile(job) \in Jobtype /\ PlacedIn(TouchProfile(job))
<1>1. job \in Jobtype /\ PlacedIn(job)
  BY TypeParts DEF JobTyped
<1>2. TouchToken(job) \in Jobtype /\ TouchProfile(job) \in Jobtype
  BY <1>1, JobsTyped
<1> QED BY <1>1, <1>2 DEF PlacedIn, TouchToken, TouchProfile, Jobtype, Job

LEMMA AnswerTypes ==
  ASSUME TypeInv, NEW j \in Jobs, ReadToken(j) \/ NoAnswer(j) \/ Receive(j)
  PROVE  TypeInv'
<1>0. ServerTyped /\ StoreTyped /\ TabsTyped /\ JobTyped
  BY TypeParts
<1>0a. /\ job \in Jobtype /\ PlacedIn(job) /\ job[j] \in Job
       /\ job[j].kind # "none" => job[j].tab \in Tabs
  BY JobKnown
<1>1. UNCHANGED <<server, store>> /\ ServerTyped' /\ StoreTyped'
  BY <1>0 DEF ReadToken, NoAnswer, Receive, server, store, ServerTyped, StoreTyped
<1>2. ASSUME NEW kind, NEW stored, job[j].kind # "none", Outcome(j, job, kind, stored)
      PROVE  TypeInv'
  BY <1>0a, <1>1, <1>2, OutcomeTypes
<1>3. CASE ReadToken(j)
  <2> DEFINE stored == IF job[j].usable THEN token ELSE None
  <2>1. job[j].kind # "none"
    BY <1>3 DEF ReadToken, At
  <2>2. CASE Outcome(j, job, "unreachable", stored # None)
    BY <1>2, <2>1, <2>2
  <2>3. CASE job' = [job EXCEPT ![j].pc = "asked", ![j].sent = stored] /\ UNCHANGED tabs
    <3>1. JobTyped'
      BY <1>0, <1>0a, <2>3 DEF JobTyped, Jobtype, PlacedIn, Job, Step, StoreTyped
    <3>2. TabsTyped'
      BY <1>0, <2>3 DEF tabs, TabsTyped
    <3> QED BY <1>1, <3>1, <3>2, TypeParts, PTL
  <2> QED BY <1>3, <2>2, <2>3 DEF ReadToken
<1>4. CASE NoAnswer(j)
  <2>1. CASE job[j].kind = "refresh" /\ Outcome(j, job, "unreachable", job[j].sent # None)
    BY <1>2, <2>1
  <2>2. CASE job' = [job EXCEPT ![j] = Idle] /\ UNCHANGED tabs
    <3>1. JobTyped' /\ TabsTyped'
      BY <1>0, <1>0a, <2>2, EndsTyped DEF tabs, TabsTyped
    <3> QED BY <1>1, <3>1, TypeParts, PTL
  <2> QED BY <1>4, <2>1, <2>2 DEF NoAnswer
<1>5. CASE Receive(j)
  <2>1. job[j].kind # "none"
    BY <1>5 DEF Receive, At
  <2>2. CASE \/ Outcome(j, job, "unreachable", job[j].sent # None)
             \/ Outcome(j, job, "signed-out", FALSE)
    BY <1>2, <2>1, <2>2
  <2>3. CASE /\ held' = [held EXCEPT ![job[j].tab] = job[j].who]
             /\ job' = [job EXCEPT ![j].pc = "writeGet", ![j].who = None]
             /\ UNCHANGED <<session, armed, syncing, usable>>
    <3>1. JobTyped'
      BY <1>0a, <2>3 DEF JobTyped, Jobtype, PlacedIn, Job, Step
    <3>2. TabsTyped'
      BY <1>0, <2>3, JobKnown DEF TabsTyped
    <3> QED BY <1>1, <3>1, <3>2, TypeParts, PTL
  <2>4. CASE job' = [job EXCEPT ![j].pc = "clearGet"] /\ UNCHANGED tabs
    <3>1. JobTyped'
      BY <1>0a, <2>4 DEF JobTyped, Jobtype, PlacedIn, Job, Step
    <3>2. TabsTyped'
      BY <1>0, <2>4 DEF tabs, TabsTyped
    <3> QED BY <1>1, <3>1, <3>2, TypeParts, PTL
  <2> QED BY <1>5, <2>2, <2>3, <2>4 DEF Receive
<1> QED BY <1>3, <1>4, <1>5

LEMMA WriteTypes ==
  ASSUME TypeInv, NEW j \in Jobs, WriteGet(j) \/ ForgetGet(j) \/ ForgetRemove(j) \/ WritePut(j)
  PROVE  TypeInv'
<1>0. ServerTyped /\ StoreTyped /\ TabsTyped /\ JobTyped
  BY TypeParts
<1>0a. /\ job \in Jobtype /\ PlacedIn(job) /\ job[j] \in Job
       /\ job[j].kind # "none" => job[j].tab \in Tabs
  BY JobKnown
<1>0b. UNCHANGED server /\ ServerTyped' /\ job[j].kind # "none"
  BY <1>0 DEF WriteGet, ForgetGet, ForgetRemove, WritePut, server, ServerTyped, At
<1>1. CASE WriteGet(j) \/ ForgetGet(j)
  <2>1. JobTyped'
    BY <1>0a, <1>1 DEF WriteGet, ForgetGet, JobTyped, Jobtype, PlacedIn, Job, Step, Seen
  <2>2. StoreTyped' /\ TabsTyped'
    BY <1>0, <1>1 DEF WriteGet, ForgetGet, store, tabs, StoreTyped, TabsTyped
  <2> QED BY <1>0b, <2>1, <2>2, TypeParts, PTL
<1>2. CASE ForgetRemove(j)
  <2>1. StoreTyped' /\ TabsTyped'
    BY <1>0, <1>2 DEF ForgetRemove, tabs, StoreTyped, TabsTyped
  <2>2. \E J \in {job, TouchProfile(job)} :
           job' = [J EXCEPT ![j].pc = "put", ![j].prev = "missing"]
    BY <1>2 DEF ForgetRemove
  <2>3. ASSUME NEW J \in Jobtype, PlacedIn(J),
               job' = [J EXCEPT ![j].pc = "put", ![j].prev = "missing"]
        PROVE  JobTyped'
    <3> DEFINE r == [J[j] EXCEPT !.pc = "put", !.prev = "missing"]
    <3>1. J[j] \in Job /\ (J[j].kind # "none" => J[j].tab \in Tabs)
      BY <2>3 DEF Jobtype, PlacedIn
    <3>2. r \in Job /\ (r.kind # "none" => r.tab \in Tabs)
      BY <3>1 DEF Job, Step, Seen
    <3>3. job' = [J EXCEPT ![j] = r]
      BY <2>3, <3>1 DEF Jobtype, Job
    <3> HIDE DEF r
    <3> QED BY <1>0, <2>3, <3>2, <3>3, Moved
  <2>4. JobTyped'
    BY <1>0a, <2>2, <2>3, Touched
  <2> QED BY <1>0b, <2>1, <2>4, TypeParts, PTL
<1>3. CASE WritePut(j)
  <2>1. StoreTyped'
    BY <1>0, <1>3, JobKnown DEF WritePut, StoreTyped
  <2>2. CASE Written(j, TouchToken(job))
    <3> DEFINE t == job[j].tab
               J == StopRefresher(TouchToken(job), t)
               r == New("refresh", t, "read", usable[t], None)
    <3>1. CASE Outcome(j, TouchToken(job), "refreshed", TRUE)
      BY <1>0b, <2>1, <3>1, OutcomeTypes, Touched
    <3>2. CASE /\ job' = [J EXCEPT ![j] = r]
               /\ armed' = [armed EXCEPT ![t] = FALSE]
               /\ UNCHANGED <<session, held, syncing, usable>>
      <4>1. TabsTyped' /\ usable[t] \in BOOLEAN
        BY <1>0, <1>0a, <1>0b, <3>2 DEF TabsTyped
      <4>2. r \in Job /\ r.tab \in Tabs
        BY <1>0a, <1>0b, <4>1, NewTyped DEF Kind, Step, New
      <4>3. J \in Jobtype
        BY Touched, JobsTyped
      <4>4. PlacedIn(J)
        BY Touched DEF PlacedIn, StopRefresher, Jobtype, Job
      <4>5. JobTyped'
        <5> HIDE DEF r, J
        <5> QED BY <1>0, <3>2, <4>2, <4>3, <4>4, Moved
      <4> QED BY <1>0b, <2>1, <4>1, <4>5, TypeParts, PTL
    <3> QED BY <2>2, <3>1, <3>2 DEF Written
  <2>3. CASE NotWritten(j)
    <3>1. CASE Outcome(j, job, "unreachable", FALSE)
      BY <1>0a, <1>0b, <2>1, <3>1, OutcomeTypes
    <3>2. CASE /\ job' = [job EXCEPT ![j] = Idle]
               /\ held' = [held EXCEPT ![job[j].tab] = None]
               /\ UNCHANGED <<session, armed, syncing, usable>>
      <4>1. JobTyped'
        BY <1>0a, <3>2, EndsTyped
      <4>2. TabsTyped'
        BY <1>0, <3>2 DEF TabsTyped
      <4> QED BY <1>0b, <2>1, <4>1, <4>2, TypeParts, PTL
    <3> QED BY <2>3, <3>1, <3>2 DEF NotWritten
  <2> QED BY <1>3, <2>2, <2>3 DEF WritePut
<1> QED BY <1>1, <1>2, <1>3

LEMMA ClearTypes ==
  ASSUME TypeInv, NEW j \in Jobs, ClearGet(j) \/ ClearRemove(j)
  PROVE  TypeInv'
<1>0. ServerTyped /\ StoreTyped /\ TabsTyped /\ JobTyped
  BY TypeParts
<1>0a. /\ job \in Jobtype /\ PlacedIn(job) /\ job[j] \in Job
       /\ job[j].kind # "none" => job[j].tab \in Tabs
  BY JobKnown
<1>0b. UNCHANGED server /\ ServerTyped' /\ StoreTyped' /\ job[j].kind # "none"
  BY <1>0 DEF ClearGet, ClearRemove, server, store, ServerTyped, StoreTyped, At
<1>1. ASSUME NEW J \in Jobtype, PlacedIn(J), NEW ok, Cleared(j, J, ok)
      PROVE  TypeInv'
  <2>1. CASE Outcome(j, J, IF ok THEN "ended" ELSE "unreachable", FALSE)
    BY <1>0b, <1>1, <2>1, OutcomeTypes
  <2>2. CASE job' = [J EXCEPT ![j].pc = "revoke", ![j].rev = "missing"] /\ UNCHANGED tabs
    <3> DEFINE r == [J[j] EXCEPT !.pc = "revoke", !.rev = "missing"]
    <3>1. J[j] \in Job /\ (J[j].kind # "none" => J[j].tab \in Tabs)
      BY <1>1 DEF Jobtype, PlacedIn
    <3>2. r \in Job /\ (r.kind # "none" => r.tab \in Tabs)
      BY <3>1 DEF Job, Step, Seen
    <3>3. job' = [J EXCEPT ![j] = r]
      BY <1>1, <2>2, <3>1 DEF Jobtype, Job
    <3>4. JobTyped'
      <4> HIDE DEF r
      <4> QED BY <1>0, <1>1, <3>2, <3>3, Moved
    <3>5. TabsTyped'
      BY <1>0, <2>2 DEF tabs, TabsTyped
    <3> QED BY <1>0b, <3>4, <3>5, TypeParts, PTL
  <2> QED BY <1>1, <2>1, <2>2 DEF Cleared
<1>2. CASE ClearGet(j)
  <2>1. CASE job' = [job EXCEPT ![j].pc = "clearRemove", ![j].rev = "current"] /\ UNCHANGED tabs
    <3>1. JobTyped'
      <4> DEFINE r == [job[j] EXCEPT !.pc = "clearRemove", !.rev = "current"]
      <4>1. "clearRemove" \in Step /\ "current" \in Seen
        BY DEF Step, Seen
      <4>2. r \in Job /\ (r.kind # "none" => r.tab \in Tabs)
        BY <1>0a, <4>1 DEF Job
      <4>3. job' = [job EXCEPT ![j] = r]
        BY <1>0a, <2>1 DEF Jobtype, Job
      <4> HIDE DEF r
      <4> QED BY <1>0, <1>0a, <4>2, <4>3, Moved
    <3>2. TabsTyped'
      BY <1>0, <2>1 DEF tabs, TabsTyped
    <3> QED BY <1>0b, <3>1, <3>2, TypeParts, PTL
  <2>2. CASE Cleared(j, job, job[j].usable)
    BY <1>0a, <1>1, <2>2
  <2> QED BY <1>2, <2>1, <2>2 DEF ClearGet
<1>3. CASE ClearRemove(j)
  <2>1. CASE Cleared(j, TouchToken(job), TRUE)
    BY <1>1, <2>1, Touched
  <2>2. CASE Cleared(j, job, job[j].usable /\ token = None)
    BY <1>0a, <1>1, <2>2
  <2> QED BY <1>3, <2>1, <2>2 DEF ClearRemove
<1> QED BY <1>2, <1>3

LEMMA SignOutTypes ==
  ASSUME TypeInv, NEW j \in Jobs, SignOutStep(j)
  PROVE  TypeInv'
<1>0. ServerTyped /\ StoreTyped /\ TabsTyped /\ JobTyped
  BY TypeParts
<1>0a. /\ job \in Jobtype /\ PlacedIn(job) /\ job[j] \in Job
       /\ job[j].kind # "none" => job[j].tab \in Tabs
  BY JobKnown
<1>1. CASE TakeCredentials(j)
  <2>1. JobTyped'
    BY <1>0, <1>0a, <1>1 DEF TakeCredentials, JobTyped, Jobtype, PlacedIn, Job, Step, StoreTyped
  <2>2. TabsTyped'
    BY <1>0, <1>1 DEF TakeCredentials, TabsTyped
  <2>3. ServerTyped' /\ StoreTyped'
    BY <1>0, <1>1 DEF TakeCredentials, server, store, ServerTyped, StoreTyped
  <2> QED BY <2>1, <2>2, <2>3, TypeParts, PTL
<1>2. CASE EndServerSession(j)
  <2>1. JobTyped'
    BY <1>0a, <1>2 DEF EndServerSession, JobTyped, Jobtype, PlacedIn, Job, Step
  <2>2. ServerTyped'
    BY <1>0, <1>2 DEF EndServerSession, ServerTyped, TokenStatus
  <2>3. StoreTyped' /\ TabsTyped'
    BY <1>0, <1>2 DEF EndServerSession, store, tabs, StoreTyped, TabsTyped
  <2> QED BY <2>1, <2>2, <2>3, TypeParts, PTL
<1>3. CASE RemoveLocalData(j)
  <2> DEFINE Dead == [i \in Jobs |-> [job[i] EXCEPT !.usable = FALSE]]
  <2>1. Dead \in Jobtype /\ PlacedIn(Dead)
    BY <1>0a DEF Jobtype, PlacedIn, Job
  <2>2. job' = [Dead EXCEPT ![j] = Idle] \/ job' = [job EXCEPT ![j] = Idle]
    BY <1>3 DEF RemoveLocalData
  <2>3. JobTyped'
    <3> HIDE DEF Dead
    <3> QED BY <1>0a, <2>1, <2>2, EndsTyped
  <2>4. TabsTyped' /\ StoreTyped' /\ ServerTyped'
    BY <1>0, <1>3 DEF RemoveLocalData, TabsTyped, StoreTyped, ServerTyped, store, server,
                      SessionState
  <2> QED BY <2>3, <2>4, TypeParts, PTL
<1> QED BY <1>1, <1>2, <1>3 DEF SignOutStep

LEMMA ProfileTypes ==
  ASSUME TypeInv, NEW j \in Jobs, ProfileStep(j)
  PROVE  TypeInv'
<1>0. ServerTyped /\ StoreTyped /\ TabsTyped /\ JobTyped
  BY TypeParts
<1>0a. /\ job \in Jobtype /\ PlacedIn(job) /\ job[j] \in Job
       /\ job[j].kind # "none" => job[j].tab \in Tabs
  BY JobKnown
<1>1. ServerTyped' /\ TabsTyped' /\ StoreTyped' /\ job[j].kind # "none"
  BY <1>0, JobKnown DEF ProfileStep, FollowProfile, ProfileArrives, CacheGet, CachePut, At,
         server, store, tabs, ServerTyped, TabsTyped, StoreTyped
<1>2. ASSUME NEW r \in Job, r.tab = job[j].tab, job' = [job EXCEPT ![j] = r]
      PROVE  JobTyped'
  BY <1>0, <1>0a, <1>1, <1>2, Moved
<1>3. ASSUME NEW J \in Jobtype, PlacedIn(J), job' = [J EXCEPT ![j] = Idle]
      PROVE  JobTyped'
  BY <1>3, EndsTyped
<1>4. CASE FollowProfile(j)
  <2> DEFINE a == held[job[j].tab]
             r == [job[j] EXCEPT !.pc = "fetch", !.who = a]
  <2>1. a \in Accounts \cup {None}
    BY <1>0, <1>0a, <1>1 DEF TabsTyped
  <2>2. r \in Job /\ r.tab = job[j].tab
    BY <1>0a, <2>1 DEF Job, Step
  <2>3. job' = [job EXCEPT ![j] = Idle] \/ job' = [job EXCEPT ![j] = r]
    BY <1>0a, <1>4 DEF FollowProfile, Jobtype
  <2>4. JobTyped'
    <3> HIDE DEF r
    <3> QED BY <1>0a, <1>2, <1>3, <2>2, <2>3
  <2> QED BY <1>1, <2>4, TypeParts, PTL
<1>5. CASE ProfileArrives(j)
  <2> DEFINE r == [job[j] EXCEPT !.pc = "cacheGet"]
  <2>1. r \in Job /\ r.tab = job[j].tab
    BY <1>0a DEF Job, Step
  <2>2. job' = [job EXCEPT ![j] = Idle] \/ job' = [job EXCEPT ![j] = r]
    BY <1>0a, <1>5 DEF ProfileArrives, Jobtype
  <2>3. JobTyped'
    <3> HIDE DEF r
    <3> QED BY <1>0a, <1>2, <1>3, <2>1, <2>2
  <2> QED BY <1>1, <2>3, TypeParts, PTL
<1>6. CASE CacheGet(j)
  <2> DEFINE r == [job[j] EXCEPT !.pc = "cachePut",
                                 !.prev = IF profile = None THEN "missing" ELSE "current"]
  <2>1. r \in Job /\ r.tab = job[j].tab
    <3> DEFINE prev == IF profile = None THEN "missing" ELSE "current"
    <3>1. "cachePut" \in Step /\ prev \in Seen
      BY DEF Step, Seen
    <3> HIDE DEF prev
    <3>2. [job[j] EXCEPT !.pc = "cachePut", !.prev = prev] \in Job
      BY <1>0a, <3>1 DEF Job
    <3>3. [job[j] EXCEPT !.pc = "cachePut", !.prev = prev].tab = job[j].tab
      BY <1>0a DEF Job
    <3> QED BY <3>2, <3>3, Zenon DEF prev
  <2>2. job' = [job EXCEPT ![j] = Idle] \/ job' = [job EXCEPT ![j] = r]
    BY <1>0a, <1>6 DEF CacheGet, Jobtype
  <2>3. JobTyped'
    <3> HIDE DEF r
    <3> QED BY <1>0a, <1>2, <1>3, <2>1, <2>2
  <2> QED BY <1>1, <2>3, TypeParts, PTL
<1>7. CASE CachePut(j)
  <2>1. job' = [job EXCEPT ![j] = Idle] \/ job' = [TouchProfile(job) EXCEPT ![j] = Idle]
    BY <1>7 DEF CachePut
  <2>2. JobTyped'
    BY <1>0a, <1>3, <2>1, Touched
  <2> QED BY <1>1, <2>2, TypeParts, PTL
<1> QED BY <1>4, <1>5, <1>6, <1>7 DEF ProfileStep

\* Types are kept by every step.
LEMMA TypeStep ==
  ASSUME TypeInv, [Next]_vars
  PROVE  TypeInv'
<1>1. ASSUME NEW j \in Jobs, JobStep(j)
      PROVE  TypeInv'
  BY <1>1, AnswerTypes, WriteTypes, ClearTypes, SignOutTypes, ProfileTypes
     DEF JobStep, StoreStep
<1>2. CASE UNCHANGED vars
  BY <1>2 DEF vars, server, store, tabs, TypeInv, TypeOK, Placed
<1> QED BY <1>1, <1>2, ServerTypes, TabTypes DEF Next

LEMMA InitTypes == Init => TypeInv
<1>1. Idle \in Job /\ Idle.kind = "none"
  BY IdleTyped DEF Idle, New
<1> QED BY <1>1 DEF Init, TypeInv, TypeOK, Placed, TokenStatus, SessionState

\* Every variable keeps its type, whatever faults occur.
THEOREM TypeCorrect == Spec => []TypeOK
<1>1. TypeInv /\ [Next]_vars => TypeInv'
  BY TypeStep
<1>2. TypeInv => TypeOK
  BY DEF TypeInv
<1> QED BY <1>1, <1>2, InitTypes, PTL DEF Spec

------------------------------------------------------------------------------
(* 2. Steps that change nothing TabInv looks at, for one tab or for all.   *)

\* The kind, the tab and, of a refresh, the life of call i stay.
Kept(i) ==
  /\ job'[i].kind = job[i].kind /\ job'[i].tab = job[i].tab
  /\ job[i].kind = "refresh" => job'[i].live = job[i].live
\* The same of the calls J, against those of the state.
KeptIn(J) ==
  \A i \in Jobs : /\ J[i].kind = job[i].kind /\ J[i].tab = job[i].tab
                  /\ job[i].kind = "refresh" => J[i].live = job[i].live
Bystander(kind) == kind \notin {"refresh", "signin", "signout"}
SameAt(t) == session'[t] = session[t] /\ armed'[t] = armed[t] /\ syncing'[t] = syncing[t]

LEMMA Frame ==
  ASSUME NEW t \in Tabs, TabInv(t), SameAt(t),
         \A i \in Jobs : /\ Live(i, t)' <=> Live(i, t)
                         /\ IsOut(i, t)' <=> IsOut(i, t)
                         /\ IsIn(i, t)' => IsIn(i, t)
  PROVE  TabInv(t)'
BY DEF TabInv, SameAt

\* Another tab's call takes a step of any kind.
LEMMA Elsewhere ==
  ASSUME NEW t \in Tabs, TabInv(t), SameAt(t), NEW j \in Jobs,
         \A i \in Jobs \ {j} : Kept(i),
         job[j].tab # t, job'[j].tab # t
  PROVE  TabInv(t)'
<1>1. \A i \in Jobs : /\ Live(i, t)' <=> Live(i, t)
                      /\ IsOut(i, t)' <=> IsOut(i, t)
                      /\ IsIn(i, t)' => IsIn(i, t)
  BY DEF Live, IsOut, IsIn, Kept
<1> QED BY <1>1, Frame

\* A call moves on, ends or begins, and is neither a sign-out nor a live refresh
\* when it ends, nor a sign-in, a sign-out or a refresh when it begins.
LEMMA Quietly ==
  ASSUME NEW t \in Tabs, TabInv(t), SameAt(t), NEW j \in Jobs,
         \A i \in Jobs \ {j} : Kept(i),
         \/ Kept(j)
         \/ /\ job[j].kind # "signout" /\ ~(job[j].kind = "refresh" /\ job[j].live)
            /\ Bystander(job'[j].kind)
  PROVE  TabInv(t)'
<1>1. \A i \in Jobs : /\ Live(i, t)' <=> Live(i, t)
                      /\ IsOut(i, t)' <=> IsOut(i, t)
                      /\ IsIn(i, t)' => IsIn(i, t)
  BY DEF Live, IsOut, IsIn, Kept, Bystander
<1> QED BY <1>1, Frame

\* A live refresh reports: it was the only one, and no sign-in or sign-out of its
\* tab was under way.
LEMMA Reported ==
  ASSUME NEW u \in Tabs, TabInv(u), NEW j \in Jobs, Live(j, u),
         \A i \in Jobs \ {j} : Kept(i), Bystander(job'[j].kind),
         syncing'[u] => session'[u] = "signed-in",
         armed'[u] \/ session'[u] \in {"signed-out", "expired"}
  PROVE  TabInv(u)'
<1>1. \A i \in Jobs : ~Live(i, u)' /\ ~IsOut(i, u)' /\ ~IsIn(i, u)'
  <2>1. \A i \in Jobs : ~IsOut(i, u) /\ ~IsIn(i, u) /\ (Live(i, u) => i = j)
    BY DEF TabInv
  <2>2. ~Live(j, u)' /\ ~IsOut(j, u)' /\ ~IsIn(j, u)'
    BY DEF Live, IsOut, IsIn, Bystander
  <2>3. \A i \in Jobs \ {j} : ~Live(i, u)' /\ ~IsOut(i, u)' /\ ~IsIn(i, u)'
    BY <2>1 DEF Live, IsOut, IsIn, Kept
  <2> QED BY <2>2, <2>3
<1> QED BY <1>1 DEF TabInv

\* However a request ends, live or not.
LEMMA OutcomeKeeps ==
  ASSUME IInv, NEW j \in Jobs, job[j].kind = "refresh", NEW J \in Jobtype, KeptIn(J),
         NEW kind, NEW stored, Outcome(j, J, kind, stored)
  PROVE  \A t \in Tabs : TabInv(t)'
<1>u. PICK u \in Tabs : u = job[j].tab
  BY JobKnown DEF IInv
<1>0. TabsTyped /\ TabInv(u) /\ Jobtype = [Jobs -> Job]
  BY TypeParts DEF IInv, Jobtype
<1>1. Idle.kind = "none" /\ Idle.tab = None /\ None \notin Tabs
  BY NoneIsNoValue DEF Idle, New
<1>2. ASSUME job' = [J EXCEPT ![j] = Idle] \/ job' = EndReplication([J EXCEPT ![j] = Idle], u)
      PROVE  (\A i \in Jobs \ {j} : Kept(i)) /\ job'[j] = Idle
  <2>1. J \in [Jobs -> Job] /\ \A i \in Jobs \ {j} : [J EXCEPT ![j] = Idle][i] = J[i]
    BY <1>0
  <2>2. ASSUME job' = [J EXCEPT ![j] = Idle]
        PROVE  (\A i \in Jobs \ {j} : Kept(i)) /\ job'[j] = Idle
    BY <2>1, <2>2 DEF Kept, KeptIn
  <2>3. ASSUME job' = EndReplication([J EXCEPT ![j] = Idle], u)
        PROVE  (\A i \in Jobs \ {j} : Kept(i)) /\ job'[j] = Idle
    <3> DEFINE D == [J EXCEPT ![j] = Idle]
    <3>1. D[j] = Idle /\ \A i \in Jobs \ {j} : D[i] = J[i] /\ J[i] \in Job
      BY <2>1
    <3>2. \A i \in Jobs : job'[i] = IF D[i].kind = "reread" /\ D[i].tab = u
                                    THEN [D[i] EXCEPT !.live = FALSE] ELSE D[i]
      <4> HIDE DEF D
      <4> QED BY <2>3 DEF EndReplication, D
    <3>3. job'[j] = Idle
      BY <1>1, <3>1, <3>2
    <3>4. ASSUME NEW i \in Jobs \ {j}
          PROVE  Kept(i)
      <4>1. J[i] \in Job /\ J[i].kind = job[i].kind /\ J[i].tab = job[i].tab
            /\ (job[i].kind = "refresh" => J[i].live = job[i].live)
        BY <3>1 DEF KeptIn
      <4>2. job'[i] = IF J[i].kind = "reread" /\ J[i].tab = u
                      THEN [J[i] EXCEPT !.live = FALSE] ELSE J[i]
        BY <3>1, <3>2
      <4> QED BY <4>1, <4>2 DEF Kept, Job
    <3> QED BY <3>3, <3>4
  <2> QED BY <1>2, <2>2, <2>3
<1>3. CASE ~job[j].live /\ Silent(j, J)
  <2>1. \A t \in Tabs : SameAt(t)
    BY <1>3 DEF Silent, tabs, SameAt
  <2>2. (\A i \in Jobs \ {j} : Kept(i)) /\ Bystander(job'[j].kind)
    BY <1>1, <1>2, <1>3 DEF Silent, Bystander
  <2> QED BY <1>3, <2>1, <2>2, Quietly DEF IInv
<1>4. ASSUME job[j].live, \A t \in Tabs \ {u} : SameAt(t), \A i \in Jobs \ {j} : Kept(i),
             Bystander(job'[j].kind), job'[j].tab \in {u, None},
             syncing'[u] => session'[u] = "signed-in",
             armed'[u] \/ session'[u] \in {"signed-out", "expired"}
      PROVE  \A t \in Tabs : TabInv(t)'
  <2>1. Live(j, u)
    BY <1>u, <1>4 DEF Live
  <2>2. TabInv(u)'
    BY <1>0, <1>4, <2>1, Reported
  <2>3. ASSUME NEW t \in Tabs \ {u}
        PROVE  TabInv(t)'
    BY <1>u, <1>1, <1>4, Elsewhere DEF IInv
  <2> QED BY <2>2, <2>3
<1>5. CASE job[j].live /\ Refreshed(j, J)
  <2> DEFINE n == New("follow", u, "begin", usable[u], None)
  <2>1. n.kind = "follow" /\ n.tab = u
    BY DEF New
  <2>2. (\A i \in Jobs \ {j} : Kept(i)) /\ Bystander(job'[j].kind) /\ job'[j].tab \in {u, None}
    <3>1. CASE job' = [J EXCEPT ![j] = Idle]
      BY <1>1, <1>2, <3>1 DEF Bystander
    <3>2. CASE job' = [J EXCEPT ![j] = n]
      <4> HIDE DEF n
      <4> QED BY <1>0, <2>1, <3>2 DEF Bystander, Kept, KeptIn
    <3> QED BY <1>u, <1>5, <3>1, <3>2 DEF Refreshed
  <2>3. \A t \in Tabs \ {u} : SameAt(t)
    BY <1>0, <1>5, <1>u DEF Refreshed, SameAt, TabsTyped
  <2>4. session'[u] = "signed-in" /\ armed'[u]
    BY <1>0, <1>5, <1>u DEF Refreshed, TabsTyped
  <2> QED BY <1>4, <1>5, <2>2, <2>3, <2>4
<1>6. CASE job[j].live /\ Unreachable(j, J, stored)
  <2>1. (\A i \in Jobs \ {j} : Kept(i)) /\ Bystander(job'[j].kind) /\ job'[j].tab \in {u, None}
    BY <1>1, <1>2, <1>6, <1>u DEF Unreachable, Bystander
  <2>2. (\A t \in Tabs \ {u} : SameAt(t)) /\ armed'[u]
    BY <1>0, <1>6, <1>u DEF Unreachable, SameAt, TabsTyped
  <2>3. syncing'[u] => session'[u] = "signed-in"
    BY <1>0, <1>6, <1>u DEF Unreachable, TabsTyped, TabInv
  <2> QED BY <1>4, <1>6, <2>1, <2>2, <2>3
<1>7. CASE job[j].live /\ SignedOut(j, J)
  <2>1. (\A i \in Jobs \ {j} : Kept(i)) /\ Bystander(job'[j].kind) /\ job'[j].tab \in {u, None}
    BY <1>1, <1>2, <1>7, <1>u DEF SignedOut, Bystander
  <2>2. (\A t \in Tabs \ {u} : SameAt(t)) /\ session'[u] = "signed-out"
    BY <1>0, <1>7, <1>u DEF SignedOut, SameAt, TabsTyped
  <2>3. ~syncing'[u]
    BY <1>0, <1>7, <1>u DEF SignedOut, TabsTyped, TabInv
  <2> QED BY <1>4, <1>7, <2>1, <2>2, <2>3
<1>8. CASE job[j].live /\ Ended(j, J)
  <2>1. (\A i \in Jobs \ {j} : Kept(i)) /\ Bystander(job'[j].kind) /\ job'[j].tab \in {u, None}
    BY <1>1, <1>2, <1>8, <1>u DEF Ended, Bystander
  <2>2. (\A t \in Tabs \ {u} : SameAt(t)) /\ session'[u] = "expired" /\ ~syncing'[u]
    BY <1>0, <1>8, <1>u DEF Ended, SameAt, TabsTyped
  <2> QED BY <1>4, <1>8, <2>1, <2>2
<1> QED BY <1>3, <1>5, <1>6, <1>7, <1>8, <1>u DEF Outcome

------------------------------------------------------------------------------
(* 3. Every step of a call.                                                *)

AllTabs == \A t \in Tabs : TabInv(t)

\* No call and no tab changes in what TabInv looks at.
LEMMA Silently ==
  ASSUME IInv, \A t \in Tabs : SameAt(t), \A i \in Jobs : Kept(i)
  PROVE  AllTabs'
<1> SUFFICES ASSUME NEW t \in Tabs
             PROVE  TabInv(t)'
  BY DEF AllTabs
<1>1. \A i \in Jobs : /\ Live(i, t)' <=> Live(i, t)
                      /\ IsOut(i, t)' <=> IsOut(i, t)
                      /\ IsIn(i, t)' => IsIn(i, t)
  BY DEF Live, IsOut, IsIn, Kept
<1> QED BY <1>1, Frame DEF IInv

\* A call that TabInv does not speak of, or a sign-in, gives way to a bystander.
LEMMA Leaves ==
  ASSUME IInv, \A t \in Tabs : SameAt(t), NEW j \in Jobs,
         job[j].kind \notin {"refresh", "signout"},
         NEW J \in Jobtype, KeptIn(J), NEW r, Bystander(r.kind), job' = [J EXCEPT ![j] = r]
  PROVE  AllTabs'
<1>1. job'[j] = r /\ \A i \in Jobs \ {j} : job'[i] = J[i]
  BY DEF Jobtype
<1>2. \A i \in Jobs \ {j} : Kept(i)
  BY <1>1 DEF Kept, KeptIn
<1>3. Bystander(job'[j].kind)
  BY <1>1
<1> QED BY <1>2, <1>3, Quietly DEF AllTabs, IInv

\* The calls with other revisions to remember.
LEMMA TouchKept ==
  ASSUME TypeInv
  PROVE  /\ job \in Jobtype /\ KeptIn(job)
         /\ TouchToken(job) \in Jobtype /\ KeptIn(TouchToken(job))
         /\ TouchProfile(job) \in Jobtype /\ KeptIn(TouchProfile(job))
BY Touched, TypeParts DEF JobTyped, KeptIn, TouchToken, TouchProfile, Jobtype, Job

LEMMA IdleIsBystander == Bystander(Idle.kind) /\ Idle.tab = None
BY DEF Bystander, Idle, New

\* The fields that TabInv looks at survive a step that sets others.
LEMMA FieldsKept ==
  ASSUME NEW J \in Jobtype, KeptIn(J), NEW j \in Jobs, NEW r,
         r.kind = J[j].kind, r.tab = J[j].tab, r.live = J[j].live, job' = [J EXCEPT ![j] = r]
  PROVE  \A i \in Jobs : Kept(i)
<1>1. job'[j] = r /\ \A i \in Jobs \ {j} : job'[i] = J[i]
  BY DEF Jobtype
<1> QED BY <1>1 DEF Kept, KeptIn

LEMMA ServerKeeps ==
  ASSUME IInv, ServerStep
  PROVE  AllTabs'
<1>0. job \in Jobtype /\ KeptIn(job)
  BY TouchKept DEF IInv
<1>1. \A t \in Tabs : SameAt(t)
  BY DEF ServerStep, Exchange, Verify, GraceEnds, Revoke, tabs, SameAt
<1>2. ASSUME NEW j \in Jobs, NEW k, NEW a, Answer(j, k, a)
      PROVE  \A i \in Jobs : Kept(i)
  <2> DEFINE r == [job[j] EXCEPT !.pc = "answered", !.got = k, !.who = a]
  <2>1. job[j] \in Job
    BY <1>0 DEF Jobtype
  <2>2. r.kind = job[j].kind /\ r.tab = job[j].tab /\ r.live = job[j].live
    BY <2>1 DEF Job
  <2>3. job' = [job EXCEPT ![j] = r]
    BY <1>0, <1>2, <2>1 DEF Answer, Job, Jobtype
  <2> HIDE DEF r
  <2> QED BY <1>0, <2>2, <2>3, FieldsKept
<1>3. \A i \in Jobs : Kept(i)
  <2>1. CASE \E j \in Jobs : Exchange(j)
    <3> PICK j \in Jobs : Exchange(j)
      BY <2>1
    <3>1. \E k, a : Answer(j, k, a)
      BY DEF Exchange
    <3> QED BY <1>2, <3>1
  <2>2. CASE \E j \in Jobs : Verify(j)
    <3> PICK j \in Jobs : Verify(j)
      BY <2>2
    <3>1. \E k, a : Answer(j, k, a)
      BY DEF Verify
    <3> QED BY <1>2, <3>1
  <2>3. CASE UNCHANGED job
    BY <2>3 DEF Kept
  <2> QED BY <2>1, <2>2, <2>3 DEF ServerStep, GraceEnds, Revoke
<1> QED BY <1>1, <1>3, Silently

LEMMA AnswerKeeps ==
  ASSUME IInv, NEW j \in Jobs, ReadToken(j) \/ NoAnswer(j) \/ Receive(j)
  PROVE  AllTabs'
<1>0. job \in Jobtype /\ KeptIn(job) /\ job[j] \in Job
  BY TouchKept, JobKnown DEF IInv
<1>1. ASSUME job[j].kind = "refresh", NEW kind, NEW stored, Outcome(j, job, kind, stored)
      PROVE  AllTabs'
  BY <1>0, <1>1, OutcomeKeeps DEF AllTabs
<1>2. CASE ReadToken(j)
  <2> DEFINE stored == IF job[j].usable THEN token ELSE None
  <2>1. CASE Outcome(j, job, "unreachable", stored # None)
    BY <1>1, <1>2, <2>1 DEF ReadToken, At
  <2>2. CASE job' = [job EXCEPT ![j].pc = "asked", ![j].sent = stored] /\ UNCHANGED tabs
    <3>1. \A t \in Tabs : SameAt(t)
      BY <2>2 DEF tabs, SameAt
    <3>2. \A i \in Jobs : Kept(i)
      BY <1>0, <2>2 DEF Kept, Jobtype, Job
    <3> QED BY <3>1, <3>2, Silently
  <2> QED BY <1>2, <2>1, <2>2 DEF ReadToken
<1>3. CASE NoAnswer(j)
  <2>1. CASE job[j].kind = "refresh" /\ Outcome(j, job, "unreachable", job[j].sent # None)
    BY <1>1, <2>1
  <2>2. CASE job[j].kind = "signin" /\ job' = [job EXCEPT ![j] = Idle] /\ UNCHANGED tabs
    <3>1. \A t \in Tabs : SameAt(t)
      BY <2>2 DEF tabs, SameAt
    <3>2. job[j].kind \notin {"refresh", "signout"}
      BY <2>2
    <3> QED BY <1>0, <2>2, <3>1, <3>2, Leaves, IdleIsBystander
  <2> QED BY <1>3, <2>1, <2>2 DEF NoAnswer
<1>4. CASE Receive(j)
  <2>1. CASE job[j].kind = "refresh" /\ (\/ Outcome(j, job, "unreachable", job[j].sent # None)
                                         \/ Outcome(j, job, "signed-out", FALSE))
    BY <1>1, <2>1
  <2>2. CASE /\ \/ job' = [job EXCEPT ![j].pc = "writeGet", ![j].who = None]
                \/ job' = [job EXCEPT ![j].pc = "clearGet"]
             /\ UNCHANGED <<session, armed, syncing>>
    <3>1. \A t \in Tabs : SameAt(t)
      BY <2>2 DEF SameAt
    <3>2. \A i \in Jobs : Kept(i)
      BY <1>0, <2>2 DEF Kept, Jobtype, Job
    <3> QED BY <3>1, <3>2, Silently
  <2> QED BY <1>4, <2>1, <2>2 DEF Receive, tabs
<1> QED BY <1>2, <1>3, <1>4

\* A sign-in that has stored its token starts the refresher of the session.
LEMMA SignedInKeeps ==
  ASSUME IInv, NEW j \in Jobs, job[j].kind = "signin", NEW u \in Tabs, u = job[j].tab,
         NEW J \in Jobtype, KeptIn(J), NEW r, r.kind = "refresh", r.tab = u, r.live = TRUE,
         job' = [StopRefresher(J, u) EXCEPT ![j] = r],
         armed' = [armed EXCEPT ![u] = FALSE], UNCHANGED <<session, syncing>>
  PROVE  AllTabs'
<1>0. TabInv(u) /\ IsIn(j, u) /\ TabsTyped
  BY TypeParts DEF IInv, IsIn
<1>1. \A i \in Jobs : ~Live(i, u) /\ ~IsOut(i, u) /\ (IsIn(i, u) => i = j)
  BY <1>0 DEF TabInv
<1>2. StopRefresher(J, u) \in Jobtype
  BY JobsTyped
<1>3. job'[j] = r /\ \A i \in Jobs \ {j} : job'[i] = StopRefresher(J, u)[i]
  BY <1>2 DEF Jobtype
<1>4. ASSUME NEW i \in Jobs \ {j}
      PROVE  Kept(i)
  <2>1. job[i] \in Job /\ J[i] \in Job
    BY JobKnown DEF IInv, Jobtype
  <2>2. job'[i] = IF J[i].kind = "refresh" /\ J[i].tab = u
                  THEN [J[i] EXCEPT !.live = FALSE] ELSE J[i]
    BY <1>3 DEF StopRefresher
  <2>3. J[i].kind = job[i].kind /\ J[i].tab = job[i].tab
        /\ (job[i].kind = "refresh" => J[i].live = job[i].live)
    BY DEF KeptIn
  <2>4. job[i].kind = "refresh" /\ job[i].tab = u => job[i].live = FALSE
    BY <1>1, <2>1 DEF Live, Job
  <2>5. CASE J[i].kind = "refresh" /\ J[i].tab = u
    <3>1. job'[i] = [J[i] EXCEPT !.live = FALSE]
      BY <2>2, <2>5
    <3>2. job'[i].kind = J[i].kind /\ job'[i].tab = J[i].tab /\ job'[i].live = FALSE
      BY <2>1, <3>1 DEF Job
    <3> QED BY <2>3, <2>4, <2>5, <3>2 DEF Kept
  <2>6. CASE ~(J[i].kind = "refresh" /\ J[i].tab = u)
    BY <2>2, <2>3, <2>6 DEF Kept
  <2> QED BY <2>5, <2>6
<1>5. ASSUME NEW t \in Tabs \ {u}
      PROVE  TabInv(t)'
  <2>1. SameAt(t)
    BY <1>0 DEF SameAt, TabsTyped
  <2> QED BY <1>3, <1>4, <2>1, Elsewhere DEF IInv
<1>6. TabInv(u)'
  <2>1. \A i \in Jobs : (Live(i, u)' <=> i = j) /\ ~IsOut(i, u)' /\ ~IsIn(i, u)'
    <3>1. Live(j, u)' /\ ~IsOut(j, u)' /\ ~IsIn(j, u)'
      BY <1>3 DEF Live, IsOut, IsIn
    <3>2. \A i \in Jobs \ {j} : ~Live(i, u)' /\ ~IsOut(i, u)' /\ ~IsIn(i, u)'
      BY <1>1, <1>4 DEF Live, IsOut, IsIn, Kept
    <3> QED BY <3>1, <3>2
  <2>2. ~armed'[u] /\ (syncing'[u] => session'[u] = "signed-in")
    BY <1>0 DEF TabsTyped, TabInv
  <2> QED BY <2>1, <2>2 DEF TabInv
<1> QED BY <1>5, <1>6 DEF AllTabs

LEMMA WriteKeeps ==
  ASSUME IInv, NEW j \in Jobs, WriteGet(j) \/ ForgetGet(j) \/ ForgetRemove(j) \/ WritePut(j)
  PROVE  AllTabs'
<1>0. job \in Jobtype /\ KeptIn(job) /\ job[j] \in Job
  BY TouchKept, JobKnown DEF IInv
<1>1. CASE WriteGet(j) \/ ForgetGet(j)
  <2>1. \A t \in Tabs : SameAt(t)
    BY <1>1 DEF WriteGet, ForgetGet, tabs, SameAt
  <2>2. \A i \in Jobs : Kept(i)
    BY <1>0, <1>1 DEF WriteGet, ForgetGet, Kept, Jobtype, Job
  <2> QED BY <2>1, <2>2, Silently
<1>2. CASE ForgetRemove(j)
  <2>1. \A t \in Tabs : SameAt(t)
    BY <1>2 DEF ForgetRemove, tabs, SameAt
  <2>2. \E J \in {job, TouchProfile(job)} :
           job' = [J EXCEPT ![j].pc = "put", ![j].prev = "missing"]
    BY <1>2 DEF ForgetRemove
  <2>3. ASSUME NEW J \in Jobtype, KeptIn(J),
               job' = [J EXCEPT ![j].pc = "put", ![j].prev = "missing"]
        PROVE  \A i \in Jobs : Kept(i)
    <3> DEFINE r == [J[j] EXCEPT !.pc = "put", !.prev = "missing"]
    <3>1. J[j] \in Job
      BY DEF Jobtype
    <3>2. r.kind = J[j].kind /\ r.tab = J[j].tab /\ r.live = J[j].live
      BY <3>1 DEF Job
    <3>3. job' = [J EXCEPT ![j] = r]
      BY <2>3, <3>1 DEF Jobtype, Job
    <3> HIDE DEF r
    <3> QED BY <3>2, <3>3, <2>3, FieldsKept
  <2>4. \A i \in Jobs : Kept(i)
    BY <1>0, <2>2, <2>3, TouchKept DEF IInv
  <2> QED BY <2>1, <2>4, Silently
<1>3. CASE WritePut(j)
  <2>0. TouchToken(job) \in Jobtype /\ KeptIn(TouchToken(job))
    BY TouchKept DEF IInv
  <2>1. CASE job[j].kind = "refresh" /\ (\/ Outcome(j, TouchToken(job), "refreshed", TRUE)
                                         \/ Outcome(j, job, "unreachable", FALSE))
    BY <1>0, <2>0, <2>1, OutcomeKeeps DEF AllTabs
  <2>2. CASE job[j].kind = "signin" /\ Written(j, TouchToken(job))
    <3>1. PICK u \in Tabs : u = job[j].tab
      BY <2>2, JobKnown DEF IInv
    <3> DEFINE r == New("refresh", u, "read", usable[u], None)
    <3>2. r.kind = "refresh" /\ r.tab = u /\ r.live = TRUE
      BY DEF New
    <3>3. /\ job' = [StopRefresher(TouchToken(job), u) EXCEPT ![j] = r]
          /\ armed' = [armed EXCEPT ![u] = FALSE] /\ UNCHANGED <<session, syncing>>
      BY <2>2, <3>1 DEF Written
    <3> HIDE DEF r
    <3> QED BY <2>0, <2>2, <3>1, <3>2, <3>3, SignedInKeeps
  <2>3. CASE /\ job[j].kind = "signin" /\ job' = [job EXCEPT ![j] = Idle]
             /\ UNCHANGED <<session, armed, syncing>>
    <3>1. (\A t \in Tabs : SameAt(t)) /\ job[j].kind \notin {"refresh", "signout"}
      BY <2>3 DEF SameAt
    <3> QED BY <1>0, <2>3, <3>1, Leaves, IdleIsBystander
  <2> QED BY <1>3, <2>1, <2>2, <2>3 DEF WritePut, Written, NotWritten
<1> QED BY <1>1, <1>2, <1>3

LEMMA ClearKeeps ==
  ASSUME IInv, NEW j \in Jobs, ClearGet(j) \/ ClearRemove(j)
  PROVE  AllTabs'
<1>0. /\ job \in Jobtype /\ KeptIn(job) /\ job[j] \in Job
      /\ TouchToken(job) \in Jobtype /\ KeptIn(TouchToken(job))
  BY TouchKept, JobKnown DEF IInv
<1>1. ASSUME NEW J \in Jobtype, KeptIn(J), NEW ok, Cleared(j, J, ok)
      PROVE  AllTabs'
  <2>1. CASE job[j].kind = "refresh" /\ Outcome(j, J, IF ok THEN "ended" ELSE "unreachable", FALSE)
    BY <1>1, <2>1, OutcomeKeeps DEF AllTabs
  <2>2. CASE job' = [J EXCEPT ![j].pc = "revoke", ![j].rev = "missing"] /\ UNCHANGED tabs
    <3> DEFINE r == [J[j] EXCEPT !.pc = "revoke", !.rev = "missing"]
    <3>1. J[j] \in Job
      BY <1>1 DEF Jobtype
    <3>2. r.kind = J[j].kind /\ r.tab = J[j].tab /\ r.live = J[j].live
      BY <3>1 DEF Job
    <3>3. job' = [J EXCEPT ![j] = r]
      BY <1>1, <2>2, <3>1 DEF Jobtype, Job
    <3>4. \A i \in Jobs : Kept(i)
      <4> HIDE DEF r
      <4> QED BY <1>1, <3>2, <3>3, FieldsKept
    <3>5. \A t \in Tabs : SameAt(t)
      BY <2>2 DEF tabs, SameAt
    <3> QED BY <3>4, <3>5, Silently
  <2> QED BY <1>1, <2>1, <2>2 DEF Cleared
<1>2. CASE job' = [job EXCEPT ![j].pc = "clearRemove", ![j].rev = "current"] /\ UNCHANGED tabs
  <2>1. \A t \in Tabs : SameAt(t)
    BY <1>2 DEF tabs, SameAt
  <2>2. \A i \in Jobs : Kept(i)
    BY <1>0, <1>2 DEF Kept, Jobtype, Job
  <2> QED BY <2>1, <2>2, Silently
<1>3. CASE Cleared(j, job, job[j].usable)
  BY <1>0, <1>1, <1>3
<1>4. CASE Cleared(j, TouchToken(job), TRUE)
  BY <1>0, <1>1, <1>4
<1>5. CASE Cleared(j, job, job[j].usable /\ token = None)
  BY <1>0, <1>1, <1>5
<1> QED BY <1>2, <1>3, <1>4, <1>5 DEF ClearGet, ClearRemove

LEMMA SignOutKeeps ==
  ASSUME IInv, NEW j \in Jobs, SignOutStep(j)
  PROVE  AllTabs'
<1>0. job \in Jobtype /\ KeptIn(job) /\ job[j] \in Job /\ TabsTyped
  BY TouchKept, JobKnown, TypeParts DEF IInv
<1>1. CASE TakeCredentials(j) \/ EndServerSession(j)
  <2>1. \A t \in Tabs : SameAt(t)
    BY <1>1 DEF TakeCredentials, EndServerSession, tabs, SameAt
  <2>2. \A i \in Jobs : Kept(i)
    BY <1>0, <1>1 DEF TakeCredentials, EndServerSession, Kept, Jobtype, Job
  <2> QED BY <2>1, <2>2, Silently
<1>2. CASE RemoveLocalData(j)
  <2>1. PICK u \in Tabs : u = job[j].tab /\ IsOut(j, u)
    BY <1>2, JobKnown DEF RemoveLocalData, At, IInv, IsOut
  <2>2. \A i \in Jobs : ~Live(i, u) /\ ~IsIn(i, u) /\ (IsOut(i, u) => i = j)
    BY <2>1 DEF IInv, TabInv
  <2>3. ~armed[u] /\ ~syncing[u]
    BY <2>1 DEF IInv, TabInv
  <2>4. job'[j] = Idle /\ \A i \in Jobs \ {j} : Kept(i)
    <3> DEFINE Dead == [i \in Jobs |-> [job[i] EXCEPT !.usable = FALSE]]
    <3>1. Dead \in Jobtype /\ KeptIn(Dead)
      BY <1>0 DEF Jobtype, KeptIn, Job
    <3>2. job' = [Dead EXCEPT ![j] = Idle] \/ job' = [job EXCEPT ![j] = Idle]
      BY <1>2 DEF RemoveLocalData
    <3> HIDE DEF Dead
    <3> QED BY <1>0, <3>1, <3>2 DEF Jobtype, Kept, KeptIn
  <2>5. /\ session'[u] = "signed-out" /\ ~armed'[u] /\ ~syncing'[u]
        /\ \A t \in Tabs \ {u} : SameAt(t)
    BY <1>0, <1>2, <2>1, <2>3 DEF RemoveLocalData, SameAt, TabsTyped
  <2>6. TabInv(u)'
    <3>1. \A i \in Jobs : ~Live(i, u)' /\ ~IsOut(i, u)' /\ ~IsIn(i, u)'
      <4>1. ~Live(j, u)' /\ ~IsOut(j, u)' /\ ~IsIn(j, u)'
        BY <2>4 DEF Live, IsOut, IsIn, Idle, New
      <4>2. \A i \in Jobs \ {j} : ~Live(i, u)' /\ ~IsOut(i, u)' /\ ~IsIn(i, u)'
        BY <2>2, <2>4 DEF Live, IsOut, IsIn, Kept
      <4> QED BY <4>1, <4>2
    <3> QED BY <2>5, <3>1 DEF TabInv
  <2>7. ASSUME NEW t \in Tabs \ {u}
        PROVE  TabInv(t)'
    BY <2>1, <2>4, <2>5, IdleIsBystander, NoneIsNoValue, Elsewhere DEF IInv
  <2> QED BY <2>6, <2>7 DEF AllTabs
<1> QED BY <1>1, <1>2 DEF SignOutStep

LEMMA ProfileKeeps ==
  ASSUME IInv, NEW j \in Jobs, ProfileStep(j)
  PROVE  AllTabs'
<1>0. /\ job \in Jobtype /\ KeptIn(job) /\ job[j] \in Job
      /\ TouchProfile(job) \in Jobtype /\ KeptIn(TouchProfile(job))
  BY TouchKept, JobKnown DEF IInv
<1>1. (\A t \in Tabs : SameAt(t)) /\ job[j].kind \notin {"refresh", "signout"}
  BY DEF ProfileStep, FollowProfile, ProfileArrives, CacheGet, CachePut, At, tabs, SameAt
<1>2. ASSUME \E J \in {job, TouchProfile(job)} : job' = [J EXCEPT ![j] = Idle]
      PROVE  AllTabs'
  BY <1>0, <1>1, <1>2, Leaves, IdleIsBystander
<1>3. ASSUME NEW r, r.kind = job[j].kind, r.tab = job[j].tab, r.live = job[j].live,
             job' = [job EXCEPT ![j] = r]
      PROVE  AllTabs'
  <2>1. \A i \in Jobs : Kept(i)
    BY <1>0, <1>3, FieldsKept
  <2> QED BY <1>1, <2>1, Silently
<1>4. CASE FollowProfile(j)
  <2> DEFINE a == held[job[j].tab]
             r == [job[j] EXCEPT !.pc = "fetch", !.who = a]
  <2>1. r.kind = job[j].kind /\ r.tab = job[j].tab /\ r.live = job[j].live
    BY <1>0 DEF Job
  <2>2. job' = [job EXCEPT ![j] = Idle] \/ job' = [job EXCEPT ![j] = r]
    BY <1>0, <1>4 DEF FollowProfile, Jobtype
  <2> HIDE DEF r
  <2> QED BY <1>2, <1>3, <2>1, <2>2
<1>5. CASE ProfileArrives(j)
  <2> DEFINE r == [job[j] EXCEPT !.pc = "cacheGet"]
  <2>1. r.kind = job[j].kind /\ r.tab = job[j].tab /\ r.live = job[j].live
    BY <1>0 DEF Job
  <2>2. job' = [job EXCEPT ![j] = Idle] \/ job' = [job EXCEPT ![j] = r]
    BY <1>0, <1>5 DEF ProfileArrives, Jobtype
  <2> HIDE DEF r
  <2> QED BY <1>2, <1>3, <2>1, <2>2
<1>6. CASE CacheGet(j)
  <2> DEFINE r == [job[j] EXCEPT !.pc = "cachePut",
                                 !.prev = IF profile = None THEN "missing" ELSE "current"]
  <2>1. r.kind = job[j].kind /\ r.tab = job[j].tab /\ r.live = job[j].live
    BY <1>0 DEF Job
  <2>2. job' = [job EXCEPT ![j] = Idle] \/ job' = [job EXCEPT ![j] = r]
    BY <1>0, <1>6 DEF CacheGet, Jobtype
  <2> HIDE DEF r
  <2> QED BY <1>2, <1>3, <2>1, <2>2
<1>7. CASE CachePut(j)
  BY <1>2, <1>7 DEF CachePut
<1> QED BY <1>4, <1>5, <1>6, <1>7 DEF ProfileStep

------------------------------------------------------------------------------
(* 4. Every step of a tab, and the theorems.                               *)

LEMMA LoadKeeps ==
  ASSUME IInv, NEW u \in Tabs, Load(u)
  PROVE  AllTabs'
<1>0. TabsTyped /\ job \in Jobtype
  BY TypeParts DEF IInv, JobTyped
<1>1. Idle.kind = "none" /\ Idle.tab = None /\ None \notin Tabs
  BY NoneIsNoValue DEF Idle, New
<1>2. \A i \in Jobs : job'[i] = IF job[i].tab = u THEN Idle ELSE job[i]
  BY DEF Load
<1>3. TabInv(u)'
  <2>1. \A i \in Jobs : ~Live(i, u)' /\ ~IsOut(i, u)' /\ ~IsIn(i, u)'
    BY <1>1, <1>2 DEF Live, IsOut, IsIn
  <2>2. armed'[u] /\ ~syncing'[u]
    BY <1>0 DEF Load, TabsTyped
  <2> QED BY <2>1, <2>2 DEF TabInv
<1>4. ASSUME NEW t \in Tabs \ {u}
      PROVE  TabInv(t)'
  <2>1. SameAt(t)
    BY <1>0 DEF Load, TabsTyped, SameAt
  <2>2. \A i \in Jobs : /\ Live(i, t)' <=> Live(i, t)
                        /\ IsOut(i, t)' <=> IsOut(i, t)
                        /\ IsIn(i, t)' => IsIn(i, t)
    BY <1>1, <1>2 DEF Live, IsOut, IsIn
  <2> QED BY <2>1, <2>2, Frame DEF IInv
<1> QED BY <1>3, <1>4 DEF AllTabs

LEMMA RunRefreshKeeps ==
  ASSUME IInv, NEW u \in Tabs, RunRefresh(u)
  PROVE  AllTabs'
<1>0. TabsTyped /\ job \in Jobtype /\ TabInv(u) /\ armed[u]
  BY TypeParts DEF IInv, JobTyped, RunRefresh
<1>1. PICK j \in Jobs : /\ job[j] = Idle
                        /\ job' = [job EXCEPT ![j] = New("refresh", u, "read", usable[u], None)]
  BY DEF RunRefresh
<1>2. /\ job'[j].kind = "refresh" /\ job'[j].tab = u /\ job'[j].live
      /\ \A i \in Jobs \ {j} : Kept(i)
  BY <1>0, <1>1 DEF New, Jobtype, Kept
<1>3. \A i \in Jobs : ~Live(i, u) /\ ~IsOut(i, u) /\ ~IsIn(i, u)
  BY <1>0 DEF TabInv
<1>4. TabInv(u)'
  <2>1. \A i \in Jobs : (Live(i, u)' <=> i = j) /\ ~IsOut(i, u)' /\ ~IsIn(i, u)'
    BY <1>2, <1>3 DEF Live, IsOut, IsIn, Kept
  <2>2. ~armed'[u] /\ (syncing'[u] => session'[u] = "signed-in")
    BY <1>0 DEF RunRefresh, TabsTyped, TabInv
  <2> QED BY <2>1, <2>2 DEF TabInv
<1>5. ASSUME NEW t \in Tabs \ {u}
      PROVE  TabInv(t)'
  <2>1. SameAt(t)
    BY <1>0 DEF RunRefresh, TabsTyped, SameAt
  <2> QED BY <1>1, <1>2, <2>1, IdleIsBystander, NoneIsNoValue, Elsewhere DEF IInv
<1> QED BY <1>4, <1>5 DEF AllTabs

LEMMA StartSignInKeeps ==
  ASSUME IInv, "overlap" \notin Faults, NEW u \in Tabs, NEW a \in Accounts, StartSignIn(u, a)
  PROVE  AllTabs'
<1>0. job \in Jobtype /\ TabInv(u) /\ Quiet(u) /\ session[u] \in {"signed-out", "expired"}
  BY TypeParts DEF IInv, JobTyped, StartSignIn, SignInOffered, May
<1>1. PICK j \in Jobs : /\ job[j] = Idle
                        /\ job' = [job EXCEPT ![j] = New("signin", u, "asked", usable[u], a)]
  BY DEF StartSignIn
<1>2. /\ job'[j].kind = "signin" /\ job'[j].tab = u
      /\ \A i \in Jobs \ {j} : Kept(i)
  BY <1>0, <1>1 DEF New, Jobtype, Kept
<1>3. \A t \in Tabs : SameAt(t)
  BY DEF StartSignIn, tabs, SameAt
<1>4. \A i \in Jobs : ~Live(i, u) /\ ~IsOut(i, u) /\ ~IsIn(i, u)
  BY <1>0 DEF Quiet, Busy, Live, IsIn, TabInv
<1>5. TabInv(u)'
  <2>1. \A i \in Jobs : ~Live(i, u)' /\ ~IsOut(i, u)' /\ (IsIn(i, u)' => i = j)
    BY <1>2, <1>4 DEF Live, IsOut, IsIn, Kept
  <2>2. ~armed'[u] /\ session'[u] \in {"signed-out", "expired"} /\ ~syncing'[u]
    BY <1>0, <1>3 DEF SameAt, Quiet, TabInv
  <2> QED BY <2>1, <2>2 DEF TabInv
<1>6. ASSUME NEW t \in Tabs \ {u}
      PROVE  TabInv(t)'
  BY <1>1, <1>2, <1>3, IdleIsBystander, NoneIsNoValue, Elsewhere DEF IInv
<1> QED BY <1>5, <1>6 DEF AllTabs

LEMMA StartSignOutKeeps ==
  ASSUME IInv, NEW u \in Tabs, StartSignOut(u)
  PROVE  AllTabs'
<1> DEFINE S == StopRefresher(job, u)
           J == EndReplication(S, u)
<1>0. /\ TabsTyped /\ job \in Jobtype /\ TabInv(u)
      /\ session[u] \in {"signed-in", "offline-held"} /\ \A i \in Jobs : ~IsOut(i, u)
  BY TypeParts DEF IInv, JobTyped, StartSignOut, Busy, IsOut
<1>1. PICK j \in Jobs : /\ job[j] = Idle
                        /\ job' = [J EXCEPT ![j] = New("signout", u, "read", usable[u], None)]
  BY DEF StartSignOut
<1>2. \A i \in Jobs : /\ J[i].kind = job[i].kind /\ J[i].tab = job[i].tab
                      /\ J[i].kind = "refresh" =>
                           J[i].live = IF J[i].tab = u THEN FALSE ELSE job[i].live
  <2> TAKE i \in Jobs
  <2>1. job[i] \in Job
    BY <1>0 DEF Jobtype
  <2>2. S[i] = IF job[i].kind = "refresh" /\ job[i].tab = u
               THEN [job[i] EXCEPT !.live = FALSE] ELSE job[i]
    BY DEF StopRefresher
  <2>3. /\ S[i] \in Job /\ S[i].kind = job[i].kind /\ S[i].tab = job[i].tab
        /\ S[i].live = IF job[i].kind = "refresh" /\ job[i].tab = u THEN FALSE ELSE job[i].live
    BY <2>1, <2>2 DEF Job
  <2>4. J[i] = IF S[i].kind = "reread" /\ S[i].tab = u
               THEN [S[i] EXCEPT !.live = FALSE] ELSE S[i]
    <3> HIDE DEF S
    <3> QED BY DEF EndReplication
  <2> HIDE DEF S, J
  <2> QED BY <2>3, <2>4 DEF Job
<1>3. /\ job'[j].kind = "signout" /\ job'[j].tab = u
      /\ \A i \in Jobs \ {j} : job'[i] = J[i]
  <2>1. J \in Jobtype
    BY <1>0, JobsTyped
  <2> HIDE DEF J
  <2> QED BY <1>1, <2>1 DEF New, Jobtype
<1> HIDE DEF S, J
<1>4. \A i \in Jobs : ~IsIn(i, u)
  BY <1>0 DEF TabInv
<1>5. TabInv(u)'
  <2>1. \A i \in Jobs : ~Live(i, u)' /\ (IsOut(i, u)' <=> i = j) /\ ~IsIn(i, u)'
    <3>1. ~Live(j, u)' /\ IsOut(j, u)' /\ ~IsIn(j, u)'
      BY <1>3 DEF Live, IsOut, IsIn
    <3>2. ASSUME NEW i \in Jobs \ {j}
          PROVE  ~Live(i, u)' /\ ~IsOut(i, u)' /\ ~IsIn(i, u)'
      <4>1. /\ job'[i].kind = job[i].kind /\ job'[i].tab = job[i].tab
            /\ job'[i].kind = "refresh" /\ job'[i].tab = u => job'[i].live = FALSE
        BY <1>2, <1>3
      <4>2. ~Live(i, u)'
        BY <4>1 DEF Live
      <4>3. ~IsOut(i, u)' /\ ~IsIn(i, u)'
        BY <1>0, <1>4, <4>1 DEF IsOut, IsIn
      <4> QED BY <4>2, <4>3
    <3> QED BY <3>1, <3>2
  <2>2. ~armed'[u] /\ ~syncing'[u] /\ session'[u] \in {"signed-in", "offline-held"}
    BY <1>0 DEF StartSignOut, TabsTyped
  <2> QED BY <2>1, <2>2 DEF TabInv
<1>6. ASSUME NEW t \in Tabs \ {u}
      PROVE  TabInv(t)'
  <2>1. SameAt(t)
    BY <1>0 DEF StartSignOut, TabsTyped, SameAt
  <2>2. job[j].kind = "none"
    BY <1>1 DEF Idle, New
  <2>3. ASSUME NEW i \in Jobs
        PROVE  /\ Live(i, t)' <=> Live(i, t)
               /\ IsOut(i, t)' <=> IsOut(i, t)
               /\ IsIn(i, t)' => IsIn(i, t)
    BY <1>2, <1>3, <2>2 DEF Live, IsOut, IsIn
  <2> QED BY <2>1, <2>3, Frame DEF IInv
<1> QED BY <1>5, <1>6 DEF AllTabs

LEMMA TabKeeps ==
  ASSUME IInv, "overlap" \notin Faults, NEW u \in Tabs, TabStep(u)
  PROVE  AllTabs'
<1>0. job \in Jobtype /\ KeptIn(job)
  BY TouchKept DEF IInv
<1>1. CASE StartReread(u)
  <2>1. PICK j \in Jobs : /\ job[j] = Idle
                          /\ job' = [job EXCEPT ![j] = New("reread", u, "fetch", usable[u], held[u])]
    BY <1>1 DEF StartReread
  <2>2. (\A t \in Tabs : SameAt(t)) /\ job[j].kind \notin {"refresh", "signout"}
    BY <1>1, <2>1 DEF StartReread, tabs, SameAt, Idle, New
  <2> DEFINE r == New("reread", u, "fetch", usable[u], held[u])
  <2>3. Bystander(r.kind)
    BY DEF Bystander, New
  <2> HIDE DEF r
  <2> QED BY <1>0, <2>1, <2>2, <2>3, Leaves DEF r
<1>2. CASE AccessTokenExpires(u)
  <2>1. (\A t \in Tabs : SameAt(t)) /\ \A i \in Jobs : Kept(i)
    BY <1>2 DEF AccessTokenExpires, SameAt, Kept
  <2> QED BY <2>1, Silently
<1> QED BY <1>1, <1>2, LoadKeeps, RunRefreshKeeps, StartSignInKeeps, StartSignOutKeeps
        DEF TabStep, Reload, RedirectSignIn

\* The invariant of every tab is kept by every step.
LEMMA Inductive ==
  ASSUME IInv, "overlap" \notin Faults, [Next]_vars
  PROVE  IInv'
<1>1. TypeInv'
  BY TypeStep DEF IInv
<1>2. AllTabs'
  <2>1. ASSUME NEW j \in Jobs, JobStep(j)
        PROVE  AllTabs'
    BY <2>1, AnswerKeeps, WriteKeeps, ClearKeeps, SignOutKeeps, ProfileKeeps
       DEF JobStep, StoreStep
  <2>2. CASE UNCHANGED vars
    <3>1. (\A t \in Tabs : SameAt(t)) /\ \A i \in Jobs : Kept(i)
      BY <2>2 DEF vars, tabs, SameAt, Kept
    <3> QED BY <3>1, Silently
  <2> QED BY <2>1, <2>2, ServerKeeps, TabKeeps DEF Next
<1> QED BY <1>1, <1>2 DEF IInv, AllTabs

LEMMA Initially == Init => IInv
<1> SUFFICES ASSUME Init, NEW t \in Tabs
             PROVE  TabInv(t)
  BY InitTypes DEF IInv
<1>1. \A i \in Jobs : ~Live(i, t) /\ ~IsOut(i, t) /\ ~IsIn(i, t)
  BY DEF Init, Live, IsOut, IsIn, Idle, New
<1> QED BY <1>1 DEF Init, TabInv

LEMMA Invariance ==
  ASSUME "overlap" \notin Faults
  PROVE  Spec => []IInv
<1>1. IInv /\ [Next]_vars => IInv'
  BY Inductive
<1> QED BY <1>1, Initially, PTL DEF Spec

\* Replication runs only in a tab that is signed in, however its sign-out, a
\* refusal and another tab's sign-out interleave with the requests under way.
THEOREM ReplicationEnds ==
  ASSUME "overlap" \notin Faults
  PROVE  Spec => []SyncWithinSession
<1>1. IInv => SyncWithinSession
  BY DEF IInv, TabInv, SyncWithinSession
<1> QED BY <1>1, Invariance, PTL

\* A tab has at most one refresh under way, and none beside an armed timer.
THEOREM OneAtATime ==
  ASSUME "overlap" \notin Faults
  PROVE  Spec => []OneRefreshPerTab
<1>1. IInv => OneRefreshPerTab
  BY DEF IInv, TabInv, OneRefreshPerTab, LiveRefresh, Live
<1> QED BY <1>1, Invariance, PTL

\* A tab that may still have a session, and is not signing out, never loses its
\* refresher.
THEOREM NeverAbandoned ==
  ASSUME "overlap" \notin Faults
  PROVE  Spec => []RefresherAlive
<1>1. IInv => RefresherAlive
  <2> SUFFICES ASSUME IInv, NEW t \in Tabs,
                      session[t] \in {"unknown", "signed-in", "offline-held"}, ~Busy(t, "signout")
               PROVE  armed[t] \/ LiveRefresh(t) # {}
    BY DEF RefresherAlive
  <2>1. armed[t] \/ \E j \in Jobs : Live(j, t) \/ IsOut(j, t)
    BY DEF IInv, TabInv
  <2>2. ASSUME NEW j \in Jobs, Live(j, t)
        PROVE  LiveRefresh(t) # {}
    BY <2>2 DEF Live, LiveRefresh
  <2> QED BY <2>1, <2>2 DEF Busy, IsOut
<1> QED BY <1>1, Invariance, PTL

------------------------------------------------------------------------------
(* 5. One tab, without faults.                                            *)

\* The one tab that is used, without faults. A call that may write a token carries one that the
\* server takes; it is the only one that writes, so the revision it read is still the stored one.
Writing == {"writeGet", "forgetGet", "forgetRemove", "put"}
AtRest == token # None => status[token] = "live"
Carries(j) == job[j].got # None /\ status[job[j].got] = "live"

Writes(j) ==
  /\ job[j].usable
  /\ job[j].pc \in Writing => Carries(j)
  /\ job[j].pc \in Writing \ {"writeGet"} => Matches(j)

Renews(j) ==
  /\ Writes(j) /\ job[j].pc \in {"read", "asked", "answered"} \cup Writing
  /\ job[j].pc \in {"read", "asked"} => AtRest
  /\ job[j].pc = "asked" => job[j].sent = token
  /\ job[j].pc = "answered" => Carries(j) \/ (job[j].got = None /\ job[j].sent = None /\ token = None)

SignsIn(j) ==
  /\ Writes(j) /\ job[j].live /\ job[j].pc \in {"asked", "answered"} \cup Writing
  /\ job[j].pc = "answered" => Carries(j)

Is(j, kind) == job[j].kind = kind

\* One call at a time: a stopped refresh is the last one until it has ended.
InTurn(t) ==
  /\ \A i, j \in Jobs : Is(i, "refresh") /\ Is(j, "refresh") => i = j
  /\ \A j \in Jobs : Is(j, "refresh") =>
       /\ ~armed[t] /\ \A i \in Jobs : ~Is(i, "signin")
       /\ ~job[j].live /\ job[j].usable => \E i \in Jobs : Is(i, "signout")

Nobody(t) == \A j \in Jobs : ~Is(j, "signin") /\ (Is(j, "refresh") => ~job[j].live)

SessionSound(t) ==
  /\ session[t] \in {"unknown", "signed-in", "signed-out"} /\ usable[t]
  /\ armed[t] => AtRest /\ session[t] # "signed-out"
  /\ armed[t] /\ session[t] = "signed-in" => token # None
  /\ armed[t] /\ session[t] = "unknown" => held[t] = None
  /\ session[t] = "signed-out" /\ Nobody(t) => token = None /\ held[t] = None
  /\ handoff # None => session[t] = "unknown" /\ token = None

CallSound(j, t) ==
  /\ Is(j, "refresh") /\ job[j].live =>
       /\ Renews(j) /\ (session[t] # "unknown" => token # None)
       /\ session[t] = "unknown" /\ job[j].pc \notin Writing => held[t] = None
       /\ handoff # None => job[j].pc \in {"read", "asked"}
  /\ Is(j, "signin") =>
       SignsIn(j) /\ token = None /\ (job[j].pc \notin Writing => held[t] = None)
  /\ Is(j, "signout") /\ job[j].pc # "read" => held[t] = None

Steady(t) == InTurn(t) /\ SessionSound(t) /\ \A j \in Jobs : CallSound(j, t)

Claims == {"refresh", "signin", "signout"}

\* What is claimed of a call looks at these of it.
Unmoved(i) ==
  /\ job'[i].kind = job[i].kind /\ job'[i].live = job[i].live
  /\ job'[i].usable = job[i].usable /\ job'[i].pc = job[i].pc
  /\ job'[i].sent = job[i].sent /\ job'[i].got = job[i].got /\ job'[i].rev = job[i].rev

Stays(i) == Unmoved(i) \/ (job[i].kind \notin Claims /\ job'[i].kind \notin Claims)

\* Every call is of the one tab there is.
LEMMA OfTheTab ==
  ASSUME IInv, NEW t, Tabs = {t}, NEW j \in Jobs
  PROVE  /\ Live(j, t) <=> Is(j, "refresh") /\ job[j].live
         /\ IsIn(j, t) <=> Is(j, "signin")
         /\ IsOut(j, t) <=> Is(j, "signout")
         /\ job[j].kind # "none" => job[j].tab = t
BY DEF IInv, TypeInv, Placed, Live, IsIn, IsOut, Is

\* What a call excludes.
LEMMA Exclusive ==
  ASSUME IInv, NEW t, Tabs = {t}, Steady(t), NEW j \in Jobs
  PROVE  /\ (Is(j, "refresh") /\ job[j].live) \/ Is(j, "signin") =>
              ~armed[t] /\ \A i \in Jobs \ {j} : job[i].kind \notin Claims
         /\ Is(j, "refresh") /\ ~job[j].live =>
              ~armed[t] /\ \A i \in Jobs \ {j} : ~Is(i, "refresh") /\ ~Is(i, "signin")
         /\ Is(j, "signout") =>
              /\ ~armed[t] /\ session[t] = "signed-in" /\ handoff = None
              /\ \A i \in Jobs : /\ ~Is(i, "signin") /\ (Is(i, "refresh") => ~job[i].live)
                                 /\ Is(i, "signout") => i = j
         /\ Is(j, "signin") => session[t] = "signed-out" /\ handoff = None
         /\ armed[t] => \A i \in Jobs : job[i].kind \notin Claims
<1>1. TabInv(t) /\ InTurn(t) /\ SessionSound(t)
  BY DEF IInv, Steady
<1>2. \A i \in Jobs : /\ Live(i, t) <=> Is(i, "refresh") /\ job[i].live
                      /\ IsIn(i, t) <=> Is(i, "signin")
                      /\ IsOut(i, t) <=> Is(i, "signout")
  BY OfTheTab
<1>3. CASE (Is(j, "refresh") /\ job[j].live) \/ Is(j, "signin")
  <2>1. ~armed[t]
    BY <1>1, <1>2, <1>3 DEF TabInv
  <2>2. \A i \in Jobs : ~Is(i, "signout")
    BY <1>1, <1>2, <1>3 DEF TabInv
  <2>3. \A i \in Jobs \ {j} : ~Is(i, "refresh") /\ ~Is(i, "signin")
    BY <1>1, <1>2, <1>3 DEF TabInv, InTurn
  <2>4. Is(j, "signin") => session[t] = "signed-out"
    BY <1>1, <1>2 DEF TabInv, SessionSound
  <2> QED BY <1>1, <1>3, <2>1, <2>2, <2>3, <2>4 DEF Is, Claims, SessionSound
<1>4. CASE Is(j, "refresh") /\ ~job[j].live
  BY <1>1, <1>4 DEF InTurn, Is
<1>5. CASE Is(j, "signout")
  BY <1>1, <1>2, <1>5 DEF TabInv, SessionSound, Is
<1>6. CASE job[j].kind \notin Claims
  BY <1>1, <1>2, <1>6 DEF TabInv, InTurn, Is, Claims
<1>7. armed[t] => \A i \in Jobs : job[i].kind \notin Claims
  BY <1>1, <1>2 DEF TabInv, InTurn, Is, Claims
<1> QED BY <1>3, <1>4, <1>5, <1>6, <1>7 DEF Is, Claims

\* A step that is none of theirs.
LEMMA SteadyFrame ==
  ASSUME TypeInv, NEW t, Steady(t),
         session'[t] = session[t], armed'[t] = armed[t], usable'[t] = usable[t],
         held'[t] \in {held[t], None}, token' = token, handoff' = handoff,
         \A k \in Tokens : status[k] = "live" => status'[k] = "live",
         \A i \in Jobs : Stays(i)
  PROVE  Steady(t)'
<1>1. AtRest => AtRest'
  BY DEF AtRest, TypeInv, TypeOK
<1>2. ASSUME NEW j \in Jobs, Unmoved(j)
      PROVE  CallSound(j, t) => CallSound(j, t)'
  <2>1. Carries(j) => Carries(j)'
    BY <1>2, JobKnown DEF Carries, Unmoved
  <2>2. Matches(j) => Matches(j)'
    BY <1>2 DEF Matches, Unmoved
  <2>3. Writes(j) => Writes(j)'
    BY <1>2, <2>1, <2>2 DEF Writes, Unmoved
  <2>4. Renews(j) => Renews(j)'
    BY <1>1, <1>2, <2>1, <2>3 DEF Renews, Unmoved
  <2>5. SignsIn(j) => SignsIn(j)'
    BY <1>2, <2>1, <2>3 DEF SignsIn, Unmoved
  <2> QED BY <1>2, <2>4, <2>5 DEF CallSound, Is, Unmoved
<1>3. \A j \in Jobs : CallSound(j, t)'
  BY <1>2 DEF Stays, Steady, CallSound, Is, Claims
<1>4. InTurn(t)'
  BY DEF Steady, InTurn, Is, Stays, Unmoved, Claims
<1>5. Nobody(t)' => Nobody(t)
  BY DEF Nobody, Is, Stays, Unmoved, Claims
<1>6. SessionSound(t)'
  BY <1>1, <1>5 DEF Steady, SessionSound
<1> QED BY <1>3, <1>4, <1>6 DEF Steady

\* The one call that may write the token moves on, or ends.
LEMMA AloneMoves ==
  ASSUME NEW t, NEW j \in Jobs, \A i \in Jobs \ {j} : job'[i].kind \notin Claims,
         job'[j].kind = "refresh" => job'[j].live /\ ~armed'[t],
         SessionSound(t)', CallSound(j, t)'
  PROVE  Steady(t)'
<1>1. InTurn(t)'
  BY DEF InTurn, Is, Claims
<1>2. \A i \in Jobs : CallSound(i, t)'
  BY DEF CallSound, Is, Claims
<1> QED BY <1>1, <1>2 DEF Steady

\* A stopped refresh moves on, or ends: nothing it does is asked about.
LEMMA StoppedMoves ==
  ASSUME IInv, NEW t, Tabs = {t}, Steady(t), NEW j \in Jobs, Is(j, "refresh"), ~job[j].live,
         session'[t] = session[t], armed'[t] = armed[t], usable'[t] = usable[t], held'[t] = held[t],
         handoff' \in {handoff, None},
         token' = token \/ (job[j].usable /\ handoff' = handoff),
         \A i \in Jobs \ {j} : /\ job'[i].kind = job[i].kind /\ job'[i].live = job[i].live
                               /\ job'[i].usable = job[i].usable /\ job'[i].pc = job[i].pc,
         \/ job'[j].kind = "none"
         \/ job'[j].kind = "refresh" /\ ~job'[j].live /\ job'[j].usable = job[j].usable
  PROVE  Steady(t)'
<1>1. ~armed[t] /\ \A i \in Jobs \ {j} : ~Is(i, "refresh") /\ ~Is(i, "signin")
  BY Exclusive
<1>2. job[j].usable => \E i \in Jobs : Is(i, "signout")
  BY DEF Steady, InTurn
<1>3. job[j].usable => session[t] = "signed-in" /\ handoff = None
  BY <1>2, Exclusive
<1>4. \A i \in Jobs \ {j} : job'[i].kind # "refresh" /\ job'[i].kind # "signin"
  BY <1>1 DEF Is
<1>5. InTurn(t)'
  <2>1. \A i \in Jobs : Is(i, "signout") => Is(i, "signout")'
    BY DEF Is
  <2> QED BY <1>1, <1>2, <1>4, <2>1 DEF InTurn, Is
<1>6. Nobody(t)
  BY <1>1 DEF Nobody, Is
<1>7. SessionSound(t)'
  BY <1>1, <1>3, <1>6 DEF Steady, SessionSound
<1>8. \A i \in Jobs : CallSound(i, t)'
  <2>1. CallSound(j, t)'
    BY DEF CallSound, Is
  <2>2. \A i \in Jobs \ {j} : CallSound(i, t)'
    BY <1>4 DEF Steady, CallSound, Is
  <2> QED BY <2>1, <2>2
<1> QED BY <1>5, <1>7, <1>8 DEF Steady

\* A stopped refresh reports nothing.
LEMMA StoppedReports ==
  ASSUME IInv, NEW t, Tabs = {t}, Steady(t), NEW j \in Jobs, Is(j, "refresh"), ~job[j].live,
         NEW J \in Jobtype, \A i \in Jobs \ {j} : /\ J[i].kind = job[i].kind /\ J[i].live = job[i].live
                                                 /\ J[i].usable = job[i].usable /\ J[i].pc = job[i].pc,
         NEW kind, NEW stored, Outcome(j, J, kind, stored), UNCHANGED server,
         token' = token \/ job[j].usable
  PROVE  Steady(t)'
<1>1. job' = [J EXCEPT ![j] = Idle] /\ UNCHANGED tabs
  BY DEF Outcome, Silent
<1>2. job'[j].kind = "none" /\ \A i \in Jobs \ {j} : job'[i] = J[i]
  BY <1>1 DEF Jobtype, Idle, New
<1> QED BY <1>1, <1>2, StoppedMoves DEF tabs, server

\* What an update of one call leaves of it.
LEMMA Updated ==
  ASSUME TypeInv, NEW j \in Jobs
  PROVE  /\ job \in Jobtype /\ job[j] \in Job
         /\ \A r : job' = [job EXCEPT ![j] = r] =>
              job'[j] = r /\ \A i \in Jobs \ {j} : job'[i] = job[i]
BY TypeParts DEF JobTyped, Jobtype

\* The server answers.
LEMMA AnsweredFields ==
  ASSUME TypeInv, NEW j \in Jobs, NEW k, NEW a, Answer(j, k, a)
  PROVE  /\ job'[j].pc = "answered" /\ job'[j].got = k
         /\ job'[j].kind = job[j].kind /\ job'[j].live = job[j].live
         /\ job'[j].usable = job[j].usable /\ job'[j].sent = job[j].sent
         /\ \A i \in Jobs \ {j} : job'[i] = job[i]
<1>1. job'[j] = [job[j] EXCEPT !.pc = "answered", !.got = k, !.who = a]
      /\ \A i \in Jobs \ {j} : job'[i] = job[i]
  BY Updated DEF Answer, Jobtype
<1> QED BY <1>1, Updated DEF Job

\* The server rotates the token it is sent, or has none to go by.
LEMMA ExchangeSteady ==
  ASSUME IInv, Faults = {}, NEW t, Tabs = {t}, Steady(t), NEW j \in Jobs, Exchange(j)
  PROVE  Steady(t)'
<1>0. Is(j, "refresh") /\ job[j].pc = "asked" /\ UNCHANGED <<store, tabs>> /\ TypeInv
  BY DEF Exchange, At, Is, IInv
<1>1. PICK k, a : Answer(j, k, a)
  BY DEF Exchange
<1>2. /\ job'[j].pc = "answered" /\ job'[j].got = k
      /\ job'[j].kind = job[j].kind /\ job'[j].live = job[j].live
      /\ job'[j].usable = job[j].usable /\ job'[j].sent = job[j].sent
      /\ \A i \in Jobs \ {j} : job'[i] = job[i]
  BY <1>0, <1>1, AnsweredFields
<1>3. handoff' \in {handoff, None}
  BY DEF Exchange
<1>4. CASE ~job[j].live
  BY <1>0, <1>2, <1>3, <1>4, StoppedMoves DEF tabs, store, Is
<1>5. CASE job[j].live
  <2>0. ~armed[t] /\ \A i \in Jobs \ {j} : job[i].kind \notin Claims
    BY <1>0, <1>5, Exclusive
  <2>1. /\ job[j].usable /\ AtRest /\ job[j].sent = token
        /\ session[t] # "unknown" => token # None
        /\ session[t] = "unknown" => held[t] = None
    BY <1>0, <1>5 DEF Steady, CallSound, Renews, Writes, Writing
  <2>2. handoff' = None /\ (Carries(j)' \/ (k = None /\ token = None))
    <3>1. CASE /\ handoff # None /\ \E n \in Tokens : Mint(n, handoff, {}) /\ Answer(j, n, handoff)
               /\ handoff' = None
      <4>1. PICK n \in Tokens : Mint(n, handoff, {}) /\ Answer(j, n, handoff)
        BY <3>1
      <4>2. job'[j].got = n
        BY <1>0, <4>1, AnsweredFields
      <4>3. status'[n] = "live" /\ n # None
        BY <4>1, NoneIsNoValue DEF Mint
      <4> QED BY <3>1, <4>2, <4>3 DEF Carries
    <3>2. CASE /\ handoff = None /\ \E n \in Tokens : Mint(n, owner[job[j].sent], {job[j].sent})
                                                   /\ Answer(j, n, owner[job[j].sent])
               /\ UNCHANGED handoff
      <4>1. PICK n \in Tokens : /\ Mint(n, owner[job[j].sent], {job[j].sent})
                                /\ Answer(j, n, owner[job[j].sent])
        BY <3>2
      <4>2. job'[j].got = n
        BY <1>0, <4>1, AnsweredFields
      <4>3. status'[n] = "live" /\ n # None
        BY <4>1, NoneIsNoValue DEF Mint
      <4> QED BY <3>2, <4>2, <4>3 DEF Carries
    <3>3. CASE /\ handoff = None /\ UNCHANGED handoff
               /\ job[j].sent # None => status[job[j].sent] \in {"consumed", "gone"}
               /\ Answer(j, None, None)
      <4>1. token = None
        BY <2>1, <3>3 DEF AtRest
      <4>2. job'[j].got = None
        BY <1>0, <3>3, AnsweredFields
      <4> QED BY <1>2, <3>3, <4>1, <4>2
    <3> QED BY <3>1, <3>2, <3>3 DEF Exchange
  <2>3. Renews(j)'
    BY <1>0, <1>2, <2>1, <2>2 DEF Renews, Writes, Writing, store
  <2>4. CallSound(j, t)'
    BY <1>0, <1>2, <2>1, <2>2, <2>3 DEF CallSound, Is, store, tabs
  <2>5. ~Nobody(t)'
    BY <1>0, <1>2, <1>5 DEF Nobody, Is
  <2>6. SessionSound(t)'
    BY <1>0, <2>0, <2>2, <2>5 DEF Steady, SessionSound, store, tabs
  <2> QED BY <1>0, <1>2, <1>5, <2>0, <2>4, <2>6, AloneMoves DEF tabs
<1> QED BY <1>4, <1>5, Updated, <1>0 DEF Job

\* The server accepts the credentials of a sign-in.
LEMMA VerifySteady ==
  ASSUME IInv, Faults = {}, NEW t, Tabs = {t}, Steady(t), NEW j \in Jobs, Verify(j)
  PROVE  Steady(t)'
<1>0. Is(j, "signin") /\ job[j].pc = "asked" /\ UNCHANGED <<handoff, store, tabs>> /\ TypeInv
  BY DEF Verify, At, Is, IInv
<1>1. PICK n \in Tokens : Mint(n, job[j].who, {}) /\ Answer(j, n, job[j].who)
  BY DEF Verify
<1>2. /\ job'[j].pc = "answered" /\ job'[j].got = n
      /\ job'[j].kind = job[j].kind /\ job'[j].live = job[j].live
      /\ job'[j].usable = job[j].usable
      /\ \A i \in Jobs \ {j} : job'[i] = job[i]
  BY <1>0, <1>1, AnsweredFields
<1>3. /\ ~armed[t] /\ \A i \in Jobs \ {j} : job[i].kind \notin Claims
      /\ session[t] = "signed-out" /\ handoff = None
  BY <1>0, Exclusive
<1>4. job[j].usable /\ job[j].live /\ token = None /\ held[t] = None
  BY <1>0 DEF Steady, CallSound, SignsIn, Writes, Writing
<1>5. Carries(j)'
  BY <1>1, <1>2, NoneIsNoValue DEF Carries, Mint
<1>6. SignsIn(j)'
  BY <1>2, <1>4, <1>5 DEF SignsIn, Writes, Writing
<1>7. CallSound(j, t)'
  BY <1>0, <1>2, <1>4, <1>6 DEF CallSound, Is, store, tabs
<1>8. SessionSound(t)'
  BY <1>0, <1>3, <1>4 DEF Steady, SessionSound, store, tabs
<1> QED BY <1>0, <1>2, <1>3, <1>7, <1>8, AloneMoves DEF Is, tabs

\* The stored token is never one that is only tolerated, so the end of its grace is not felt.
LEMMA GraceSteady ==
  ASSUME IInv, NEW t, Tabs = {t}, Steady(t), NEW k \in Tokens, GraceEnds(k)
  PROVE  Steady(t)'
<1>1. UNCHANGED <<handoff, token, session, held, armed, usable, job>> /\ TypeInv
  BY DEF GraceEnds, store, tabs, IInv
<1>2. \A l \in Tokens : status[l] = "live" => status'[l] = "live"
  BY <1>1 DEF GraceEnds, TypeInv, TypeOK
<1>3. \A i \in Jobs : Stays(i)
  BY <1>1 DEF Stays, Unmoved
<1> QED BY <1>1, <1>2, <1>3, SteadyFrame

\* A live call that claims the token reads, asks and checks before it writes.
LEMMA ReadSteady ==
  ASSUME IInv, NEW t, Tabs = {t}, Steady(t), NEW j \in Jobs, ReadToken(j)
  PROVE  Steady(t)'
<1>0. Is(j, "refresh") /\ job[j].pc = "read" /\ UNCHANGED <<server, store>> /\ TypeInv
  BY DEF ReadToken, At, Is, IInv
<1>1. CASE ~job[j].live
  <2>1. Outcome(j, job, "unreachable", (IF job[j].usable THEN token ELSE None) # None)
    BY <1>1 DEF ReadToken
  <2> QED BY <1>0, <1>1, <2>1, Updated, StoppedReports DEF store
<1>2. CASE job[j].live
  <2>0. ~armed[t] /\ \A i \in Jobs \ {j} : job[i].kind \notin Claims
    BY <1>0, <1>2, Exclusive
  <2>1. /\ job[j].usable /\ AtRest
        /\ session[t] # "unknown" => token # None
        /\ session[t] = "unknown" => held[t] = None
    BY <1>0, <1>2 DEF Steady, CallSound, Renews, Writes, Writing
  <2>2. /\ job'[j] = [job[j] EXCEPT !.pc = "asked", !.sent = token] /\ UNCHANGED tabs
        /\ \A i \in Jobs \ {j} : job'[i] = job[i]
    BY <1>0, <1>2, <2>1, Updated DEF ReadToken, Jobtype
  <2>3. /\ job'[j].pc = "asked" /\ job'[j].sent = token /\ job'[j].kind = "refresh"
        /\ job'[j].live /\ job'[j].usable
    BY <1>0, <1>2, <2>1, <2>2, Updated DEF Job, Is
  <2>4. Renews(j)'
    BY <1>0, <2>1, <2>3 DEF Renews, Writes, Writing, AtRest, store, server
  <2>5. CallSound(j, t)'
    BY <1>0, <2>1, <2>2, <2>3, <2>4 DEF CallSound, Is, store, tabs
  <2>6. ~Nobody(t)'
    BY <2>3 DEF Nobody, Is
  <2>7. SessionSound(t)'
    BY <1>0, <2>0, <2>2, <2>6 DEF Steady, SessionSound, store, server, tabs
  <2> QED BY <2>0, <2>2, <2>3, <2>5, <2>7, AloneMoves DEF tabs
<1> QED BY <1>0, <1>1, <1>2, Updated DEF Job

\* A live refresh that was answered no token was never asked for one.
LEMMA SignedOutSteady ==
  ASSUME IInv, NEW t, Tabs = {t}, Steady(t), NEW j \in Jobs, Is(j, "refresh"), job[j].live,
         job[j].pc = "answered", job[j].got = None, SignedOut(j, job), UNCHANGED <<server, store>>
  PROVE  Steady(t)'
<1>0. ~armed[t] /\ \A i \in Jobs \ {j} : job[i].kind \notin Claims
  BY Exclusive
<1>1. token = None /\ session[t] = "unknown" /\ held[t] = None /\ handoff = None
  BY DEF Steady, CallSound, Renews, Carries, Writing, SessionSound
<1>2. job[j].tab = t /\ TypeInv
  BY OfTheTab DEF Is, IInv
<1>3. /\ session' = [session EXCEPT ![t] = "signed-out"] /\ job' = [job EXCEPT ![j] = Idle]
      /\ UNCHANGED <<held, armed, usable>>
  BY <1>1, <1>2 DEF SignedOut
<1>4. session'[t] = "signed-out"
  BY <1>2, <1>3 DEF TypeInv, TypeOK
<1>5. job'[j].kind = "none" /\ \A i \in Jobs \ {j} : job'[i] = job[i]
  <2>1. job'[j] = Idle /\ \A i \in Jobs \ {j} : job'[i] = job[i]
    BY <1>2, <1>3, Updated
  <2> QED BY <2>1 DEF Idle, New
<1>6. SessionSound(t)'
  BY <1>0, <1>1, <1>3, <1>4 DEF Steady, SessionSound, server, store
<1>7. CallSound(j, t)'
  BY <1>5 DEF CallSound, Is
<1> QED BY <1>0, <1>5, <1>6, <1>7, AloneMoves

\* The answer is taken, dropped by an aborted request, or says that nobody is signed in.
LEMMA ReceiveSteady ==
  ASSUME IInv, NEW t, Tabs = {t}, Steady(t), NEW j \in Jobs, Receive(j)
  PROVE  Steady(t)'
<1>0. /\ job[j].kind \in {"refresh", "signin"} /\ job[j].pc = "answered"
      /\ UNCHANGED <<server, store>> /\ TypeInv
  BY DEF Receive, At, IInv
<1>1. CASE job[j].kind = "refresh" /\ ~job[j].live
  <2>1. Outcome(j, job, "unreachable", job[j].sent # None)
    BY <1>1 DEF Receive
  <2> QED BY <1>0, <1>1, <2>1, Updated, StoppedReports DEF store, Is
<1>2. CASE job[j].live /\ job[j].got # None
  <2>0. ~armed[t] /\ \A i \in Jobs \ {j} : job[i].kind \notin Claims
    BY <1>0, <1>2, Exclusive DEF Is
  <2>1. /\ job[j].usable /\ Carries(j)
        /\ Is(j, "refresh") /\ session[t] # "unknown" => token # None
        /\ Is(j, "signin") => token = None
        /\ handoff = None
    BY <1>0, <1>2, Exclusive
       DEF Steady, CallSound, Renews, SignsIn, Writes, Writing, Is, Carries
  <2>2. /\ job'[j] = [job[j] EXCEPT !.pc = "writeGet", !.who = None]
        /\ \A i \in Jobs \ {j} : job'[i] = job[i]
        /\ UNCHANGED <<session, armed, syncing, usable>>
    BY <1>0, <1>2, Updated DEF Receive, Jobtype
  <2>3. /\ job'[j].pc = "writeGet" /\ job'[j].got = job[j].got /\ job'[j].kind = job[j].kind
        /\ job'[j].live /\ job'[j].usable
    BY <1>0, <1>2, <2>1, <2>2, Updated DEF Job
  <2>4. Writes(j)' /\ Carries(j)'
    BY <1>0, <2>1, <2>3 DEF Writes, Writing, Carries, store, server
  <2>5. CallSound(j, t)'
    BY <1>0, <2>1, <2>2, <2>3, <2>4 DEF CallSound, Renews, SignsIn, Is, Writing, store, server
  <2>6. ~Nobody(t)'
    BY <1>0, <2>3 DEF Nobody, Is
  <2>7. SessionSound(t)'
    BY <1>0, <2>0, <2>1, <2>2, <2>6 DEF Steady, SessionSound, store, server
  <2> QED BY <2>0, <2>2, <2>3, <2>5, <2>7, AloneMoves
<1>3. CASE job[j].kind = "refresh" /\ job[j].live /\ job[j].got = None
  <2>1. job[j].sent = None
    BY <1>0, <1>3 DEF Steady, CallSound, Renews, Carries, Is
  <2>2. Outcome(j, job, "signed-out", FALSE)
    BY <1>3, <2>1 DEF Receive
  <2>3. SignedOut(j, job)
    BY <1>3, <2>2 DEF Outcome
  <2> QED BY <1>0, <1>3, <2>3, SignedOutSteady DEF Is
<1>4. job[j].kind = "signin" => job[j].live /\ job[j].got # None
  BY <1>0 DEF Steady, CallSound, SignsIn, Carries, Is
<1> QED BY <1>0, <1>1, <1>2, <1>3, <1>4

\* What a live call that claims the token has while it writes.
LEMMA WritingKnown ==
  ASSUME IInv, NEW t, Tabs = {t}, Steady(t), NEW j \in Jobs,
         job[j].kind \in {"refresh", "signin"}, job[j].pc \in Writing, job[j].live
  PROVE  /\ job[j].usable /\ Carries(j) /\ handoff = None
         /\ job[j].pc # "writeGet" => Matches(j)
         /\ Is(j, "refresh") /\ session[t] # "unknown" => token # None
         /\ Is(j, "signin") => token = None /\ session[t] = "signed-out"
         /\ ~armed[t] /\ \A i \in Jobs \ {j} : job[i].kind \notin Claims
<1>1. ~armed[t] /\ \A i \in Jobs \ {j} : job[i].kind \notin Claims
  BY Exclusive DEF Is
<1>2. Is(j, "signin") => handoff = None /\ session[t] = "signed-out"
  BY Exclusive
<1> QED BY <1>1, <1>2 DEF Steady, CallSound, Renews, SignsIn, Writes, Writing, Is

\* A signing-in call is live.
LEMMA SignInLive ==
  ASSUME NEW t, Steady(t), NEW j \in Jobs, job[j].kind = "signin"
  PROVE  job[j].live
BY DEF Steady, CallSound, SignsIn, Is

\* A write goes on: the token and its revision stay as they were read.
LEMMA WritingMoves ==
  ASSUME IInv, NEW t, Tabs = {t}, Steady(t), NEW j \in Jobs,
         job[j].kind \in {"refresh", "signin"}, job[j].pc \in Writing,
         UNCHANGED <<server, token, tabs>>,
         /\ job'[j].pc \in {"forgetGet", "forgetRemove", "put"}
         /\ job'[j].kind = job[j].kind /\ job'[j].live = job[j].live
         /\ job'[j].usable = job[j].usable /\ job'[j].got = job[j].got,
         \A i \in Jobs \ {j} : Unmoved(i),
         job[j].live => Matches(j)'
  PROVE  Steady(t)'
<1>1. CASE ~job[j].live
  <2>1. job[j].kind = "refresh"
    BY <1>1, SignInLive
  <2> QED BY <1>1, <2>1, StoppedMoves DEF tabs, server, Is, Unmoved
<1>2. CASE job[j].live
  <2>1. /\ job[j].usable /\ Carries(j) /\ handoff = None
        /\ Is(j, "refresh") /\ session[t] # "unknown" => token # None
        /\ Is(j, "signin") => token = None /\ session[t] = "signed-out"
        /\ ~armed[t] /\ \A i \in Jobs \ {j} : job[i].kind \notin Claims
    BY <1>2, WritingKnown
  <2>2. Writes(j)' /\ Carries(j)'
    BY <1>2, <2>1 DEF Writes, Writing, Carries, server
  <2>3. CallSound(j, t)'
    BY <1>2, <2>1, <2>2 DEF CallSound, Renews, SignsIn, Is, Writing, tabs, server
  <2>4. ~Nobody(t)'
    BY <1>2 DEF Nobody, Is
  <2>5. SessionSound(t)'
    BY <2>1, <2>4 DEF Steady, SessionSound, server, tabs
  <2>6. \A i \in Jobs \ {j} : job'[i].kind \notin Claims
    BY <2>1 DEF Unmoved
  <2> QED BY <1>2, <2>1, <2>3, <2>5, <2>6, AloneMoves DEF tabs
<1> QED BY <1>1, <1>2, Updated DEF Job, IInv

\* The revision is read: nothing else writes the token until the call has.
LEMMA WriteGetSteady ==
  ASSUME IInv, NEW t, Tabs = {t}, Steady(t), NEW j \in Jobs, WriteGet(j)
  PROVE  Steady(t)'
<1>0. /\ job[j].kind \in {"refresh", "signin"} /\ job[j].pc \in Writing
      /\ UNCHANGED <<server, store, tabs>> /\ TypeInv
  BY DEF WriteGet, At, IInv, Writing
<1>1. PICK rev \in {"current", "missing"}, pc \in {"put", "forgetGet"} :
         /\ job' = [job EXCEPT ![j].rev = rev, ![j].pc = pc]
         /\ rev = "current" <=> job[j].usable /\ token # None
  BY DEF WriteGet
<1>2. /\ job'[j] = [job[j] EXCEPT !.rev = rev, !.pc = pc]
      /\ \A i \in Jobs \ {j} : job'[i] = job[i]
  BY <1>0, <1>1, Updated DEF Jobtype
<1>3. /\ job'[j].pc = pc /\ job'[j].rev = rev
      /\ job'[j].kind = job[j].kind /\ job'[j].live = job[j].live
      /\ job'[j].usable = job[j].usable /\ job'[j].got = job[j].got
  BY <1>0, <1>2, Updated DEF Job
<1>4. job[j].live => job[j].usable
  BY <1>0, WritingKnown
<1>5. job[j].live => Matches(j)'
  BY <1>0, <1>1, <1>3, <1>4 DEF Matches, store
<1> QED BY <1>0, <1>2, <1>3, <1>5, WritingMoves DEF Unmoved, store

\* A profile write changes nothing else of a call.
LEMMA ProfileTouched ==
  ASSUME TypeInv, NEW i \in Jobs
  PROVE  LET r == TouchProfile(job)[i] IN
         /\ r.kind = job[i].kind /\ r.live = job[i].live /\ r.usable = job[i].usable
         /\ r.pc = job[i].pc /\ r.sent = job[i].sent /\ r.got = job[i].got /\ r.rev = job[i].rev
BY Updated DEF TouchProfile, Job

\* The profile that was cached of another account goes first.
LEMMA ForgetSteady ==
  ASSUME IInv, NEW t, Tabs = {t}, Steady(t), NEW j \in Jobs, ForgetGet(j) \/ ForgetRemove(j)
  PROVE  Steady(t)'
<1>0. /\ job[j].kind \in {"refresh", "signin"} /\ job[j].pc \in Writing /\ job[j].pc # "writeGet"
      /\ UNCHANGED <<server, token, tabs>> /\ TypeInv
  BY DEF ForgetGet, ForgetRemove, At, IInv, Writing, store
<1>1. job[j].live => Matches(j)
  BY <1>0, WritingKnown
<1>2. PICK J \in {job, TouchProfile(job)}, pc \in {"forgetRemove", "put"},
           prev \in {"current", "missing"} : job' = [J EXCEPT ![j].pc = pc, ![j].prev = prev]
  <2>1. CASE ForgetGet(j)
    BY <2>1 DEF ForgetGet
  <2>2. CASE ForgetRemove(j)
    BY <2>2 DEF ForgetRemove
  <2> QED BY <2>1, <2>2
<1>3. /\ J \in Jobtype /\ J[j] \in Job
      /\ \A i \in Jobs : /\ J[i].kind = job[i].kind /\ J[i].live = job[i].live
                         /\ J[i].usable = job[i].usable /\ J[i].pc = job[i].pc
                         /\ J[i].sent = job[i].sent /\ J[i].got = job[i].got
                         /\ J[i].rev = job[i].rev
  <2>1. job \in Jobtype /\ TouchProfile(job) \in Jobtype
    BY <1>0, Updated, Touched
  <2> QED BY <1>0, <2>1, ProfileTouched DEF Jobtype
<1>4. /\ job'[j] = [J[j] EXCEPT !.pc = pc, !.prev = prev]
      /\ \A i \in Jobs \ {j} : job'[i] = J[i]
  BY <1>2, <1>3 DEF Jobtype
<1>5. /\ job'[j].pc = pc /\ job'[j].rev = J[j].rev
      /\ job'[j].kind = J[j].kind /\ job'[j].live = J[j].live
      /\ job'[j].usable = J[j].usable /\ job'[j].got = J[j].got
  BY <1>3, <1>4 DEF Job
<1>6. job[j].live => Matches(j)'
  BY <1>0, <1>1, <1>3, <1>5 DEF Matches
<1>7. \A i \in Jobs \ {j} : Unmoved(i)
  BY <1>3, <1>4 DEF Unmoved
<1> QED BY <1>0, <1>3, <1>5, <1>6, <1>7, WritingMoves

\* A token write changes what other calls remember of it, and nothing else of them.
LEMMA TokenTouched ==
  ASSUME TypeInv, NEW i \in Jobs
  PROVE  LET r == TouchToken(job)[i] IN
         /\ r.kind = job[i].kind /\ r.live = job[i].live /\ r.usable = job[i].usable
         /\ r.pc = job[i].pc
BY Updated DEF TouchToken, Job

\* A stopped refresh writes, or does not: nothing of it is heard.
LEMMA StoppedPuts ==
  ASSUME IInv, NEW t, Tabs = {t}, Steady(t), NEW j \in Jobs, WritePut(j), ~job[j].live
  PROVE  Steady(t)'
<1>0. Is(j, "refresh") /\ UNCHANGED server /\ TypeInv
  BY SignInLive DEF WritePut, At, Is, IInv
<1>1. CASE job[j].usable /\ Written(j, TouchToken(job))
  <2>1. Outcome(j, TouchToken(job), "refreshed", TRUE)
    BY <1>0, <1>1 DEF Written, Is
  <2> QED BY <1>0, <1>1, <2>1, TokenTouched, Touched, StoppedReports
<1>2. CASE NotWritten(j) /\ UNCHANGED token
  <2>1. Outcome(j, job, "unreachable", FALSE)
    BY <1>0, <1>2 DEF NotWritten, Is
  <2> QED BY <1>0, <1>2, <2>1, Updated, StoppedReports
<1> QED BY <1>1, <1>2 DEF WritePut

\* A refresh that has written its token: the tab is signed in, and the next is scheduled.
LEMMA RefreshedSteady ==
  ASSUME IInv, NEW t, Tabs = {t}, Steady(t), NEW j \in Jobs, Is(j, "refresh"), job[j].live,
         job[j].pc = "put", token' = job[j].got, Refreshed(j, TouchToken(job)), UNCHANGED server
  PROVE  Steady(t)'
<1>0. TypeInv /\ job[j].tab = t
  BY OfTheTab DEF Is, IInv
<1>1. /\ Carries(j) /\ handoff = None /\ \A i \in Jobs \ {j} : job[i].kind \notin Claims
  BY WritingKnown DEF Writing, Is
<1>2. armed'[t] /\ session'[t] = "signed-in" /\ usable' = usable
  BY <1>0 DEF Refreshed, TypeInv, TypeOK
<1>3. TouchToken(job) \in Jobtype
  BY <1>0, Touched
<1>4. PICK r : job' = [TouchToken(job) EXCEPT ![j] = r] /\ r.kind \in {"none", "follow"}
  <2>1. Idle.kind = "none" /\ New("follow", t, "begin", usable[t], None).kind = "follow"
    BY DEF Idle, New
  <2> QED BY <1>0, <2>1 DEF Refreshed
<1>5. job'[j].kind \in {"none", "follow"} /\ \A i \in Jobs \ {j} : job'[i] = TouchToken(job)[i]
  BY <1>3, <1>4 DEF Jobtype
<1>6. \A i \in Jobs \ {j} : job'[i].kind \notin Claims
  BY <1>0, <1>1, <1>5, TokenTouched
<1>7. AtRest' /\ token' # None
  BY <1>1 DEF AtRest, Carries, server
<1>8. SessionSound(t)'
  BY <1>1, <1>2, <1>7 DEF Steady, SessionSound, server
<1>9. CallSound(j, t)'
  BY <1>5 DEF CallSound, Is
<1> QED BY <1>5, <1>6, <1>8, <1>9, AloneMoves

\* A sign-in that has written its token gives way to the refresher of its session.
LEMMA SignedInSteady ==
  ASSUME IInv, NEW t, Tabs = {t}, Steady(t), NEW j \in Jobs, Is(j, "signin"),
         job[j].pc = "put", token' = job[j].got, Written(j, TouchToken(job)), UNCHANGED server
  PROVE  Steady(t)'
<1>0. TypeInv /\ job[j].tab = t /\ job[j].live /\ usable[t]
  BY OfTheTab, SignInLive DEF Is, IInv, Steady, SessionSound
<1>1. /\ Carries(j) /\ handoff = None /\ session[t] = "signed-out"
      /\ \A i \in Jobs \ {j} : job[i].kind \notin Claims
  BY <1>0, WritingKnown DEF Writing, Is
<1> DEFINE J == StopRefresher(TouchToken(job), t)
           r == New("refresh", t, "read", usable[t], None)
<1>2. /\ job' = [J EXCEPT ![j] = r] /\ armed' = [armed EXCEPT ![t] = FALSE]
      /\ UNCHANGED <<session, held, syncing, usable>>
  BY <1>0 DEF Written, Is
<1>3. J \in Jobtype
  BY <1>0, Touched, JobsTyped
<1>4. \A i \in Jobs \ {j} : J[i].kind \notin Claims
  <2> TAKE i \in Jobs \ {j}
  <2>1. TouchToken(job)[i].kind \notin Claims
    BY <1>0, <1>1, TokenTouched
  <2> QED BY <2>1 DEF StopRefresher, Claims
<1>5. r.kind = "refresh" /\ r.live /\ r.usable /\ r.pc = "read"
  BY <1>0 DEF New
<1> HIDE DEF J, r
<1>6. job'[j] = r /\ \A i \in Jobs \ {j} : job'[i] = J[i]
  BY <1>2, <1>3 DEF Jobtype
<1>7. AtRest' /\ token' # None /\ ~armed'[t]
  BY <1>0, <1>1, <1>2 DEF AtRest, Carries, server, TypeInv, TypeOK
<1>8. Renews(j)'
  BY <1>5, <1>6, <1>7 DEF Renews, Writes, Writing
<1>9. CallSound(j, t)'
  BY <1>1, <1>2, <1>5, <1>6, <1>7, <1>8 DEF CallSound, Is, Writing
<1>10. ~Nobody(t)'
  BY <1>5, <1>6 DEF Nobody, Is
<1>11. SessionSound(t)'
  BY <1>1, <1>2, <1>7, <1>10 DEF Steady, SessionSound, server
<1> QED BY <1>4, <1>5, <1>6, <1>7, <1>9, <1>11, AloneMoves

\* The token is written with the revision that was read, which is the stored one.
LEMMA WritePutSteady ==
  ASSUME IInv, Faults = {}, NEW t, Tabs = {t}, Steady(t), NEW j \in Jobs, WritePut(j)
  PROVE  Steady(t)'
<1>0. job[j].kind \in {"refresh", "signin"} /\ job[j].pc = "put" /\ UNCHANGED server
  BY DEF WritePut, At
<1>1. CASE job[j].live
  <2>1. job[j].usable /\ Matches(j)
    BY <1>0, <1>1, WritingKnown DEF Writing
  <2>2. token' = job[j].got /\ Written(j, TouchToken(job))
    BY <2>1 DEF WritePut, May
  <2>3. CASE Is(j, "refresh")
    <3>1. Outcome(j, TouchToken(job), "refreshed", TRUE)
      BY <2>2, <2>3 DEF Written, Is
    <3>2. Refreshed(j, TouchToken(job))
      BY <1>1, <3>1 DEF Outcome
    <3> QED BY <1>0, <1>1, <2>2, <2>3, <3>2, RefreshedSteady
  <2>4. CASE Is(j, "signin")
    BY <1>0, <2>2, <2>4, SignedInSteady
  <2> QED BY <1>0, <2>3, <2>4 DEF Is
<1>2. CASE ~job[j].live
  BY <1>2, StoppedPuts
<1> QED BY <1>1, <1>2

\* While a sign-out runs nothing is asked of the stored token.
LEMMA LeavingMoves ==
  ASSUME IInv, NEW t, Tabs = {t}, Steady(t), NEW j \in Jobs, Is(j, "signout"),
         session'[t] = session[t], armed'[t] = armed[t], usable'[t] = usable[t],
         held'[t] \in {held[t], None}, handoff' = handoff,
         job'[j].kind = "signout", job[j].pc # "read" \/ held'[t] = None,
         \A i \in Jobs \ {j} : /\ job'[i].kind = job[i].kind /\ job'[i].live = job[i].live
                               /\ job'[i].usable = job[i].usable /\ job'[i].pc = job[i].pc
  PROVE  Steady(t)'
<1>1. /\ ~armed[t] /\ session[t] = "signed-in" /\ handoff = None
      /\ \A i \in Jobs : /\ ~Is(i, "signin") /\ (Is(i, "refresh") => ~job[i].live)
                         /\ Is(i, "signout") => i = j
  BY Exclusive
<1>2. InTurn(t)'
  BY <1>1 DEF Steady, InTurn, Is
<1>3. SessionSound(t)'
  BY <1>1 DEF Steady, SessionSound
<1>4. held'[t] = None
  BY DEF Steady, CallSound
<1>5. \A i \in Jobs : CallSound(i, t)'
  BY <1>1, <1>4 DEF CallSound, Is
<1> QED BY <1>2, <1>3, <1>5 DEF Steady

\* Clearing: only a sign-out, or a refresh it has stopped, gets there.
LEMMA ClearSteady ==
  ASSUME IInv, NEW t, Tabs = {t}, Steady(t), NEW j \in Jobs, ClearGet(j) \/ ClearRemove(j)
  PROVE  Steady(t)'
<1>0. /\ job[j].kind \in {"refresh", "signout"} /\ job[j].pc \in {"clearGet", "clearRemove"}
      /\ UNCHANGED server /\ TypeInv
  BY DEF ClearGet, ClearRemove, At, IInv
<1>1. PICK J \in {job, TouchToken(job)} :
         /\ \/ job' = [job EXCEPT ![j].pc = "clearRemove", ![j].rev = "current"] /\ UNCHANGED tabs
            \/ \E ok \in {TRUE, FALSE, job[j].usable, job[j].usable /\ token = None} : Cleared(j, J, ok)
         /\ token' = token \/ job[j].usable
  <2>1. CASE ClearGet(j)
    BY <2>1 DEF ClearGet, store
  <2>2. CASE ClearRemove(j)
    BY <2>2 DEF ClearRemove
  <2> QED BY <2>1, <2>2
<1>2. /\ J \in Jobtype /\ J[j] \in Job
      /\ \A i \in Jobs : /\ J[i].kind = job[i].kind /\ J[i].live = job[i].live
                         /\ J[i].usable = job[i].usable /\ J[i].pc = job[i].pc
  <2>1. job \in Jobtype /\ TouchToken(job) \in Jobtype
    BY <1>0, Updated, Touched
  <2> QED BY <1>0, <2>1, TokenTouched DEF Jobtype
<1>3. CASE job' = [job EXCEPT ![j].pc = "clearRemove", ![j].rev = "current"] /\ UNCHANGED tabs
  <2>1. /\ job'[j] = [job[j] EXCEPT !.pc = "clearRemove", !.rev = "current"]
        /\ \A i \in Jobs \ {j} : job'[i] = job[i]
    BY <1>0, <1>3, Updated DEF Jobtype
  <2>2. job'[j].kind = job[j].kind /\ job'[j].live = job[j].live /\ job'[j].usable = job[j].usable
    BY <1>0, <2>1, Updated DEF Job
  <2>3. Is(j, "refresh") => ~job[j].live
    BY <1>0 DEF Steady, CallSound, Renews, Writing
  <2>4. CASE Is(j, "refresh")
    BY <1>0, <1>1, <1>3, <2>1, <2>2, <2>3, <2>4, StoppedMoves DEF tabs, server, Is
  <2>5. CASE Is(j, "signout")
    BY <1>0, <1>3, <2>1, <2>2, <2>5, LeavingMoves DEF tabs, server, Is
  <2> QED BY <1>0, <2>4, <2>5 DEF Is
<1>4. ASSUME NEW ok, Cleared(j, J, ok)
      PROVE  Steady(t)'
  <2>1. CASE Is(j, "refresh")
    <3>1. ~job[j].live
      BY <1>0, <2>1 DEF Steady, CallSound, Renews, Writing
    <3>2. Outcome(j, J, IF ok THEN "ended" ELSE "unreachable", FALSE)
      BY <1>4, <2>1 DEF Cleared, Is
    <3> QED BY <1>0, <1>1, <1>2, <2>1, <3>1, <3>2, StoppedReports
  <2>2. CASE Is(j, "signout")
    <3>1. job' = [J EXCEPT ![j].pc = "revoke", ![j].rev = "missing"] /\ UNCHANGED tabs
      BY <1>4, <2>2 DEF Cleared, Is
    <3>2. /\ job'[j] = [J[j] EXCEPT !.pc = "revoke", !.rev = "missing"]
          /\ \A i \in Jobs \ {j} : job'[i] = J[i]
      BY <1>2, <3>1 DEF Jobtype
    <3>3. job'[j].kind = "signout"
      BY <1>2, <2>2, <3>2 DEF Job, Is
    <3>4. /\ session'[t] = session[t] /\ armed'[t] = armed[t] /\ usable'[t] = usable[t]
          /\ held'[t] = held[t] /\ handoff' = handoff /\ job[j].pc # "read"
      BY <1>0, <3>1 DEF tabs, server
    <3>5. \A i \in Jobs \ {j} : /\ job'[i].kind = job[i].kind /\ job'[i].live = job[i].live
                                 /\ job'[i].usable = job[i].usable /\ job'[i].pc = job[i].pc
      BY <1>2, <3>2
    <3>6. held'[t] \in {held[t], None}
      BY <3>4
    <3> QED BY <2>2, <3>3, <3>4, <3>5, <3>6, LeavingMoves, Zenon
  <2> QED BY <1>0, <2>1, <2>2 DEF Is
<1> QED BY <1>1, <1>3, <1>4

\* A sign-out ends the session on the server and removes what is kept locally.
LEMMA SignOutSteady ==
  ASSUME IInv, Faults = {}, NEW t, Tabs = {t}, Steady(t), NEW j \in Jobs, SignOutStep(j)
  PROVE  Steady(t)'
<1>0. Is(j, "signout") /\ TypeInv /\ job[j].tab = t
  BY OfTheTab DEF SignOutStep, TakeCredentials, EndServerSession, RemoveLocalData, At, Is, IInv
<1>1. CASE TakeCredentials(j) \/ EndServerSession(j)
  <2>1. /\ job'[j].kind = "signout" /\ \A i \in Jobs \ {j} : job'[i] = job[i]
    BY <1>0, <1>1, Updated DEF TakeCredentials, EndServerSession, Jobtype, Job, Is
  <2>2. /\ UNCHANGED <<session, armed, usable, handoff>> /\ held'[t] \in {held[t], None}
        /\ job[j].pc # "read" \/ held'[t] = None
    BY <1>0, <1>1 DEF TakeCredentials, EndServerSession, At, tabs, server, TypeInv, TypeOK
  <2> QED BY <1>0, <2>1, <2>2, LeavingMoves
<1>2. CASE RemoveLocalData(j)
  <2> DEFINE Dead == [i \in Jobs |-> [job[i] EXCEPT !.usable = FALSE]]
  <2>1. /\ token' = None /\ job' = [Dead EXCEPT ![j] = Idle] /\ usable' = [u \in Tabs |-> u = t]
        /\ session' = [session EXCEPT ![t] = "signed-out"]
        /\ UNCHANGED <<server, held, armed, syncing>> /\ job[j].pc = "destroy"
    BY <1>0, <1>2 DEF RemoveLocalData, May, At
  <2>2. /\ ~armed[t] /\ session[t] = "signed-in" /\ handoff = None
        /\ \A i \in Jobs : /\ ~Is(i, "signin") /\ (Is(i, "refresh") => ~job[i].live)
                           /\ Is(i, "signout") => i = j
    BY <1>0, Exclusive
  <2>3. held[t] = None
    BY <1>0, <2>1 DEF Steady, CallSound
  <2>4. \A i \in Jobs : /\ Dead[i].kind = job[i].kind /\ Dead[i].live = job[i].live
                        /\ Dead[i].usable = FALSE
    BY <1>0, Updated DEF Job
  <2>5. job'[j] = Idle /\ \A i \in Jobs \ {j} : job'[i] = Dead[i]
    BY <2>1
  <2> HIDE DEF Dead
  <2>6. job'[j].kind = "none"
    BY <2>5 DEF Idle, New
  <2>7. InTurn(t)'
    BY <2>1, <2>2, <2>4, <2>5, <2>6 DEF Steady, InTurn, Is
  <2>8. session'[t] = "signed-out" /\ usable'[t]
    BY <1>0, <2>1 DEF TypeInv, TypeOK
  <2>9. SessionSound(t)'
    BY <2>1, <2>2, <2>3, <2>8 DEF SessionSound, server
  <2>10. \A i \in Jobs : CallSound(i, t)'
    BY <2>2, <2>4, <2>5, <2>6 DEF CallSound, Is
  <2> QED BY <2>7, <2>9, <2>10 DEF Steady
<1> QED BY <1>1, <1>2 DEF SignOutStep

\* A profile is fetched and cached, which no call that claims the token notices.
LEMMA ProfileSteady ==
  ASSUME IInv, NEW t, Tabs = {t}, Steady(t), NEW j \in Jobs, ProfileStep(j)
  PROVE  Steady(t)'
<1>0. job[j].kind \in {"follow", "reread"} /\ UNCHANGED <<server, token, tabs>> /\ TypeInv
  BY DEF ProfileStep, FollowProfile, ProfileArrives, CacheGet, CachePut, At, store, IInv
<1>1. PICK J \in {job, TouchProfile(job)} :
         \E r : job' = [J EXCEPT ![j] = r] /\ r.kind \in {"none", "follow", "reread"}
  <2>1. Idle.kind = "none"
    BY DEF Idle, New
  <2>3. CASE FollowProfile(j)
    <3> DEFINE r == [job[j] EXCEPT !.pc = "fetch", !.who = held[job[j].tab]]
    <3>1. job' = [job EXCEPT ![j] = Idle] \/ job' = [job EXCEPT ![j] = r]
      BY <1>0, <2>3, Updated DEF FollowProfile, Jobtype
    <3>2. r.kind = job[j].kind
      BY <1>0, Updated DEF Job
    <3> HIDE DEF r
    <3> QED BY <1>0, <2>1, <3>1, <3>2
  <2>4. CASE ProfileArrives(j)
    <3> DEFINE r == [job[j] EXCEPT !.pc = "cacheGet"]
    <3>1. job' = [job EXCEPT ![j] = Idle] \/ job' = [job EXCEPT ![j] = r]
      BY <1>0, <2>4, Updated DEF ProfileArrives, Jobtype
    <3>2. r.kind = job[j].kind
      BY <1>0, Updated DEF Job
    <3> HIDE DEF r
    <3> QED BY <1>0, <2>1, <3>1, <3>2
  <2>5. CASE CacheGet(j)
    <3> DEFINE r == [job[j] EXCEPT !.pc = "cachePut",
                                   !.prev = IF profile = None THEN "missing" ELSE "current"]
    <3>1. job' = [job EXCEPT ![j] = Idle] \/ job' = [job EXCEPT ![j] = r]
      BY <1>0, <2>5, Updated DEF CacheGet, Jobtype
    <3>2. r.kind = job[j].kind
      BY <1>0, Updated DEF Job
    <3> HIDE DEF r
    <3> QED BY <1>0, <2>1, <3>1, <3>2
  <2>6. CASE CachePut(j)
    BY <2>1, <2>6 DEF CachePut
  <2> QED BY <2>3, <2>4, <2>5, <2>6 DEF ProfileStep
<1>2. job'[j].kind \in {"none", "follow", "reread"} /\ \A i \in Jobs \ {j} : job'[i] = J[i]
  BY <1>0, <1>1, Updated, Touched DEF Jobtype
<1>3. \A i \in Jobs : Stays(i)
  BY <1>0, <1>2, ProfileTouched DEF Stays, Unmoved, Claims
<1> QED BY <1>0, <1>3, SteadyFrame DEF tabs, server

\* A tab comes back from a sign-in elsewhere with nothing under way and no token stored.
LEMMA RedirectSteady ==
  ASSUME IInv, Faults = {}, NEW t, Tabs = {t}, Steady(t), NEW a \in Accounts, RedirectSignIn(t, a)
  PROVE  Steady(t)'
<1>0. session[t] = "signed-out" /\ Quiet(t) /\ TypeInv
  BY DEF RedirectSignIn, SignInOffered, May, Steady, SessionSound, IInv
<1>1. Nobody(t)
  BY <1>0, OfTheTab, NoneIsNoValue DEF Quiet, Busy, Nobody, Is
<1>2. token = None
  BY <1>0, <1>1 DEF Steady, SessionSound
<1>3. session'[t] = "unknown" /\ held'[t] = None /\ usable'[t] /\ token' = token
  BY <1>0 DEF RedirectSignIn, Load, TypeInv, TypeOK, store
<1>4. \A i \in Jobs : job'[i].kind = "none"
  BY OfTheTab DEF RedirectSignIn, Load, Idle, New
<1>5. InTurn(t)' /\ \A i \in Jobs : CallSound(i, t)'
  BY <1>4 DEF InTurn, CallSound, Is
<1>6. SessionSound(t)'
  BY <1>2, <1>3 DEF SessionSound, AtRest
<1> QED BY <1>5, <1>6 DEF Steady

\* A sign-in is started where it is offered: by then nothing of an earlier session is left.
LEMMA SignInSteady ==
  ASSUME IInv, Faults = {}, NEW t, Tabs = {t}, Steady(t), NEW a \in Accounts, StartSignIn(t, a)
  PROVE  Steady(t)'
<1>0. /\ session[t] = "signed-out" /\ Quiet(t) /\ TypeInv /\ usable[t]
      /\ UNCHANGED <<server, store, tabs>>
  BY DEF StartSignIn, SignInOffered, May, Steady, SessionSound, IInv
<1>1. Nobody(t) /\ \A i \in Jobs : ~Is(i, "refresh") /\ ~Is(i, "signin")
  BY <1>0, OfTheTab, NoneIsNoValue DEF Quiet, Busy, Nobody, Is
<1>2. \A i \in Jobs : job[i].kind \notin Claims
  BY <1>0, <1>1, Exclusive DEF Is, Claims
<1>3. token = None /\ held[t] = None /\ handoff = None /\ ~armed[t]
  BY <1>0, <1>1 DEF Steady, SessionSound, Quiet
<1> DEFINE r == New("signin", t, "asked", usable[t], a)
<1>4. PICK j \in Jobs : job' = [job EXCEPT ![j] = r]
  BY DEF StartSignIn
<1>5. r.kind = "signin" /\ r.live /\ r.usable /\ r.pc = "asked"
  BY <1>0 DEF New
<1> HIDE DEF r
<1>6. job'[j] = r /\ \A i \in Jobs \ {j} : job'[i] = job[i]
  BY <1>0, <1>4, Updated
<1>7. SignsIn(j)'
  BY <1>5, <1>6 DEF SignsIn, Writes, Writing
<1>8. CallSound(j, t)'
  BY <1>0, <1>3, <1>5, <1>6, <1>7 DEF CallSound, Is, store, tabs
<1>9. SessionSound(t)'
  BY <1>0, <1>3 DEF Steady, SessionSound, store, server, tabs
<1> QED BY <1>2, <1>5, <1>6, <1>8, <1>9, AloneMoves

\* The timer fires: the refresh it starts is the only call that claims the token.
LEMMA RefreshSteady ==
  ASSUME IInv, NEW t, Tabs = {t}, Steady(t), RunRefresh(t)
  PROVE  Steady(t)'
<1>0. armed[t] /\ TypeInv /\ \A i \in Jobs : job[i].kind \notin Claims
  BY Exclusive DEF RunRefresh, IInv
<1>1. /\ usable[t] /\ AtRest /\ session[t] \in {"unknown", "signed-in"}
      /\ session[t] = "signed-in" => token # None
      /\ session[t] = "unknown" => held[t] = None
      /\ handoff # None => session[t] = "unknown" /\ token = None
  BY <1>0 DEF Steady, SessionSound
<1> DEFINE r == New("refresh", t, "read", usable[t], None)
<1>2. PICK j \in Jobs : job' = [job EXCEPT ![j] = r]
  BY DEF RunRefresh
<1>3. r.kind = "refresh" /\ r.live /\ r.usable /\ r.pc = "read"
  BY <1>1 DEF New
<1> HIDE DEF r
<1>4. job'[j] = r /\ \A i \in Jobs \ {j} : job'[i] = job[i]
  BY <1>0, <1>2, Updated
<1>5. ~armed'[t] /\ UNCHANGED <<server, store, session, held, syncing, usable>>
  BY <1>0 DEF RunRefresh, TypeInv, TypeOK
<1>6. Renews(j)'
  BY <1>1, <1>3, <1>4, <1>5 DEF Renews, Writes, Writing, AtRest, store, server
<1>7. CallSound(j, t)'
  BY <1>1, <1>3, <1>4, <1>5, <1>6 DEF CallSound, Is, store, server
<1>8. SessionSound(t)'
  BY <1>1, <1>5 DEF SessionSound, store, server
<1> QED BY <1>0, <1>3, <1>4, <1>5, <1>7, <1>8, AloneMoves

\* A sign-out stops the refresh under way, and is then the only one that counts.
LEMMA StartSignOutSteady ==
  ASSUME IInv, NEW t, Tabs = {t}, Steady(t), StartSignOut(t)
  PROVE  Steady(t)'
<1> DEFINE S == StopRefresher(job, t)
           J == EndReplication(S, t)
           r == New("signout", t, "read", usable[t], None)
<1>0. /\ session[t] = "signed-in" /\ TypeInv /\ UNCHANGED <<server, store, session, held, usable>>
      /\ \A i \in Jobs : ~IsOut(i, t)
  BY DEF StartSignOut, Steady, SessionSound, IInv, Busy, IsOut
<1>1. PICK j \in Jobs : job[j] = Idle /\ job' = [J EXCEPT ![j] = r]
  BY DEF StartSignOut
<1>2. \A i \in Jobs : /\ J[i].kind = job[i].kind
                      /\ J[i].kind = "refresh" => ~J[i].live
  <2> TAKE i \in Jobs
  <2>1. job[i] \in Job /\ (Is(i, "refresh") => job[i].tab = t)
    BY <1>0, Updated, OfTheTab DEF Is
  <2>2. S[i] = IF job[i].kind = "refresh" /\ job[i].tab = t
               THEN [job[i] EXCEPT !.live = FALSE] ELSE job[i]
    BY DEF StopRefresher
  <2>3. S[i] \in Job /\ S[i].kind = job[i].kind /\ (S[i].kind = "refresh" => ~S[i].live)
    BY <2>1, <2>2 DEF Job, Is
  <2>4. J[i] = IF S[i].kind = "reread" /\ S[i].tab = t
               THEN [S[i] EXCEPT !.live = FALSE] ELSE S[i]
    <3> HIDE DEF S
    <3> QED BY DEF EndReplication
  <2> HIDE DEF S, J
  <2> QED BY <2>3, <2>4 DEF Job
<1>3. J \in Jobtype
  BY <1>0, Updated, JobsTyped
<1>4. r.kind = "signout" /\ r.pc = "read"
  BY DEF New
<1> HIDE DEF S, J, r
<1>5. job'[j] = r /\ \A i \in Jobs \ {j} : job'[i] = J[i]
  BY <1>1, <1>3 DEF Jobtype
<1>6. \A i \in Jobs : /\ job[i].kind # "signin" /\ job[i].kind # "signout"
  BY <1>0, OfTheTab, Exclusive DEF Is
<1>7. ~armed'[t]
  BY <1>0 DEF StartSignOut, TypeInv, TypeOK
<1>8. InTurn(t)'
  <2>1. \A i \in Jobs : Is(i, "refresh")' => Is(i, "refresh")
    BY <1>2, <1>4, <1>5 DEF Is
  <2>2. Is(j, "signout")'
    BY <1>4, <1>5 DEF Is
  <2>3. \A i \in Jobs : ~Is(i, "signin")'
    BY <1>2, <1>4, <1>5, <1>6 DEF Is
  <2> QED BY <1>7, <2>1, <2>2, <2>3 DEF Steady, InTurn
<1>9. SessionSound(t)'
  BY <1>0, <1>7 DEF Steady, SessionSound, server, store
<1>10. \A i \in Jobs : CallSound(i, t)'
  BY <1>2, <1>4, <1>5, <1>6 DEF CallSound, Is
<1> QED BY <1>8, <1>9, <1>10 DEF Steady

\* Whatever the tab does.
LEMMA TabSteady ==
  ASSUME IInv, Faults = {}, NEW t, Tabs = {t}, Steady(t), TabStep(t)
  PROVE  Steady(t)'
<1>0. TypeInv
  BY DEF IInv
<1>1. CASE StartReread(t)
  <2> DEFINE r == New("reread", t, "fetch", usable[t], held[t])
  <2>1. PICK j \in Jobs : job[j] = Idle /\ job' = [job EXCEPT ![j] = r]
    BY <1>1 DEF StartReread
  <2>2. r.kind = "reread" /\ job[j].kind = "none"
    BY <2>1 DEF New, Idle
  <2> HIDE DEF r
  <2>3. job'[j] = r /\ \A i \in Jobs \ {j} : job'[i] = job[i]
    BY <1>0, <2>1, Updated
  <2>4. \A i \in Jobs : Stays(i)
    BY <2>2, <2>3 DEF Stays, Unmoved, Claims
  <2> QED BY <1>0, <1>1, <2>4, SteadyFrame DEF StartReread, tabs, server, store
<1>2. CASE AccessTokenExpires(t)
  <2>1. held'[t] = None
    BY <1>0, <1>2 DEF AccessTokenExpires, TypeInv, TypeOK
  <2>2. \A i \in Jobs : Stays(i)
    BY <1>2 DEF AccessTokenExpires, Stays, Unmoved
  <2> QED BY <1>0, <1>2, <2>1, <2>2, SteadyFrame DEF AccessTokenExpires, server, store
<1>3. ~Reload(t)
  BY DEF Reload, May
<1> QED BY <1>1, <1>2, <1>3, RefreshSteady, StartSignOutSteady, SignInSteady, RedirectSteady
        DEF TabStep

\* Whatever is done.
LEMMA SteadyStep ==
  ASSUME IInv, Faults = {}, NEW t, Tabs = {t}, Steady(t), [Next]_vars
  PROVE  Steady(t)'
<1>1. CASE ServerStep
  <2>1. \A a \in Accounts : ~Revoke(a)
    BY DEF Revoke, May
  <2> QED BY <1>1, <2>1, ExchangeSteady, VerifySteady, GraceSteady DEF ServerStep
<1>2. ASSUME NEW j \in Jobs, JobStep(j)
      PROVE  Steady(t)'
  <2>1. ~NoAnswer(j)
    BY DEF NoAnswer, May
  <2> QED BY <1>2, <2>1, ReadSteady, ReceiveSteady, WriteGetSteady, ForgetSteady, WritePutSteady,
             ClearSteady, ProfileSteady, SignOutSteady DEF JobStep, StoreStep
<1>3. CASE \E u \in Tabs : TabStep(u)
  BY <1>3, TabSteady
<1>4. CASE UNCHANGED vars
  <2>1. \A i \in Jobs : Stays(i)
    BY <1>4 DEF vars, Stays, Unmoved
  <2> QED BY <1>4, <2>1, SteadyFrame DEF vars, server, store, tabs, IInv
<1> QED BY <1>1, <1>2, <1>3, <1>4 DEF Next

\* A tab that has just been opened.
LEMMA SteadyInit ==
  ASSUME NEW t, Tabs = {t}, Init
  PROVE  Steady(t)
<1>1. \A j \in Jobs : job[j].kind = "none"
  BY DEF Init, Idle, New
<1>2. InTurn(t) /\ \A j \in Jobs : CallSound(j, t)
  BY <1>1 DEF InTurn, CallSound, Is
<1>3. SessionSound(t)
  BY DEF Init, SessionSound, AtRest
<1> QED BY <1>2, <1>3 DEF Steady

\* What is asked of a tab follows.
LEMMA SteadyMeans ==
  ASSUME IInv, NEW t, Tabs = {t}, Steady(t)
  PROVE  StoredTokenAccepted /\ RenewableWhileSignedIn /\ NeverExpires /\ QuietTabHoldsNothing
<1>1. RenewableWhileSignedIn
  BY DEF Steady, SessionSound, AtRest, RenewableWhileSignedIn
<1>2. NeverExpires
  BY DEF Steady, SessionSound, NeverExpires
<1>3. QuietTabHoldsNothing
  <2>1. Quiet(t) => Nobody(t)
    BY OfTheTab, NoneIsNoValue DEF Quiet, Busy, Nobody, Is
  <2> QED BY <2>1 DEF Steady, SessionSound, QuietTabHoldsNothing
<1>4. StoredTokenAccepted
  <2> SUFFICES ASSUME token # None, TokenSettled
               PROVE  status[token] = "live"
    BY DEF StoredTokenAccepted
  <2>1. \A j \in Jobs : job[j].kind \notin Claims
    BY DEF TokenSettled, Claims
  <2>2. Nobody(t)
    BY <2>1 DEF Nobody, Is, Claims
  <2>3. \A j \in Jobs : ~Live(j, t) /\ ~IsOut(j, t)
    BY <2>1 DEF Live, IsOut, Claims
  <2>4. armed[t]
    BY <2>2, <2>3 DEF Steady, SessionSound, IInv, TabInv
  <2> QED BY <2>4 DEF Steady, SessionSound, AtRest
<1> QED BY <1>1, <1>2, <1>3, <1>4

\* One tab, and nothing fails: its session can always be renewed, never ends by itself, and
\* leaves nothing behind (ui/composition.ts, requestTokens).
THEOREM SteadySession ==
  ASSUME Faults = {}, NEW CONSTANT t, Tabs = {t}
  PROVE  Spec => [](StoredTokenAccepted /\ RenewableWhileSignedIn /\ NeverExpires
                    /\ QuietTabHoldsNothing)
<1>1. Init => IInv /\ Steady(t)
  BY Initially, SteadyInit
<1>2. IInv /\ Steady(t) /\ [Next]_vars => IInv' /\ Steady(t)'
  BY Inductive, SteadyStep
<1>3. IInv /\ Steady(t) => StoredTokenAccepted /\ RenewableWhileSignedIn /\ NeverExpires
                           /\ QuietTabHoldsNothing
  BY SteadyMeans
<1> QED BY <1>1, <1>2, <1>3, PTL DEF Spec

=============================================================================
