----------------------- MODULE IdentityManagerProofs -----------------------
(***************************************************************************)
(* Proofs for IdentityManager, for any number of sessions, any lives of    *)
(* sessions and tokens and any bound on the clock: the type invariant,     *)
(* that refreshes are spaced by the cool-off, that a session which is held *)
(* stays scheduled while no call fails, and that tokens stay fresh in a    *)
(* world where nothing fails or takes long.                                *)
(***************************************************************************)
EXTENDS IdentityManager, TLAPS

---------------------------------------------------------------------------
(* The invariants *)

\* a session of the program: it expires within its life
Held == [expires : 0..(MaxTime + SessionLife), token : Nat]

\* a record as the broker sends it: unless it is deleted, it carries a session
Sent == {c \in [id : Ids, data : Held \union {Gone}, deleted : BOOLEAN] : c.deleted \/ c.data \in Held}

Busy == {"refresh", "info", "put", "delete"}

FeedTypes ==
  /\ store \in [Ids -> Held \union {Gone}]
  /\ feed \in Seq(Sent)
  /\ syncer \in {"init", "clear", "load", "stream"}
  /\ snapshot \subseteq Sent
  /\ clearCh \in BOOLEAN
  /\ updateCh \in Seq(SUBSET Sent) /\ Len(updateCh) <= 1

ManagerTypes ==
  /\ clock \in 0..MaxTime /\ now \in 0..clock /\ timer \in 0..Never
  /\ sessions \in [Ids -> Held \union {Gone}]
  /\ due \in [Ids -> 0..Never]
  /\ pc \in {"clear", "update", "select", "sessions"} \union Busy
  /\ IF pc \in Busy THEN job \in [id : Ids, data : Held] ELSE job = NoJob

\* every session that is met anywhere was signed in
Known ==
  /\ created \subseteq Ids /\ deleted \subseteq created
  /\ \A k \in Ids : store[k] # Gone \/ sessions[k] # Gone => k \in created
  /\ \A i \in DOMAIN feed : feed[i].id \in created
  /\ \A c \in snapshot : c.id \in created
  /\ \A i \in DOMAIN updateCh : \A c \in updateCh[i] : c.id \in created
  /\ pc \in Busy => job.id \in created

TypeInv == world \in World /\ FeedTypes /\ ManagerTypes /\ Known

\* a session is due only when the cool-off has passed since the last attempt
SpacedInv ==
  /\ attempt \in [Ids -> Int]
  /\ \A k \in Ids : attempt[k] <= clock /\ attempt[k] + CoolOff <= due[k]

\* the session being refreshed is the one held, and is not scheduled meanwhile;
\* any other that is held and lives is scheduled, while no call fails
ScheduleInv ==
  /\ pc \in Busy => sessions[job.id] = job.data /\ due[job.id] = Never
  /\ world.failures = {} =>
       /\ pc = "delete" => job.data.expires <= clock
       /\ \A k \in Ids :
            sessions[k] # Gone /\ sessions[k].expires > clock /\ due[k] = Never
              => pc \in Busy /\ job.id = k

\* how far the first synchronisation is, when the syncer never starts over
Progress ==
  \/ pc = "clear" /\ syncer \in {"init", "clear"} /\ ~ clearCh /\ updateCh = <<>>
  \/ pc = "clear" /\ syncer = "load" /\ clearCh /\ updateCh = <<>>
  \/ pc = "clear" /\ syncer = "stream" /\ clearCh /\ updateCh # <<>>
  \/ pc = "update" /\ syncer = "load" /\ ~ clearCh /\ updateCh = <<>>
  \/ pc = "update" /\ syncer = "stream" /\ ~ clearCh /\ updateCh # <<>>
  \/ pc \notin {"clear", "update"} /\ syncer = "stream" /\ ~ clearCh
Stage == Progress /\ (syncer \in {"init", "stream"} => snapshot = {})

\* what has not reached the manager yet has a token obtained at this time
New(d) == d.token = clock + TokenLife
AllNew ==
  /\ syncer = "init" => \A k \in Ids : store[k] # Gone => New(store[k])
  /\ \A i \in DOMAIN feed : ~ feed[i].deleted => New(feed[i].data)
  /\ \A c \in snapshot : ~ c.deleted => New(c.data)
  /\ \A i \in DOMAIN updateCh : \A c \in updateCh[i] : ~ c.deleted => New(c.data)
  /\ pc \in {"info", "put"} => New(job.data)

\* message m holds record k as the broker does
Carries(m, k) ==
  /\ Change(k, store[k], FALSE) \in m
  /\ \A c \in m : c.id = k => c = Change(k, store[k], FALSE)

\* the manager holds record k as the broker does, or is about to put it
Arrived(k) ==
  /\ pc \notin {"clear", "update"}
  /\ sessions[k] = store[k] \/ (pc \in {"info", "put"} /\ job.id = k)

\* where the last change of record k is, when it has left the feed
Passed(k) ==
  \/ syncer = "init"
  \/ syncer \in {"clear", "load"} /\ Carries(snapshot, k)
  \/ syncer = "stream" /\ \E i \in DOMAIN updateCh : Carries(updateCh[i], k)
  \/ /\ syncer = "stream" /\ Arrived(k)
     /\ \A i \in DOMAIN updateCh : \A c \in updateCh[i] : c.id # k

Absent(k) == \A i \in DOMAIN feed : feed[i].id # k

Follows(k) ==
  \/ \E i \in DOMAIN feed :
       /\ feed[i] = Change(k, store[k], FALSE)
       /\ \A j \in DOMAIN feed : j > i => feed[j].id # k
  \/ Absent(k) /\ Passed(k)

\* a session that is scheduled was so when its token was obtained
Planned ==
  \A k \in Ids : sessions[k] # Gone /\ due[k] # Never =>
    due[k] = NextRefresh(sessions[k], sessions[k].token - TokenLife)

TimerInv == pc = "select" /\ timer > clock => \A k \in Ids : timer <= due[k]

AllFollow == \A k \in Ids : store[k] # Gone => Follows(k)

FreshInv == Smooth => Stage /\ AllNew /\ Planned /\ TimerInv /\ AllFollow

---------------------------------------------------------------------------
(* Lemmas about the operators *)

\* Session.NextRefresh is a time the scheduler can hold, not before the cool-off
LEMMA RefreshRange ==
  ASSUME NEW d \in Held, NEW c \in 0..MaxTime
  PROVE  /\ NextRefresh(d, c) \in 0..Never /\ NextRefresh(d, c) # Never
         /\ c + CoolOff <= NextRefresh(d, c)
<1>1. PICK e \in Nat : e = d.expires /\ e <= MaxTime + SessionLife
  BY LivesAssumption DEF Held
<1>2. PICK g \in Int : g = d.token - Grace
  BY LivesAssumption DEF Held
<1> QED
  BY <1>1, <1>2, LivesAssumption DEF NextRefresh, Larger, Smaller, Never

LEMMA GoneIsNot == Gone \notin Held /\ Gone \notin Session
<1>1. DOMAIN Gone = {"gone"}
  BY Zenon DEF Gone
<1>2. \A d \in Held \union Session : DOMAIN d = {"expires", "token"}
  BY Zenon DEF Held, Session
<1>3. {"gone"} # {"expires", "token"}
  BY Zenon
<1> QED
  BY <1>1, <1>2, <1>3, Zenon

LEMMA PutSent ==
  ASSUME NEW k \in Ids, NEW d \in Held
  PROVE  \E c \in Sent : c = Change(k, d, FALSE) /\ c.id = k /\ c.data = d /\ ~ c.deleted
<1> DEFINE r == Change(k, d, FALSE)
<1>1. r \in Sent /\ r.id = k /\ r.data = d /\ ~ r.deleted
  BY Zenon DEF Change, Sent
<1> QED
  BY <1>1, Zenon

LEMMA DeleteSent ==
  ASSUME NEW k \in Ids
  PROVE  \E c \in Sent : c = Change(k, Gone, TRUE) /\ c.id = k /\ c.deleted
<1> DEFINE r == Change(k, Gone, TRUE)
<1>1. r \in Sent /\ r.id = k /\ r.deleted
  BY Zenon DEF Change, Sent
<1> QED
  BY <1>1, Zenon

\* onUpdateSession: a session is stored and scheduled from a record of the
\* message, or is as it was
Updated(msg) ==
  \A k \in Ids :
    \/ \E c \in msg : /\ c.id = k /\ ~ c.deleted /\ c.data \in Held
                      /\ sessions'[k] = c.data /\ due'[k] = NextRefresh(c.data, clock)
    \/ /\ \A c \in msg : c.id = k => c.deleted
       /\ sessions'[k] = sessions[k] /\ due'[k] = due[k]

LEMMA UpdateFacts ==
  ASSUME NEW msg \in SUBSET Sent, OnUpdateRecords(msg), clock \in 0..MaxTime,
         sessions \in [Ids -> Held \union {Gone}], due \in [Ids -> 0..Never]
  PROVE  /\ sessions' \in [Ids -> Held \union {Gone}] /\ due' \in [Ids -> 0..Never]
         /\ Updated(msg)
<1> DEFINE put(k) == {c \in msg : c.id = k /\ ~ c.deleted}
           data(k) == (CHOOSE c \in put(k) : TRUE).data
<1>1. /\ sessions' = [k \in Ids |-> IF put(k) # {} THEN data(k) ELSE sessions[k]]
      /\ due' = [k \in Ids |-> IF put(k) # {} THEN NextRefresh(data(k), clock) ELSE due[k]]
  BY Zenon DEF OnUpdateRecords
<1>2. ASSUME NEW k \in Ids, put(k) # {}
      PROVE  \E c \in msg : c.id = k /\ ~ c.deleted /\ c.data \in Held /\ data(k) = c.data
  <2>1. (CHOOSE c \in put(k) : TRUE) \in put(k)
    BY <1>2, Zenon
  <2>2. \A c \in put(k) : c \in msg /\ c.id = k /\ ~ c.deleted /\ c.data \in Held
    BY Zenon DEF Sent
  <2> QED
    BY <2>1, <2>2, Zenon
<1>3. ASSUME NEW k \in Ids, put(k) = {} PROVE \A c \in msg : c.id = k => c.deleted
  BY <1>3, Zenon
<1> HIDE DEF put, data
<1>4. \A k \in Ids : sessions'[k] = (IF put(k) # {} THEN data(k) ELSE sessions[k])
                     /\ due'[k] = (IF put(k) # {} THEN NextRefresh(data(k), clock) ELSE due[k])
  BY <1>1, Zenon
<1>5. \A k \in Ids :
        \/ \E c \in msg : /\ c.id = k /\ ~ c.deleted /\ c.data \in Held
                          /\ sessions'[k] = c.data /\ due'[k] = NextRefresh(c.data, clock)
        \/ /\ \A c \in msg : c.id = k => c.deleted
           /\ sessions'[k] = sessions[k] /\ due'[k] = due[k]
  <2> TAKE k \in Ids
  <2>1. CASE put(k) # {}
    <3>1. sessions'[k] = data(k) /\ due'[k] = NextRefresh(data(k), clock)
      BY <1>4, <2>1, Zenon
    <3>2. PICK c \in msg : c.id = k /\ ~ c.deleted /\ c.data \in Held /\ data(k) = c.data
      BY <1>2, <2>1, Zenon
    <3> QED
      BY <3>1, <3>2, Zenon
  <2>2. CASE put(k) = {}
    BY <1>3, <1>4, <2>2, Zenon
  <2> QED
    BY <2>1, <2>2, Zenon
<1>6. \A k \in Ids : sessions'[k] \in Held \union {Gone} /\ due'[k] \in 0..Never
  <2> TAKE k \in Ids
  <2>1. \A d \in Held : NextRefresh(d, clock) \in 0..Never
    BY RefreshRange, Zenon
  <2>2. sessions[k] \in Held \union {Gone} /\ due[k] \in 0..Never
    BY Zenon
  <2>3. CASE \E c \in msg : /\ c.id = k /\ ~ c.deleted /\ c.data \in Held
                            /\ sessions'[k] = c.data /\ due'[k] = NextRefresh(c.data, clock)
    BY <2>1, <2>3, Zenon
  <2>4. CASE sessions'[k] = sessions[k] /\ due'[k] = due[k]
    BY <2>2, <2>4, Zenon
  <2> QED
    BY <1>5, <2>3, <2>4, Zenon
<1>7. sessions' = [k \in Ids |-> sessions'[k]] /\ due' = [k \in Ids |-> due'[k]]
  BY <1>1, <1>4, Zenon
<1> QED
  BY <1>5, <1>6, <1>7, Zenon DEF Updated

LEMMA AppendFacts ==
  ASSUME NEW S, NEW s \in Seq(S), NEW x \in S
  PROVE  /\ Append(s, x) \in Seq(S)
         /\ DOMAIN Append(s, x) = 1..(Len(s) + 1) /\ DOMAIN s = 1..Len(s) /\ Len(s) \in Nat
         /\ \A i \in DOMAIN s : Append(s, x)[i] = s[i]
         /\ Append(s, x)[Len(s) + 1] = x
  OBVIOUS

LEMMA TailFacts ==
  ASSUME NEW S, NEW s \in Seq(S), s # <<>>
  PROVE  /\ Tail(s) \in Seq(S) /\ Head(s) \in S /\ Head(s) = s[1] /\ 1 \in DOMAIN s
         /\ Len(s) \in Nat \ {0} /\ DOMAIN s = 1..Len(s) /\ DOMAIN Tail(s) = 1..(Len(s) - 1)
         /\ \A i \in DOMAIN Tail(s) : Tail(s)[i] = s[i + 1] /\ i + 1 \in DOMAIN s
  OBVIOUS

LEMMA OneFacts ==
  ASSUME NEW S, NEW x \in S
  PROVE  <<x>> \in Seq(S) /\ Len(<<x>>) <= 1 /\ DOMAIN <<x>> = {1} /\ <<x>>[1] = x /\ Head(<<x>>) = x /\ <<x>> # <<>>
  OBVIOUS

LEMMA EmptyFacts ==
  ASSUME NEW S PROVE <<>> \in Seq(S) /\ Len(<<>>) <= 1 /\ DOMAIN <<>> = {}
  OBVIOUS

\* the effects of a Put on the records and on the feed
LEMMA PutFacts ==
  ASSUME FeedTypes, NEW k \in Ids, NEW d \in Held \union {Gone}, NEW c \in Sent,
         store' = [store EXCEPT ![k] = d], feed' = Append(feed, c)
  PROVE  /\ store' \in [Ids -> Held \union {Gone}] /\ feed' \in Seq(Sent)
         /\ store'[k] = d /\ \A i \in Ids \ {k} : store'[i] = store[i]
         /\ \A i \in DOMAIN feed' : feed'[i] = c \/ (i \in DOMAIN feed /\ feed'[i] = feed[i])
<1>1. /\ store' \in [Ids -> Held \union {Gone}]
      /\ store'[k] = d /\ \A i \in Ids \ {k} : store'[i] = store[i]
  BY Zenon DEF FeedTypes
<1>2. feed \in Seq(Sent)
  BY Zenon DEF FeedTypes
<1>3. /\ feed' \in Seq(Sent)
      /\ DOMAIN feed' = 1..(Len(feed) + 1) /\ DOMAIN feed = 1..Len(feed) /\ Len(feed) \in Nat
      /\ \A i \in DOMAIN feed : feed'[i] = feed[i]
      /\ feed'[Len(feed) + 1] = c
  BY <1>2, AppendFacts
<1>4. \A i \in DOMAIN feed' : i \in DOMAIN feed \/ i = Len(feed) + 1
  BY <1>3
<1> QED
  BY <1>1, <1>3, <1>4, Zenon

\* what a Put of record k with data d leaves behind, when it sends change c
Stored(k, d, c) ==
  /\ store' \in [Ids -> Held \union {Gone}] /\ feed' \in Seq(Sent) /\ feed' = Append(feed, c)
  /\ store'[k] = d /\ \A i \in Ids \ {k} : store'[i] = store[i]
  /\ \A i \in DOMAIN feed' : feed'[i] = c \/ (i \in DOMAIN feed /\ feed'[i] = feed[i])

LEMMA PutEffect ==
  ASSUME FeedTypes, NEW k \in Ids, NEW d \in Held, PutRecord(k, d)
  PROVE  \E c \in Sent : c = Change(k, d, FALSE) /\ c.id = k /\ c.data = d /\ ~ c.deleted /\ Stored(k, d, c)
<1>1. PICK c \in Sent : c = Change(k, d, FALSE) /\ c.id = k /\ c.data = d /\ ~ c.deleted
  BY PutSent, ZenonT(60)
<1>2. store' = [store EXCEPT ![k] = d] /\ feed' = Append(feed, c) /\ d \in Held \union {Gone}
  BY <1>1, Zenon DEF PutRecord
<1>3. Stored(k, d, c)
  BY <1>2, PutFacts, ZenonT(60) DEF Stored
<1> QED
  BY <1>1, <1>3, Zenon

LEMMA DeleteEffect ==
  ASSUME FeedTypes, NEW k \in Ids, DeleteRecord(k, Gone)
  PROVE  \E c \in Sent : c = Change(k, Gone, TRUE) /\ c.id = k /\ c.deleted /\ Stored(k, Gone, c)
<1>1. PICK c \in Sent : c = Change(k, Gone, TRUE) /\ c.id = k /\ c.deleted
  BY DeleteSent, Zenon
<1>2. store' = [store EXCEPT ![k] = Gone] /\ feed' = Append(feed, c) /\ Gone \in Held \union {Gone}
  BY <1>1, Zenon DEF DeleteRecord
<1>3. Stored(k, Gone, c)
  BY <1>2, PutFacts, ZenonT(60) DEF Stored
<1> QED
  BY <1>1, <1>3, Zenon

---------------------------------------------------------------------------
(* Types *)

LEMMA InitTypes == Init => TypeInv
<1> SUFFICES ASSUME Init PROVE TypeInv
  BY Zenon
<1>1. world \in World
  BY WorldsAssumption, Zenon DEF Init
<1>2. FeedTypes
  BY GoneIsNot, EmptyFacts, Zenon DEF Init, FeedInit, FeedTypes
<1>3. ManagerTypes
  BY LivesAssumption DEF Init, ManagerTypes, Never, Busy
<1>4. Known
  BY DEF Init, FeedInit, Known, Busy
<1> QED
  BY <1>1, <1>2, <1>3, <1>4, Zenon DEF TypeInv

LEMMA SignInTypes == ASSUME TypeInv, NEW k \in Ids, SignIn(k), UNCHANGED world PROVE TypeInv'
<1>1. PICK d \in Held : d = Data(clock + SessionLife, clock + TokenLife)
  <2>1. Data(clock + SessionLife, clock + TokenLife) \in Held
    BY LivesAssumption DEF TypeInv, ManagerTypes, Data, Held
  <2> QED
    BY <2>1, Zenon
<1>2. /\ PutRecord(k, d)
      /\ created' = created \union {k} /\ FeedTypes /\ ManagerTypes /\ Known
      /\ UNCHANGED <<syncer, snapshot, clearCh, updateCh, clock, sessions, due, pc, now, timer, job, deleted>>
  BY <1>1, Zenon DEF SignIn, TypeInv, managerVars
<1>3. PICK c \in Sent : c.id = k /\ Stored(k, d, c)
  BY <1>2, PutEffect, Zenon
<1>4. /\ store' \in [Ids -> Held \union {Gone}] /\ feed' \in Seq(Sent)
      /\ \A i \in Ids \ {k} : store'[i] = store[i]
      /\ \A i \in DOMAIN feed' : feed'[i] = c \/ (i \in DOMAIN feed /\ feed'[i] = feed[i])
  BY <1>3, Zenon DEF Stored
<1>5. FeedTypes'
  BY <1>2, <1>4, Zenon DEF FeedTypes
<1>6. ManagerTypes'
  BY <1>2, Zenon DEF ManagerTypes
<1>7. Known'
  <2>1. created' \subseteq Ids /\ deleted' \subseteq created' /\ created \subseteq created' /\ k \in created'
    BY <1>2, Zenon DEF Known
  <2>2. \A i \in DOMAIN feed' : feed'[i].id \in created'
    BY <1>2, <1>3, <1>4, <2>1, Zenon DEF Known
  <2>3. \A i \in Ids : store'[i] # Gone \/ sessions'[i] # Gone => i \in created'
    BY <1>2, <1>4, <2>1, Zenon DEF Known
  <2> QED
    BY <1>2, <2>1, <2>2, <2>3, Zenon DEF Known
<1> QED
  BY <1>5, <1>6, <1>7, Zenon DEF TypeInv

LEMMA SignOutTypes == ASSUME TypeInv, NEW k \in Ids, SignOut(k), UNCHANGED world PROVE TypeInv'
<1>2. /\ DeleteRecord(k, Gone)
      /\ store[k] # Gone /\ deleted' = deleted \union {k} /\ FeedTypes /\ ManagerTypes /\ Known
      /\ UNCHANGED <<syncer, snapshot, clearCh, updateCh, clock, sessions, due, pc, now, timer, job, created>>
  BY Zenon DEF SignOut, TypeInv, managerVars
<1>3. PICK c \in Sent : c.id = k /\ Stored(k, Gone, c)
  BY <1>2, DeleteEffect, Zenon
<1>4. /\ store' \in [Ids -> Held \union {Gone}] /\ feed' \in Seq(Sent)
      /\ store'[k] = Gone /\ \A i \in Ids \ {k} : store'[i] = store[i]
      /\ \A i \in DOMAIN feed' : feed'[i] = c \/ (i \in DOMAIN feed /\ feed'[i] = feed[i])
  BY <1>3, Zenon DEF Stored
<1>5. FeedTypes'
  BY <1>2, <1>4, Zenon DEF FeedTypes
<1>6. ManagerTypes'
  BY <1>2, Zenon DEF ManagerTypes
<1>7. Known'
  <2>1. deleted' \subseteq created' /\ k \in created'
    BY <1>2, Zenon DEF Known
  <2>2. \A i \in DOMAIN feed' : feed'[i].id \in created'
    BY <1>2, <1>3, <1>4, <2>1, Zenon DEF Known
  <2>3. \A i \in Ids : store'[i] # Gone \/ sessions'[i] # Gone => i \in created'
    BY <1>2, <1>4, <2>1, Zenon DEF Known
  <2> QED
    BY <1>2, <2>1, <2>2, <2>3, Zenon DEF Known
<1> QED
  BY <1>5, <1>6, <1>7, Zenon DEF TypeInv

LEMMA FeedTypesStep == ASSUME TypeInv, FeedStep \/ FeedRestart, UNCHANGED world PROVE TypeInv'
<1>1. /\ UNCHANGED <<store, clock, sessions, due, pc, now, timer, job, created, deleted>>
      /\ FeedTypes /\ ManagerTypes /\ Known
  BY Zenon DEF FeedStep, FeedRestart, StartOver, SyncerStep, SyncLatest, SendClear, SendSnapshot, SendChange,
               managerVars, TypeInv
<1>2. ManagerTypes'
  BY <1>1, Zenon DEF ManagerTypes
<1>3. CASE SyncLatest
  <2>1. /\ snapshot' = {Change(i, store[i], FALSE) : i \in {j \in Ids : store[j] # Gone}}
        /\ feed' = <<>> /\ syncer' = "clear" /\ UNCHANGED <<clearCh, updateCh>>
    BY <1>3, Zenon DEF SyncLatest
  <2>2. \A i \in Ids : store[i] # Gone => store[i] \in Held /\ i \in created
    BY <1>1, Zenon DEF FeedTypes, Known
  <2>3. \A c \in snapshot' : c \in Sent /\ c.id \in created
    <3>1. SUFFICES ASSUME NEW i \in Ids, store[i] # Gone
                   PROVE  Change(i, store[i], FALSE) \in Sent /\ Change(i, store[i], FALSE).id \in created
      BY <2>1, Zenon
    <3> QED
      BY <2>2, <3>1, Zenon DEF Change, Sent
  <2>4. FeedTypes'
    BY <1>1, <2>1, <2>3, EmptyFacts, Zenon DEF FeedTypes
  <2>5. Known'
    <3>1. \A c \in snapshot' : c.id \in created'
      BY <1>1, <2>3, Zenon
    <3>2. \A i \in DOMAIN feed' : feed'[i].id \in created'
      BY <2>1, EmptyFacts, Zenon
    <3> QED
      BY <1>1, <2>1, <3>1, <3>2, Zenon DEF Known
  <2> QED
    BY <1>2, <2>4, <2>5, Zenon DEF TypeInv
<1>4. CASE SendClear \/ StartOver
  <2>1. UNCHANGED <<feed, snapshot, updateCh>> /\ syncer' \in {"load", "init"} /\ clearCh' \in BOOLEAN
    BY <1>1, <1>4, Zenon DEF SendClear, StartOver, FeedTypes
  <2>2. FeedTypes' /\ Known'
    BY <1>1, <2>1, Zenon DEF FeedTypes, Known
  <2> QED
    BY <1>2, <2>2, Zenon DEF TypeInv
<1>5. CASE SendSnapshot
  <2>1. /\ updateCh' = <<snapshot>> /\ snapshot' = {} /\ syncer' = "stream" /\ UNCHANGED <<feed, clearCh>>
        /\ snapshot \in SUBSET Sent
    BY <1>1, <1>5, Zenon DEF SendSnapshot, FeedTypes
  <2>2. updateCh' \in Seq(SUBSET Sent) /\ Len(updateCh') <= 1 /\ DOMAIN updateCh' = {1} /\ updateCh'[1] = snapshot
    BY <2>1, OneFacts, Zenon
  <2>3. FeedTypes' /\ Known'
    BY <1>1, <2>1, <2>2, Zenon DEF FeedTypes, Known
  <2> QED
    BY <1>2, <2>3, Zenon DEF TypeInv
<1>6. CASE SendChange
  <2>1. /\ updateCh' = <<{Head(feed)}>> /\ feed' = Tail(feed) /\ UNCHANGED <<syncer, clearCh, snapshot>>
        /\ feed \in Seq(Sent) /\ feed # <<>>
    BY <1>1, <1>6, Zenon DEF SendChange, FeedTypes
  <2>2. /\ feed' \in Seq(Sent) /\ Head(feed) \in Sent /\ Head(feed) = feed[1] /\ 1 \in DOMAIN feed
        /\ \A i \in DOMAIN feed' : feed'[i] = feed[i + 1] /\ i + 1 \in DOMAIN feed
    BY <2>1, TailFacts, Zenon
  <2>3. {Head(feed)} \in SUBSET Sent
    BY <2>2, Zenon
  <2>4. updateCh' \in Seq(SUBSET Sent) /\ Len(updateCh') <= 1 /\ DOMAIN updateCh' = {1} /\ updateCh'[1] = {Head(feed)}
    BY <2>1, <2>3, OneFacts, Zenon
  <2>5. FeedTypes' /\ Known'
    BY <1>1, <2>1, <2>2, <2>4, ZenonT(60) DEF FeedTypes, Known
  <2> QED
    BY <1>2, <2>5, Zenon DEF TypeInv
<1> QED
  BY <1>3, <1>4, <1>5, <1>6, Zenon DEF FeedStep, FeedRestart, SyncerStep

\* the loop takes a message of the update channel
LEMMA TakeFacts ==
  ASSUME FeedTypes, TakeUpdate
  PROVE  /\ Head(updateCh) \in SUBSET Sent /\ DOMAIN updateCh = {1} /\ updateCh[1] = Head(updateCh)
         /\ updateCh' = <<>> /\ DOMAIN updateCh' = {} /\ FeedTypes'
         /\ UNCHANGED <<store, feed, syncer, snapshot, clearCh>>
<1>1. updateCh \in Seq(SUBSET Sent) /\ Len(updateCh) <= 1 /\ updateCh # <<>>
  BY Zenon DEF FeedTypes, TakeUpdate
<1>2. /\ Head(updateCh) \in SUBSET Sent /\ Head(updateCh) = updateCh[1]
      /\ Len(updateCh) \in Nat \ {0} /\ DOMAIN updateCh = 1..Len(updateCh)
  BY <1>1, TailFacts, Zenon
<1>3. DOMAIN updateCh = {1}
  BY <1>1, <1>2
<1>4. updateCh' = <<>> /\ UNCHANGED <<store, feed, syncer, snapshot, clearCh>>
  BY Zenon DEF TakeUpdate
<1>5. FeedTypes'
  BY <1>4, EmptyFacts, Zenon DEF FeedTypes
<1> QED
  BY <1>2, <1>3, <1>4, <1>5, EmptyFacts, Zenon

LEMMA UpdateTypes == ASSUME TypeInv, InitialUpdate \/ SelectUpdate, UNCHANGED world PROVE TypeInv'
<1>1. /\ FeedTypes /\ ManagerTypes /\ Known /\ TakeUpdate /\ OnUpdateRecords(Head(updateCh))
      /\ pc' \in {"select", "sessions"} /\ pc \notin Busy
      /\ now' \in {now, clock} /\ timer' \in {timer, clock} /\ UNCHANGED <<clock, job, created, deleted>>
  BY Zenon DEF InitialUpdate, SelectUpdate, TypeInv, Busy
<1>2. /\ Head(updateCh) \in SUBSET Sent /\ DOMAIN updateCh = {1} /\ updateCh[1] = Head(updateCh)
      /\ updateCh' = <<>> /\ DOMAIN updateCh' = {} /\ FeedTypes' /\ UNCHANGED <<store, feed, syncer, snapshot, clearCh>>
  BY <1>1, TakeFacts, Zenon
<1>3. /\ sessions' \in [Ids -> Held \union {Gone}] /\ due' \in [Ids -> 0..Never]
      /\ \A k \in Ids : sessions'[k] = sessions[k] \/ \E c \in Head(updateCh) : c.id = k
  <2>1. PICK m \in SUBSET Sent : m = Head(updateCh)
    BY <1>2, Zenon
  <2>2. OnUpdateRecords(m) /\ clock \in 0..MaxTime /\ sessions \in [Ids -> Held \union {Gone}] /\ due \in [Ids -> 0..Never]
    BY <1>1, <2>1, Zenon DEF ManagerTypes
  <2>3. /\ sessions' \in [Ids -> Held \union {Gone}] /\ due' \in [Ids -> 0..Never]
        /\ Updated(m)
    BY <2>2, UpdateFacts, Zenon
  <2>4. \A k \in Ids : sessions'[k] = sessions[k] \/ \E c \in m : c.id = k
    BY <2>3, Zenon DEF Updated
  <2> QED
    BY <2>1, <2>3, <2>4, Zenon
<1>4. clock \in 0..clock /\ clock \in 0..Never
  BY <1>1, LivesAssumption DEF ManagerTypes, Never
<1>5. pc' \notin Busy
  BY <1>1, Zenon DEF Busy
<1>6. ManagerTypes'
  BY <1>1, <1>3, <1>4, <1>5, Zenon DEF ManagerTypes
<1>7. Known'
  <2>1. \A k \in Ids : sessions'[k] # Gone => k \in created
    <3>1. \A c \in Head(updateCh) : c.id \in created
      BY <1>1, <1>2, Zenon DEF Known
    <3> QED
      BY <1>1, <1>3, <3>1, Zenon DEF Known
  <2> QED
    BY <1>1, <1>2, <1>5, <2>1, Zenon DEF Known
<1> QED
  BY <1>2, <1>6, <1>7, Zenon DEF TypeInv

LEMMA ClearTypes == ASSUME TypeInv, InitialClear \/ SelectClear, UNCHANGED world PROVE TypeInv'
<1>1. /\ FeedTypes /\ ManagerTypes /\ Known /\ pc' \in {"update", "sessions"} /\ pc \notin Busy /\ clearCh' = FALSE
      /\ sessions' = [k \in Ids |-> Gone] /\ now' \in {now, clock}
      /\ UNCHANGED <<store, feed, syncer, snapshot, updateCh, due, clock, timer, job, created, deleted>>
  BY Zenon DEF InitialClear, SelectClear, TakeClear, ClearSessions, TypeInv, Busy
<1>2. clock \in 0..clock
  BY <1>1 DEF ManagerTypes
<1>3. pc' \notin Busy
  BY <1>1, Zenon DEF Busy
<1>4. ManagerTypes'
  BY <1>1, <1>2, <1>3, Zenon DEF ManagerTypes
<1>5. FeedTypes' /\ Known'
  BY <1>1, <1>3, Zenon DEF FeedTypes, Known
<1> QED
  BY <1>4, <1>5, Zenon DEF TypeInv

LEMMA LoopTypes ==
  ASSUME TypeInv, SelectTimer \/ IterationEnds \/ (\E k \in Ids : RefreshSession(k)), UNCHANGED world
  PROVE  TypeInv'
<1>1. /\ FeedTypes /\ ManagerTypes /\ Known /\ pc \notin Busy /\ now' \in {now, clock}
      /\ UNCHANGED <<store, feed, syncer, snapshot, clearCh, updateCh, sessions, clock, created, deleted>>
  BY Zenon DEF SelectTimer, IterationEnds, RefreshSession, TypeInv, Busy, feedVars
<1>2. FeedTypes'
  BY <1>1, Zenon DEF FeedTypes
<1>3. clock \in 0..clock
  BY <1>1 DEF ManagerTypes
<1>4. CASE SelectTimer \/ IterationEnds
  <2>1. pc' \in {"select", "sessions"} /\ UNCHANGED <<due, job>>
    BY <1>4, Zenon DEF SelectTimer, IterationEnds
  <2>2. pc' \notin Busy
    BY <2>1, Zenon DEF Busy
  <2>3. timer' \in 0..Never
    <3>1. CASE SelectTimer
      BY <1>1, <3>1, Zenon DEF SelectTimer, ManagerTypes
    <3>2. CASE IterationEnds
      <4>1. PICK k \in Ids : timer' = Smaller(now + MaxWait, due[k])
        BY <3>2, Zenon DEF IterationEnds
      <4>2. due[k] \in 0..Never /\ now \in Nat
        BY <1>1 DEF ManagerTypes
      <4> QED
        BY <4>1, <4>2, LivesAssumption DEF Smaller, Never
    <3> QED
      BY <1>4, <3>1, <3>2, Zenon
  <2>4. ManagerTypes' /\ Known'
    BY <1>1, <1>3, <2>1, <2>2, <2>3, Zenon DEF ManagerTypes, Known
  <2> QED
    BY <1>2, <2>4, Zenon DEF TypeInv
<1>5. ASSUME NEW k \in Ids, RefreshSession(k) PROVE TypeInv'
  <2>1. due' = [due EXCEPT ![k] = Never] /\ UNCHANGED timer /\ pc = "sessions"
    BY <1>5, Zenon DEF RefreshSession
  <2>2. due' \in [Ids -> 0..Never]
    BY <1>1, <2>1, LivesAssumption DEF ManagerTypes, Never
  <2>3. CASE sessions[k] = Gone /\ UNCHANGED <<pc, job>>
    <3>1. ManagerTypes' /\ Known'
      BY <1>1, <1>3, <2>1, <2>2, <2>3, Zenon DEF ManagerTypes, Known
    <3> QED
      BY <1>2, <3>1, Zenon DEF TypeInv
  <2>4. CASE sessions[k] # Gone /\ job' = [id |-> k, data |-> sessions[k]] /\ pc' \in {"delete", "refresh"}
    <3>1. sessions[k] \in Held /\ k \in created
      BY <1>1, <2>4, Zenon DEF ManagerTypes, Known
    <3>2. job' \in [id : Ids, data : Held] /\ job'.id \in created /\ pc' \in Busy
      BY <2>4, <3>1, Zenon DEF Busy
    <3>3. ManagerTypes' /\ Known'
      BY <1>1, <1>3, <2>1, <2>2, <3>2, Zenon DEF ManagerTypes, Known
    <3> QED
      BY <1>2, <3>3, Zenon DEF TypeInv
  <2> QED
    BY <1>5, <2>3, <2>4, Zenon DEF RefreshSession
<1> QED
  BY <1>4, <1>5, Zenon

LEMMA JobFacts ==
  ASSUME TypeInv, pc \in Busy
  PROVE  job \in [id : Ids, data : Held] /\ job.id \in Ids /\ job.data \in Held /\ job.id \in created
<1>1. job \in [id : Ids, data : Held] /\ job.id \in created
  BY Zenon DEF TypeInv, ManagerTypes, Known
<1> QED
  BY <1>1, Zenon

LEMMA RefreshedHeld == ASSUME TypeInv, pc \in Busy PROVE Refreshed \in Held
<1>1. job.data \in Held /\ clock \in Nat
  BY JobFacts DEF TypeInv, ManagerTypes
<1>2. job.data.expires \in 0..(MaxTime + SessionLife)
  BY <1>1, Zenon DEF Held
<1> QED
  BY <1>1, <1>2, LivesAssumption DEF Refreshed, Data, Held

LEMMA ProviderTypes == ASSUME TypeInv, ProviderRefresh \/ ProviderUserInfo, UNCHANGED world PROVE TypeInv'
<1>1. /\ FeedTypes /\ ManagerTypes /\ Known /\ pc \in Busy
      /\ UNCHANGED <<store, feed, syncer, snapshot, clearCh, updateCh, clock, due, now, timer, created, deleted>>
  BY Zenon DEF ProviderRefresh, ProviderUserInfo, TypeInv, Busy, feedVars
<1>2. FeedTypes'
  BY <1>1, Zenon DEF FeedTypes
<1>j. job \in [id : Ids, data : Held] /\ job.id \in Ids /\ job.id \in created
  BY <1>1, JobFacts, Zenon
<1>3. CASE pc' = "info" /\ job' = [id |-> job.id, data |-> Refreshed] /\ sessions' = [sessions EXCEPT ![job.id] = Refreshed]
  <2>1. /\ job' \in [id : Ids, data : Held] /\ job'.id = job.id /\ pc' \in Busy
        /\ sessions' \in [Ids -> Held \union {Gone}]
        /\ \A k \in Ids : k # job.id => sessions'[k] = sessions[k]
    BY <1>1, <1>j, <1>3, RefreshedHeld, Zenon DEF ManagerTypes, Busy
  <2>2. ManagerTypes'
    BY <1>1, <2>1, Zenon DEF ManagerTypes
  <2>3. Known'
    BY <1>1, <1>j, <2>1, Zenon DEF Known
  <2> QED
    BY <1>2, <2>2, <2>3, Zenon DEF TypeInv
<1>4. CASE pc' = "sessions" /\ job' = NoJob /\ UNCHANGED sessions
  <2>1. pc' \notin Busy
    BY <1>4, Zenon DEF Busy
  <2>2. ManagerTypes' /\ Known'
    BY <1>1, <1>4, <2>1, Zenon DEF ManagerTypes, Known
  <2> QED
    BY <1>2, <2>2, Zenon DEF TypeInv
<1>5. CASE pc' \in {"delete", "put"} /\ UNCHANGED <<sessions, job>>
  <2>1. pc' \in Busy
    BY <1>5, Zenon DEF Busy
  <2>2. ManagerTypes' /\ Known'
    BY <1>1, <1>j, <1>5, <2>1, Zenon DEF ManagerTypes, Known
  <2> QED
    BY <1>2, <2>2, Zenon DEF TypeInv
<1> QED
  BY <1>3, <1>4, <1>5, Zenon DEF ProviderRefresh, ProviderUserInfo

\* refreshSession schedules the session it has put, and no other
LEMMA PutApplied ==
  ASSUME TypeInv, pc = "put", OnUpdateRecords({Change(job.id, job.data, FALSE)})
  PROVE  /\ sessions' \in [Ids -> Held \union {Gone}] /\ due' \in [Ids -> 0..Never]
         /\ sessions'[job.id] = job.data /\ due'[job.id] = NextRefresh(job.data, clock)
         /\ \A k \in Ids : k # job.id => sessions'[k] = sessions[k] /\ due'[k] = due[k]
<1>1. job.id \in Ids /\ job.data \in Held
  BY JobFacts, Zenon DEF Busy
<1>2. PICK c \in Sent : c = Change(job.id, job.data, FALSE) /\ c.id = job.id /\ c.data = job.data /\ ~ c.deleted
  BY <1>1, PutSent, ZenonT(60)
<1>3. PICK m \in SUBSET Sent : m = {c}
  BY Zenon
<1>4. OnUpdateRecords(m) /\ clock \in 0..MaxTime /\ sessions \in [Ids -> Held \union {Gone}] /\ due \in [Ids -> 0..Never]
  BY <1>2, <1>3, Zenon DEF TypeInv, ManagerTypes
<1>5. sessions' \in [Ids -> Held \union {Gone}] /\ due' \in [Ids -> 0..Never] /\ Updated(m)
  BY <1>4, UpdateFacts, Zenon
<1>6. sessions'[job.id] = job.data /\ due'[job.id] = NextRefresh(job.data, clock)
  <2>1. c \in m /\ c.id = job.id /\ ~ c.deleted /\ \A r \in m : r = c
    BY <1>2, <1>3, Zenon
  <2>2. \E r \in m : sessions'[job.id] = r.data /\ due'[job.id] = NextRefresh(r.data, clock)
    BY <1>1, <1>5, <2>1, Zenon DEF Updated
  <2> QED
    BY <1>2, <2>1, <2>2, Zenon
<1>7. ASSUME NEW k \in Ids, k # job.id PROVE sessions'[k] = sessions[k] /\ due'[k] = due[k]
  <2>1. \A r \in m : r = c /\ r.id # k
    BY <1>2, <1>3, <1>7, Zenon
  <2>2. ~ \E r \in m : r.id = k
    BY <2>1, Zenon
  <2> QED
    BY <1>5, <2>2, Zenon DEF Updated
<1> QED
  BY <1>5, <1>6, <1>7, Zenon

LEMMA PutTypes == ASSUME TypeInv, PutSession, UNCHANGED world PROVE TypeInv'
<1>1. /\ FeedTypes /\ ManagerTypes /\ Known /\ pc = "put" /\ pc' = "sessions" /\ job' = NoJob
      /\ UNCHANGED <<syncer, snapshot, clearCh, updateCh, clock, now, timer, created, deleted>>
  BY Zenon DEF PutSession, TypeInv
<1>2. job.id \in Ids /\ job.data \in Held /\ job.id \in created /\ pc' \notin Busy
  BY <1>1, JobFacts, Zenon DEF Busy
<1>k. PICK s \in Ids, d \in Held : s = job.id /\ d = job.data
  BY <1>2, Zenon
<1>4. /\ store' \in [Ids -> Held \union {Gone}] /\ feed' \in Seq(Sent)
      /\ \A i \in Ids \ {job.id} : store'[i] = store[i]
      /\ \A i \in DOMAIN feed' : feed'[i].id = job.id \/ (i \in DOMAIN feed /\ feed'[i] = feed[i])
  <2>1. CASE PutRecord(job.id, job.data)
    <3>1. PutRecord(s, d)
      BY <1>k, <2>1, Zenon
    <3>2. PICK c \in Sent : c.id = s /\ Stored(s, d, c)
      BY <1>1, <3>1, PutEffect, Zenon
    <3> QED
      BY <1>k, <2>1, <3>2, Zenon DEF Stored
  <2>2. CASE UNCHANGED <<store, feed>>
    BY <1>1, <2>2, Zenon DEF FeedTypes
  <2> QED
    BY <2>1, <2>2, Zenon DEF PutSession
<1>5. /\ sessions' \in [Ids -> Held \union {Gone}] /\ due' \in [Ids -> 0..Never]
      /\ \A k \in Ids : k # job.id => sessions'[k] = sessions[k]
  <2>1. CASE OnUpdateRecords({Change(job.id, job.data, FALSE)})
    BY <1>1, <2>1, PutApplied, Zenon
  <2>2. CASE UNCHANGED <<sessions, due>>
    BY <1>1, <2>2, Zenon DEF ManagerTypes
  <2> QED
    BY <2>1, <2>2, Zenon DEF PutSession
<1>6. FeedTypes'
  BY <1>1, <1>4, Zenon DEF FeedTypes
<1>7. ManagerTypes'
  BY <1>1, <1>2, <1>5, Zenon DEF ManagerTypes
<1>8. Known'
  <2>1. \A i \in DOMAIN feed' : feed'[i].id \in created
    BY <1>1, <1>2, <1>4, Zenon DEF Known
  <2>2. \A k \in Ids : store'[k] # Gone \/ sessions'[k] # Gone => k \in created
    BY <1>1, <1>2, <1>4, <1>5, Zenon DEF Known
  <2> QED
    BY <1>1, <1>2, <2>1, <2>2, Zenon DEF Known
<1> QED
  BY <1>6, <1>7, <1>8, Zenon DEF TypeInv

LEMMA DeleteTypes == ASSUME TypeInv, DeleteSession, UNCHANGED world PROVE TypeInv'
<1>1. /\ FeedTypes /\ ManagerTypes /\ Known /\ pc = "delete" /\ pc' = "sessions" /\ job' = NoJob
      /\ UNCHANGED <<syncer, snapshot, clearCh, updateCh, clock, sessions, due, now, timer, created>>
  BY Zenon DEF DeleteSession, TypeInv
<1>2. job.id \in Ids /\ job.id \in created /\ pc' \notin Busy
  BY <1>1, JobFacts, Zenon DEF Busy
<1>k. PICK s \in Ids : s = job.id
  BY <1>2, Zenon
<1>4. /\ store' \in [Ids -> Held \union {Gone}] /\ feed' \in Seq(Sent) /\ deleted' \subseteq deleted \union {job.id}
      /\ \A i \in Ids \ {job.id} : store'[i] = store[i]
      /\ \A i \in DOMAIN feed' : feed'[i].id = job.id \/ (i \in DOMAIN feed /\ feed'[i] = feed[i])
  <2>1. CASE DeleteRecord(job.id, Gone) /\ deleted' = deleted \union {job.id}
    <3>1. DeleteRecord(s, Gone)
      BY <1>k, <2>1, Zenon
    <3>2. PICK c \in Sent : c.id = s /\ Stored(s, Gone, c)
      BY <1>1, <3>1, DeleteEffect, Zenon
    <3> QED
      BY <1>k, <2>1, <3>2, Zenon DEF Stored
  <2>2. CASE UNCHANGED <<store, feed, deleted>>
    BY <1>1, <2>2, Zenon DEF FeedTypes
  <2> QED
    BY <2>1, <2>2, Zenon DEF DeleteSession
<1>6. FeedTypes'
  BY <1>1, <1>4, Zenon DEF FeedTypes
<1>7. ManagerTypes'
  BY <1>1, <1>2, Zenon DEF ManagerTypes
<1>8. Known'
  <2>1. \A i \in DOMAIN feed' : feed'[i].id \in created
    BY <1>1, <1>2, <1>4, Zenon DEF Known
  <2>2. \A k \in Ids : store'[k] # Gone \/ sessions'[k] # Gone => k \in created
    BY <1>1, <1>2, <1>4, Zenon DEF Known
  <2>3. deleted' \subseteq created
    BY <1>1, <1>2, <1>4, Zenon DEF Known
  <2> QED
    BY <1>1, <1>2, <2>1, <2>2, <2>3, Zenon DEF Known
<1> QED
  BY <1>6, <1>7, <1>8, Zenon DEF TypeInv

LEMMA TickTypes == ASSUME TypeInv, Tick, UNCHANGED world PROVE TypeInv'
<1>1. /\ FeedTypes /\ ManagerTypes /\ Known /\ clock < MaxTime /\ clock' = clock + 1
      /\ UNCHANGED <<store, feed, syncer, snapshot, clearCh, updateCh, sessions, due, pc, now, timer, job, created, deleted>>
  BY Zenon DEF Tick, TypeInv, feedVars, managerVars
<1>2. clock' \in 0..MaxTime /\ now' \in 0..clock'
  BY <1>1, LivesAssumption DEF ManagerTypes
<1>3. FeedTypes' /\ Known'
  BY <1>1, Zenon DEF FeedTypes, Known
<1>4. ManagerTypes'
  BY <1>1, <1>2, Zenon DEF ManagerTypes
<1> QED
  BY <1>3, <1>4, Zenon DEF TypeInv

LEMMA TypesStep == TypeInv /\ [Next]_vars => TypeInv'
<1> SUFFICES ASSUME TypeInv, [Next]_vars PROVE TypeInv'
  BY Zenon
<1>1. CASE UNCHANGED vars
  BY <1>1, Zenon DEF vars, feedVars, managerVars, TypeInv, FeedTypes, ManagerTypes, Known
<1>2. CASE Next
  BY <1>2, SignInTypes, SignOutTypes, TickTypes, FeedTypesStep, ClearTypes, UpdateTypes, LoopTypes,
     ProviderTypes, PutTypes, DeleteTypes, Zenon DEF Next, ManagerStep
<1> QED
  BY <1>1, <1>2, Zenon

LEMMA TypesHold == Spec => []TypeInv
  BY InitTypes, TypesStep, PTL DEF Spec

\* The variables of the manager keep their types, and a session is deleted only
\* if it was signed in (manager.go, refreshLoop; sync.go), for any number of
\* sessions and any lives of sessions and tokens.
THEOREM TypeCorrect == Spec => []TypeOK
<1>1. ASSUME TypeInv PROVE TypeOK
  <2>1. FeedTypes /\ ManagerTypes /\ Known /\ world \in World
    BY <1>1, Zenon DEF TypeInv
  <2>2. Held \subseteq Session /\ \A c \in Sent : c \in [id : Ids, data : Session \union {Gone}, deleted : BOOLEAN]
    BY LivesAssumption DEF Held, Session, Sent
  <2>3. store \in [Ids -> Session \union {Gone}] /\ sessions \in [Ids -> Session \union {Gone}]
    BY <2>1, <2>2, Zenon DEF FeedTypes, ManagerTypes
  <2>4. \A i \in DOMAIN feed : {feed[i]} \in Message
    <3>1. \A i \in DOMAIN feed : feed[i] \in Sent
      BY <2>1 DEF FeedTypes
    <3> QED
      BY <2>2, <3>1, Zenon DEF Message
  <2>5. snapshot \in Message
    BY <2>1, <2>2, Zenon DEF Message, FeedTypes
  <2>6. Len(updateCh) <= 1 /\ \A i \in DOMAIN updateCh : updateCh[i] \in Message
    <3>1. \A i \in DOMAIN updateCh : updateCh[i] \in SUBSET Sent
      BY <2>1 DEF FeedTypes
    <3> QED
      BY <2>1, <2>2, <3>1, Zenon DEF Message, FeedTypes
  <2>7. clock \in 0..MaxTime /\ now \in 0..MaxTime
    BY <2>1, LivesAssumption DEF ManagerTypes
  <2>8. job = NoJob \/ (job.id \in Ids /\ job.data \in Session)
    <3>1. job = NoJob \/ job \in [id : Ids, data : Held]
      BY <2>1, Zenon DEF ManagerTypes
    <3> QED
      BY <2>2, <3>1, Zenon
  <2>9. pc \in {"clear", "update", "select", "sessions", "refresh", "info", "put", "delete"}
    BY <2>1, Zenon DEF ManagerTypes, Busy
  <2> QED
    BY <2>1, <2>3, <2>4, <2>5, <2>6, <2>7, <2>8, <2>9, Zenon DEF TypeOK, FeedTypes, ManagerTypes, Known
<1> QED
  BY <1>1, TypesHold, PTL

---------------------------------------------------------------------------
(* The cool-off *)

\* the steps that leave the schedule alone
Unscheduled ==
  \/ \E k \in Ids : SignIn(k) \/ SignOut(k)
  \/ FeedStep \/ FeedRestart
  \/ InitialClear \/ SelectClear \/ SelectTimer \/ IterationEnds
  \/ ProviderRefresh \/ ProviderUserInfo \/ DeleteSession

LEMMA SpacedStep == TypeInv /\ SpacedInv /\ [Next]_vars => SpacedInv'
<1> SUFFICES ASSUME TypeInv, SpacedInv, [Next]_vars PROVE SpacedInv'
  BY Zenon
<1>t. clock \in 0..MaxTime /\ sessions \in [Ids -> Held \union {Gone}] /\ due \in [Ids -> 0..Never] /\ FeedTypes
  BY Zenon DEF TypeInv, ManagerTypes
<1>a. attempt \in [Ids -> Int] /\ \A k \in Ids : attempt[k] <= clock /\ attempt[k] + CoolOff <= due[k]
  BY Zenon DEF SpacedInv
<1>1. CASE UNCHANGED <<attempt, clock, due>>
  BY <1>1, Zenon DEF SpacedInv
<1>2. CASE UNCHANGED vars \/ Unscheduled
  <2>1. UNCHANGED <<attempt, clock, due>>
    BY <1>2, Zenon DEF Unscheduled, SignIn, SignOut, FeedStep, FeedRestart, InitialClear, SelectClear, ClearSessions,
       SelectTimer, IterationEnds, ProviderRefresh, ProviderUserInfo, DeleteSession, vars, managerVars
  <2> QED
    BY <1>1, <2>1, Zenon
<1>3. CASE Tick
  <2>1. clock' = clock + 1 /\ UNCHANGED <<attempt, due>>
    BY <1>3, Zenon DEF Tick, managerVars
  <2> QED
    BY <1>t, <1>a, <2>1 DEF SpacedInv
<1>l. \A k \in Ids : attempt[k] + CoolOff <= clock + CoolOff
  BY <1>t, <1>a, LivesAssumption
<1>m. \A x \in 0..Never, k \in Ids : clock + CoolOff <= x => attempt[k] + CoolOff <= x
  BY <1>t, <1>a, LivesAssumption
<1>n. \A d \in Held : NextRefresh(d, clock) \in 0..Never /\ clock + CoolOff <= NextRefresh(d, clock)
  BY <1>t, RefreshRange, Zenon
<1>4. CASE InitialUpdate \/ SelectUpdate
  <2>1. TakeUpdate /\ OnUpdateRecords(Head(updateCh)) /\ UNCHANGED <<attempt, clock>>
    BY <1>4, Zenon DEF InitialUpdate, SelectUpdate
  <2>2. PICK m \in SUBSET Sent : m = Head(updateCh)
    BY <1>t, <2>1, TakeFacts, Zenon
  <2>3. Updated(m)
    BY <1>t, <2>1, <2>2, UpdateFacts, Zenon
  <2>4. ASSUME NEW k \in Ids PROVE attempt[k] + CoolOff <= due'[k]
    <3>1. CASE due'[k] = due[k]
      BY <1>a, <3>1, Zenon
    <3>2. CASE \E d \in Held : due'[k] = NextRefresh(d, clock)
      BY <1>m, <1>n, <3>2, Zenon
    <3> QED
      BY <2>3, <3>1, <3>2, Zenon DEF Updated
  <2> QED
    BY <1>a, <2>1, <2>4, Zenon DEF SpacedInv
<1>5. CASE PutSession
  <2>1. UNCHANGED <<attempt, clock>> /\ pc = "put"
    BY <1>5, Zenon DEF PutSession
  <2>2. CASE OnUpdateRecords({Change(job.id, job.data, FALSE)})
    <3>1. job.data \in Held
      BY <2>1, JobFacts, Zenon DEF Busy
    <3>2. \A k \in Ids : due'[k] = due[k] \/ (k = job.id /\ due'[k] = NextRefresh(job.data, clock))
      BY <2>1, <2>2, PutApplied, Zenon
    <3>3. \A k \in Ids : attempt[k] + CoolOff <= due'[k]
      BY <1>a, <1>m, <1>n, <3>1, <3>2, Zenon
    <3> QED
      BY <1>a, <2>1, <3>3, Zenon DEF SpacedInv
  <2>3. CASE UNCHANGED <<sessions, due>>
    BY <1>1, <2>1, <2>3, Zenon
  <2> QED
    BY <1>5, <2>2, <2>3, Zenon DEF PutSession
<1>6. ASSUME NEW k \in Ids, RefreshSession(k) PROVE SpacedInv'
  <2>1. due' = [due EXCEPT ![k] = Never] /\ UNCHANGED clock /\ (UNCHANGED attempt \/ attempt' = [attempt EXCEPT ![k] = clock])
    BY <1>6, Zenon DEF RefreshSession
  <2>2. Never \in 0..Never /\ clock + CoolOff <= Never /\ clock \in Int /\ clock <= clock
    BY <1>t, LivesAssumption DEF Never
  <2>3. attempt' \in [Ids -> Int] /\ \A i \in Ids : attempt'[i] \in {attempt[i], clock}
    BY <1>a, <2>1, <2>2, Zenon
  <2>4. \A i \in Ids : attempt'[i] <= clock
    BY <1>a, <2>2, <2>3, Zenon
  <2>5. ASSUME NEW i \in Ids, i # k PROVE due'[i] = due[i] /\ attempt'[i] = attempt[i]
    BY <1>a, <1>t, <2>1, <2>5, Zenon
  <2>6. due'[k] = Never /\ (attempt'[k] = attempt[k] \/ attempt'[k] = clock)
    BY <1>t, <2>1, <2>3, Zenon
  <2>7. attempt'[k] + CoolOff <= due'[k]
    BY <1>m, <2>2, <2>6, Zenon
  <2>8. \A i \in Ids : attempt'[i] + CoolOff <= due'[i]
    BY <1>a, <2>5, <2>7, Zenon
  <2> QED
    BY <2>1, <2>3, <2>4, <2>8, Zenon DEF SpacedInv
<1> QED
  BY <1>2, <1>3, <1>4, <1>5, <1>6, Zenon DEF Next, ManagerStep, Unscheduled

LEMMA InitSpaced == Init => SpacedInv
  BY LivesAssumption DEF Init, SpacedInv, Never

\* Two refreshes of one session are at least the cool-off apart, whatever fails
\* and however the syncer and the loop interleave (data.go, NextRefresh).
THEOREM RefreshesSpaced == Spec => AttemptsSpaced
<1>1. Spec => []SpacedInv
  BY InitSpaced, SpacedStep, TypesHold, PTL DEF Spec
<1>2. ASSUME TypeInv, SpacedInv, [Next]_vars, NEW k \in Ids, pc = "sessions", pc' = "refresh", job'.id = k
      PROVE  clock >= attempt[k] + CoolOff
  <2>1. PICK i \in Ids : RefreshSession(i)
    <3>1. pc' # pc
      BY <1>2, Zenon
    <3>2. ~ Unscheduled
      BY <1>2, <3>1, Zenon DEF Unscheduled, SignIn, SignOut, FeedStep, FeedRestart, InitialClear, SelectClear,
         SelectTimer, IterationEnds, ProviderRefresh, ProviderUserInfo, DeleteSession, managerVars
    <3> QED
      BY <1>2, <3>1, <3>2, Zenon DEF Unscheduled, Next, ManagerStep, Tick, InitialUpdate, SelectUpdate, PutSession, vars, managerVars
  <2>2. i = k /\ due[k] <= now
    BY <1>2, <2>1 DEF RefreshSession
  <2>3. attempt[k] + CoolOff <= due[k] /\ attempt[k] \in Int /\ due[k] \in Int /\ now \in Int /\ now <= clock /\ clock \in Int
    BY <1>2 DEF SpacedInv, TypeInv, ManagerTypes
  <2> QED
    BY <2>2, <2>3, LivesAssumption
<1>3. TypeInv /\ SpacedInv /\ [Next]_vars =>
        (\A k \in Ids : pc = "sessions" /\ pc' = "refresh" /\ job'.id = k => clock >= attempt[k] + CoolOff)
  BY <1>2, Zenon
<1> QED
  BY <1>1, <1>3, TypesHold, PTL DEF Spec, AttemptsSpaced

---------------------------------------------------------------------------
(* Sessions stay scheduled *)

LEMMA ScheduleKept ==
  ASSUME TypeInv, ScheduleInv, UNCHANGED <<world, pc, job, sessions, due>>, clock' \in {clock, clock + 1}
  PROVE  ScheduleInv'
<1>1. clock \in Nat /\ \A k \in Ids : sessions[k] # Gone => sessions[k].expires \in Nat
  BY LivesAssumption DEF TypeInv, ManagerTypes, Held
<1>2. pc = "delete" => job.data.expires \in Nat
  BY JobFacts, LivesAssumption DEF Busy, Held
<1>3. \A n \in Nat : (n <= clock => n <= clock') /\ (n > clock' => n > clock)
  BY <1>1
<1>4. \A k \in Ids : sessions[k] # Gone /\ sessions[k].expires > clock' => sessions[k].expires > clock
  BY <1>1, <1>3, Zenon
<1>5. pc = "delete" /\ job.data.expires <= clock => job.data.expires <= clock'
  BY <1>2, <1>3, Zenon
<1> QED
  BY <1>4, <1>5, Zenon DEF ScheduleInv

LEMMA ScheduleUpdate ==
  ASSUME TypeInv, ScheduleInv, InitialUpdate \/ SelectUpdate, UNCHANGED world PROVE ScheduleInv'
<1>1. /\ TakeUpdate /\ OnUpdateRecords(Head(updateCh)) /\ UNCHANGED <<clock, job>>
      /\ pc \notin Busy /\ pc' \notin Busy /\ pc' # "delete"
  BY Zenon DEF InitialUpdate, SelectUpdate, Busy
<1>t. clock \in 0..MaxTime /\ sessions \in [Ids -> Held \union {Gone}] /\ due \in [Ids -> 0..Never] /\ FeedTypes
  BY Zenon DEF TypeInv, ManagerTypes
<1>2. PICK m \in SUBSET Sent : m = Head(updateCh)
  BY <1>1, <1>t, TakeFacts, Zenon
<1>3. Updated(m)
  BY <1>1, <1>2, <1>t, UpdateFacts, Zenon
<1>4. ASSUME NEW k \in Ids, world.failures = {}, sessions'[k] # Gone, sessions'[k].expires > clock, due'[k] = Never
      PROVE  FALSE
  <2>1. CASE sessions'[k] = sessions[k] /\ due'[k] = due[k]
    BY <1>1, <1>4, <2>1, Zenon DEF ScheduleInv
  <2>2. CASE \E d \in Held : due'[k] = NextRefresh(d, clock)
    BY <1>4, <1>t, <2>2, RefreshRange, Zenon
  <2> QED
    BY <1>3, <2>1, <2>2, Zenon DEF Updated
<1> QED
  BY <1>1, <1>4, Zenon DEF ScheduleInv

LEMMA ScheduleRefresh ==
  ASSUME TypeInv, ScheduleInv, NEW k \in Ids, RefreshSession(k), UNCHANGED world PROVE ScheduleInv'
<1>1. /\ due' = [due EXCEPT ![k] = Never] /\ UNCHANGED <<clock, sessions>> /\ pc \notin Busy
      /\ due \in [Ids -> 0..Never] /\ sessions \in [Ids -> Held \union {Gone}] /\ clock \in 0..MaxTime
  BY Zenon DEF RefreshSession, TypeInv, ManagerTypes, Busy
<1>2. due'[k] = Never /\ \A i \in Ids : i # k => due'[i] = due[i]
  BY <1>1, Zenon
<1>3. \A i \in Ids : world.failures = {} /\ sessions'[i] # Gone /\ sessions'[i].expires > clock' /\ due'[i] = Never => i = k
  BY <1>1, <1>2, Zenon DEF ScheduleInv
<1>4. CASE sessions[k] = Gone /\ UNCHANGED <<pc, job>>
  <2>1. pc' # "delete" /\ pc' \notin Busy
    BY <1>1, <1>4, Zenon DEF Busy
  <2> QED
    BY <1>1, <1>3, <1>4, <2>1, Zenon DEF ScheduleInv
<1>5. CASE /\ job' = [id |-> k, data |-> sessions[k]] /\ sessions[k] # Gone
           /\ \/ sessions[k].expires <= clock /\ pc' = "delete"
              \/ sessions[k].expires > clock /\ pc' = "refresh"
  <2>1. job'.id = k /\ job'.data = sessions'[k] /\ pc' \in Busy
    BY <1>1, <1>5, Zenon DEF Busy
  <2>2. pc' = "delete" => job'.data.expires <= clock'
    BY <1>1, <1>5, <2>1, Zenon
  <2> QED
    BY <1>2, <1>3, <2>1, <2>2, Zenon DEF ScheduleInv
<1> QED
  BY <1>4, <1>5, Zenon DEF RefreshSession

LEMMA ScheduleProvider ==
  ASSUME TypeInv, ScheduleInv, ProviderRefresh \/ ProviderUserInfo, UNCHANGED world PROVE ScheduleInv'
<1>1. pc \in Busy /\ pc # "delete" /\ UNCHANGED <<clock, due>> /\ sessions \in [Ids -> Held \union {Gone}]
  BY Zenon DEF ProviderRefresh, ProviderUserInfo, Busy, TypeInv, ManagerTypes
<1>2. job.id \in Ids /\ sessions[job.id] = job.data /\ due[job.id] = Never
  BY <1>1, JobFacts, Zenon DEF ScheduleInv
<1>3. CASE pc' = "info" /\ job' = [id |-> job.id, data |-> Refreshed] /\ sessions' = [sessions EXCEPT ![job.id] = Refreshed]
  <2>1. /\ job'.id = job.id /\ job'.data = Refreshed /\ pc' \in Busy /\ pc' # "delete"
        /\ sessions'[job.id] = Refreshed /\ \A i \in Ids : i # job.id => sessions'[i] = sessions[i]
    BY <1>1, <1>2, <1>3, Zenon DEF Busy
  <2>2. \A i \in Ids : world.failures = {} /\ sessions'[i] # Gone /\ sessions'[i].expires > clock' /\ due'[i] = Never => i = job.id
    BY <1>1, <2>1, Zenon DEF ScheduleInv
  <2> QED
    BY <1>1, <1>2, <2>1, <2>2, Zenon DEF ScheduleInv
<1>4. CASE world.failures # {} /\ pc' = "sessions" /\ UNCHANGED sessions
  <2>1. pc' \notin Busy
    BY <1>4, Zenon DEF Busy
  <2> QED
    BY <1>4, <2>1, Zenon DEF ScheduleInv
<1>5. CASE world.failures # {} /\ pc' = "delete" /\ UNCHANGED <<sessions, job>>
  BY <1>1, <1>2, <1>5, Zenon DEF ScheduleInv
<1>6. CASE pc' = "put" /\ UNCHANGED <<sessions, job>>
  <2>1. pc' \in Busy /\ pc' # "delete"
    BY <1>6, Zenon DEF Busy
  <2> QED
    BY <1>1, <1>6, <2>1, Zenon DEF ScheduleInv
<1> QED
  BY <1>3, <1>4, <1>5, <1>6, Zenon DEF ProviderRefresh, ProviderUserInfo

LEMMA SchedulePut == ASSUME TypeInv, ScheduleInv, PutSession, UNCHANGED world PROVE ScheduleInv'
<1>1. pc = "put" /\ pc' = "sessions" /\ pc \in Busy /\ pc' \notin Busy /\ pc' # "delete" /\ UNCHANGED clock
  BY Zenon DEF PutSession, Busy
<1>2. CASE OnUpdateRecords({Change(job.id, job.data, FALSE)})
  <2>1. /\ due'[job.id] = NextRefresh(job.data, clock)
        /\ \A k \in Ids : k # job.id => sessions'[k] = sessions[k] /\ due'[k] = due[k]
    BY <1>1, <1>2, PutApplied, Zenon
  <2>2. due'[job.id] # Never
    <3>1. job.data \in Held /\ clock \in 0..MaxTime
      BY <1>1, JobFacts, Zenon DEF TypeInv, ManagerTypes
    <3> QED
      BY <2>1, <3>1, RefreshRange, Zenon
  <2>3. ASSUME NEW k \in Ids, world.failures = {}, sessions'[k] # Gone, sessions'[k].expires > clock, due'[k] = Never
        PROVE  FALSE
    BY <1>1, <2>1, <2>2, <2>3, Zenon DEF ScheduleInv
  <2> QED
    BY <1>1, <2>3, Zenon DEF ScheduleInv
<1>3. CASE world.failures # {}
  BY <1>1, <1>3, Zenon DEF ScheduleInv
<1> QED
  BY <1>2, <1>3, Zenon DEF PutSession

LEMMA ScheduleStep == TypeInv /\ ScheduleInv /\ [Next]_vars => ScheduleInv'
<1> SUFFICES ASSUME TypeInv, ScheduleInv, [Next]_vars PROVE ScheduleInv'
  BY Zenon
<1>w. UNCHANGED world
  BY Zenon DEF Next, vars
<1>1. CASE UNCHANGED vars \/ (\E k \in Ids : SignIn(k) \/ SignOut(k)) \/ Tick \/ FeedStep \/ FeedRestart
  <2>1. UNCHANGED <<world, pc, job, sessions, due>> /\ clock' \in {clock, clock + 1}
    BY <1>w, <1>1, Zenon DEF vars, managerVars, SignIn, SignOut, Tick, FeedStep, FeedRestart
  <2> QED
    BY <2>1, ScheduleKept, Zenon
<1>2. CASE InitialClear \/ SelectClear
  <2>1. pc' # "delete" /\ pc' \notin Busy /\ sessions' = [k \in Ids |-> Gone]
    BY <1>w, <1>2, Zenon DEF InitialClear, SelectClear, ClearSessions, Busy
  <2> QED
    BY <2>1, Zenon DEF ScheduleInv
<1>3. CASE SelectTimer \/ IterationEnds
  <2>1. pc' # "delete" /\ pc' \notin Busy /\ pc \notin Busy /\ UNCHANGED <<clock, sessions, due, world>>
    BY <1>w, <1>3, Zenon DEF SelectTimer, IterationEnds, Busy
  <2> QED
    BY <2>1, Zenon DEF ScheduleInv
<1>4. CASE DeleteSession
  <2>1. pc = "delete" /\ pc' = "sessions" /\ UNCHANGED <<clock, sessions, due, world>> /\ pc' # "delete" /\ pc' \notin Busy /\ pc \in Busy
    BY <1>w, <1>4, Zenon DEF DeleteSession, Busy
  <2>2. job.id \in Ids /\ job.data \in Held /\ clock \in Nat /\ sessions[job.id] = job.data
    BY <2>1, JobFacts DEF TypeInv, ManagerTypes, ScheduleInv
  <2>3. job.data.expires <= clock => ~ (job.data.expires > clock)
    BY <2>2, LivesAssumption DEF Held
  <2>4. ASSUME NEW k \in Ids, world.failures = {}, sessions[k] # Gone, sessions[k].expires > clock, due[k] = Never
        PROVE  FALSE
    BY <2>1, <2>2, <2>3, <2>4, Zenon DEF ScheduleInv
  <2> QED
    BY <2>1, <2>4, Zenon DEF ScheduleInv
<1>5. CASE InitialUpdate \/ SelectUpdate
  BY <1>w, <1>5, ScheduleUpdate, Zenon
<1>6. CASE \E k \in Ids : RefreshSession(k)
  BY <1>w, <1>6, ScheduleRefresh, Zenon
<1>7. CASE ProviderRefresh \/ ProviderUserInfo
  BY <1>w, <1>7, ScheduleProvider, Zenon
<1>8. CASE PutSession
  BY <1>w, <1>8, SchedulePut, Zenon
<1> QED
  BY <1>1, <1>2, <1>3, <1>4, <1>5, <1>6, <1>7, <1>8, Zenon DEF Next, ManagerStep

LEMMA InitSchedule == Init => ScheduleInv
  BY Zenon DEF Init, ScheduleInv, Busy

LEMMA ScheduleHolds == Spec => []ScheduleInv
  BY InitSchedule, ScheduleStep, TypesHold, PTL DEF Spec

\* While no call fails, every session that the loop holds and that lives is
\* scheduled whenever the loop waits, so that another attempt follows
\* (manager.go, refreshSession and onUpdateSession).
THEOREM Scheduled == Spec => []StaysScheduled
<1>1. ASSUME TypeInv, ScheduleInv PROVE StaysScheduled
  <2>1. "select" \notin Busy
    BY Zenon DEF Busy
  <2> QED
    BY <1>1, <2>1, Zenon DEF ScheduleInv, StaysScheduled
<1> QED
  BY <1>1, TypesHold, ScheduleHolds, PTL

---------------------------------------------------------------------------
(* Tokens stay fresh *)

\* the manager's own steps, and those that take nothing from the feed, leave the
\* last change of a record where it is
LEMMA FollowsKept ==
  ASSUME NEW k \in Ids, Follows(k), Arrived(k) => Arrived(k)', UNCHANGED <<store, feed, syncer, snapshot, updateCh>>
  PROVE  Follows(k)'
<1>1. Passed(k) => Passed(k)'
  BY Zenon DEF Passed, Carries
<1> QED
  BY <1>1, Zenon DEF Follows, Absent

LEMMA AppendFeed ==
  ASSUME TypeInv, NEW c \in Sent, feed' = Append(feed, c)
  PROVE  /\ DOMAIN feed' = 1..(Len(feed) + 1) /\ DOMAIN feed = 1..Len(feed) /\ Len(feed) \in Nat
         /\ \A i \in DOMAIN feed : feed'[i] = feed[i]
         /\ feed'[Len(feed) + 1] = c
  BY AppendFacts DEF TypeInv, FeedTypes

LEMMA FollowsAppended ==
  ASSUME TypeInv, NEW k \in Ids, NEW c \in Sent, Follows(k), Arrived(k) => Arrived(k)', UNCHANGED <<syncer, snapshot, updateCh>>,
         store'[k] = store[k], feed' = Append(feed, c), c.id # k
  PROVE  Follows(k)'
<1>1. Passed(k) => Passed(k)'
  BY Zenon DEF Passed, Carries
<1>2. /\ DOMAIN feed' = 1..(Len(feed) + 1) /\ DOMAIN feed = 1..Len(feed) /\ Len(feed) \in Nat
      /\ \A i \in DOMAIN feed : feed'[i] = feed[i]
      /\ feed'[Len(feed) + 1] = c
  BY AppendFeed, Zenon
<1>3. \A i \in DOMAIN feed' : i \in DOMAIN feed \/ feed'[i] = c
  BY <1>2
<1>4. \A i \in DOMAIN feed : i \in DOMAIN feed'
  BY <1>2
<1>5. Absent(k) => Absent(k)'
  BY <1>2, <1>3, Zenon DEF Absent
<1>6. ASSUME NEW i \in DOMAIN feed, feed[i] = Change(k, store[k], FALSE), \A j \in DOMAIN feed : j > i => feed[j].id # k
      PROVE  Follows(k)'
  <2>1. \A j \in DOMAIN feed' : j > i => feed'[j].id # k
    BY <1>2, <1>3, <1>6, Zenon
  <2>2. i \in DOMAIN feed' /\ feed'[i] = Change(k, store'[k], FALSE)
    BY <1>2, <1>4, <1>6, Zenon
  <2> QED
    BY <2>1, <2>2, Zenon DEF Follows
<1> QED
  BY <1>1, <1>5, <1>6, Zenon DEF Follows

LEMMA FollowsLast ==
  ASSUME TypeInv, NEW k \in Ids, NEW c \in Sent, feed' = Append(feed, c), c = Change(k, store'[k], FALSE)
  PROVE  Follows(k)'
<1>1. DOMAIN feed' = 1..(Len(feed) + 1) /\ Len(feed) \in Nat /\ feed'[Len(feed) + 1] = c
  BY AppendFeed, Zenon
<1>2. PICK n \in DOMAIN feed' : feed'[n] = c /\ \A j \in DOMAIN feed' : ~ (j > n)
  <2>1. Len(feed) + 1 \in DOMAIN feed' /\ \A j \in DOMAIN feed' : ~ (j > Len(feed) + 1)
    BY <1>1
  <2> QED
    BY <1>1, <2>1, Zenon
<1> QED
  BY <1>2, Zenon DEF Follows

\* a sign-in: the new session is the last change of the feed
LEMMA FreshSignIn ==
  ASSUME TypeInv, Smooth, FreshInv, NEW k \in Ids, SignIn(k), UNCHANGED world PROVE FreshInv'
<1>i. Stage /\ AllNew /\ Planned /\ TimerInv /\ AllFollow
  BY Zenon DEF FreshInv
<1>1. PICK d \in Held : d = Data(clock + SessionLife, clock + TokenLife) /\ New(d)
  <2>1. Data(clock + SessionLife, clock + TokenLife) \in Held /\ New(Data(clock + SessionLife, clock + TokenLife))
    BY LivesAssumption DEF TypeInv, ManagerTypes, Data, Held, New
  <2> QED
    BY <2>1, Zenon
<1>2. /\ PutRecord(k, d) /\ FeedTypes
      /\ UNCHANGED <<syncer, snapshot, clearCh, updateCh, clock, sessions, due, pc, now, timer, job>>
  BY <1>1, Zenon DEF SignIn, managerVars, TypeInv
<1>3. PICK c \in Sent : c = Change(k, d, FALSE) /\ c.id = k /\ c.data = d /\ Stored(k, d, c)
  BY <1>2, PutEffect, Zenon
<1>4. /\ store'[k] = d /\ feed' = Append(feed, c) /\ \A i \in Ids \ {k} : store'[i] = store[i]
      /\ \A i \in DOMAIN feed' : feed'[i] = c \/ (i \in DOMAIN feed /\ feed'[i] = feed[i])
  BY <1>3, Zenon DEF Stored
<1>5. Stage' /\ Planned' /\ TimerInv'
  BY <1>i, <1>2, Zenon DEF Stage, Progress, Planned, TimerInv
<1>6. AllNew'
  <2>1. \A i \in Ids : syncer' = "init" /\ store'[i] # Gone => store'[i].token = clock' + TokenLife
    BY <1>i, <1>1, <1>2, <1>4, Zenon DEF AllNew, New
  <2>2. c.data.token = clock' + TokenLife
    BY <1>1, <1>2, <1>3, Zenon DEF New
  <2>3. \A i \in DOMAIN feed : ~ feed[i].deleted => feed[i].data.token = clock' + TokenLife
    BY <1>i, <1>2, Zenon DEF AllNew, New
  <2>4. \A i \in DOMAIN feed' : ~ feed'[i].deleted => feed'[i].data.token = clock' + TokenLife
    BY <1>4, <2>2, <2>3, Zenon
  <2> QED
    BY <1>i, <1>2, <2>1, <2>4, Zenon DEF AllNew, New
<1>7. ASSUME NEW i \in Ids, store'[i] # Gone PROVE Follows(i)'
  <2>1. CASE i = k
    BY <1>2, <1>3, <1>4, <2>1, FollowsLast, Zenon
  <2>2. CASE i # k
    <3>1. store'[i] = store[i] /\ Follows(i) /\ (Arrived(i) => Arrived(i)')
      BY <1>i, <1>2, <1>4, <1>7, <2>2, Zenon DEF AllFollow, Arrived
    <3>2. feed' = Append(feed, c) /\ c.id # i /\ UNCHANGED <<syncer, snapshot, updateCh>>
      BY <1>2, <1>3, <1>4, <2>2, Zenon
    <3> QED
      BY <3>1, <3>2, FollowsAppended, Zenon
  <2> QED
    BY <2>1, <2>2, Zenon
<1> QED
  BY <1>5, <1>6, <1>7, Zenon DEF FreshInv, AllFollow

\* a sign-out or a deletion: nothing is claimed of the record any more
LEMMA FreshDeleted ==
  ASSUME TypeInv, Smooth, FreshInv, NEW k \in Ids, DeleteRecord(k, Gone),
         UNCHANGED <<world, syncer, snapshot, clearCh, updateCh, clock, sessions, due, timer>>,
         UNCHANGED <<pc, job>> \/ (pc = "delete" /\ pc' = "sessions")
  PROVE  FreshInv'
<1>i. Stage /\ AllNew /\ Planned /\ TimerInv /\ AllFollow
  BY Zenon DEF FreshInv
<1>3. PICK c \in Sent : c.id = k /\ c.deleted /\ Stored(k, Gone, c)
  BY DeleteEffect, Zenon DEF TypeInv
<1>4. /\ store'[k] = Gone /\ feed' = Append(feed, c) /\ \A i \in Ids \ {k} : store'[i] = store[i]
      /\ \A i \in DOMAIN feed' : feed'[i] = c \/ (i \in DOMAIN feed /\ feed'[i] = feed[i])
  BY <1>3, Zenon DEF Stored
<1>p. /\ pc' \in {"clear", "update"} <=> pc \in {"clear", "update"}
      /\ pc' = "select" => pc = "select"
      /\ pc' \in {"info", "put"} => pc \in {"info", "put"} /\ job' = job
      /\ pc \in {"info", "put"} => UNCHANGED <<pc, job>>
      /\ pc' = "clear" <=> pc = "clear"
      /\ pc' = "update" <=> pc = "update"
  BY Zenon
<1>5. Stage' /\ Planned' /\ TimerInv'
  BY <1>i, <1>p, Zenon DEF Stage, Progress, Planned, TimerInv
<1>6. AllNew'
  <2>1. \A i \in Ids : syncer' = "init" /\ store'[i] # Gone => store'[i].token = clock' + TokenLife
    BY <1>i, <1>4, Zenon DEF AllNew, New
  <2>2. \A i \in DOMAIN feed' : ~ feed'[i].deleted => feed'[i].data.token = clock' + TokenLife
    <3>1. c.deleted
      BY <1>3, Zenon
    <3>2. \A i \in DOMAIN feed' : ~ feed'[i].deleted => i \in DOMAIN feed /\ feed'[i] = feed[i]
      BY <1>4, <3>1, Zenon
    <3> QED
      BY <1>i, <3>2, ZenonT(60) DEF AllNew, New
  <2> QED
    BY <1>i, <1>p, <2>1, <2>2, Zenon DEF AllNew, New
<1>7. ASSUME NEW i \in Ids, store'[i] # Gone PROVE Follows(i)'
  <2>1. i # k /\ store'[i] = store[i]
    BY <1>4, <1>7, Zenon
  <2>2. Follows(i) /\ (Arrived(i) => Arrived(i)')
    BY <1>i, <1>p, <1>7, <2>1, Zenon DEF AllFollow, Arrived
  <2>3. feed' = Append(feed, c) /\ c.id # i /\ UNCHANGED <<syncer, snapshot, updateCh>>
    BY <1>3, <1>4, <2>1, Zenon
  <2> QED
    BY <2>1, <2>2, <2>3, FollowsAppended, Zenon
<1> QED
  BY <1>5, <1>6, <1>7, Zenon DEF FreshInv, AllFollow

\* time passes only while nothing waits to be handled
LEMMA FreshTick == ASSUME TypeInv, Smooth, FreshInv, Tick, UNCHANGED world PROVE FreshInv'
<1>i. Stage /\ AllNew /\ Planned /\ TimerInv /\ AllFollow
  BY Zenon DEF FreshInv
<1>1. /\ clock' = clock + 1 /\ pc = "select" /\ updateCh = <<>> /\ syncer = "stream" /\ feed = <<>>
      /\ UNCHANGED <<store, feed, syncer, snapshot, clearCh, updateCh, sessions, due, pc, now, timer, job>>
  BY Zenon DEF Tick, Smooth, Idle, feedVars, managerVars
<1>2. Stage' /\ Planned'
  BY <1>i, <1>1, Zenon DEF Stage, Progress, Planned
<1>3. TimerInv'
  <2>1. timer \in Int /\ clock \in Int
    BY LivesAssumption DEF TypeInv, ManagerTypes, Never
  <2>2. timer > clock' => timer > clock
    BY <1>1, <2>1
  <2> QED
    BY <1>i, <1>1, <2>2, Zenon DEF TimerInv
<1>4. AllNew'
  <2>1. snapshot' = {} /\ DOMAIN feed' = {} /\ DOMAIN updateCh' = {} /\ syncer' # "init" /\ pc' \notin {"info", "put"}
    BY <1>i, <1>1 DEF Stage
  <2> QED
    BY <2>1, Zenon DEF AllNew
<1>5. AllFollow'
  BY <1>i, <1>1, FollowsKept, Zenon DEF AllFollow, Arrived
<1> QED
  BY <1>2, <1>3, <1>4, <1>5, Zenon DEF FreshInv

\* SyncLatest returns the records as they are
LEMMA FreshLatest ==
  ASSUME TypeInv, Smooth, FreshInv, SyncLatest, UNCHANGED <<world, clock, sessions, due, pc, now, timer, job>>
  PROVE  FreshInv'
<1>i. Stage /\ AllNew /\ Planned /\ TimerInv /\ AllFollow
  BY Zenon DEF FreshInv
<1>1. /\ snapshot' = {Change(i, store[i], FALSE) : i \in {j \in Ids : store[j] # Gone}}
      /\ syncer = "init" /\ feed' = <<>> /\ syncer' = "clear" /\ UNCHANGED <<store, clearCh, updateCh>>
  BY Zenon DEF SyncLatest
<1>2. \A i \in Ids : store[i] # Gone => store[i] \in Held /\ New(store[i])
  BY <1>i, <1>1, Zenon DEF TypeInv, FeedTypes, AllNew
<1>3. ASSUME NEW i \in Ids, store[i] # Gone
      PROVE  \E c \in Sent : c = Change(i, store[i], FALSE) /\ c.id = i /\ c.data = store[i] /\ ~ c.deleted
  BY <1>2, <1>3, PutSent, ZenonT(60)
<1>4. Stage' /\ Planned' /\ TimerInv'
  <2>1. syncer \in {"init", "clear"} /\ syncer \notin {"load", "stream"} /\ syncer' \in {"init", "clear"}
        /\ syncer' \notin {"init", "stream"}
    BY <1>1, Zenon
  <2> QED
    BY <1>i, <1>1, <2>1, Zenon DEF Stage, Progress, Planned, TimerInv
<1>5. \A c \in snapshot' : ~ c.deleted => New(c.data)
  <2> SUFFICES ASSUME NEW c \in snapshot' PROVE New(c.data)
    BY Zenon
  <2>1. PICK i \in Ids : store[i] # Gone /\ c = Change(i, store[i], FALSE)
    BY <1>1, Zenon
  <2>2. c.data = store[i]
    BY <1>3, <2>1, Zenon
  <2> QED
    BY <1>2, <2>1, <2>2, Zenon
<1>6. AllNew'
  <2>1. DOMAIN feed' = {} /\ syncer' # "init"
    BY <1>1, EmptyFacts, Zenon
  <2> QED
    BY <1>i, <1>1, <1>5, <2>1, Zenon DEF AllNew, New
<1>7. ASSUME NEW k \in Ids, store'[k] # Gone PROVE Follows(k)'
  <2>1. store[k] # Gone /\ store'[k] = store[k]
    BY <1>1, <1>7, Zenon
  <2>2. Change(k, store[k], FALSE) \in snapshot'
    BY <1>1, <2>1, Zenon
  <2>3. ASSUME NEW c \in snapshot', c.id = k PROVE c = Change(k, store[k], FALSE)
    <3>1. PICK i \in Ids : store[i] # Gone /\ c = Change(i, store[i], FALSE)
      BY <1>1, Zenon
    <3>2. c.id = i
      BY <1>3, <3>1, Zenon
    <3> QED
      BY <2>3, <3>1, <3>2, Zenon
  <2>4. syncer' \in {"clear", "load"} /\ DOMAIN feed' = {}
    BY <1>1, EmptyFacts, Zenon
  <2> QED
    BY <2>1, <2>2, <2>3, <2>4, Zenon DEF Follows, Absent, Passed, Carries
<1> QED
  BY <1>4, <1>6, <1>7, Zenon DEF FreshInv, AllFollow

\* ClearRecords, then UpdateRecords with the snapshot
LEMMA FreshSends ==
  ASSUME TypeInv, Smooth, FreshInv, SendClear \/ SendSnapshot,
         UNCHANGED <<world, clock, sessions, due, pc, now, timer, job>>
  PROVE  FreshInv'
<1>i. Stage /\ AllNew /\ Planned /\ TimerInv /\ AllFollow
  BY Zenon DEF FreshInv
<1>1. Planned' /\ TimerInv'
  BY <1>i, Zenon DEF Planned, TimerInv
<1>2. CASE SendClear
  <2>1. /\ syncer = "clear" /\ ~ clearCh /\ clearCh' = TRUE /\ syncer' = "load"
        /\ UNCHANGED <<store, feed, snapshot, updateCh>>
    BY <1>2, Zenon DEF SendClear
  <2>2. Stage' /\ AllNew'
    BY <1>i, <2>1, Zenon DEF Stage, Progress, AllNew, New
  <2>3. ASSUME NEW k \in Ids, Passed(k) PROVE Passed(k)'
    BY <2>1, <2>3, Zenon DEF Passed, Carries
  <2>4. AllFollow'
    BY <1>i, <2>1, <2>3, Zenon DEF AllFollow, Follows, Absent
  <2> QED
    BY <1>1, <2>2, <2>4, Zenon DEF FreshInv
<1>3. CASE SendSnapshot
  <2>1. /\ updateCh = <<>> /\ updateCh' = <<snapshot>> /\ snapshot' = {} /\ syncer = "load" /\ syncer' = "stream"
        /\ UNCHANGED <<store, feed, clearCh>> /\ snapshot \in SUBSET Sent
    BY <1>3, Zenon DEF SendSnapshot, TypeInv, FeedTypes
  <2>2. DOMAIN updateCh' = {1} /\ updateCh'[1] = snapshot /\ updateCh' # <<>>
    BY <2>1, OneFacts, Zenon
  <2>3. Stage' /\ AllNew'
    BY <1>i, <2>1, <2>2, Zenon DEF Stage, Progress, AllNew, New
  <2>4. ASSUME NEW k \in Ids, Passed(k) PROVE Passed(k)'
    <3>1. Carries(snapshot, k)
      BY <2>1, <2>4, Zenon DEF Passed
    <3>2. Carries(updateCh[1], k)'
      BY <2>1, <2>2, <3>1, Zenon DEF Carries
    <3> QED
      BY <2>1, <2>2, <3>2, Zenon DEF Passed
  <2>5. AllFollow'
    BY <1>i, <2>1, <2>4, Zenon DEF AllFollow, Follows, Absent
  <2> QED
    BY <1>1, <2>3, <2>5, Zenon DEF FreshInv
<1> QED
  BY <1>2, <1>3, Zenon

\* UpdateRecords with the first change of the feed: if it is the last of its
\* record, the message carries the record
LEMMA FreshChange ==
  ASSUME TypeInv, Smooth, FreshInv, SendChange, UNCHANGED <<world, clock, sessions, due, pc, now, timer, job>>
  PROVE  FreshInv'
<1>i. Stage /\ AllNew /\ Planned /\ TimerInv /\ AllFollow
  BY Zenon DEF FreshInv
<1>1. /\ updateCh = <<>> /\ updateCh' = <<{Head(feed)}>> /\ feed' = Tail(feed) /\ feed # <<>> /\ syncer = "stream"
      /\ UNCHANGED <<store, syncer, clearCh, snapshot>> /\ feed \in Seq(Sent)
  BY Zenon DEF SendChange, TypeInv, FeedTypes
<1>2. /\ Head(feed) = feed[1] /\ 1 \in DOMAIN feed /\ Head(feed) \in Sent
      /\ Len(feed) \in Nat \ {0} /\ DOMAIN feed = 1..Len(feed) /\ DOMAIN feed' = 1..(Len(feed) - 1)
      /\ \A i \in DOMAIN feed' : feed'[i] = feed[i + 1] /\ i + 1 \in DOMAIN feed
  BY <1>1, TailFacts, Zenon
<1>3. DOMAIN updateCh' = {1} /\ updateCh'[1] = {Head(feed)} /\ updateCh' # <<>>
  <2>1. {Head(feed)} \in SUBSET Sent
    BY <1>2, Zenon
  <2> QED
    BY <1>1, <2>1, OneFacts, Zenon
<1>4. Stage' /\ AllNew' /\ Planned' /\ TimerInv'
  <2>1. Stage' /\ Planned' /\ TimerInv'
    BY <1>i, <1>1, <1>3, Zenon DEF Stage, Progress, Planned, TimerInv
  <2>2. AllNew'
    <3>1. \A i \in DOMAIN feed' : ~ feed'[i].deleted => feed'[i].data.token = clock' + TokenLife
      <4>1. \A i \in DOMAIN feed : ~ feed[i].deleted => feed[i].data.token = clock + TokenLife
        BY <1>i, Zenon DEF AllNew, New
      <4>2. \A i \in DOMAIN feed' : feed'[i] = feed[i + 1] /\ i + 1 \in DOMAIN feed
        BY <1>2, Zenon
      <4> QED
        BY <4>1, <4>2, Zenon
    <3>2. \A i \in DOMAIN updateCh' : \A c \in updateCh'[i] : ~ c.deleted => c.data.token = clock' + TokenLife
      <4>1. ~ Head(feed).deleted => Head(feed).data.token = clock + TokenLife
        BY <1>i, <1>2, Zenon DEF AllNew, New
      <4>2. \A c \in updateCh'[1] : c = Head(feed)
        BY <1>3, Zenon
      <4> QED
        BY <1>3, <4>1, <4>2, Zenon
    <3> QED
      BY <1>i, <1>1, <3>1, <3>2, Zenon DEF AllNew, New
  <2> QED
    BY <2>1, <2>2, Zenon
<1>5. ASSUME NEW k \in Ids, store'[k] # Gone PROVE Follows(k)'
  <2>1. Follows(k) /\ store'[k] = store[k]
    BY <1>i, <1>1, <1>5, Zenon DEF AllFollow
  <2>2. ASSUME NEW i \in DOMAIN feed, feed[i] = Change(k, store[k], FALSE), \A j \in DOMAIN feed : j > i => feed[j].id # k
        PROVE  Follows(k)'
    <3>1. CASE i = 1
      <4>1. \A j \in DOMAIN feed' : j + 1 > 1
        BY <1>2
      <4>2. Absent(k)'
        BY <1>2, <2>2, <3>1, <4>1, Zenon DEF Absent
      <4>3. Carries(updateCh[1], k)'
        BY <1>2, <1>3, <2>1, <2>2, <3>1, Zenon DEF Carries
      <4> QED
        BY <1>1, <1>3, <4>2, <4>3, Zenon DEF Follows, Passed
    <3>2. CASE i # 1
      <4>1. PICK n \in DOMAIN feed' : n + 1 = i
        <5>1. i - 1 \in DOMAIN feed' /\ (i - 1) + 1 = i
          BY <1>2, <3>2
        <5> QED
          BY <5>1, Zenon
      <4>2. feed'[n] = Change(k, store'[k], FALSE)
        BY <1>2, <2>1, <2>2, <4>1, Zenon
      <4>3. \A j \in DOMAIN feed' : j > n => j + 1 > i
        BY <1>2, <4>1
      <4>4. \A j \in DOMAIN feed' : j > n => feed'[j].id # k
        BY <1>2, <2>2, <4>3, Zenon
      <4> QED
        BY <4>2, <4>4, Zenon DEF Follows
    <3> QED
      BY <3>1, <3>2, Zenon
  <2>3. CASE Absent(k) /\ Passed(k)
    <3>1. Absent(k)' /\ Head(feed).id # k
      BY <1>2, <2>3, Zenon DEF Absent
    <3>2. Arrived(k)
      <4>1. DOMAIN updateCh = {} /\ syncer # "init" /\ syncer \notin {"clear", "load"}
        BY <1>1, EmptyFacts, Zenon
      <4> QED
        BY <2>3, <4>1, Zenon DEF Passed
    <3>3. Arrived(k)'
      BY <2>1, <3>2, Zenon DEF Arrived
    <3> QED
      BY <1>1, <1>3, <3>1, <3>3, Zenon DEF Follows, Passed
  <2> QED
    BY <2>1, <2>2, <2>3, Zenon DEF Follows
<1> QED
  BY <1>4, <1>5, Zenon DEF FreshInv, AllFollow

\* a session scheduled as its token is obtained is planned
LEMMA PlannedNow ==
  ASSUME TypeInv, NEW d \in Held, New(d) PROVE NextRefresh(d, clock) = NextRefresh(d, d.token - TokenLife)
<1>1. d.token - TokenLife = clock
  BY LivesAssumption DEF New, TypeInv, ManagerTypes
<1> QED
  BY <1>1, Zenon

\* the loop takes a message: a record that has arrived is held as it is stored
LEMMA FreshUpdate ==
  ASSUME TypeInv, Smooth, FreshInv, InitialUpdate \/ SelectUpdate, UNCHANGED world PROVE FreshInv'
<1>i. Stage /\ AllNew /\ Planned /\ TimerInv /\ AllFollow
  BY Zenon DEF FreshInv
<1>1. /\ TakeUpdate /\ OnUpdateRecords(Head(updateCh)) /\ UNCHANGED <<clock, job>> /\ FeedTypes
      /\ clock \in 0..MaxTime /\ sessions \in [Ids -> Held \union {Gone}] /\ due \in [Ids -> 0..Never]
  BY Zenon DEF InitialUpdate, SelectUpdate, TypeInv, ManagerTypes
<1>p. /\ pc' \in {"select", "sessions"} /\ pc \in {"update", "select"} /\ pc' \notin {"clear", "update"}
      /\ pc \notin {"info", "put"} /\ pc' \notin {"info", "put"} /\ pc # "clear" /\ (pc' = "select" => timer' = clock)
  BY Zenon DEF InitialUpdate, SelectUpdate
<1>2. /\ Head(updateCh) \in SUBSET Sent /\ DOMAIN updateCh = {1} /\ updateCh[1] = Head(updateCh)
      /\ updateCh # <<>> /\ DOMAIN updateCh' = {} /\ UNCHANGED <<store, feed, syncer, snapshot, clearCh>>
  BY <1>1, TakeFacts, Zenon DEF TakeUpdate
<1>3. PICK m \in SUBSET Sent : m = Head(updateCh)
  BY <1>2, Zenon
<1>4. Updated(m)
  BY <1>1, <1>3, UpdateFacts, Zenon
<1>5. Stage'
  <2>1. syncer = "stream" /\ ~ clearCh
    BY <1>i, <1>2, <1>p, Zenon DEF Stage, Progress
  <2> QED
    BY <1>i, <1>2, <1>p, <2>1, Zenon DEF Stage, Progress
<1>6. AllNew'
  BY <1>i, <1>1, <1>2, <1>p, Zenon DEF AllNew, New
<1>7. Planned'
  <2> SUFFICES ASSUME NEW k \in Ids, sessions'[k] # Gone, due'[k] # Never
               PROVE  due'[k] = NextRefresh(sessions'[k], sessions'[k].token - TokenLife)
    BY Zenon DEF Planned, NextRefresh
  <2>1. CASE sessions'[k] = sessions[k] /\ due'[k] = due[k]
    BY <1>i, <2>1, Zenon DEF Planned
  <2>2. ASSUME NEW c \in m, ~ c.deleted, c.data \in Held, sessions'[k] = c.data, due'[k] = NextRefresh(c.data, clock)
        PROVE  due'[k] = NextRefresh(sessions'[k], sessions'[k].token - TokenLife)
    <3>1. New(c.data)
      BY <1>i, <1>2, <1>3, <2>2, Zenon DEF AllNew
    <3>2. NextRefresh(c.data, clock) = NextRefresh(c.data, c.data.token - TokenLife)
      BY <2>2, <3>1, PlannedNow, Zenon
    <3> QED
      BY <2>2, <3>2, Zenon
  <2> QED
    BY <1>4, <2>1, <2>2, Zenon DEF Updated
<1>8. TimerInv'
  <2>1. ~ (clock > clock)
    BY <1>1
  <2> QED
    BY <1>1, <1>p, <2>1, Zenon DEF TimerInv
<1>9. ASSUME NEW k \in Ids, store'[k] # Gone PROVE Follows(k)'
  <2>1. Follows(k) /\ store'[k] = store[k] /\ store[k] # Gone
    BY <1>i, <1>2, <1>9, Zenon DEF AllFollow
  <2>2. CASE Absent(k) /\ Passed(k)
    <3>1. sessions'[k] = store[k]
      <4>1. CASE Carries(m, k)
        <5>1. PICK r \in m : r = Change(k, store[k], FALSE) /\ r.id = k /\ r.data = store[k] /\ ~ r.deleted
          <6>1. store[k] \in Held
            BY <2>1, Zenon DEF TypeInv, FeedTypes
          <6>2. PICK r \in Sent : r = Change(k, store[k], FALSE) /\ r.id = k /\ r.data = store[k] /\ ~ r.deleted
            BY <6>1, PutSent, ZenonT(60)
          <6>3. r \in m
            BY <4>1, <6>2, Zenon DEF Carries
          <6> QED
            BY <6>2, <6>3, Zenon
        <5>2. \A c \in m : c.id = k => c = r
          BY <4>1, <5>1, Zenon DEF Carries
        <5>3. \E c \in m : c.id = k /\ sessions'[k] = c.data
          BY <1>4, <5>1, Zenon DEF Updated
        <5> QED
          BY <5>1, <5>2, <5>3, Zenon
      <4>2. CASE Arrived(k) /\ \A c \in m : c.id # k
        <5>1. sessions[k] = store[k]
          BY <1>p, <4>2, Zenon DEF Arrived
        <5>2. sessions'[k] = sessions[k]
          BY <1>4, <4>2, Zenon DEF Updated
        <5> QED
          BY <5>1, <5>2, Zenon
      <4>3. syncer # "init" /\ syncer \notin {"clear", "load"}
        <5>1. syncer = "stream"
          BY <1>i, <1>2, <1>p, Zenon DEF Stage, Progress
        <5> QED
          BY <5>1, Zenon
      <4> QED
        BY <1>2, <1>3, <2>2, <4>1, <4>2, <4>3, Zenon DEF Passed
    <3>2. Arrived(k)' /\ Absent(k)'
      BY <1>2, <1>p, <2>1, <2>2, <3>1, Zenon DEF Arrived, Absent
    <3>3. syncer' = "stream"
      BY <1>i, <1>2, <1>p, Zenon DEF Stage, Progress
    <3> QED
      BY <1>2, <3>2, <3>3, Zenon DEF Follows, Passed
  <2> QED
    BY <1>2, <2>1, <2>2, Zenon DEF Follows
<1> QED
  BY <1>5, <1>6, <1>7, <1>8, <1>9, Zenon DEF FreshInv, AllFollow

\* the steps of the loop that neither take nor put a session
LEMMA FreshLoop ==
  ASSUME TypeInv, ScheduleInv, Smooth, FreshInv, UNCHANGED world,
         InitialClear \/ SelectTimer \/ IterationEnds \/ (\E k \in Ids : RefreshSession(k)) \/ ProviderUserInfo
  PROVE  FreshInv'
<1>i. Stage /\ AllNew /\ Planned /\ TimerInv /\ AllFollow
  BY Zenon DEF FreshInv
<1>t. due \in [Ids -> 0..Never] /\ sessions \in [Ids -> Held \union {Gone}] /\ now \in Int /\ Never \in Nat
  BY LivesAssumption DEF TypeInv, ManagerTypes, Never
<1>1. CASE InitialClear
  <2>1. /\ pc = "clear" /\ pc' = "update" /\ clearCh /\ clearCh' = FALSE /\ sessions' = [k \in Ids |-> Gone]
        /\ UNCHANGED <<store, feed, syncer, snapshot, updateCh, due, clock>>
    BY <1>1, Zenon DEF InitialClear, TakeClear, ClearSessions
  <2>p. pc' # "select" /\ pc' \notin {"info", "put"} /\ pc \in {"clear", "update"} /\ pc' # "clear"
    BY <2>1, Zenon
  <2>2. Stage' /\ Planned' /\ TimerInv'
    BY <1>i, <2>1, <2>p, Zenon DEF Stage, Progress, Planned, TimerInv
  <2>3. AllNew'
    BY <1>i, <2>1, <2>p, Zenon DEF AllNew, New
  <2>4. AllFollow'
    BY <1>i, <2>1, <2>p, FollowsKept, Zenon DEF AllFollow, Arrived
  <2> QED
    BY <2>2, <2>3, <2>4, Zenon DEF FreshInv
<1>2. CASE SelectTimer \/ IterationEnds
  <2>1. UNCHANGED <<store, feed, syncer, snapshot, clearCh, updateCh, due, clock, sessions, job>>
    BY <1>2, Zenon DEF SelectTimer, IterationEnds, feedVars
  <2>p. /\ pc' \notin {"info", "put"} /\ pc \notin {"info", "put"} /\ pc \notin {"clear", "update"} /\ pc' \notin {"clear", "update"}
    BY <1>2, Zenon DEF SelectTimer, IterationEnds
  <2>2. Stage' /\ Planned'
    BY <1>i, <2>1, <2>p, Zenon DEF Stage, Progress, Planned
  <2>3. AllNew'
    BY <1>i, <2>1, <2>p, Zenon DEF AllNew, New
  <2>4. AllFollow'
    BY <1>i, <2>1, <2>p, FollowsKept, Zenon DEF AllFollow, Arrived
  <2>5. TimerInv'
    <3>1. CASE SelectTimer
      BY <3>1, Zenon DEF SelectTimer, TimerInv
    <3>2. CASE IterationEnds
      <4>1. PICK k \in Ids : (\A i \in Ids : due[k] <= due[i]) /\ timer' = Smaller(now + MaxWait, due[k])
        BY <3>2, Zenon DEF IterationEnds
      <4>2. \A i \in Ids : due[i] \in Int
        BY <1>t
      <4>3. \A i \in Ids : timer' <= due[i]
        BY <1>t, <4>1, <4>2, LivesAssumption DEF Smaller
      <4> QED
        BY <2>1, <4>3, Zenon DEF TimerInv
    <3> QED
      BY <1>2, <3>1, <3>2, Zenon
  <2> QED
    BY <2>2, <2>3, <2>4, <2>5, Zenon DEF FreshInv
<1>3. ASSUME NEW k \in Ids, RefreshSession(k) PROVE FreshInv'
  <2>1. /\ due' = [due EXCEPT ![k] = Never]
        /\ UNCHANGED <<store, feed, syncer, snapshot, clearCh, updateCh, clock, sessions>>
    BY <1>3, Zenon DEF RefreshSession, feedVars
  <2>p. /\ pc' \notin {"info", "put"} /\ pc \notin {"info", "put"} /\ pc \notin {"clear", "update"} /\ pc' \notin {"clear", "update"}
        /\ pc' # "select"
    BY <1>3, Zenon DEF RefreshSession
  <2>2. Stage' /\ TimerInv'
    BY <1>i, <2>1, <2>p, Zenon DEF Stage, Progress, TimerInv
  <2>3. Planned'
    <3>1. \A i \in Ids : due'[i] = Never \/ due'[i] = due[i]
      BY <1>t, <2>1, Zenon
    <3> QED
      BY <1>i, <2>1, <3>1, Zenon DEF Planned
  <2>4. AllNew'
    BY <1>i, <2>1, <2>p, Zenon DEF AllNew, New
  <2>5. AllFollow'
    BY <1>i, <2>1, <2>p, FollowsKept, Zenon DEF AllFollow, Arrived
  <2> QED
    BY <2>2, <2>3, <2>4, <2>5, Zenon DEF FreshInv
<1>4. CASE ProviderUserInfo
  <2>1. /\ pc = "info" /\ pc' = "put"
        /\ UNCHANGED <<store, feed, syncer, snapshot, clearCh, updateCh, due, clock, sessions, job>>
    BY <1>4, Zenon DEF ProviderUserInfo, feedVars, Smooth
  <2>p. /\ pc \in {"info", "put"} /\ pc' \in {"info", "put"} /\ pc \notin {"clear", "update"} /\ pc' \notin {"clear", "update"}
        /\ pc' # "select"
    BY <2>1, Zenon
  <2>2. Stage' /\ Planned' /\ TimerInv'
    BY <1>i, <2>1, <2>p, Zenon DEF Stage, Progress, Planned, TimerInv
  <2>3. AllNew'
    BY <1>i, <2>1, <2>p, Zenon DEF AllNew, New
  <2>4. AllFollow'
    BY <1>i, <2>1, <2>p, FollowsKept, Zenon DEF AllFollow, Arrived
  <2> QED
    BY <2>2, <2>3, <2>4, Zenon DEF FreshInv
<1> QED
  BY <1>1, <1>2, <1>3, <1>4, Zenon

\* the provider's answer is stored in the session held, before it is put
LEMMA FreshProvider ==
  ASSUME TypeInv, ScheduleInv, Smooth, FreshInv, UNCHANGED world, ProviderRefresh PROVE FreshInv'
<1>i. Stage /\ AllNew /\ Planned /\ TimerInv /\ AllFollow
  BY Zenon DEF FreshInv
<1>1. /\ pc = "refresh" /\ pc' = "info" /\ job' = [id |-> job.id, data |-> Refreshed]
      /\ sessions' = [sessions EXCEPT ![job.id] = Refreshed]
      /\ UNCHANGED <<store, feed, syncer, snapshot, clearCh, updateCh, due, clock>>
  BY Zenon DEF ProviderRefresh, feedVars, Smooth
<1>p. /\ pc \notin {"info", "put"} /\ pc' \in {"info", "put"} /\ pc \notin {"clear", "update"} /\ pc' \notin {"clear", "update"}
      /\ pc' # "select" /\ pc \in Busy
  BY <1>1, Zenon DEF Busy
<1>2. job'.id = job.id /\ job'.data.token = clock' + TokenLife
  BY <1>1, Zenon DEF Refreshed, Data
<1>3. due[job.id] = Never /\ job.id \in Ids /\ sessions \in [Ids -> Held \union {Gone}]
  BY <1>p, JobFacts, Zenon DEF ScheduleInv, TypeInv, ManagerTypes
<1>4. \A k \in Ids : k # job.id => sessions'[k] = sessions[k]
  BY <1>1, <1>3, Zenon
<1>5. Stage' /\ TimerInv'
  BY <1>i, <1>1, <1>p, Zenon DEF Stage, Progress, TimerInv
<1>6. Planned'
  BY <1>i, <1>1, <1>3, <1>4, Zenon DEF Planned
<1>7. AllNew'
  BY <1>i, <1>1, <1>2, Zenon DEF AllNew, New
<1>8. AllFollow'
  <2>1. ASSUME NEW k \in Ids, Arrived(k) PROVE Arrived(k)'
    BY <1>1, <1>2, <1>4, <1>p, <2>1, Zenon DEF Arrived
  <2> QED
    BY <1>i, <1>1, <2>1, FollowsKept, Zenon DEF AllFollow
<1> QED
  BY <1>5, <1>6, <1>7, <1>8, Zenon DEF FreshInv

\* the refreshed session is put and scheduled
LEMMA FreshPut ==
  ASSUME TypeInv, ScheduleInv, Smooth, FreshInv, UNCHANGED world, PutSession PROVE FreshInv'
<1>i. Stage /\ AllNew /\ Planned /\ TimerInv /\ AllFollow
  BY Zenon DEF FreshInv
<1>1. /\ pc = "put" /\ pc' = "sessions" /\ PutRecord(job.id, job.data) /\ OnUpdateRecords({Change(job.id, job.data, FALSE)})
      /\ UNCHANGED <<syncer, snapshot, clearCh, updateCh, clock>> /\ FeedTypes
  BY Zenon DEF PutSession, Smooth, TypeInv
<1>p. /\ pc' \notin {"info", "put"} /\ pc \notin {"clear", "update"} /\ pc' \notin {"clear", "update"}
      /\ pc' # "select" /\ pc \in Busy
  BY <1>1, Zenon DEF Busy
<1>2. PICK s \in Ids, d \in Held : s = job.id /\ d = job.data
  BY <1>p, JobFacts, Zenon
<1>3. New(d)
  BY <1>i, <1>1, <1>2, Zenon DEF AllNew
<1>4. PICK c \in Sent : c = Change(s, d, FALSE) /\ c.id = s /\ c.data = d /\ Stored(s, d, c)
  <2>1. PutRecord(s, d)
    BY <1>1, <1>2, Zenon
  <2> QED
    BY <1>1, <2>1, PutEffect, Zenon
<1>6. /\ store'[s] = d /\ feed' = Append(feed, c) /\ \A i \in Ids \ {s} : store'[i] = store[i]
      /\ \A i \in DOMAIN feed' : feed'[i] = c \/ (i \in DOMAIN feed /\ feed'[i] = feed[i])
  BY <1>4, Zenon DEF Stored
<1>7. /\ sessions'[s] = d /\ due'[s] = NextRefresh(d, clock)
      /\ \A k \in Ids : k # s => sessions'[k] = sessions[k] /\ due'[k] = due[k]
  BY <1>1, <1>2, PutApplied, Zenon
<1>8. Stage' /\ TimerInv'
  BY <1>i, <1>1, <1>p, Zenon DEF Stage, Progress, TimerInv
<1>9. Planned'
  <2>1. NextRefresh(d, clock) = NextRefresh(d, d.token - TokenLife)
    BY <1>3, PlannedNow, Zenon
  <2> QED
    BY <1>i, <1>7, <2>1, Zenon DEF Planned
<1>10. AllNew'
  <2>3. c.data.token = clock' + TokenLife
    BY <1>1, <1>3, <1>4, Zenon DEF New
  <2>4. \A i \in DOMAIN feed : ~ feed[i].deleted => feed[i].data.token = clock' + TokenLife
    BY <1>i, <1>1, Zenon DEF AllNew, New
  <2>1. \A i \in DOMAIN feed' : ~ feed'[i].deleted => feed'[i].data.token = clock' + TokenLife
    BY <1>6, <2>3, <2>4, Zenon
  <2>2. \A i \in Ids : syncer' = "init" /\ store'[i] # Gone => store'[i].token = clock' + TokenLife
    BY <1>i, <1>1, <1>3, <1>6, Zenon DEF AllNew, New
  <2> QED
    BY <1>i, <1>1, <1>p, <2>1, <2>2, Zenon DEF AllNew, New
<1>11. ASSUME NEW k \in Ids, store'[k] # Gone PROVE Follows(k)'
  <2>1. CASE k = s
    BY <1>4, <1>6, <2>1, FollowsLast, Zenon
  <2>2. CASE k # s
    <3>1. store'[k] = store[k] /\ Follows(k)
      BY <1>i, <1>6, <1>11, <2>2, Zenon DEF AllFollow
    <3>2. Arrived(k) => Arrived(k)'
      BY <1>2, <1>7, <1>p, <2>2, <3>1, Zenon DEF Arrived
    <3>3. feed' = Append(feed, c) /\ c.id # k /\ UNCHANGED <<syncer, snapshot, updateCh>>
      BY <1>1, <1>4, <1>6, <2>2, Zenon
    <3> QED
      BY <3>1, <3>2, <3>3, FollowsAppended, Zenon
  <2> QED
    BY <2>1, <2>2, Zenon
<1> QED
  BY <1>8, <1>9, <1>10, <1>11, Zenon DEF FreshInv, AllFollow

LEMMA FreshStep == TypeInv /\ ScheduleInv /\ FreshInv /\ [Next]_vars => FreshInv'
<1> SUFFICES ASSUME TypeInv, ScheduleInv, FreshInv, [Next]_vars, Smooth' PROVE FreshInv'
  BY Zenon DEF FreshInv
<1>w. UNCHANGED world
  BY Zenon DEF Next, vars
<1>s. Smooth
  BY <1>w, Zenon DEF Smooth
<1>1. CASE UNCHANGED vars
  <2>i. Stage /\ AllNew /\ Planned /\ TimerInv /\ AllFollow
    BY <1>s, Zenon DEF FreshInv
  <2>1. UNCHANGED <<store, feed, syncer, snapshot, clearCh, updateCh, clock, sessions, due, pc, now, timer, job>>
    BY <1>1, Zenon DEF vars, feedVars, managerVars
  <2>2. Stage' /\ Planned' /\ TimerInv'
    BY <2>i, <2>1, Zenon DEF Stage, Progress, Planned, TimerInv
  <2>3. AllNew'
    BY <2>i, <2>1, Zenon DEF AllNew, New
  <2>4. AllFollow'
    BY <2>i, <2>1, FollowsKept, Zenon DEF AllFollow, Arrived
  <2> QED
    BY <2>2, <2>3, <2>4, Zenon DEF FreshInv
<1>2. CASE \E k \in Ids : SignIn(k)
  BY <1>2, <1>w, <1>s, FreshSignIn, Zenon
<1>3. ASSUME NEW k \in Ids, SignOut(k) PROVE FreshInv'
  <2>1. DeleteRecord(k, Gone) /\ UNCHANGED <<world, syncer, snapshot, clearCh, updateCh, clock, sessions, due, timer>> /\ UNCHANGED <<pc, job>>
    BY <1>3, <1>w, Zenon DEF SignOut, managerVars
  <2> QED
    BY <1>s, <2>1, FreshDeleted, Zenon
<1>4. CASE DeleteSession
  <2>1. /\ DeleteRecord(job.id, Gone) /\ UNCHANGED <<world, syncer, snapshot, clearCh, updateCh, clock, sessions, due, timer>>
        /\ pc = "delete" /\ pc' = "sessions"
    BY <1>4, <1>w, <1>s, Zenon DEF DeleteSession, Smooth
  <2>2. PICK s \in Ids : s = job.id
    BY <2>1, JobFacts, Zenon DEF Busy
  <2>3. DeleteRecord(s, Gone)
    BY <2>1, <2>2, Zenon
  <2> QED
    BY <1>s, <2>1, <2>3, FreshDeleted, Zenon
<1>5. CASE Tick
  BY <1>5, <1>w, <1>s, FreshTick, Zenon
<1>6. CASE FeedStep
  <2>1. SyncerStep /\ UNCHANGED <<world, clock, sessions, due, pc, now, timer, job>>
    BY <1>6, <1>w, Zenon DEF FeedStep, managerVars
  <2> QED
    BY <1>s, <2>1, FreshLatest, FreshSends, FreshChange, Zenon DEF SyncerStep
<1>7. ~ FeedRestart
  BY <1>s, Zenon DEF FeedRestart, Smooth
<1>8. ~ SelectClear
  <2>1. Stage
    BY <1>s, Zenon DEF FreshInv
  <2> QED
    BY <2>1, Zenon DEF Stage, Progress, SelectClear, TakeClear
<1>9. CASE InitialUpdate \/ SelectUpdate
  BY <1>9, <1>w, <1>s, FreshUpdate, Zenon
<1>10. CASE InitialClear \/ SelectTimer \/ IterationEnds \/ (\E k \in Ids : RefreshSession(k)) \/ ProviderUserInfo
  BY <1>10, <1>w, <1>s, FreshLoop, Zenon
<1>11. CASE ProviderRefresh
  BY <1>11, <1>w, <1>s, FreshProvider, Zenon
<1>12. CASE PutSession
  BY <1>12, <1>w, <1>s, FreshPut, Zenon
<1> QED
  BY <1>1, <1>2, <1>3, <1>4, <1>5, <1>6, <1>7, <1>8, <1>9, <1>10, <1>11, <1>12, Zenon DEF Next, ManagerStep

LEMMA InitFresh == Init => FreshInv
  BY DEF Init, FeedInit, FreshInv, Stage, Progress, AllNew, Planned, TimerInv, AllFollow

\* While the manager rests in a world where nothing fails or takes long, the
\* token of every live session of the broker lasts for the grace period yet,
\* less the cool-off (data.go, NextRefresh), if a new token lasts that long.
THEOREM FreshTokens == ASSUME Grace <= TokenLife PROVE Spec => []TokensFresh
<1>1. Spec => []FreshInv
  BY InitFresh, FreshStep, TypesHold, ScheduleHolds, PTL DEF Spec
<1>2. ASSUME TypeInv, ScheduleInv, FreshInv PROVE TokensFresh
  <2> SUFFICES ASSUME Smooth, Idle, NEW k \in Ids, store[k] # Gone, store[k].expires > clock
               PROVE  store[k].token > clock + Grace - CoolOff
    BY Zenon DEF TokensFresh
  <2>1. Planned /\ TimerInv /\ Follows(k)
    BY <1>2, Zenon DEF FreshInv, AllFollow
  <2>2. pc = "select" /\ timer > clock /\ DOMAIN feed = {} /\ DOMAIN updateCh = {} /\ syncer = "stream"
    BY DEF Idle
  <2>3. pc \notin Busy /\ pc \notin {"info", "put"} /\ syncer # "init" /\ syncer \notin {"clear", "load"}
    BY <2>2, Zenon DEF Busy
  <2>4. sessions[k] = store[k]
    BY <2>1, <2>2, <2>3, Zenon DEF Follows, Passed, Arrived
  <2>5. due[k] # Never
    BY <1>2, <2>3, <2>4, Zenon DEF ScheduleInv, Smooth
  <2>6. due[k] = NextRefresh(store[k], store[k].token - TokenLife)
    BY <2>1, <2>4, <2>5, Zenon DEF Planned
  <2>7. timer <= due[k]
    BY <2>1, <2>2, Zenon DEF TimerInv
  <2>8. due[k] \in Int /\ timer \in Int /\ clock \in Int /\ store[k] \in Held
    BY <1>2, LivesAssumption DEF TypeInv, ManagerTypes, FeedTypes, Never
  <2>9. PICK t \in Nat, e \in Nat : t = store[k].token /\ e = store[k].expires
    BY <2>8, LivesAssumption DEF Held
  <2>10. due[k] > clock
    BY <2>2, <2>7, <2>8
  <2> QED
    BY <2>6, <2>8, <2>9, <2>10, LivesAssumption DEF NextRefresh, Larger, Smaller
<1> QED
  BY <1>1, <1>2, TypesHold, ScheduleHolds, PTL
=============================================================================
