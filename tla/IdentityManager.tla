-------------------------- MODULE IdentityManager --------------------------
(***************************************************************************)
(* The sessions of the identity manager (internal/identity/manager), with  *)
(* the scheduler (internal/scheduler) that orders their refreshes.         *)
(*                                                                         *)
(* Time is a bounded clock.  A session is its two expiry times: its own    *)
(* and its OAuth token's.  The scheduler maps a session to the time it is  *)
(* due.  One iteration of refreshLoop is a select followed by the refresh  *)
(* of the sessions that are due, each a call to the identity provider and  *)
(* a call to the broker, while sign-ins, sign-outs and the clock go on.    *)
(***************************************************************************)
EXTENDS SyncerFeed

CONSTANTS
  Grace,       \* sessionRefreshGracePeriod
  CoolOff,     \* sessionRefreshCoolOffDuration
  TokenLife,   \* life of an OAuth token
  SessionLife, \* life of a session
  MaxWait,     \* maxWait of refreshLoop
  Worlds,      \* what may go wrong, see World; one is chosen for a behaviour
  MaxTime      \* bound on the clock

ASSUME LivesAssumption ==
  /\ Grace \in Nat /\ CoolOff \in Nat /\ MaxWait \in Nat \ {0}
  /\ TokenLife \in Nat \ {0} /\ SessionLife \in Nat \ {0} /\ MaxTime \in Nat

\* who signs in, the ways calls of the provider and the broker may fail, whether
\* the syncer may start over, and whether the clock waits for the manager
World == [users : SUBSET Ids, failures : SUBSET {"temporary", "permanent", "rpc", "lost"},
          resync : BOOLEAN, prompt : BOOLEAN]

ASSUME WorldsAssumption == Worlds \subseteq World

VARIABLES
  world,    \* one of Worlds
  clock,    \* time.Now()
  sessions, \* mgr.sessions, Gone where there is none
  due,      \* mgr.sessionScheduler: when each session is due, Never if it is not
  pc,       \* where refreshLoop is
  now,      \* now of the iteration
  timer,    \* when the timer fires
  job,      \* the session being refreshed: its id and data
  created,  \* history: the sessions ever signed in
  deleted,  \* history: the sessions ever deleted from the broker
  attempt   \* history: when the provider was last asked about each session

managerVars == <<sessions, due, pc, now, timer, job>>
vars == <<world, feedVars, clock, managerVars, created, deleted, attempt>>

Never == MaxTime + Grace + CoolOff + TokenLife + SessionLife + MaxWait
Data(e, t) == [expires |-> e, token |-> t]
NoJob == [id |-> "none", data |-> Gone]
Smaller(a, b) == IF a < b THEN a ELSE b
Larger(a, b) == IF a < b THEN b ELSE a

\* mutants: the cool-off is not applied; the grace period is not
NextRefreshEager(d, last) == Smaller(d.token - Grace, d.expires)
NextRefreshLate(d, last) == Larger(Smaller(d.token, d.expires), last + CoolOff)

\* Session.NextRefresh: before the token or the session expires, though not
\* before the cool-off has passed
NextRefresh(d, last) == Larger(Smaller(d.token - Grace, d.expires), last + CoolOff)

Init ==
  /\ FeedInit
  /\ world \in Worlds
  /\ clock = 0
  /\ sessions = [k \in Ids |-> Gone]
  /\ due = [k \in Ids |-> Never]
  /\ pc = "clear"
  /\ now = 0
  /\ timer = 0
  /\ job = NoJob
  /\ created = {}
  /\ deleted = {}
  /\ attempt = [k \in Ids |-> -CoolOff]

---------------------------------------------------------------------------
(* The services that share the broker *)

\* authenticate stores a session under a new id
SignIn(k) ==
  /\ k \in world.users \ created
  /\ created' = created \union {k}
  /\ PutRecord(k, Data(clock + SessionLife, clock + TokenLife))
  /\ UNCHANGED <<syncer, snapshot, clearCh, updateCh, resyncs, clock, managerVars, deleted, attempt>>

\* session.Delete puts a deleted record with the data of an empty session
SignOut(k) ==
  /\ store[k] # Gone
  /\ DeleteRecord(k, Gone)
  /\ deleted' = deleted \union {k}
  /\ UNCHANGED <<syncer, snapshot, clearCh, updateCh, resyncs, clock, managerVars, created, attempt>>

Idle ==
  /\ pc = "select" /\ timer > clock
  /\ ~ clearCh /\ updateCh = <<>> /\ syncer = "stream" /\ feed = <<>>

Tick ==
  /\ clock < MaxTime
  /\ world.prompt => Idle
  /\ clock' = clock + 1
  /\ UNCHANGED <<feedVars, managerVars, created, deleted, attempt>>

---------------------------------------------------------------------------
(* refreshLoop *)

\* a clear drops the sessions and keeps the scheduler
ClearSessions == sessions' = [k \in Ids |-> Gone] /\ UNCHANGED due

\* mutants: an update does not schedule; only sessions already held are updated
OnUpdateRecordsUnscheduled(msg) ==
  LET put(k) == {c \in msg : c.id = k /\ ~ c.deleted}
      data(k) == (CHOOSE c \in put(k) : TRUE).data IN
  /\ sessions' = [k \in Ids |-> IF put(k) # {} THEN data(k) ELSE sessions[k]]
  /\ due' = [k \in Ids |-> IF put(k) # {} THEN Never ELSE due[k]]

OnUpdateRecordsHeld(msg) ==
  LET put(k) == {c \in msg : c.id = k /\ ~ c.deleted /\ sessions[k] # Gone}
      data(k) == (CHOOSE c \in put(k) : TRUE).data IN
  /\ sessions' = [k \in Ids |-> IF put(k) # {} THEN data(k) ELSE sessions[k]]
  /\ due' = [k \in Ids |-> IF put(k) # {} THEN NextRefresh(data(k), clock) ELSE due[k]]

\* onUpdateRecords and onUpdateSession: the session is removed from the
\* scheduler and, unless the record is deleted, stored and scheduled again.  A
\* deleted record names its session by the empty data it carries, so no session
\* is removed.
OnUpdateRecords(msg) ==
  LET put(k) == {c \in msg : c.id = k /\ ~ c.deleted}
      data(k) == (CHOOSE c \in put(k) : TRUE).data IN
  /\ sessions' = [k \in Ids |-> IF put(k) # {} THEN data(k) ELSE sessions[k]]
  /\ due' = [k \in Ids |-> IF put(k) # {} THEN NextRefresh(data(k), clock) ELSE due[k]]

\* the initial sync: first a clear ...
InitialClear ==
  /\ pc = "clear"
  /\ TakeClear
  /\ ClearSessions
  /\ pc' = "update"
  /\ UNCHANGED <<clock, now, timer, job, created, deleted, attempt>>

\* ... then the records; the directory's first refresh is due at once
InitialUpdate ==
  /\ pc = "update"
  /\ TakeUpdate
  /\ OnUpdateRecords(Head(updateCh))
  /\ pc' = "select"
  /\ timer' = clock
  /\ UNCHANGED <<clock, now, job, created, deleted, attempt>>

\* an iteration starts with whichever of the channels is chosen
SelectClear ==
  /\ pc = "select"
  /\ TakeClear
  /\ ClearSessions
  /\ pc' = "sessions"
  /\ now' = clock
  /\ UNCHANGED <<clock, timer, job, created, deleted, attempt>>

SelectUpdate ==
  /\ pc = "select"
  /\ TakeUpdate
  /\ OnUpdateRecords(Head(updateCh))
  /\ pc' = "sessions"
  /\ now' = clock
  /\ UNCHANGED <<clock, timer, job, created, deleted, attempt>>

SelectTimer ==
  /\ pc = "select"
  /\ timer <= clock
  /\ pc' = "sessions"
  /\ now' = clock
  /\ UNCHANGED <<feedVars, clock, sessions, due, timer, job, created, deleted, attempt>>

\* Scheduler.Next: the first session
First(k) == \A i \in Ids : due[k] <= due[i]

\* mutant: the timer ignores the scheduler
IterationEndsAsleep ==
  /\ pc = "sessions"
  /\ \A k \in Ids : now < due[k]
  /\ timer' = now + MaxWait
  /\ pc' = "select"
  /\ UNCHANGED <<feedVars, clock, sessions, due, now, job, created, deleted, attempt>>

\* no session is due any more: the timer is set for the next one
IterationEnds ==
  /\ pc = "sessions"
  /\ \A k \in Ids : now < due[k]
  /\ \E next \in {due[k] : k \in Ids} :
       /\ \A k \in Ids : next <= due[k]
       /\ timer' = Smaller(now + MaxWait, next)
  /\ pc' = "select"
  /\ UNCHANGED <<feedVars, clock, sessions, due, now, job, created, deleted, attempt>>

\* the next session is removed from the scheduler and refreshed: it is looked
\* up, deleted if it has expired, else the provider is asked
RefreshSession(k) ==
  /\ pc = "sessions"
  /\ First(k)
  /\ due[k] <= now
  /\ due' = [due EXCEPT ![k] = Never]
  /\ \/ /\ sessions[k] = Gone
        /\ UNCHANGED <<pc, job, attempt>>
     \/ /\ sessions[k] # Gone
        /\ job' = [id |-> k, data |-> sessions[k]]
        /\ \/ /\ sessions[k].expires <= clock
              /\ pc' = "delete"
              /\ UNCHANGED attempt
           \/ /\ sessions[k].expires > clock
              /\ pc' = "refresh"
              /\ attempt' = [attempt EXCEPT ![k] = clock]
  /\ UNCHANGED <<feedVars, clock, sessions, now, timer, created, deleted>>

Refreshed == Data(job.data.expires, clock + TokenLife)

\* Refresh answers, or fails for a while, or for good
ProviderRefresh ==
  /\ pc = "refresh"
  /\ \/ /\ pc' = "info"
        /\ job' = [id |-> job.id, data |-> Refreshed]
        \* the new token is stored in the session the collection points to
        /\ sessions' = [sessions EXCEPT ![job.id] = Refreshed]
     \/ /\ "temporary" \in world.failures
        /\ pc' = "sessions"
        /\ job' = NoJob
        /\ UNCHANGED sessions
     \/ /\ "permanent" \in world.failures
        /\ pc' = "delete"
        /\ UNCHANGED <<sessions, job>>
  /\ UNCHANGED <<feedVars, clock, due, now, timer, created, deleted, attempt>>

\* and so does UpdateUserInfo
ProviderUserInfo ==
  /\ pc = "info"
  /\ \/ pc' = "put" /\ UNCHANGED job
     \/ "temporary" \in world.failures /\ pc' = "sessions" /\ job' = NoJob
     \/ "permanent" \in world.failures /\ pc' = "delete" /\ UNCHANGED job
  /\ UNCHANGED <<feedVars, clock, sessions, due, now, timer, created, deleted, attempt>>

\* the refreshed session is put and, if the call succeeds, scheduled
PutSession ==
  /\ pc = "put"
  /\ pc' = "sessions"
  /\ job' = NoJob
  /\ \/ /\ PutRecord(job.id, job.data)
        /\ OnUpdateRecords({Change(job.id, job.data, FALSE)})
     \/ /\ "lost" \in world.failures    \* the answer does not arrive
        /\ PutRecord(job.id, job.data)
        /\ UNCHANGED <<sessions, due>>
     \/ /\ "rpc" \in world.failures
        /\ UNCHANGED <<store, feed, sessions, due>>
  /\ UNCHANGED <<syncer, snapshot, clearCh, updateCh, resyncs, clock, now, timer, created, deleted, attempt>>

\* the session is deleted from the broker, and stays in the collection
DeleteSession ==
  /\ pc = "delete"
  /\ pc' = "sessions"
  /\ job' = NoJob
  /\ \/ /\ DeleteRecord(job.id, Gone)
        /\ deleted' = deleted \union {job.id}
     \/ /\ "rpc" \in world.failures
        /\ UNCHANGED <<store, feed, deleted>>
  /\ UNCHANGED <<syncer, snapshot, clearCh, updateCh, resyncs, clock, sessions, due, now, timer, created, attempt>>

---------------------------------------------------------------------------
ManagerStep ==
  \/ InitialClear \/ InitialUpdate
  \/ SelectClear \/ SelectUpdate \/ SelectTimer
  \/ \E k \in Ids : RefreshSession(k)
  \/ ProviderRefresh \/ ProviderUserInfo \/ PutSession \/ DeleteSession
  \/ IterationEnds

FeedStep == SyncerStep /\ UNCHANGED <<clock, managerVars, created, deleted, attempt>>
FeedRestart == world.resync /\ StartOver /\ UNCHANGED <<clock, managerVars, created, deleted, attempt>>

Next ==
  /\ \/ \E k \in Ids : SignIn(k) \/ SignOut(k)
     \/ Tick
     \/ FeedStep \/ FeedRestart
     \/ ManagerStep
  /\ UNCHANGED world

Spec == Init /\ [][Next]_vars

\* The loop, the syncer and time keep going; nobody has to sign in or out, and
\* a start over need not happen.
Fairness ==
  /\ WF_vars(ManagerStep /\ UNCHANGED world)
  /\ WF_vars(FeedStep /\ UNCHANGED world)
  /\ WF_vars(Tick /\ UNCHANGED world)

FairSpec == Spec /\ Fairness

---------------------------------------------------------------------------
(* Properties *)

Session == [expires : Nat, token : Nat]
Message == SUBSET [id : Ids, data : Session \union {Gone}, deleted : BOOLEAN]

\* the types of the variables
TypeOK ==
  /\ world \in World
  /\ store \in [Ids -> Session \union {Gone}]
  /\ \A i \in DOMAIN feed : {feed[i]} \in Message
  /\ syncer \in {"init", "clear", "load", "stream"}
  /\ snapshot \in Message
  /\ clearCh \in BOOLEAN
  /\ Len(updateCh) <= 1 /\ \A i \in DOMAIN updateCh : updateCh[i] \in Message
  /\ clock \in 0..MaxTime
  /\ sessions \in [Ids -> Session \union {Gone}]
  /\ due \in [Ids -> 0..Never]
  /\ pc \in {"clear", "update", "select", "sessions", "refresh", "info", "put", "delete"}
  /\ now \in 0..MaxTime
  /\ timer \in 0..Never
  /\ job = NoJob \/ (job.id \in Ids /\ job.data \in Session)
  /\ created \subseteq Ids /\ deleted \subseteq created

\* Two refreshes of one session are at least the cool-off apart, through the
\* echo of the manager's own Put, a start over of the syncer and failed calls:
\* "coolOffDuration is the amount of time to wait before attempting another
\* refresh" (data.go:59).
AttemptsSpaced ==
  [][\A k \in Ids :
       pc = "sessions" /\ pc' = "refresh" /\ job'.id = k => clock >= attempt[k] + CoolOff]_vars

\* nothing fails, and nothing takes long
Smooth == world.failures = {} /\ ~ world.resync /\ world.prompt

\* While the loop waits, every session it holds that has not expired is
\* scheduled, so another attempt follows (data.go, NextRefresh; manager.go,
\* refreshSession and onUpdateSession), if no call fails.
StaysScheduled ==
  world.failures = {} /\ pc = "select" =>
    \A k \in Ids : sessions[k] # Gone /\ sessions[k].expires > clock => due[k] # Never

\* While the manager rests, the token of a live session in the broker lasts for
\* the grace period yet, less what the cool-off may hold up its refresh:
\* "gracePeriod is the amount of time before expiration to attempt a refresh"
\* (data.go:57).
TokensFresh ==
  Smooth /\ Idle =>
    \A k \in Ids : store[k] # Gone /\ store[k].expires > clock =>
      store[k].token > clock + Grace - CoolOff

\* "Delete deletes a session from the databroker" (session.go:17): it does not
\* come back.
DeletedStaysDeleted == [][\A k \in deleted : store'[k] = Gone]_vars

\* Every session is deleted from the broker once it has expired (manager.go,
\* refreshSession); the last ones may expire beyond the clock's bound.
ExpiredDeleted ==
  Smooth => \A k \in Ids : <>[](store[k] = Gone \/ store[k].expires + CoolOff > MaxTime)

\* The manager ends up holding every session of the broker: a Syncer retrieves
\* "the latest version of the data", then begins syncing (syncer.go:46).
ManagerHolds == Smooth => <>[](\A k \in Ids : store[k] # Gone => sessions[k] # Gone)
===========================================================================
