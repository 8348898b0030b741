------------------------------ MODULE Registry ------------------------------
(***************************************************************************)
(* The service registry: every instance reports its services, the registry *)
(* keeps each of them for a time to live after the last report, and        *)
(* watchers are sent the list when it changes.                             *)
(*                                                                         *)
(* Time passes in ticks; timers fire late by at most Slack.  Leases and    *)
(* timers are counted down, so no behaviour has to be cut off.             *)
(***************************************************************************)
EXTENDS Integers, FiniteSets

CONSTANTS
    Endpoints,    \* services, one reporter each
    Watchers,     \* clients of Watch
    TTL,          \* s.ttl, in ticks
    Slack,        \* how late a timer may fire
    MaxFails      \* bound on consecutive failed reports

callAfterTTLFactor == 2

VARIABLES
    lease,        \* endpoint -> ticks until it expires, or "gone"
    reporter,     \* endpoint -> its reporter: running, wait, fails, and
                  \*   whether it has reported since it was started
    purge,        \* ticks until periodicCheck runs
    watcher       \* watcher -> [bound, pending, sent, view]

vars == <<lease, reporter, purge, watcher>>

Gone == -10
Listed == {e \in Endpoints : lease[e] # Gone}
Expired(l) == l # Gone /\ l < 0

\* Signal.Broadcast: one event is buffered in every bound channel.
Broadcast == watcher' = [w \in Watchers |-> [watcher[w] EXCEPT !.pending = @ \/ watcher[w].bound]]

rmExpiredLocked(leases) == [e \in Endpoints |-> IF Expired(leases[e]) THEN Gone ELSE leases[e]]

reportLocked(e) == [lease EXCEPT ![e] = TTL]

Tick ==
    /\ purge > -Slack
    /\ \A e \in Endpoints : reporter[e].running => reporter[e].wait > -Slack
    /\ purge' = purge - 1
    /\ lease' = [e \in Endpoints |-> IF lease[e] \in {Gone, -1} THEN lease[e] ELSE lease[e] - 1]
    /\ reporter' = [e \in Endpoints |->
                      IF reporter[e].running THEN [reporter[e] EXCEPT !.wait = @ - 1] ELSE reporter[e]]
    /\ UNCHANGED watcher

\* Mutant: what periodicCheck removes is not announced.
periodicCheckSilent ==
    /\ purge <= 0
    /\ purge' = TTL
    /\ lease' = rmExpiredLocked(lease)
    /\ UNCHANGED <<reporter, watcher>>

periodicCheck ==
    /\ purge <= 0
    /\ purge' = TTL
    /\ lease' = rmExpiredLocked(lease)
    /\ IF lease' # lease THEN Broadcast ELSE UNCHANGED watcher
    /\ UNCHANGED reporter

\* Mutant: the next report is due when the lease ends.
ReportAtTTL(e) ==
    LET reported == reportLocked(e)
    IN  /\ reporter[e].running /\ reporter[e].wait <= 0
        /\ lease' = rmExpiredLocked(reported)
        /\ IF lease[e] = Gone \/ lease' # reported THEN Broadcast ELSE UNCHANGED watcher
        /\ reporter' = [reporter EXCEPT ![e] = [running |-> TRUE, wait |-> TTL,
                                                fails |-> 0, reported |-> TRUE]]
        /\ UNCHANGED purge

\* Report: the lease is renewed, expired ones are removed, and the list is
\* announced if either changed it (after the lock is released: the list a
\* watcher reads in between is the new one).  The answer says when to report
\* again.
Report(e) ==
    LET reported == reportLocked(e)
    IN  /\ reporter[e].running /\ reporter[e].wait <= 0
        /\ lease' = rmExpiredLocked(reported)
        /\ IF lease[e] = Gone \/ lease' # reported THEN Broadcast ELSE UNCHANGED watcher
        /\ reporter' = [reporter EXCEPT ![e] = [running |-> TRUE, wait |-> TTL \div callAfterTTLFactor,
                                                fails |-> 0, reported |-> TRUE]]
        /\ UNCHANGED purge

\* A report that fails is repeated after a backoff.
reportFails(e) ==
    /\ reporter[e].running /\ reporter[e].wait <= 0
    /\ reporter[e].fails < MaxFails
    /\ \E after \in 0 .. 1 :
          reporter' = [reporter EXCEPT ![e].fails = @ + 1, ![e].wait = after]
    /\ UNCHANGED <<lease, purge, watcher>>

\* Reporter.OnConfigChange: the running reporter is cancelled, and another one
\* started at once if there is an address to report.
OnConfigChange(e) ==
    /\ \E running \in BOOLEAN :
          reporter' = [reporter EXCEPT ![e] = [running |-> running, wait |-> 0, fails |-> 0,
                                               reported |-> FALSE]]
    /\ UNCHANGED <<lease, purge, watcher>>

\* Watch: bind, send a snapshot, then one more for every signal, until the
\* client goes away.
Bind(w) ==
    /\ ~watcher[w].bound
    /\ watcher' = [watcher EXCEPT ![w] = [bound |-> TRUE, pending |-> FALSE, sent |-> FALSE, view |-> {}]]
    /\ UNCHANGED <<lease, reporter, purge>>

Send(w) ==
    /\ watcher[w].bound
    /\ ~watcher[w].sent \/ watcher[w].pending
    /\ watcher' = [watcher EXCEPT ![w].sent = TRUE, ![w].view = Listed,
                                  ![w].pending = IF watcher[w].sent THEN FALSE ELSE @]
    /\ UNCHANGED <<lease, reporter, purge>>

Unbind(w) ==
    /\ watcher[w].bound
    /\ watcher' = [watcher EXCEPT ![w] = [bound |-> FALSE, pending |-> FALSE, sent |-> FALSE, view |-> {}]]
    /\ UNCHANGED <<lease, reporter, purge>>

Init ==
    /\ lease = [e \in Endpoints |-> Gone]
    /\ reporter = [e \in Endpoints |-> [running |-> FALSE, wait |-> 0, fails |-> 0, reported |-> FALSE]]
    /\ purge = TTL
    /\ watcher = [w \in Watchers |-> [bound |-> FALSE, pending |-> FALSE, sent |-> FALSE, view |-> {}]]

Next ==
    \/ Tick
    \/ periodicCheck
    \/ \E e \in Endpoints : Report(e) \/ reportFails(e) \/ OnConfigChange(e)
    \/ \E w \in Watchers : Bind(w) \/ Send(w) \/ Unbind(w)

-----------------------------------------------------------------------------
\* An instance that is up stays in the list: from its reporter's first report
\* on, and while reports do not fail, its lease does not run out, although the
\* timers are late, other reports purge, and the configuration is replaced
\* (Report, rmExpiredLocked, callAfterTTLFactor).
LeaseKept ==
    \A e \in Endpoints :
        reporter[e].running /\ reporter[e].reported /\ reporter[e].fails = 0 => lease[e] >= 0

\* A watcher that stays is sent the list as it is, whatever changes while the
\* snapshot is taken or a signal is already buffered (Watch, Signal.Bind).
WatchersInformed ==
    \A w \in Watchers :
        (watcher[w].bound /\ watcher[w].view # Listed)
            ~> (~watcher[w].bound \/ watcher[w].view = Listed)
=============================================================================
