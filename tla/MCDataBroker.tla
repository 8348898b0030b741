--------------------------- MODULE MCDataBroker ---------------------------
(***************************************************************************)
(* Instance of DataBroker for TLC.  In one world the configuration changes *)
(* and changes expire at any time; in the other the broker restarts and    *)
(* changes outlive the run.                                                *)
(***************************************************************************)
EXTENDS DataBroker

CONSTANTS c1, s1, s2, k1, k2, ksv
VARIABLE world

MCClients == {c1}
MCKeys == {k1, k2, ksv}
MCOneSyncer == {s1}
\* a syncer of one type
MCWantsOne == [s \in {s1} |-> {k1}]
\* one syncer of one type, one of every type
MCTwoSyncers == {s1, s2}
MCWantsTwo == [s \in {s1, s2} |-> IF s = s1 THEN {k1} ELSE MCKeys]

MCInit == Init /\ world \in {"updates", "restarts"}

InWorld(w, A) == world = w /\ A /\ UNCHANGED world

Served ==
  \/ \E c \in Clients : ClientNext(c)
  \/ \E s \in Syncers : StreamNext(s) \/ SyncerNext(s) \/ ConnectionLost(s)

MCNext ==
  \/ Served /\ UNCHANGED world
  \/ InWorld("updates", RemoveChangesBefore)
  \/ InWorld("updates", UpdateConfig)
  \/ InWorld("restarts", Restart)

allVars == <<vars, world>>

MCSpec ==
  /\ MCInit /\ [][MCNext]_allVars
  /\ \A c \in Clients : WF_allVars(InWorld("restarts", PutApply(c)))
  /\ \A s \in Syncers : /\ WF_allVars(InWorld("restarts", StreamNext(s)))
                        /\ WF_allVars(InWorld("restarts", SyncerNext(s)))

\* FairSpec with a configuration that changes.
ReconfiguredSpec ==
  Init /\ world = "updates" /\ [][Next /\ UNCHANGED world]_allVars /\ Fairness

\* Convergence where changes do not expire: once clients stop writing every
\* syncer ends up with the records of the current backend, over a restart of
\* the broker and a broken connection (syncer.go, Run; stream.go, Next).
ConvergesAfterRestart == world = "restarts" => Convergence

\* StartsOver for a server version that changed with a restart: "If the server
\* version changes `ClearRecords` will be called and the process will start
\* over" (syncer.go:47).
StartsOverAfterRestart ==
  \A s \in Syncers :
    world = "restarts" /\ serverVersion[s] \notin {0, cur} ~> phase[s] = "cleared"
===========================================================================
