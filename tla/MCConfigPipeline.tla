-------------------------- MODULE MCConfigPipeline --------------------------
(***************************************************************************)
(* Instances of ConfigPipeline and of Registry for TLC.  The two meet only *)
(* in Reporter.OnConfigChange, which Registry allows at any time, so a     *)
(* behaviour of the run is one of the pipeline or one of the registry, not *)
(* an interleaving of both.                                                *)
(***************************************************************************)
EXTENDS ConfigPipeline

CONSTANTS Endpoints, Watchers, TTL, Slack, MaxFails
VARIABLES world, lease, reporter, purge, watcher

ASSUME TimesAssumption == TTL \in Nat /\ Slack \in Nat

R == INSTANCE Registry

registryVars == <<lease, reporter, purge, watcher>>
allVars == <<vars, registryVars, world>>

File(valid, key, broker, ca, cookie, idp, trace, metrics, autocert) ==
    [valid |-> valid, key |-> key, broker |-> broker, ca |-> ca, cookie |-> cookie,
     idp |-> idp, trace |-> trace, metrics |-> metrics, autocert |-> autocert]

\* The startup's file; a file that is not valid; one without a shared key that
\* names another databroker and turns on tracing; one whose CA and cookie
\* secret cannot be used; one without a provider under another key.
MCContent ==
    <<File(TRUE, 1, "b1", TRUE, TRUE, TRUE, "", TRUE, TRUE),
      File(FALSE, 1, "b1", TRUE, TRUE, TRUE, "", TRUE, TRUE),
      File(TRUE, 0, "b2", TRUE, TRUE, TRUE, "zipkin", FALSE, FALSE),
      File(TRUE, 1, "b1", FALSE, FALSE, TRUE, "unknown", TRUE, FALSE),
      File(TRUE, 2, "b1", TRUE, TRUE, FALSE, "", TRUE, TRUE)>>

\* A startup and a second file, both with autocert.
AutocertContent ==
    <<File(TRUE, 1, "b1", TRUE, TRUE, TRUE, "", TRUE, TRUE),
      File(TRUE, 1, "b1", TRUE, TRUE, TRUE, "zipkin", TRUE, TRUE)>>

Pipeline(A) == world = "pipeline" /\ A /\ UNCHANGED <<world, registryVars>>
Registered(A) == world = "registry" /\ A /\ UNCHANGED <<world, vars>>

MCInit ==
    /\ Init /\ R!Init
    /\ world \in {"pipeline", "registry"}
    /\ world = "registry" => records = [b \in Brokers |-> "none"]

MCNext == Pipeline(Next) \/ Registered(R!Next)

MCFairness ==
    /\ WF_allVars(Pipeline(Run)) /\ WF_allVars(Pipeline(FileStep))
    /\ WF_allVars(Pipeline(watcherSignal)) /\ WF_allVars(Pipeline(finishRenewal))
    /\ \A b \in Brokers : WF_allVars(Pipeline(SyncStep(b)))
    /\ \A t \in Threads : WF_allVars(Pipeline(SourceStep(t)))
    /\ \A w \in Watchers : WF_allVars(Registered(R!Send(w)))

MCSpec == MCInit /\ [][MCNext]_allVars /\ MCFairness

\* Registry.LeaseKept: the lease of an instance that is up does not run out.
LeaseKept == R!LeaseKept

\* Registry.WatchersInformed: a watcher that stays is sent the list as it is.
WatchersInformed == R!WatchersInformed
=============================================================================
