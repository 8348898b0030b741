-------------------------- MODULE MCDirectorySync --------------------------
(***************************************************************************)
(* The directory, in two worlds: how the manager brings one user and one   *)
(* group into the broker (DirectorySync), and how the providers collect    *)
(* users and groups from their services (DirectoryProviders).  The two     *)
(* meet in what UserGroups and User return.  The variables of the other    *)
(* world stand still.                                                      *)
(***************************************************************************)
EXTENDS DirectorySync, FiniteSetsExt

CONSTANTS
  ProviderGroups, ProviderUsers, Org, Histories, OptionSets, UserPage,
  MaxProviderChanges, MaxFaults, MaxOptions
VARIABLES
  world, hist, options, known, groupLink, userLink, token, request, result, quiet, broken, faults, changed

P == INSTANCE DirectoryProviders WITH Groups <- ProviderGroups, Users <- ProviderUsers,
  MaxChanges <- MaxProviderChanges, call <- request
providerVars == <<hist, options, known, groupLink, userLink, token, request, result, quiet, broken, faults, changed>>

MCIds == {"user", "group"}
MCGroups == {"group"}
MCValues == {[value |-> 1], [value |-> 2]}

MCOrg == [g \in ProviderGroups |-> g]
Account(p) == [provider |-> p, text |-> "base64 json", complete |-> TRUE, client |-> FALSE, url |-> TRUE]
\* every provider, with one of the forms of service account it accepts, and an
\* account that leaves the null provider
MCOptionSets ==
  {Account(p) : p \in {"auth0", "github", "gitlab", "google", "onelogin"}}
    \cup {[Account("okta") EXCEPT !.text = "base64 other"], [Account("ping") EXCEPT !.text = "json"],
          [Account("azure") EXCEPT !.text = "", !.client = TRUE], [Account("google") EXCEPT !.complete = FALSE]}
\* two groups in each other with a user in one of them, one change away from the
\* bound, and one group of two
Circular == [groups |-> {1, 2}, users |-> {11}, members |-> {<<1, 2>>, <<2, 1>>, <<2, 11>>}]
Single == [groups |-> {1}, users |-> {11}, members |-> {<<1, 11>>}]
MCHistories == {<<Single, Circular>>, <<Single>>}

MCInit ==
  /\ Init /\ P!Init
  /\ \/ world = "sync" /\ hist = <<Single>> /\ options = Account("gitlab")
     \/ world = "providers"
MCNext ==
  \/ world = "sync" /\ Next /\ UNCHANGED <<providerVars, world>>
  \/ world = "providers" /\ P!Next /\ UNCHANGED <<vars, world>>
\* DirectorySync's Fairness and DirectoryProviders' own, each in its world
InSync(A) == world = "sync" /\ A
MCSpec ==
  /\ MCInit /\ [][MCNext]_<<vars, providerVars, world>>
  /\ WF_vars(InSync(ManagerStep)) /\ WF_vars(InSync(FeedStep)) /\ WF_vars(InSync(RefreshUserPut))
  /\ SF_vars(InSync(SelectMessage)) /\ SF_vars(InSync(SelectTimer)) /\ WF_vars(InSync(RefreshDirectory))
  /\ WF_providerVars(world = "providers" /\ P!UserGroups)

\* DirectoryProviders.CollectionExact: UserGroups returns the directory.
CollectionExact == P!CollectionExact

\* DirectoryProviders.UserAgrees: User and UserGroups agree.
UserAgrees == P!UserAgrees

\* DirectoryProviders.Recovers: the directory is returned again after faults.
Recovers == []<>(world = "sync" \/ P!Recovered)
===========================================================================
