------------------------- MODULE DirectoryProviders -------------------------
(* The directory providers of internal/directory: how the groups and users of *)
(* an identity provider are collected, one paged API call after the other,    *)
(* while the directory changes, calls fail and tokens are revoked.  GetProvider *)
(* chooses the provider from the options; okta and azure keep what they       *)
(* collected between calls and ask for changes only.                          *)
(* Names and e-mail addresses are left out.  The services are external; a     *)
(* page of a listing holds one entry.                                         *)
EXTENDS Integers, Sequences, FiniteSets, FiniteSetsExt

CONSTANTS
  Groups, Users,   \* their identifiers, numbers
  Org,             \* the organization of a group (github)
  Histories,       \* what a service may have seen before pomerium starts
  OptionSets,      \* the options the configuration may hold
  UserPage,        \* groups on the one page azure's User reads
  MaxChanges,      \* bound on changes of the directory
  MaxFaults,       \* bound on failed calls and lost tokens
  MaxOptions       \* bound on changes of the options

VARIABLES
  hist,            \* the directory of the service and its past
  options,         \* globalProvider.options
  known,           \* groups, members and users a provider keeps between calls
  groupLink,       \* azure: groupDeltaLink; okta: lastUpdated
  userLink,        \* azure: userDeltaLink
  token,           \* azure, onelogin, ping: the cached token
  call,            \* the UserGroups call in progress
  result,          \* what the last UserGroups call returned
  quiet,           \* history: the directory is as when that call began
  broken,          \* history: a first listing of okta or azure failed
  faults, changed  \* how many faults and changed options there were

vars == <<hist, options, known, groupLink, userLink, token, call, result, quiet, broken, faults, changed>>
kept == <<known, groupLink, userLink>>
history == <<hist, options, quiet, broken, faults, changed>>

Pairs == Groups \X (Groups \cup Users)
Never == 0
Nothing == [groups |-> {}, members |-> {}, users |-> {}]
Idle == [op |-> "idle", at |-> 0, todo |-> {}, orgs |-> {}, since |-> Never, began |-> 0,
         groups |-> {}, members |-> {}, users |-> {}]
Failed == [ok |-> FALSE, groups |-> {}, users |-> {}]

-----------------------------------------------------------------------------
(* The services (external): the directory, and what changed in it since.      *)

dir == hist[Len(hist)]
MembersOf(d, g) == {m \in Groups \cup Users : <<g, m>> \in d.members}
UsersOf(g) == MembersOf(dir, g) \cap Users
Since(t) == {i \in 2..Len(hist) : i > t}
ChangedMembers(t) == {p \in Pairs : \E i \in Since(t) : (p \in hist[i].members) # (p \in hist[i - 1].members)}
ChangedGroups(t) == {g \in Groups : \E i \in Since(t) : (g \in hist[i].groups) # (g \in hist[i - 1].groups)}
                      \cup {p[1] : p \in ChangedMembers(t)}
ChangedUsers(t) == {u \in Users : \E i \in Since(t) : (u \in hist[i].users) # (u \in hist[i - 1].users)}
Without(d, x) == [groups |-> d.groups \ {x}, users |-> d.users \ {x},
                  members |-> {p \in d.members : p[1] # x /\ p[2] # x}]
Seen(x) == \E i \in DOMAIN hist : x \in hist[i].groups \cup hist[i].users
\* one administrator's change; identifiers are not used again
NextDirectories ==
  {Without(dir, x) : x \in dir.groups \cup dir.users}
    \cup {[dir EXCEPT !.groups = @ \cup {g}] : g \in {h \in Groups : ~Seen(h)}}
    \cup {[dir EXCEPT !.users = @ \cup {u}] : u \in {v \in Users : ~Seen(v)}}
    \cup {[dir EXCEPT !.members = @ \cup {p}] : p \in dir.groups \X (dir.groups \cup dir.users)}
    \cup {[dir EXCEPT !.members = @ \ {p}] : p \in dir.members}
DirectoryChanges ==
  /\ Len(hist) <= MaxChanges
  /\ \E d \in NextDirectories \ {dir} : hist' = Append(hist, d)
  /\ quiet' = FALSE
  /\ UNCHANGED <<options, kept, token, call, result, broken, faults, changed>>

-----------------------------------------------------------------------------
(* GetProvider and the service accounts it parses: a text is empty, JSON, the *)
(* base64 form of JSON or of something else, or none of these; complete says  *)
(* that the JSON has the fields the provider requires.                        *)

FromJSON(o) == o.text = "base64 json" /\ o.complete
auth0Account(o) == IF o.text = "" THEN o.client ELSE FromJSON(o)
azureAccount(o) == IF o.text = "" THEN o.client /\ o.url ELSE FromJSON(o)
githubAccount(o) == FromJSON(o)
gitlabAccount(o) == FromJSON(o)
googleAccount(o) == FromJSON(o)
oktaAccount(o) == FromJSON(o) \/ o.text = "base64 other"
oneloginAccount(o) == FromJSON(o)
DecodeBase64OrJSON(o) == o.text \in {"json", "base64 json"}
pingAccount(o) == DecodeBase64OrJSON(o) /\ o.complete

providerOf(o) ==
  IF \/ o.provider = "auth0" /\ auth0Account(o)
     \/ o.provider = "azure" /\ azureAccount(o)
     \/ o.provider = "github" /\ githubAccount(o)
     \/ o.provider = "gitlab" /\ gitlabAccount(o)
     \/ o.provider = "google" /\ googleAccount(o)
     \/ o.provider = "okta" /\ oktaAccount(o)
     \/ o.provider = "onelogin" /\ oneloginAccount(o)
     \/ o.provider = "ping" /\ pingAccount(o)
  THEN o.provider ELSE "null"
provider == providerOf(options)

\* Options that are equal keep the provider and all it knows.  A call in progress
\* ends with the provider it began with; letting it end first loses nothing,
\* because the manager makes its calls one after the other.
GetProvider(o) ==
  /\ call = Idle
  /\ changed < MaxOptions
  /\ changed' = changed + 1
  /\ options' = o
  /\ IF o = options
     THEN UNCHANGED <<kept, token, result, broken>>
     ELSE /\ known' = Nothing /\ groupLink' = Never /\ userLink' = Never
          /\ token' = "none" /\ result' = Failed /\ broken' = FALSE
  /\ UNCHANGED <<hist, call, quiet, faults>>

-----------------------------------------------------------------------------
(* The steps of a call.                                                       *)

\* What the next links of a listing S still lead to.
apiGet(S) == {x \in S : x > call.at}
\* A page of the listing S; add puts the entry read into the call, done is the
\* call once the listing is complete.
Page(S, add(_), done(_)) ==
  LET rest == apiGet(S)
  IN IF rest = {} THEN done([call EXCEPT !.at = 0])
     ELSE LET x == Min(rest) c == add(x)
          IN IF rest = {x} THEN done([c EXCEPT !.at = 0]) ELSE [c EXCEPT !.at = x]
AddGroup(g) == [call EXCEPT !.groups = @ \cup {g}]
AddUser(u) == [call EXCEPT !.users = @ \cup {u}]
AddMember(u) == [call EXCEPT !.members = @ \cup {<<Min(call.todo), u>>}]
ToMembers(c) == [c EXCEPT !.op = "members", !.todo = c.groups]
ToUsers(c) == [c EXCEPT !.op = "users", !.todo = {p[2] : p \in c.members}]
\* The listing for the first of todo is complete; after the last comes next.
Listed(c, next(_)) ==
  LET d == [c EXCEPT !.todo = @ \ {Min(c.todo)}] IN IF d.todo = {} THEN next(d) ELSE d
Same(c) == c
NextGroup(c) == Listed(c, Same)
In(p, op) == options.provider = p /\ call.op = op
Collects == UNCHANGED <<kept, token, result, history>>
\* the first listing of a provider that asks for changes from then on
FirstListing == call.since = Never /\ (In("okta", "groups") \/ In("azure", "groups") \/ In("azure", "users"))
\* An error of any API call ends UserGroups; what the provider keeps stays as it is.
FailCall == call' = Idle /\ result' = Failed /\ broken' = (broken \/ FirstListing)
\* A listing of the groups of todo fails once the first of them is removed.
OrRemoved(listing) ==
  /\ call.todo # {}
  /\ IF Min(call.todo) \in dir.groups THEN call' = listing /\ UNCHANGED <<result, broken>> ELSE FailCall
  /\ UNCHANGED <<kept, token, hist, options, quiet, faults, changed>>
Begins(p, op, since) ==
  /\ call = Idle /\ provider = p
  /\ call' = [Idle EXCEPT !.op = op, !.since = since, !.began = Len(hist)]
  /\ quiet' = TRUE
  /\ UNCHANGED <<hist, options, known, userLink, token, result, broken, faults, changed>>
\* the groups of a user among the members read, and the users that are members
GroupsRead(u) == {p[1] : p \in {q \in call.members : q[2] = u}}
WithGroups(users) == {[id |-> u, groups |-> GroupsRead(u)] : u \in users}
MembersRead == {p[2] : p \in call.members}
Returns(op, groups, users) ==
  /\ call.op = op /\ call.todo = {}
  /\ result' = [ok |-> TRUE, groups |-> groups, users |-> users]
  /\ call' = Idle
  /\ UNCHANGED <<kept, token, history>>

(* Okta.  lastUpdated is the time of the first call, and stays it: the layout *)
(* and the value of time.Parse are swapped, so no parsed time is later.  The  *)
(* clocks of the service and of the provider agree.                           *)

\* mutant: every call starts the next one from its own time
oktaUserGroupsAdvanced == Begins("okta", "groups", groupLink) /\ groupLink' = Len(hist)
oktaUserGroups ==
  /\ Begins("okta", "groups", groupLink)
  /\ groupLink' = IF groupLink = Never THEN Len(hist) ELSE groupLink
oktaGetGroups ==
  /\ In("okta", "groups")
  /\ LET found == IF call.since = Never THEN dir.groups ELSE dir.groups \cap ChangedGroups(call.since)
         all(c) == ToMembers([c EXCEPT !.groups = @ \cup known.groups])
     IN call' = Page(found, AddGroup, all)
  /\ known' = [known EXCEPT !.groups = @ \cup call'.groups]
  /\ UNCHANGED <<groupLink, userLink, token, result, history>>
oktaMembersPage(g) == Page(UsersOf(g), AddMember, NextGroup)
\* A group that is gone is not an error: it leaves the groups kept and returned.
oktaGetGroupMembers ==
  /\ In("okta", "members") /\ call.todo # {}
  /\ LET g == Min(call.todo)
     IN IF g \in dir.groups
        THEN call' = oktaMembersPage(g) /\ UNCHANGED known
        ELSE /\ known' = [known EXCEPT !.groups = @ \ {g}]
             /\ call' = [call EXCEPT !.groups = @ \ {g}, !.todo = @ \ {g}, !.at = 0,
                                     !.members = {p \in @ : p[1] # g}]
  /\ UNCHANGED <<groupLink, userLink, token, result, history>>
oktaReturns == In("okta", "members") /\ Returns("members", call.groups, WithGroups(MembersRead))

(* Azure: the delta collection.  Every page is applied at once, the link of a *)
(* round is kept when its last page was read.                                 *)

\* mutant: a refused token is kept
azureApiKept(step) ==
  IF token = "stale"
  THEN FailCall /\ UNCHANGED <<kept, token, hist, options, quiet, faults, changed>>
  ELSE step /\ token' = "good" /\ UNCHANGED <<result, history>>
\* getToken before each call; a call the service refuses drops the token.
azureApi(step) ==
  IF token = "stale"
  THEN FailCall /\ token' = "none" /\ UNCHANGED <<kept, hist, options, quiet, faults, changed>>
  ELSE step /\ token' = "good" /\ UNCHANGED <<result, history>>
Entry(S) == LET rest == {x \in S : x > call.at} IN IF rest = {} THEN {} ELSE {Min(rest)}
SyncedGroup(g) ==
  LET told == IF call.since = Never THEN Pairs ELSE ChangedMembers(call.since)
      mine == {p \in told : p[1] = g}
  IN IF g \notin dir.groups
     THEN [known EXCEPT !.groups = @ \ {g}, !.members = {p \in @ : p[1] # g}]
     ELSE [known EXCEPT !.groups = @ \cup {g}, !.members = (@ \ (mine \ dir.members)) \cup (mine \cap dir.members)]
azureUserGroups == Begins("azure", "groups", groupLink) /\ UNCHANGED groupLink
azureSyncGroups ==
  /\ In("azure", "groups")
  /\ LET round == IF call.since = Never THEN dir.groups ELSE ChangedGroups(call.since)
         read(g) == call
         end(c) == [c EXCEPT !.op = "users", !.since = userLink, !.began = Len(hist)]
     IN azureApi(/\ call' = Page(round, read, end)
                 /\ known' = IF Entry(round) = {} THEN known ELSE SyncedGroup(Min(Entry(round)))
                 /\ groupLink' = IF call'.op = "users" THEN call.began ELSE groupLink
                 /\ UNCHANGED userLink)
azureSyncUsers ==
  /\ In("azure", "users")
  /\ LET round == IF call.since = Never THEN dir.users ELSE ChangedUsers(call.since)
         read(g) == call
         end(c) == [c EXCEPT !.op = "done"]
     IN azureApi(/\ call' = Page(round, read, end)
                 /\ known' = [known EXCEPT !.users = (@ \ Entry(round)) \cup (Entry(round) \cap dir.users)]
                 /\ userLink' = IF call'.op = "done" THEN call.began ELSE userLink
                 /\ UNCHANGED groupLink)
\* The groups of a user and the groups these are members of: a stack of groups
\* to visit, in any order, and the ones visited.
getGroupIDsForUser(u) ==
  LET parents(m) == {p[1] : p \in {q \in known.members : q[2] = m}}
      RECURSIVE visit(_, _)
      visit(todo, ids) ==
        IF todo = {} THEN ids
        ELSE LET g == Max(todo) rest == todo \ {g}
             IN IF g \in ids THEN visit(rest, ids) ELSE visit(rest \cup parents(g), ids \cup {g})
  IN visit(parents(u), {})
azureCurrentUserGroups ==
  /\ In("azure", "done")
  /\ Returns("done", known.groups, {[id |-> u, groups |-> getGroupIDsForUser(u)] : u \in known.users})

(* OneLogin and Ping: one token for all of the calls of UserGroups, which a   *)
(* refusal does not drop; it is fetched again once it has expired.            *)

getToken(p) ==
  /\ In(p, "token")
  /\ token' = IF token \in {"none", "expired"} THEN "good" ELSE token
  /\ call' = [call EXCEPT !.op = "groups"]
  /\ UNCHANGED <<kept, result, history>>
Authorized(step) ==
  IF token = "good" THEN step /\ Collects
  ELSE FailCall /\ UNCHANGED <<kept, token, hist, options, quiet, faults, changed>>

GroupIdOf(u) == LET gs == {g \in dir.groups : <<g, u>> \in dir.members} IN IF gs = {} THEN 0 ELSE Min(gs)
oneloginUserGroups == Begins("onelogin", "token", Never) /\ UNCHANGED groupLink
oneloginGetToken == getToken("onelogin")
oneloginListGroups ==
  /\ In("onelogin", "groups")
  /\ LET end(c) == [c EXCEPT !.op = "users"] IN Authorized(call' = Page(dir.groups, AddGroup, end))
oneloginListUsers ==
  /\ In("onelogin", "users")
  /\ LET read(u) == [AddUser(u) EXCEPT !.members = @ \cup {<<GroupIdOf(u), u>>}]
         end(c) == [c EXCEPT !.op = "done"]
     IN Authorized(call' = Page(dir.users, read, end))
oneloginReturns == In("onelogin", "done") /\ Returns("done", call.groups, WithGroups(call.users))

pingUserGroups == Begins("ping", "token", Never) /\ UNCHANGED groupLink
pingGetToken == getToken("ping")
pingGetAllGroups == In("ping", "groups") /\ Authorized(call' = Page(dir.groups, AddGroup, ToMembers))
\* a filter over the users, which a removed group leaves empty
pingGetGroupUsers ==
  /\ In("ping", "members") /\ call.todo # {}
  /\ Authorized(call' = Page(UsersOf(Min(call.todo)), AddMember, NextGroup))
pingReturns == In("ping", "members") /\ Returns("members", call.groups, WithGroups(MembersRead))

(* GitHub: organizations, the teams of each, the members of each team, and    *)
(* the user behind every login.                                               *)

githubUserGroups == Begins("github", "orgs", Never) /\ UNCHANGED groupLink
githubListOrgs ==
  /\ In("github", "orgs")
  /\ call' = [call EXCEPT !.op = "groups", !.orgs = {Org[g] : g \in Groups}]
  /\ Collects
\* the next organization, or the users once the teams of all are read
githubNextOrg(c) ==
  LET d == [c EXCEPT !.orgs = @ \ {Min(c.orgs)}] IN IF d.orgs = {} THEN ToUsers(d) ELSE [d EXCEPT !.op = "groups"]
githubListGroups ==
  /\ In("github", "groups")
  /\ LET org(S) == {g \in S : Org[g] = Min(call.orgs)}
         end(c) == IF org(c.groups) = {} THEN githubNextOrg(c)
                   ELSE [c EXCEPT !.op = "members", !.todo = org(c.groups)]
     IN call' = Page(org(dir.groups), AddGroup, end)
  /\ Collects
githubListTeamMembers ==
  /\ In("github", "members")
  /\ LET end(c) == Listed(c, githubNextOrg) IN OrRemoved(Page(UsersOf(Min(call.todo)), AddMember, end))
githubGetUser ==
  /\ In("github", "users") /\ call.todo # {}
  /\ IF Min(call.todo) \in dir.users
     THEN call' = NextGroup(call) /\ UNCHANGED <<result, broken>>
     ELSE FailCall
  /\ UNCHANGED <<kept, token, hist, options, quiet, faults, changed>>
githubReturns == In("github", "users") /\ Returns("users", call.groups, WithGroups(MembersRead))

gitlabUserGroups == Begins("gitlab", "groups", Never) /\ UNCHANGED groupLink
gitlabListGroups == In("gitlab", "groups") /\ call' = Page(dir.groups, AddGroup, ToMembers) /\ Collects
gitlabListGroupMembers ==
  In("gitlab", "members") /\ OrRemoved(Page(UsersOf(Min(call.todo)), AddMember, NextGroup))
gitlabReturns == In("gitlab", "members") /\ Returns("members", call.groups, WithGroups(MembersRead))

(* Google: the groups that have members, all users, the members of each group. *)

googleUserGroups == Begins("google", "groups", Never) /\ UNCHANGED groupLink
googleListGroups ==
  /\ In("google", "groups")
  /\ LET read(g) == IF MembersOf(dir, g) = {} THEN call ELSE AddGroup(g)
         end(c) == [c EXCEPT !.op = "users"]
     IN call' = Page(dir.groups, read, end)
  /\ Collects
googleListUsers == In("google", "users") /\ call' = Page(dir.users, AddUser, ToMembers) /\ Collects
googleListMembers ==
  In("google", "members") /\ OrRemoved(Page(MembersOf(dir, Min(call.todo)), AddMember, NextGroup))
googleReturns == In("google", "members") /\ Returns("members", call.groups, WithGroups(call.users))

(* Auth0: pages are numbered, so what is removed moves later entries forward. *)

PageAt(S, add(_), done(_)) ==
  LET x == CHOOSE y \in S : Cardinality({z \in S : z < y}) = call.at
      next(c) == IF Cardinality(S) > call.at + 1 THEN [c EXCEPT !.at = @ + 1] ELSE done([c EXCEPT !.at = 0])
  IN IF call.at < Cardinality(S) THEN next(add(x)) ELSE next(call)
auth0UserGroups == Begins("auth0", "groups", Never) /\ UNCHANGED groupLink
auth0GetRoles == In("auth0", "groups") /\ call' = PageAt(dir.groups, AddGroup, ToMembers) /\ Collects
auth0GetRoleUserIDs ==
  In("auth0", "members") /\ OrRemoved(PageAt(UsersOf(Min(call.todo)), AddMember, NextGroup))
auth0Returns == In("auth0", "members") /\ Returns("members", call.groups, WithGroups(MembersRead))

\* Options no provider accepts: nothing is collected, and that is not an error.
nullUserGroups ==
  /\ call = Idle /\ provider = "null"
  /\ result' = [ok |-> TRUE, groups |-> {}, users |-> {}]
  /\ quiet' = TRUE
  /\ UNCHANGED <<hist, options, kept, token, call, broken, faults, changed>>

CallFails ==
  /\ call # Idle
  /\ faults < MaxFaults
  /\ FailCall
  /\ faults' = faults + 1
  /\ UNCHANGED <<hist, options, kept, token, quiet, changed>>
\* the service revokes the token, or it expires for the provider as well
TokenLost ==
  /\ faults < MaxFaults
  /\ token \in {"good", "stale"}
  /\ \E t \in {"stale", "expired"} \ {token} : token' = t
  /\ faults' = faults + 1
  /\ UNCHANGED <<hist, options, kept, call, result, quiet, broken, changed>>

-----------------------------------------------------------------------------
(* User: the groups of one user, which RefreshUser stores when they sign in.  *)

Direct(u) == {g \in dir.groups : <<g, u>> \in dir.members}
transitiveMemberOf(u) ==
  {g \in dir.groups : \A S \in SUBSET dir.groups :
     (Direct(u) \subseteq S /\ \A p \in dir.members : p[2] \in S => p[1] \in S) => g \in S}
NoUser == {-1}   \* the error for a user the service does not have
Found(u, groups) == IF u \in dir.users THEN groups ELSE NoUser
oktaListUserGroups(u) == Direct(u)
oktaUser(u) == Found(u, oktaListUserGroups(u))
azureUserDirect(u) == Found(u, Direct(u))   \* mutant: memberOf for transitiveMemberOf
azureUser(u) == Found(u, {g \in transitiveMemberOf(u) : Cardinality({h \in transitiveMemberOf(u) : h < g}) < UserPage})
oneloginUser(u) == Found(u, {GroupIdOf(u)})
\* ping's records have the identifier of the service, without "ping/" before it
pingUser(u) == Found(u, Direct(u))
githubListUserOrganizationTeams(u, o) == {g \in Direct(u) : Org[g] = o}
githubUser(u) == Found(u, UNION {githubListUserOrganizationTeams(u, o) : o \in {Org[h] : h \in Groups}})
\* the groups the user's own access token lists
gitlabUser(u) == Found(u, Direct(u))
\* a user of another domain is forbidden to read, and has no groups
googleUser(u) == IF u \in dir.users THEN Direct(u) ELSE {}
auth0User(u) == Found(u, Direct(u))
User(u) ==
  CASE provider = "okta" -> oktaUser(u)
    [] provider = "azure" -> azureUser(u)
    [] provider = "onelogin" -> oneloginUser(u)
    [] provider = "ping" -> pingUser(u)
    [] provider = "github" -> githubUser(u)
    [] provider = "gitlab" -> gitlabUser(u)
    [] provider = "google" -> googleUser(u)
    [] provider = "auth0" -> auth0User(u)

-----------------------------------------------------------------------------
Init ==
  /\ hist \in Histories
  /\ options \in OptionSets
  /\ known = Nothing /\ groupLink = Never /\ userLink = Never
  /\ token = "none"
  /\ call = Idle /\ result = Failed /\ quiet = TRUE /\ broken = FALSE
  /\ faults = 0 /\ changed = 0

okta == oktaUserGroups \/ oktaGetGroups \/ oktaGetGroupMembers \/ oktaReturns
azure == azureUserGroups \/ azureSyncGroups \/ azureSyncUsers \/ azureCurrentUserGroups
onelogin == oneloginUserGroups \/ oneloginGetToken \/ oneloginListGroups \/ oneloginListUsers \/ oneloginReturns
ping == pingUserGroups \/ pingGetToken \/ pingGetAllGroups \/ pingGetGroupUsers \/ pingReturns
github == \/ githubUserGroups \/ githubListOrgs \/ githubListGroups
          \/ githubListTeamMembers \/ githubGetUser \/ githubReturns
gitlab == gitlabUserGroups \/ gitlabListGroups \/ gitlabListGroupMembers \/ gitlabReturns
google == \/ googleUserGroups \/ googleListGroups \/ googleListUsers
          \/ googleListMembers \/ googleReturns
auth0 == auth0UserGroups \/ auth0GetRoles \/ auth0GetRoleUserIDs \/ auth0Returns
UserGroups == okta \/ azure \/ onelogin \/ ping \/ github \/ gitlab \/ google \/ auth0 \/ nullUserGroups
Next ==
  \/ UserGroups
  \/ \E o \in OptionSets : GetProvider(o)
  \/ DirectoryChanges \/ CallFails \/ TokenLost

\* The manager asks again and again (identity/manager, refreshLoop).
Spec == Init /\ [][Next]_vars /\ WF_vars(UserGroups)

-----------------------------------------------------------------------------
\* What a provider promises for a directory: its groups (google: those with
\* members), and each user with their groups; okta, github, gitlab, auth0 and
\* ping know a user by a group only, onelogin gives a user one group or 0.
Expected ==
  LET members == {u \in dir.users : Direct(u) # {}}
      groups == IF provider = "google" THEN {g \in dir.groups : MembersOf(dir, g) # {}} ELSE dir.groups
      users == IF provider \in {"google", "azure", "onelogin"} THEN dir.users ELSE members
      of(u) == CASE provider = "azure" -> transitiveMemberOf(u)
                 [] provider = "onelogin" -> {GroupIdOf(u)}
                 [] OTHER -> Direct(u)
  IN IF provider = "null" THEN [ok |-> TRUE, groups |-> {}, users |-> {}]
     ELSE [ok |-> TRUE, groups |-> groups, users |-> {[id |-> u, groups |-> of(u)] : u \in users}]
Settled == call = Idle /\ result.ok /\ quiet /\ ~broken

\* UserGroups of every provider: a call during which the directory did not change
\* returns exactly the directory, whatever earlier calls of the provider failed
\* half-way and whatever changed before, for okta and azure from the changes they
\* ask for; unless the very first listing failed (getGroups, syncGroups).
CollectionExact == Settled => result = Expected

\* User and UserGroups of every provider agree on the groups of a user, so the
\* record stored at sign-in is the one the next refresh stores (RefreshUser,
\* mergeUsers); for azure as long as they fit one page of transitiveMemberOf.
UserAgrees ==
  Settled => \A r \in result.users :
    User(r.id) = r.groups \/ (provider = "azure" /\ Cardinality(r.groups) > UserPage)

Recovered ==
  \/ result = Expected \/ broken
  \/ token = "stale" /\ provider \in {"onelogin", "ping"}

\* Once the service stops failing and changing, UserGroups returns the directory
\* again: a refused token of azure is dropped and fetched again (azure.go, api);
\* onelogin and ping keep one until it expires.
Recovers == []<>Recovered

=============================================================================
