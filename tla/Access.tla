------------------------------- MODULE Access -------------------------------
(***************************************************************************)
(* How a client gets to a route: envoy asks the authorize service about    *)
(* each request (authorize/grpc.go), clients without a session are sent to *)
(* the authenticate service (authenticate/handlers.go), from there to the  *)
(* identity provider, and with a session of their own back to the proxy    *)
(* (proxy/handlers.go, proxy/forward_auth.go).  Sessions are records of    *)
(* the databroker; the authorize service decides on its own copy, which    *)
(* its syncer brings up to date some time later (authorize/sync.go).       *)
(*                                                                         *)
(* Every client is in one of these modes:                                  *)
(*   direct, xhr    a page of a browser, or a script on it;                *)
(*   nginx, traefik a page behind a proxy that asks pomerium before it     *)
(*                  forwards (forward auth);                               *)
(*   api            a program that signs in over a link it is given;       *)
(*   account        a program with the token of a service account;         *)
(*   tunnel         pomerium-cli's TCP tunnel (internal/tcptunnel);        *)
(*   kubectl        a program that pomerium-cli hands a credential to      *)
(*                  (cmd/pomerium-cli/kubernetes.go);                      *)
(*   dashboard, sign out   pages of the authenticate service;              *)
(*   proxy sign out the sign out page of the proxy.                        *)
(* The browser modes share one browser and so its cookies.                 *)
(***************************************************************************)
EXTENDS Evaluation

\* Setups: a policy of the route, the kind of identity provider, the sessions
\* that sign in there may become, the modes each client may use, what else of
\* its requests decides, and how many calls may fail and how often a databroker
\* with its records in memory may restart; Accounts: service accounts;
\* Profiles: what the provider tells about a user; Directory: the user's
\* groups; MaxLag: changes the store may be behind when a client begins
CONSTANTS Clients, Setups, Accounts, Profiles, Directory, MaxLag

\* setup: one of Setups; broker: the databroker's records; feed: changes the
\* syncer of authorize has yet to apply; store: the records authorize has;
\* jars: the browser's cookies for the authenticate service and the route;
\* cache: the token and the credential pomerium-cli keeps; discovered: whether the provider's
\* endpoints are known; overlapped: sessions whose removal the store applied
\* while a check that had already read them was about to write them; used:
\* identifiers given to sessions
VARIABLES setup, broker, feed, store, jars, cache, discovered, clients, faults, restarts, overlapped, used
accessVars == <<setup, broker, feed, store, jars, cache, discovered, clients, faults, restarts, overlapped, used>>

policy == setup.policy
data == <<broker, feed>>
limits == <<faults, restarts>>
P(c) == clients[c]
Fresh ==
  [pc |-> "done", mode |-> "direct", request |-> CHOOSE r \in setup.requests : TRUE, url |-> "app",
   id |-> NoSession, user |-> "", got |-> NoRecord, header |-> NoSession, token |-> NoSession, via |-> "",
   retried |-> FALSE, late |-> FALSE, calm |-> FALSE, settled |-> FALSE, reply |-> "", identity |-> ""]
Become(c, fields) == clients' = [clients EXCEPT ![c] = fields ++ @]
Done(c, reply, identity) ==
  Become(c, [p \in {"mode", "header"}
                   \cup (IF P(c).calm \/ P(c).settled THEN {"id", "calm", "settled", "request", "url"} ELSE {}) |-> P(c)[p]]
            ++ [reply |-> reply, identity |-> identity] ++ Fresh)
\* answers that are not the check's
End(c, reply) == Become(c, [reply |-> reply, mode |-> P(c).mode] ++ Fresh)
Fault == faults < setup.faults /\ faults' = faults + 1 /\ UNCHANGED restarts

Live(id) == GetRecordData(broker, "session", id) # NoRecord
\* with its user, which a restart may have lost between the two
Known(id) == Live(id) /\ GetRecordData(broker, "user", Owner[id]) # NoRecord
\* what a session says of its user: the claims of the identity token and of
\* the user info, which at GitHub has a few fields only
githubUserInfo(profile) == {c \in profile.claims : c[1] \in {"sub", "user", "name", "picture"}}
oidcAuthenticate(profile) == profile.idToken \cup profile.claims
Authenticate(profile) == IF setup.provider = "oidc" THEN oidcAuthenticate(profile) ELSE githubUserInfo(profile)
Session(s) ==
  [NoRecord EXCEPT !.type = "session", !.id = s, !.user = Owner[s], !.claims = Authenticate(Profiles[Owner[s]])]
Changed(r, deleted) == [clear |-> FALSE, record |-> r, deleted |-> deleted]
Clear == [clear |-> TRUE, record |-> NoRecord, deleted |-> FALSE]
\* a record written to the databroker is also on its way to the store
Put(r) == broker' = UpdateRecord(broker, r, FALSE) /\ feed' = Append(feed, Changed(r, FALSE))
\* mutant: nobody is told of the removal
DeleteQuietly(s) == broker' = UpdateRecord(broker, s, TRUE) /\ UNCHANGED feed
Delete(s) == broker' = UpdateRecord(broker, s, TRUE) /\ feed' = Append(feed, Changed(s, TRUE))
\* checks of these sessions no longer find what was there when they began
Disturbed(ids) ==
  [c \in Clients |-> IF P(c).id \in ids THEN [calm |-> FALSE] ++ P(c) ELSE P(c)]

AccessInit ==
  /\ setup \in Setups
  /\ broker = Accounts /\ store = Accounts /\ feed = <<>>
  /\ jars = [auth |-> NoCookies, route |-> NoCookies]
  /\ cache = [jwt |-> NoSession, credential |-> NoSession] /\ discovered = FALSE
  /\ clients = [c \in Clients |-> Fresh]
  /\ faults = 0 /\ restarts = 0 /\ overlapped = {} /\ used = {}

-----------------------------------------------------------------------------
(* Clients *)

\* the tokens pomerium-cli keeps; an expired one is still returned, and used
LoadJWT == cache.jwt
StoreJWT(id) == cache' = [cache EXCEPT !.jwt = id]
DeleteJWT == cache' = [cache EXCEPT !.jwt = NoSession]
\* the credentials it keeps for kubectl: one whose time is over is removed
loadCachedCredential == {cache.credential, NoSession}
removeCachedCredential(id) == cache' = [cache EXCEPT !.credential = IF id = NoSession THEN NoSession ELSE @]
\* a file that cannot be written is only reported
saveCachedCredential(id) == cache' = [cache EXCEPT !.credential = id] \/ UNCHANGED cache

\* kubectl gets the credential that is kept, or pomerium-cli signs in for one
kubernetesExecCredentialCmd(credential) == IF credential = NoSession THEN "login" ELSE "check"

\* where each mode begins; a tunnel begins with the token that was kept
Visit(c) ==
  \E mode \in setup.modes[c], r \in setup.requests, credential \in loadCachedCredential :
    LET header == CASE mode = "tunnel" -> LoadJWT
                    [] mode = "kubectl" -> credential
                    [] mode = "api" /\ P(c).mode = "api" -> P(c).header
                    [] mode = "account" -> (CHOOSE a \in Accounts : a.type = "account").id
                    [] OTHER -> NoSession
        pc == CASE mode \in {"sign out", "dashboard", "proxy sign out"} -> mode
                [] mode = "api" /\ header = NoSession -> "login"
                [] mode = "kubectl" -> kubernetesExecCredentialCmd(credential)
                [] OTHER -> "check"
    IN /\ P(c).pc = "done" /\ Len(feed) <= MaxLag
       /\ Become(c, [Fresh EXCEPT !.pc = pc, !.mode = mode, !.request = r, !.header = header])
       /\ IF mode = "kubectl" THEN removeCachedCredential(credential) ELSE UNCHANGED cache
       /\ UNCHANGED <<setup, data, store, jars, discovered, limits, overlapped>>

Programs == {"api", "account", "tunnel", "kubectl"}
\* the form of a credential, and of the others' tokens
parseToken == {"Bearer Pomerium-"}
FormsOf(mode) == CASE mode = "tunnel" -> {"Pomerium"} [] mode = "kubectl" -> parseToken [] OTHER -> Forms
\* what the check is told about the request; forward auth is about the page behind
isForwardAuth(c) == P(c).mode \in {"nginx", "traefik"}
\* nginx names the page in the query, traefik in headers of its own
Asked(c) ==
  [uri |-> IF P(c).mode = "nginx" THEN P(c).url ELSE "", forwarded |-> IF P(c).mode = "traefik" THEN P(c).url ELSE ""]
getForwardAuthURL(asked) == IF asked.uri # "" THEN asked.uri ELSE asked.forwarded
getDownstreamClientCA == IF policy.ca # "" THEN policy.ca ELSE setup.clientCA
CheckRequest(c) ==
  LET url == IF isForwardAuth(c) THEN getForwardAuthURL(Asked(c)) ELSE P(c).url
  IN [pomerium |-> url = "callback", ca |-> getDownstreamClientCA] ++ P(c).request

-----------------------------------------------------------------------------
(* The check (authorize/grpc.go) *)

\* a removal is settled when the store has applied it for good
Settled(id) ==
  /\ ~Live(id) /\ id \notin overlapped
  /\ \A i \in DOMAIN feed : ~feed[i].clear /\ feed[i].record.id # id
  /\ \A c \in Clients : P(c).pc = "put session" => P(c).got.id # id

\* the request's session, and whether the store has it
Check(c) ==
  \E form \in FormsOf(P(c).mode) :
  LET raw == IF P(c).mode \in Programs THEN loadRawSession(NoCookies, [as |-> form, token |-> P(c).header])
             ELSE loadRawSession(jars.route, NothingCarried)
      id == loadSession(raw)
      known == {GetRecordData(store, type, id) : type \in {"session", "account"}} \ {NoRecord}
  IN /\ P(c).pc = "check"
     /\ Become(c, [id |-> id, calm |-> Known(id), settled |-> id \in used /\ Settled(id),
                   pc |-> CASE id = NoSession -> "evaluate"
                            [] id # NoSession /\ known # {} -> "sync user"
                            [] OTHER -> "get session",
                   user |-> IF known = {} THEN "" ELSE (CHOOSE r \in known : TRUE).user])
     /\ UNCHANGED <<setup, data, store, jars, cache, discovered, limits, overlapped>>

\* a session that is not found, or not answered for, is none
GetSession(c) ==
  /\ P(c).pc = "get session"
  /\ \/ /\ Live(P(c).id)
        /\ Become(c, [pc |-> "put session", got |-> GetRecordData(broker, "session", P(c).id)])
        /\ UNCHANGED limits
     \/ /\ ~Live(P(c).id)
        /\ Become(c, [pc |-> "evaluate", id |-> NoSession])
        /\ UNCHANGED limits
     \/ /\ Fault
        /\ Become(c, [pc |-> "evaluate", id |-> NoSession, calm |-> FALSE])
  /\ UNCHANGED <<setup, data, store, jars, cache, discovered, overlapped>>
\* only a session the store still does not have is written
PutSession(c) ==
  /\ P(c).pc = "put session"
  /\ store' = IF GetRecordData(store, "session", P(c).id) = NoRecord
              THEN UpdateRecord(store, P(c).got, FALSE) ELSE store
  /\ Become(c, [pc |-> "read session", got |-> NoRecord])
  /\ UNCHANGED <<setup, data, jars, cache, discovered, limits, overlapped>>
\* removed again meanwhile, it is a session without a user, not an error
ReadSession(c) ==
  /\ P(c).pc = "read session"
  /\ Become(c, [pc |-> "sync user", user |-> GetRecordData(store, "session", P(c).id).user])
  /\ UNCHANGED <<setup, data, store, jars, cache, discovered, limits, overlapped>>
forceSyncSession(c) == Check(c) \/ GetSession(c) \/ PutSession(c) \/ ReadSession(c)

\* mutant: users are left to the syncer
SyncUserLater(c) ==
  /\ P(c).pc = "sync user"
  /\ Become(c, [pc |-> "evaluate"])
  /\ UNCHANGED <<setup, data, store, jars, cache, discovered, limits, overlapped>>
SyncUser(c) ==
  /\ P(c).pc = "sync user"
  /\ Become(c, [pc |-> IF GetRecordData(store, "user", P(c).user) = NoRecord THEN "get user" ELSE "evaluate"])
  /\ UNCHANGED <<setup, data, store, jars, cache, discovered, limits, overlapped>>
GetUser(c) ==
  /\ P(c).pc = "get user"
  /\ \/ /\ GetRecordData(broker, "user", P(c).user) # NoRecord
        /\ Become(c, [pc |-> "put user", got |-> GetRecordData(broker, "user", P(c).user)])
        /\ UNCHANGED limits
     \/ /\ GetRecordData(broker, "user", P(c).user) = NoRecord
        /\ Become(c, [pc |-> "evaluate"])
        /\ UNCHANGED limits
     \/ Fault /\ Become(c, [pc |-> "evaluate", calm |-> FALSE])
  /\ UNCHANGED <<setup, data, store, jars, cache, discovered, overlapped>>
PutUser(c) ==
  /\ P(c).pc = "put user"
  /\ store' = IF GetRecordData(store, "user", P(c).user) = NoRecord
              THEN UpdateRecord(store, P(c).got, FALSE) ELSE store
  /\ Become(c, [pc |-> "evaluate", got |-> NoRecord])
  /\ UNCHANGED <<setup, data, jars, cache, discovered, limits, overlapped>>
forceSyncUser(c) == SyncUser(c) \/ GetUser(c) \/ PutUser(c)

\* the rules read the session first, the rest of the records later
EvaluateSession(c) ==
  /\ P(c).pc = "evaluate"
  /\ Become(c, [pc |-> "decide", user |-> "", got |-> session(store, P(c).id)])
  /\ UNCHANGED <<setup, data, store, jars, cache, discovered, limits, overlapped>>

\* what the client makes of the answer
okResponse(c) ==
  IF P(c).url = "callback" THEN Become(c, [pc |-> "callback", url |-> "app", got |-> NoRecord])
  ELSE Done(c, "ok", identity_headers(store, P(c).got).assertion.user)
deniedResponse(c, status) == Done(c, IF status = 403 THEN "forbidden" ELSE "error", "")
\* envoy passes on the redirect to the sign in page, which a program other
\* than pomerium-cli does not follow
redirectResponse(c) ==
  IF P(c).mode \in Programs THEN End(c, "unauthenticated") ELSE Become(c, [pc |-> "sign in", got |-> NoRecord])
\* nginx asks for /verify, gets 401 and sends the page to its own sign in
Unauthenticated(c) ==
  IF P(c).mode = "nginx" THEN Become(c, [pc |-> "start authn", got |-> NoRecord]) ELSE redirectResponse(c)

\* pomerium-cli asks for a page to sign in at, and has it opened
GetJWT(c) == Become(c, [pc |-> "login", retried |-> TRUE, got |-> NoRecord])
\* a tunnel has one attempt to sign in; the token is forgotten whatever else went wrong
run(c, status) ==
  CASE status = 200 -> okResponse(c) /\ UNCHANGED cache
    [] status = 401 /\ ~P(c).retried -> GetJWT(c) /\ UNCHANGED cache
    [] status = 401 /\ P(c).retried -> End(c, "unauthenticated") /\ DeleteJWT
    [] OTHER -> deniedResponse(c, status) /\ DeleteJWT

Status(c) == Evaluate(policy, CheckRequest(c), P(c).id, P(c).got, store)
Decide(c) ==
  /\ P(c).pc = "decide"
  /\ IF P(c).mode = "tunnel" THEN run(c, Status(c))
     ELSE /\ CASE Status(c) = 200 -> okResponse(c)
               [] Status(c) = 401 -> Unauthenticated(c)
               [] OTHER -> deniedResponse(c, Status(c))
          /\ UNCHANGED cache
  /\ UNCHANGED <<setup, data, store, jars, discovered, limits, overlapped>>

-----------------------------------------------------------------------------
(* Proxy pages (proxy/handlers.go, proxy/forward_auth.go) *)

\* forward auth: to the sign in page, to come back to the page itself
startAuthN(c) ==
  /\ P(c).pc = "start authn"
  /\ Become(c, [pc |-> "sign in"])
  /\ UNCHANGED <<setup, data, store, jars, cache, discovered, limits, overlapped>>

\* the session handed over in the URL becomes the route's
\* mutant: into the cookies of the authenticate service
saveCallbackSessionElsewhere(c) == jars' = [jars EXCEPT !.auth = SaveSession(@, P(c).token)]
saveCallbackSession(c) == jars' = [jars EXCEPT !.route = SaveSession(@, P(c).token)]
\* the URL is signed and valid for some minutes; programs are sent the token
SignedURLValidate(c) == ~P(c).late
ValidateSignature(c, handled) == IF SignedURLValidate(c) THEN handled ELSE End(c, "error") /\ UNCHANGED jars
Callback(c) ==
  /\ P(c).pc = "callback" /\ ~isForwardAuth(c)
  /\ ValidateSignature(c,
          /\ saveCallbackSession(c)
          /\ Become(c, IF P(c).mode \in Programs THEN [pc |-> "receive"] ELSE [pc |-> "check", token |-> NoSession]))
  /\ UNCHANGED <<setup, data, store, cache, discovered, limits, overlapped>>
ProgrammaticLogin(c) == Become(c, [pc |-> "sign in"])
runOpenBrowser(c) ==
  /\ P(c).pc = "login"
  /\ \/ ProgrammaticLogin(c) /\ UNCHANGED limits
     \/ Fault /\ End(c, "error")
  /\ UNCHANGED <<setup, data, store, jars, cache, discovered, overlapped>>
\* the local server pomerium-cli and other programs have the token sent to
runHTTPServer(c) ==
  /\ P(c).pc = "receive"
  /\ CASE P(c).mode = "tunnel" -> StoreJWT(P(c).token)
       [] P(c).mode = "kubectl" -> saveCachedCredential(P(c).token)
       [] OTHER -> UNCHANGED cache
  /\ IF P(c).mode = "api"
     THEN Become(c, [mode |-> "api", header |-> P(c).token, reply |-> "token"] ++ Fresh)
     ELSE Become(c, [pc |-> "check", header |-> P(c).token, token |-> NoSession])
  /\ UNCHANGED <<setup, data, store, jars, discovered, limits, overlapped>>
\* nginx: saves the session, and answers 401 to have the page sent on
nginxCallback(c) ==
  /\ P(c).pc = "callback" /\ P(c).mode = "nginx"
  /\ saveCallbackSession(c)
  /\ Become(c, [pc |-> "post callback", token |-> NoSession])
  /\ UNCHANGED <<setup, data, store, cache, discovered, limits, overlapped>>
nginxPostCallbackRedirect(c) ==
  /\ P(c).pc = "post callback"
  /\ Become(c, [pc |-> "check"])
  /\ UNCHANGED <<setup, data, store, jars, cache, discovered, limits, overlapped>>
\* traefik: the callback is a page like any other, and was checked
forwardedURIHeaderCallback(c) ==
  /\ P(c).pc = "callback" /\ P(c).mode = "traefik"
  /\ saveCallbackSession(c)
  /\ Become(c, [pc |-> "check", token |-> NoSession])
  /\ UNCHANGED <<setup, data, store, cache, discovered, limits, overlapped>>

\* on to the dashboard, where there is a button to sign out
ProxySignOut(c) ==
  /\ P(c).pc = "proxy sign out"
  /\ jars' = [jars EXCEPT !.route = ClearSession(@)]
  /\ Become(c, [pc |-> "dashboard"])
  /\ UNCHANGED <<setup, data, store, cache, discovered, limits, overlapped>>

-----------------------------------------------------------------------------
(* The authenticate service (authenticate/handlers.go) *)
Pages == {"sign in", "sign out", "dashboard"}
AuthSession == getSessionFromCtx(jars.auth, NothingCarried)
\* the databroker vouches for the session
VerifySession == Live(AuthSession)

\* the token for the route goes with the redirect; traefik has it checked
SignIn(c) ==
  /\ P(c).pc = "sign in" /\ VerifySession
  /\ jars' = [jars EXCEPT !.auth = SaveSession(@, AuthSession)]
  /\ Become(c, [token |-> AuthSession, late |-> FALSE] ++
               IF P(c).mode = "traefik" THEN [pc |-> "check", url |-> "callback"] ELSE [pc |-> "callback"])
  /\ UNCHANGED <<setup, data, store, cache, discovered, limits, overlapped>>
userInfo(c) ==
  /\ P(c).pc = "dashboard" /\ VerifySession
  /\ Done(c, "page", GetRecordData(broker, "session", AuthSession).user)
  /\ UNCHANGED <<setup, data, store, jars, cache, discovered, limits, overlapped>>
\* the cookie goes whether or not the session can be deleted; what the
\* provider says to the revocation of its tokens is only logged
revokeSession ==
  /\ jars' = [jars EXCEPT !.auth = ClearSession(@)]
  /\ \/ Delete(GetRecordData(broker, "session", AuthSession)) /\ UNCHANGED limits
     \/ Fault /\ UNCHANGED data
SignOut(c) ==
  /\ P(c).pc = "sign out" /\ VerifySession
  /\ revokeSession
  /\ clients' = [Disturbed({AuthSession}) EXCEPT ![c] = [reply |-> "signed out", mode |-> P(c).mode] ++ Fresh]
  /\ UNCHANGED <<setup, store, cache, discovered, overlapped>>

\* GetProvider asks the provider for its endpoints once, and again after a failure
GetProvider == discovered' = (setup.provider = "oidc" \/ discovered)
\* no session, or one the databroker does not vouch for: a script gets 401, a
\* page is sent to the provider
reauthenticateOrFail(c) ==
  /\ P(c).pc \in Pages
  /\ \/ ~VerifySession /\ UNCHANGED limits
     \/ VerifySession /\ Fault
  /\ IF P(c).mode = "xhr"
     THEN End(c, "unauthenticated") /\ UNCHANGED <<jars, discovered>>
     ELSE /\ jars' = [jars EXCEPT !.auth = ClearSession(@)]
          /\ Become(c, [pc |-> "idp", via |-> P(c).pc, late |-> FALSE])
          /\ GetProvider
  /\ UNCHANGED <<setup, data, store, cache, overlapped>>
ProviderFails(c) ==
  /\ P(c).pc \in Pages /\ P(c).mode # "xhr" /\ ~VerifySession
  /\ setup.provider = "oidc" /\ ~discovered /\ Fault
  /\ jars' = [jars EXCEPT !.auth = ClearSession(@)]
  /\ End(c, "error")
  /\ UNCHANGED <<setup, data, store, cache, discovered, overlapped>>

\* the user signs in at the provider, which becomes a session with an
\* identifier of its own, or does not
IdPAnswers(c) ==
  /\ P(c).pc = "idp"
  /\ \E s \in setup.sessions \ used :
       used' = used \cup {s} /\ Become(c, [pc |-> "oauth", id |-> s])
  /\ UNCHANGED <<setup, data, store, jars, cache, discovered, limits, overlapped>>
IdPDeclines(c) ==
  /\ P(c).pc = "idp"
  /\ End(c, "declined")
  /\ UNCHANGED <<setup, data, store, jars, cache, discovered, limits, overlapped, used>>

\* what the providers tell about a user: OpenID Connect takes the mail
\* attribute for a missing e-mail address, GitHub tells a verified one
oidcUserInfo(profile) == IF profile.email # "" THEN profile.email ELSE profile.mail
githubUserEmail(profile) == IF profile.verified THEN profile.email ELSE ""
\* name and e-mail address have fields of their own, the rest are claims
UnmarshalUser(u, email, raw) == User(u, email, {c \in raw : c[1] \notin {"name", "email"}})
UserInfo(provider, u) ==
  IF provider = "oidc" THEN UnmarshalUser(u, oidcUserInfo(Profiles[u]), Profiles[u].claims)
  ELSE UnmarshalUser(u, githubUserEmail(Profiles[u]), githubUserInfo(Profiles[u]))
UpdateUserInfo(u) == UserInfo(setup.provider, u)

\* identifiers of sessions are their own, users have one, and a user who is
\* known from the beginning is known by the profile the provider still tells
ASSUME AccountsAssumption ==
  /\ \A r \in Accounts : r.type \in {"account", "user", "directory", "group"} /\ r.id # ""
  /\ \A s \in DOMAIN Owner : Owner[s] # "" /\ s \notin {"", NoSession, Malformed}
  /\ \A r \in Accounts : r.type = "account" => r.id \notin DOMAIN Owner \cup {NoSession}
  /\ \A t \in Setups : /\ t.sessions \subseteq DOMAIN Owner
                       /\ \A c \in Clients : "account" \in t.modes[c] => \E a \in Accounts : a.type = "account"
                       /\ \A s \in t.sessions, r \in Accounts :
                             r.type = "user" /\ r.id = Owner[s] => r = UserInfo(t.provider, r.id)

\* the code is redeemed before the time stamp of the state is looked at
ValidTimestamp(c) == ~P(c).late
getOAuthCallback(c) ==
  /\ P(c).pc = "oauth"
  /\ \/ Fault /\ End(c, "error")
     \/ /\ IF ValidTimestamp(c) THEN Become(c, [pc |-> "save user"]) ELSE End(c, "error")
        /\ UNCHANGED limits
  /\ UNCHANGED <<setup, data, store, jars, cache, discovered, overlapped, used>>
\* a user the databroker does not have, or does not answer for, is created
SaveUser(c) ==
  LET id == Owner[P(c).id]
      known == GetRecordData(broker, "user", id) # NoRecord
  IN /\ P(c).pc = "save user"
     /\ \/ known /\ Become(c, [pc |-> "save session"]) /\ UNCHANGED <<data, limits>>
        \/ ~known /\ Put(UpdateUserInfo(id)) /\ Become(c, [pc |-> "save session"]) /\ UNCHANGED limits
        \/ known /\ Fault /\ Put(UpdateUserInfo(id)) /\ Become(c, [pc |-> "save session"])
        \/ ~known /\ Fault /\ End(c, "error") /\ UNCHANGED data
     /\ UNCHANGED <<setup, store, jars, cache, discovered, overlapped, used>>
saveSessionToDataBroker(c) ==
  /\ P(c).pc = "save session"
  /\ \/ Put(Session(P(c).id)) /\ Become(c, [pc |-> "refresh user"]) /\ UNCHANGED limits
     \/ Fault /\ End(c, "error") /\ UNCHANGED data
  /\ UNCHANGED <<setup, store, jars, cache, discovered, overlapped, used>>
\* the directory's failure is only logged; back to the page asked for
RefreshUser(c) ==
  /\ P(c).pc = "refresh user"
  /\ \/ Put(DirectoryUser(Owner[P(c).id], Directory[Owner[P(c).id]])) /\ UNCHANGED limits
     \/ Fault /\ UNCHANGED data
  /\ jars' = [jars EXCEPT !.auth = SaveSession(@, P(c).id)]
  /\ Become(c, [pc |-> P(c).via, via |-> "", id |-> NoSession])
  /\ UNCHANGED <<setup, store, cache, discovered, overlapped, used>>

\* the minutes a redirect may take go by
Tarry(c) ==
  /\ P(c).pc \in {"idp", "oauth", "callback"} /\ ~P(c).late
  /\ Become(c, [late |-> TRUE])
  /\ UNCHANGED <<setup, data, store, jars, cache, discovered, limits, overlapped, used>>

-----------------------------------------------------------------------------
(* The databroker and the syncer of authorize (authorize/sync.go) *)
InFlight == {P(c).got.id : c \in {d \in Clients : P(d).pc = "put session"}}
UpdateRecords ==
  /\ feed # <<>> /\ feed' = Tail(feed)
  /\ LET change == Head(feed)
     IN IF change.clear
        THEN /\ store' = {}
             /\ overlapped' = overlapped \cup InFlight
             /\ clients' = Disturbed(DOMAIN Owner)
        ELSE /\ store' = UpdateRecord(store, change.record, change.deleted)
             /\ overlapped' = overlapped \cup (IF change.deleted THEN InFlight \cap {change.record.id} ELSE {})
             /\ UNCHANGED clients
  /\ UNCHANGED <<setup, broker, jars, cache, discovered, limits, used>>
\* the identity manager deletes a session
ExpireSession ==
  \E s \in {r \in broker : r.type = "session"} :
    /\ Delete(s)
    /\ clients' = Disturbed({s.id})
    /\ UNCHANGED <<setup, store, jars, cache, discovered, limits, overlapped, used>>
\* records in memory are lost, and the new server version clears the store
RestartBroker ==
  /\ restarts < setup.restarts /\ restarts' = restarts + 1
  /\ broker' = {} /\ feed' = <<Clear>>
  /\ clients' = Disturbed(DOMAIN Owner)
  /\ UNCHANGED <<setup, store, jars, cache, discovered, faults, overlapped, used>>

-----------------------------------------------------------------------------
CheckNext(c) == (forceSyncSession(c) \/ forceSyncUser(c) \/ EvaluateSession(c) \/ Decide(c)) /\ UNCHANGED used
ProxyNext(c) ==
  /\ \/ startAuthN(c) \/ Callback(c) \/ nginxCallback(c) \/ nginxPostCallbackRedirect(c)
     \/ forwardedURIHeaderCallback(c) \/ ProxySignOut(c) \/ runOpenBrowser(c) \/ runHTTPServer(c)
  /\ UNCHANGED used
AuthenticateNext(c) ==
  \/ /\ SignIn(c) \/ userInfo(c) \/ SignOut(c) \/ reauthenticateOrFail(c) \/ ProviderFails(c)
     /\ UNCHANGED used
  \/ IdPAnswers(c) \/ IdPDeclines(c) \/ getOAuthCallback(c) \/ SaveUser(c)
  \/ saveSessionToDataBroker(c) \/ RefreshUser(c)
Handled(c) == CheckNext(c) \/ ProxyNext(c) \/ AuthenticateNext(c)
AccessNext ==
  \/ \E c \in Clients : Handled(c) \/ Tarry(c) \/ (Visit(c) /\ UNCHANGED used)
  \/ UpdateRecords \/ ExpireSession \/ RestartBroker
\* services answer: weak fairness of Handled(c), which is enabled until the
\* client is done; the syncer, the user and the identity manager may take for ever
Answers(c) == []<>(P(c).pc = "done") \/ []<><<Handled(c)>>_accessVars
AccessSpec == AccessInit /\ [][AccessNext]_accessVars /\ \A c \in Clients : Answers(c)

-----------------------------------------------------------------------------
(* Properties *)

\* What the forced synchronisation is for (forceSync): a session that is in
\* the databroker with its user all the while it is checked, with no failed call and no
\* clearing of the store meanwhile, is never taken for none, and the decision
\* is the one the databroker's own records would lead to, on behalf of the
\* session's user, however far behind the store is.  Groups are excepted:
\* directory records are not forced.
CalmDecided ==
  \A c \in Clients : P(c).calm =>
    /\ P(c).pc \notin {"sign in", "start authn"}
    /\ P(c).pc = "done" /\ get_allowed(policy, "groups") = {} =>
         LET status == Evaluate(policy, CheckRequest(c), P(c).id, session(broker, P(c).id), broker)
         IN /\ P(c).reply = CASE status = 200 -> "ok" [] status = 403 -> "forbidden" [] OTHER -> "error"
            /\ P(c).reply = "ok" => P(c).identity = Owner[P(c).id]

\* Once the store has applied the removal of a session, checks that begin
\* with its token are not answered on its behalf any more, whichever checks
\* and changes are under way (forceSyncSession, UpdateRecord).  The exception
\* is recorded in overlapped: a check that read the session before it was
\* removed and writes it after the removal was applied.
RemovedRefused ==
  \A c \in Clients :
    P(c).pc = "done" /\ P(c).settled /\ P(c).reply = "ok" => allow(policy, CheckRequest(c), NoRecord, {})

\* Redirects end: whoever asks for a page, follows the redirects and signs in
\* when asked gets an answer, even if the store is never brought up to date.
\* No two parts disagree for ever on whether there is a session (VerifySession
\* and Check, SaveSession and LoadSession).
SignInCompletes == \A c \in Clients : P(c).pc # "done" ~> P(c).pc = "done"
=============================================================================
