------------------------------ MODULE AccessProofs ------------------------------
(*******************************************************************************)
(* RemovedRefused and CalmDecided hold for any clients, sessions, accounts and *)
(* policies, any lag of the feed, any failed calls and restarts.  The          *)
(* invariant AccessInv relates the records of the databroker, those the        *)
(* authorize service has of them, the changes on their way between the two,    *)
(* the tokens in circulation and what each client's request has found so far.  *)
(* First what a step of one client leaves alone, then the proxy's pages, the   *)
(* authenticate service and the authorize service where they only read, then   *)
(* the steps that write records, then the environment, then the theorems.      *)
(*******************************************************************************)
EXTENDS Access, TLAPS

\* a client between the provider's answer and the session's first appearance
InCreation == {"oauth", "save user", "save session"}
Creating(c) == P(c).pc \in InCreation

\* the sessions there have been
Past == used \ {P(c).id : c \in {d \in Clients : Creating(d)}}

\* what a request may carry
AccountIds == {a.id : a \in {b \in Accounts : b.type = "account"}}

Tokens == {NoSession, Malformed} \cup AccountIds \cup Past

\* the records there can be: of the sessions of the setup, their users, and the accounts
Records ==
  Accounts \cup {NoRecord}
  \cup {Session(s) : s \in setup.sessions}
  \cup {UpdateUserInfo(Owner[s]) : s \in setup.sessions}
  \cup {DirectoryUser(Owner[s], Directory[Owner[s]]) : s \in setup.sessions}

\* what a change on its way to the store says
Changes == [clear : BOOLEAN, record : Records, deleted : BOOLEAN]

\* whether a set of records has the session, or the user
Has(db, s) == \E r \in db : r.type = "session" /\ r.id = s

HasUser(db, u) == \E r \in db : r.type = "user" /\ r.id = u

\* a change that takes the session out of the store, and a session one is on its way for
Removal(x, s) == x.clear \/ (x.deleted /\ x.record.type = "session" /\ x.record.id = s)

Pending(s) == s \in overlapped \/ \E i \in DOMAIN feed : Removal(feed[i], s)

\* records are those of the setup, and a session has one only once it was begun
RecordsInv ==
  /\ setup \in Setups /\ used \subseteq setup.sessions
  /\ broker \subseteq Records \ {NoRecord} /\ store \subseteq Records \ {NoRecord}
  /\ \A r \in broker \cup store : r.type = "session" => r.id \in Past

\* a deletion on its way is of a session the databroker no longer has, and a session
\* that was sent and is no longer there has a removal behind it
FeedInv ==
  /\ feed \in Seq(Changes)
  /\ \A i \in DOMAIN feed :
       LET r == feed[i].record
       IN /\ feed[i].clear \/ r # NoRecord
          /\ feed[i].clear => r = NoRecord /\ ~feed[i].deleted
          /\ r.type = "session" => r.id \in Past
          /\ feed[i].deleted => r.type = "session" /\ ~Has(broker, r.id)
          /\ r.type = "session" /\ ~feed[i].deleted /\ ~Has(broker, r.id) =>
               \E j \in DOMAIN feed : j > i /\ Removal(feed[j], r.id)

\* the store may have a session the databroker lacks only while its removal is pending
StoreInv == \A r \in store : r.type = "session" /\ ~Has(broker, r.id) => Pending(r.id)

\* cookies and the cached credentials hold tokens of past sessions
Jars(j, tokens) ==
  /\ DOMAIN j = {"auth", "route"}
  /\ \A x \in {"auth", "route"} : \A i \in DOMAIN j[x] : j[x][i].id \in tokens

Cache(k, tokens) == DOMAIN k = {"jwt", "credential"} /\ k.jwt \in tokens /\ k.credential \in tokens

\* every token in circulation is none, malformed, an account's or of a past session
TokenInv ==
  /\ Jars(jars, Tokens) /\ Cache(cache, Tokens)
  /\ \A c \in Clients : P(c).header \in Tokens /\ P(c).token \in Tokens

\* the parts of a client's state, and the stages of a check
Fields == {"pc", "mode", "request", "url", "id", "user", "got", "header", "token", "via", "retried", "late",
           "calm", "settled", "reply", "identity"}

SyncUserStages == {"sync user", "get user", "put user"}

SyncStages == {"get session", "put session", "read session"} \cup SyncUserStages

CheckStages == SyncStages \cup {"evaluate", "decide"}

\* what a client's stage says of the session it is about
Stage(q) ==
  /\ DOMAIN q = Fields
  /\ q.pc \in InCreation => q.id \in used
  /\ q.pc = "refresh user" => q.id \in Past
  /\ q.pc \in InCreation \cup {"idp", "refresh user"} => q.via \in Pages
  /\ q.pc \in CheckStages => q.id \in Tokens
  /\ q.pc = "put session" => q.got = Session(q.id) /\ q.id \in Past /\ (Has(broker, q.id) \/ Pending(q.id))
  /\ q.pc = "put user" => q.got \in Records \ {NoRecord} /\ q.got.type = "user" /\ q.got.id = q.user

\* the request the policy is evaluated for
RequestOf(q) == [pomerium |-> q.url = "callback", ca |-> getDownstreamClientCA] ++ q.request

\* a check that began after the removal was settled has found no session
Refused(q) ==
  q.settled =>
    /\ q.pc \notin SyncStages \ {"get session"}
    /\ q.pc = "get session" => q.id \in Past /\ ~Has(broker, q.id)
    /\ q.pc \in {"evaluate", "decide"} => q.id = NoSession
    /\ q.pc = "decide" => q.got = NoRecord
    /\ q.pc = "done" /\ q.reply = "ok" => allow(policy, RequestOf(q), NoRecord, {})

\* the answer to a request with session s, of the user as the provider tells
Answer(s, r) == Evaluate(policy, r, s, Session(s), {UpdateUserInfo(Owner[s])})

\* how a status is answered
Reply(status) == CASE status = 200 -> "ok" [] status = 403 -> "forbidden" [] OTHER -> "error"

\* a policy without groups
NoGroups == get_allowed(policy, "groups") = {}

\* where a request is between two checks
Waiting == {"check", "callback", "post callback", "receive"}

\* a check whose session stayed in the databroker with its user has found both
Calm(q) ==
  q.calm =>
    /\ q.pc \in CheckStages \cup Waiting \cup {"done"}
    /\ Has(broker, q.id) /\ HasUser(broker, Owner[q.id])
    /\ q.pc \in SyncUserStages => q.user = Owner[q.id]
    /\ q.pc \in SyncUserStages \cup {"read session", "evaluate", "decide"} => Has(store, q.id)
    /\ q.pc \in {"evaluate", "decide"} => HasUser(store, Owner[q.id])
    /\ q.pc = "decide" => q.got = Session(q.id)
    /\ q.pc = "done" /\ NoGroups =>
         /\ q.reply = Reply(Answer(q.id, RequestOf(q)))
         /\ q.reply = "ok" => q.identity = Owner[q.id]

ClientOK(q) == Stage(q) /\ Refused(q) /\ Calm(q)

\* all of it for every client; no two clients create the same session
ClientsInv ==
  /\ DOMAIN clients = Clients
  /\ \A c \in Clients : ClientOK(clients[c])
  /\ \A c, d \in Clients : c # d /\ Creating(c) /\ Creating(d) => P(c).id # P(d).id

\* the inductive invariant
AccessInv == RecordsInv /\ FeedInv /\ StoreInv /\ TokenInv /\ ClientsInv

-----------------------------------------------------------------------------

\* what depends on the setup alone
LEMMA SetupKept ==
  ASSUME setup' = setup
  PROVE  /\ Records' = Records /\ policy' = policy /\ NoGroups' = NoGroups
         /\ \A s : Session(s)' = Session(s)
         /\ \A q : RequestOf(q)' = RequestOf(q)
         /\ \A s, r : Answer(s, r)' = Answer(s, r)
<1>1. policy' = policy
  BY Zenon DEF policy
<1>2. \A s : Session(s)' = Session(s)
  BY Zenon DEF Session, Authenticate
<1>3. \A u : UpdateUserInfo(u)' = UpdateUserInfo(u)
  BY Zenon DEF UpdateUserInfo
<1>4. Records' = Records
  BY <1>2, <1>3, SMT, Zenon DEF Records
<1>5. \A q : RequestOf(q)' = RequestOf(q)
  BY <1>1, Zenon DEF RequestOf, getDownstreamClientCA
<1>6. \A s, r : Answer(s, r)' = Answer(s, r)
  BY <1>1, <1>2, <1>3, Zenon DEF Answer
<1> QED BY <1>1, <1>2, <1>4, <1>5, <1>6, Zenon DEF NoGroups

\* tokens stay tokens as sessions are added
LEMMA TokensKept ==
  ASSUME Past \subseteq Past' PROVE Tokens \subseteq Tokens'
  BY Zenon DEF Tokens

\* what is known of a client survives a step of the others that keeps the records it relies on
LEMMA Frame ==
  ASSUME NEW q, ClientOK(q), setup' = setup, used \subseteq used', Past \subseteq Past',
         q.pc = "put session" /\ (Has(broker, q.id) \/ Pending(q.id)) => Has(broker, q.id)' \/ Pending(q.id)',
         q.settled /\ q.pc = "get session" => ~Has(broker, q.id)',
         q.calm => /\ Has(broker, q.id)' /\ HasUser(broker, Owner[q.id])'
                   /\ Has(store, q.id) => Has(store, q.id)'
                   /\ HasUser(store, Owner[q.id]) => HasUser(store, Owner[q.id])'
  PROVE  ClientOK(q)'
<1>1. Tokens \subseteq Tokens'
  BY TokensKept, Zenon
<1>2. /\ Records' = Records /\ policy' = policy /\ NoGroups' = NoGroups
      /\ \A s : Session(s)' = Session(s)
      /\ \A p : RequestOf(p)' = RequestOf(p)
      /\ \A s, r : Answer(s, r)' = Answer(s, r)
  BY SetupKept, Zenon
<1>3. Stage(q)'
  BY <1>1, <1>2, Zenon DEF ClientOK, Stage
<1>4. Refused(q)'
  BY <1>1, <1>2, Zenon DEF ClientOK, Refused
<1>5. Calm(q)'
  BY <1>2, Zenon DEF ClientOK, Calm
<1> QED BY <1>3, <1>4, <1>5, Zenon DEF ClientOK

\* steps of the check's own data leave the rest alone
LEMMA QuietFrame ==
  ASSUME NEW q, ClientOK(q), UNCHANGED <<setup, broker, feed, store, overlapped>>, used \subseteq used', Past \subseteq Past'
  PROVE  ClientOK(q)'
<1>1. \A s : (Has(broker, s)' <=> Has(broker, s)) /\ (Has(store, s)' <=> Has(store, s)) /\ (Pending(s)' <=> Pending(s))
  BY Zenon DEF Has, Pending
<1>2. \A u : (HasUser(broker, u)' <=> HasUser(broker, u)) /\ (HasUser(store, u)' <=> HasUser(store, u))
  BY Zenon DEF HasUser
<1>3. (q.settled /\ q.pc = "get session" => ~Has(broker, q.id)) /\ (q.calm => Has(broker, q.id) /\ HasUser(broker, Owner[q.id]))
  BY Zenon DEF ClientOK, Refused, Calm
<1> QED BY <1>1, <1>2, <1>3, Frame, Zenon

\* one client moves, the others stay
LEMMA Moved ==
  ASSUME NEW c \in Clients, NEW q, DOMAIN clients = Clients, clients' = [clients EXCEPT ![c] = q]
  PROVE  /\ DOMAIN clients' = Clients /\ clients'[c] = q
         /\ \A d \in Clients : d # c => clients'[d] = clients[d]
  BY Zenon

\* sessions do not leave the past: an identifier is given to one client, once
LEMMA PastGrows ==
  ASSUME used \subseteq used',
         \A d \in Clients : clients'[d].pc \in InCreation =>
           \/ clients[d].pc \in InCreation /\ clients'[d].id = clients[d].id
           \/ clients'[d].id \notin used
  PROVE  Past \subseteq Past'
<1>1. SUFFICES ASSUME NEW x \in Past, NEW d \in Clients, Creating(d)', x = P(d)'.id PROVE FALSE
  BY Zenon DEF Past
<1>2. x \in used
  BY Zenon DEF Past
<1>3. clients[d].pc \in InCreation /\ clients'[d].id = clients[d].id
  BY <1>1, <1>2, Zenon DEF Creating, P
<1> QED BY <1>1, <1>3, Zenon DEF Past, Creating, P

\* the records' part of the invariant when no record changes
LEMMA DataKept ==
  ASSUME RecordsInv, FeedInv, StoreInv, UNCHANGED <<setup, broker, feed, store, overlapped>>,
         used' \subseteq setup.sessions, Past \subseteq Past'
  PROVE  RecordsInv' /\ FeedInv' /\ StoreInv'
<1>1. Records' = Records
  BY SetupKept, Zenon
<1>2. \A s : (Has(broker, s)' <=> Has(broker, s)) /\ (Pending(s)' <=> Pending(s))
  BY Zenon DEF Has, Pending
<1>3. Changes' = Changes
  BY <1>1, Zenon DEF Changes
<1>4. RecordsInv'
  BY <1>1, Zenon DEF RecordsInv
<1>5. FeedInv'
  BY <1>2, <1>3, Zenon DEF FeedInv
<1>6. StoreInv'
  BY <1>2, Zenon DEF StoreInv
<1> QED BY <1>4, <1>5, <1>6, Zenon

\* the tokens' part of the invariant
LEMMA TokensStep ==
  ASSUME Tokens \subseteq Tokens', Jars(jars', Tokens), Cache(cache', Tokens),
         \A c \in Clients : clients'[c].header \in Tokens /\ clients'[c].token \in Tokens
  PROVE  TokenInv'
<1>1. PICK a, b : a = Tokens /\ b = Tokens'
  BY Zenon
<1>2. \A j : Jars(j, a) => Jars(j, b)
  BY <1>1, Zenon DEF Jars
<1>3. \A k : Cache(k, a) => Cache(k, b)
  BY <1>1, Zenon DEF Cache
<1>4. Jars(jars', b) /\ Cache(cache', b)
  BY <1>1, <1>2, <1>3, Zenon
<1>5. \A c \in Clients : P(c)'.header \in b /\ P(c)'.token \in b
  BY <1>1, Zenon DEF P
<1> QED BY <1>1, <1>4, <1>5, Zenon DEF TokenInv

\* the clients after a step in which one of them becomes q and the others keep
\* what they have
LEMMA ClientsStep ==
  ASSUME ClientsInv, NEW c \in Clients, NEW q, clients' = [clients EXCEPT ![c] = q], ClientOK(q)',
         \A p : ClientOK(p) => ClientOK(p)',
         q.pc \in InCreation => (P(c).pc \in InCreation /\ q.id = P(c).id) \/ q.id \notin used
  PROVE  ClientsInv'
<1>1. /\ DOMAIN clients' = Clients /\ clients'[c] = q
      /\ \A d \in Clients : d # c => clients'[d] = clients[d]
  BY Moved, Zenon DEF ClientsInv
<1>2. ASSUME NEW d \in Clients PROVE ClientOK(clients[d])'
  <2>1. CASE d = c
    BY <1>1, <2>1, Zenon
  <2>2. CASE d # c
    <3>1. PICK p : p = clients[d]
      BY Zenon
    <3>2. ClientOK(p)
      BY <3>1, Zenon DEF ClientsInv
    <3>3. ClientOK(p)'
      BY <3>2, Zenon
    <3>4. clients'[d] = p
      BY <1>1, <2>2, <3>1, Zenon
    <3> QED BY <3>3, <3>4, Zenon
  <2> QED BY <2>1, <2>2, Zenon
<1>3. ASSUME NEW d \in Clients, NEW e \in Clients, d # e, Creating(d)', Creating(e)' PROVE P(d)'.id # P(e)'.id
  <2>1. \A a \in Clients : Creating(a) => P(a).id \in used
    BY Zenon DEF ClientsInv, ClientOK, Stage, Creating, P
  <2>2. \A a \in Clients : Creating(a)' => (Creating(a) /\ P(a)'.id = P(a).id) \/ (a = c /\ P(a)'.id \notin used)
    BY <1>1, Zenon DEF Creating, P
  <2>3. Creating(d) /\ Creating(e) => P(d).id # P(e).id
    BY <1>3, Zenon DEF ClientsInv
  <2> QED BY <1>3, <2>1, <2>2, <2>3, Zenon
<1> QED BY <1>1, <1>2, <1>3, Zenon DEF ClientsInv

\* what a client has after Become
Turned(c, f, q) ==
  /\ clients' = [clients EXCEPT ![c] = q] /\ DOMAIN q = Fields
  /\ \A x \in DOMAIN f : q[x] = f[x]
  /\ \A x \in Fields \ DOMAIN f : q[x] = P(c)[x]

\* a step that changes neither records nor what is on its way
LEMMA QuietStep ==
  ASSUME AccessInv, NEW c \in Clients, NEW q, clients' = [clients EXCEPT ![c] = q],
         UNCHANGED <<setup, broker, feed, store, overlapped, used>>,
         ClientOK(q), q.pc \in InCreation => P(c).pc \in InCreation /\ q.id = P(c).id,
         q.header \in Tokens, q.token \in Tokens, Jars(jars', Tokens), Cache(cache', Tokens)
  PROVE  AccessInv'
<1>1. /\ DOMAIN clients' = Clients /\ clients'[c] = q
      /\ \A d \in Clients : d # c => clients'[d] = clients[d]
  BY Moved, Zenon DEF AccessInv, ClientsInv
<1>2. Past \subseteq Past'
  <2>1. \A d \in Clients : clients'[d].pc \in InCreation => clients[d].pc \in InCreation /\ clients'[d].id = clients[d].id
    BY <1>1, Zenon DEF P
  <2> QED BY <2>1, PastGrows, Zenon
<1>3. used' \subseteq setup.sessions
  BY Zenon DEF AccessInv, RecordsInv
<1>4. RecordsInv' /\ FeedInv' /\ StoreInv'
  BY <1>2, <1>3, DataKept, Zenon DEF AccessInv
<1>5. \A d \in Clients : clients'[d].header \in Tokens /\ clients'[d].token \in Tokens
  BY <1>1, Zenon DEF AccessInv, TokenInv, P
<1>6. TokenInv'
  BY <1>2, <1>5, TokensKept, TokensStep, Zenon
<1>7. used \subseteq used'
  BY Zenon
<1>8. \A p : ClientOK(p) => ClientOK(p)'
  BY <1>2, <1>7, QuietFrame, Zenon
<1>9. ClientsInv'
  BY <1>8, ClientsStep, Zenon DEF AccessInv
<1> QED BY <1>4, <1>6, <1>9, Zenon DEF AccessInv

\* Become overrides the fields it names
LEMMA Becomes ==
  ASSUME NEW c \in Clients, NEW f, Become(c, f), DOMAIN P(c) = Fields, DOMAIN f \subseteq Fields
  PROVE  \E q : Turned(c, f, q)
<1>1. clients' = [clients EXCEPT ![c] = f ++ P(c)]
  BY Zenon DEF Become, P
<1>2. PICK p, q : p = P(c) /\ q = f ++ p
  BY Zenon
<1>3. /\ DOMAIN q = DOMAIN f \cup DOMAIN p
      /\ \A x \in DOMAIN f : q[x] = f[x]
      /\ \A x \in DOMAIN p \ DOMAIN f : q[x] = p[x]
  BY <1>2, Zenon DEF ++
<1>4. DOMAIN q = Fields
  BY <1>2, <1>3, Zenon
<1>5. Turned(c, f, q)
  BY <1>1, <1>2, <1>3, <1>4, Zenon DEF Turned
<1> QED BY <1>5, Zenon

\* a client that starts over
LEMMA FreshFields == DOMAIN Fresh = Fields /\ Fresh.pc = "done" /\ Fresh.url = "app" /\ Fresh.header = NoSession
                     /\ Fresh.token = NoSession /\ Fresh.calm = FALSE /\ Fresh.settled = FALSE
  BY Zenon DEF Fresh, Fields

\* after an answer that is not the check's nothing is claimed of the client
LEMMA EndOK ==
  ASSUME NEW q, DOMAIN q = Fields, q.pc = "done", ~q.calm, ~q.settled PROVE ClientOK(q)
  BY Zenon DEF ClientOK, Stage, Refused, Calm, InCreation, CheckStages, SyncStages, SyncUserStages

\* a step that ends a request
LEMMA EndStep ==
  ASSUME AccessInv, NEW c \in Clients, NEW reply, End(c, reply),
         UNCHANGED <<setup, broker, feed, store, overlapped, used>>, Jars(jars', Tokens), Cache(cache', Tokens)
  PROVE  AccessInv'
<1>1. DOMAIN P(c) = Fields
  BY Zenon DEF AccessInv, ClientsInv, ClientOK, Stage, P
<1>2. PICK f : f = [reply |-> reply, mode |-> P(c).mode] ++ Fresh
  BY Zenon
<1>3. DOMAIN f = Fields /\ DOMAIN f \subseteq Fields /\ f.pc = "done" /\ f.header = NoSession /\ f.token = NoSession /\ ~f.calm /\ ~f.settled
  BY <1>2, FreshFields, Zenon DEF ++, Fields
<1>4. Become(c, f)
  BY <1>2, Zenon DEF End
<1>5. PICK q : Turned(c, f, q)
  BY <1>1, <1>3, <1>4, Becomes, Zenon
<1>6. q.pc = "done" /\ q.header = NoSession /\ q.token = NoSession /\ ~q.calm /\ ~q.settled
  BY <1>3, <1>5, Zenon DEF Fields, Turned
<1>7. ClientOK(q)
  BY <1>5, <1>6, EndOK, Zenon DEF Turned
<1>8. q.pc \notin InCreation /\ NoSession \in Tokens
  BY <1>6, Zenon DEF InCreation, Tokens
<1> QED BY <1>5, <1>6, <1>7, <1>8, QuietStep, Zenon DEF Turned

\* the pages between checks
Between == Waiting \cup Pages \cup {"start authn", "login", "idp", "proxy sign out"}

\* between checks nothing is claimed of the client
LEMMA BetweenOK ==
  ASSUME NEW p, ClientOK(p), NEW q, DOMAIN q = Fields, q.pc \in Between, q.pc = "idp" => q.via \in Pages,
         q.calm => p.calm /\ q.id = p.id /\ q.pc \in Waiting
  PROVE  ClientOK(q)
<1>1. q.pc \notin InCreation \cup CheckStages \cup {"refresh user", "done"}
  BY Zenon DEF Between, Waiting, Pages, InCreation, CheckStages, SyncStages, SyncUserStages
<1>2. Stage(q)
  BY <1>1, Zenon DEF Stage, CheckStages, SyncStages, SyncUserStages
<1>3. Refused(q)
  BY <1>1, Zenon DEF Refused, CheckStages, SyncStages, SyncUserStages
<1>4. Calm(q)
  BY <1>1, Zenon DEF Calm, ClientOK, CheckStages, SyncStages
<1> QED BY <1>2, <1>3, <1>4, Zenon DEF ClientOK

\* a step between checks
LEMMA BetweenStep ==
  ASSUME AccessInv, NEW c \in Clients, NEW q, clients' = [clients EXCEPT ![c] = q],
         UNCHANGED <<setup, broker, feed, store, overlapped, used>>,
         DOMAIN q = Fields, q.pc \in Between, q.pc = "idp" => q.via \in Pages,
         q.calm => P(c).calm /\ q.id = P(c).id /\ q.pc \in Waiting,
         q.header \in Tokens, q.token \in Tokens, Jars(jars', Tokens), Cache(cache', Tokens)
  PROVE  AccessInv'
<1>1. PICK p : p = P(c)
  BY Zenon
<1>2. ClientOK(p)
  BY <1>1, Zenon DEF AccessInv, ClientsInv, P
<1>3. ClientOK(q)
  BY <1>1, <1>2, BetweenOK, Zenon
<1>4. q.pc \notin InCreation
  BY Zenon DEF Between, Waiting, Pages, InCreation
<1> QED BY <1>3, <1>4, QuietStep, Zenon

\* what is known of a client before its step
LEMMA Before ==
  ASSUME AccessInv, NEW c \in Clients
  PROVE  /\ DOMAIN P(c) = Fields /\ ClientOK(P(c)) /\ P(c).header \in Tokens /\ P(c).token \in Tokens
         /\ P(c).calm => P(c).pc \in CheckStages \cup Waiting \cup {"done"}
         /\ Jars(jars, Tokens) /\ Cache(cache, Tokens) /\ NoSession \in Tokens
<1>1. ClientOK(P(c)) /\ Jars(jars, Tokens) /\ Cache(cache, Tokens) /\ P(c).header \in Tokens /\ P(c).token \in Tokens
  BY Zenon DEF AccessInv, ClientsInv, TokenInv, P
<1>2. NoSession \in Tokens
  BY Zenon DEF Tokens
<1> QED BY <1>1, <1>2, Zenon DEF ClientOK, Stage, Calm

\* a step between checks, by the fields it changes
LEMMA BecomeStep ==
  ASSUME AccessInv, NEW c \in Clients, NEW f, Become(c, f),
         UNCHANGED <<setup, broker, feed, store, overlapped, used>>,
         DOMAIN f \subseteq Fields \ {"id", "calm", "settled"}, "pc" \in DOMAIN f, f.pc \in Between,
         f.pc = "idp" => "via" \in DOMAIN f /\ f.via \in Pages,
         P(c).calm => f.pc \in Waiting,
         "token" \in DOMAIN f => f.token \in Tokens, "header" \in DOMAIN f => f.header \in Tokens,
         Jars(jars', Tokens), Cache(cache', Tokens)
  PROVE  AccessInv'
<1>1. /\ DOMAIN P(c) = Fields /\ P(c).header \in Tokens /\ P(c).token \in Tokens
  BY Before, Zenon
<1>2. PICK q : Turned(c, f, q)
  BY <1>1, Becomes, Zenon
<1>3. q.pc = f.pc /\ q.id = P(c).id /\ q.calm = P(c).calm
  BY <1>2, Zenon DEF Fields, Turned
<1>4. q.pc = "idp" => q.via \in Pages
  BY <1>2, <1>3, Zenon DEF Turned
<1>5. q.header \in Tokens
  BY <1>1, <1>2, Zenon DEF Fields, Turned
<1>6. q.token \in Tokens
  BY <1>1, <1>2, Zenon DEF Fields, Turned
<1> QED BY <1>2, <1>3, <1>4, <1>5, <1>6, BetweenStep, Zenon DEF Turned

\* outside checks a client is not calm
LEMMA NotCalm ==
  ASSUME AccessInv, NEW c \in Clients,
         P(c).pc \in InCreation \cup Pages \cup {"start authn", "login", "idp", "proxy sign out", "refresh user"}
  PROVE  ~P(c).calm
  BY Before, Zenon DEF CheckStages, SyncStages, SyncUserStages, Waiting, InCreation, Pages

\* a credential that is cached
LEMMA CacheSet ==
  ASSUME NEW tokens, Cache(cache, tokens), NEW s \in tokens
  PROVE  Cache([cache EXCEPT !.jwt = s], tokens) /\ Cache([cache EXCEPT !.credential = s], tokens)
  BY Zenon DEF Cache

\* a cookie that is saved
LEMMA JarsSaved ==
  ASSUME NEW tokens, Jars(jars, tokens), NEW s \in tokens
  PROVE  /\ Jars([jars EXCEPT !.auth = SaveSession(@, s)], tokens)
         /\ Jars([jars EXCEPT !.route = SaveSession(@, s)], tokens)
         /\ Jars([jars EXCEPT !.auth = ClearSession(@)], tokens)
         /\ Jars([jars EXCEPT !.route = ClearSession(@)], tokens)
\* cookies hold what is saved in them
<1>s. ASSUME NEW jar, \A i \in DOMAIN jar : jar[i].id \in tokens
      PROVE  /\ \A i \in DOMAIN SaveSession(jar, s) : SaveSession(jar, s)[i].id \in tokens
             /\ \A i \in DOMAIN ClearSession(jar) : ClearSession(jar)[i].id \in tokens
  <2> USE <1>s
  <2>1. PICK f : /\ SaveSession(jar, s) = f ++ jar
                 /\ f = [i \in 0..(Chunks[Owner[s]] - 1) |-> [id |-> s, part |-> i + 1, canary |-> Chunks[Owner[s]] > 1 /\ i = 0]]
    BY Zenon DEF SaveSession, setCookie
  <2>2. \A i \in DOMAIN f : f[i].id = s
    BY <2>1, Zenon
  <2>3. \A i \in DOMAIN (f ++ jar) : (f ++ jar)[i].id \in tokens
    BY <2>2, Zenon DEF ++
  <2>4. \A i \in DOMAIN ClearSession(jar) : ClearSession(jar)[i].id \in tokens
    BY Zenon DEF ClearSession
  <2> QED BY <2>1, <2>3, <2>4, Zenon
<1>1. PICK a, b : a = SaveSession(jars.auth, s) /\ b = SaveSession(jars.route, s)
  BY Zenon
<1>2. PICK d, e : d = ClearSession(jars.auth) /\ e = ClearSession(jars.route)
  BY Zenon
<1>3. /\ \A i \in DOMAIN a : a[i].id \in tokens
      /\ \A i \in DOMAIN b : b[i].id \in tokens
      /\ \A i \in DOMAIN d : d[i].id \in tokens
      /\ \A i \in DOMAIN e : e[i].id \in tokens
  <2>1. /\ \A i \in DOMAIN jars.auth : jars.auth[i].id \in tokens
        /\ \A i \in DOMAIN jars.route : jars.route[i].id \in tokens
    BY Zenon DEF Jars
  <2> QED BY <1>1, <1>2, <2>1, <1>s, Zenon
<1>4. ASSUME NEW x, \A i \in DOMAIN x : x[i].id \in tokens
      PROVE  Jars([jars EXCEPT !.auth = x], tokens) /\ Jars([jars EXCEPT !.route = x], tokens)
  BY <1>4, Zenon DEF Jars
<1> QED BY <1>1, <1>2, <1>3, <1>4, Zenon

\* the cookies after a step
LEMMA JarsStep ==
  ASSUME AccessInv, NEW s \in Tokens,
         \/ jars' = jars
         \/ jars' = [jars EXCEPT !.auth = SaveSession(@, s)]
         \/ jars' = [jars EXCEPT !.route = SaveSession(@, s)]
         \/ jars' = [jars EXCEPT !.auth = ClearSession(@)]
         \/ jars' = [jars EXCEPT !.route = ClearSession(@)]
  PROVE  Jars(jars', Tokens)
<1>1. PICK t : t = Tokens
  BY Zenon
<1>2. Jars(jars, t)
  BY <1>1, Zenon DEF AccessInv, TokenInv
<1>3. /\ Jars([jars EXCEPT !.auth = SaveSession(@, s)], t)
      /\ Jars([jars EXCEPT !.route = SaveSession(@, s)], t)
      /\ Jars([jars EXCEPT !.auth = ClearSession(@)], t)
      /\ Jars([jars EXCEPT !.route = ClearSession(@)], t)
  BY <1>1, <1>2, JarsSaved, Zenon
<1> QED BY <1>1, <1>2, <1>3, Zenon

-----------------------------------------------------------------------------

\* the proxy's handlers
LEMMA ProxyNextStep ==
  ASSUME AccessInv, NEW c \in Clients
  PROVE  ProxyNext(c) => AccessInv'
<1>1. ASSUME startAuthN(c), UNCHANGED used PROVE AccessInv'
  <2> USE <1>1
  <2>1. PICK f : f = [pc |-> "sign in"] /\ Become(c, f) /\ P(c).pc = "start authn"
    BY Zenon DEF startAuthN
  <2>2. DOMAIN f = {"pc"} /\ f.pc = "sign in"
    BY <2>1, Zenon
  <2>3. UNCHANGED <<setup, broker, feed, store, overlapped, used>> /\ UNCHANGED <<jars, cache>>
    BY Zenon DEF startAuthN, data
  <2>4. ~P(c).calm
    BY <2>1, Before, Zenon DEF CheckStages, SyncStages, SyncUserStages, Waiting
  <2>5. Jars(jars', Tokens) /\ Cache(cache', Tokens)
    BY <2>3, Before, Zenon
  <2> QED BY <2>1, <2>2, <2>3, <2>4, <2>5, BecomeStep, Zenon DEF Fields, Between, Pages
<1>2. ASSUME Callback(c), UNCHANGED used PROVE AccessInv'
  <2> USE <1>2
  <2>1. UNCHANGED <<setup, broker, feed, store, overlapped, used>> /\ UNCHANGED cache /\ P(c).pc = "callback"
    BY Zenon DEF Callback, data
  <2>2. P(c).token \in Tokens /\ Cache(cache', Tokens)
    BY <2>1, Before, Zenon
  <2>3. CASE End(c, "error") /\ UNCHANGED jars
    <3>1. Jars(jars', Tokens)
      BY <2>2, <2>3, JarsStep, Zenon
    <3> QED BY <2>1, <2>2, <2>3, <3>1, EndStep, Zenon
  <2>4. CASE /\ saveCallbackSession(c)
             /\ Become(c, IF P(c).mode \in Programs THEN [pc |-> "receive"] ELSE [pc |-> "check", token |-> NoSession])
    <3>1. PICK f : Become(c, f) /\ f = IF P(c).mode \in Programs THEN [pc |-> "receive"] ELSE [pc |-> "check", token |-> NoSession]
      BY <2>4, Zenon
    <3>2. /\ DOMAIN f \subseteq {"pc", "token"} /\ "pc" \in DOMAIN f /\ f.pc \in {"receive", "check"}
          /\ "token" \in DOMAIN f => f.token = NoSession
      BY <3>1, Zenon
    <3>3. Jars(jars', Tokens)
      BY <2>2, <2>4, JarsStep, Zenon DEF saveCallbackSession
    <3>4. NoSession \in Tokens
      BY Before, Zenon
    <3> QED BY <2>1, <2>2, <3>1, <3>2, <3>3, <3>4, BecomeStep, Zenon DEF Fields, Between, Waiting
  <2> QED BY <2>3, <2>4, Zenon DEF Callback, ValidateSignature
<1>3. ASSUME nginxCallback(c), UNCHANGED used PROVE AccessInv'
  <2> USE <1>3
  <2>1. UNCHANGED <<setup, broker, feed, store, overlapped, used>> /\ UNCHANGED cache /\ saveCallbackSession(c)
    BY Zenon DEF nginxCallback, data
  <2>2. P(c).token \in Tokens /\ Cache(cache', Tokens) /\ NoSession \in Tokens
    BY <2>1, Before, Zenon
  <2>3. PICK f : Become(c, f) /\ f = [pc |-> "post callback", token |-> NoSession]
    BY Zenon DEF nginxCallback
  <2>4. DOMAIN f = {"pc", "token"} /\ f.pc = "post callback" /\ f.token = NoSession
    BY <2>3, Zenon
  <2>5. Jars(jars', Tokens)
    BY <2>1, <2>2, JarsStep, Zenon DEF saveCallbackSession
  <2> QED BY <2>1, <2>2, <2>3, <2>4, <2>5, BecomeStep, Zenon DEF Fields, Between, Waiting
<1>4. ASSUME nginxPostCallbackRedirect(c), UNCHANGED used PROVE AccessInv'
  <2> USE <1>4
  <2>1. UNCHANGED <<setup, broker, feed, store, overlapped, used>> /\ UNCHANGED <<jars, cache>>
    BY Zenon DEF nginxPostCallbackRedirect, data
  <2>2. Jars(jars', Tokens) /\ Cache(cache', Tokens)
    BY <2>1, Before, Zenon
  <2>3. PICK f : Become(c, f) /\ f = [pc |-> "check"]
    BY Zenon DEF nginxPostCallbackRedirect
  <2>4. DOMAIN f = {"pc"} /\ f.pc = "check"
    BY <2>3, Zenon
  <2> QED BY <2>1, <2>2, <2>3, <2>4, BecomeStep, Zenon DEF Fields, Between, Waiting
<1>5. ASSUME forwardedURIHeaderCallback(c), UNCHANGED used PROVE AccessInv'
  <2> USE <1>5
  <2>1. UNCHANGED <<setup, broker, feed, store, overlapped, used>> /\ UNCHANGED cache /\ saveCallbackSession(c)
    BY Zenon DEF forwardedURIHeaderCallback, data
  <2>2. P(c).token \in Tokens /\ Cache(cache', Tokens) /\ NoSession \in Tokens
    BY <2>1, Before, Zenon
  <2>3. PICK f : Become(c, f) /\ f = [pc |-> "check", token |-> NoSession]
    BY Zenon DEF forwardedURIHeaderCallback
  <2>4. DOMAIN f = {"pc", "token"} /\ f.pc = "check" /\ f.token = NoSession
    BY <2>3, Zenon
  <2>5. Jars(jars', Tokens)
    BY <2>1, <2>2, JarsStep, Zenon DEF saveCallbackSession
  <2> QED BY <2>1, <2>2, <2>3, <2>4, <2>5, BecomeStep, Zenon DEF Fields, Between, Waiting
<1>6. ASSUME ProxySignOut(c), UNCHANGED used PROVE AccessInv'
  <2> USE <1>6
  <2>1. /\ UNCHANGED <<setup, broker, feed, store, overlapped, used>> /\ UNCHANGED cache /\ P(c).pc = "proxy sign out"
        /\ jars' = [jars EXCEPT !.route = ClearSession(@)]
    BY Zenon DEF ProxySignOut, data
  <2>2. Cache(cache', Tokens) /\ NoSession \in Tokens
    BY <2>1, Before, Zenon
  <2>3. PICK f : Become(c, f) /\ f = [pc |-> "dashboard"]
    BY Zenon DEF ProxySignOut
  <2>4. DOMAIN f = {"pc"} /\ f.pc = "dashboard"
    BY <2>3, Zenon
  <2>5. Jars(jars', Tokens)
    BY <2>1, <2>2, JarsStep, Zenon
  <2>6. ~P(c).calm
    BY <2>1, NotCalm, Zenon
  <2> QED BY <2>1, <2>2, <2>3, <2>4, <2>5, <2>6, BecomeStep, Zenon DEF Fields, Between, Pages
<1>7. ASSUME runOpenBrowser(c), UNCHANGED used PROVE AccessInv'
  <2> USE <1>7
  <2>1. UNCHANGED <<setup, broker, feed, store, overlapped, used>> /\ UNCHANGED <<jars, cache>> /\ P(c).pc = "login"
    BY Zenon DEF runOpenBrowser, data
  <2>2. Jars(jars', Tokens) /\ Cache(cache', Tokens)
    BY <2>1, Before, Zenon
  <2>3. CASE End(c, "error")
    BY <2>1, <2>2, <2>3, EndStep, Zenon
  <2>4. CASE ProgrammaticLogin(c)
    <3>1. PICK f : Become(c, f) /\ f = [pc |-> "sign in"]
      BY <2>4, Zenon DEF ProgrammaticLogin
    <3>2. DOMAIN f = {"pc"} /\ f.pc = "sign in"
      BY <3>1, Zenon
    <3>3. ~P(c).calm
      BY <2>1, NotCalm, Zenon
    <3> QED BY <2>1, <2>2, <3>1, <3>2, <3>3, BecomeStep, Zenon DEF Fields, Between, Pages
  <2> QED BY <2>3, <2>4, Zenon DEF runOpenBrowser
<1>8. ASSUME runHTTPServer(c), UNCHANGED used PROVE AccessInv'
  <2> USE <1>8
  <2>1. UNCHANGED <<setup, broker, feed, store, overlapped, used>> /\ UNCHANGED jars
    BY Zenon DEF runHTTPServer, data
  <2>2. /\ P(c).token \in Tokens /\ NoSession \in Tokens /\ Cache(cache, Tokens) /\ DOMAIN P(c) = Fields
        /\ Jars(jars', Tokens)
    BY <2>1, Before, Zenon
  <2>3. Cache(cache', Tokens)
    <3>1. PICK s, t : s = P(c).token /\ t = Tokens
      BY Zenon
    <3>2. cache' = [cache EXCEPT !.jwt = s] \/ cache' = [cache EXCEPT !.credential = s] \/ cache' = cache
      BY <3>1, Zenon DEF runHTTPServer, StoreJWT, saveCachedCredential
    <3>3. Cache([cache EXCEPT !.jwt = s], t) /\ Cache([cache EXCEPT !.credential = s], t)
      BY <2>2, <3>1, CacheSet, Zenon
    <3> QED BY <2>2, <3>1, <3>2, <3>3, Zenon
  <2>4. CASE Become(c, [mode |-> "api", header |-> P(c).token, reply |-> "token"] ++ Fresh)
    <3>1. PICK f : f = [mode |-> "api", header |-> P(c).token, reply |-> "token"] ++ Fresh /\ Become(c, f)
      BY <2>4, Zenon
    <3>2. DOMAIN f = Fields /\ DOMAIN f \subseteq Fields /\ f.pc = "done" /\ f.header = P(c).token /\ f.token = NoSession /\ ~f.calm /\ ~f.settled
      BY <3>1, FreshFields, Zenon DEF ++, Fields
    <3>3. PICK q : Turned(c, f, q)
      BY <2>2, <3>1, <3>2, Becomes, Zenon
    <3>4. q.pc = "done" /\ q.header = P(c).token /\ q.token = NoSession /\ ~q.calm /\ ~q.settled
      BY <3>2, <3>3, Zenon DEF Fields, Turned
    <3>5. ClientOK(q)
      BY <3>3, <3>4, EndOK, Zenon DEF Turned
    <3>6. q.pc \notin InCreation
      BY <3>4, Zenon DEF InCreation
    <3> QED BY <2>1, <2>2, <2>3, <3>3, <3>4, <3>5, <3>6, QuietStep, Zenon DEF Turned
  <2>5. CASE Become(c, [pc |-> "check", header |-> P(c).token, token |-> NoSession])
    <3>1. PICK f : Become(c, f) /\ f = [pc |-> "check", header |-> P(c).token, token |-> NoSession]
      BY <2>5, Zenon
    <3>2. DOMAIN f = {"pc", "header", "token"} /\ f.pc = "check" /\ f.header = P(c).token /\ f.token = NoSession
      BY <3>1, Zenon
    <3> QED BY <2>1, <2>2, <2>3, <3>1, <3>2, BecomeStep, Zenon DEF Fields, Between, Waiting
  <2> QED BY <2>4, <2>5, Zenon DEF runHTTPServer
<1> QED
  BY <1>1, <1>2, <1>3, <1>4, <1>5, <1>6, <1>7, <1>8, Zenon DEF ProxyNext

\* between the provider's answer and the session's first appearance
LEMMA CreatingOK ==
  ASSUME NEW p, Stage(p), p.pc \in InCreation \cup {"idp"}, NEW q, DOMAIN q = Fields, q.pc \in InCreation, q.via = p.via,
         q.id \in used, ~q.calm
  PROVE  ClientOK(q)
<1>1. q.pc \notin CheckStages \cup {"refresh user", "done"}
  BY Zenon DEF InCreation, CheckStages, SyncStages, SyncUserStages
<1>2. Stage(q)
  BY <1>1, Zenon DEF Stage, CheckStages, SyncStages, SyncUserStages
<1>3. Refused(q)
  BY <1>1, Zenon DEF Refused, CheckStages, SyncStages, SyncUserStages
<1> QED BY <1>2, <1>3, Zenon DEF ClientOK, Calm

\* a user who waits at the provider
LEMMA TarryStep ==
  ASSUME AccessInv, NEW c \in Clients, Tarry(c) PROVE AccessInv'
<1>1. /\ UNCHANGED <<setup, broker, feed, store, overlapped, used>> /\ UNCHANGED <<jars, cache>>
      /\ P(c).pc \in {"idp", "oauth", "callback"}
  BY Zenon DEF Tarry, data
<1>2. /\ Jars(jars', Tokens) /\ Cache(cache', Tokens) /\ DOMAIN P(c) = Fields
      /\ P(c).header \in Tokens /\ P(c).token \in Tokens
  BY <1>1, Before, Zenon
<1>3. PICK f : Become(c, f) /\ f = [late |-> TRUE]
  BY Zenon DEF Tarry
<1>4. DOMAIN f = {"late"}
  BY <1>3, Zenon
<1>5. PICK q : Turned(c, f, q)
  BY <1>2, <1>3, <1>4, Becomes, Zenon DEF Fields
<1>6. PICK p : p = P(c) /\ ClientOK(p) /\ Stage(p)
  BY Before, Zenon DEF ClientOK
<1>7. /\ q.pc = p.pc /\ q.id = p.id /\ q.via = p.via /\ q.calm = p.calm
      /\ q.header = p.header /\ q.token = p.token
  BY <1>4, <1>5, <1>6, Zenon DEF Fields, Turned
<1>8. CASE p.pc = "oauth"
  <2>1. q.id \in used /\ p.pc \in InCreation
    BY <1>6, <1>7, <1>8, Zenon DEF Stage, InCreation
  <2>2. ~q.calm
    BY <1>6, <1>7, <1>8, NotCalm, Zenon DEF InCreation
  <2>3. ClientOK(q)
    BY <1>5, <1>6, <1>7, <2>1, <2>2, CreatingOK, Zenon DEF Turned
  <2> QED BY <1>1, <1>2, <1>5, <1>6, <1>7, <2>1, <2>3, QuietStep, Zenon DEF Turned
<1>9. CASE p.pc # "oauth"
  <2>1. q.pc \in Between
    BY <1>1, <1>6, <1>7, <1>9, Zenon DEF Between, Waiting
  <2>2. q.pc = "idp" => q.via \in Pages /\ ~q.calm
    BY <1>6, <1>7, NotCalm, Zenon DEF Stage
  <2>3. q.calm => q.pc \in Waiting
    BY <1>1, <1>6, <1>7, <1>9, <2>2, Zenon DEF Waiting
  <2> QED BY <1>1, <1>2, <1>5, <1>6, <1>7, <2>1, <2>2, <2>3, BetweenStep, Zenon DEF Turned
<1> QED BY <1>8, <1>9, Zenon

\* a request that begins
LEMMA VisitStep ==
  ASSUME AccessInv, NEW c \in Clients, Visit(c), UNCHANGED used PROVE AccessInv'
<1>1. UNCHANGED <<setup, broker, feed, store, overlapped, used>> /\ UNCHANGED jars
  BY Zenon DEF Visit, data
<1>2. /\ P(c).header \in Tokens /\ NoSession \in Tokens /\ Cache(cache, Tokens) /\ DOMAIN P(c) = Fields
      /\ Jars(jars', Tokens)
  BY <1>1, Before, Zenon
<1> DEFINE Header(mode, credential) ==
             CASE mode = "tunnel" -> LoadJWT
               [] mode = "kubectl" -> credential
               [] mode = "api" /\ P(c).mode = "api" -> P(c).header
               [] mode = "account" -> (CHOOSE a \in Accounts : a.type = "account").id
               [] OTHER -> NoSession
           Page(mode, header, credential) ==
             CASE mode \in {"sign out", "dashboard", "proxy sign out"} -> mode
               [] mode = "api" /\ header = NoSession -> "login"
               [] mode = "kubectl" -> kubernetesExecCredentialCmd(credential)
               [] OTHER -> "check"
<1>3. PICK mode \in setup.modes[c], r \in setup.requests, credential \in loadCachedCredential :
        /\ Become(c, [Fresh EXCEPT !.pc = Page(mode, Header(mode, credential), credential), !.mode = mode,
                                   !.request = r, !.header = Header(mode, credential)])
        /\ IF mode = "kubectl" THEN removeCachedCredential(credential) ELSE UNCHANGED cache
  BY ZenonT(60) DEF Visit
<1>4. credential \in Tokens /\ cache.jwt \in Tokens /\ cache.credential \in Tokens
  BY <1>2, Zenon DEF loadCachedCredential, Cache
<1>5. Cache(cache', Tokens)
  <2>1. PICK t, s, n : t = Tokens /\ s = cache.credential /\ n = NoSession
    BY Zenon
  <2>2. Cache([cache EXCEPT !.credential = s], t) /\ Cache([cache EXCEPT !.credential = n], t)
    BY <1>2, <1>4, <2>1, CacheSet, Zenon
  <2>3. cache' = cache \/ cache' = [cache EXCEPT !.credential = s] \/ cache' = [cache EXCEPT !.credential = n]
    BY <1>3, <2>1, Zenon DEF removeCachedCredential
  <2> QED BY <1>2, <2>1, <2>2, <2>3, Zenon
<1>6. PICK h, b : h = Header(mode, credential) /\ b = Page(mode, h, credential)
  BY Zenon
<1>7. h \in Tokens
  <2>1. mode = "account" => (CHOOSE a \in Accounts : a.type = "account").id \in Tokens
    <3>1. mode = "account" => \E a \in Accounts : a.type = "account"
      BY AccountsAssumption, Zenon DEF AccessInv, RecordsInv
    <3>2. PICK z : z = CHOOSE a \in Accounts : a.type = "account"
      BY Zenon
    <3>3. mode = "account" => z \in Accounts /\ z.type = "account"
      BY <3>1, <3>2, Zenon
    <3>4. mode = "account" => z.id \in AccountIds
      BY <3>3, Zenon DEF AccountIds
    <3> QED BY <3>2, <3>4, Zenon DEF Tokens
  <2> QED BY <1>2, <1>4, <1>6, <2>1, Zenon DEF LoadJWT
<1>8. b \in {"sign out", "dashboard", "proxy sign out", "login", "check"}
  BY <1>6, Zenon DEF kubernetesExecCredentialCmd
<1>9. PICK f : f = [Fresh EXCEPT !.pc = b, !.mode = mode, !.request = r, !.header = h] /\ Become(c, f)
  BY <1>3, <1>6, Zenon
<1> HIDE DEF Header, Page
<1>10. DOMAIN f = Fields /\ DOMAIN f \subseteq Fields /\ f.pc = b /\ f.header = h /\ f.token = NoSession /\ ~f.calm /\ ~f.settled
  BY <1>9, FreshFields, Zenon DEF Fields
<1>11. PICK q : Turned(c, f, q)
  BY <1>2, <1>9, <1>10, Becomes, Zenon
<1>12. q.pc = b /\ q.header = h /\ q.token = NoSession /\ ~q.calm
  BY <1>10, <1>11, Zenon DEF Fields, Turned
<1>13. q.pc \in Between /\ q.pc # "idp"
  BY <1>8, <1>12, Zenon DEF Between, Pages, Waiting
<1> QED BY <1>1, <1>2, <1>5, <1>7, <1>11, <1>12, <1>13, BetweenStep, Zenon DEF Turned

\* what a client has after Done
Answered(c, reply, identity, q) ==
  /\ clients' = [clients EXCEPT ![c] = q] /\ DOMAIN q = Fields /\ q.pc = "done"
  /\ q.reply = reply /\ q.identity = identity /\ q.header = P(c).header /\ q.token = NoSession
  /\ P(c).calm \/ P(c).settled =>
       /\ q.id = P(c).id /\ q.calm = P(c).calm /\ q.settled = P(c).settled
       /\ q.request = P(c).request /\ q.url = P(c).url
  /\ ~(P(c).calm \/ P(c).settled) => ~q.calm /\ ~q.settled

\* what Done changes
LEMMA DoneMoves ==
  ASSUME NEW c \in Clients, NEW reply, NEW identity, DOMAIN P(c) = Fields, Done(c, reply, identity)
  PROVE  \E q : Answered(c, reply, identity, q)
<1> DEFINE kept == {"mode", "header"} \cup (IF P(c).calm \/ P(c).settled THEN {"id", "calm", "settled", "request", "url"} ELSE {})
<1>1. PICK k, g, h : /\ k = kept /\ g = [x \in k |-> P(c)[x]]
                     /\ h = g ++ [reply |-> reply, identity |-> identity]
  BY Zenon
<1>2. PICK f : f = h ++ Fresh
  BY Zenon
<1>3. Become(c, f)
  BY <1>1, <1>2, Zenon DEF Done
<1>4. /\ k \subseteq {"mode", "header", "id", "calm", "settled", "request", "url"} /\ "header" \in k
      /\ P(c).calm \/ P(c).settled => {"id", "calm", "settled", "request", "url"} \subseteq k
      /\ ~(P(c).calm \/ P(c).settled) => "calm" \notin k /\ "settled" \notin k
  <2>1. CASE P(c).calm \/ P(c).settled
    BY <1>1, <2>1, Zenon
  <2>2. CASE ~(P(c).calm \/ P(c).settled)
    BY <1>1, <2>2, Zenon
  <2> QED BY <2>1, <2>2, Zenon
<1>5. /\ DOMAIN h = k \cup {"reply", "identity"} /\ h.reply = reply /\ h.identity = identity
      /\ \A x \in k : h[x] = P(c)[x]
  BY <1>1, <1>4, Zenon DEF ++
<1>6. /\ DOMAIN f = Fields /\ \A x \in k \cup {"reply", "identity"} : f[x] = h[x]
      /\ \A x \in Fields \ (k \cup {"reply", "identity"}) : f[x] = Fresh[x]
  BY <1>2, <1>4, <1>5, FreshFields, Zenon DEF ++, Fields
<1>7. PICK q : Turned(c, f, q)
  BY <1>3, <1>6, Becomes, Zenon
<1>8. q.pc = "done" /\ q.reply = reply /\ q.identity = identity /\ q.header = P(c).header /\ q.token = NoSession
  BY <1>4, <1>5, <1>6, <1>7, FreshFields DEF Fields, Turned
<1>9. P(c).calm \/ P(c).settled =>
        /\ q.id = P(c).id /\ q.calm = P(c).calm /\ q.settled = P(c).settled
        /\ q.request = P(c).request /\ q.url = P(c).url
  BY <1>4, <1>5, <1>6, <1>7, Zenon DEF Fields, Turned
<1>10. ~(P(c).calm \/ P(c).settled) => ~q.calm /\ ~q.settled
  BY <1>4, <1>6, <1>7, FreshFields, Zenon DEF Fields, Turned
<1>11. Answered(c, reply, identity, q)
  BY <1>7, <1>8, <1>9, <1>10, Zenon DEF Turned, Answered
<1> QED BY <1>11, Zenon

\* done, with an answer that the check vouches for
LEMMA DoneStep ==
  ASSUME AccessInv, NEW c \in Clients, NEW q, clients' = [clients EXCEPT ![c] = q],
         UNCHANGED <<setup, broker, feed, store, overlapped, used>>,
         DOMAIN q = Fields, q.pc = "done", q.header \in Tokens, q.token \in Tokens,
         q.settled /\ q.reply = "ok" => allow(policy, RequestOf(q), NoRecord, {}),
         q.calm => /\ Has(broker, q.id) /\ HasUser(broker, Owner[q.id])
                   /\ NoGroups => /\ q.reply = Reply(Answer(q.id, RequestOf(q)))
                                  /\ q.reply = "ok" => q.identity = Owner[q.id],
         Jars(jars', Tokens), Cache(cache', Tokens)
  PROVE  AccessInv'
<1>1. Stage(q)
  BY Zenon DEF Stage, InCreation, CheckStages, SyncStages, SyncUserStages
<1>2. Refused(q)
  BY Zenon DEF Refused, SyncStages, SyncUserStages
<1>3. q.pc \notin InCreation \cup SyncUserStages \cup {"read session", "evaluate", "decide"}
  BY Zenon DEF InCreation, SyncUserStages
<1>4. q.pc \in CheckStages \cup Waiting \cup {"done"}
  BY Zenon
<1>5. Calm(q)
  BY <1>3, <1>4, Zenon DEF Calm
<1> QED BY <1>1, <1>2, <1>3, <1>5, QuietStep, Zenon DEF ClientOK

\* what a request carries is a token
LEMMA Carried ==
  ASSUME NEW jar, NEW tokens, {NoSession, Malformed} \subseteq tokens, \A i \in DOMAIN jar : jar[i].id \in tokens
  PROVE  /\ getSessionFromCtx(jar, NothingCarried) \in tokens \ {Malformed}
         /\ \A form, token : token \in tokens => loadSession(loadRawSession(jar, [as |-> form, token |-> token])) \in tokens \ {Malformed}
         /\ loadSession(loadRawSession(jar, NothingCarried)) \in tokens \ {Malformed}
<1>a. ASSUME NEW a, NEW b PROVE retrieveFromRequest(<<a, b>>) \in {a, b, NoSession}
  BY DEF retrieveFromRequest, First
<1>b. ASSUME NEW a, NEW b, NEW c PROVE retrieveFromRequest(<<a, b, c>>) \in {a, b, c, NoSession}
  BY DEF retrieveFromRequest, First
\* cookies are read from the first one on
<1>l. LoadSession(jar) \in tokens
  <2>1. ASSUME 0 \in DOMAIN jar PROVE loadChunkedCookie(jar)[1] = jar[0]
    <3>1. CASE ~jar[0].canary
      BY <3>1, Zenon DEF loadChunkedCookie
    <3>2. CASE jar[0].canary
      <4> DEFINE Last(n) == 1..n \subseteq DOMAIN jar /\ (n = MaxNumChunks \/ n + 1 \notin DOMAIN jar)
      <4>1. \E n \in 0..MaxNumChunks : Last(n)
        <5>1. CASE 1 \notin DOMAIN jar
          <6>1. Last(0)
            BY <5>1
          <6> QED BY <6>1 DEF MaxNumChunks
        <5>2. CASE 1 \in DOMAIN jar /\ 2 \notin DOMAIN jar
          <6>1. Last(1)
            BY <5>2
          <6> QED BY <6>1 DEF MaxNumChunks
        <5>3. CASE {1, 2} \subseteq DOMAIN jar /\ 3 \notin DOMAIN jar
          <6>1. Last(2)
            BY <5>3
          <6> QED BY <6>1 DEF MaxNumChunks
        <5>4. CASE {1, 2, 3} \subseteq DOMAIN jar /\ 4 \notin DOMAIN jar
          <6>1. Last(3)
            BY <5>4
          <6> QED BY <6>1 DEF MaxNumChunks
        <5>5. CASE {1, 2, 3, 4} \subseteq DOMAIN jar /\ 5 \notin DOMAIN jar
          <6>1. Last(4)
            BY <5>5
          <6> QED BY <6>1 DEF MaxNumChunks
        <5>6. CASE {1, 2, 3, 4, 5} \subseteq DOMAIN jar
          <6>1. Last(5)
            BY <5>6 DEF MaxNumChunks
          <6> QED BY <6>1 DEF MaxNumChunks
        <5> QED BY <5>1, <5>2, <5>3, <5>4, <5>5, <5>6, Zenon
      <4>2. PICK n : n = CHOOSE m \in 0..MaxNumChunks : Last(m)
        BY Zenon
      <4>3. n \in 0..MaxNumChunks
        BY <4>1, <4>2, Zenon
      <4>4. loadChunkedCookie(jar) = [i \in 1..(n + 1) |-> jar[i - 1]]
        BY <3>2, <4>2, Zenon DEF loadChunkedCookie
      <4> HIDE DEF Last
      <4> QED BY <4>3, <4>4 DEF MaxNumChunks
    <3> QED BY <3>1, <3>2, Zenon
  <2>2. \A parts : Unmarshal(parts) \in {parts[1].id, Malformed}
    BY Zenon DEF Unmarshal
  <2>3. CASE 0 \in DOMAIN jar
    <3>1. PICK parts : parts = loadChunkedCookie(jar)
      BY Zenon
    <3>2. parts[1] = jar[0]
      BY <2>1, <2>3, <3>1, Zenon
    <3>3. LoadSession(jar) = Unmarshal(parts)
      BY <2>3, <3>1, Zenon DEF LoadSession
    <3>4. Unmarshal(parts) \in {jar[0].id, Malformed}
      BY <2>2, <3>2, Zenon
    <3> QED BY <2>3, <3>3, <3>4, Zenon
  <2>4. CASE 0 \notin DOMAIN jar
    BY <2>4, Zenon DEF LoadSession
  <2> QED BY <2>3, <2>4, Zenon
<1>0. NoSession # Malformed
  BY Zenon DEF NoSession, Malformed
<1>1. PICK a : a = LoadSession(jar) /\ a \in tokens
  BY <1>l, Zenon
<1>2. \A raw \in tokens : loadSession(raw) \in tokens \ {Malformed}
  BY <1>0, Zenon DEF loadSession
<1>3. getSessionFromCtx(jar, NothingCarried) \in tokens \ {Malformed}
  <2>1. PICK b : b = TokenFromHeader(NothingCarried)
    BY Zenon
  <2>2. b = NoSession
    BY <2>1, Zenon DEF TokenFromHeader, NothingCarried, HeaderForms
  <2>3. retrieveFromRequest(<<b, a>>) \in {b, a, NoSession}
    BY <1>a, Zenon
  <2>4. getSessionFromCtx(jar, NothingCarried) = loadSession(retrieveFromRequest(<<b, a>>))
    BY <1>1, <2>1, Zenon DEF getSessionFromCtx
  <2>5. retrieveFromRequest(<<b, a>>) \in tokens
    BY <1>1, <2>2, <2>3, Zenon
  <2> QED BY <1>2, <2>4, <2>5, Zenon
<1>4. ASSUME NEW carried, carried.token \in tokens
      PROVE  loadSession(loadRawSession(jar, carried)) \in tokens \ {Malformed}
  <2>1. PICK b, d : b = TokenFromHeader(carried) /\ d = queryLoadSession(carried)
    BY Zenon
  <2>2. b \in {NoSession, carried.token} /\ d \in {NoSession, carried.token}
    BY <2>1, Zenon DEF TokenFromHeader, queryLoadSession
  <2>3. retrieveFromRequest(<<a, b, d>>) \in {a, b, d, NoSession}
    BY <1>b, Zenon
  <2>4. loadRawSession(jar, carried) = retrieveFromRequest(<<a, b, d>>)
    BY <1>1, <2>1, Zenon DEF loadRawSession
  <2>5. retrieveFromRequest(<<a, b, d>>) \in tokens
    BY <1>1, <1>4, <2>2, <2>3, Zenon
  <2> QED BY <1>2, <2>4, <2>5, Zenon
<1>5. NothingCarried.token = NoSession /\ \A form, token : [as |-> form, token |-> token].token = token
  BY Zenon DEF NothingCarried
<1> QED BY <1>3, <1>4, <1>5, Zenon

\* the authenticate service, up to the session it creates
LEMMA AuthenticateQuiet ==
  ASSUME AccessInv, NEW c \in Clients
  PROVE  /\ (SignIn(c) \/ userInfo(c) \/ reauthenticateOrFail(c) \/ ProviderFails(c)) /\ UNCHANGED used => AccessInv'
         /\ IdPDeclines(c) \/ getOAuthCallback(c) \/ IdPAnswers(c) => AccessInv'
\* the session of the authenticate service's cookie
<1>a. AuthSession \in Tokens
  <2>1. PICK j, t : j = jars.auth /\ t = Tokens
    BY Zenon
  <2>2. \A i \in DOMAIN j : j[i].id \in t
    BY <2>1, Zenon DEF AccessInv, TokenInv, Jars
  <2>3. {NoSession, Malformed} \subseteq t
    BY <2>1, Zenon DEF Tokens
  <2>4. getSessionFromCtx(j, NothingCarried) \in t \ {Malformed}
    BY <2>2, <2>3, Carried, Zenon
  <2> QED BY <2>1, <2>4, Zenon DEF AuthSession
<1>1. ASSUME SignIn(c), UNCHANGED used PROVE AccessInv'
  <2> USE <1>1
  <2>1. /\ UNCHANGED <<setup, broker, feed, store, overlapped, used>> /\ UNCHANGED cache /\ P(c).pc = "sign in"
        /\ jars' = [jars EXCEPT !.auth = SaveSession(@, AuthSession)]
    BY Zenon DEF SignIn, data
  <2>2. PICK s : s = AuthSession /\ s \in Tokens
    BY <1>a, Zenon
  <2>3. Jars(jars', Tokens)
    BY <2>1, <2>2, JarsStep, Zenon
  <2>4. PICK f : /\ Become(c, f)
                 /\ f = [token |-> s, late |-> FALSE] ++
                        IF P(c).mode = "traefik" THEN [pc |-> "check", url |-> "callback"] ELSE [pc |-> "callback"]
    BY <2>2, Zenon DEF SignIn
  <2>5. /\ DOMAIN f \subseteq {"token", "late", "pc", "url"} /\ "pc" \in DOMAIN f /\ f.pc \in {"check", "callback"}
        /\ f.token = s
    <3>1. CASE P(c).mode = "traefik"
      BY <2>4, <3>1, Zenon DEF ++
    <3>2. CASE P(c).mode # "traefik"
      BY <2>4, <3>2, Zenon DEF ++
    <3> QED BY <3>1, <3>2, Zenon
  <2>6. Cache(cache', Tokens)
    BY <2>1, Before, Zenon
  <2> QED BY <2>1, <2>2, <2>3, <2>4, <2>5, <2>6, BecomeStep, Zenon DEF Fields, Between, Waiting
<1>2. ASSUME userInfo(c), UNCHANGED used PROVE AccessInv'
  <2> USE <1>2
  <2>1. UNCHANGED <<setup, broker, feed, store, overlapped, used>> /\ UNCHANGED <<jars, cache>> /\ P(c).pc = "dashboard"
    BY Zenon DEF userInfo, data
  <2>2. PICK identity : Done(c, "page", identity)
    BY Zenon DEF userInfo
  <2>3. /\ DOMAIN P(c) = Fields /\ P(c).header \in Tokens /\ NoSession \in Tokens
        /\ Jars(jars', Tokens) /\ Cache(cache', Tokens)
    BY <2>1, Before, Zenon
  <2>4. ~P(c).calm
    BY <2>1, NotCalm, Zenon DEF Pages
  <2>5. PICK q : Answered(c, "page", identity, q)
    BY <2>2, <2>3, DoneMoves, Zenon
  <2>6. ~q.calm /\ q.reply # "ok"
    BY <2>4, <2>5, Zenon DEF Answered
  <2> QED BY <2>1, <2>3, <2>5, <2>6, DoneStep, Zenon DEF Answered
<1>3. ASSUME reauthenticateOrFail(c), UNCHANGED used PROVE AccessInv'
  <2> USE <1>3
  <2>1. UNCHANGED <<setup, broker, feed, store, overlapped, used>> /\ UNCHANGED cache /\ P(c).pc \in Pages
    BY Zenon DEF reauthenticateOrFail, data
  <2>2. Cache(cache', Tokens) /\ NoSession \in Tokens
    BY <2>1, Before, Zenon
  <2>3. Jars(jars', Tokens)
    <3>1. jars' = jars \/ jars' = [jars EXCEPT !.auth = ClearSession(@)]
      BY Zenon DEF reauthenticateOrFail
    <3> QED BY <2>2, <3>1, JarsStep, Zenon
  <2>4. CASE End(c, "unauthenticated")
    BY <2>1, <2>2, <2>3, <2>4, EndStep, ZenonT(60)
  <2>5. CASE Become(c, [pc |-> "idp", via |-> P(c).pc, late |-> FALSE])
    <3>1. PICK f : Become(c, f) /\ f = [pc |-> "idp", via |-> P(c).pc, late |-> FALSE]
      BY <2>5, Zenon
    <3>2. DOMAIN f = {"pc", "via", "late"} /\ f.pc = "idp" /\ f.via = P(c).pc
      BY <3>1, Zenon
    <3>3. ~P(c).calm
      BY <2>1, NotCalm, Zenon
    <3> QED BY <2>1, <2>2, <2>3, <3>1, <3>2, <3>3, BecomeStep, Zenon DEF Fields, Between
  <2> QED BY <2>4, <2>5, Zenon DEF reauthenticateOrFail
<1>4. ASSUME ProviderFails(c), UNCHANGED used PROVE AccessInv'
  <2> USE <1>4
  <2>1. /\ UNCHANGED <<setup, broker, feed, store, overlapped, used>> /\ UNCHANGED cache /\ End(c, "error")
        /\ jars' = [jars EXCEPT !.auth = ClearSession(@)]
    BY Zenon DEF ProviderFails, data
  <2>2. Cache(cache', Tokens) /\ NoSession \in Tokens
    BY <2>1, Before, Zenon
  <2>3. Jars(jars', Tokens)
    BY <2>1, <2>2, JarsStep, Zenon
  <2> QED BY <2>1, <2>2, <2>3, EndStep, Zenon
<1>5. ASSUME IdPDeclines(c) PROVE AccessInv'
  <2> USE <1>5
  <2>1. UNCHANGED <<setup, broker, feed, store, overlapped, used>> /\ UNCHANGED <<jars, cache>> /\ End(c, "declined")
    BY Zenon DEF IdPDeclines, data
  <2>2. Jars(jars', Tokens) /\ Cache(cache', Tokens)
    BY <2>1, Before, Zenon
  <2> QED BY <2>1, <2>2, EndStep, Zenon
<1>6. ASSUME getOAuthCallback(c) PROVE AccessInv'
  <2> USE <1>6
  <2>1. UNCHANGED <<setup, broker, feed, store, overlapped, used>> /\ UNCHANGED <<jars, cache>> /\ P(c).pc = "oauth"
    BY Zenon DEF getOAuthCallback, data
  <2>2. /\ Jars(jars', Tokens) /\ Cache(cache', Tokens) /\ DOMAIN P(c) = Fields
        /\ P(c).header \in Tokens /\ P(c).token \in Tokens
    BY <2>1, Before, Zenon
  <2>3. CASE End(c, "error")
    BY <2>1, <2>2, <2>3, EndStep, Zenon
  <2>4. CASE Become(c, [pc |-> "save user"])
    <3>1. PICK f : Become(c, f) /\ f = [pc |-> "save user"]
      BY <2>4, Zenon
    <3>2. DOMAIN f = {"pc"} /\ f.pc = "save user" /\ DOMAIN f \subseteq Fields
      BY <3>1, Zenon DEF Fields
    <3>3. PICK q : Turned(c, f, q)
      BY <2>2, <3>1, <3>2, Becomes, Zenon
    <3>4. /\ q.pc = "save user" /\ q.id = P(c).id /\ q.via = P(c).via /\ q.calm = P(c).calm
          /\ q.header = P(c).header /\ q.token = P(c).token
      BY <3>2, <3>3, Zenon DEF Fields, Turned
    <3>5. ~P(c).calm
      BY <2>1, NotCalm, Zenon DEF InCreation
    <3>6. PICK p : p = P(c) /\ Stage(p) /\ p.pc = "oauth"
      BY <2>1, Before, Zenon DEF ClientOK
    <3>7. q.id \in used
      BY <3>4, <3>6, Zenon DEF Stage, InCreation
    <3>8. p.pc \in InCreation /\ q.pc \in InCreation
      BY <3>4, <3>6, Zenon DEF InCreation
    <3>9. ClientOK(q)
      BY <3>3, <3>4, <3>5, <3>6, <3>7, <3>8, CreatingOK, Zenon DEF Turned
    <3> QED BY <2>1, <2>2, <3>3, <3>4, <3>6, <3>8, <3>9, QuietStep, Zenon DEF Turned
  <2> QED BY <2>3, <2>4, Zenon DEF getOAuthCallback
<1>7. ASSUME IdPAnswers(c) PROVE AccessInv'
  <2> USE <1>7
  <2>1. UNCHANGED <<setup, broker, feed, store, overlapped>> /\ UNCHANGED <<jars, cache>> /\ P(c).pc = "idp"
    BY Zenon DEF IdPAnswers, data
  <2>2. /\ Jars(jars', Tokens) /\ Cache(cache', Tokens) /\ DOMAIN P(c) = Fields
        /\ P(c).header \in Tokens /\ P(c).token \in Tokens
    BY <2>1, Before, Zenon
  <2>3. PICK s \in setup.sessions \ used : used' = used \cup {s} /\ Become(c, [pc |-> "oauth", id |-> s])
    BY Zenon DEF IdPAnswers
  <2>4. PICK f : Become(c, f) /\ f = [pc |-> "oauth", id |-> s]
    BY <2>3, Zenon
  <2>5. DOMAIN f = {"pc", "id"} /\ f.pc = "oauth" /\ f.id = s /\ DOMAIN f \subseteq Fields
    BY <2>4, Zenon DEF Fields
  <2>6. PICK q : Turned(c, f, q)
    BY <2>2, <2>4, <2>5, Becomes, Zenon
  <2>7. /\ q.pc = "oauth" /\ q.id = s /\ q.via = P(c).via /\ q.calm = P(c).calm
        /\ q.header = P(c).header /\ q.token = P(c).token
    BY <2>5, <2>6, Zenon DEF Fields, Turned
  <2>8. /\ DOMAIN clients' = Clients /\ clients'[c] = q
        /\ \A d \in Clients : d # c => clients'[d] = clients[d]
    BY <2>6, Moved, Zenon DEF AccessInv, ClientsInv, Turned
  <2>9. Past \subseteq Past' /\ used \subseteq used' /\ used' \subseteq setup.sessions
    <3>1. \A d \in Clients : clients'[d].pc \in InCreation =>
            (clients[d].pc \in InCreation /\ clients'[d].id = clients[d].id) \/ clients'[d].id \notin used
      BY <2>3, <2>7, <2>8, Zenon
    <3>2. used \subseteq used' /\ used' \subseteq setup.sessions
      BY <2>3, Zenon DEF AccessInv, RecordsInv
    <3> QED BY <3>1, <3>2, PastGrows, Zenon
  <2>10. RecordsInv' /\ FeedInv' /\ StoreInv'
    BY <2>1, <2>9, DataKept, Zenon DEF AccessInv
  <2>11. \A d \in Clients : clients'[d].header \in Tokens /\ clients'[d].token \in Tokens
    BY <2>2, <2>7, <2>8, Zenon DEF AccessInv, TokenInv, P
  <2>12. TokenInv'
    BY <2>2, <2>9, <2>11, TokensKept, TokensStep, Zenon
  <2>13. \A p : ClientOK(p) => ClientOK(p)'
    BY <2>1, <2>9, QuietFrame, Zenon
  <2>14. ClientOK(q)'
    <3>1. PICK p : p = P(c) /\ Stage(p) /\ p.pc = "idp"
      BY <2>1, Before, Zenon DEF ClientOK
    <3>2. q.via \in Pages
      BY <2>7, <3>1, Zenon DEF Stage
    <3>3. ~q.calm
      BY <2>1, <2>7, NotCalm, Zenon
    <3>4. q.id \in used'
      BY <2>3, <2>7, Zenon
    <3>5. Stage(q)'
      BY <2>6, <2>7, <3>2, <3>4, Zenon
         DEF Stage, InCreation, CheckStages, SyncStages, SyncUserStages, Turned
    <3>6. Refused(q)'
      BY <2>7, Zenon DEF Refused, SyncStages, SyncUserStages
    <3> QED BY <3>3, <3>5, <3>6, Zenon DEF ClientOK, Calm
  <2>15. q.id \notin used
    BY <2>3, <2>7, Zenon
  <2>16. ClientsInv'
    BY <2>6, <2>13, <2>14, <2>15, ClientsStep, Zenon DEF AccessInv, Turned
  <2> QED BY <2>10, <2>12, <2>16, Zenon DEF AccessInv
<1> QED
  BY <1>1, <1>2, <1>3, <1>4, <1>5, <1>6, <1>7, Zenon

\* what the records say of themselves
LEMMA SessionKind ==
  ASSUME setup \in Setups, NEW s \in setup.sessions
  PROVE  /\ s \in DOMAIN Owner /\ s \notin AccountIds /\ s \notin {"", NoSession, Malformed} /\ Owner[s] # ""
         /\ Session(s) \in Records /\ Session(s) # NoRecord
         /\ Session(s).type = "session" /\ Session(s).id = s
         /\ Session(s).user = Owner[s] /\ Session(s).impersonate = {}
<1>1. /\ Session(s).type = "session" /\ Session(s).id = s
      /\ Session(s).user = Owner[s] /\ Session(s).impersonate = {}
  BY Zenon DEF Session, NoRecord
<1>2. NoRecord.type = "none"
  BY Zenon DEF NoRecord
<1>3. s \in DOMAIN Owner
  BY AccountsAssumption, Zenon
<1>4. s \notin AccountIds /\ s \notin {"", NoSession, Malformed} /\ Owner[s] # ""
  BY <1>3, AccountsAssumption, Zenon DEF AccountIds
<1>5. Session(s) # NoRecord
  BY <1>1, <1>2, Zenon
<1>6. Session(s) \in Records
  BY Zenon DEF Records
<1> QED BY <1>1, <1>3, <1>4, <1>5, <1>6, Zenon

\* a user's record is no session's
LEMMA UserKind ==
  ASSUME setup \in Setups, NEW s \in setup.sessions
  PROVE  /\ UpdateUserInfo(Owner[s]) \in Records /\ UpdateUserInfo(Owner[s]) # NoRecord
         /\ UpdateUserInfo(Owner[s]).type = "user" /\ UpdateUserInfo(Owner[s]).id = Owner[s]
         /\ DirectoryUser(Owner[s], Directory[Owner[s]]) \in Records
         /\ DirectoryUser(Owner[s], Directory[Owner[s]]) # NoRecord
         /\ DirectoryUser(Owner[s], Directory[Owner[s]]).type = "directory"
         /\ DirectoryUser(Owner[s], Directory[Owner[s]]).id = Owner[s]
<1>1. \A u, a, b : User(u, a, b).type = "user" /\ User(u, a, b).id = u
  BY Zenon DEF User, NoRecord
<1>2. \A u, a : DirectoryUser(u, a).type = "directory" /\ DirectoryUser(u, a).id = u
  BY Zenon DEF DirectoryUser, NoRecord
<1>3. UpdateUserInfo(Owner[s]).type = "user" /\ UpdateUserInfo(Owner[s]).id = Owner[s]
  BY <1>1 DEF UpdateUserInfo, UserInfo, UnmarshalUser
<1>4. NoRecord.type = "none"
  BY Zenon DEF NoRecord
<1>5. UpdateUserInfo(Owner[s]) # NoRecord
  BY <1>3, <1>4, Zenon
<1>6. PICK r : r = DirectoryUser(Owner[s], Directory[Owner[s]])
  BY Zenon
<1>7. r.type = "directory" /\ r.id = Owner[s]
  BY <1>2, <1>6, Zenon
<1>8. r # NoRecord
  BY <1>7, <1>4, Zenon
<1>9. UpdateUserInfo(Owner[s]) \in Records /\ r \in Records
  BY <1>6, Zenon DEF Records
<1> QED BY <1>3, <1>5, <1>6, <1>7, <1>8, <1>9, Zenon

\* GetRecordData returns what there is of a kind and an identifier
LEMMA Get ==
  ASSUME NEW db, NEW type, NEW id, NoRecord \notin db
  PROVE  /\ GetRecordData(db, type, id) = NoRecord <=> ~\E r \in db : r.type = type /\ r.id = id
         /\ GetRecordData(db, type, id) # NoRecord =>
              /\ GetRecordData(db, type, id) \in db
              /\ GetRecordData(db, type, id).type = type /\ GetRecordData(db, type, id).id = id
<1> DEFINE found == {r \in db : r.type = type /\ r.id = id}
<1>1. CASE found = {}
  <2>1. GetRecordData(db, type, id) = NoRecord
    BY <1>1, Zenon DEF GetRecordData
  <2> QED BY <2>1, <1>1, Zenon
<1>2. CASE found # {}
  <2>1. GetRecordData(db, type, id) = CHOOSE r \in found : TRUE
    BY <1>2, Zenon DEF GetRecordData
  <2>2. GetRecordData(db, type, id) \in found
    BY <2>1, <1>2, Zenon
  <2> QED BY <2>2, Zenon
<1> QED BY <1>1, <1>2, Zenon

\* the session, the account and the user's record of an identifier
LEMMA Found ==
  ASSUME setup \in Setups, NEW db, db \subseteq Records \ {NoRecord}
  PROVE  /\ \A s : GetRecordData(db, "session", s) = IF Has(db, s) THEN Session(s) ELSE NoRecord
         /\ \A s : Has(db, s) => s \in setup.sessions /\ Session(s) # NoRecord
         /\ \A s \in setup.sessions : /\ GetRecordData(db, "account", s) = NoRecord
                                      /\ HasUser(db, Owner[s]) =>
                                           GetRecordData(db, "user", Owner[s]) = UpdateUserInfo(Owner[s])
         /\ GetRecordData(db, "account", NoSession) = NoRecord
         /\ \A u : GetRecordData(db, "user", u) = NoRecord <=> ~HasUser(db, u)
         /\ GetRecordData(db, "user", "") = NoRecord /\ GetRecordData(db, "directory", "") = NoRecord
<1>k. ASSUME NEW r \in Records
      PROVE  /\ r.type = "session" => r.id \in setup.sessions /\ r = Session(r.id)
             /\ r.type = "account" => r.id \in AccountIds
             /\ r.type = "user" => \A s \in setup.sessions : r.id = Owner[s] => r = UpdateUserInfo(Owner[s])
             /\ r.type = "user" \/ r.type = "directory" => r.id # ""
             /\ r # NoRecord => r.type # "none"
  <2>1. CASE r \in Accounts
    <3>1. r.type = "account" => r.id \in AccountIds
      BY <2>1, Zenon DEF AccountIds
    <3>2. r.type \in {"account", "user", "directory", "group"} /\ r.id # ""
      BY <2>1, AccountsAssumption, Zenon
    <3>3. r.type = "user" => \A s \in setup.sessions : r.id = Owner[s] => r = UpdateUserInfo(Owner[s])
      BY <2>1, AccountsAssumption, Zenon DEF UpdateUserInfo
    <3> QED BY <3>1, <3>2, <3>3, Zenon
  <2>2. CASE r = NoRecord
    <3>1. r.type = "none" /\ r.id = ""
      BY <2>2, Zenon DEF NoRecord
    <3> QED BY <2>2, <3>1, Zenon
  <2>3. CASE \E s \in setup.sessions : r = Session(s)
    <3>1. PICK s \in setup.sessions : r = Session(s)
      BY <2>3, Zenon
    <3>2. r.type = "session" /\ r.id = s
      BY <3>1, SessionKind, Zenon
    <3> QED BY <3>1, <3>2, Zenon
  <2>4. CASE \E s \in setup.sessions : r = UpdateUserInfo(Owner[s])
    <3>1. PICK s \in setup.sessions : r = UpdateUserInfo(Owner[s])
      BY <2>4, Zenon
    <3>2. r.type = "user" /\ r.id = Owner[s] /\ Owner[s] # ""
      BY <3>1, SessionKind, UserKind, Zenon
    <3>3. \A t \in setup.sessions : r.id = Owner[t] => r = UpdateUserInfo(Owner[t])
      BY <3>1, <3>2, Zenon
    <3> QED BY <3>2, <3>3, Zenon
  <2>5. CASE \E s \in setup.sessions : r = DirectoryUser(Owner[s], Directory[Owner[s]])
    <3>1. PICK s \in setup.sessions : r = DirectoryUser(Owner[s], Directory[Owner[s]])
      BY <2>5, Zenon
    <3>2. r.type = "directory" /\ r.id = Owner[s] /\ Owner[s] # ""
      BY <3>1, SessionKind, UserKind, Zenon
    <3> QED BY <3>2, Zenon
  <2>6. \/ r \in Accounts \/ r = NoRecord \/ \E s \in setup.sessions : r = Session(s)
        \/ \E s \in setup.sessions : r = UpdateUserInfo(Owner[s])
        \/ \E s \in setup.sessions : r = DirectoryUser(Owner[s], Directory[Owner[s]])
    BY Zenon DEF Records
  <2> QED BY <2>1, <2>2, <2>3, <2>4, <2>5, <2>6, Zenon
<1>i. NoSession \notin AccountIds
  BY AccountsAssumption, Zenon DEF AccountIds
<1>0. NoRecord \notin db
  BY Zenon
<1>1. ASSUME NEW s
      PROVE  /\ GetRecordData(db, "session", s) = IF Has(db, s) THEN Session(s) ELSE NoRecord
             /\ Has(db, s) => s \in setup.sessions /\ Session(s) # NoRecord
  <2>1. PICK r : r = GetRecordData(db, "session", s)
    BY Zenon
  <2>2. r = NoRecord <=> ~Has(db, s)
    BY <1>0, <2>1, Get, ZenonT(60) DEF Has
  <2>3. r # NoRecord => r \in db /\ r.type = "session" /\ r.id = s
    BY <1>0, <2>1, Get, ZenonT(60)
  <2>4. r # NoRecord => r = Session(s) /\ s \in setup.sessions
    BY <2>3, <1>k, ZenonT(60)
  <2> QED BY <2>1, <2>2, <2>4, Zenon
<1>2. ASSUME NEW s \in setup.sessions PROVE GetRecordData(db, "account", s) = NoRecord
  <2>1. PICK r : r = GetRecordData(db, "account", s)
    BY Zenon
  <2>2. r # NoRecord => r \in db /\ r.type = "account" /\ r.id = s
    BY <1>0, <2>1, Get, ZenonT(60)
  <2>3. r # NoRecord => r.id \in AccountIds
    BY <2>2, <1>k, Zenon
  <2>4. s \notin AccountIds
    BY SessionKind, Zenon
  <2> QED BY <2>1, <2>2, <2>3, <2>4, Zenon
<1>3. ASSUME NEW s \in setup.sessions, HasUser(db, Owner[s])
      PROVE  GetRecordData(db, "user", Owner[s]) = UpdateUserInfo(Owner[s])
  <2>1. PICK r : r = GetRecordData(db, "user", Owner[s])
    BY Zenon
  <2>2. r # NoRecord
    BY <1>0, <1>3, <2>1, Get, Zenon DEF HasUser
  <2>3. r \in db /\ r.type = "user" /\ r.id = Owner[s]
    BY <1>0, <2>1, <2>2, Get, SMTT(60)
  <2> QED BY <2>1, <2>3, <1>k, Zenon
<1>4. \A u : GetRecordData(db, "user", u) = NoRecord <=> ~HasUser(db, u)
  BY <1>0, Get, Zenon DEF HasUser
<1>5. GetRecordData(db, "account", NoSession) = NoRecord
  <2>1. PICK r : r = GetRecordData(db, "account", NoSession)
    BY Zenon
  <2>2. r # NoRecord => r \in db /\ r.type = "account" /\ r.id = NoSession
    BY <1>0, <2>1, Get, ZenonT(60)
  <2>3. r # NoRecord => r.id \in AccountIds
    BY <2>2, <1>k, Zenon
  <2> QED BY <2>1, <2>2, <2>3, <1>i, Zenon
<1>6. ASSUME NEW type \in {"user", "directory"} PROVE GetRecordData(db, type, "") = NoRecord
  <2>1. PICK r : r = GetRecordData(db, type, "")
    BY Zenon
  <2>2. r # NoRecord => r \in db /\ r.type = type /\ r.id = ""
    BY <1>0, <2>1, Get, Zenon
  <2>3. r # NoRecord => r.type = "user" \/ r.type = "directory"
    BY <2>2, Zenon
  <2> QED BY <2>1, <2>2, <2>3, <1>k, Zenon
<1>7. GetRecordData(db, "user", "") = NoRecord /\ GetRecordData(db, "directory", "") = NoRecord
  BY <1>6, Zenon
<1> QED BY <1>1, <1>2, <1>3, <1>4, <1>5, <1>7, Zenon

\* a session that is live has its record
LEMMA Lives ==
  ASSUME AccessInv
  PROVE  /\ setup \in Setups /\ broker \subseteq Records \ {NoRecord} /\ store \subseteq Records \ {NoRecord}
         /\ \A s : Live(s) <=> Has(broker, s)
         /\ \A s : Has(broker, s) \/ Has(store, s) => s \in Past
         /\ \A s : s \in Past => s \in setup.sessions /\ s # NoSession
         /\ Past \subseteq Tokens
<1>1. setup \in Setups /\ broker \subseteq Records \ {NoRecord} /\ store \subseteq Records \ {NoRecord}
  BY Zenon DEF AccessInv, RecordsInv
<1>2. \A s : GetRecordData(broker, "session", s) = NoRecord <=> ~Has(broker, s)
  <2>1. NoRecord \notin broker
    BY <1>1, Zenon
  <2> QED BY <2>1, Get, ZenonT(60) DEF Has
<1>3. \A s : Has(broker, s) \/ Has(store, s) => s \in Past
  BY Zenon DEF Has, AccessInv, RecordsInv
<1>4. Past \subseteq setup.sessions
  BY Zenon DEF Past, AccessInv, RecordsInv
<1>5. \A s \in setup.sessions : s \notin {"", NoSession, Malformed}
  BY <1>1, SessionKind, Zenon
<1>6. Past \subseteq Tokens
  BY Zenon DEF Tokens
<1> QED BY <1>1, <1>2, <1>3, <1>4, <1>5, <1>6, Zenon DEF Live

\* forward auth or not, the request is about the page the client wants
LEMMA RequestIs ==
  ASSUME NEW c PROVE CheckRequest(c) = RequestOf(P(c))
<1>1. (IF isForwardAuth(c) THEN getForwardAuthURL(Asked(c)) ELSE P(c).url) = P(c).url
  BY Zenon DEF isForwardAuth, getForwardAuthURL, Asked
<1> QED BY <1>1, Zenon DEF CheckRequest, RequestOf

\* evaluation answers 200, 403 or an error, and what it answers without a session
LEMMA Statuses ==
  ASSUME NEW p, NEW r, NEW id, NEW s, NEW db
  PROVE  /\ Evaluate(p, r, id, s, db) \in {200, 401, 403, 495, 500}
         /\ Evaluate(p, r, id, s, db) = 200 => allow(p, r, s, db)
         /\ Evaluate(p, r, id, s, db) = 401 => id = NoSession
<1>1. ASSUME NEW valid PROVE getDenyVar(deny(valid)) = {} \/ (CHOOSE status \in getDenyVar(deny(valid)) : TRUE) = 495
  <2>1. CASE valid
    <3>1. deny(valid) = {}
      BY <2>1, Zenon DEF deny
    <3> QED BY <3>1, Zenon DEF getDenyVar
  <2>2. CASE ~valid
    <3>1. deny(valid) = {<<495, "invalid client certificate">>}
      BY <2>2, Zenon DEF deny
    <3>2. ASSUME NEW x \in getDenyVar(deny(valid)) PROVE x = 495
      <4>1. PICK d \in deny(valid) : x = d[1]
        BY Zenon DEF getDenyVar
      <4>2. d = <<495, "invalid client certificate">>
        BY <3>1, <4>1, Zenon
      <4> QED BY <4>1, <4>2, Zenon
    <3> QED BY <3>2, ZenonT(60)
  <2> QED BY <2>1, <2>2, Zenon
<1> DEFINE certificate == isValidClientCertificate(r.ca, r.certificate)
           denied == getDenyVar(deny(certificate.valid))
           chosen == CHOOSE status \in denied : TRUE
<1>2. denied = {} \/ chosen = 495
  <2>1. PICK v : v = certificate.valid
    BY Zenon
  <2>2. getDenyVar(deny(v)) = {} \/ (CHOOSE status \in getDenyVar(deny(v)) : TRUE) = 495
    BY <1>1, Zenon
  <2> QED BY <2>1, <2>2, Zenon
<1>3. Evaluate(p, r, id, s, db) =
        IF certificate.error THEN 500
        ELSE IF denied # {} THEN chosen
        ELSE IF allow(p, r, s, db) /\ CustomEvaluatorError(p) THEN 500
        ELSE IF allow(p, r, s, db) /\ CustomEvaluate(p) THEN 200
        ELSE IF id = NoSession THEN 401 ELSE 403
  BY Zenon DEF Evaluate
<1> HIDE DEF certificate, denied, chosen
<1> QED BY <1>2, <1>3

\* the session and its user are all that decides without groups
LEMMA CalmAnswer ==
  ASSUME setup \in Setups, NEW db, db \subseteq Records \ {NoRecord}, NEW s, NEW r,
         Has(db, s), HasUser(db, Owner[s])
  PROVE  /\ session(db, s) = Session(s)
         /\ user(db, Session(s)).id = Owner[s]
         /\ NoGroups => Evaluate(policy, r, s, Session(s), db) = Answer(s, r)
<1>1. s \in setup.sessions
  BY Found, Zenon
<1>2. Session(s).impersonate = {} /\ Session(s).user = Owner[s]
  BY <1>1, SessionKind, Zenon
<1>3. ASSUME NEW base, base \subseteq Records \ {NoRecord}, HasUser(base, Owner[s])
      PROVE  user(base, Session(s)) = UpdateUserInfo(Owner[s])
  <2>1. GetRecordData(base, "user", Owner[s]) = UpdateUserInfo(Owner[s])
    BY <1>1, <1>3, Found, Zenon
  <2>2. \A type : {GetRecordData(base, type, i.user) : i \in {}} \ {NoRecord} = {}
    BY Zenon
  <2> QED BY <1>2, <2>1, <2>2, Zenon DEF user, OfUser
<1>4. session(db, s) = Session(s)
  BY <1>1, Found, Zenon DEF session
<1>5. user(db, Session(s)) = UpdateUserInfo(Owner[s])
  BY <1>3, Zenon
<1>6. PICK u : u = UpdateUserInfo(Owner[s])
  BY Zenon
<1>7. u \in Records /\ u # NoRecord /\ u.type = "user" /\ u.id = Owner[s]
  BY <1>1, <1>6, UserKind, Zenon
<1>8. user({u}, Session(s)) = u
  <2>1. {u} \subseteq Records \ {NoRecord}
    BY <1>7, Zenon
  <2>2. HasUser({u}, Owner[s])
    BY <1>7, Zenon DEF HasUser
  <2> QED BY <1>3, <1>6, <2>1, <2>2, Zenon
<1>9. ASSUME NoGroups PROVE allow(policy, r, Session(s), db) <=> allow(policy, r, Session(s), {u})
  <2>1. \A base : groups(base, Session(s)) \cap get_allowed(policy, "groups") = {}
    BY <1>9, Zenon DEF NoGroups
  <2> QED BY <1>5, <1>6, <1>8, <2>1, Zenon DEF allow
<1>10. ASSUME NoGroups PROVE Evaluate(policy, r, s, Session(s), db) = Answer(s, r)
  <2> DEFINE certificate == isValidClientCertificate(r.ca, r.certificate)
             denied == getDenyVar(deny(certificate.valid))
             chosen == CHOOSE status \in denied : TRUE
  <2>1. \A base : Evaluate(policy, r, s, Session(s), base) =
          IF certificate.error THEN 500
          ELSE IF denied # {} THEN chosen
          ELSE IF allow(policy, r, Session(s), base) /\ CustomEvaluatorError(policy) THEN 500
          ELSE IF allow(policy, r, Session(s), base) /\ CustomEvaluate(policy) THEN 200
          ELSE IF s = NoSession THEN 401 ELSE 403
    BY Zenon DEF Evaluate
  <2>2. Answer(s, r) = Evaluate(policy, r, s, Session(s), {u})
    BY <1>6, Zenon DEF Answer
  <2> HIDE DEF certificate, denied, chosen
  <2> QED BY <1>9, <1>10, <2>1, <2>2
<1> QED BY <1>4, <1>5, <1>6, <1>7, <1>10, Zenon

\* a step of the check that is the client's alone
LEMMA AloneStep ==
  ASSUME AccessInv, NEW c \in Clients, NEW f, NEW q, Turned(c, f, q), {"header", "token"} \cap DOMAIN f = {},
         UNCHANGED <<setup, broker, feed, store, overlapped, used>>, UNCHANGED <<jars, cache>>,
         Stage(q), Refused(q), Calm(q), q.pc \in CheckStages
  PROVE  AccessInv'
<1>1. q.header = P(c).header /\ q.token = P(c).token
  BY Zenon DEF Fields, Turned
<1>2. q.pc \notin InCreation
  BY Zenon DEF InCreation, CheckStages, SyncStages, SyncUserStages
<1> QED BY <1>1, <1>2, QuietStep, Before, ZenonT(60) DEF ClientOK, Turned

\* the reply a status is given
LEMMA Replies ==
  ASSUME NEW status \in {200, 401, 403, 495, 500}
  PROVE  /\ Reply(status) = "ok" <=> status = 200
         /\ status \notin {200, 401} => Reply(status) = IF status = 403 THEN "forbidden" ELSE "error"
  BY DEF Reply

\* the answer of the last stage of a check
LEMMA Decided ==
  ASSUME AccessInv, NEW c \in Clients, P(c).pc = "decide", NEW identity, Done(c, Reply(Status(c)), identity),
         Reply(Status(c)) = "ok" => identity = user(store, P(c).got).id,
         UNCHANGED <<setup, broker, feed, store, overlapped, used>>, Jars(jars', Tokens), Cache(cache', Tokens)
  PROVE  AccessInv'
\* nothing of the store speaks for a request without a session
<1>r. ASSUME setup \in Setups, NEW db, db \subseteq Records \ {NoRecord}, NEW r
      PROVE  allow(policy, r, NoRecord, db) => allow(policy, r, NoRecord, {})
  <2> USE <1>r
  <2>0. NoRecord.impersonate = {} /\ NoRecord.user = "" /\ NoRecord.groups = {}
    BY Zenon DEF NoRecord
  <2>1. ASSUME NEW base, base \subseteq Records \ {NoRecord}
        PROVE  user(base, NoRecord) = NoRecord /\ groups(base, NoRecord) = {}
    <3>1. GetRecordData(base, "user", "") = NoRecord /\ GetRecordData(base, "directory", "") = NoRecord
      BY <2>1, Found, Zenon
    <3>2. user(base, NoRecord) = NoRecord /\ directory_user(base, NoRecord) = NoRecord
      <4>1. \A type : {GetRecordData(base, type, i.user) : i \in {}} \ {NoRecord} = {}
        BY Zenon
      <4>2. \A type : OfUser(base, type, NoRecord) = GetRecordData(base, type, "")
        BY <2>0, <4>1, Zenon DEF OfUser
      <4> QED BY <3>1, <4>2, Zenon DEF user, directory_user
    <3>3. group_ids(base, NoRecord) = {}
      BY <2>0, <3>2, Zenon DEF group_ids
    <3>4. {GetRecordData(base, "group", g).user : g \in {}} = {}
      BY Zenon
    <3>5. groups(base, NoRecord) = {} \cup ({GetRecordData(base, "group", g).user : g \in {}} \ {""})
      BY <3>3, Zenon DEF groups
    <3> QED BY <3>2, <3>4, <3>5, Zenon
  <2>2. user(db, NoRecord) = NoRecord /\ groups(db, NoRecord) = {}
    BY <2>1, Zenon
  <2>3. user({}, NoRecord) = NoRecord /\ groups({}, NoRecord) = {}
    <3>1. {} \subseteq Records \ {NoRecord}
      BY Zenon
    <3> QED BY <2>1, <3>1, Zenon
  <2> QED BY <2>2, <2>3, Zenon DEF allow
<1>1. PICK p : p = P(c) /\ p.pc = "decide" /\ DOMAIN p = Fields /\ Stage(p) /\ Refused(p) /\ Calm(p) /\ p.header \in Tokens
  BY Before, Zenon DEF ClientOK
<1>2. PICK st, reply : st = Status(c) /\ reply = Reply(st) /\ Done(c, reply, identity)
  BY Zenon
<1>3. st = Evaluate(policy, RequestOf(p), p.id, p.got, store)
  BY <1>1, <1>2, RequestIs, Zenon DEF Status
<1>4. st \in {200, 401, 403, 495, 500} /\ (st = 200 => allow(policy, RequestOf(p), p.got, store))
  <2>1. PICK po, r, i, g, db : po = policy /\ r = RequestOf(p) /\ i = p.id /\ g = p.got /\ db = store
    BY Zenon
  <2>2. /\ Evaluate(po, r, i, g, db) \in {200, 401, 403, 495, 500}
        /\ Evaluate(po, r, i, g, db) = 200 => allow(po, r, g, db)
    BY Statuses
  <2> QED BY <1>3, <2>1, <2>2
<1>5. PICK q : Answered(c, reply, identity, q)
  BY <1>1, <1>2, DoneMoves, Zenon
<1>6. q.calm \/ q.settled => /\ q.id = p.id /\ q.calm = p.calm /\ q.settled = p.settled /\ RequestOf(q) = RequestOf(p)
  BY <1>1, <1>5, Zenon DEF RequestOf, Answered
<1>7. q.settled /\ q.reply = "ok" => allow(policy, RequestOf(q), NoRecord, {})
  <2>1. SUFFICES ASSUME q.settled, q.reply = "ok" PROVE allow(policy, RequestOf(q), NoRecord, {})
    BY Zenon
  <2>2. st = 200
    <3>1. Reply(st) = "ok" <=> st = 200
      BY <1>4, Replies, SMTT(60)
    <3> QED BY <1>2, <1>5, <2>1, <3>1, ZenonT(60) DEF Answered
  <2>3. p.got = NoRecord
    BY <1>1, <1>6, <2>1, Zenon DEF Refused
  <2>4. allow(policy, RequestOf(p), NoRecord, store)
    BY <1>4, <2>2, <2>3, ZenonT(60)
  <2> QED BY <1>6, <2>1, <2>4, Lives, <1>r, Zenon
<1>8. q.calm => /\ Has(broker, q.id) /\ HasUser(broker, Owner[q.id])
                /\ NoGroups => /\ q.reply = Reply(Answer(q.id, RequestOf(q)))
                               /\ q.reply = "ok" => q.identity = Owner[q.id]
  <2>1. SUFFICES ASSUME q.calm
                 PROVE  /\ Has(broker, q.id) /\ HasUser(broker, Owner[q.id])
                        /\ NoGroups => q.reply = Reply(Answer(q.id, RequestOf(q)))
                        /\ q.reply = "ok" => q.identity = Owner[q.id]
    BY Zenon
  <2>2. /\ Has(broker, q.id) /\ HasUser(broker, Owner[q.id]) /\ Has(store, q.id) /\ HasUser(store, Owner[q.id])
        /\ p.got = Session(q.id)
    BY <1>1, <1>6, <2>1, Zenon DEF Calm
  <2>3. /\ user(store, Session(q.id)).id = Owner[q.id]
        /\ NoGroups => Evaluate(policy, RequestOf(q), q.id, Session(q.id), store) = Answer(q.id, RequestOf(q))
    <3>1. PICK s, r : s = q.id /\ r = RequestOf(q)
      BY Zenon
    <3>2. Has(store, s) /\ HasUser(store, Owner[s])
      BY <2>2, <3>1, Zenon
    <3>3. /\ user(store, Session(s)).id = Owner[s]
          /\ NoGroups => Evaluate(policy, r, s, Session(s), store) = Answer(s, r)
      BY <3>2, Lives, CalmAnswer, Zenon
    <3> QED BY <3>1, <3>3, Zenon
  <2>4. NoGroups => st = Answer(q.id, RequestOf(q))
    BY <1>3, <1>6, <2>1, <2>2, <2>3, Zenon
  <2>5. q.reply = "ok" => identity = user(store, p.got).id
    BY <1>1, <1>2, <1>5, Zenon DEF Answered
  <2> QED BY <1>2, <1>5, <2>2, <2>3, <2>4, <2>5, Zenon DEF Answered
<1>9. q.header \in Tokens /\ q.token \in Tokens
  BY <1>1, <1>5, Before, Zenon DEF Answered
<1> QED BY <1>5, <1>7, <1>8, <1>9, DoneStep, Zenon DEF Answered

\* the authorize service, up to its own records
LEMMA CheckQuiet ==
  ASSUME AccessInv, NEW c \in Clients
  PROVE  (Check(c) \/ GetSession(c) \/ ReadSession(c) \/ SyncUser(c) \/ GetUser(c) \/ EvaluateSession(c) \/ Decide(c)) /\ UNCHANGED used => AccessInv'
<1>k. ASSUME NEW s PROVE Known(s) <=> Has(broker, s) /\ HasUser(broker, Owner[s])
  <2>1. GetRecordData(broker, "user", Owner[s]) = NoRecord <=> ~HasUser(broker, Owner[s])
    BY Lives, Found, Zenon
  <2> QED BY <2>1, Lives, Zenon DEF Known
\* the token a check begins with
<1>r. ASSUME NEW form
      PROVE  /\ loadSession(loadRawSession(NoCookies, [as |-> form, token |-> P(c).header])) \in Tokens \ {Malformed}
             /\ loadSession(loadRawSession(jars.route, NothingCarried)) \in Tokens \ {Malformed}
  <2>1. PICK j, t, h, n : j = jars.route /\ t = Tokens /\ h = P(c).header /\ n = NoCookies
    BY Zenon
  <2>2. /\ \A i \in DOMAIN j : j[i].id \in t
        /\ \A i \in DOMAIN n : n[i].id \in t
    BY <2>1 DEF AccessInv, TokenInv, Jars, NoCookies
  <2>3. {NoSession, Malformed} \subseteq t
    BY <2>1, Zenon DEF Tokens
  <2>4. h \in t
    BY <2>1, Before, Zenon
  <2>5. loadSession(loadRawSession(j, NothingCarried)) \in t \ {Malformed}
    BY <2>2, <2>3, Carried, Zenon
  <2>6. loadSession(loadRawSession(n, [as |-> form, token |-> h])) \in t \ {Malformed}
    BY <2>2, <2>3, <2>4, Carried, Zenon
  <2> QED BY <2>1, <2>5, <2>6, Zenon
\* the store has no trace of a session whose removal is settled
<1>s. ASSUME NEW s \in Past, Settled(s) PROVE /\ ~Has(broker, s) /\ ~Has(store, s)
  <2> USE <1>s
  <2>1. ~Has(broker, s)
    BY Lives, Zenon DEF Settled
  <2>2. ~Pending(s)
    BY Zenon DEF Settled, Pending, Removal
  <2> QED BY <2>1, <2>2, Zenon DEF AccessInv, StoreInv, Has
\* a session that is none
<1>n. ASSUME NEW q, DOMAIN q = Fields, q.pc = "evaluate", q.id = NoSession, ~q.calm
      PROVE  Stage(q) /\ Refused(q) /\ Calm(q)
  <2> USE <1>n
  <2>1. Stage(q)
    BY Zenon DEF Stage, InCreation, CheckStages, SyncStages, SyncUserStages, Tokens
  <2>2. Refused(q)
    BY Zenon DEF Refused, SyncStages, SyncUserStages
  <2> QED BY <2>1, <2>2, Zenon DEF Calm
<1>1. ASSUME Check(c), UNCHANGED used PROVE AccessInv'
  <2> USE <1>1
  <2>1. UNCHANGED <<setup, broker, feed, store, overlapped, used>> /\ UNCHANGED <<jars, cache>>
    BY Zenon DEF Check, data
  <2>2. /\ P(c).header \in Tokens /\ P(c).token \in Tokens /\ DOMAIN P(c) = Fields
        /\ Jars(jars', Tokens) /\ Cache(cache', Tokens)
    BY <2>1, Before, Zenon
  <2> DEFINE Known0(id) == {GetRecordData(store, type, id) : type \in {"session", "account"}} \ {NoRecord}
             To(id) == CASE id = NoSession -> "evaluate"
                         [] id # NoSession /\ Known0(id) # {} -> "sync user"
                         [] OTHER -> "get session"
             UserOf(id) == IF Known0(id) = {} THEN "" ELSE (CHOOSE r \in Known0(id) : TRUE).user
  <2>3. PICK id : /\ id \in Tokens \ {Malformed}
                  /\ Become(c, [id |-> id, calm |-> Known(id), settled |-> id \in used /\ Settled(id),
                                pc |-> To(id), user |-> UserOf(id)])
    <3> DEFINE Raw0(form) == IF P(c).mode \in Programs THEN loadRawSession(NoCookies, [as |-> form, token |-> P(c).header])
                             ELSE loadRawSession(jars.route, NothingCarried)
               After(i) == Become(c, [id |-> i, calm |-> Known(i), settled |-> i \in used /\ Settled(i),
                                      pc |-> To(i), user |-> UserOf(i)])
    <3>1. PICK form \in FormsOf(P(c).mode) : After(loadSession(Raw0(form)))
      BY Zenon DEF Check
    <3>2. loadSession(Raw0(form)) \in Tokens \ {Malformed}
      BY <1>r, Zenon
    <3>3. PICK i : i = loadSession(Raw0(form))
      BY Zenon
    <3> HIDE DEF Raw0, After
    <3>4. i \in Tokens \ {Malformed} /\ After(i)
      BY <3>1, <3>2, <3>3, Zenon
    <3> QED BY <3>4, Zenon DEF After
  <2>4. PICK k, st, b, u : /\ k \in BOOLEAN /\ (k <=> Known(id)) /\ st \in BOOLEAN /\ (st <=> id \in used /\ Settled(id))
                           /\ b = To(id) /\ u = UserOf(id)
                           /\ Become(c, [id |-> id, calm |-> k, settled |-> st, pc |-> b, user |-> u])
    <3>1. Known(id) \in BOOLEAN /\ (id \in used /\ Settled(id)) \in BOOLEAN
      BY Zenon DEF Known
    <3> QED BY <2>3, <3>1, ZenonT(60)
  <2> HIDE DEF To, UserOf, Known0
  <2>5. PICK f : Become(c, f) /\ f = [id |-> id, calm |-> k, settled |-> st, pc |-> b, user |-> u]
    BY <2>4, Zenon
  <2>6. /\ DOMAIN f = {"id", "calm", "settled", "pc", "user"} /\ DOMAIN f \subseteq Fields
        /\ f.id = id /\ f.calm = k /\ f.settled = st /\ f.pc = b /\ f.user = u
    BY <2>5, Zenon DEF Fields
  <2>7. PICK q : Turned(c, f, q)
    BY <2>2, <2>5, <2>6, Becomes, Zenon
  <2>8. /\ q.id = id /\ q.calm = k /\ q.settled = st /\ q.pc = b /\ q.user = u
        /\ q.header = P(c).header /\ q.token = P(c).token /\ DOMAIN q = Fields
    BY <2>6, <2>7, Zenon DEF Fields, Turned
  <2>9. b \in {"evaluate", "sync user", "get session"}
    BY <2>4, ZenonT(60) DEF To
  <2>10. Stage(q)
    BY <2>3, <2>8, <2>9, ZenonT(60) DEF Stage, InCreation, CheckStages, SyncStages, SyncUserStages
  <2>11. \A s \in setup.sessions : Known0(s) = IF Has(store, s) THEN {Session(s)} ELSE {}
    <3>1. TAKE s \in setup.sessions
    <3>2. /\ GetRecordData(store, "session", s) = IF Has(store, s) THEN Session(s) ELSE NoRecord
          /\ GetRecordData(store, "account", s) = NoRecord
          /\ Has(store, s) => Session(s) # NoRecord
      BY Lives, Found, Zenon
    <3> QED BY <3>2, Zenon DEF Known0
  <2>12. Refused(q)
    <3>1. SUFFICES ASSUME st PROVE b = "get session" /\ id \in Past /\ ~Has(broker, id)
      BY <2>8, Zenon DEF Refused, SyncStages, SyncUserStages
    <3>2. id \in used /\ Settled(id)
      BY <2>4, <3>1, Zenon
    <3>3. id \in Past
      <4>1. id \in setup.sessions
        BY <3>2, Zenon DEF AccessInv, RecordsInv
      <4>2. id \notin AccountIds /\ id \notin {"", NoSession, Malformed}
        BY <4>1, Lives, SessionKind, Zenon
      <4> QED BY <2>3, <4>2, Zenon DEF Tokens
    <3>4. ~Has(broker, id) /\ ~Has(store, id)
      BY <3>2, <3>3, <1>s, Zenon
    <3>5. Known0(id) = {} /\ id # NoSession
      BY <2>11, <3>3, <3>4, Lives, Zenon
    <3> QED BY <2>4, <3>3, <3>4, <3>5, ZenonT(60) DEF To
  <2>13. Calm(q)
    <3>1. SUFFICES ASSUME k PROVE Calm(q)
      BY <2>8, Zenon DEF Calm
    <3>2. Has(broker, id) /\ HasUser(broker, Owner[id])
      BY <2>4, <3>1, <1>k, Zenon
    <3>3. id \in setup.sessions /\ id # NoSession
      BY <3>2, Lives, ZenonT(60)
    <3>4. CASE Has(store, id)
      <4>1. Known0(id) = {Session(id)}
        BY <2>11, <3>3, <3>4, Zenon
      <4>2. b = "sync user"
        BY <2>4, <3>3, <4>1, Zenon DEF To
      <4>3. u = Session(id).user
        BY <2>4, <4>1, Zenon DEF UserOf
      <4>4. u = Owner[id]
        BY <3>3, <4>3, Lives, SessionKind, ZenonT(60)
      <4> QED BY <2>8, <3>2, <3>4, <4>2, <4>4, Zenon DEF Calm, CheckStages, SyncStages, SyncUserStages
    <3>5. CASE ~Has(store, id)
      <4>1. Known0(id) = {}
        BY <2>11, <3>3, <3>5, Zenon
      <4>2. b = "get session"
        BY <2>4, <3>3, <4>1, ZenonT(60) DEF To
      <4> QED BY <2>8, <3>2, <4>2, Zenon DEF Calm, CheckStages, SyncStages, SyncUserStages
    <3> QED BY <3>4, <3>5, Zenon
  <2>14. q.pc \notin InCreation
    BY <2>8, <2>9, Zenon DEF InCreation
  <2> QED BY <2>1, <2>2, <2>7, <2>8, <2>10, <2>12, <2>13, <2>14, QuietStep, Zenon DEF ClientOK, Turned
<1>2. ASSUME GetSession(c), UNCHANGED used PROVE AccessInv'
  <2> USE <1>2
  <2>1. UNCHANGED <<setup, broker, feed, store, overlapped, used>> /\ UNCHANGED <<jars, cache>>
    BY Zenon DEF GetSession, data
  <2>2. PICK p : p = P(c) /\ p.pc = "get session" /\ DOMAIN p = Fields /\ Stage(p) /\ Refused(p) /\ Calm(p)
    BY Before, Zenon DEF GetSession, ClientOK
  <2>3. CASE Live(P(c).id) /\ Become(c, [pc |-> "put session", got |-> GetRecordData(broker, "session", P(c).id)])
    <3>1. PICK f : Become(c, f) /\ f = [pc |-> "put session", got |-> GetRecordData(broker, "session", P(c).id)]
      BY <2>3, ZenonT(60)
    <3>2. /\ DOMAIN f = {"pc", "got"} /\ DOMAIN f \subseteq Fields /\ {"header", "token"} \cap DOMAIN f = {}
          /\ f.pc = "put session" /\ f.got = GetRecordData(broker, "session", P(c).id)
      BY <3>1, Zenon DEF Fields
    <3>3. PICK q : Turned(c, f, q)
      BY <2>2, <3>1, <3>2, Becomes, ZenonT(60)
    <3>4. /\ q.pc = "put session" /\ q.got = f.got /\ q.id = p.id /\ q.calm = p.calm /\ q.settled = p.settled
          /\ DOMAIN q = Fields
      BY <2>2, <3>2, <3>3, Zenon DEF Fields, Turned
    <3>5. Has(broker, q.id) /\ q.id \in Past
      BY <2>2, <2>3, <3>4, Lives, Zenon
    <3>6. q.got = Session(q.id)
      BY <2>2, <3>2, <3>4, <3>5, Lives, Found, Zenon
    <3>7. q.id \in Tokens
      BY <3>5, Lives, Zenon
    <3>8. Stage(q)
      BY <3>4, <3>5, <3>6, <3>7, ZenonT(60) DEF Stage, InCreation
    <3>9. Refused(q)
      BY <2>2, <3>4, <3>5, ZenonT(60) DEF Refused
    <3>10. Calm(q)
      BY <2>2, <3>4, Zenon DEF Calm, CheckStages, SyncStages, SyncUserStages
    <3>11. q.pc \in CheckStages
      BY <3>4, Zenon DEF CheckStages, SyncStages
    <3> QED BY <2>1, <3>2, <3>3, <3>8, <3>9, <3>10, <3>11, AloneStep, Zenon
  <2>4. CASE ~Live(P(c).id) /\ Become(c, [pc |-> "evaluate", id |-> NoSession])
    <3>1. PICK f : Become(c, f) /\ f = [pc |-> "evaluate", id |-> NoSession]
      BY <2>4, Zenon
    <3>2. /\ DOMAIN f = {"pc", "id"} /\ DOMAIN f \subseteq Fields /\ {"header", "token"} \cap DOMAIN f = {}
          /\ f.pc = "evaluate" /\ f.id = NoSession
      BY <3>1, Zenon DEF Fields
    <3>3. PICK q : Turned(c, f, q)
      BY <2>2, <3>1, <3>2, Becomes, ZenonT(60)
    <3>4. q.pc = "evaluate" /\ q.id = NoSession /\ q.calm = p.calm /\ DOMAIN q = Fields
      BY <2>2, <3>2, <3>3, Zenon DEF Fields, Turned
    <3>5. ~q.calm
      BY <2>2, <2>4, <3>4, Lives, Zenon DEF Calm
    <3>6. Stage(q) /\ Refused(q) /\ Calm(q)
      BY <3>4, <3>5, <1>n, Zenon
    <3>7. q.pc \in CheckStages
      BY <3>4, Zenon DEF CheckStages
    <3> QED BY <2>1, <3>2, <3>3, <3>6, <3>7, AloneStep, Zenon
  <2>5. CASE Become(c, [pc |-> "evaluate", id |-> NoSession, calm |-> FALSE])
    <3>1. PICK f : Become(c, f) /\ f = [pc |-> "evaluate", id |-> NoSession, calm |-> FALSE]
      BY <2>5, ZenonT(60)
    <3>2. /\ DOMAIN f = {"pc", "id", "calm"} /\ DOMAIN f \subseteq Fields /\ {"header", "token"} \cap DOMAIN f = {}
          /\ f.pc = "evaluate" /\ f.id = NoSession /\ ~f.calm
      BY <3>1, Zenon DEF Fields
    <3>3. PICK q : Turned(c, f, q)
      BY <2>2, <3>1, <3>2, Becomes, ZenonT(60)
    <3>4. q.pc = "evaluate" /\ q.id = NoSession /\ ~q.calm /\ DOMAIN q = Fields
      BY <2>2, <3>2, <3>3, Zenon DEF Fields, Turned
    <3>5. Stage(q) /\ Refused(q) /\ Calm(q)
      BY <3>4, <1>n, Zenon
    <3>6. q.pc \in CheckStages
      BY <3>4, Zenon DEF CheckStages
    <3> QED BY <2>1, <3>2, <3>3, <3>5, <3>6, AloneStep, Zenon
  <2> QED BY <2>3, <2>4, <2>5, Zenon DEF GetSession
<1>3. ASSUME ReadSession(c), UNCHANGED used PROVE AccessInv'
  <2> USE <1>3
  <2>1. UNCHANGED <<setup, broker, feed, store, overlapped, used>> /\ UNCHANGED <<jars, cache>>
    BY Zenon DEF ReadSession, data
  <2>2. PICK p : p = P(c) /\ p.pc = "read session" /\ DOMAIN p = Fields /\ Stage(p) /\ Refused(p) /\ Calm(p)
    BY Before, Zenon DEF ReadSession, ClientOK
  <2>3. PICK f : Become(c, f) /\ f = [pc |-> "sync user", user |-> GetRecordData(store, "session", P(c).id).user]
    BY Zenon DEF ReadSession
  <2>4. /\ DOMAIN f = {"pc", "user"} /\ DOMAIN f \subseteq Fields /\ {"header", "token"} \cap DOMAIN f = {}
        /\ f.pc = "sync user" /\ f.user = GetRecordData(store, "session", P(c).id).user
    BY <2>3, Zenon DEF Fields
  <2>5. PICK q : Turned(c, f, q)
    BY <2>2, <2>3, <2>4, Becomes, ZenonT(60)
  <2>6. /\ q.pc = "sync user" /\ q.user = f.user /\ q.id = p.id /\ q.calm = p.calm /\ q.settled = p.settled
        /\ DOMAIN q = Fields
    BY <2>2, <2>4, <2>5, ZenonT(60) DEF Fields, Turned
  <2>7. Stage(q)
    BY <2>2, <2>6, ZenonT(60) DEF Stage, InCreation, CheckStages, SyncStages, SyncUserStages
  <2>8. Refused(q)
    BY <2>2, <2>6, Zenon DEF Refused, SyncStages, SyncUserStages
  <2>9. q.calm => q.user = Owner[q.id]
    <3>1. SUFFICES ASSUME q.calm PROVE q.user = Owner[q.id]
      BY Zenon
    <3>2. Has(store, q.id)
      BY <2>2, <2>6, <3>1, Zenon DEF Calm
    <3>3. q.id \in setup.sessions /\ GetRecordData(store, "session", q.id) = Session(q.id)
      BY <3>2, Lives, Found, Zenon
    <3>4. Session(q.id).user = Owner[q.id]
      BY <3>3, Lives, SessionKind, ZenonT(60)
    <3> QED BY <2>2, <2>4, <2>6, <3>3, <3>4, Zenon
  <2>10. Calm(q)
    BY <2>2, <2>6, <2>9, Zenon DEF Calm, CheckStages, SyncStages, SyncUserStages
  <2>11. q.pc \in CheckStages
    BY <2>6, Zenon DEF CheckStages, SyncStages, SyncUserStages
  <2> QED BY <2>1, <2>4, <2>5, <2>7, <2>8, <2>10, <2>11, AloneStep, Zenon
<1>4. ASSUME SyncUser(c), UNCHANGED used PROVE AccessInv'
  <2> USE <1>4
  <2>1. UNCHANGED <<setup, broker, feed, store, overlapped, used>> /\ UNCHANGED <<jars, cache>>
    BY Zenon DEF SyncUser, data
  <2>2. PICK p : p = P(c) /\ p.pc = "sync user" /\ DOMAIN p = Fields /\ Stage(p) /\ Refused(p) /\ Calm(p)
    BY Before, Zenon DEF SyncUser, ClientOK
  <2>3. PICK b : b = IF GetRecordData(store, "user", P(c).user) = NoRecord THEN "get user" ELSE "evaluate"
    BY Zenon
  <2>4. PICK f : Become(c, f) /\ f = [pc |-> b]
    BY <2>3, Zenon DEF SyncUser
  <2>5. DOMAIN f = {"pc"} /\ DOMAIN f \subseteq Fields /\ {"header", "token"} \cap DOMAIN f = {} /\ f.pc = b
    BY <2>4, Zenon DEF Fields
  <2>6. PICK q : Turned(c, f, q)
    BY <2>2, <2>4, <2>5, Becomes, ZenonT(60)
  <2>7. /\ q.pc = b /\ q.user = p.user /\ q.id = p.id /\ q.calm = p.calm /\ q.settled = p.settled
        /\ DOMAIN q = Fields
    BY <2>2, <2>5, <2>6, Zenon DEF Fields, Turned
  <2>8. b \in {"get user", "evaluate"}
    BY <2>3, ZenonT(60)
  <2>9. Stage(q)
    BY <2>2, <2>7, <2>8, Zenon DEF Stage, InCreation, CheckStages, SyncStages, SyncUserStages
  <2>10. Refused(q)
    BY <2>2, <2>7, <2>8, Zenon DEF Refused, SyncStages, SyncUserStages
  <2>11. q.calm /\ b = "evaluate" => HasUser(store, Owner[q.id])
    <3>1. SUFFICES ASSUME q.calm, b = "evaluate" PROVE HasUser(store, Owner[q.id])
      BY Zenon
    <3>2. p.user = Owner[q.id]
      BY <2>2, <2>7, <3>1, ZenonT(60) DEF Calm, SyncUserStages
    <3>3. GetRecordData(store, "user", Owner[q.id]) # NoRecord
      BY <2>2, <2>3, <3>1, <3>2, ZenonT(60)
    <3> QED BY <3>3, Lives, Found, Zenon
  <2>12. Calm(q)
    BY <2>2, <2>7, <2>8, <2>11, Zenon DEF Calm, CheckStages, SyncStages, SyncUserStages
  <2>13. q.pc \in CheckStages
    BY <2>7, <2>8, Zenon DEF CheckStages, SyncStages, SyncUserStages
  <2> QED BY <2>1, <2>5, <2>6, <2>9, <2>10, <2>12, <2>13, AloneStep, Zenon
<1>5. ASSUME GetUser(c), UNCHANGED used PROVE AccessInv'
  <2> USE <1>5
  <2>1. UNCHANGED <<setup, broker, feed, store, overlapped, used>> /\ UNCHANGED <<jars, cache>>
    BY Zenon DEF GetUser, data
  <2>2. PICK p : p = P(c) /\ p.pc = "get user" /\ DOMAIN p = Fields /\ Stage(p) /\ Refused(p) /\ Calm(p)
    BY Before, Zenon DEF GetUser, ClientOK
  <2>3. PICK r : r = GetRecordData(broker, "user", P(c).user)
    BY Zenon
  <2>4. CASE r # NoRecord /\ Become(c, [pc |-> "put user", got |-> r])
    <3>1. PICK f : Become(c, f) /\ f = [pc |-> "put user", got |-> r]
      BY <2>4, Zenon
    <3>2. /\ DOMAIN f = {"pc", "got"} /\ DOMAIN f \subseteq Fields /\ {"header", "token"} \cap DOMAIN f = {}
          /\ f.pc = "put user" /\ f.got = r
      BY <3>1, Zenon DEF Fields
    <3>3. PICK q : Turned(c, f, q)
      BY <2>2, <3>1, <3>2, Becomes, ZenonT(60)
    <3>4. /\ q.pc = "put user" /\ q.got = r /\ q.user = p.user /\ q.id = p.id /\ q.calm = p.calm /\ q.settled = p.settled
          /\ DOMAIN q = Fields
      BY <2>2, <3>2, <3>3, ZenonT(60) DEF Fields, Turned
    <3>5. r \in Records \ {NoRecord} /\ r.type = "user" /\ r.id = q.user
      <4>1. NoRecord \notin broker /\ broker \subseteq Records
        BY Lives, Zenon
      <4>2. PICK u : u = p.user /\ r = GetRecordData(broker, "user", u)
        BY <2>2, <2>3, Zenon
      <4>3. r \in broker /\ r.type = "user" /\ r.id = u
        BY <2>4, <4>1, <4>2, Get, ZenonT(60)
      <4> QED BY <2>4, <3>4, <4>1, <4>2, <4>3, Zenon
    <3>6. Stage(q)
      BY <2>2, <3>4, <3>5, Zenon DEF Stage, InCreation, CheckStages, SyncStages, SyncUserStages
    <3>7. Refused(q)
      BY <2>2, <3>4, ZenonT(60) DEF Refused, SyncStages, SyncUserStages
    <3>8. Calm(q)
      BY <2>2, <3>4, Zenon DEF Calm, CheckStages, SyncStages, SyncUserStages
    <3>9. q.pc \in CheckStages
      BY <3>4, Zenon DEF CheckStages, SyncStages, SyncUserStages
    <3> QED BY <2>1, <3>2, <3>3, <3>6, <3>7, <3>8, <3>9, AloneStep, Zenon
  <2>5. ASSUME NEW f, Become(c, f), DOMAIN f \subseteq Fields, {"header", "token", "id", "settled"} \cap DOMAIN f = {},
               "pc" \in DOMAIN f, f.pc = "evaluate", NEW q, Turned(c, f, q), ~q.calm
        PROVE  AccessInv'
    <3>1. q.pc = "evaluate" /\ q.id = p.id /\ q.settled = p.settled /\ DOMAIN q = Fields
      BY <2>2, <2>5, ZenonT(60) DEF Fields, Turned
    <3>2. Stage(q)
      BY <2>2, <3>1, Zenon DEF Stage, InCreation, CheckStages, SyncStages, SyncUserStages
    <3>3. Refused(q)
      BY <2>2, <3>1, Zenon DEF Refused, SyncStages, SyncUserStages
    <3>4. Calm(q)
      BY <2>5, Zenon DEF Calm
    <3>5. q.pc \in CheckStages /\ {"header", "token"} \cap DOMAIN f = {}
      BY <2>5, <3>1, Zenon DEF CheckStages
    <3> QED BY <2>1, <2>5, <3>2, <3>3, <3>4, <3>5, AloneStep, ZenonT(60)
  <2>6. CASE r = NoRecord /\ Become(c, [pc |-> "evaluate"])
    <3>1. PICK f : Become(c, f) /\ f = [pc |-> "evaluate"]
      BY <2>6, Zenon
    <3>2. /\ DOMAIN f = {"pc"} /\ DOMAIN f \subseteq Fields /\ {"header", "token", "id", "settled"} \cap DOMAIN f = {}
          /\ "pc" \in DOMAIN f /\ f.pc = "evaluate"
      BY <3>1, Zenon DEF Fields
    <3>3. PICK q : Turned(c, f, q)
      BY <2>2, <3>1, <3>2, Becomes, ZenonT(60)
    <3>4. q.calm = p.calm
      BY <2>2, <3>2, <3>3, ZenonT(60) DEF Fields, Turned
    <3>5. p.calm => HasUser(broker, p.user)
      BY <2>2, Zenon DEF Calm, SyncUserStages
    <3>6. ~HasUser(broker, p.user)
      BY <2>2, <2>3, <2>6, Lives, Found, Zenon
    <3>7. ~q.calm
      BY <3>4, <3>5, <3>6, Zenon
    <3> QED BY <2>5, <3>1, <3>2, <3>3, <3>7, Zenon
  <2>7. CASE Become(c, [pc |-> "evaluate", calm |-> FALSE])
    <3>1. PICK f : Become(c, f) /\ f = [pc |-> "evaluate", calm |-> FALSE]
      BY <2>7, Zenon
    <3>2. /\ DOMAIN f = {"pc", "calm"} /\ DOMAIN f \subseteq Fields /\ {"header", "token", "id", "settled"} \cap DOMAIN f = {}
          /\ "pc" \in DOMAIN f /\ f.pc = "evaluate" /\ ~f.calm
      BY <3>1, Zenon DEF Fields
    <3>3. PICK q : Turned(c, f, q)
      BY <2>2, <3>1, <3>2, Becomes, Zenon
    <3>4. ~q.calm
      BY <3>2, <3>3, Zenon DEF Turned
    <3> QED BY <2>5, <3>1, <3>2, <3>3, <3>4, Zenon
  <2> QED BY <2>3, <2>4, <2>6, <2>7, Zenon DEF GetUser
<1>6. ASSUME EvaluateSession(c), UNCHANGED used PROVE AccessInv'
  <2> USE <1>6
  <2>1. UNCHANGED <<setup, broker, feed, store, overlapped, used>> /\ UNCHANGED <<jars, cache>>
    BY Zenon DEF EvaluateSession, data
  <2>2. PICK p : p = P(c) /\ p.pc = "evaluate" /\ DOMAIN p = Fields /\ Stage(p) /\ Refused(p) /\ Calm(p)
    BY Before, Zenon DEF EvaluateSession, ClientOK
  <2>3. PICK f : Become(c, f) /\ f = [pc |-> "decide", user |-> "", got |-> session(store, P(c).id)]
    BY Zenon DEF EvaluateSession
  <2>4. /\ DOMAIN f = {"pc", "user", "got"} /\ DOMAIN f \subseteq Fields /\ {"header", "token"} \cap DOMAIN f = {}
        /\ f.pc = "decide" /\ f.got = session(store, P(c).id)
    BY <2>3, Zenon DEF Fields
  <2>5. PICK q : Turned(c, f, q)
    BY <2>2, <2>3, <2>4, Becomes, ZenonT(60)
  <2>6. /\ q.pc = "decide" /\ q.got = session(store, q.id) /\ q.id = p.id /\ q.calm = p.calm /\ q.settled = p.settled
        /\ DOMAIN q = Fields
    BY <2>2, <2>4, <2>5, Zenon DEF Fields, Turned
  <2>7. Stage(q)
    BY <2>2, <2>6, Zenon DEF Stage, InCreation, CheckStages, SyncStages, SyncUserStages
  <2>8. session(store, NoSession) = NoRecord
    <3>1. ~Has(store, NoSession)
      BY Lives, Zenon
    <3> QED BY <3>1, Lives, Found, Zenon DEF session
  <2>9. Refused(q)
    BY <2>2, <2>6, <2>8, Zenon DEF Refused, SyncStages, SyncUserStages
  <2>10. q.calm => q.got = Session(q.id)
    <3>1. SUFFICES ASSUME q.calm PROVE q.got = Session(q.id)
      BY Zenon
    <3>2. Has(store, q.id) /\ HasUser(store, Owner[q.id])
      BY <2>2, <2>6, <3>1, Zenon DEF Calm
    <3> QED BY <2>6, <3>2, Lives, CalmAnswer, Zenon
  <2>11. Calm(q)
    BY <2>2, <2>6, <2>10, Zenon DEF Calm, CheckStages, SyncStages, SyncUserStages
  <2>12. q.pc \in CheckStages
    BY <2>6, Zenon DEF CheckStages
  <2> QED BY <2>1, <2>4, <2>5, <2>7, <2>9, <2>11, <2>12, AloneStep, Zenon
<1>7. ASSUME Decide(c), UNCHANGED used PROVE AccessInv'
  <2> USE <1>7
  <2>1. UNCHANGED <<setup, broker, feed, store, overlapped, used>> /\ UNCHANGED jars /\ P(c).pc = "decide"
    BY Zenon DEF Decide, data
  <2>2. PICK st : st = Status(c)
    BY Zenon
  <2>3. st \in {200, 401, 403, 495, 500} /\ (st = 401 => P(c).id = NoSession)
    <3>1. PICK po, r, i, g, db : po = policy /\ r = CheckRequest(c) /\ i = P(c).id /\ g = P(c).got /\ db = store
      BY Zenon
    <3>2. /\ Evaluate(po, r, i, g, db) \in {200, 401, 403, 495, 500}
          /\ Evaluate(po, r, i, g, db) = 401 => i = NoSession
      BY Statuses, SMTT(60)
    <3> QED BY <2>2, <3>1, <3>2 DEF Status
  <2>4. /\ \/ st = 200 /\ okResponse(c)
           \/ st = 401 /\ (Unauthenticated(c) \/ GetJWT(c) \/ End(c, "unauthenticated"))
           \/ st # 200 /\ st # 401 /\ deniedResponse(c, st)
        /\ UNCHANGED cache \/ DeleteJWT
    <3>1. CASE P(c).mode = "tunnel"
      <4>1. run(c, st)
        BY <2>2, <3>1, Zenon DEF Decide
      <4> QED BY <4>1, ZenonT(60) DEF run
    <3>2. CASE P(c).mode # "tunnel"
      <4>1. /\ CASE st = 200 -> okResponse(c)
                 [] st = 401 -> Unauthenticated(c)
                 [] OTHER -> deniedResponse(c, st)
            /\ UNCHANGED cache
        BY <2>2, <3>2, Zenon DEF Decide
      <4> QED BY <4>1, ZenonT(60)
    <3> QED BY <3>1, <3>2, Zenon
  <2>5. Jars(jars', Tokens) /\ Cache(cache', Tokens)
    <3>1. PICK t : t = Tokens /\ Cache(cache, t) /\ NoSession \in t
      BY Before, Zenon
    <3>2. Cache([cache EXCEPT !.jwt = NoSession], t)
      BY <3>1, CacheSet, Zenon
    <3> QED BY <2>1, <2>4, <3>1, <3>2, Before, ZenonT(60) DEF DeleteJWT
  <2>6. CASE st = 200 /\ okResponse(c)
    <3>1. CASE P(c).url = "callback"
      <4>1. PICK f : Become(c, f) /\ f = [pc |-> "callback", url |-> "app", got |-> NoRecord]
        BY <2>6, <3>1, Zenon DEF okResponse
      <4>2. DOMAIN f = {"pc", "url", "got"} /\ f.pc = "callback"
        BY <4>1, Zenon
      <4> QED BY <2>1, <2>5, <4>1, <4>2, BecomeStep, Zenon DEF Fields, Between, Waiting
    <3>2. CASE P(c).url # "callback"
      <4>1. PICK identity : identity = user(store, P(c).got).id
        BY Zenon
      <4>2. Done(c, "ok", identity)
        <5>1. identity_headers(store, P(c).got).assertion.user = identity
          BY <4>1, Zenon DEF identity_headers, jwt_payload, jwt_payload_user
        <5> QED BY <2>6, <3>2, <5>1, Zenon DEF okResponse
      <4>3. Reply(Status(c)) = "ok"
        BY <2>2, <2>3, <2>6, Replies
      <4> QED BY <2>1, <2>5, <4>1, <4>2, <4>3, Decided, Zenon
    <3> QED BY <3>1, <3>2, Zenon
  <2>7. CASE st = 401 /\ (Unauthenticated(c) \/ GetJWT(c) \/ End(c, "unauthenticated"))
    <3>1. ~P(c).calm
      <4>1. P(c).calm => Has(broker, P(c).id)
        BY Before, Zenon DEF ClientOK, Calm
      <4> QED BY <2>3, <2>7, <4>1, Lives, ZenonT(60)
    <3>2. CASE End(c, "unauthenticated")
      BY <2>1, <2>5, <3>2, EndStep, Zenon
    <3>3. ASSUME NEW f, Become(c, f), DOMAIN f \subseteq {"pc", "got", "retried"}, "pc" \in DOMAIN f,
                 f.pc \in {"sign in", "start authn", "login"}
          PROVE  AccessInv'
      BY <2>1, <2>5, <3>1, <3>3, BecomeStep, Zenon DEF Fields, Between, Pages
    <3>4. CASE GetJWT(c)
      <4>1. PICK f : Become(c, f) /\ f = [pc |-> "login", retried |-> TRUE, got |-> NoRecord]
        BY <3>4, ZenonT(60) DEF GetJWT
      <4>2. DOMAIN f = {"pc", "retried", "got"} /\ f.pc = "login"
        BY <4>1, Zenon
      <4> QED BY <3>3, <4>1, <4>2, Zenon
    <3>5. CASE Become(c, [pc |-> "sign in", got |-> NoRecord])
      <4>1. PICK f : Become(c, f) /\ f = [pc |-> "sign in", got |-> NoRecord]
        BY <3>5, ZenonT(60)
      <4>2. DOMAIN f = {"pc", "got"} /\ f.pc = "sign in"
        BY <4>1, Zenon
      <4> QED BY <3>3, <4>1, <4>2, Zenon
    <3>6. CASE Become(c, [pc |-> "start authn", got |-> NoRecord])
      <4>1. PICK f : Become(c, f) /\ f = [pc |-> "start authn", got |-> NoRecord]
        BY <3>6, Zenon
      <4>2. DOMAIN f = {"pc", "got"} /\ f.pc = "start authn"
        BY <4>1, Zenon
      <4> QED BY <3>3, <4>1, <4>2, Zenon
    <3> QED BY <2>7, <3>2, <3>4, <3>5, <3>6, Zenon DEF Unauthenticated, redirectResponse
  <2>8. CASE st # 200 /\ st # 401 /\ deniedResponse(c, st)
    <3>1. PICK reply : reply = IF st = 403 THEN "forbidden" ELSE "error"
      BY Zenon
    <3>2. Done(c, reply, "")
      BY <2>8, <3>1, Zenon DEF deniedResponse
    <3>3. reply = Reply(Status(c)) /\ reply # "ok"
      BY <2>2, <2>3, <2>8, <3>1, Replies
    <3> QED BY <2>1, <2>5, <3>2, <3>3, Decided, Zenon
  <2> QED BY <2>4, <2>6, <2>7, <2>8, Zenon
<1> QED
  BY <1>1, <1>2, <1>3, <1>4, <1>5, <1>6, <1>7, Zenon

-----------------------------------------------------------------------------
(* Steps that write records *)

\* UpdateRecord changes the record of one kind and identifier
LEMMA Updated ==
  ASSUME NEW db, NEW r, NEW deleted
  PROVE  /\ \A s : Has(UpdateRecord(db, r, deleted), s) <=>
                     IF r.type = "session" /\ r.id = s THEN ~deleted ELSE Has(db, s)
         /\ \A u : HasUser(UpdateRecord(db, r, deleted), u) <=>
                     IF r.type = "user" /\ r.id = u THEN ~deleted ELSE HasUser(db, u)
         /\ UpdateRecord(db, r, deleted) \subseteq db \cup {r}
         /\ deleted => UpdateRecord(db, r, deleted) \subseteq db
  BY Zenon DEF Has, HasUser, UpdateRecord, Without, Same

\* writing and deleting a record
LEMMA Written ==
  ASSUME NEW db, NEW r
  PROVE  /\ \A s : Has(UpdateRecord(db, r, FALSE), s) <=> (r.type = "session" /\ r.id = s) \/ Has(db, s)
         /\ \A u : HasUser(UpdateRecord(db, r, FALSE), u) <=> (r.type = "user" /\ r.id = u) \/ HasUser(db, u)
         /\ UpdateRecord(db, r, FALSE) \subseteq db \cup {r}
<1>1. \A s : Has(UpdateRecord(db, r, FALSE), s) <=> IF r.type = "session" /\ r.id = s THEN ~FALSE ELSE Has(db, s)
  BY Updated, Zenon
<1>2. \A u : HasUser(UpdateRecord(db, r, FALSE), u) <=> IF r.type = "user" /\ r.id = u THEN ~FALSE ELSE HasUser(db, u)
  BY Updated, Zenon
<1>3. UpdateRecord(db, r, FALSE) \subseteq db \cup {r}
  BY Updated, Zenon
<1> QED BY <1>1, <1>2, <1>3, Zenon

\* a record that is removed is gone, the others stay
LEMMA Removed ==
  ASSUME NEW db, NEW r
  PROVE  /\ \A s : Has(UpdateRecord(db, r, TRUE), s) <=> ~(r.type = "session" /\ r.id = s) /\ Has(db, s)
         /\ \A u : HasUser(UpdateRecord(db, r, TRUE), u) <=> ~(r.type = "user" /\ r.id = u) /\ HasUser(db, u)
         /\ UpdateRecord(db, r, TRUE) \subseteq db
<1>1. \A s : Has(UpdateRecord(db, r, TRUE), s) <=> IF r.type = "session" /\ r.id = s THEN ~TRUE ELSE Has(db, s)
  BY Updated, Zenon
<1>2. \A u : HasUser(UpdateRecord(db, r, TRUE), u) <=> IF r.type = "user" /\ r.id = u THEN ~TRUE ELSE HasUser(db, u)
  BY Updated, Zenon
<1>3. UpdateRecord(db, r, TRUE) \subseteq db
  BY Updated, Zenon
<1> QED BY <1>1, <1>2, <1>3, Zenon

\* everything but the clients, and what the others keep
DataInv == RecordsInv /\ FeedInv /\ StoreInv

Keeps == \A p : ClientOK(p) => ClientOK(p)'

\* a record the store gets from a check
LEMMA StoreWritten ==
  ASSUME AccessInv, NEW r \in Records \ {NoRecord}, store' = store \/ store' = UpdateRecord(store, r, FALSE),
         r.type = "session" => r.id \in Past /\ (Has(broker, r.id) \/ Pending(r.id)),
         UNCHANGED <<setup, broker, feed, overlapped, used>>, Past \subseteq Past'
  PROVE  DataInv' /\ Keeps
<1>1. \A s : (Has(broker, s)' <=> Has(broker, s)) /\ (Pending(s)' <=> Pending(s))
  BY Zenon DEF Has, Pending
<1>2. \A u : HasUser(broker, u)' <=> HasUser(broker, u)
  BY Zenon DEF HasUser
<1>a. PICK db : db = store /\ (store' = db \/ store' = UpdateRecord(db, r, FALSE))
  BY Zenon
<1>b. /\ UpdateRecord(db, r, FALSE) \subseteq db \cup {r}
      /\ \A s : Has(db, s) => Has(UpdateRecord(db, r, FALSE), s)
      /\ \A u : HasUser(db, u) => HasUser(UpdateRecord(db, r, FALSE), u)
  BY Written, Zenon
<1>3. store' \subseteq store \cup {r}
  BY <1>a, <1>b, Zenon
<1>4. /\ \A s : Has(store, s) => Has(store', s)
      /\ \A u : HasUser(store, u) => HasUser(store', u)
  BY <1>a, <1>b, Zenon
<1>5. Records' = Records
  BY SetupKept, Zenon
<1>6. RecordsInv'
  <2>1. setup' \in Setups' /\ used' \subseteq setup'.sessions /\ broker' \subseteq Records' \ {NoRecord}
    BY <1>5, Zenon DEF AccessInv, RecordsInv
  <2>2. store' \subseteq Records' \ {NoRecord}
    BY <1>3, <1>5, Zenon DEF AccessInv, RecordsInv
  <2>3. \A x \in broker' \cup store' : x.type = "session" => x.id \in Past'
    BY <1>3, Zenon DEF AccessInv, RecordsInv
  <2> QED BY <2>1, <2>2, <2>3, Zenon DEF RecordsInv
<1>7. FeedInv'
  <2>1. Changes' = Changes
    BY <1>5, Zenon DEF Changes
  <2> QED BY <1>1, <2>1, Zenon DEF AccessInv, FeedInv
<1>8. StoreInv'
  <2>1. \A x \in store : x.type = "session" => Has(broker, x.id) \/ Pending(x.id)
    BY Zenon DEF AccessInv, StoreInv
  <2>2. \A x \in store' : x.type = "session" => Has(broker, x.id) \/ Pending(x.id)
    BY <1>3, <2>1, Zenon
  <2> QED BY <1>1, <2>2, Zenon DEF StoreInv
<1>9. Keeps
  <2>1. SUFFICES ASSUME NEW p, ClientOK(p) PROVE ClientOK(p)'
    BY Zenon DEF Keeps
  <2>2. (p.settled /\ p.pc = "get session" => ~Has(broker, p.id)) /\ (p.calm => Has(broker, p.id) /\ HasUser(broker, Owner[p.id]))
    BY <2>1, Zenon DEF ClientOK, Refused, Calm
  <2>3. used \subseteq used'
    BY Zenon
  <2> QED BY <1>1, <1>2, <1>4, <2>1, <2>2, <2>3, Frame, Zenon
<1> QED BY <1>6, <1>7, <1>8, <1>9, Zenon DEF DataInv

\* one client moves, and the data with it
LEMMA DataStep ==
  ASSUME AccessInv, NEW c \in Clients, NEW q, clients' = [clients EXCEPT ![c] = q], DataInv', Keeps, ClientOK(q)',
         Past \subseteq Past', q.pc \in InCreation => P(c).pc \in InCreation /\ q.id = P(c).id,
         q.header \in Tokens, q.token \in Tokens, Jars(jars', Tokens), Cache(cache', Tokens)
  PROVE  AccessInv'
<1>1. /\ DOMAIN clients' = Clients /\ clients'[c] = q
      /\ \A d \in Clients : d # c => clients'[d] = clients[d]
  BY Moved, Zenon DEF AccessInv, ClientsInv
<1>2. \A d \in Clients : clients'[d].header \in Tokens /\ clients'[d].token \in Tokens
  BY <1>1, Zenon DEF AccessInv, TokenInv, P
<1>3. TokenInv'
  BY <1>2, TokensKept, TokensStep, Zenon
<1>4. ClientsInv'
  BY ClientsStep, Zenon DEF AccessInv, Keeps
<1> QED BY <1>3, <1>4, Zenon DEF AccessInv, DataInv

\* the past of a step that begins no session
LEMMA PastStep ==
  ASSUME AccessInv, NEW c \in Clients, NEW q, clients' = [clients EXCEPT ![c] = q], UNCHANGED used,
         q.pc \in InCreation => P(c).pc \in InCreation /\ q.id = P(c).id
  PROVE  Past \subseteq Past'
<1>1. /\ DOMAIN clients' = Clients /\ clients'[c] = q
      /\ \A d \in Clients : d # c => clients'[d] = clients[d]
  BY Moved, Zenon DEF AccessInv, ClientsInv
<1>2. \A d \in Clients : clients'[d].pc \in InCreation => clients[d].pc \in InCreation /\ clients'[d].id = clients[d].id
  BY <1>1, Zenon DEF P
<1> QED BY <1>2, PastGrows, Zenon

\* the authorize service
LEMMA CheckNextStep ==
  ASSUME AccessInv, NEW c \in Clients
  PROVE  CheckNext(c) => AccessInv'
<1>1. ASSUME PutSession(c), UNCHANGED used PROVE AccessInv'
  <2> USE <1>1
  <2>1. /\ UNCHANGED <<setup, broker, feed, overlapped, used>> /\ UNCHANGED <<jars, cache>>
        /\ store' = IF GetRecordData(store, "session", P(c).id) = NoRecord THEN UpdateRecord(store, P(c).got, FALSE) ELSE store
    BY Zenon DEF PutSession, data
  <2>2. PICK p : p = P(c) /\ p.pc = "put session" /\ DOMAIN p = Fields /\ Stage(p) /\ Refused(p) /\ Calm(p)
    BY Before, Zenon DEF PutSession, ClientOK
  <2>3. PICK r, id : r = p.got /\ id = p.id
    BY Zenon
  <2>4. r = Session(id) /\ id \in Past /\ (Has(broker, id) \/ Pending(id)) /\ id \in Tokens
    BY <2>2, <2>3, Zenon DEF Stage, CheckStages, SyncStages
  <2>5. r \in Records \ {NoRecord} /\ r.type = "session" /\ r.id = id
    <3>1. id \in setup.sessions
      BY <2>4, Lives, Zenon
    <3>2. Session(id) \in Records /\ Session(id) # NoRecord /\ Session(id).type = "session" /\ Session(id).id = id
      BY <3>1, Lives, SessionKind, Zenon
    <3> QED BY <2>4, <3>2, Zenon
  <2>6. PICK f : Become(c, f) /\ f = [pc |-> "read session", got |-> NoRecord]
    BY Zenon DEF PutSession
  <2>7. /\ DOMAIN f = {"pc", "got"} /\ DOMAIN f \subseteq Fields /\ f.pc = "read session"
    BY <2>6, Zenon DEF Fields
  <2>8. PICK q : Turned(c, f, q)
    BY <2>2, <2>6, <2>7, Becomes, Zenon
  <2>9. /\ q.pc = "read session" /\ q.id = id /\ q.calm = p.calm /\ q.settled = p.settled
        /\ DOMAIN q = Fields /\ q.header = p.header /\ q.token = p.token
    BY <2>2, <2>3, <2>7, <2>8, Zenon DEF Fields, Turned
  <2>10. q.pc \notin InCreation
    BY <2>9, Zenon DEF InCreation
  <2>11. Past \subseteq Past'
    BY <2>1, <2>8, <2>10, PastStep, Zenon DEF Turned
  <2>12. store' = store \/ store' = UpdateRecord(store, r, FALSE)
    BY <2>1, <2>2, <2>3, Zenon
  <2>13. DataInv' /\ Keeps
    BY <2>1, <2>4, <2>5, <2>11, <2>12, StoreWritten, Zenon
  <2>14. Has(store', id)
    <3>1. GetRecordData(store, "session", id) = NoRecord <=> ~Has(store, id)
      BY Lives, Found, Zenon
    <3>2. Has(UpdateRecord(store, r, FALSE), id)
      BY <2>5, Updated, Zenon
    <3> QED BY <2>1, <2>2, <2>3, <3>1, <3>2, Zenon
  <2>15. ClientOK(q)'
    <3>1. id \in Tokens'
      BY <2>4, <2>11, TokensKept, Zenon
    <3>2. Stage(q)'
      BY <2>9, <3>1, Zenon DEF Stage, InCreation
    <3>3. ~q.settled
      BY <2>2, <2>9, Zenon DEF Refused, SyncStages
    <3>4. q.calm => Has(broker', q.id) /\ HasUser(broker', Owner[q.id])
      BY <2>1, <2>2, <2>3, <2>9, Zenon DEF Calm
    <3>5. q.pc \in CheckStages /\ q.pc \notin SyncUserStages \cup {"evaluate", "decide", "done"}
      BY <2>9, Zenon DEF CheckStages, SyncStages, SyncUserStages
    <3>6. Calm(q)'
      BY <2>9, <2>14, <3>4, <3>5, Zenon DEF Calm
    <3> QED BY <3>2, <3>3, <3>6, Zenon DEF ClientOK, Refused
  <2> QED BY <2>1, <2>2, <2>8, <2>9, <2>10, <2>11, <2>13, <2>15, DataStep, Before, ZenonT(60) DEF Turned
<1>2. ASSUME PutUser(c), UNCHANGED used PROVE AccessInv'
  <2> USE <1>2
  <2>1. /\ UNCHANGED <<setup, broker, feed, overlapped, used>> /\ UNCHANGED <<jars, cache>>
        /\ store' = IF GetRecordData(store, "user", P(c).user) = NoRecord THEN UpdateRecord(store, P(c).got, FALSE) ELSE store
    BY Zenon DEF PutUser, data
  <2>2. PICK p : p = P(c) /\ p.pc = "put user" /\ DOMAIN p = Fields /\ Stage(p) /\ Refused(p) /\ Calm(p)
    BY Before, Zenon DEF PutUser, ClientOK
  <2>3. PICK r, u : r = p.got /\ u = p.user
    BY Zenon
  <2>4. r \in Records \ {NoRecord} /\ r.type = "user" /\ r.id = u /\ p.id \in Tokens /\ r.type # "session"
    BY <2>2, <2>3, Zenon DEF Stage, CheckStages, SyncStages, SyncUserStages
  <2>6. PICK f : Become(c, f) /\ f = [pc |-> "evaluate", got |-> NoRecord]
    BY Zenon DEF PutUser
  <2>7. /\ DOMAIN f = {"pc", "got"} /\ DOMAIN f \subseteq Fields /\ f.pc = "evaluate"
    BY <2>6, Zenon DEF Fields
  <2>8. PICK q : Turned(c, f, q)
    BY <2>2, <2>6, <2>7, Becomes, Zenon
  <2>9. /\ q.pc = "evaluate" /\ q.id = p.id /\ q.calm = p.calm /\ q.settled = p.settled
        /\ DOMAIN q = Fields /\ q.header = p.header /\ q.token = p.token
    BY <2>2, <2>3, <2>7, <2>8, Zenon DEF Fields, Turned
  <2>10. q.pc \notin InCreation
    BY <2>9, Zenon DEF InCreation
  <2>11. Past \subseteq Past'
    BY <2>1, <2>8, <2>10, PastStep, Zenon DEF Turned
  <2>12. store' = store \/ store' = UpdateRecord(store, r, FALSE)
    BY <2>1, <2>2, <2>3, Zenon
  <2>13. DataInv' /\ Keeps
    BY <2>1, <2>4, <2>11, <2>12, StoreWritten, Zenon
  <2>14. HasUser(store', u) /\ \A s : Has(store, s) => Has(store', s)
    <3>1. GetRecordData(store, "user", u) = NoRecord <=> ~HasUser(store, u)
      BY Lives, Found, Zenon
    <3>2. HasUser(UpdateRecord(store, r, FALSE), u) /\ \A s : Has(store, s) => Has(UpdateRecord(store, r, FALSE), s)
      BY <2>4, Updated, ZenonT(60)
    <3> QED BY <2>1, <2>2, <2>3, <3>1, <3>2, Zenon
  <2>15. ClientOK(q)'
    <3>1. q.id \in Tokens'
      BY <2>4, <2>9, <2>11, TokensKept, Zenon
    <3>2. Stage(q)'
      BY <2>9, <3>1, Zenon DEF Stage, InCreation
    <3>3. ~q.settled
      BY <2>2, <2>9, Zenon DEF Refused, SyncStages, SyncUserStages
    <3>4. q.calm => /\ Has(broker', q.id) /\ HasUser(broker', Owner[q.id]) /\ u = Owner[q.id]
                    /\ Has(store, q.id)
      BY <2>1, <2>2, <2>3, <2>9, Zenon DEF Calm, SyncUserStages
    <3>5. q.pc \in CheckStages /\ q.pc \notin SyncUserStages \cup {"decide", "done"}
      BY <2>9, Zenon DEF CheckStages, SyncStages, SyncUserStages
    <3>6. Calm(q)'
      BY <2>9, <2>14, <3>4, <3>5, Zenon DEF Calm
    <3> QED BY <3>2, <3>3, <3>6, Zenon DEF ClientOK, Refused
  <2> QED BY <2>1, <2>2, <2>8, <2>9, <2>10, <2>11, <2>13, <2>15, DataStep, Before, ZenonT(60) DEF Turned
<1> QED
  BY <1>1, <1>2, CheckQuiet, Zenon DEF CheckNext, forceSyncSession, forceSyncUser

\* the changes on their way after one is added
LEMMA Appended ==
  ASSUME NEW S, NEW f \in Seq(S), NEW x \in S, NEW g, g = Append(f, x)
  PROVE  /\ g \in Seq(S)
         /\ \E n : /\ DOMAIN g = DOMAIN f \cup {n} /\ g[n] = x
                   /\ \A i \in DOMAIN f : g[i] = f[i] /\ n > i
<1>1. g \in Seq(S) /\ Len(g) = Len(f) + 1 /\ g[Len(f) + 1] = x /\ \A i \in 1 .. Len(f) : g[i] = f[i]
  OBVIOUS
<1>2. DOMAIN f = 1 .. Len(f) /\ DOMAIN g = 1 .. Len(g) /\ Len(f) \in Nat
  BY <1>1
<1>3. DOMAIN g = DOMAIN f \cup {Len(f) + 1} /\ \A i \in DOMAIN f : Len(f) + 1 > i
  BY <1>1, <1>2
<1> QED BY <1>1, <1>2, <1>3, Zenon

\* what a change that is on its way must satisfy, given what the databroker has
Sent(x, past, db) ==
  LET r == x.record
  IN /\ x.clear \/ r # NoRecord
     /\ x.clear => r = NoRecord /\ ~x.deleted
     /\ r.type = "session" => r.id \in past
     /\ x.deleted => r.type = "session" /\ ~Has(db, r.id)

\* a session that was sent and is no longer there
Lost(x, db) == x.record.type = "session" /\ ~x.deleted /\ ~Has(db, x.record.id)

\* the feed's invariant, change by change
LEMMA FeedForm ==
  FeedInv <=> /\ feed \in Seq(Changes)
              /\ \A i \in DOMAIN feed :
                   /\ Sent(feed[i], Past, broker)
                   /\ Lost(feed[i], broker) => \E j \in DOMAIN feed : j > i /\ Removal(feed[j], feed[i].record.id)
  BY Zenon DEF FeedInv, Sent, Lost

\* a record that is written, of a session nobody has heard of yet
LEMMA PutWritten ==
  ASSUME AccessInv, NEW r \in Records \ {NoRecord}, Put(r), r.type = "session" => r.id \in Past' /\ r.id \notin Past,
         UNCHANGED <<setup, store, overlapped, used>>, Past \subseteq Past'
  PROVE  DataInv' /\ Keeps
<1>1. broker' = UpdateRecord(broker, r, FALSE) /\ feed' = Append(feed, Changed(r, FALSE))
  BY Zenon DEF Put
<1>2. PICK x : x = Changed(r, FALSE)
  BY Zenon
<1>3. x.clear = FALSE /\ x.record = r /\ x.deleted = FALSE /\ x \in Changes
  BY <1>2, Zenon DEF Changed, Changes
<1>4. feed \in Seq(Changes)
  BY Zenon DEF AccessInv, FeedInv
<1>5. feed' \in Seq(Changes)
  BY <1>1, <1>2, <1>3, <1>4, Appended, Zenon
<1>a. PICK f, g : f = feed /\ g = feed' /\ f \in Seq(Changes) /\ g = Append(f, x)
  BY <1>1, <1>2, <1>4, Zenon
<1>b. PICK n : /\ DOMAIN g = DOMAIN f \cup {n} /\ g[n] = x
               /\ \A i \in DOMAIN f : g[i] = f[i] /\ n > i
  BY <1>a, <1>3, Appended
<1>6. /\ DOMAIN feed' = DOMAIN feed \cup {n} /\ feed'[n] = x
      /\ \A i \in DOMAIN feed : feed'[i] = feed[i] /\ n > i
  BY <1>a, <1>b, Zenon
<1>7. /\ \A s : Has(broker', s) <=> (r.type = "session" /\ r.id = s) \/ Has(broker, s)
      /\ \A u : HasUser(broker, u) => HasUser(broker', u)
      /\ broker' \subseteq broker \cup {r}
  BY <1>1, Written, Zenon
<1>8. \A s : Pending(s) => Pending(s)'
  BY <1>6, Zenon DEF Pending
<1>9. Records' = Records
  BY SetupKept, Zenon
<1>10. RecordsInv'
  <2>1. setup' \in Setups' /\ used' \subseteq setup'.sessions /\ store' \subseteq Records' \ {NoRecord}
    BY <1>9, Zenon DEF AccessInv, RecordsInv
  <2>2. broker' \subseteq Records' \ {NoRecord}
    BY <1>7, <1>9, Zenon DEF AccessInv, RecordsInv
  <2>3. \A y \in broker' \cup store' : y.type = "session" => y.id \in Past'
    BY <1>7, Zenon DEF AccessInv, RecordsInv
  <2> QED BY <2>1, <2>2, <2>3, Zenon DEF RecordsInv
<1>11. FeedInv'
  <2>1. Changes' = Changes
    BY <1>9, Zenon DEF Changes
  <2>2. \A i \in DOMAIN feed : Sent(feed[i], Past, broker)
    BY FeedForm, Zenon DEF AccessInv
  <2>3. \A y : Sent(y, Past, broker) => Sent(y, Past', broker')
    BY <1>7, Zenon DEF Sent
  <2>4. Sent(x, Past', broker')
    BY <1>3, Zenon DEF Sent
  <2>5. \A i \in DOMAIN feed' : Sent(feed'[i], Past', broker')
    BY <1>6, <2>2, <2>3, <2>4, Zenon
  <2>6. \A y : Lost(y, broker') => Lost(y, broker)
    BY <1>7, Zenon DEF Lost
  <2>7. ~Lost(x, broker')
    BY <1>3, <1>7, Zenon DEF Lost
  <2>8. \A i \in DOMAIN feed : Lost(feed[i], broker) => \E j \in DOMAIN feed : j > i /\ Removal(feed[j], feed[i].record.id)
    BY FeedForm, Zenon DEF AccessInv
  <2>9. ASSUME NEW i \in DOMAIN feed', Lost(feed'[i], broker')
        PROVE  \E j \in DOMAIN feed' : j > i /\ Removal(feed'[j], feed'[i].record.id)
    <3>1. i \in DOMAIN feed /\ feed'[i] = feed[i]
      BY <1>6, <2>7, <2>9, Zenon
    <3>2. PICK j \in DOMAIN feed : j > i /\ Removal(feed[j], feed[i].record.id)
      BY <2>6, <2>8, <2>9, <3>1, Zenon
    <3>3. j \in DOMAIN feed' /\ feed'[j] = feed[j]
      BY <1>6, Zenon
    <3> QED BY <3>1, <3>2, <3>3, Zenon
  <2>10. feed' \in Seq(Changes')
    BY <1>5, <2>1, Zenon
  <2>11. \A y, s : Removal(y, s)' <=> Removal(y, s)
    BY Zenon
  <2>12. FeedInv' <=> /\ feed' \in Seq(Changes')
              /\ \A i \in DOMAIN feed' :
                   /\ Sent(feed'[i], Past', broker')
                   /\ Lost(feed'[i], broker') => \E j \in DOMAIN feed' : j > i /\ Removal(feed'[j], feed'[i].record.id)
    BY Zenon DEF FeedInv, Sent, Lost, Has, Removal
  <2> QED BY <2>5, <2>9, <2>10, <2>12, Zenon
<1>12. StoreInv'
  <2>1. \A y \in store : y.type = "session" /\ ~Has(broker, y.id) => Pending(y.id)
    BY Zenon DEF AccessInv, StoreInv
  <2>2. \A y \in store' : y.type = "session" /\ ~Has(broker', y.id) => Pending(y.id)'
    BY <1>7, <1>8, <2>1, Zenon
  <2> QED BY <2>2, Zenon DEF StoreInv, Has
<1>13. Keeps
  <2>1. SUFFICES ASSUME NEW p, ClientOK(p) PROVE ClientOK(p)'
    BY Zenon DEF Keeps
  <2>2. /\ p.settled /\ p.pc = "get session" => ~Has(broker, p.id) /\ p.id \in Past
        /\ p.calm => Has(broker, p.id) /\ HasUser(broker, Owner[p.id])
    BY <2>1, Zenon DEF ClientOK, Refused, Calm
  <2>3. used \subseteq used'
    BY Zenon
  <2>4. p.settled /\ p.pc = "get session" => ~Has(broker', p.id)
    BY <2>2, <1>7, Zenon
  <2>5. /\ \A s : Has(store, s)' <=> Has(store, s)
        /\ \A u : HasUser(store, u)' <=> HasUser(store, u)
    BY Zenon DEF Has, HasUser
  <2>6. /\ \A s : Has(broker, s)' <=> Has(broker', s)
        /\ \A u : HasUser(broker, u)' <=> HasUser(broker', u)
    BY Zenon DEF Has, HasUser
  <2>7. p.calm => Has(broker, p.id)' /\ HasUser(broker, Owner[p.id])'
    BY <1>7, <2>2, <2>6, Zenon
  <2>8. Has(broker, p.id) \/ Pending(p.id) => Has(broker, p.id)' \/ Pending(p.id)'
    BY <1>7, <1>8, <2>6, Zenon
  <2> QED BY <2>1, <2>3, <2>4, <2>5, <2>6, <2>7, <2>8, Frame, ZenonT(60)
<1> QED BY <1>10, <1>11, <1>12, <1>13, Zenon DEF DataInv

\* the clients after a disturbance of the sessions ids, before the records change
Flies(p) == p.pc = "put session" => p.id \in InFlight

Tame(p, ids) ==
  ClientOK(p) /\ p.header \in Tokens /\ p.token \in Tokens /\ (p.calm => p.id \notin ids) /\ Flies(p)

Continues(q, p) == q.pc \in InCreation => p.pc \in InCreation /\ q.id = p.id

Tamed(k, ids) == DOMAIN k = Clients /\ \A d \in Clients : Tame(k[d], ids) /\ Continues(k[d], clients[d])

\* a check that is about to write a session is in flight
LEMMA Flying ==
  ASSUME AccessInv, NEW d \in Clients PROVE Flies(P(d))
<1>1. PICK p : p = P(d) /\ Stage(p)
  BY Before, Zenon DEF ClientOK
<1>2. ASSUME p.pc = "put session" PROVE p.id \in InFlight
  <2>1. p.got = Session(p.id) /\ p.id \in Past
    BY <1>1, <1>2, Zenon DEF Stage
  <2>2. p.got.id = p.id
    BY <2>1, Lives, SessionKind, Zenon
  <2> QED BY <1>1, <1>2, <2>2, Zenon DEF InFlight
<1> QED BY <1>1, <1>2, Zenon DEF Flies

\* nothing is disturbed
LEMMA UndisturbedTame ==
  ASSUME AccessInv PROVE Tamed(clients, {})
<1>1. ASSUME NEW d \in Clients PROVE Tame(clients[d], {}) /\ Continues(clients[d], clients[d])
  <2>1. PICK p : p = P(d) /\ p = clients[d]
    BY Zenon DEF P
  <2>2. ClientOK(p) /\ p.header \in Tokens /\ p.token \in Tokens /\ Flies(p)
    BY <2>1, Before, Flying, Zenon
  <2> QED BY <2>1, <2>2, Zenon DEF Tame, Continues
<1> QED BY <1>1, Zenon DEF AccessInv, ClientsInv, Tamed

\* Disturbed leaves every client tame
LEMMA DisturbedTame ==
  ASSUME AccessInv, NEW ids PROVE Tamed(Disturbed(ids), ids)
\* a client of which less is claimed
<1>c. ASSUME NEW p, ClientOK(p), NEW q, q = [calm |-> FALSE] ++ p
      PROVE  /\ ClientOK(q) /\ ~q.calm /\ q.pc = p.pc /\ q.id = p.id /\ q.header = p.header /\ q.token = p.token
  <2> USE <1>c
  <2>1. DOMAIN p = Fields
    BY Zenon DEF ClientOK, Stage
  <2>2. /\ q.calm = FALSE /\ DOMAIN q = Fields
        /\ \A x \in Fields \ {"calm"} : q[x] = p[x]
    BY <2>1, Zenon DEF ++, Fields
  <2>3. /\ q.pc = p.pc /\ q.id = p.id /\ q.header = p.header /\ q.token = p.token /\ q.via = p.via /\ q.got = p.got
        /\ q.user = p.user /\ q.settled = p.settled /\ q.reply = p.reply /\ q.url = p.url /\ q.request = p.request
    BY <2>2, Zenon DEF Fields
  <2>4. Stage(q)
    BY <2>2, <2>3, Zenon DEF ClientOK, Stage
  <2>5. Refused(q)
    BY <2>3, Zenon DEF ClientOK, Refused, RequestOf
  <2> QED BY <2>2, <2>3, <2>4, <2>5, Zenon DEF ClientOK, Calm
<1>1. PICK k : k = Disturbed(ids)
  BY Zenon
<1>2. DOMAIN k = Clients /\ \A d \in Clients : k[d] = IF P(d).id \in ids THEN [calm |-> FALSE] ++ P(d) ELSE P(d)
  BY <1>1, Zenon DEF Disturbed
<1>3. ASSUME NEW d \in Clients PROVE Tame(k[d], ids) /\ Continues(k[d], clients[d])
  <2>1. PICK p, q : p = P(d) /\ p = clients[d] /\ q = [calm |-> FALSE] ++ p
    BY Zenon DEF P
  <2>2. ClientOK(p) /\ p.header \in Tokens /\ p.token \in Tokens /\ Flies(p)
    BY <2>1, Before, Flying, Zenon
  <2>3. ClientOK(q) /\ ~q.calm /\ q.pc = p.pc /\ q.id = p.id /\ q.header = p.header /\ q.token = p.token
    BY <2>1, <2>2, <1>c, Zenon
  <2>4. k[d] = IF p.id \in ids THEN q ELSE p
    BY <1>2, <2>1, Zenon
  <2>5. CASE p.id \in ids
    BY <2>1, <2>2, <2>3, <2>4, <2>5, Zenon DEF Tame, Continues, Flies
  <2>6. CASE p.id \notin ids
    BY <2>1, <2>2, <2>4, <2>6, Zenon DEF Tame, Continues
  <2> QED BY <2>5, <2>6, Zenon
<1> QED BY <1>1, <1>2, <1>3, Zenon DEF Tamed

\* no client begins a session by being disturbed
LEMMA TamedPast ==
  ASSUME NEW ids, Tamed(clients', ids), UNCHANGED used PROVE Past \subseteq Past'
<1>1. \A d \in Clients : clients'[d].pc \in InCreation => clients[d].pc \in InCreation /\ clients'[d].id = clients[d].id
  BY Zenon DEF Tamed, Continues
<1> QED BY <1>1, PastGrows, Zenon

\* a step of the environment after which every client is tame
LEMMA TamedStep ==
  ASSUME AccessInv, NEW ids, Tamed(clients', ids), UNCHANGED used, DataInv',
         \A p : ClientOK(p) /\ (p.calm => p.id \notin ids) /\ Flies(p) => ClientOK(p)',
         Jars(jars', Tokens), Cache(cache', Tokens)
  PROVE  AccessInv'
<1>1. Past \subseteq Past'
  BY TamedPast, Zenon
<1>2. \A d \in Clients : clients'[d].header \in Tokens /\ clients'[d].token \in Tokens
  BY Zenon DEF Tamed, Tame
<1>3. TokenInv'
  BY <1>1, <1>2, TokensKept, TokensStep, Zenon
<1>4. ASSUME NEW d \in Clients PROVE ClientOK(clients[d])'
  <2>1. PICK p : p = clients'[d] /\ Tame(p, ids)
    BY Zenon DEF Tamed
  <2>2. ClientOK(p)'
    BY <2>1, Zenon DEF Tame
  <2> QED BY <2>1, <2>2, Zenon
<1>5. ASSUME NEW d \in Clients, NEW e \in Clients, d # e, Creating(d)', Creating(e)' PROVE P(d)'.id # P(e)'.id
  <2>1. \A a \in Clients : Creating(a)' => Creating(a) /\ P(a)'.id = P(a).id
    BY Zenon DEF Tamed, Continues, Creating, P
  <2>2. Creating(d) /\ Creating(e) => P(d).id # P(e).id
    BY <1>5, Zenon DEF AccessInv, ClientsInv
  <2> QED BY <1>5, <2>1, <2>2, Zenon
<1>6. ClientsInv'
  BY <1>4, <1>5, Zenon DEF ClientsInv, Tamed
<1> QED BY <1>3, <1>6, Zenon DEF AccessInv, DataInv

\* a session that is deleted, and the change on its way to the store
LEMMA Deleted ==
  ASSUME AccessInv, NEW r \in broker, r.type = "session", Delete(r),
         UNCHANGED <<setup, store, overlapped, used>>, Past \subseteq Past'
  PROVE  DataInv' /\ \A p : ClientOK(p) /\ (p.calm => p.id \notin {r.id}) => ClientOK(p)'
<1>1. broker' = UpdateRecord(broker, r, TRUE) /\ feed' = Append(feed, Changed(r, TRUE))
  BY Zenon DEF Delete
<1>2. PICK x : x = Changed(r, TRUE)
  BY Zenon
<1>3. r \in Records /\ r # NoRecord /\ r.id \in Past
  BY Zenon DEF AccessInv, RecordsInv
<1>4. x.clear = FALSE /\ x.record = r /\ x.deleted = TRUE /\ x \in Changes
  BY <1>2, <1>3, Zenon DEF Changed, Changes
<1>5. PICK f, g : f = feed /\ g = feed' /\ f \in Seq(Changes) /\ g = Append(f, x)
  BY <1>1, <1>2, Zenon DEF AccessInv, FeedInv
<1>6. g \in Seq(Changes)
  BY <1>4, <1>5, Appended, ZenonT(60)
<1>7. PICK n : /\ DOMAIN g = DOMAIN f \cup {n} /\ g[n] = x
               /\ \A i \in DOMAIN f : g[i] = f[i] /\ n > i
  BY <1>4, <1>5, Appended
<1>8. /\ \A s : Has(broker', s) <=> r.id # s /\ Has(broker, s)
      /\ \A u : HasUser(broker', u) <=> HasUser(broker, u)
      /\ broker' \subseteq broker
  BY <1>1, Removed, Zenon
<1>9. Removal(x, r.id)
  BY <1>4, Zenon DEF Removal
<1>10. Pending(r.id)' /\ \A s : Pending(s) => Pending(s)'
  BY <1>5, <1>7, <1>9, Zenon DEF Pending
<1>11. Records' = Records
  BY SetupKept, Zenon
<1>12. RecordsInv'
  <2>1. setup' \in Setups' /\ used' \subseteq setup'.sessions /\ store' \subseteq Records' \ {NoRecord}
    BY <1>11, Zenon DEF AccessInv, RecordsInv
  <2>2. broker' \subseteq Records' \ {NoRecord}
    BY <1>8, <1>11, Zenon DEF AccessInv, RecordsInv
  <2>3. \A y \in broker' \cup store' : y.type = "session" => y.id \in Past'
    BY <1>8, Zenon DEF AccessInv, RecordsInv
  <2> QED BY <2>1, <2>2, <2>3, Zenon DEF RecordsInv
<1>13. FeedInv'
  <2>1. Changes' = Changes
    BY <1>11, Zenon DEF Changes
  <2>2. \A i \in DOMAIN f : /\ Sent(f[i], Past, broker)
                            /\ Lost(f[i], broker) => \E j \in DOMAIN f : j > i /\ Removal(f[j], f[i].record.id)
    BY <1>5, FeedForm, Zenon DEF AccessInv
  <2>3. \A y : Sent(y, Past, broker) => Sent(y, Past', broker')
    BY <1>8, Zenon DEF Sent
  <2>4. Sent(x, Past', broker')
    BY <1>3, <1>4, <1>8, Zenon DEF Sent
  <2>5. \A i \in DOMAIN g : Sent(g[i], Past', broker')
    BY <1>7, <2>2, <2>3, <2>4, Zenon
  <2>6. \A y : Lost(y, broker') => Lost(y, broker) \/ y.record.id = r.id
    BY <1>8, Zenon DEF Lost
  <2>7. ~Lost(x, broker')
    BY <1>4, Zenon DEF Lost
  <2>8. ASSUME NEW i \in DOMAIN g, Lost(g[i], broker')
        PROVE  \E j \in DOMAIN g : j > i /\ Removal(g[j], g[i].record.id)
    <3>1. i \in DOMAIN f /\ g[i] = f[i] /\ n > i
      BY <1>7, <2>7, <2>8, Zenon
    <3>2. CASE g[i].record.id = r.id
      BY <1>7, <1>9, <3>1, <3>2, Zenon
    <3>3. CASE Lost(f[i], broker)
      <4>1. PICK j \in DOMAIN f : j > i /\ Removal(f[j], f[i].record.id)
        BY <2>2, <3>1, <3>3, Zenon
      <4> QED BY <1>7, <3>1, <4>1, Zenon
    <3> QED BY <2>6, <2>8, <3>1, <3>2, <3>3, Zenon
  <2>9. FeedInv' <=> /\ feed' \in Seq(Changes')
              /\ \A i \in DOMAIN feed' :
                   /\ Sent(feed'[i], Past', broker')
                   /\ Lost(feed'[i], broker') => \E j \in DOMAIN feed' : j > i /\ Removal(feed'[j], feed'[i].record.id)
    BY Zenon DEF FeedInv, Sent, Lost, Has, Removal
  <2> QED BY <1>5, <1>6, <2>1, <2>5, <2>8, <2>9, Zenon
<1>14. StoreInv'
  <2>1. \A y \in store : y.type = "session" /\ ~Has(broker, y.id) => Pending(y.id)
    BY Zenon DEF AccessInv, StoreInv
  <2>2. \A y \in store' : y.type = "session" /\ ~Has(broker', y.id) => Pending(y.id)'
    BY <1>8, <1>10, <2>1, Zenon
  <2> QED BY <2>2, Zenon DEF StoreInv, Has
<1>15. ASSUME NEW p, ClientOK(p), p.calm => p.id \notin {r.id} PROVE ClientOK(p)'
  <2>1. /\ p.settled /\ p.pc = "get session" => ~Has(broker, p.id)
        /\ p.calm => Has(broker, p.id) /\ HasUser(broker, Owner[p.id])
    BY <1>15, Zenon DEF ClientOK, Refused, Calm
  <2>2. used \subseteq used'
    BY Zenon
  <2>3. /\ \A s : Has(store, s)' <=> Has(store, s)
        /\ \A u : HasUser(store, u)' <=> HasUser(store, u)
    BY Zenon DEF Has, HasUser
  <2>4. /\ \A s : Has(broker, s)' <=> Has(broker', s)
        /\ \A u : HasUser(broker, u)' <=> HasUser(broker', u)
    BY Zenon DEF Has, HasUser
  <2>5. p.settled /\ p.pc = "get session" => ~Has(broker, p.id)'
    BY <1>8, <2>1, <2>4, Zenon
  <2>6. p.calm => Has(broker, p.id)' /\ HasUser(broker, Owner[p.id])'
    BY <1>8, <1>15, <2>1, <2>4, Zenon
  <2>7. Has(broker, p.id) \/ Pending(p.id) => Has(broker, p.id)' \/ Pending(p.id)'
    BY <1>8, <1>10, <2>4, Zenon
  <2> QED BY <1>15, <2>2, <2>3, <2>5, <2>6, <2>7, Frame, Zenon
<1> QED BY <1>12, <1>13, <1>14, <1>15, Zenon DEF DataInv

\* the authenticate service
LEMMA AuthenticateNextStep ==
  ASSUME AccessInv, NEW c \in Clients
  PROVE  AuthenticateNext(c) => AccessInv'
\* no session was ever seen under the identifier that is about to be used
<1>u. ASSUME P(c).pc = "save session", NEW q, clients' = [clients EXCEPT ![c] = q], q.pc \notin InCreation,
             UNCHANGED used
      PROVE  P(c).id \notin Past /\ P(c).id \in Past' /\ P(c).id \in used
  <2> USE <1>u
  <2>1. P(c).pc \in InCreation
    BY Zenon DEF InCreation
  <2>2. Creating(c) /\ P(c).id \in used
    BY <2>1, Zenon DEF AccessInv, ClientsInv, ClientOK, Stage, P, Creating
  <2>3. P(c).id \notin Past
    BY <2>2, Zenon DEF Past
  <2>4. /\ DOMAIN clients' = Clients /\ clients'[c] = q
        /\ \A d \in Clients : d # c => clients'[d] = clients[d]
    BY Moved, Zenon DEF AccessInv, ClientsInv
  <2>5. ASSUME NEW d \in Clients, Creating(d)' PROVE P(d)'.id # P(c).id
    <3>1. d # c /\ Creating(d) /\ P(d)'.id = P(d).id
      BY <2>4, <2>5, Zenon DEF Creating, P
    <3> QED BY <2>2, <3>1, Zenon DEF AccessInv, ClientsInv
  <2>6. P(c).id \in Past'
    BY <2>2, <2>5, Zenon DEF Past
  <2> QED BY <2>2, <2>3, <2>6, Zenon
<1>1. ASSUME SaveUser(c) PROVE AccessInv'
  <2> USE <1>1
  <2>1. UNCHANGED <<setup, store, overlapped, used>> /\ UNCHANGED <<jars, cache>> /\ P(c).pc = "save user"
    BY Zenon DEF SaveUser
  <2>2. /\ Jars(jars', Tokens) /\ Cache(cache', Tokens) /\ DOMAIN P(c) = Fields
        /\ P(c).header \in Tokens /\ P(c).token \in Tokens
    BY <2>1, Before, Zenon
  <2>3. PICK p : p = P(c) /\ Stage(p) /\ p.pc = "save user" /\ p.id \in used
    BY <2>1, Before, Zenon DEF ClientOK, Stage, InCreation
  <2>4. ~p.calm
    BY <2>1, <2>3, NotCalm, Zenon DEF InCreation
  <2>5. p.id \in setup.sessions
    BY <2>3, Zenon DEF AccessInv, RecordsInv
  <2>6. PICK r : r = UpdateUserInfo(Owner[p.id]) /\ r \in Records \ {NoRecord} /\ r.type # "session"
    <3>1. UpdateUserInfo(Owner[p.id]) \in Records /\ UpdateUserInfo(Owner[p.id]) # NoRecord /\ UpdateUserInfo(Owner[p.id]).type = "user"
      BY <2>5, Lives, UserKind, Zenon
    <3> QED BY <3>1, Zenon
  <2>7. CASE End(c, "error") /\ UNCHANGED data
    BY <2>1, <2>2, <2>7, EndStep, Zenon DEF data
  <2>8. CASE Become(c, [pc |-> "save session"]) /\ (UNCHANGED data \/ Put(r))
    <3>1. PICK f : Become(c, f) /\ f = [pc |-> "save session"]
      BY <2>8, Zenon
    <3>2. DOMAIN f = {"pc"} /\ f.pc = "save session" /\ DOMAIN f \subseteq Fields
      BY <3>1, Zenon DEF Fields
    <3>3. PICK q : Turned(c, f, q)
      BY <2>2, <3>1, <3>2, Becomes, Zenon
    <3>4. /\ q.pc = "save session" /\ q.id = p.id /\ q.via = p.via /\ q.calm = p.calm
          /\ q.header = p.header /\ q.token = p.token
      BY <2>3, <3>2, <3>3, Zenon DEF Fields, Turned
    <3>5. p.pc \in InCreation /\ q.pc \in InCreation
      BY <2>3, <3>4, Zenon DEF InCreation
    <3>6. ClientOK(q)
      BY <2>3, <2>4, <3>3, <3>4, <3>5, CreatingOK, Zenon DEF Turned
    <3>7. CASE UNCHANGED data
      <4>1. UNCHANGED <<setup, broker, feed, store, overlapped, used>>
        BY <2>1, <3>7, Zenon DEF data
      <4> QED BY <2>2, <2>3, <3>3, <3>4, <3>5, <3>6, <4>1, QuietStep, ZenonT(60) DEF Turned
    <3>8. CASE Put(r)
      <4>1. Past \subseteq Past'
        BY <2>1, <2>3, <3>3, <3>4, <3>5, PastStep, Zenon DEF Turned
      <4>2. DataInv' /\ Keeps
        BY <2>1, <2>6, <3>8, <4>1, PutWritten, Zenon
      <4>3. ClientOK(q)'
        BY <3>6, <4>2, Zenon DEF Keeps
      <4> QED BY <2>2, <2>3, <3>3, <3>4, <3>5, <4>1, <4>2, <4>3, DataStep, ZenonT(60) DEF Turned
    <3> QED BY <2>8, <3>7, <3>8, Zenon
  <2> QED BY <2>3, <2>6, <2>7, <2>8, Zenon DEF SaveUser
<1>2. ASSUME saveSessionToDataBroker(c) PROVE AccessInv'
  <2> USE <1>2
  <2>1. UNCHANGED <<setup, store, overlapped, used>> /\ UNCHANGED <<jars, cache>> /\ P(c).pc = "save session"
    BY Zenon DEF saveSessionToDataBroker
  <2>2. /\ Jars(jars', Tokens) /\ Cache(cache', Tokens) /\ DOMAIN P(c) = Fields
        /\ P(c).header \in Tokens /\ P(c).token \in Tokens
    BY <2>1, Before, Zenon
  <2>3. CASE End(c, "error") /\ UNCHANGED data
    BY <2>1, <2>2, <2>3, EndStep, Zenon DEF data
  <2>4. CASE Put(Session(P(c).id)) /\ Become(c, [pc |-> "refresh user"])
    <3>1. PICK f : Become(c, f) /\ f = [pc |-> "refresh user"]
      BY <2>4, Zenon
    <3>2. DOMAIN f = {"pc"} /\ f.pc = "refresh user" /\ DOMAIN f \subseteq Fields
      BY <3>1, Zenon DEF Fields
    <3>3. PICK q : Turned(c, f, q)
      BY <2>2, <3>1, <3>2, Becomes, Zenon
    <3>4. PICK p : p = P(c) /\ Stage(p) /\ p.pc = "save session"
      BY <2>1, Before, Zenon DEF ClientOK
    <3>5. /\ q.pc = "refresh user" /\ q.id = p.id /\ q.via = p.via /\ q.calm = p.calm
          /\ q.header = p.header /\ q.token = p.token /\ DOMAIN q = Fields
      BY <3>2, <3>3, <3>4, Zenon DEF Fields, Turned
    <3>6. ~p.calm
      BY <2>1, <3>4, NotCalm, Zenon DEF InCreation
    <3>7. q.pc \notin InCreation \cup CheckStages \cup {"done"}
      BY <3>5, Zenon DEF InCreation, CheckStages, SyncStages, SyncUserStages
    <3>8. q.id \notin Past /\ q.id \in Past' /\ q.id \in used
      BY <2>1, <3>3, <3>4, <3>5, <3>7, <1>u, Zenon DEF Turned
    <3>9. Past \subseteq Past'
      BY <2>1, <3>3, <3>7, PastStep, Zenon DEF Turned
    <3>10. q.id \in setup.sessions
      BY <3>8, Zenon DEF AccessInv, RecordsInv
    <3>11. PICK r : r = Session(q.id) /\ r \in Records \ {NoRecord} /\ r.id = q.id
      <4>1. Session(q.id) \in Records /\ Session(q.id) # NoRecord /\ Session(q.id).id = q.id
        BY <3>10, Lives, SessionKind, Zenon
      <4> QED BY <4>1, Zenon
    <3>12. Put(r)
      BY <2>4, <3>4, <3>5, <3>11, Zenon
    <3>13. DataInv' /\ Keeps
      BY <2>1, <3>8, <3>9, <3>11, <3>12, PutWritten, Zenon
    <3>14. ClientOK(q)'
      <4>1. q.via \in Pages
        BY <3>4, <3>5, Zenon DEF Stage, InCreation
      <4>2. Stage(q)'
        BY <3>5, <3>7, <3>8, <4>1, Zenon DEF Stage, CheckStages, SyncStages, SyncUserStages
      <4>3. Refused(q)'
        BY <3>5, <3>7, Zenon DEF Refused, CheckStages
      <4> QED BY <3>5, <3>6, <4>2, <4>3, Zenon DEF ClientOK, Calm
    <3> QED BY <2>2, <3>3, <3>4, <3>5, <3>7, <3>9, <3>13, <3>14, DataStep, ZenonT(60) DEF Turned
  <2> QED BY <2>3, <2>4, Zenon DEF saveSessionToDataBroker
<1>3. ASSUME RefreshUser(c) PROVE AccessInv'
  <2> USE <1>3
  <2>1. /\ UNCHANGED <<setup, store, overlapped, used>> /\ UNCHANGED cache /\ P(c).pc = "refresh user"
        /\ jars' = [jars EXCEPT !.auth = SaveSession(@, P(c).id)]
    BY Zenon DEF RefreshUser
  <2>2. /\ Cache(cache', Tokens) /\ DOMAIN P(c) = Fields
        /\ P(c).header \in Tokens /\ P(c).token \in Tokens
    BY <2>1, Before, Zenon
  <2>3. PICK p : p = P(c) /\ ClientOK(p) /\ Stage(p) /\ p.pc = "refresh user"
    BY <2>1, Before, Zenon DEF ClientOK
  <2>4. ~p.calm
    BY <2>3, Before, Zenon DEF CheckStages, SyncStages, SyncUserStages, Waiting
  <2>5. p.id \in Past /\ p.via \in Pages
    BY <2>3, Zenon DEF Stage, InCreation
  <2>6. p.id \in Tokens /\ p.id \in setup.sessions
    BY <2>5, Lives, Zenon
  <2>7. Jars(jars', Tokens)
    BY <2>1, <2>3, <2>6, JarsStep, ZenonT(60)
  <2>8. PICK r : r = DirectoryUser(Owner[p.id], Directory[Owner[p.id]]) /\ r \in Records \ {NoRecord} /\ r.type # "session"
    <3>1. PICK d : d = DirectoryUser(Owner[p.id], Directory[Owner[p.id]])
      BY Zenon
    <3>2. d \in Records /\ d # NoRecord /\ d.type = "directory"
      BY <2>6, <3>1, Lives, UserKind, Zenon
    <3> QED BY <3>1, <3>2, Zenon
  <2>9. PICK f : Become(c, f) /\ f = [pc |-> p.via, via |-> "", id |-> NoSession]
    BY <2>3, Zenon DEF RefreshUser
  <2>10. DOMAIN f = {"pc", "via", "id"} /\ f.pc = p.via /\ DOMAIN f \subseteq Fields
    BY <2>9, Zenon DEF Fields
  <2>11. PICK q : Turned(c, f, q)
    BY <2>2, <2>9, <2>10, Becomes, Zenon
  <2>12. /\ q.pc = p.via /\ q.calm = p.calm /\ q.header = p.header /\ q.token = p.token /\ DOMAIN q = Fields
    BY <2>3, <2>10, <2>11, Zenon DEF Fields, Turned
  <2>13. q.pc \in Between /\ q.pc # "idp" /\ q.pc \notin InCreation
    BY <2>5, <2>12, Zenon DEF Between, Pages, InCreation
  <2>14. ClientOK(q)
    BY <2>3, <2>4, <2>12, <2>13, BetweenOK, Zenon
  <2>15. CASE UNCHANGED data
    <3>1. UNCHANGED <<setup, broker, feed, store, overlapped, used>>
      BY <2>1, <2>15, Zenon DEF data
    <3> QED BY <2>2, <2>3, <2>7, <2>11, <2>12, <2>13, <2>14, <3>1, QuietStep, ZenonT(60) DEF Turned
  <2>16. CASE Put(r)
    <3>1. Past \subseteq Past'
      BY <2>1, <2>11, <2>13, PastStep, Zenon DEF Turned
    <3>2. DataInv' /\ Keeps
      BY <2>1, <2>8, <2>16, <3>1, PutWritten, ZenonT(60)
    <3>3. ClientOK(q)'
      BY <2>14, <3>2, Zenon DEF Keeps
    <3> QED BY <2>2, <2>3, <2>7, <2>11, <2>12, <2>13, <3>1, <3>2, <3>3, DataStep, ZenonT(60) DEF Turned
  <2> QED BY <2>3, <2>8, <2>15, <2>16, Zenon DEF RefreshUser
<1>4. ASSUME SignOut(c), UNCHANGED used PROVE AccessInv'
  <2> USE <1>4
  <2>1. /\ UNCHANGED <<setup, store, overlapped, used>> /\ UNCHANGED cache
        /\ jars' = [jars EXCEPT !.auth = ClearSession(@)] /\ VerifySession
        /\ Delete(GetRecordData(broker, "session", AuthSession)) \/ UNCHANGED data
    BY Zenon DEF SignOut, revokeSession
  <2>2. PICK s : s = AuthSession /\ Live(s)
    BY <2>1, Zenon DEF VerifySession
  <2>3. PICK k, e : /\ k = Disturbed({s}) /\ e = [reply |-> "signed out", mode |-> P(c).mode] ++ Fresh
                    /\ clients' = [k EXCEPT ![c] = e]
    BY <2>2, Zenon DEF SignOut
  <2>4. Tamed(k, {s})
    BY <2>3, DisturbedTame, Zenon
  <2>5. DOMAIN e = Fields /\ e.pc = "done" /\ e.header = NoSession /\ e.token = NoSession /\ ~e.calm /\ ~e.settled
    BY <2>3, FreshFields, Zenon DEF ++, Fields
  <2>6. Tame(e, {s}) /\ Continues(e, clients[c])
    <3>1. ClientOK(e)
      BY <2>5, EndOK, Zenon
    <3>2. e.pc \notin InCreation
      BY <2>5, Zenon DEF InCreation
    <3>3. NoSession \in Tokens
      BY Before, Zenon
    <3>4. Flies(e)
      BY <2>5, Zenon DEF Flies
    <3> QED BY <2>5, <3>1, <3>2, <3>3, <3>4, Zenon DEF Tame, Continues
  <2>7. Tamed(clients', {s})
    <3>1. /\ DOMAIN clients' = Clients /\ clients'[c] = e
          /\ \A d \in Clients : d # c => clients'[d] = k[d]
      BY <2>3, <2>4, Zenon DEF Tamed
    <3>2. ASSUME NEW d \in Clients PROVE Tame(clients'[d], {s}) /\ Continues(clients'[d], clients[d])
      BY <2>4, <2>6, <3>1, Zenon DEF Tamed
    <3> QED BY <3>1, <3>2, Zenon DEF Tamed
  <2>8. Past \subseteq Past'
    BY <2>1, <2>7, TamedPast, Zenon
  <2>9. ASSUME UNCHANGED data PROVE DataInv' /\ \A p : ClientOK(p) /\ (p.calm => p.id \notin {s}) => ClientOK(p)'
    <3>1. UNCHANGED <<setup, broker, feed, store, overlapped>> /\ used \subseteq used'
      BY <2>1, <2>9, Zenon DEF data
    <3>2. used' \subseteq setup.sessions
      BY <2>1, Zenon DEF AccessInv, RecordsInv
    <3>3. DataInv'
      BY <2>8, <3>1, <3>2, DataKept, Zenon DEF AccessInv, DataInv
    <3>4. \A p : ClientOK(p) => ClientOK(p)'
      BY <2>8, <3>1, QuietFrame, Zenon
    <3> QED BY <3>3, <3>4, Zenon
  <2>10. ASSUME Delete(GetRecordData(broker, "session", AuthSession))
         PROVE  DataInv' /\ \A p : ClientOK(p) /\ (p.calm => p.id \notin {s}) => ClientOK(p)'
    <3>1. PICK r : r = GetRecordData(broker, "session", s) /\ Delete(r)
      BY <2>2, <2>10, Zenon
    <3>2. NoRecord \notin broker
      BY Lives, Zenon
    <3>3. r \in broker /\ r.type = "session" /\ r.id = s
      BY <2>2, <3>1, <3>2, Get, ZenonT(60) DEF Live
    <3>4. DataInv' /\ \A p : ClientOK(p) /\ (p.calm => p.id \notin {r.id}) => ClientOK(p)'
      BY <2>1, <2>8, <3>1, <3>3, Deleted, Zenon
    <3> QED BY <3>3, <3>4, Zenon
  <2>11. DataInv' /\ \A p : ClientOK(p) /\ (p.calm => p.id \notin {s}) => ClientOK(p)'
    BY <2>1, <2>9, <2>10, Zenon
  <2>12. Jars(jars', Tokens)
    BY <2>1, Before, JarsSaved, Zenon
  <2>13. Cache(cache', Tokens)
    BY <2>1, Before, Zenon
  <2> QED BY <2>1, <2>7, <2>11, <2>12, <2>13, TamedStep, Zenon
<1> QED
  BY <1>1, <1>2, <1>3, <1>4, AuthenticateQuiet, Zenon DEF AuthenticateNext

\* the databroker deletes a session
LEMMA ExpireSessionStep ==
  ASSUME AccessInv, ExpireSession PROVE AccessInv'
<1>1. PICK s \in broker : s.type = "session" /\ Delete(s) /\ clients' = Disturbed({s.id})
  BY Zenon DEF ExpireSession
<1>2. UNCHANGED <<setup, store, overlapped, used>> /\ UNCHANGED <<jars, cache>>
  BY Zenon DEF ExpireSession
<1>3. Tamed(clients', {s.id})
  BY <1>1, DisturbedTame, Zenon
<1>4. Past \subseteq Past'
  BY <1>2, <1>3, TamedPast, Zenon
<1>5. DataInv' /\ \A p : ClientOK(p) /\ (p.calm => p.id \notin {s.id}) => ClientOK(p)'
  BY <1>1, <1>2, <1>4, Deleted, Zenon
<1>6. Jars(jars', Tokens) /\ Cache(cache', Tokens)
  BY <1>2, Zenon DEF AccessInv, TokenInv
<1> QED BY <1>2, <1>3, <1>5, <1>6, TamedStep, Zenon

\* the store applies a change
LEMMA UpdateRecordsStep ==
  ASSUME AccessInv, UpdateRecords PROVE AccessInv'
<1>r. ASSUME NEW S, NEW f \in Seq(S), f # <<>>
      PROVE  /\ Tail(f) \in Seq(S) /\ 1 \in DOMAIN f /\ Head(f) = f[1]
             /\ \A i \in DOMAIN Tail(f) : i + 1 \in DOMAIN f /\ Tail(f)[i] = f[i + 1]
             /\ \A i \in DOMAIN Tail(f), j \in DOMAIN f : j > i + 1 =>
                  \E k \in DOMAIN Tail(f) : k > i /\ Tail(f)[k] = f[j]
             /\ \A j \in DOMAIN f : j = 1 \/ \E k \in DOMAIN Tail(f) : Tail(f)[k] = f[j]
  <2> USE <1>r
  <2>1. /\ Tail(f) \in Seq(S) /\ Head(f) = f[1] /\ Len(f) \in Nat /\ Len(f) > 0 /\ Len(Tail(f)) = Len(f) - 1
        /\ DOMAIN f = 1 .. Len(f) /\ DOMAIN Tail(f) = 1 .. Len(f) - 1
        /\ \A i \in 1 .. Len(f) - 1 : Tail(f)[i] = f[i + 1]
    OBVIOUS
  <2>2. PICK g, n : g = Tail(f) /\ n = Len(f)
    BY Zenon
  <2>3. n \in Nat /\ n > 0 /\ DOMAIN f = 1 .. n /\ DOMAIN g = 1 .. n - 1 /\ \A i \in 1 .. n - 1 : g[i] = f[i + 1]
    BY <2>1, <2>2, Zenon
  <2>4. 1 \in DOMAIN f /\ \A i \in DOMAIN g : i + 1 \in DOMAIN f /\ g[i] = f[i + 1]
    BY <2>3
  <2>5. ASSUME NEW j \in DOMAIN f, j # 1 PROVE j - 1 \in DOMAIN g /\ g[j - 1] = f[j]
    <3>1. j - 1 \in 1 .. n - 1 /\ (j - 1) + 1 = j
      BY <2>3, <2>5
    <3> QED BY <2>3, <3>1, Zenon
  <2>6. ASSUME NEW i \in DOMAIN g, NEW j \in DOMAIN f, j > i + 1
        PROVE  \E k \in DOMAIN g : k > i /\ g[k] = f[j]
    <3>1. j # 1 /\ j - 1 > i
      BY <2>3, <2>6
    <3> QED BY <2>5, <3>1, Zenon
  <2> QED BY <2>1, <2>2, <2>4, <2>5, <2>6, SMTT(60)
<1>1. /\ UNCHANGED <<setup, broker, used>> /\ UNCHANGED <<jars, cache>> /\ feed # <<>> /\ feed' = Tail(feed)
  BY Zenon DEF UpdateRecords
<1>2. PICK f, g, x : f = feed /\ g = feed' /\ x = Head(feed) /\ f \in Seq(Changes) /\ f # <<>> /\ g = Tail(f) /\ x = Head(f)
  BY <1>1, Zenon DEF AccessInv, FeedInv
<1>3. /\ g \in Seq(Changes) /\ 1 \in DOMAIN f /\ x = f[1]
      /\ \A i \in DOMAIN g : i + 1 \in DOMAIN f /\ g[i] = f[i + 1]
      /\ \A i \in DOMAIN g, j \in DOMAIN f : j > i + 1 => \E k \in DOMAIN g : k > i /\ g[k] = f[j]
      /\ \A j \in DOMAIN f : j = 1 \/ \E k \in DOMAIN g : g[k] = f[j]
  BY <1>2, <1>r
<1>4. \A i \in DOMAIN f : /\ Sent(f[i], Past, broker)
                          /\ Lost(f[i], broker) => \E j \in DOMAIN f : j > i /\ Removal(f[j], f[i].record.id)
  BY <1>2, FeedForm, Zenon DEF AccessInv
<1>5. PICK r : r = x.record /\ Sent(x, Past, broker) /\ x \in Changes
  BY <1>2, <1>3, <1>4, SMTT(60)
<1>6. r \in Records /\ x.clear \in BOOLEAN /\ x.deleted \in BOOLEAN
  BY <1>5, Zenon DEF Changes
<1>7. /\ x.clear => /\ store' = {} /\ overlapped' = overlapped \cup InFlight
                    /\ clients' = Disturbed(DOMAIN Owner)
      /\ ~x.clear => /\ store' = UpdateRecord(store, r, x.deleted)
                     /\ overlapped' = overlapped \cup (IF x.deleted THEN InFlight \cap {r.id} ELSE {})
                     /\ UNCHANGED clients
  BY <1>2, <1>5, Zenon DEF UpdateRecords
<1>8. PICK ids : Tamed(clients', ids) /\ (x.clear => ids = DOMAIN Owner)
  <2>1. CASE x.clear
    BY <1>7, <2>1, DisturbedTame, Zenon
  <2>2. CASE ~x.clear
    BY <1>7, <2>2, UndisturbedTame, Zenon
  <2> QED BY <2>1, <2>2, Zenon
<1>9. Past \subseteq Past'
  BY <1>1, <1>8, TamedPast, Zenon
<1>10. Records' = Records
  BY <1>1, SetupKept, Zenon
<1>11. /\ \A s : Has(broker, s)' <=> Has(broker, s)
       /\ \A u : HasUser(broker, u)' <=> HasUser(broker, u)
  BY <1>1, Zenon DEF Has, HasUser
\* a removal that is no longer on its way is applied, or in flight
<1>12. overlapped \subseteq overlapped'
  BY <1>7, Zenon
<1>13. \A s : Pending(s) /\ ~Removal(x, s) => Pending(s)'
  <2>1. SUFFICES ASSUME NEW s, Pending(s), ~Removal(x, s) PROVE Pending(s)'
    BY Zenon
  <2>2. CASE s \in overlapped
    BY <1>12, <2>2, Zenon DEF Pending
  <2>3. CASE s \notin overlapped
    <3>1. PICK j \in DOMAIN f : Removal(f[j], s)
      BY <1>2, <2>1, <2>3, Zenon DEF Pending
    <3>2. PICK k \in DOMAIN g : g[k] = f[j]
      BY <1>3, <2>1, <3>1, Zenon
    <3> QED BY <1>2, <3>1, <3>2, Zenon DEF Pending
  <2> QED BY <2>2, <2>3, Zenon
<1>14. \A s : Removal(x, s) /\ s \in InFlight => Pending(s)'
  <2>1. \A s : Removal(x, s) /\ s \in InFlight => s \in overlapped'
    BY <1>5, <1>7, Zenon DEF Removal
  <2> QED BY <2>1, Zenon DEF Pending
<1>15. ~x.clear => r # NoRecord /\ (r.type = "session" => r.id \in Past) /\ (x.deleted => r.type = "session" /\ ~Has(broker, r.id))
  BY <1>5, Zenon DEF Sent
<1>16. ASSUME ~x.clear, x.deleted
       PROVE  /\ \A s : Has(store', s) <=> r.id # s /\ Has(store, s)
              /\ \A u : HasUser(store', u) <=> HasUser(store, u)
              /\ store' \subseteq store
  <2>1. store' = UpdateRecord(store, r, TRUE) /\ r.type = "session"
    BY <1>6, <1>7, <1>15, <1>16, Zenon
  <2> QED BY <2>1, Removed, ZenonT(60)
<1>17. ASSUME ~x.clear, ~x.deleted
       PROVE  /\ \A s : Has(store, s) => Has(store', s)
              /\ \A u : HasUser(store, u) => HasUser(store', u)
              /\ store' \subseteq store \cup {r}
  <2>1. store' = UpdateRecord(store, r, FALSE)
    BY <1>6, <1>7, <1>17, Zenon
  <2> QED BY <2>1, Written, Zenon
<1>18. store' \subseteq store \cup {r} /\ (x.clear => store' = {})
  BY <1>7, <1>16, <1>17, Zenon
<1>19. RecordsInv'
  <2>1. setup' \in Setups' /\ used' \subseteq setup'.sessions /\ broker' \subseteq Records' \ {NoRecord}
    BY <1>1, <1>10, ZenonT(60) DEF AccessInv, RecordsInv
  <2>2. store' \subseteq Records' \ {NoRecord}
    BY <1>6, <1>10, <1>15, <1>18, Zenon DEF AccessInv, RecordsInv
  <2>3. \A y \in broker : y.type = "session" => y.id \in Past'
    BY <1>9, Zenon DEF AccessInv, RecordsInv
  <2>4. \A y \in store' : y.type = "session" => y.id \in Past'
    BY <1>9, <1>15, <1>18, Zenon DEF AccessInv, RecordsInv
  <2> QED BY <1>1, <2>1, <2>2, <2>3, <2>4, Zenon DEF RecordsInv
<1>20. FeedInv'
  <2>1. Changes' = Changes
    BY <1>10, Zenon DEF Changes
  <2>2. \A y : Sent(y, Past, broker) => Sent(y, Past', broker')
    BY <1>1, <1>9, Zenon DEF Sent
  <2>3. \A i \in DOMAIN g : Sent(g[i], Past', broker')
    BY <1>3, <1>4, <2>2, Zenon
  <2>4. ASSUME NEW i \in DOMAIN g, Lost(g[i], broker')
        PROVE  \E j \in DOMAIN g : j > i /\ Removal(g[j], g[i].record.id)
    <3>1. i + 1 \in DOMAIN f /\ g[i] = f[i + 1] /\ Lost(f[i + 1], broker)
      BY <1>1, <1>3, <2>4, Zenon
    <3>2. PICK j \in DOMAIN f : j > i + 1 /\ Removal(f[j], f[i + 1].record.id)
      BY <1>4, <3>1, Zenon
    <3>3. PICK k \in DOMAIN g : k > i /\ g[k] = f[j]
      BY <1>3, <3>2, Zenon
    <3> QED BY <3>1, <3>2, <3>3, Zenon
  <2>5. FeedInv' <=> /\ feed' \in Seq(Changes')
              /\ \A i \in DOMAIN feed' :
                   /\ Sent(feed'[i], Past', broker')
                   /\ Lost(feed'[i], broker') => \E j \in DOMAIN feed' : j > i /\ Removal(feed'[j], feed'[i].record.id)
    BY Zenon DEF FeedInv, Sent, Lost, Has, Removal
  <2> QED BY <1>2, <1>3, <2>1, <2>3, <2>4, <2>5, Zenon
<1>21. StoreInv'
  <2>1. \A y \in store : y.type = "session" /\ ~Has(broker, y.id) => Pending(y.id)
    BY Zenon DEF AccessInv, StoreInv
  <2>2. SUFFICES ASSUME NEW y \in store', y.type = "session", ~Has(broker, y.id) PROVE Pending(y.id)'
    BY <1>11, Zenon DEF StoreInv
  <2>3. ~x.clear
    BY <1>18, Zenon
  <2>4. CASE y \in store
    <3>1. Pending(y.id)
      BY <2>1, <2>2, <2>4, Zenon
    <3>2. CASE x.deleted
      <4>1. Has(store', y.id)
        BY <2>2, Zenon DEF Has
      <4>2. ~Removal(x, y.id)
        BY <1>5, <1>16, <2>3, <3>2, <4>1, Zenon DEF Removal
      <4> QED BY <1>13, <3>1, <4>2, Zenon
    <3>3. CASE ~x.deleted
      BY <1>13, <2>3, <3>1, <3>3, Zenon DEF Removal
    <3> QED BY <3>2, <3>3, Zenon
  <2>5. CASE y = r /\ y \notin store
    <3>1. ~x.deleted
      BY <1>16, <2>3, <2>5, Zenon
    <3>2. Lost(f[1], broker)
      BY <1>3, <1>5, <2>2, <2>5, <3>1, ZenonT(60) DEF Lost
    <3>3. PICK j \in DOMAIN f : j > 1 /\ Removal(f[j], y.id)
      BY <1>3, <1>4, <1>5, <2>5, <3>2, Zenon
    <3>4. j # 1
      BY <3>3, <1>2, SMTT(60)
    <3>5. PICK k \in DOMAIN g : g[k] = f[j]
      BY <1>3, <3>3, <3>4, Zenon
    <3> QED BY <1>2, <3>3, <3>5, Zenon DEF Pending
  <2> QED BY <1>18, <2>2, <2>4, <2>5, Zenon
<1>22. ASSUME NEW p, ClientOK(p), p.calm => p.id \notin ids, Flies(p) PROVE ClientOK(p)'
  <2>1. /\ p.settled /\ p.pc = "get session" => ~Has(broker, p.id)
        /\ p.calm => Has(broker, p.id) /\ HasUser(broker, Owner[p.id])
    BY <1>22, Zenon DEF ClientOK, Refused, Calm
  <2>2. used \subseteq used'
    BY <1>1, Zenon
  <2>3. p.calm => ~x.clear
    <3>1. p.calm => p.id \in DOMAIN Owner
      BY <2>1, Lives, SessionKind, Zenon
    <3> QED BY <1>8, <1>22, <3>1, Zenon
  <2>4. /\ \A s : Has(store, s)' <=> Has(store', s)
        /\ \A u : HasUser(store, u)' <=> HasUser(store', u)
    BY Zenon DEF Has, HasUser
  <2>5. p.calm => /\ Has(store, p.id) => Has(store, p.id)'
                  /\ HasUser(store, Owner[p.id]) => HasUser(store, Owner[p.id])'
    BY <1>15, <1>16, <1>17, <2>1, <2>3, <2>4, ZenonT(60)
  <2>6. p.pc = "put session" /\ Pending(p.id) => Pending(p.id)'
    BY <1>13, <1>14, <1>22, Zenon DEF Flies
  <2>7. p.pc = "put session" /\ (Has(broker, p.id) \/ Pending(p.id)) => Has(broker, p.id)' \/ Pending(p.id)'
    BY <1>11, <2>6, Zenon
  <2>8. /\ p.settled /\ p.pc = "get session" => ~Has(broker, p.id)'
        /\ p.calm => Has(broker, p.id)' /\ HasUser(broker, Owner[p.id])'
    BY <1>11, <2>1, Zenon
  <2> QED BY <1>1, <1>9, <1>22, <2>2, <2>5, <2>7, <2>8, Frame, ZenonT(60)
<1>23. Jars(jars', Tokens) /\ Cache(cache', Tokens)
  BY <1>1, Zenon DEF AccessInv, TokenInv
<1>24. DataInv'
  BY <1>19, <1>20, <1>21, Zenon DEF DataInv
<1> QED BY <1>1, <1>8, <1>22, <1>23, <1>24, TamedStep, ZenonT(60)

\* the databroker restarts without its records
LEMMA RestartBrokerStep ==
  ASSUME AccessInv, RestartBroker PROVE AccessInv'
<1>1. /\ UNCHANGED <<setup, store, overlapped, used>> /\ UNCHANGED <<jars, cache>>
      /\ broker' = {} /\ feed' = <<Clear>> /\ clients' = Disturbed(DOMAIN Owner)
  BY Zenon DEF RestartBroker
<1>2. Tamed(clients', DOMAIN Owner)
  BY <1>1, DisturbedTame, Zenon
<1>3. Past \subseteq Past'
  BY <1>1, <1>2, TamedPast, Zenon
<1>4. Records' = Records
  BY <1>1, SetupKept, Zenon
<1>a. Clear.clear = TRUE /\ Clear.record = NoRecord /\ Clear.deleted = FALSE
  BY Zenon DEF Clear
<1>5. PICK x : x = Clear /\ x.clear = TRUE /\ x.record = NoRecord /\ x.deleted = FALSE
  BY <1>a, Zenon
<1>6. DOMAIN feed' = {1} /\ feed'[1] = x
  BY <1>1, <1>5
<1>7. \A s : Pending(s)'
  BY <1>5, <1>6, Zenon DEF Pending, Removal
<1>8. \A s : ~Has(broker, s)'
  BY <1>1, Zenon DEF Has
<1>9. RecordsInv'
  <2>1. setup' \in Setups' /\ used' \subseteq setup'.sessions /\ store' \subseteq Records' \ {NoRecord}
    BY <1>1, <1>4, Zenon DEF AccessInv, RecordsInv
  <2>2. \A y \in broker' \cup store' : y.type = "session" => y.id \in Past'
    BY <1>1, <1>3, Zenon DEF AccessInv, RecordsInv
  <2> QED BY <1>1, <2>1, <2>2, Zenon DEF RecordsInv
<1>10. FeedInv'
  <2>1. NoRecord.type = "none" /\ NoRecord \in Records
    BY Zenon DEF NoRecord, Records
  <2>2. x \in Changes
    BY <1>5, <2>1, Zenon DEF Changes, Clear
  <2>3. feed' \in Seq(Changes) /\ Changes' = Changes
    BY <1>1, <1>4, <1>5, <2>2, SMTT(60) DEF Changes
  <2> QED BY <1>5, <1>6, <2>1, <2>3, ZenonT(60) DEF FeedInv
<1>11. DataInv'
  BY <1>7, <1>9, <1>10, Zenon DEF DataInv, StoreInv
<1>12. ASSUME NEW p, ClientOK(p), p.calm => p.id \notin DOMAIN Owner PROVE ClientOK(p)'
  <2>1. ~p.calm
    <3>1. p.calm => Has(broker, p.id)
      BY <1>12, Zenon DEF ClientOK, Calm
    <3>2. p.calm => p.id \in DOMAIN Owner
      BY <3>1, Lives, SessionKind, Zenon
    <3> QED BY <1>12, <3>2, Zenon
  <2>2. used \subseteq used'
    BY <1>1, Zenon
  <2> QED BY <1>1, <1>3, <1>7, <1>8, <1>12, <2>1, <2>2, Frame, ZenonT(60)
<1>13. Jars(jars', Tokens) /\ Cache(cache', Tokens)
  BY <1>1, Zenon DEF AccessInv, TokenInv
<1> QED BY <1>1, <1>2, <1>11, <1>12, <1>13, TamedStep, ZenonT(60)

\* the invariant at the start
LEMMA AccessStart ==
  ASSUME AccessInit PROVE AccessInv
<1>1. /\ setup \in Setups /\ broker = Accounts /\ store = Accounts /\ feed = <<>>
      /\ jars = [auth |-> NoCookies, route |-> NoCookies] /\ cache = [jwt |-> NoSession, credential |-> NoSession]
      /\ clients = [c \in Clients |-> Fresh] /\ used = {}
  BY Zenon DEF AccessInit
<1>2. Past = {}
  BY <1>1, Zenon DEF Past
<1>3. NoRecord \notin Accounts /\ \A r \in Accounts : r.type # "session"
  BY AccountsAssumption, Zenon DEF NoRecord
<1>4. RecordsInv
  <2>1. Accounts \subseteq Records \ {NoRecord}
    BY <1>3, Zenon DEF Records
  <2>2. \A r \in broker \cup store : r.type # "session"
    BY <1>1, <1>3, Zenon
  <2>3. used \subseteq setup.sessions
    BY <1>1, Zenon
  <2> QED BY <1>1, <2>1, <2>2, <2>3, Zenon DEF RecordsInv
<1>5. FeedInv
  BY <1>1 DEF FeedInv
<1>6. StoreInv
  BY <1>1, <1>3, Zenon DEF StoreInv
<1>7. \A c \in Clients : P(c) = Fresh
  BY <1>1, Zenon DEF P
<1>8. TokenInv
  <2>1. NoSession \in Tokens
    BY Zenon DEF Tokens
  <2>2. Jars(jars, Tokens)
    BY <1>1, SMTT(60) DEF Jars, NoCookies
  <2>3. Cache(cache, Tokens)
    BY <1>1, <2>1, Zenon DEF Cache
  <2>4. \A c \in Clients : P(c).header \in Tokens /\ P(c).token \in Tokens
    BY <1>7, <2>1, FreshFields, Zenon
  <2> QED BY <2>2, <2>3, <2>4, Zenon DEF TokenInv
<1>9. ClientsInv
  <2>1. DOMAIN clients = Clients
    BY <1>1, Zenon
  <2>2. PICK e : e = Fresh
    BY Zenon
  <2>3. ClientOK(e) /\ e.pc = "done"
    BY <2>2, FreshFields, EndOK, Zenon
  <2>4. \A c \in Clients : clients[c] = e
    BY <1>1, <2>2, Zenon
  <2>5. "done" \notin InCreation
    BY Zenon DEF InCreation
  <2>6. \A c \in Clients : ~Creating(c)
    BY <2>3, <2>4, <2>5, Zenon DEF Creating, P
  <2> QED BY <2>1, <2>3, <2>4, <2>6, Zenon DEF ClientsInv
<1> QED BY <1>4, <1>5, <1>6, <1>8, <1>9, Zenon DEF AccessInv

\* and in a step that changes nothing
LEMMA AccessStutters ==
  ASSUME AccessInv, UNCHANGED accessVars PROVE AccessInv'
<1>1. /\ UNCHANGED <<setup, broker, feed, store, overlapped, used>> /\ UNCHANGED <<jars, cache, clients>>
  BY Zenon DEF accessVars
<1>2. Past' = Past
  BY <1>1, Zenon DEF Past, Creating, P
<1>3. Tamed(clients', {})
  BY <1>1, UndisturbedTame, Zenon
<1>4. used \subseteq used' /\ used' \subseteq setup.sessions /\ Past \subseteq Past'
  BY <1>1, <1>2, Zenon DEF AccessInv, RecordsInv
<1>5. DataInv'
  BY <1>1, <1>4, DataKept, Zenon DEF AccessInv, DataInv
<1>6. \A p : ClientOK(p) => ClientOK(p)'
  BY <1>1, <1>4, QuietFrame, Zenon
<1>7. Jars(jars', Tokens) /\ Cache(cache', Tokens)
  BY <1>1, Zenon DEF AccessInv, TokenInv
<1> QED BY <1>1, <1>3, <1>5, <1>6, <1>7, TamedStep, Zenon

\* every step keeps it
LEMMA AccessStep ==
  ASSUME AccessInv, AccessNext PROVE AccessInv'
  BY CheckNextStep, ProxyNextStep, AuthenticateNextStep, TarryStep, VisitStep, UpdateRecordsStep,
     ExpireSessionStep,
     RestartBrokerStep, ZenonT(60) DEF AccessNext, Handled

\* the invariant holds
LEMMA Inductive == AccessSpec => []AccessInv
<1>1. AccessInit => AccessInv
  BY AccessStart, Zenon
<1>2. AccessInv /\ [AccessNext]_accessVars => AccessInv'
  BY AccessStep, AccessStutters, Zenon
<1> QED BY <1>1, <1>2, PTL DEF AccessSpec

\* it implies both properties
LEMMA RefusedIs == AccessInv => RemovedRefused
<1>1. SUFFICES ASSUME AccessInv, NEW c \in Clients, P(c).pc = "done", P(c).settled, P(c).reply = "ok"
               PROVE  allow(policy, CheckRequest(c), NoRecord, {})
  BY Zenon DEF RemovedRefused
<1>2. Refused(P(c))
  BY <1>1, Before, Zenon DEF ClientOK
<1> QED BY <1>1, <1>2, RequestIs, Zenon DEF Refused

LEMMA CalmIs == AccessInv => CalmDecided
<1> DEFINE status(c) == Evaluate(policy, CheckRequest(c), P(c).id, session(broker, P(c).id), broker)
<1>1. SUFFICES ASSUME AccessInv, NEW c \in Clients, P(c).calm
               PROVE  /\ P(c).pc \notin {"sign in", "start authn"}
                      /\ P(c).pc = "done" /\ NoGroups =>
                           /\ P(c).reply = Reply(status(c))
                           /\ P(c).reply = "ok" => P(c).identity = Owner[P(c).id]
  BY Zenon DEF CalmDecided, Reply, NoGroups
<1>2. PICK p : p = P(c) /\ Calm(p) /\ p.calm
  BY <1>1, Before, Zenon DEF ClientOK
<1>3. p.pc \notin {"sign in", "start authn"}
  BY <1>2, Zenon DEF Calm, CheckStages, SyncStages, SyncUserStages, Waiting
<1>4. Has(broker, p.id) /\ HasUser(broker, Owner[p.id])
  BY <1>2, Zenon DEF Calm
<1>5. PICK r, db, s : r = RequestOf(p) /\ db = broker /\ s = p.id
  BY Zenon
<1>6. setup \in Setups /\ db \subseteq Records \ {NoRecord} /\ Has(db, s) /\ HasUser(db, Owner[s])
  BY <1>1, <1>4, <1>5, Lives, Zenon
<1>7. session(db, s) = Session(s) /\ (NoGroups => Evaluate(policy, r, s, Session(s), db) = Answer(s, r))
  BY <1>6, CalmAnswer, Zenon
<1>8. CheckRequest(c) = r
  BY <1>2, <1>5, RequestIs, Zenon
<1>9. NoGroups => status(c) = Answer(s, r)
  BY <1>2, <1>5, <1>7, <1>8, Zenon
<1>10. p.pc = "done" /\ NoGroups => p.reply = Reply(Answer(s, r)) /\ (p.reply = "ok" => p.identity = Owner[p.id])
  BY <1>2, <1>5, Zenon DEF Calm
<1> QED BY <1>2, <1>3, <1>9, <1>10, Zenon

\* Once the store of the authorize service has applied the removal of a
\* session for good, a check that begins with the session's token is answered
\* as if there were none (forceSyncSession, Evaluate, UpdateRecord): for any
\* number of clients in any mode, any sessions, policies, lag, failed calls
\* and restarts of the databroker.
THEOREM RemovalFinal == AccessSpec => []RemovedRefused
  BY Inductive, RefusedIs, PTL

\* A session that is in the databroker with its user all the while it is
\* checked is never taken for none, and is decided as the databroker's own
\* records would have it (forceSync): however many clients, changes on their
\* way, restarts and failures of the others there are.
THEOREM DecidedAsStored == AccessSpec => []CalmDecided
  BY Inductive, CalmIs, PTL
=============================================================================
