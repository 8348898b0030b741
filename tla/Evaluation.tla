----------------------------- MODULE Evaluation -----------------------------
(***************************************************************************)
(* The decision of the authorize service about one request: the policy     *)
(* language rules (authorize/evaluator/opa/policy/authz.rego) over the     *)
(* records of its store, and the status made of them (evaluator.go).       *)
(* Records are [type, id, ...]; an e-mail address is the user it names, a  *)
(* claim a pair of its name and one of its values, and a client            *)
(* certificate the authority that issued it.                               *)
(***************************************************************************)
EXTENDS Sessions, FiniteSets

NoRecord ==
  [type |-> "none", id |-> "", user |-> "", domain |-> "", groups |-> {}, claims |-> {}, impersonate |-> {}]
Account(id, u) == [NoRecord EXCEPT !.type = "account", !.id = id, !.user = u]
User(u, domain, claims) == [NoRecord EXCEPT !.type = "user", !.id = u, !.domain = domain, !.claims = claims]
DirectoryUser(u, groups) == [NoRecord EXCEPT !.type = "directory", !.id = u, !.groups = groups]
Group(g, name) == [NoRecord EXCEPT !.type = "group", !.id = g, !.user = name]

(* The store (store.go): at most one record of a type and identifier. *)
Same(r, q) == r.type = q.type /\ r.id = q.id
GetRecordData(store, type, id) ==
  LET found == {r \in store : r.type = type /\ r.id = id}
  IN IF found = {} THEN NoRecord ELSE CHOOSE r \in found : TRUE
Without(store, r) == {q \in store : ~Same(q, r)}
UpdateRecord(store, r, deleted) == IF deleted THEN Without(store, r) ELSE Without(store, r) \cup {r}

-----------------------------------------------------------------------------
(* Rules (authz.rego) *)
\* the first of some values that is defined
firstDefined(values) == First(values, "")
session(store, id) ==
  LET account == GetRecordData(store, "account", id)
  IN IF account # NoRecord THEN account ELSE GetRecordData(store, "session", id)
\* the record of the impersonated user, when there is one, before the user's own
OfUser(store, type, s) ==
  LET as == {GetRecordData(store, type, i.user) : i \in s.impersonate} \ {NoRecord}
  IN IF as # {} THEN CHOOSE r \in as : TRUE ELSE GetRecordData(store, type, s.user)
user(store, s) == OfUser(store, "user", s)
directory_user(store, s) == OfUser(store, "directory", s)
group_ids(store, s) ==
  IF s.impersonate # {} THEN UNION {i.groups : i \in s.impersonate} ELSE directory_user(store, s).groups
groups(store, s) ==
  group_ids(store, s) \cup ({GetRecordData(store, "group", g).user : g \in group_ids(store, s)} \ {""})
get_allowed(policy, field) == policy[field] \cup UNION {sp[field] : sp \in policy.sub}
\* one value of one claim in both is enough
are_claims_allowed(a, b) == a \cap b # {}

allow(policy, r, s, store) ==
  LET as == {i \in s.impersonate : i.user # ""}
      u == user(store, s)
  IN \/ policy.public
     \/ policy.cors /\ r.preflight
     \/ policy.anyUser /\ s.user # ""
     \/ /\ as = {}
        /\ \/ u.id \in get_allowed(policy, "users")
           \/ groups(store, s) \cap get_allowed(policy, "groups") # {}
           \/ u.domain \in get_allowed(policy, "domains")
     \/ \E i \in as : \/ i.user \in get_allowed(policy, "users")
                      \/ i.groups \cap get_allowed(policy, "groups") # {}
                      \/ i.domain \in get_allowed(policy, "domains")
     \/ are_claims_allowed(get_allowed(policy, "claims"), s.claims)
     \/ are_claims_allowed(get_allowed(policy, "claims"), u.claims)
     \/ r.pomerium
deny(valid) == IF valid THEN {} ELSE {<<495, "invalid client certificate">>}

\* what is told to the upstream, in a signed assertion
jwt_payload_jti(s) == s.id
jwt_payload_user(store, s) == user(store, s).id
jwt_payload_email(store, s) ==
  LET as == {i.user : i \in s.impersonate} \ {""}
  IN IF as # {} THEN CHOOSE u \in as : TRUE ELSE firstDefined(<<directory_user(store, s).id, user(store, s).id>>)
jwt_payload_groups(store, s) ==
  IF groups(store, s) # {} THEN groups(store, s) ELSE {c[2] : c \in {d \in s.claims : d[1] = "groups"}}
jwt_payload(store, s) ==
  [jti |-> jwt_payload_jti(s), user |-> jwt_payload_user(store, s), email |-> jwt_payload_email(store, s),
   groups |-> jwt_payload_groups(store, s)]
identity_headers(store, s) == [assertion |-> jwt_payload(store, s)]

(* Client certificates (functions.go); "broken" is what does not parse. *)
isValidClientCertificate(ca, cert) ==
  [error |-> ca # "" /\ cert = "broken", valid |-> ca \in {"", cert}]

\* the statuses of the denials that are a status and a message
getDenyVar(denials) == {d[1] : d \in {e \in denials : Len(e) = 2}}

(* The rego of every sub policy must allow as well (custom.go); what does *)
(* not compile is an error.                                               *)
CustomEvaluatorError(policy) == \E sp \in policy.sub : sp.rego = "invalid"
CustomEvaluate(policy) == \A sp \in policy.sub : sp.rego \in {"none", "allow"}

\* s: the session the rules were evaluated with; id: the one the request carried
Evaluate(policy, r, id, s, store) ==
  LET certificate == isValidClientCertificate(r.ca, r.certificate)
      denied == getDenyVar(deny(certificate.valid))
      allowed == allow(policy, r, s, store)
  IN IF certificate.error THEN 500
     ELSE IF denied # {} THEN CHOOSE status \in denied : TRUE
     ELSE IF allowed /\ CustomEvaluatorError(policy) THEN 500
     ELSE IF allowed /\ CustomEvaluate(policy) THEN 200
     ELSE IF id = NoSession THEN 401 ELSE 403
=============================================================================
