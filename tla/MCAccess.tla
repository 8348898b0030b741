------------------------------ MODULE MCAccess ------------------------------
(***************************************************************************)
(* Instance of Access for TLC.  Every setup asks a question of its own:    *)
(* two windows of a browser with a sign out; users that change, over a     *)
(* restart of the databroker; tunnels; the forward auth proxies; a script  *)
(* beside a page; programs, kubectl among them, and what else of a request *)
(* decides.                                                                *)
(***************************************************************************)
EXTENDS Access
MCOwner == [s1 |-> "u1", s2 |-> "u2"]
\* a token of u2 is chunked
MCChunks == [u1 |-> 1, u2 |-> 2]
Closed ==
  [public |-> FALSE, cors |-> FALSE, anyUser |-> FALSE, users |-> {}, domains |-> {}, groups |-> {}, claims |-> {},
   ca |-> "", sub |-> {}]
Sub(users, rego) == [users |-> users, domains |-> {}, groups |-> {}, claims |-> {}, rego |-> rego]
Plain == [preflight |-> FALSE, certificate |-> "ca"]
S(p, prov, ss, m1, m2, rs, nf, nr) ==
  [policy |-> p, provider |-> prov, sessions |-> ss, modes |-> [c1 |-> m1, c2 |-> m2], requests |-> rs,
   clientCA |-> "ca", faults |-> nf, restarts |-> nr]
MCSetups == {
  S([Closed EXCEPT !.users = {"u1"}], "oidc", {"s1"}, {"direct"}, {"direct", "sign out"}, {Plain}, 1, 0),
  S([Closed EXCEPT !.anyUser = TRUE], "oidc", {"s1", "s2"}, {"direct", "sign out", "dashboard", "proxy sign out"}, {},
    {Plain}, 0, 1),
  S([Closed EXCEPT !.sub = {Sub({"u1"}, "allow")}], "github", {"s1"}, {"tunnel"}, {"tunnel", "sign out"},
    {Plain}, 0, 0),
  S([Closed EXCEPT !.groups = {"staff"}], "oidc", {"s1"}, {"nginx"}, {"traefik"}, {Plain}, 0, 0),
  S([Closed EXCEPT !.domains = {"d"}], "oidc", {"s1"}, {"xhr"}, {"direct"}, {Plain}, 1, 0),
  S([Closed EXCEPT !.claims = {<<"k", "v">>}, !.ca = "own", !.cors = TRUE], "oidc", {"s1"}, {"account", "api", "kubectl"}, {},
    [preflight : BOOLEAN, certificate : {"", "ca", "own", "broken"}], 1, 0)}
MCAccounts == {Account("a1", "u2"), User("u2", "e", {<<"k", "v">>}), Group("g", "staff")}
MCProfiles ==
  [u1 |-> [email |-> "", mail |-> "d", verified |-> FALSE, idToken |-> {<<"name", "n">>}, claims |-> {<<"name", "n">>}],
   u2 |-> [email |-> "e", mail |-> "", verified |-> TRUE, idToken |-> {}, claims |-> {<<"k", "v">>}]]
MCDirectory == [u1 |-> {"g"}, u2 |-> {}]
=============================================================================
