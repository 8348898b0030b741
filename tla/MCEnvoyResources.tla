------------------------- MODULE MCEnvoyResources -------------------------
(* Instance of EnvoyResources for TLC: pairs of policies over two hosts,     *)
(* some of them odd, and the options that change what is built from them.    *)
EXTENDS EnvoyResources

Policy ==
  [ZeroPolicy EXCEPT !.from = URL("https", "a", ""), !.to = <<Text(URL("https", "up", ""), NoComma)>>]
PathX == <<"/", "x">>
PathXY == <<"/", "x", "y">>
\* policies on host a, and policies that share a name with them
MCPolicies ==
  {Policy,
   [Policy EXCEPT !.prefix = PathX, !.public = TRUE, !.websockets = TRUE, !.passIdentity = TRUE],
   [Policy EXCEPT !.path = PathXY, !.downstreamCA = TRUE,
      !.to = <<Bracket("["), Text(URL("https", "up", ""), 1), Text(URL("https", "localhost", "8443"), 2), Bracket("]")>>],
   [Policy EXCEPT !.from = URL("https", "a", "8443"), !.public = TRUE, !.name = "named", !.serverName = "n", !.ca = "file"],
   [Policy EXCEPT !.regex = [body |-> PathX, start |-> TRUE, end |-> FALSE], !.hostRewrite = "literal"],
   [Policy EXCEPT !.from = URL("tcp+https", "a", "22"), !.to = <<Text(URL("tcp", "127.0.0.1", "22"), NoComma)>>],
   [Policy EXCEPT !.from = URL("https", "b", ""), !.redirect = {"https", "scheme"}, !.to = <<>>],
   [Policy EXCEPT !.from = URL("https", "auth", ""), !.allow = {"groups"}, !.skipVerify = TRUE]}
\* files that do not decode or validate
MCBadPolicies ==
  {[Policy EXCEPT !.to = <<Text(URL("https", "up", ""), 0)>>],
   [Policy EXCEPT !.to = <<Bracket("{"), Text(URL("https", "key", ""), NoComma), Text(URL("", "up", ""), 1), Bracket("}")>>],
   [Policy EXCEPT !.from = [URL("https", "a", "") EXCEPT !.path = PathX]],
   [Policy EXCEPT !.public = TRUE, !.anyUser = TRUE]}

Base ==
  [defaultOptions EXCEPT !.authenticateURL = URL("https", "auth", ""), !.certs = <<{"a"}, {"b"}>>,
     !.serviceAccount = "account", !.provider = "google", !.claimHeaders = {"claim-email"}]
Split(s) == [Base EXCEPT !.services = s, !.sharedKey = "key", !.authorizeURL = URL("https", "authorize", "")]
MCBases ==
  {Base, Split("proxy"),
   [Base EXCEPT !.insecure = TRUE, !.forwardAuthURL = URL("https", "b", ""), !.metricsAddr = ":9902",
     !.tracing = "datadog", !.datadog = <<"collector", "">>]}
MCPairs == {<<p>> : p \in MCPolicies} \cup {pq \in MCPolicies \X MCPolicies : pq[1] # pq[2]}
MCRawOptions ==
  {[o EXCEPT !.policies = ps] : o \in MCBases, ps \in MCPairs}
  \cup {[Base EXCEPT !.policies = <<p>>] : p \in MCBadPolicies}
  \cup {Split("authenticate"), [Split("authorize") EXCEPT !.storage = "redis"],
        [Split("databroker") EXCEPT !.storage = "redis", !.dsn = TRUE]}
MCEdits ==
  {[Base EXCEPT !.policies = <<Policy>>, !.tracing = "unknown"], [Base EXCEPT !.policies = <<Policy, Policy>>],
   [Base EXCEPT !.policies = <<[Policy EXCEPT !.malformed = {"client certificate"}]>>]}

MCDatabrokerConfigs ==
  {[set |-> TRUE, settings |-> [insecure |-> TRUE], routes |-> <<Policy>>],
   [set |-> TRUE, settings |-> [certs |-> <<{"c"}>>, authorizeURLs |-> <<URL("", "authorize", "")>>], routes |-> <<>>]}

Req(h, port, path, connect) ==
  [sni |-> h, host |-> <<h, port>>, path |-> path, query |-> {}, grpc |-> FALSE, connect |-> connect, scheme |-> "https"]
MCRequests ==
  {Req("a", port, path, FALSE) : port \in {"", "443", "8443"}, path \in {Root, PathX, PathXY, Robots}}
  \cup {Req("a", "22", <<>>, TRUE), Req("auth", "", CallbackPath, FALSE),
        [Req("b", "", Root, FALSE) EXCEPT !.sni = "c"], [Req("b", "", Root, FALSE) EXCEPT !.query = {"uri"}],
        Req("a", "", Dot \o <<"/", "jwt">>, FALSE)}
===========================================================================
