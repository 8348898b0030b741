------------------------------ MODULE Sessions ------------------------------
(***************************************************************************)
(* Where requests carry their session (internal/sessions): a cookie, split *)
(* into chunks when it is long, the Authorization header or a parameter of *)
(* the URL.  A session token stands for its identifier; how many cookies   *)
(* it takes depends on the user it names.                                  *)
(***************************************************************************)
EXTENDS Naturals, Sequences

\* the user of every session there can be, and the cookies a token of that user takes
CONSTANTS Owner, Chunks

\* f where it is defined, and g elsewhere
f ++ g == [x \in DOMAIN f \cup DOMAIN g |-> IF x \in DOMAIN f THEN f[x] ELSE g[x]]

\* the first of some values that is not none
First(values, none) ==
  LET some == {k \in DOMAIN values : values[k] # none}
  IN IF some = {} THEN none ELSE values[CHOOSE k \in some : \A j \in some : k <= j]

NoSession == "no session"
Malformed == "malformed"
MaxNumChunks == 5

ASSUME ChunksAssumption == \A s \in DOMAIN Owner : Chunks[Owner[s]] \in 1..(MaxNumChunks + 1)

(* The cookies of one host: 0 is the session cookie, i its part i. *)
NoCookies == <<>>

\* a token that fits is one cookie; otherwise the first part is marked as chunked
setCookie(jar, s) ==
  LET n == Chunks[Owner[s]]
  IN [i \in 0..(n - 1) |-> [id |-> s, part |-> i + 1, canary |-> n > 1 /\ i = 0]] ++ jar
SaveSession(jar, s) == setCookie(jar, s)
\* only the session cookie itself is removed
ClearSession(jar) == [i \in DOMAIN jar \ {0} |-> jar[i]]

\* the parts found one after the other, whatever token they are from
loadChunkedCookie(jar) ==
  IF ~jar[0].canary THEN <<jar[0]>>
  ELSE LET n == CHOOSE n \in 0..MaxNumChunks :
                  /\ 1..n \subseteq DOMAIN jar
                  /\ n = MaxNumChunks \/ n + 1 \notin DOMAIN jar
       IN [i \in 1..(n + 1) |-> jar[i - 1]]
\* signature and claims: only a whole token, and nothing after it, decodes
Unmarshal(parts) ==
  LET s == parts[1].id
  IN IF /\ Len(parts) = Chunks[Owner[s]]
        /\ \A i \in DOMAIN parts : parts[i].id = s /\ parts[i].part = i
     THEN s ELSE Malformed
LoadSession(jar) == IF 0 \in DOMAIN jar THEN Unmarshal(loadChunkedCookie(jar)) ELSE NoSession

\* the first loader that finds anything decides, malformed or not
retrieveFromRequest(found) == First(found, NoSession)

(* The token a request carries elsewhere, and in which form. *)
HeaderForms == {"Pomerium", "Bearer Pomerium-"}
Forms == HeaderForms \cup {"query"}
NothingCarried == [as |-> "query", token |-> NoSession]
TokenFromHeader(carried) == IF carried.as \in HeaderForms THEN carried.token ELSE NoSession
queryLoadSession(carried) == IF carried.as = "query" THEN carried.token ELSE NoSession

\* authorize asks cookie, header and query; errors leave the request without a session
loadRawSession(jar, carried) ==
  retrieveFromRequest(<<LoadSession(jar), TokenFromHeader(carried), queryLoadSession(carried)>>)
loadSession(raw) == IF raw = Malformed THEN NoSession ELSE raw
\* authenticate asks header and cookie
getSessionFromCtx(jar, carried) ==
  loadSession(retrieveFromRequest(<<TokenFromHeader(carried), LoadSession(jar)>>))
=============================================================================
