---------------------------- MODULE ManifestFetch ----------------------------
(***************************************************************************)
(* fetch_manifests of steamdepot/src/depot.rs with download_manifest and   *)
(* the CM calls of cdn.rs, and what becomes of the CDN auth tokens it      *)
(* earns: the command line seeds the server pool with them, and the chunk  *)
(* requests of download.rs look them up while time passes.                 *)
(*                                                                         *)
(* A CM call succeeds or fails after its own retries (CmCalls).  A CDN     *)
(* request ends with the manifest, an HTTP status, an error of the network *)
(* or bytes that are no manifest.  The code takes a 403 from the text of   *)
(* the error, which also holds the URL with its depot, manifest and code;  *)
(* "digits" stands for another status with a 403 somewhere in that text.   *)
(***************************************************************************)
EXTENDS CdnPool, Sequences

CONSTANTS
  NDepots,           \* depots of the plan
  Preferred,         \* servers of type SteamCache or CDN, in list order
  MANIFEST_RETRIES,  \* attempts on a depot after the first
  Expiries,          \* expiry times the CM gives to tokens
  MaxTime            \* bound: the clock

ASSUME FetchAssumption ==
  /\ NDepots \in Nat
  /\ Preferred \in Seq(Server)
  /\ \A i, k \in DOMAIN Preferred : i < k => Preferred[i] < Preferred[k]
  /\ MANIFEST_RETRIES \in Nat
  /\ Expiries \subseteq Nat
  /\ MaxTime \in Nat

VARIABLES
  pc,         \* the call it is about to make, or how fetch_manifests returned
  depot,      \* the plan entry it works on
  attempt,    \* attempts made on it before this one
  last_err,   \* the error of the last failed attempt, or "none"
  token,      \* expiry of the token just granted
  manifests,  \* plan entries with a manifest
  tokens,     \* plan.cdn_auth_tokens, in order
  cache,      \* the token map of the pool
  now,        \* the clock
  \* what happened
  result,     \* how the last CDN request ended
  asked,      \* servers asked for the manifest of this depot
  source,     \* per plan entry, where its manifest came from
  chunk       \* the last chunk request

fetch == <<pc, depot, attempt, last_err, token, manifests, tokens>>
past == <<result, asked, source, chunk>>
vars == <<fetch, cache, now, past>>

Depot == 1..NDepots

\* SteamCache and CDN servers in list order, or all servers if there are none.
servers == IF Preferred = <<>> THEN [i \in Server |-> i] ELSE Preferred

server == servers[(attempt % Len(servers)) + 1]

Statuses == {"forbidden", "unauthorized", "digits", "status"}
Results == Statuses \cup {"ok", "network", "garbled"}
Errors == (Results \ {"ok"}) \cup {"none", "cm"}

TypeOK ==
  /\ pc \in {"servers", "code", "get", "token", "get_with_token", "ok", "err", "chunks"}
  /\ depot \in 1..(NDepots + 1)
  /\ attempt \in 0..MANIFEST_RETRIES
  /\ last_err \in Errors
  /\ token \in Expiries \cup {0}
  /\ manifests \subseteq Depot
  /\ tokens \in Seq([depot : Depot, host : Host, expiry : Expiries])
  /\ DOMAIN cache \subseteq Depot \X Host
  /\ now \in 0..MaxTime
  /\ result \in Results \cup {"none"}
  /\ asked \subseteq Server
  /\ source \in [Depot -> [server : Server \cup {0}, token : Expiries \cup {0}]]
  /\ chunk \in [depot : Depot \cup {0}, server : Server \cup {0}, token : Expiries \cup {0},
                at : 0..MaxTime]

Init ==
  /\ pc = "servers"
  /\ depot = 1
  /\ attempt = 0
  /\ last_err = "none"
  /\ token = 0
  /\ manifests = {}
  /\ tokens = <<>>
  /\ cache = NoTokens
  /\ now = 0
  /\ result = "none"
  /\ asked = {}
  /\ source = [d \in Depot |-> [server |-> 0, token |-> 0]]
  /\ chunk = [depot |-> 0, server |-> 0, token |-> 0, at |-> 0]

-----------------------------------------------------------------------------
(* fetch_manifests *)

\* The top of the loop over plan entries; without entries there is nothing to
\* fetch.
LoopAt(d) == pc' = IF d > NDepots THEN "ok" ELSE "code"

GetServers ==
  /\ pc = "servers"
  /\ LoopAt(1) \/ pc' = "err"
  /\ UNCHANGED <<depot, attempt, last_err, token, manifests, tokens, cache, now, past>>

\* The request code; a code of 0 and a failed call end everything.
GetCode ==
  /\ pc = "code"
  /\ \/ pc' = "get" /\ attempt' = 0 /\ last_err' = "none" /\ asked' = {}
     \/ pc' = "err" /\ last_err' = "cm" /\ UNCHANGED <<attempt, asked>>
  /\ UNCHANGED <<depot, token, manifests, tokens, cache, now, result, source, chunk>>

GotManifest(with) ==
  /\ manifests' = manifests \cup {depot}
  /\ source' = [source EXCEPT ![depot] = [server |-> server, token |-> with]]
  /\ last_err' = "none"
  /\ depot' = depot + 1
  /\ LoopAt(depot + 1)
  /\ UNCHANGED attempt

\* After the loop over attempts: the error of the last one returns, if it
\* failed.
AfterLoop ==
  IF last_err' # "none" THEN pc' = "err" /\ UNCHANGED depot
                        ELSE depot' = depot + 1 /\ LoopAt(depot + 1)

\* Slip: the attempt is not counted.
SameAttempt(error) ==
  /\ last_err' = error
  /\ IF attempt < MANIFEST_RETRIES
       THEN pc' = "get" /\ UNCHANGED <<attempt, depot>>
       ELSE AfterLoop /\ UNCHANGED attempt
  /\ UNCHANGED <<manifests, source>>

\* The end of an attempt that failed.
NextAttempt(error) ==
  /\ last_err' = error
  /\ IF attempt < MANIFEST_RETRIES
       THEN pc' = "get" /\ attempt' = attempt + 1 /\ UNCHANGED depot
       ELSE AfterLoop /\ UNCHANGED attempt
  /\ UNCHANGED <<manifests, source>>

\* Error::Other(msg) with msg.contains("403").
Contains403(r) == r \in {"forbidden", "digits"}

GetManifest ==
  /\ pc = "get"
  /\ asked' = asked \cup {server}
  /\ \E r \in Results :
       /\ result' = r
       /\ \/ r = "ok" /\ GotManifest(0)
          \/ /\ Contains403(r)
             /\ pc' = "token"
             /\ UNCHANGED <<depot, attempt, last_err, manifests, source>>
          \/ r # "ok" /\ ~Contains403(r) /\ NextAttempt(r)
  /\ UNCHANGED <<token, tokens, cache, now, chunk>>

\* Slip: a refused token leaves last_err alone.
TokenErrorForgotten ==
  /\ pc = "token"
  /\ \/ /\ token' \in Expiries
        /\ pc' = "get_with_token"
        /\ UNCHANGED <<depot, attempt, last_err, manifests, source>>
     \/ NextAttempt(last_err) /\ UNCHANGED token
  /\ UNCHANGED <<tokens, cache, now, result, asked, chunk>>

\* request_cdn_auth_token for this depot and the host of this server.
RequestToken ==
  /\ pc = "token"
  /\ \/ /\ token' \in Expiries
        /\ pc' = "get_with_token"
        /\ UNCHANGED <<depot, attempt, last_err, manifests, source>>
     \/ NextAttempt("cm") /\ UNCHANGED token
  /\ UNCHANGED <<tokens, cache, now, result, asked, chunk>>

Earned == Append(tokens, [depot |-> depot, host |-> HostOf[server], expiry |-> token])

\* Slip: a token is kept whether or not it has served.
KeepsAnyToken ==
  /\ pc = "get_with_token"
  /\ tokens' = Earned
  /\ \E r \in Results :
       /\ result' = r
       /\ \/ r = "ok" /\ GotManifest(token)
          \/ r # "ok" /\ NextAttempt(r)
  /\ UNCHANGED <<token, cache, now, asked, chunk>>

\* The same server again, with the token, which is kept if it served.
GetWithToken ==
  /\ pc = "get_with_token"
  /\ \E r \in Results :
       /\ result' = r
       /\ \/ r = "ok" /\ GotManifest(token) /\ tokens' = Earned
          \/ r # "ok" /\ NextAttempt(r) /\ UNCHANGED tokens
  /\ UNCHANGED <<token, cache, now, asked, chunk>>

-----------------------------------------------------------------------------
(* The download that follows *)

\* The tokens of the pool after the first n kept tokens were set.
Seeded[n \in 0..Len(tokens)] ==
  IF n = 0 THEN NoTokens
  ELSE SetToken(Seeded[n - 1], tokens[n].depot, tokens[n].host, tokens[n].expiry)

\* CdnPool::new with all servers, and set_cdn_auth_token for each kept token.
SeedPool ==
  /\ pc = "ok" /\ NDepots > 0
  /\ pc' = "chunks"
  /\ cache' = Seeded[Len(tokens)]
  /\ UNCHANGED <<depot, attempt, last_err, token, manifests, tokens, now, past>>

\* A chunk request to any server, as penalties may make it the pick; with the
\* token of depot and host if there is a valid one.
RequestChunk ==
  /\ pc = "chunks"
  /\ \E d \in Depot, s \in Server :
       chunk' = [depot |-> d, server |-> s, token |-> Token(cache, d, HostOf[s], now), at |-> now]
  /\ UNCHANGED <<fetch, cache, now, result, asked, source>>

TimePasses ==
  /\ now < MaxTime
  /\ now' = now + 1
  /\ UNCHANGED <<fetch, cache, past>>

-----------------------------------------------------------------------------

Fetch == GetServers \/ GetCode \/ GetManifest \/ RequestToken \/ GetWithToken

Over == (pc = "err" \/ (pc = "ok" /\ NDepots = 0)) /\ UNCHANGED vars

Next == Fetch \/ SeedPool \/ RequestChunk \/ TimePasses \/ Over

Spec == Init /\ [][Next]_vars

\* Every CM call and CDN request ends; the HTTP client has no timeout, so that
\* is an assumption about the servers.
FairSpec == Spec /\ WF_vars(Fetch)

-----------------------------------------------------------------------------
(* Properties *)

\* fetch_manifests returns Ok only with a manifest for every depot, which the
\* caller does not check again; and an error leaves the depots before the one
\* that failed complete.
OkIsComplete ==
  /\ pc \in {"ok", "chunks"} => manifests = Depot
  /\ manifests = 1..(depot - 1)

\* A token is kept for the pool only if the manifest of its depot came from
\* its host with that very token.
TokensServed ==
  \A i \in DOMAIN tokens :
    LET from == source[tokens[i].depot]
    IN from.token = tokens[i].expiry /\ HostOf[from.server] = tokens[i].host

\* When every attempt on a depot failed, the error returned is that of the
\* last one: of its token request, or of its last CDN request.
ErrorIsOfLastAttempt ==
  pc = "err" /\ last_err \notin {"none", "cm"} => last_err = result /\ attempt = MANIFEST_RETRIES

\* A depot is given up over a CDN error only after as many servers were asked
\* as there are, or as there are attempts.
RotationCovered ==
  pc = "err" /\ last_err \notin {"none", "cm"} =>
    LET n == IF Len(servers) <= MANIFEST_RETRIES THEN Len(servers) ELSE MANIFEST_RETRIES + 1
    IN asked = {servers[i] : i \in 1..n}

\* What fetch_manifests returns is what happened: Ok with every manifest, or
\* the error of the last attempt after the whole rotation.
FetchInv == TypeOK /\ OkIsComplete /\ ErrorIsOfLastAttempt /\ RotationCovered

\* A chunk request never carries the token of another depot or host, nor one
\* that has expired; and it does carry one if the fetch of its own manifest
\* earned one for its host that is still valid.
ChunkTokenIsOwn ==
  LET own(i) == tokens[i].depot = chunk.depot /\ tokens[i].host = HostOf[chunk.server]
  IN chunk.depot # 0 =>
       /\ chunk.token # 0 => /\ chunk.token > chunk.at
                             /\ \E i \in DOMAIN tokens : own(i) /\ tokens[i].expiry = chunk.token
       /\ (\E i \in DOMAIN tokens : own(i) /\ tokens[i].expiry > chunk.at) => chunk.token # 0

\* fetch_manifests returns, if its requests end.
FetchReturns == <>(pc \in {"ok", "err", "chunks"})

=============================================================================
