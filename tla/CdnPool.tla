------------------------------- MODULE CdnPool -------------------------------
(***************************************************************************)
(* The pool of CDN servers of steamdepot/src/cdn.rs: an ordered list of    *)
(* servers, and a penalty score per host name.  A host that was never      *)
(* penalised has no entry in the map of the code, which every reader takes *)
(* as zero; the model gives each host its score from the start.  Beside    *)
(* the scores the pool keeps CDN auth tokens by depot and host.            *)
(***************************************************************************)
EXTENDS Integers

CONSTANTS
  NServers,   \* length of the server list
  Host,       \* host names
  HostOf      \* host name of the i-th server; two servers may share one

\* fetch_manifests refuses an empty list (depot.rs:155), and pick_server
\* panics on one: every pool that is built has a server.
ASSUME PoolAssumption ==
  /\ NServers \in Nat \ {0}
  /\ HostOf \in [1..NServers -> Host]

Server == 1..NServers

\* CdnPool::new: no host has a penalty.
NoPenalties == [h \in Host |-> 0]

\* Slip: the first server, whatever the scores.
PicksLowestScan(penalty, s) == \A t \in Server : s <= t
\* Slip: a failure counts twice.
PenalizeTwice(penalty, h) == [penalty EXCEPT ![h] = @ + 2]

\* pick_server returns s: lowest score, and the first in list order of those
\* that have it (Iterator::min_by_key keeps the first minimum).
Picks(penalty, s) ==
  /\ \A t \in Server : penalty[HostOf[s]] <= penalty[HostOf[t]]
  /\ \A t \in 1..(s - 1) : penalty[HostOf[s]] < penalty[HostOf[t]]

Penalize(penalty, h) == [penalty EXCEPT ![h] = @ + 1]

-----------------------------------------------------------------------------
(* The auth tokens, a map from depot and host to the expiry of the token *)

NoTokens == <<>>

\* set_cdn_auth_token: a later token for the same depot and host replaces the
\* earlier one.
SetToken(cache, d, h, expiry) ==
  [k \in DOMAIN cache \cup {<<d, h>>} |-> IF k = <<d, h>> THEN expiry ELSE cache[k]]

\* Slip: the token of any depot on the host.
TokenOfHost(cache, d, h, now) ==
  LET valid == {k \in DOMAIN cache : k[2] = h /\ cache[k] > now}
  IN IF valid = {} THEN 0 ELSE cache[CHOOSE k \in valid : TRUE]

\* get_cdn_auth_token: the expiry of the token, 0 if there is none that is
\* still valid.
Token(cache, d, h, now) ==
  IF <<d, h>> \in DOMAIN cache /\ cache[<<d, h>>] > now THEN cache[<<d, h>>] ELSE 0

=============================================================================
