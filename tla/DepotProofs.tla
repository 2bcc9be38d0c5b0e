---------------------------- MODULE DepotProofs ----------------------------
(***************************************************************************)
(* Proofs about the two halves of a prepared download that MCDepot runs:   *)
(* the manifests (ManifestFetch) and the plan (PrepareDownload).           *)
(*                                                                         *)
(* About ManifestFetch, for every plan, server list, number of retries and *)
(* clock. FetchIInv is inductive: which servers a depot has been through   *)
(* (RotationInv), where each kept token came from, one per depot           *)
(* (TokensInv), and what the pool was seeded with (CacheInv).              *)
(*                                                                         *)
(* The loop that seeds the pool is a recursive function; what it computes  *)
(* is shown by induction over a set of numbers (PrefixInduction).          *)
(*                                                                         *)
(* About PrepareDownload, for any apps, product information, platforms,    *)
(* branches, failures and numbers of calls: PlanIInv is inductive.  It     *)
(* says what each phase of prepare_download has settled: which licences    *)
(* were asked for and for whom they are kept, and what was resolved.       *)
(***************************************************************************)
EXTENDS MCDepot, SequenceTheorems, FiniteSetTheorems, TLAPS

\* The servers asked in k attempts.
Rotated(k) == {servers[i] : i \in 1..(IF Len(servers) <= k THEN Len(servers) ELSE k)}

\* The depots are done in order; the call under way is for one of the plan.
PlaceInv ==
  /\ manifests = 1..(depot - 1)
  /\ pc \in {"code", "get", "token", "get_with_token"} => depot <= NDepots
  /\ pc \in {"ok", "chunks"} => depot = NDepots + 1
  /\ pc = "servers" => depot = 1 /\ last_err = "none"

\* Each attempt asked the next server; the end of the last one is what is left.
RotationInv ==
  /\ pc = "get" => asked = Rotated(attempt)
  /\ pc \in {"token", "get_with_token"} => asked = Rotated(attempt + 1)
  /\ pc = "get_with_token" => token \in Expiries
  /\ pc = "err" /\ last_err \notin {"none", "cm"} =>
       last_err = result /\ attempt = MANIFEST_RETRIES /\ asked = Rotated(MANIFEST_RETRIES + 1)

\* The kept tokens are of depots that are done, at most one of each, and have
\* served there.
Served(i) ==
  /\ tokens[i].depot \in 1..(depot - 1)
  /\ source[tokens[i].depot].token = tokens[i].expiry
  /\ HostOf[source[tokens[i].depot].server] = tokens[i].host

TokensInv ==
  \A i \in 1..Len(tokens) :
    Served(i) /\ \A k \in i + 1..Len(tokens) : tokens[i].depot < tokens[k].depot

\* A pool holds the first n kept tokens and nothing else.
Key(i) == <<tokens[i].depot, tokens[i].host>>
HoldsTokens(c, n) ==
  /\ DOMAIN c = {Key(i) : i \in 1..n}
  /\ \A i \in 1..n : c[Key(i)] = tokens[i].expiry

\* The pool holds the kept tokens; a chunk request looks its token up there.
CacheInv ==
  /\ pc # "chunks" => DOMAIN cache = {}
  /\ pc = "chunks" => HoldsTokens(cache, Len(tokens))
  /\ chunk.depot # 0 =>
       /\ pc = "chunks" /\ chunk.server \in Server
       /\ chunk.token = Token(cache, chunk.depot, HostOf[chunk.server], chunk.at)

FetchIInv == TypeOK /\ PlaceInv /\ RotationInv /\ TokensInv /\ CacheInv

-----------------------------------------------------------------------------
(* Induction over a prefix of the numbers *)

\* A set of numbers up to n that is not empty has a least one.
LEMMA LeastNumber ==
  ASSUME NEW n \in Nat, NEW T \in SUBSET (0..n), T # {}
  PROVE  \E x \in T : \A y \in T : x <= y
<1> DEFINE N == 0..n
           W == {0..x : x \in T}
<1>1. FiniteSubsetsOf(N) = SUBSET N
  <2>1. IsFiniteSet(N)
    BY FS_Interval
  <2> QED
    BY <2>1, FS_FiniteSubsetsOfFinite
<1>2. W # {} /\ W \subseteq SUBSET N
  <2>1. \A x \in T : 0..x \subseteq N
    OBVIOUS
  <2> QED
    BY <2>1
<1>3. \E w \in W : \A v \in W : <<v, w>> \notin StrictSubsetOrdering(N)
  <2>1. IsWellFoundedOn(StrictSubsetOrdering(N), SUBSET N)
    BY <1>1, FS_StrictSubsetOrderingWellFounded
  <2> HIDE DEF W, N
  <2> QED
    BY <1>2, <2>1, WFMin
<1>4. PICK x \in T : \A y \in T : <<0..y, 0..x>> \notin StrictSubsetOrdering(N)
  BY <1>3
<1>5. ASSUME NEW y \in T PROVE x <= y
  <2>1. SUFFICES ASSUME y < x PROVE FALSE
    OBVIOUS
  <2>2. 0..y \subseteq 0..x /\ 0..y # 0..x
    BY <2>1
  <2>3. <<0..y, 0..x>> \in (SUBSET N) \X (SUBSET N)
    OBVIOUS
  <2>4. <<0..y, 0..x>> \in StrictSubsetOrdering(N)
    BY <2>2, <2>3 DEF StrictSubsetOrdering
  <2> QED
    BY <1>4, <2>4
<1> QED
  BY <1>5

\* A set that holds 0, and with each number below n the next, holds them all.
LEMMA PrefixInduction ==
  ASSUME NEW n \in Nat, NEW T \in SUBSET (0..n), 0 \in T,
         \A m \in T : m < n => m + 1 \in T
  PROVE  T = 0..n
<1> DEFINE Rest == (0..n) \ T
<1>1. SUFFICES ASSUME Rest # {} PROVE FALSE
  OBVIOUS
<1>2. PICK x \in Rest : \A y \in Rest : x <= y
  <2> HIDE DEF Rest
  <2>1. Rest \in SUBSET (0..n)
    BY DEF Rest
  <2> QED
    BY <1>1, <2>1, LeastNumber
<1>3. x \in 1..n /\ x - 1 \in 0..n
  OBVIOUS
<1>4. x - 1 \in T
  BY <1>2, <1>3
<1> QED
  BY <1>2, <1>3, <1>4

-----------------------------------------------------------------------------
(* Facts about the operators of the model *)

\* There is a server to ask, whatever the attempt.
LEMMA ServersFacts ==
  /\ servers \in Seq(Server) /\ Len(servers) \in Nat \ {0}
  /\ \A i \in 1..Len(servers) : servers[i] \in Server
<1>1. servers \in Seq(Server) /\ Len(servers) \in Nat \ {0}
  <2>1. CASE Preferred = <<>>
    <3>1. [i \in Server |-> i] \in Seq(Server) /\ Len([i \in Server |-> i]) = NServers
      <4>1. [i \in Server |-> i] \in [1..NServers -> Server] /\ NServers \in Nat
        BY PoolAssumption DEF Server
      <4> QED
        BY <4>1, PoolAssumption DEF Server
    <3> QED
      BY <2>1, <3>1, PoolAssumption DEF servers
  <2>2. CASE Preferred # <<>>
    BY <2>2, FetchAssumption, EmptySeq DEF servers
  <2> QED
    BY <2>1, <2>2
<1>2. \A i \in 1..Len(servers) : servers[i] \in Server
  BY <1>1, ElementOfSeq
<1> QED
  BY <1>1, <1>2

\* The server of an attempt is one of the list, and the next in the rotation.
LEMMA ServerFacts ==
  ASSUME attempt \in Nat
  PROVE  /\ server \in Server
         /\ Rotated(attempt) \cup {server} = Rotated(attempt + 1)
         /\ Rotated(0) = {}
<1>1. /\ Len(servers) \in Nat \ {0}
      /\ attempt % Len(servers) \in 0..Len(servers) - 1
      /\ attempt < Len(servers) => attempt % Len(servers) = attempt
      /\ \A i \in 1..Len(servers) : servers[i] \in Server
  <2> DEFINE L == Len(servers)
  <2>1. L \in Nat \ {0} /\ \A i \in 1..L : servers[i] \in Server
    BY ServersFacts
  <2> HIDE DEF L
  <2>2. attempt % L \in 0..L - 1 /\ (attempt < L => attempt % L = attempt)
    BY <2>1
  <2> QED
    BY <2>1, <2>2 DEF L
<1>2. server = servers[(attempt % Len(servers)) + 1] /\ (attempt % Len(servers)) + 1 \in 1..Len(servers)
  BY <1>1 DEF server
<1>3. CASE attempt < Len(servers)
  <2>1. server = servers[attempt + 1]
    BY <1>1, <1>2, <1>3
  <2>2. Rotated(attempt) = {servers[i] : i \in 1..attempt}
    BY <1>1, <1>3 DEF Rotated
  <2>3. Rotated(attempt + 1) = {servers[i] : i \in 1..attempt + 1}
    BY <1>1, <1>3 DEF Rotated
  <2>4. 1..attempt + 1 = (1..attempt) \cup {attempt + 1}
    OBVIOUS
  <2>5. Rotated(attempt) \cup {server} = Rotated(attempt + 1)
    BY <2>1, <2>2, <2>3, <2>4
  <2> QED
    BY <1>1, <1>2, <2>5 DEF Rotated
<1>4. CASE attempt >= Len(servers)
  <2>1. Rotated(attempt) = {servers[i] : i \in 1..Len(servers)}
        /\ Rotated(attempt + 1) = {servers[i] : i \in 1..Len(servers)}
    BY <1>1, <1>4 DEF Rotated
  <2> QED
    BY <1>1, <1>2, <2>1 DEF Rotated
<1> QED
  BY <1>1, <1>3, <1>4

\* The pool after n tokens is that after n - 1 with one more set.
LEMMA SeededFacts ==
  ASSUME Len(tokens) \in Nat
  PROVE  /\ Seeded[0] = NoTokens
         /\ \A n \in 1..Len(tokens) :
              Seeded[n] = SetToken(Seeded[n - 1], tokens[n].depot, tokens[n].host, tokens[n].expiry)
<1> DEFINE L == Len(tokens)
           Step(f, n) == IF n = 0 THEN NoTokens
                         ELSE SetToken(f[n - 1], tokens[n].depot, tokens[n].host, tokens[n].expiry)
           Made(f, m) == f = [n \in 0..m |-> Step(f, n)]
           T == {m \in 0..L : \E f : Made(f, m)}
<1>1. 0 \in T
  <2>1. Made([n \in 0..0 |-> NoTokens], 0)
    OBVIOUS
  <2>2. \E f : Made(f, 0)
    BY <2>1
  <2> QED
    BY <2>2
<1>2. ASSUME NEW m \in T, m < L PROVE m + 1 \in T
  <2>1. PICK f : Made(f, m)
    OBVIOUS
  <2> DEFINE g == [n \in 0..m + 1 |-> IF n = m + 1 THEN Step(f, m + 1) ELSE f[n]]
  <2>2. \A n \in 0..m + 1 : g[n] = Step(g, n)
    <3>1. SUFFICES ASSUME NEW n \in 0..m + 1 PROVE g[n] = Step(g, n)
      OBVIOUS
    <3>2. n # 0 => n - 1 \in 0..m /\ g[n - 1] = f[n - 1]
      OBVIOUS
    <3>3. Step(g, n) = Step(f, n)
      BY <3>2
    <3>4. n # m + 1 => f[n] = Step(f, n)
      <4>1. SUFFICES ASSUME n # m + 1 PROVE f[n] = Step(f, n)
        OBVIOUS
      <4>2. n \in 0..m
        BY <4>1
      <4> HIDE DEF Step
      <4> QED
        BY <2>1, <4>2
    <3> HIDE DEF Step
    <3> QED
      BY <3>3, <3>4
  <2>3. Made(g, m + 1)
    <3> HIDE DEF Step
    <3>1. g = [n \in 0..m + 1 |-> g[n]]
      OBVIOUS
    <3> HIDE DEF g
    <3> QED
      BY <2>2, <3>1
  <2>4. m + 1 \in 0..L
    BY <1>2
  <2> QED
    BY <2>3, <2>4
<1>3. T = 0..L
  <2> HIDE DEF T
  <2>1. T \in SUBSET (0..L)
    BY DEF T
  <2> QED
    BY <1>1, <1>2, <2>1, PrefixInduction
<1>4. \E f : Made(f, L)
  BY <1>3
<1>5. Made(Seeded, L)
  BY <1>4 DEF Seeded
<1>6. \A n \in 0..L : Seeded[n] = Step(Seeded, n)
  <2> HIDE DEF Step
  <2> QED
    BY <1>5
<1> QED
  BY <1>6

\* Seeding the pool with tokens of different depots keeps every one of them.
LEMMA SeededHolds ==
  ASSUME TypeOK, TokensInv
  PROVE  HoldsTokens(Seeded[Len(tokens)], Len(tokens))
<1>1. Len(tokens) \in Nat
  BY DEF TypeOK
<1> DEFINE L == Len(tokens)
           T == {m \in 0..L : HoldsTokens(Seeded[m], m)}
<1>2. 0 \in T
  BY <1>1, SeededFacts DEF HoldsTokens, NoTokens
<1>3. ASSUME NEW m \in T, m < L PROVE m + 1 \in T
  <2>1. m + 1 \in 1..L /\ (m + 1) - 1 = m /\ HoldsTokens(Seeded[m], m)
    BY <1>1, <1>3
  <2>2. Seeded[m + 1] = SetToken(Seeded[m], tokens[m + 1].depot, tokens[m + 1].host,
                                 tokens[m + 1].expiry)
    BY <1>1, <2>1, SeededFacts
  <2>3. \A i \in 1..m : Key(i) # Key(m + 1)
    <3>1. ASSUME NEW i \in 1..m PROVE tokens[i].depot < tokens[m + 1].depot
                                     /\ tokens[i].depot \in 1..(depot - 1)
      BY <1>1, <2>1 DEF TokensInv, Served
    <3>2. depot \in Int
      BY DEF TypeOK
    <3> QED
      BY <3>1, <3>2 DEF Key
  <2>4. DOMAIN Seeded[m + 1] = DOMAIN Seeded[m] \cup {Key(m + 1)}
        /\ Seeded[m + 1][Key(m + 1)] = tokens[m + 1].expiry
        /\ \A k \in DOMAIN Seeded[m] \ {Key(m + 1)} : Seeded[m + 1][k] = Seeded[m][k]
    <3> DEFINE t == tokens[m + 1]
               c == Seeded[m]
    <3>1. Seeded[m + 1] = SetToken(c, t.depot, t.host, t.expiry)
      BY <2>2
    <3> HIDE DEF T, L, c, t
    <3>2. /\ DOMAIN Seeded[m + 1] = DOMAIN c \cup {<<t.depot, t.host>>}
          /\ Seeded[m + 1][<<t.depot, t.host>>] = t.expiry
          /\ \A k \in DOMAIN c \ {<<t.depot, t.host>>} : Seeded[m + 1][k] = c[k]
      BY <3>1 DEF SetToken
    <3> QED
      BY <3>2 DEF Key, c, t
  <2>5. \A i \in 1..m : Key(i) \in DOMAIN Seeded[m] \ {Key(m + 1)}
    BY <2>1, <2>3 DEF HoldsTokens
  <2>6. 1..m + 1 = 1..m \cup {m + 1}
    BY <1>1
  <2> HIDE DEF T
  <2>7. HoldsTokens(Seeded[m + 1], m + 1)
    <3>1. DOMAIN Seeded[m + 1] = {Key(i) : i \in 1..m + 1}
      BY <2>1, <2>4, <2>6 DEF HoldsTokens
    <3>2. \A i \in 1..m : Seeded[m + 1][Key(i)] = tokens[i].expiry
      BY <2>1, <2>4, <2>5 DEF HoldsTokens
    <3>3. \A i \in 1..m + 1 : Seeded[m + 1][Key(i)] = tokens[i].expiry
      BY <2>4, <2>6, <3>2
    <3> QED
      BY <3>1, <3>3 DEF HoldsTokens
  <2> QED
    BY <2>1, <2>7, <1>1 DEF T
<1>4. T = 0..L
  <2> HIDE DEF T
  <2>1. T \in SUBSET (0..L)
    BY DEF T
  <2> QED
    BY <1>1, <1>2, <1>3, <2>1, PrefixInduction
<1> QED
  BY <1>1, <1>4

\* A failed attempt is followed by the next, or by the end over its error.
LEMMA NextAttemptFacts ==
  ASSUME TypeOK, NEW error \in Errors \ {"none"}, NextAttempt(error)
  PROVE  /\ last_err' = error /\ UNCHANGED <<depot, manifests, source>>
         /\ attempt' \in 0..MANIFEST_RETRIES
         /\ \/ pc' = "get" /\ attempt' = attempt + 1 /\ attempt' \in 0..MANIFEST_RETRIES
            \/ pc' = "err" /\ attempt' = attempt /\ attempt = MANIFEST_RETRIES
BY FetchAssumption DEF NextAttempt, AfterLoop, TypeOK

\* A manifest completes its depot, and the next one is due.
LEMMA GotFacts ==
  ASSUME FetchIInv, pc \in {"get", "get_with_token"}, NEW with \in Expiries \cup {0},
         GotManifest(with)
  PROVE  /\ depot \in Depot /\ depot' = depot + 1 /\ manifests' = 1..depot
         /\ source' = [source EXCEPT ![depot] = [server |-> server, token |-> with]]
         /\ [server |-> server, token |-> with] \in [server : Server \cup {0}, token : Expiries \cup {0}]
         /\ last_err' = "none" /\ attempt' = attempt
         /\ \/ pc' = "ok" /\ depot = NDepots
            \/ pc' = "code" /\ depot < NDepots
         /\ depot' \in 1..(NDepots + 1) /\ manifests' \subseteq Depot
         /\ source' \in [Depot -> [server : Server \cup {0}, token : Expiries \cup {0}]]
<1>1. depot \in 1..NDepots /\ NDepots \in Nat /\ manifests = 1..(depot - 1)
  BY FetchAssumption DEF FetchIInv, TypeOK, PlaceInv
<1>2. attempt \in Nat
  BY FetchAssumption DEF FetchIInv, TypeOK
<1>3. server \in Server
  BY <1>2, ServerFacts
<1>4. 1..depot = 1..(depot - 1) \cup {depot}
  BY <1>1
<1>5. [server |-> server, token |-> with] \in [server : Server \cup {0}, token : Expiries \cup {0}]
  BY <1>3
<1>6. /\ depot' = depot + 1 /\ manifests' = 1..depot
      /\ source' = [source EXCEPT ![depot] = [server |-> server, token |-> with]]
      /\ last_err' = "none" /\ attempt' = attempt
      /\ \/ pc' = "ok" /\ depot = NDepots
         \/ pc' = "code" /\ depot < NDepots
  BY <1>1, <1>4 DEF GotManifest, LoopAt
<1>7. depot' \in 1..(NDepots + 1) /\ manifests' \subseteq Depot
  BY <1>1, <1>6 DEF Depot
<1>8. source' \in [Depot -> [server : Server \cup {0}, token : Expiries \cup {0}]]
  BY <1>5, <1>6 DEF FetchIInv, TypeOK
<1> QED
  BY <1>1, <1>5, <1>6, <1>7, <1>8 DEF Depot

\* An attempt that failed has an error.
LEMMA FailedResult ==
  ASSUME NEW r \in Results, r # "ok"
  PROVE  r \in Errors \ {"none"}
BY DEF Results, Statuses, Errors

-----------------------------------------------------------------------------
(* The steps *)

\* The types are kept by every step.
LEMMA TypeStep ==
  FetchIInv /\ [Next]_vars => TypeOK'
<1> SUFFICES ASSUME FetchIInv, [Next]_vars
             PROVE  TypeOK'
  OBVIOUS
<1>t. TypeOK /\ NDepots \in Nat /\ MANIFEST_RETRIES \in Nat /\ MaxTime \in Nat /\ Expiries \subseteq Nat
  BY FetchAssumption DEF FetchIInv
<1>s. asked \cup {server} \subseteq Server
  BY <1>t, ServerFacts DEF TypeOK
<1>1. CASE GetServers
  BY <1>1, <1>t DEF GetServers, LoopAt, past, TypeOK
<1>2. CASE GetCode
  BY <1>2, <1>t DEF GetCode, TypeOK, Errors
<1>3. CASE GetManifest
  <2>1. PICK r \in Results :
          /\ result' = r
          /\ \/ r = "ok" /\ GotManifest(0)
             \/ /\ Contains403(r)
                /\ pc' = "token"
                /\ UNCHANGED <<depot, attempt, last_err, manifests, source>>
             \/ r # "ok" /\ ~Contains403(r) /\ NextAttempt(r)
    BY <1>3 DEF GetManifest
  <2>2. pc = "get" /\ asked' = asked \cup {server} /\ UNCHANGED <<token, tokens, cache, now, chunk>>
    BY <1>3 DEF GetManifest
  <2>3. CASE GotManifest(0)
    <3>1. /\ pc' \in {"ok", "code"} /\ last_err' = "none" /\ attempt' = attempt
          /\ depot' \in 1..(NDepots + 1) /\ manifests' \subseteq Depot
          /\ source' \in [Depot -> [server : Server \cup {0}, token : Expiries \cup {0}]]
      BY <2>2, <2>3, GotFacts
    <3> QED
      BY <1>t, <1>s, <2>1, <2>2, <3>1 DEF TypeOK, Errors
  <2>4. CASE pc' = "token" /\ UNCHANGED <<depot, attempt, last_err, manifests, source>>
    BY <1>t, <1>s, <2>1, <2>2, <2>4 DEF TypeOK
  <2>5. CASE r # "ok" /\ NextAttempt(r)
    <3>1. /\ pc' \in {"get", "err"} /\ last_err' \in Errors /\ attempt' \in 0..MANIFEST_RETRIES
          /\ UNCHANGED <<depot, manifests, source>>
      BY <1>t, <2>1, <2>5, FailedResult, NextAttemptFacts
    <3> QED
      BY <1>t, <1>s, <2>1, <2>2, <3>1 DEF TypeOK
  <2> QED
    BY <2>1, <2>3, <2>4, <2>5
<1>4. CASE RequestToken
  <2>1. UNCHANGED <<tokens, cache, now, result, asked, chunk>>
    BY <1>4 DEF RequestToken
  <2>2. CASE /\ token' \in Expiries /\ pc' = "get_with_token"
             /\ UNCHANGED <<depot, attempt, last_err, manifests, source>>
    BY <1>t, <2>1, <2>2 DEF TypeOK
  <2>3. CASE NextAttempt("cm") /\ UNCHANGED token
    BY <1>t, <2>1, <2>3, NextAttemptFacts DEF TypeOK, Errors
  <2> QED
    BY <1>4, <2>2, <2>3 DEF RequestToken
<1>5. CASE GetWithToken
  <2>1. PICK r \in Results :
          /\ result' = r
          /\ \/ r = "ok" /\ GotManifest(token) /\ tokens' = Earned
             \/ r # "ok" /\ NextAttempt(r) /\ UNCHANGED tokens
    BY <1>5 DEF GetWithToken
  <2>2. pc = "get_with_token" /\ token \in Expiries /\ UNCHANGED <<token, cache, now, asked, chunk>>
    BY <1>5 DEF GetWithToken, FetchIInv, RotationInv
  <2>3. CASE GotManifest(token) /\ tokens' = Earned
    <3>1. depot \in Depot /\ server \in Server
      BY <1>t, <2>2, <2>3, GotFacts, ServerFacts DEF TypeOK
    <3>2. [depot |-> depot, host |-> HostOf[server], expiry |-> token]
            \in [depot : Depot, host : Host, expiry : Expiries]
      BY <2>2, <3>1, PoolAssumption DEF Server
    <3>3. tokens' \in Seq([depot : Depot, host : Host, expiry : Expiries])
      BY <1>t, <2>3, <3>2, AppendProperties DEF Earned, TypeOK
    <3> QED
      <4>1. /\ pc' \in {"ok", "code"} /\ last_err' = "none" /\ attempt' = attempt
            /\ depot' \in 1..(NDepots + 1) /\ manifests' \subseteq Depot
            /\ source' \in [Depot -> [server : Server \cup {0}, token : Expiries \cup {0}]]
        BY <2>2, <2>3, GotFacts
      <4> QED
        BY <1>t, <2>1, <2>2, <3>3, <4>1 DEF TypeOK, Errors
  <2>4. CASE r # "ok" /\ NextAttempt(r) /\ UNCHANGED tokens
    <3>1. /\ pc' \in {"get", "err"} /\ last_err' \in Errors /\ attempt' \in 0..MANIFEST_RETRIES
          /\ UNCHANGED <<depot, manifests, source>>
      BY <1>t, <2>1, <2>4, FailedResult, NextAttemptFacts
    <3> QED
      BY <1>t, <2>1, <2>2, <2>4, <3>1 DEF TypeOK
  <2> QED
    BY <2>1, <2>3, <2>4
<1>6. CASE SeedPool
  <2>1. DOMAIN Seeded[Len(tokens)] = {Key(i) : i \in 1..Len(tokens)}
    BY <1>t, SeededHolds DEF FetchIInv, HoldsTokens
  <2>2. \A i \in 1..Len(tokens) : Key(i) \in Depot \X Host
    <3>1. ASSUME NEW i \in 1..Len(tokens) PROVE tokens[i] \in [depot : Depot, host : Host, expiry : Expiries]
      BY <1>t, ElementOfSeq DEF TypeOK
    <3> QED
      BY <3>1 DEF Key
  <2>3. DOMAIN cache' \subseteq Depot \X Host
    BY <1>6, <2>1, <2>2 DEF SeedPool
  <2> QED
    BY <1>6, <1>t, <2>3 DEF SeedPool, past, TypeOK
<1>7. CASE RequestChunk
  <2>1. PICK d \in Depot, s \in Server :
          chunk' = [depot |-> d, server |-> s, token |-> Token(cache, d, HostOf[s], now), at |-> now]
    BY <1>7 DEF RequestChunk
  <2>2. pc = "chunks" /\ UNCHANGED <<fetch, cache, now, result, asked, source>>
    BY <1>7 DEF RequestChunk
  <2>3. Token(cache, d, HostOf[s], now) \in Expiries \cup {0}
    <3>1. ASSUME NEW i \in 1..Len(tokens) PROVE cache[Key(i)] \in Expiries
      <4>1. tokens[i] \in [depot : Depot, host : Host, expiry : Expiries]
        BY <1>t, ElementOfSeq DEF TypeOK
      <4> QED
        BY <2>2, <4>1 DEF FetchIInv, CacheInv, HoldsTokens
    <3>2. \A k \in DOMAIN cache : cache[k] \in Expiries
      BY <2>2, <3>1 DEF FetchIInv, CacheInv, HoldsTokens
    <3> QED
      BY <3>2 DEF Token
  <2>4. chunk' \in [depot : Depot \cup {0}, server : Server \cup {0}, token : Expiries \cup {0},
                   at : 0..MaxTime]
    BY <1>t, <2>1, <2>3 DEF TypeOK
  <2> QED
    BY <1>t, <2>2, <2>4 DEF fetch, TypeOK
<1>8. CASE TimePasses
  BY <1>8, <1>t DEF TimePasses, fetch, past, TypeOK
<1>9. CASE UNCHANGED vars
  BY <1>9, <1>t DEF vars, fetch, past, TypeOK
<1> QED
  BY <1>1, <1>2, <1>3, <1>4, <1>5, <1>6, <1>7, <1>8, <1>9 DEF Next, Fetch, Over

\* What a step does to the fetch: a depot is completed, an attempt fails, a
\* request leads to the next one, or the fetch is left alone.
LEMMA PlaceStep ==
  FetchIInv /\ [Next]_vars => PlaceInv'
<1> SUFFICES ASSUME FetchIInv, [Next]_vars
             PROVE  PlaceInv'
  OBVIOUS
<1>t. TypeOK /\ PlaceInv /\ NDepots \in Nat /\ depot \in Nat
  BY FetchAssumption DEF FetchIInv, TypeOK
<1>1. CASE GetServers
  BY <1>1, <1>t DEF GetServers, LoopAt, PlaceInv
<1>2. CASE GetCode \/ SeedPool
  BY <1>2, <1>t DEF GetCode, SeedPool, PlaceInv
<1>3. ASSUME NEW with \in Expiries \cup {0}, pc \in {"get", "get_with_token"}, GotManifest(with)
      PROVE  PlaceInv'
  <2>1. /\ depot' = depot + 1 /\ manifests' = 1..depot
        /\ \/ pc' = "ok" /\ depot = NDepots
           \/ pc' = "code" /\ depot < NDepots
    BY <1>3, GotFacts
  <2> QED
    BY <1>t, <2>1 DEF PlaceInv
<1>4. ASSUME NEW error \in Errors \ {"none"}, pc \in {"get", "token", "get_with_token"},
             NextAttempt(error)
      PROVE  PlaceInv'
  <2>1. pc' \in {"get", "err"} /\ UNCHANGED <<depot, manifests>>
    BY <1>t, <1>4, NextAttemptFacts
  <2> QED
    BY <1>t, <1>4, <2>1 DEF PlaceInv
<1>5. CASE GetManifest
  <2>1. PICK r \in Results :
          \/ r = "ok" /\ GotManifest(0)
          \/ /\ pc' = "token"
             /\ UNCHANGED <<depot, manifests>>
          \/ r # "ok" /\ NextAttempt(r)
    BY <1>5 DEF GetManifest
  <2>2. pc = "get"
    BY <1>5 DEF GetManifest
  <2>3. CASE pc' = "token" /\ UNCHANGED <<depot, manifests>>
    BY <1>t, <2>2, <2>3 DEF PlaceInv
  <2> QED
    BY <1>3, <1>4, <2>1, <2>2, <2>3, FailedResult
<1>6. CASE RequestToken
  <2>1. CASE pc' = "get_with_token" /\ UNCHANGED <<depot, manifests>>
    BY <1>6, <1>t, <2>1 DEF RequestToken, PlaceInv
  <2>2. CASE NextAttempt("cm")
    BY <1>4, <1>6, <2>2 DEF RequestToken, Errors
  <2> QED
    BY <1>6, <2>1, <2>2 DEF RequestToken
<1>7. CASE GetWithToken
  <2>1. pc = "get_with_token" /\ token \in Expiries
    BY <1>7 DEF GetWithToken, FetchIInv, RotationInv
  <2>2. PICK r \in Results :
          \/ r = "ok" /\ GotManifest(token)
          \/ r # "ok" /\ NextAttempt(r)
    BY <1>7 DEF GetWithToken
  <2> QED
    BY <1>3, <1>4, <2>1, <2>2, FailedResult
<1>8. CASE RequestChunk \/ TimePasses \/ UNCHANGED vars
  BY <1>8, <1>t DEF RequestChunk, TimePasses, vars, fetch, PlaceInv
<1> QED
  BY <1>1, <1>2, <1>5, <1>6, <1>7, <1>8 DEF Next, Fetch, Over

\* The rotation goes on by one server per attempt.
LEMMA RotationStep ==
  FetchIInv /\ [Next]_vars => RotationInv'
<1> SUFFICES ASSUME FetchIInv, [Next]_vars
             PROVE  RotationInv'
  OBVIOUS
<1>t. TypeOK /\ PlaceInv /\ RotationInv /\ attempt \in Nat
  BY FetchAssumption DEF FetchIInv, TypeOK
<1>r. Rotated(attempt) \cup {server} = Rotated(attempt + 1) /\ Rotated(0) = {}
  BY <1>t, ServerFacts
<1>p. \A k : Rotated(k)' = Rotated(k)
  BY DEF Rotated, servers
<1>4. ASSUME NEW error \in Errors \ {"none"}, NextAttempt(error),
             asked' = Rotated(attempt + 1), error = "cm" \/ result' = error
      PROVE  RotationInv'
  <2>1. /\ last_err' = error
        /\ \/ pc' = "get" /\ attempt' = attempt + 1
           \/ pc' = "err" /\ attempt' = attempt /\ attempt = MANIFEST_RETRIES
    BY <1>t, <1>4, NextAttemptFacts
  <2> QED
    BY <1>4, <2>1 DEF RotationInv, Rotated, servers
<1>1. CASE GetServers \/ SeedPool
  BY <1>1, <1>t DEF GetServers, LoopAt, SeedPool, RotationInv, PlaceInv
<1>2. CASE GetCode
  <2>1. \/ pc' = "get" /\ attempt' = 0 /\ asked' = {}
        \/ pc' = "err" /\ last_err' = "cm"
    BY <1>2 DEF GetCode
  <2> QED
    BY <1>r, <2>1 DEF RotationInv, Rotated, servers
<1>3. ASSUME NEW with \in Expiries \cup {0}, pc \in {"get", "get_with_token"}, GotManifest(with)
      PROVE  RotationInv'
  <2>1. pc' \in {"ok", "code"}
    BY <1>3, GotFacts
  <2> QED
    BY <2>1 DEF RotationInv
<1>5. CASE GetManifest
  <2>1. PICK r \in Results :
          /\ result' = r
          /\ \/ r = "ok" /\ GotManifest(0)
             \/ pc' = "token" /\ attempt' = attempt
             \/ r # "ok" /\ NextAttempt(r)
    BY <1>5 DEF GetManifest
  <2>2. pc = "get" /\ asked' = Rotated(attempt + 1)
    BY <1>5, <1>t, <1>r DEF GetManifest, RotationInv
  <2>3. CASE pc' = "token" /\ attempt' = attempt
    BY <2>2, <2>3 DEF RotationInv, Rotated, servers
  <2>4. CASE r = "ok" /\ GotManifest(0)
    BY <1>3, <2>2, <2>4
  <2>5. CASE r # "ok" /\ NextAttempt(r)
    BY <1>4, <2>1, <2>2, <2>5, FailedResult
  <2> QED
    BY <2>1, <2>3, <2>4, <2>5
<1>6. CASE RequestToken
  <2>1. asked = Rotated(attempt + 1) /\ asked' = asked
    BY <1>6, <1>t DEF RequestToken, RotationInv
  <2>2. CASE token' \in Expiries /\ pc' = "get_with_token" /\ attempt' = attempt
    BY <2>1, <2>2 DEF RotationInv, Rotated, servers
  <2>3. CASE NextAttempt("cm")
    BY <1>4, <2>1, <2>3 DEF Errors
  <2> QED
    BY <1>6, <2>2, <2>3 DEF RequestToken
<1>7. CASE GetWithToken
  <2>1. pc = "get_with_token" /\ token \in Expiries /\ asked' = Rotated(attempt + 1)
    BY <1>7, <1>t DEF GetWithToken, RotationInv
  <2>2. PICK r \in Results :
          /\ result' = r
          /\ \/ r = "ok" /\ GotManifest(token)
             \/ r # "ok" /\ NextAttempt(r)
    BY <1>7 DEF GetWithToken
  <2>3. CASE r = "ok" /\ GotManifest(token)
    BY <1>3, <2>1, <2>3
  <2>4. CASE r # "ok" /\ NextAttempt(r)
    BY <1>4, <2>1, <2>2, <2>4, FailedResult
  <2> QED
    BY <2>2, <2>3, <2>4
<1>8. CASE RequestChunk \/ TimePasses \/ UNCHANGED vars
  <2>1. UNCHANGED <<pc, attempt, asked, token, last_err, result>>
    BY <1>8 DEF RequestChunk, TimePasses, vars, fetch, past
  <2> QED
    BY <1>t, <2>1 DEF RotationInv, Rotated, servers
<1> QED
  BY <1>1, <1>2, <1>5, <1>6, <1>7, <1>8 DEF Next, Fetch, Over

\* A token is kept with the manifest it served, for the depot that is done then.
LEMMA TokensStep ==
  FetchIInv /\ [Next]_vars => TokensInv'
<1> SUFFICES ASSUME FetchIInv, [Next]_vars
             PROVE  TokensInv'
  OBVIOUS
<1>t. TypeOK /\ TokensInv /\ Len(tokens) \in Nat /\ depot \in Nat
  BY DEF FetchIInv, TypeOK
\* A manifest arrives, and no token is kept.
<1>1. ASSUME NEW with \in Expiries \cup {0}, pc \in {"get", "get_with_token"}, GotManifest(with)
      PROVE  \A i \in 1..Len(tokens) :
               /\ tokens[i].depot \in 1..(depot' - 1) /\ tokens[i].depot < depot
               /\ source'[tokens[i].depot].token = tokens[i].expiry
               /\ HostOf[source'[tokens[i].depot].server] = tokens[i].host
  <2>1. /\ depot' = depot + 1
        /\ source' = [source EXCEPT ![depot] = [server |-> server, token |-> with]]
    BY <1>1, GotFacts
  <2>2. ASSUME NEW i \in 1..Len(tokens)
        PROVE  tokens[i].depot \in 1..(depot - 1) /\ source'[tokens[i].depot] = source[tokens[i].depot]
    <3>1. tokens[i].depot \in 1..(depot - 1)
      BY <1>t DEF TokensInv, Served
    <3>2. tokens[i].depot # depot /\ tokens[i].depot \in Depot
      <4>1. depot \in 1..(NDepots + 1) /\ NDepots \in Nat
        BY <1>t, FetchAssumption DEF TypeOK
      <4> QED
        BY <3>1, <4>1 DEF Depot
    <3> QED
      BY <1>t, <2>1, <3>1, <3>2 DEF TypeOK
  <2> QED
    BY <1>t, <2>1, <2>2 DEF TokensInv, Served
<1>2. CASE GetManifest
  <2>1. tokens' = tokens /\ pc = "get"
    BY <1>2 DEF GetManifest
  <2>2. CASE GotManifest(0)
    BY <1>t, <1>1, <2>1, <2>2 DEF TokensInv, Served
  <2>3. CASE UNCHANGED <<depot, source>>
    BY <1>t, <2>1, <2>3 DEF TokensInv, Served
  <2>4. ASSUME NEW r \in Results, r # "ok", NextAttempt(r) PROVE UNCHANGED <<depot, source>>
    BY <1>t, <2>4, FailedResult, NextAttemptFacts
  <2> QED
    BY <1>2, <2>2, <2>3, <2>4 DEF GetManifest
<1>3. CASE RequestToken
  <2>1. UNCHANGED <<tokens, depot, source>>
    <3>1. NextAttempt("cm") => UNCHANGED <<depot, source>>
      BY <1>t, NextAttemptFacts DEF Errors
    <3> QED
      BY <1>3, <3>1 DEF RequestToken
  <2> QED
    BY <1>t, <2>1 DEF TokensInv, Served
<1>4. CASE GetWithToken
  <2>1. pc = "get_with_token" /\ token \in Expiries
    BY <1>4 DEF GetWithToken, FetchIInv, RotationInv
  <2>2. CASE GotManifest(token) /\ tokens' = Earned
    <3>1. /\ depot \in Depot /\ depot' = depot + 1
          /\ source' = [source EXCEPT ![depot] = [server |-> server, token |-> token]]
          /\ server \in Server
      BY <1>t, <2>1, <2>2, GotFacts, ServerFacts DEF TypeOK
    <3>2. [depot |-> depot, host |-> HostOf[server], expiry |-> token]
            \in [depot : Depot, host : Host, expiry : Expiries]
      BY <2>1, <3>1, PoolAssumption DEF Server
    <3>3. /\ Len(tokens') = Len(tokens) + 1
          /\ \A i \in 1..Len(tokens) : tokens'[i] = tokens[i]
          /\ tokens'[Len(tokens')] = [depot |-> depot, host |-> HostOf[server], expiry |-> token]
      BY <1>t, <2>2, <3>2, AppendProperties DEF Earned, TypeOK
    <3>4. source'[depot] = [server |-> server, token |-> token]
      BY <1>t, <3>1 DEF TypeOK
    <3>5. ASSUME NEW i, i = Len(tokens) + 1 PROVE Served(i)'
      <4>1. depot \in 1..(depot' - 1)
        BY <3>1 DEF Depot
      <4> QED
        BY <1>t, <3>3, <3>4, <3>5, <4>1 DEF Served
    <3>6. \A i \in 1..Len(tokens) : Served(i)' /\ tokens'[i].depot < depot
      BY <1>1, <2>1, <2>2, <3>3 DEF Served
    <3>7. \A i \in 1..Len(tokens) : \A k \in i + 1..Len(tokens') : tokens'[i].depot < tokens'[k].depot
      <4>1. SUFFICES ASSUME NEW i \in 1..Len(tokens), NEW k \in i + 1..Len(tokens')
                     PROVE  tokens'[i].depot < tokens'[k].depot
        OBVIOUS
      <4>2. CASE k = Len(tokens')
        BY <3>3, <3>6, <4>2
      <4>3. CASE k \in i + 1..Len(tokens)
        BY <1>t, <3>3, <4>3 DEF TokensInv
      <4> QED
        BY <1>t, <3>3, <4>2, <4>3
    <3> QED
      BY <1>t, <3>3, <3>5, <3>6, <3>7 DEF TokensInv
  <2>3. CASE UNCHANGED <<tokens, depot, source>>
    BY <1>t, <2>3 DEF TokensInv, Served
  <2>4. ASSUME NEW r \in Results, r # "ok", NextAttempt(r) PROVE UNCHANGED <<depot, source>>
    BY <1>t, <2>4, FailedResult, NextAttemptFacts
  <2> QED
    BY <1>4, <2>2, <2>3, <2>4 DEF GetWithToken
<1>5. CASE GetServers \/ GetCode \/ SeedPool \/ RequestChunk \/ TimePasses \/ UNCHANGED vars
  <2>1. UNCHANGED <<tokens, depot, source>>
    BY <1>5 DEF GetServers, GetCode, SeedPool, RequestChunk, TimePasses, vars, fetch, past
  <2> QED
    BY <1>t, <2>1 DEF TokensInv, Served
<1> QED
  BY <1>2, <1>3, <1>4, <1>5 DEF Next, Fetch, Over

\* A chunk request takes its token from the pool as the fetch seeded it.
LEMMA CacheStep ==
  FetchIInv /\ [Next]_vars => CacheInv'
<1> SUFFICES ASSUME FetchIInv, [Next]_vars
             PROVE  CacheInv'
  OBVIOUS
<1>t. TypeOK /\ PlaceInv /\ TokensInv /\ CacheInv
  BY DEF FetchIInv
<1>1. CASE SeedPool
  <2>1. HoldsTokens(Seeded[Len(tokens)], Len(tokens))
    BY <1>t, SeededHolds
  <2>2. UNCHANGED <<tokens, chunk>> /\ cache' = Seeded[Len(tokens)] /\ pc = "ok" /\ pc' = "chunks"
    BY <1>1 DEF SeedPool, past
  <2>3. HoldsTokens(cache, Len(tokens))'
    BY <2>1, <2>2 DEF HoldsTokens, Key
  <2> QED
    BY <1>t, <2>2, <2>3 DEF CacheInv
<1>2. CASE RequestChunk
  <2>1. PICK d \in Depot, s \in Server :
          chunk' = [depot |-> d, server |-> s, token |-> Token(cache, d, HostOf[s], now), at |-> now]
    BY <1>2 DEF RequestChunk
  <2>2. UNCHANGED <<pc, cache, tokens>> /\ pc = "chunks"
    BY <1>2 DEF RequestChunk, fetch
  <2>3. HoldsTokens(cache, Len(tokens))'
    BY <1>t, <2>2 DEF CacheInv, HoldsTokens, Key
  <2>4. Token(cache', chunk'.depot, HostOf[chunk'.server], chunk'.at) = chunk'.token
    BY <2>1, <2>2
  <2> QED
    BY <2>1, <2>2, <2>3, <2>4 DEF CacheInv
<1>3. CASE UNCHANGED <<pc, tokens, cache, chunk>>
  <2>1. HoldsTokens(cache, Len(tokens))' <=> HoldsTokens(cache, Len(tokens))
    BY <1>3 DEF HoldsTokens, Key
  <2>2. Token(cache, chunk.depot, HostOf[chunk.server], chunk.at)'
          = Token(cache, chunk.depot, HostOf[chunk.server], chunk.at)
    BY <1>3 DEF Token
  <2> QED
    BY <1>3, <1>t, <2>1, <2>2 DEF CacheInv
\* Before the chunks the pool is empty and no chunk has been requested.
<1>4. ASSUME pc # "chunks", pc' # "chunks", UNCHANGED <<cache, chunk>>
      PROVE  CacheInv'
  BY <1>4, <1>t DEF CacheInv
<1>5. CASE GetServers \/ GetCode
  BY <1>4, <1>5 DEF GetServers, GetCode, LoopAt, past
<1>6. CASE GetManifest \/ RequestToken \/ GetWithToken
  <2>1. UNCHANGED <<cache, chunk>> /\ pc \in {"get", "token", "get_with_token"}
    BY <1>6 DEF GetManifest, RequestToken, GetWithToken
  <2>2. ASSUME NEW error, NextAttempt(error) PROVE pc' # "chunks"
    BY <2>2 DEF NextAttempt, AfterLoop, LoopAt
  <2>3. ASSUME NEW with, GotManifest(with) PROVE pc' # "chunks"
    BY <2>3 DEF GotManifest, LoopAt
  <2>4. pc' # "chunks"
    BY <1>6, <2>2, <2>3 DEF GetManifest, RequestToken, GetWithToken
  <2> QED
    BY <1>4, <2>1, <2>4
<1>7. CASE TimePasses \/ UNCHANGED vars
  BY <1>3, <1>7 DEF TimePasses, vars, fetch, past
<1> QED
  BY <1>1, <1>2, <1>5, <1>6, <1>7 DEF Next, Fetch, Over

-----------------------------------------------------------------------------
(* The invariant and what follows from it *)

\* The fetch starts with nothing fetched, kept or asked.
LEMMA FetchInit ==
  Init => FetchIInv
<1> SUFFICES ASSUME Init
             PROVE  FetchIInv
  OBVIOUS
<1>1. TypeOK
  <2>1. /\ source \in [Depot -> [server : Server \cup {0}, token : Expiries \cup {0}]]
        /\ chunk \in [depot : Depot \cup {0}, server : Server \cup {0},
                      token : Expiries \cup {0}, at : 0..MaxTime]
    BY FetchAssumption DEF Init
  <2>2. tokens \in Seq([depot : Depot, host : Host, expiry : Expiries])
    BY DEF Init
  <2>3. DOMAIN cache \subseteq Depot \X Host
    BY DEF Init, NoTokens
  <2> QED
    BY <2>1, <2>2, <2>3, FetchAssumption DEF Init, TypeOK, Errors
<1>2. PlaceInv
  BY DEF Init, PlaceInv
<1>3. TokensInv
  <2>1. Len(tokens) = 0
    BY DEF Init
  <2> QED
    BY <2>1 DEF TokensInv
<1> QED
  BY <1>1, <1>2, <1>3 DEF Init, FetchIInv, RotationInv, CacheInv, NoTokens

\* The invariant holds in every reachable state: of the loops of
\* fetch_manifests, and of the pool that is seeded from what they kept.
THEOREM FetchInvariance == Spec => []FetchIInv
<1>1. FetchIInv /\ [Next]_vars => FetchIInv'
  BY TypeStep, PlaceStep, RotationStep, TokensStep, CacheStep DEF FetchIInv
<1> QED
  BY FetchInit, <1>1, PTL DEF Spec

\* What fetch_manifests returns is what happened: Ok with every manifest, or
\* the error of the last attempt after the whole rotation.
THEOREM FetchHolds == Spec => []FetchInv
<1>1. FetchIInv => FetchInv
  <2> SUFFICES ASSUME FetchIInv
               PROVE  FetchInv
    OBVIOUS
  <2>1. OkIsComplete
    BY FetchAssumption DEF FetchIInv, TypeOK, PlaceInv, OkIsComplete, Depot
  <2>2. ErrorIsOfLastAttempt
    BY DEF FetchIInv, RotationInv, ErrorIsOfLastAttempt
  <2>3. RotationCovered
    <3>1. SUFFICES ASSUME pc = "err" /\ last_err \notin {"none", "cm"}
                   PROVE  asked = {servers[i] : i \in 1..(IF Len(servers) <= MANIFEST_RETRIES
                                                          THEN Len(servers)
                                                          ELSE MANIFEST_RETRIES + 1)}
      BY DEF RotationCovered
    <3>2. asked = Rotated(MANIFEST_RETRIES + 1)
      BY <3>1 DEF FetchIInv, RotationInv
    <3>3. Len(servers) \in Nat /\ MANIFEST_RETRIES \in Nat
      BY ServersFacts, FetchAssumption
    <3>4. (IF Len(servers) <= MANIFEST_RETRIES THEN Len(servers) ELSE MANIFEST_RETRIES + 1)
            = (IF Len(servers) <= MANIFEST_RETRIES + 1 THEN Len(servers) ELSE MANIFEST_RETRIES + 1)
      BY <3>3
    <3> QED
      BY <3>2, <3>4 DEF Rotated
  <2> QED
    BY <2>1, <2>2, <2>3 DEF FetchIInv, FetchInv
<1> QED
  BY FetchInvariance, <1>1, PTL

\* Every token that is kept has served: the manifest of its depot came from
\* its host with it.
THEOREM KeptTokensServed == Spec => []TokensServed
<1>1. FetchIInv => TokensServed
  <2>1. FetchIInv => DOMAIN tokens = 1..Len(tokens)
    BY LenProperties DEF FetchIInv, TypeOK
  <2> QED
    BY <2>1 DEF FetchIInv, TokensInv, Served, TokensServed
<1> QED
  BY FetchInvariance, <1>1, PTL

\* A chunk request carries a token exactly if the fetch earned one for its
\* depot and host that is still valid, and then that one.
THEOREM ChunkTokens == Spec => []ChunkTokenIsOwn
<1>1. FetchIInv => ChunkTokenIsOwn
  <2> SUFFICES ASSUME FetchIInv, chunk.depot # 0
               PROVE  ChunkTokenIsOwn
    BY DEF ChunkTokenIsOwn
  <2> DEFINE key == <<chunk.depot, HostOf[chunk.server]>>
             own(i) == tokens[i].depot = chunk.depot /\ tokens[i].host = HostOf[chunk.server]
  <2>1. /\ HoldsTokens(cache, Len(tokens))
        /\ chunk.token = Token(cache, chunk.depot, HostOf[chunk.server], chunk.at)
    BY DEF FetchIInv, CacheInv
  <2>2. DOMAIN tokens = 1..Len(tokens) /\ chunk.at \in Nat
    BY LenProperties, FetchAssumption DEF FetchIInv, TypeOK
  <2>3. \A i \in DOMAIN tokens : Key(i) = key <=> own(i)
    BY DEF Key
  <2>4. \A i \in DOMAIN tokens : own(i) => key \in DOMAIN cache /\ cache[key] = tokens[i].expiry
    BY <2>1, <2>2, <2>3 DEF HoldsTokens
  <2>5. chunk.token # 0 => /\ key \in DOMAIN cache /\ cache[key] > chunk.at
                           /\ chunk.token = cache[key]
    BY <2>1 DEF Token
  <2>6. chunk.token # 0 => \E i \in DOMAIN tokens : own(i) /\ tokens[i].expiry = chunk.token
    BY <2>1, <2>2, <2>3, <2>4, <2>5 DEF HoldsTokens
  <2>7. (\E i \in DOMAIN tokens : own(i) /\ tokens[i].expiry > chunk.at) => chunk.token # 0
    BY <2>1, <2>2, <2>4 DEF Token
  <2> QED
    BY <2>5, <2>6, <2>7 DEF ChunkTokenIsOwn
<1> QED
  BY FetchInvariance, <1>1, PTL

-----------------------------------------------------------------------------
(* prepare_download *)

\* What is resolved are the depots of the app asked for; what Steam has answered
\* for is what the cache holds; behind the licence call every app that a key is
\* asked under is licensed; and a depot in the plan has its key request.
PlanIInv ==
  /\ Plan!TypeOK
  /\ depots \subseteq Plan!resolve_depots(info[config.app], config.os, config.branch)
  /\ session.licensed = requested
  /\ phase = "license" => needed = Plan!Needed(depots)
  /\ phase \in {"keys", "codes"} /\ session.authenticated => Plan!LicenseApps(depots) \subseteq requested
  /\ Plan!KeysAfterLicence
  /\ phase \in {"info", "license"} => plans = {}
  /\ phase \in {"keys", "codes"} => \A d \in plans : Plan!Asked(d) \in keyed
  /\ phase = "codes" => plans = depots
  /\ phase \in {"license", "keys", "codes"} =>
       depots = Plan!resolve_depots(info[config.app], config.os, config.branch)

\* What resolve_depots returns, and under which apps its keys are asked for.
LEMMA Resolved ==
  ASSUME PlanIInv, NEW ds, ds \subseteq Plan!resolve_depots(info[config.app], config.os, config.branch)
  PROVE  /\ \A d \in ds : d.from \in App \cup {None}
         /\ Plan!LicenseApps(ds) \subseteq App
         /\ \A d \in ds : Plan!containing_app(d, config.app) \in Plan!LicenseApps(ds)
<1>1. info \in AppInfos /\ config.app \in App
  BY DEF PlanIInv, Plan!TypeOK
<1>2. ASSUME NEW d \in ds PROVE d.from \in App \cup {None}
  <2>1. PICK k \in DOMAIN info[config.app] :
          /\ info[config.app][k] # NotADepot
          /\ d.from = info[config.app][k].from
    BY <1>2 DEF Plan!resolve_depots, Plan!Offered
  <2> QED
    BY <1>1, <2>1, PlanAssumption DEF Plan!PrepareAssumption
<1>3. Plan!LicenseApps(ds) \subseteq App
  BY <1>1, <1>2 DEF Plan!LicenseApps
<1>4. \A d \in ds : Plan!containing_app(d, config.app) \in Plan!LicenseApps(ds)
  BY DEF Plan!LicenseApps, Plan!containing_app
<1> QED
  BY <1>2, <1>3, <1>4

\* depot.rs:53: a plan starts on a session without licences, with nothing asked.
LEMMA PlanStarts == Plan!Init => PlanIInv
<1> SUFFICES ASSUME Plan!Init PROVE PlanIInv
  OBVIOUS
<1>1. Plan!TypeOK
  BY PlanAssumption DEF Plan!PrepareAssumption, Plan!Init, Plan!Fresh, Plan!TypeOK
<1> QED
  BY <1>1 DEF Plan!Init, Plan!Fresh, Plan!KeysAfterLicence, PlanIInv

\* depot.rs: every step of prepare_download, a login and an error at any call
\* included, keeps it.
LEMMA PlanStep ==
  PlanIInv /\ [Plan!Next]_(Plan!vars) => PlanIInv'
<1> SUFFICES ASSUME PlanIInv, [Plan!Next]_(Plan!vars)
             PROVE  PlanIInv'
  OBVIOUS
<1>t. /\ Plan!TypeOK /\ Plan!KeysAfterLicence
      /\ depots \subseteq Plan!resolve_depots(info[config.app], config.os, config.branch)
      /\ session.licensed = requested
  BY DEF PlanIInv
<1>1. CASE Plan!Login
  <2>1. session' \in [authenticated : BOOLEAN, licensed : SUBSET App] /\ session'.licensed = {}
    BY <1>1 DEF Plan!Login, Plan!LoggedIn, Plan!Fresh
  <2>2. Plan!TypeOK'
    BY <1>t, <1>1, <2>1, PlanAssumption DEF Plan!PrepareAssumption, Plan!Login, Plan!local, Plan!TypeOK
  <2>3. keyed' = {} /\ requested' = {} /\ UNCHANGED <<info, phase, config, depots, needed, plans>> /\ phase = "idle"
    BY <1>1 DEF Plan!Login, Plan!local
  <2> QED
    BY <1>t, <2>1, <2>2, <2>3 DEF PlanIInv, Plan!KeysAfterLicence
<1>2. CASE Plan!Prepare
  BY <1>t, <1>2, PlanAssumption
     DEF Plan!PrepareAssumption, Plan!Prepare, Plan!TypeOK, PlanIInv, Plan!KeysAfterLicence
<1>3. CASE Plan!GotInfo
  <2>1. /\ depots' = Plan!resolve_depots(info[config.app], config.os, config.branch)
        /\ needed' = Plan!Needed(depots')
        /\ phase' = IF needed' # {} /\ session.authenticated THEN "license" ELSE "keys"
        /\ phase = "info" /\ UNCHANGED <<info, session, config, plans, calls, logins, requested, keyed>>
    BY <1>3 DEF Plan!GotInfo
  <2>2. /\ \A d \in depots' : d.from \in App \cup {None}
        /\ Plan!LicenseApps(depots') \subseteq App
    BY <2>1, Resolved
  <2>3. plans = {}
    BY <2>1 DEF PlanIInv
  <2>4. needed' \subseteq App /\ needed' = Plan!LicenseApps(depots') \ requested
    BY <1>t, <2>1, <2>2 DEF Plan!Needed
  <2>5. Plan!TypeOK'
    BY <1>t, <2>1, <2>2, <2>3, <2>4 DEF Plan!TypeOK
  <2>6. Plan!LicenseApps(depots)' = Plan!LicenseApps(depots') /\ Plan!Needed(depots)' = Plan!Needed(depots')
    BY <2>1 DEF Plan!LicenseApps, Plan!Needed
  <2> QED
    BY <1>t, <2>1, <2>3, <2>4, <2>5, <2>6 DEF PlanIInv, Plan!KeysAfterLicence
<1>4. CASE Plan!GotLicense
  <2>1. /\ phase = "license" /\ phase' = "keys"
        /\ requested' = requested \cup needed
        /\ session' = [session EXCEPT !.licensed = session.licensed \cup needed]
        /\ UNCHANGED <<info, config, depots, needed, plans, calls, logins, keyed>>
    BY <1>4 DEF Plan!GotLicense
  <2>2. plans = {} /\ needed = Plan!LicenseApps(depots) \ requested /\ needed \subseteq App
    BY <1>t, <2>1 DEF PlanIInv, Plan!Needed, Plan!TypeOK
  <2>3. /\ session' \in [authenticated : BOOLEAN, licensed : SUBSET App]
        /\ session'.licensed = requested' /\ session'.authenticated = session.authenticated
        /\ requested' \subseteq App
    BY <1>t, <2>1, <2>2 DEF Plan!TypeOK
  <2>4. Plan!TypeOK'
    BY <1>t, <2>1, <2>3 DEF Plan!TypeOK
  <2>5. Plan!LicenseApps(depots)' = Plan!LicenseApps(depots)
    BY <2>1 DEF Plan!LicenseApps
  <2>6. Plan!KeysAfterLicence'
    BY <1>t, <2>1, <2>3 DEF Plan!KeysAfterLicence
  <2> QED
    BY <1>t, <2>1, <2>2, <2>3, <2>4, <2>5, <2>6 DEF PlanIInv
<1>5. ASSUME NEW d \in depots, Plan!GotKey(d) PROVE PlanIInv'
  <2>1. /\ phase = "keys" /\ keyed' = keyed \cup {Plan!Asked(d)} /\ plans' = plans \cup {d}
        /\ phase' = IF plans' = depots THEN "codes" ELSE "keys"
        /\ UNCHANGED <<info, session, config, depots, needed, calls, logins, requested>>
    BY <1>5 DEF Plan!GotKey
  <2>2. Plan!Asked(d).app \in Plan!LicenseApps(depots) /\ Plan!LicenseApps(depots) \subseteq App
    BY <1>t, <1>5, Resolved DEF Plan!Asked
  <2>3. \A e \in plans \cup {d} : Plan!Asked(e) \in keyed \cup {Plan!Asked(d)}
    BY <2>1 DEF PlanIInv
  <2>4. session.authenticated => Plan!LicenseApps(depots) \subseteq requested
    BY <2>1 DEF PlanIInv
  <2>5. /\ \A e : Plan!Asked(e)' = Plan!Asked(e)
        /\ Plan!LicenseApps(depots)' = Plan!LicenseApps(depots)
    BY <2>1 DEF Plan!Asked, Plan!containing_app, Plan!LicenseApps
  <2>6. Plan!TypeOK'
    BY <1>t, <1>5, <2>1, <2>2 DEF Plan!TypeOK
  <2>7. Plan!KeysAfterLicence'
    BY <1>t, <2>1, <2>2, <2>4 DEF Plan!KeysAfterLicence
  <2> QED
    BY <1>t, <2>1, <2>3, <2>4, <2>5, <2>6, <2>7 DEF PlanIInv
<1>6. CASE Plan!NoDepots \/ Plan!End \/ \E d \in depots : Plan!RequestCode(d)
  <2>1. /\ UNCHANGED <<info, session, config, depots, needed, plans, calls, logins, requested, keyed>>
        /\ \/ phase' = "idle"
           \/ phase' = phase
           \/ phase = "keys" /\ depots = {} /\ phase' = "codes"
    BY <1>6 DEF Plan!NoDepots, Plan!End, Plan!RequestCode, Plan!local
  <2>2. /\ \A e : Plan!Asked(e)' = Plan!Asked(e)
        /\ Plan!LicenseApps(depots)' = Plan!LicenseApps(depots)
        /\ Plan!Needed(depots)' = Plan!Needed(depots)
    BY <2>1 DEF Plan!Asked, Plan!containing_app, Plan!LicenseApps, Plan!Needed
  <2>3. Plan!TypeOK' /\ Plan!KeysAfterLicence'
    BY <1>t, <2>1 DEF Plan!TypeOK, Plan!KeysAfterLicence
  <2>4. depots = {} => plans = {}
    BY <1>t DEF Plan!TypeOK
  <2> QED
    BY <1>t, <2>1, <2>2, <2>3, <2>4 DEF PlanIInv
<1>7. CASE Plan!Rest \/ UNCHANGED Plan!vars
  <2>1. UNCHANGED <<info, session, phase, config, depots, needed, plans, calls, logins, requested, keyed>>
    BY <1>7 DEF Plan!Rest, Plan!vars, Plan!local
  <2>2. /\ \A e : Plan!Asked(e)' = Plan!Asked(e)
        /\ Plan!LicenseApps(depots)' = Plan!LicenseApps(depots)
        /\ Plan!Needed(depots)' = Plan!Needed(depots)
    BY <2>1 DEF Plan!Asked, Plan!containing_app, Plan!LicenseApps, Plan!Needed
  <2>3. Plan!TypeOK' /\ Plan!KeysAfterLicence'
    BY <1>t, <2>1 DEF Plan!TypeOK, Plan!KeysAfterLicence
  <2> QED
    BY <1>t, <2>1, <2>2, <2>3 DEF PlanIInv
<1> QED
  BY <1>1, <1>2, <1>3, <1>4, <1>5, <1>6, <1>7 DEF Plan!Next

\* prepare_download: what each phase has settled when the next begins, whatever
\* fails and however often it is called.
THEOREM PlanInvariance == Plan!Spec => []PlanIInv
<1> QED
  BY PlanStarts, PlanStep, PTL DEF Plan!Spec

\* Licences: none is asked for twice in a session, the cache holds only what
\* was answered for, and every key is asked for under a licensed app, for all
\* infos, logins and calls that end anywhere.
THEOREM Licences == Plan!Spec => []LicenceInv
<1>1. PlanIInv => LicenceInv
  <2> SUFFICES ASSUME PlanIInv PROVE LicenceInv
    OBVIOUS
  <2>1. Plan!LicenceOnce /\ Plan!CacheHonest
    BY DEF PlanIInv, Plan!Needed, Plan!LicenceOnce, Plan!CacheHonest
  <2> QED
    BY <2>1 DEF PlanIInv, LicenceInv, Plan!LicenceInv
<1> QED
  BY PlanInvariance, <1>1, PTL

\* The plan: returned only whole, with every depot of the system and branch asked
\* for and no other, each key asked for under the app that has the depot.
THEOREM Plans == Plan!Spec => []PlanInv
<1>1. PlanIInv => PlanInv
  <2> SUFFICES ASSUME PlanIInv PROVE PlanInv
    OBVIOUS
  <2>1. Plan!PlanComplete
    BY DEF PlanIInv, Plan!PlanComplete, Plan!Asked, Plan!containing_app
  <2>2. Plan!PlanIsForTarget
    <3>1. SUFFICES ASSUME NEW d \in plans
                   PROVE  LET e == info[config.app][d.id]
                          IN /\ config.os \in e.oslist
                             /\ config.branch \in DOMAIN e.manifests => d.manifest = e.manifests[config.branch]
      BY DEF Plan!PlanIsForTarget
    <3>2. d \in Plan!resolve_depots(info[config.app], config.os, config.branch)
      BY <3>1 DEF PlanIInv, Plan!TypeOK
    <3>3. PICK k \in DOMAIN info[config.app] :
            /\ Plan!Offered(info[config.app][k], config.os, config.branch)
            /\ d.id = k /\ d.manifest = Plan!ManifestOf(info[config.app][k], config.branch)
      BY <3>2 DEF Plan!resolve_depots
    <3> QED
      BY <3>3 DEF Plan!Offered, Plan!ManifestOf
  <2>3. Plan!NoDepotLeftOut
    <3>1. SUFFICES ASSUME phase = "codes", NEW k \in DOMAIN info[config.app],
                          info[config.app][k] # NotADepot,
                          config.os \in info[config.app][k].oslist,
                          NEW b \in DOMAIN info[config.app][k].manifests,
                          Plan!Counts(info[config.app][k], b),
                          info[config.app][k].manifests[b] # Unreadable
                   PROVE  \E d \in plans : d.id = k /\ d.manifest = info[config.app][k].manifests[b]
      BY DEF Plan!NoDepotLeftOut
    <3>2. plans = Plan!resolve_depots(info[config.app], config.os, config.branch)
      BY <3>1 DEF PlanIInv
    <3>3. Plan!ManifestOf(info[config.app][k], config.branch) = info[config.app][k].manifests[b]
      BY <3>1 DEF Plan!Counts, Plan!ManifestOf
    <3>4. Plan!Offered(info[config.app][k], config.os, config.branch)
      BY <3>1, <3>3 DEF Plan!Offered
    <3>5. [id |-> k, manifest |-> Plan!ManifestOf(info[config.app][k], config.branch),
           from |-> info[config.app][k].from] \in plans
      BY <3>2, <3>4 DEF Plan!resolve_depots
    <3> QED
      BY <3>3, <3>5
  <2> QED
    BY <2>1, <2>2, <2>3 DEF PlanIInv, PlanInv, Plan!PlanInv
<1> QED
  BY PlanInvariance, <1>1, PTL

=============================================================================
