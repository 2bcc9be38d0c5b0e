--------------------------- MODULE PrepareDownload ---------------------------
(***************************************************************************)
(* prepare_download of steamdepot/src/depot.rs, with the licence cache and *)
(* the authenticated flag of the session, and the request codes that       *)
(* fetch_manifests asks for afterwards.  One session may see several       *)
(* calls, and the connection several logins.  A call of the CM succeeds or *)
(* fails (CmCalls), and the caller may drop prepare_download at any of     *)
(* them.  The session is set, as session_header demands.                   *)
(***************************************************************************)
EXTENDS DepotResolution, Naturals

CONSTANTS
  App,        \* app ids
  AppInfos,   \* the infos Steam may have for its apps: from app to entries
  OS,         \* systems asked for
  Branch,     \* branches asked for
  MaxCalls,   \* bound: calls of prepare_download
  MaxLogins   \* bound: further logins

\* A depotfromapp is the id of an app.
PrepareAssumption ==
  /\ None \notin App /\ MaxCalls \in Nat /\ MaxLogins \in Nat
  /\ \A i \in AppInfos, a \in App : \A e \in {i[a][k] : k \in DOMAIN i[a]} \ {NotADepot} :
       e.from \in App \cup {None}

VARIABLES
  info,       \* Steam's app info, fixed for a behaviour
  session,    \* authenticated and licensed_appids of the session
  pc,         \* the call it awaits
  config,     \* DownloadConfig
  depots,     \* the resolved depots
  needed,     \* apps of the licence request
  plans,      \* depots with a key: the DownloadPlan
  calls,      \* calls made
  logins,     \* logins made after the first
  \* what happened
  requested,  \* apps whose licence request Steam answered in this session
  keyed,      \* depot and app of each key request of this call
  code        \* the last request for a manifest code

local == <<pc, config, depots, needed, plans>>
vars == <<info, session, local, calls, logins, requested, keyed, code>>

TypeOK ==
  /\ info \in AppInfos
  /\ session \in [authenticated : BOOLEAN, licensed : SUBSET App]
  /\ pc \in {"idle", "info", "license", "keys", "codes"}
  /\ config \in [app : App, os : OS, branch : Branch]
  /\ \A d \in depots : d.from \in App \cup {None}
  /\ needed \subseteq App
  /\ plans \subseteq depots
  /\ calls \in 0..MaxCalls
  /\ logins \in 0..MaxLogins
  /\ requested \subseteq App
  /\ \A k \in keyed : k.app \in App

Fresh(authenticated) == [authenticated |-> authenticated, licensed |-> {}]

NoCode == [depot |-> None]

Init ==
  /\ info \in AppInfos
  /\ \E a \in BOOLEAN : session = Fresh(a)
  /\ pc = "idle"
  /\ config \in [app : App, os : OS, branch : Branch]
  /\ depots = {} /\ needed = {} /\ plans = {}
  /\ calls = 0 /\ logins = 0
  /\ requested = {} /\ keyed = {} /\ code = NoCode

\* Slip: the licence cache outlives a login.
CacheKept(authenticated) == [session EXCEPT !.authenticated = authenticated]

\* The session of a new login, which starts with an empty cache.
LoggedIn(authenticated) == Fresh(authenticated)

Login ==
  /\ pc = "idle"
  /\ logins < MaxLogins
  /\ logins' = logins + 1
  /\ \E a \in BOOLEAN : session' = LoggedIn(a)
  /\ requested' = {} /\ keyed' = {}
  /\ UNCHANGED <<info, local, calls, code>>

Prepare ==
  /\ pc = "idle"
  /\ calls < MaxCalls
  /\ calls' = calls + 1
  /\ config' \in [app : App, os : OS, branch : Branch]
  /\ pc' = "info"
  /\ depots' = {} /\ needed' = {} /\ plans' = {} /\ keyed' = {} /\ code' = NoCode
  /\ UNCHANGED <<info, session, logins, requested>>

\* The apps to license: the one asked for and those its depots come from.
LicenseApps(ds) == {config.app} \cup ({d.from : d \in ds} \ {None})

Needed(ds) == LicenseApps(ds) \ session.licensed

\* get_product_info answers, and the code goes on to the next call it awaits.
GotInfo ==
  /\ pc = "info"
  /\ depots' = resolve_depots(info[config.app], config.os, config.branch)
  /\ needed' = Needed(depots')
  /\ pc' = IF needed' # {} /\ session.authenticated THEN "license" ELSE "keys"
  /\ UNCHANGED <<info, session, config, plans, calls, logins, requested, keyed, code>>

\* request_free_license: only an answer without error puts the apps into the
\* cache, granted or not.
GotLicense ==
  /\ pc = "license"
  /\ pc' = "keys"
  /\ requested' = requested \cup needed
  /\ session' = [session EXCEPT !.licensed = @ \cup needed]
  /\ UNCHANGED <<info, config, depots, needed, plans, calls, logins, keyed, code>>

Asked(d) == [depot |-> d.id, app |-> containing_app(d, config.app)]

\* get_depot_decryption_key for the next depot.
GotKey(d) ==
  /\ pc = "keys" /\ d \in depots \ plans
  /\ keyed' = keyed \cup {Asked(d)}
  /\ plans' = plans \cup {d}
  /\ pc' = IF plans' = depots THEN "codes" ELSE "keys"
  /\ UNCHANGED <<info, session, config, depots, needed, calls, logins, requested, code>>

\* Slip: a key that is refused costs the plan its depot, where the code fails.
SkipRefused ==
  /\ pc = "keys"
  /\ IF depots = {} THEN depots' = {} ELSE \E d \in depots \ plans : depots' = depots \ {d}
  /\ pc' = IF plans = depots' THEN "codes" ELSE "keys"
  /\ UNCHANGED <<info, session, config, needed, plans, calls, logins, requested, keyed, code>>

NoDepots ==
  /\ pc = "keys" /\ depots = {}
  /\ pc' = "codes"
  /\ UNCHANGED <<info, session, config, depots, needed, plans, calls, logins, requested, keyed, code>>

\* get_manifest_request_code for an entry of the plan.
RequestCode(d) ==
  /\ pc = "codes" /\ d \in plans
  /\ code' = [depot |-> d.id, app |-> containing_app(d, config.app), manifest |-> d.manifest,
              branch |-> config.branch]
  /\ UNCHANGED <<info, session, local, calls, logins, requested, keyed>>

\* A call failed and its error is returned, the caller drops the call, or it
\* is done with the plan.
End ==
  /\ pc # "idle"
  /\ pc' = "idle"
  /\ UNCHANGED <<info, session, config, depots, needed, plans, calls, logins, requested, keyed, code>>

Rest == pc = "idle" /\ calls = MaxCalls /\ UNCHANGED vars

Next ==
  \/ Login \/ Prepare \/ GotInfo \/ GotLicense \/ NoDepots \/ End
  \/ \E d \in depots : GotKey(d) \/ RequestCode(d)
  \/ Rest

Spec == Init /\ [][Next]_vars

-----------------------------------------------------------------------------
(* Properties *)

\* Within a session no licence is asked for again that Steam has answered for,
\* through calls that fail or are dropped at any point.
LicenceOnce == pc = "license" => needed \cap requested = {}

\* The cache holds no app whose licence was not answered for in this session:
\* not after an error, not after a new login.
CacheHonest == session.licensed \subseteq requested

\* On an authenticated session a key is only asked for under an app whose
\* licence was answered for before, the apps that depots come from included.
KeysAfterLicence == session.authenticated => \A k \in keyed : k.app \in requested

\* A plan is returned only with the key of every depot that was resolved, each
\* asked for under the app that contains the depot.
PlanComplete ==
  pc = "codes" =>
    /\ plans = depots
    /\ \A d \in depots : [depot |-> d.id, app |-> IF d.from # None THEN d.from ELSE config.app] \in keyed

\* No depot of another system is in the plan, and where a depot has the branch
\* asked for, no manifest of another branch takes its place.
PlanIsForTarget ==
  \A d \in plans :
    LET e == info[config.app][d.id]
    IN /\ config.os \in e.oslist
       /\ config.branch \in DOMAIN e.manifests => d.manifest = e.manifests[config.branch]

\* The branch whose manifest counts: the one asked for, or the public one where
\* the entry does not have it.
Counts(e, b) == b = config.branch \/ (b = "public" /\ config.branch \notin DOMAIN e.manifests)

\* No depot is left out of a plan that is returned: whatever calls failed before,
\* every entry for the system with a manifest that counts and reads is in it,
\* with that manifest.
NoDepotLeftOut ==
  pc = "codes" =>
    \A k \in DOMAIN info[config.app] :
      LET e == info[config.app][k]
      IN e # NotADepot /\ config.os \in e.oslist =>
           \A b \in DOMAIN e.manifests :
             Counts(e, b) /\ e.manifests[b] # Unreadable =>
               \E d \in plans : d.id = k /\ d.manifest = e.manifests[b]

\* The licence cache and the key requests fit what Steam has answered for in
\* this session.
LicenceInv == LicenceOnce /\ CacheHonest /\ KeysAfterLicence

\* The plan is whole: every depot that is for the system and branch asked for,
\* and no other, each with its key.
PlanInv == TypeOK /\ PlanComplete /\ PlanIsForTarget /\ NoDepotLeftOut

=============================================================================
