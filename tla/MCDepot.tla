------------------------------- MODULE MCDepot -------------------------------
(***************************************************************************)
(* Small instances of the two halves of depot.rs.  prepare_download        *)
(* (PrepareDownload) hands a plan to fetch_manifests (ManifestFetch) and   *)
(* is over by then, so a behaviour runs one of them and leaves the other   *)
(* at its start: part says which.                                          *)
(*                                                                         *)
(* There are three servers, the second and third with the same host name;  *)
(* the first is not of a preferred type.  There are two apps, the first    *)
(* with up to two depots out of the entries below.                         *)
(***************************************************************************)
EXTENDS ManifestFetch

CONSTANTS
  h1, h2, a1, a2, m1, m2, None, NotADepot, Unreadable,
  App, AppInfos, OS, Branch, MaxCalls, MaxLogins

Hosts == <<h1, h2, h2>>
SecondAndThird == <<2, 3>>

VARIABLES part, phase, info, session, config, depots, needed, plans, calls, logins,
          requested, keyed, code

Entries == {
  NotADepot,
  [oslist |-> OS, manifests |-> [public |-> m1], from |-> None],
  [oslist |-> {"linux"}, manifests |-> [public |-> m1, beta |-> m2], from |-> a2],
  [oslist |-> {"windows"}, manifests |-> [public |-> m2], from |-> a2],
  [oslist |-> OS, manifests |-> [public |-> m1, beta |-> Unreadable], from |-> None]}

Infos == {[a \in App |-> IF a = a1 THEN i ELSE [k \in {732} |-> NotADepot]] :
            i \in [{731, 732} -> Entries]}

Plan == INSTANCE PrepareDownload WITH pc <- phase

ASSUME PlanAssumption == Plan!PrepareAssumption

plan == <<phase, info, session, config, depots, needed, plans, calls, logins, requested,
          keyed, code>>

\* The plan at its start, from one state where it does not run.
PlanInit ==
  /\ Plan!Init
  /\ part = "fetch" =>
       /\ info = CHOOSE i \in AppInfos : TRUE
       /\ session = Plan!Fresh(FALSE)
       /\ config = CHOOSE c \in [app : App, os : OS, branch : Branch] : TRUE

MCInit == part \in {"prepare", "fetch"} /\ Init /\ PlanInit

MCNext ==
  /\ UNCHANGED part
  /\ \/ part = "prepare" /\ Plan!Next /\ UNCHANGED vars
     \/ part = "fetch" /\ Next /\ UNCHANGED plan

MCSpec == MCInit /\ [][MCNext]_<<part, vars, plan>> /\ WF_vars(part = "fetch" /\ Fetch)

LicenceInv == Plan!LicenceInv
PlanInv == Plan!PlanInv
FetchEnds == part = "fetch" => FetchReturns

=============================================================================
