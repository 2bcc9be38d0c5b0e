--------------------------- MODULE DepotResolution ---------------------------
(***************************************************************************)
(* resolve_depots of steamdepot/src/depot.rs: from the "depots" section of *)
(* an app's info to the depots and manifests to download for an OS and a   *)
(* branch.  The text of the section is parsed in KeyValues; here an entry  *)
(* is what the code reads off it:                                          *)
(*   oslist     the systems it names; all of them if it has no oslist      *)
(*   manifests  from branch to manifest, Unreadable where the value is no  *)
(*              number or an object without a gid                          *)
(*   from       depotfromapp, None if absent or not a number               *)
(* NotADepot stands for a key that is no number, a value that is no object *)
(* and an object without manifests.                                        *)
(***************************************************************************)
CONSTANTS None, NotADepot, Unreadable

\* Slip: a branch that does not read falls back to public.
MalformedFallsBack(e, branch) ==
  LET own == IF branch \in DOMAIN e.manifests THEN e.manifests[branch] ELSE Unreadable
  IN IF own = Unreadable /\ "public" \in DOMAIN e.manifests THEN e.manifests["public"] ELSE own

\* The manifest of the branch, or of "public" if the entry lacks the branch.
ManifestOf(e, branch) ==
  LET b == IF branch \in DOMAIN e.manifests THEN branch ELSE "public"
  IN IF b \in DOMAIN e.manifests THEN e.manifests[b] ELSE Unreadable

\* Whether an entry yields a depot.
Offered(e, os, branch) ==
  e # NotADepot /\ os \in e.oslist /\ ManifestOf(e, branch) # Unreadable

resolve_depots(info, os, branch) ==
  {[id |-> k, manifest |-> ManifestOf(info[k], branch), from |-> info[k].from] :
     k \in {k \in DOMAIN info : Offered(info[k], os, branch)}}

\* DepotInfo::containing_app
containing_app(depot, parent) == IF depot.from = None THEN parent ELSE depot.from

=============================================================================
