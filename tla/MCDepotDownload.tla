--------------------------- MODULE MCDepotDownload ---------------------------
(***************************************************************************)
(* Small instances of DepotDownload.  The server list is steamdepot's      *)
(* usual one in miniature: two entries, each its own host; or, in the      *)
(* shared list, three entries of which the last two share a host name.     *)
(***************************************************************************)
EXTENDS DepotDownload

CONSTANTS h1, h2

TwoHosts == <<h1, h2>>
SharedHost == <<h1, h2, h2>>

=============================================================================
