------------------------------ MODULE MCCmCalls ------------------------------
(***************************************************************************)
(* Small instances of CmCalls.  The operations stand for the calls of one  *)
(* download: server list or request code (content), product info, licence, *)
(* and the keys of two depots.                                             *)
(***************************************************************************)
EXTENDS CmCalls

CONSTANTS code, poll, info, licence, key1, key2

Kind(o) ==
  CASE o = code -> "content"
    [] o = poll -> "auth"
    [] o = info -> "info"
    [] o = licence -> "license"
    [] OTHER -> "key"

KindOfOp == [o \in Op |-> Kind(o)]

=============================================================================
