------------------------------ MODULE MCOutput ------------------------------
(***************************************************************************)
(* Small instances of what the command line tells its user: the progress   *)
(* of one depot (ChunkProgress), and a whole run of main (Cli), in which a *)
(* download is one step.  A behaviour runs one of them and leaves the      *)
(* other at its start: part says which.                                    *)
(*                                                                         *)
(* The three chunks differ in size and their sum passes bytes_total, as    *)
(* the encrypted sizes of a depot do.  The three depots share paths, and   *)
(* where one lists a link the others list a file.                          *)
(***************************************************************************)
EXTENDS ChunkProgress, TLC

CONSTANTS a, b, c, Options, Depots, Files, Links

Sizes == <<1, 2, 3>>

VARIABLES part, options, stage, plan, cursor, session, out, exit, link, disk

SharedFiles ==
  (a :> {"bin", "lib.1"}) @@ (b :> {"bin", "lib"}) @@ (c :> {"lib", "lib.1"})
OneLink == (a :> ("lib" :> "lib.1")) @@ (b :> <<>>) @@ (c :> <<>>)
EveryCommand ==
  SUBSET {"username", "token", "info", "key", "download", "manifests", "install"}

Main == INSTANCE Cli WITH pc <- stage

ASSUME CommandAssumption == Main!CliAssumption

main == <<options, stage, plan, cursor, session, out, exit, link, disk>>

MCInit ==
  /\ part \in {"progress", "main"}
  /\ Init /\ (part = "main" => mode = "json")
  /\ Main!Init /\ (part = "progress" => options = {})

MCNext ==
  /\ UNCHANGED part
  /\ \/ part = "progress" /\ Next /\ UNCHANGED main
     \/ part = "main" /\ Main!Next /\ UNCHANGED vars

MCSpec == MCInit /\ [][MCNext]_<<part, vars, main>>

OutputInv == Main!OutputInv

=============================================================================
