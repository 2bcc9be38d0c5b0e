------------------------------ MODULE MCInstall ------------------------------
(***************************************************************************)
(* Small instances of what becomes of a manifest on the way to the disk:   *)
(* the decryption of its names (ManifestNames), the two ways to decrypt    *)
(* (Ciphers), and the install tree (InstallTree).  They follow each other  *)
(* in the program and share no state, so a behaviour runs one of them and  *)
(* leaves the others at their start: part says which.                      *)
(*                                                                         *)
(* Blocks have two bytes.  A manifest has two names (one empty or ending   *)
(* in NUL, one of a whole block) or a missing one.  The tree is a          *)
(* directory with an executable in it, a data file and a symbolic link.    *)
(***************************************************************************)
EXTENDS ManifestNames

CONSTANTS right, other, MaxText, Paths, Above, Versions, Similar, Stray, MaxRuns

VARIABLES part, text, padded, ecb, cbc, tree, version, step, place, pending, late, runs

Sent == {[key |-> right, names |-> n, flag |-> f] :
           n \in {<< <<3>>, <<3, 3>> >>, << <<3, 0>>, None, <<3>> >>, << <<>>, <<3, 3, 3>> >>},
           f \in BOOLEAN}

-----------------------------------------------------------------------------
(* One call of aes_ecb_decrypt and of symmetric_decrypt, on a padded text  *)
(* or on arbitrary bytes, with the right or another key.                   *)

ASSUME CipherAssumption == right \in Key \ {ShortKey} /\ MaxText \in Nat

cipher == <<text, padded, ecb, cbc>>

Plain == IF padded THEN Pad(text) ELSE text

CipherInit ==
  /\ text \in IF part = "cipher" THEN UNION {[1..n -> Byte] : n \in 0..MaxText} ELSE {<<>>}
  /\ padded \in IF part = "cipher" THEN BOOLEAN ELSE {FALSE}
  /\ ecb = {} /\ cbc = {}

Decrypt ==
  /\ ecb = {}
  /\ ecb' = ecb_decrypt(key, [key |-> right, text |-> Plain])
  /\ cbc' = symmetric_decrypt(key, [key |-> right, text |-> Plain])
  /\ UNCHANGED <<text, padded>>

\* What was padded and encrypted comes back whole under its key, from
\* aes_ecb_decrypt and from symmetric_decrypt, a text of whole blocks too; and
\* the two differ only where symmetric_decrypt fails, where aes_ecb_decrypt
\* returns the whole text, padding and all.
RoundTrip ==
  (ecb # {} /\ key = right) =>
    /\ padded => ecb = {Ok(text)} /\ cbc = {Ok(text)}
    /\ \A e \in ecb, c \in cbc : IF c.ok THEN e = c ELSE e = Error \/ e = Ok(Plain)

-----------------------------------------------------------------------------
(* The install tree *)

disk == <<tree, version, step, place, pending, late, runs>>

FourPaths == <<"bin", "bin/run", "data", "lib">>
Parents == [p \in {"bin", "bin/run", "data", "lib"} |-> IF p = "bin/run" THEN {"bin"} ELSE {}]

NoMapping == [kind |-> "none"]
Dir == [kind |-> "dir"]
FileOf(n, x) == [kind |-> "file", size |-> n, exec |-> x]
LinkTo(q) == [kind |-> "link", to |-> q]

Manifest(bin, run, data, lib) ==
  [p \in {"bin", "bin/run", "data", "lib"} |->
     CASE p = "bin" -> bin [] p = "bin/run" -> run [] p = "data" -> data [] p = "lib" -> lib]

\* versions that agree on the kind of each path; the second does not name
\* the directory, the third drops the data file the link pointed to
SameKinds == <<
  Manifest(Dir, FileOf(2, TRUE), FileOf(2, FALSE), LinkTo("data")),
  Manifest(NoMapping, FileOf(1, TRUE), FileOf(1, FALSE), LinkTo("bin/run")),
  Manifest(Dir, FileOf(0, TRUE), NoMapping, LinkTo("data"))>>

\* paths that change their kind, and a link without target
AllKinds == <<
  Manifest(Dir, FileOf(1, TRUE), FileOf(2, FALSE), LinkTo("data")),
  Manifest(FileOf(1, FALSE), NoMapping, FileOf(2, FALSE), FileOf(2, FALSE)),
  Manifest(LinkTo("data"), NoMapping, FileOf(1, FALSE), LinkTo(""))>>

\* a path that is a link, then a file
LinkThenFile == <<
  Manifest(NoMapping, NoMapping, FileOf(2, FALSE), LinkTo("data")),
  Manifest(NoMapping, NoMapping, FileOf(2, FALSE), FileOf(1, FALSE))>>

SixVersions == SameKinds \o AllKinds

Installer == INSTANCE InstallTree WITH pos <- place

ASSUME TreeAssumption ==
  Installer!InstallAssumption /\ Similar \subseteq DOMAIN Versions /\ Installer!Agree(Similar)

-----------------------------------------------------------------------------

\* The names at their start, from one state where they are not called.
NamesInit ==
  /\ Init
  /\ part # "names" => manifest = CHOOSE m \in Manifests : TRUE
  /\ part \notin {"names", "cipher"} => key = right

MCInit ==
  /\ part \in {"names", "cipher", "same", "all"}
  /\ NamesInit /\ CipherInit /\ Installer!Init

MCNext ==
  /\ UNCHANGED part
  /\ \/ part = "names" /\ Next /\ UNCHANGED <<cipher, disk>>
     \/ part = "cipher" /\ Decrypt /\ UNCHANGED <<vars, disk>>
     \/ part = "same" /\ Installer!Next /\ version' \in Similar /\ UNCHANGED <<vars, cipher>>
     \/ part = "all" /\ Installer!Next /\ UNCHANGED <<vars, cipher>>

MCSpec == MCInit /\ [][MCNext]_<<part, vars, cipher, disk>>

TreeInv == part = "same" => Installer!TreeInv
NoMix == Installer!NoMix
PreparedSizes == Installer!PreparedSizes

=============================================================================
