---------------------------- MODULE ManifestNames ----------------------------
(***************************************************************************)
(* decrypt_manifest_filenames of steamdepot/src/download.rs: the names of  *)
(* a manifest are decrypted in place, one after the other, and the flag is *)
(* cleared at the end.  The caller may call it again, after a success and  *)
(* after an error, with the same or another key.                           *)
(***************************************************************************)
EXTENDS Ciphers

CONSTANTS
  Key,        \* keys the caller has
  Manifests,  \* the manifests: [key, names, flag], the names as the depot has them
  None,       \* a mapping without filename
  MaxCalls    \* bound: calls

VARIABLES
  manifest,   \* the manifest as the CDN has it
  names,      \* the filenames: ciphertexts, names, or None
  flag,       \* filenames_encrypted
  pc, key, pos, result,
  used        \* the keys of the calls so far

vars == <<manifest, names, flag, pc, key, pos, result, used>>

Cipher(k, x) == [kind |-> "cipher", key |-> k, text |-> Pad(x)]
Name(x) == [kind |-> "name", name |-> x]

\* What a manifest of the program may hold: a name, its ciphertext, or none.
Stored == {None} \cup [kind : {"cipher"}, key : Key, text : Seq(Byte)]
                 \cup [kind : {"name"}, name : Seq(Byte)]

\* A depot's names are UTF-8, with NULs at most at the end, and its key has the
\* length a key has.
ASSUME NamesAssumption ==
  /\ None \notin Seq(Byte)
  /\ None \notin [kind : {"cipher"}, key : Key, text : Seq(Byte)]
  /\ None \notin [kind : {"name"}, name : Seq(Byte)]
  /\ \A m \in Manifests :
       /\ m.key \in Key \ {ShortKey} /\ m.flag \in BOOLEAN
       /\ m.names \in Seq({None} \cup Seq(Byte))
       /\ \A i \in DOMAIN m.names : m.names[i] = None \/
            (m.names[i] \in Seq(Byte) /\ StripNuls(m.names[i]) \in Seq(Utf8))

AsSent(m) == [i \in DOMAIN m.names |->
  IF m.names[i] = None THEN None
  ELSE IF m.flag THEN Cipher(m.key, m.names[i]) ELSE Name(m.names[i])]

TypeOK ==
  /\ manifest \in Manifests
  /\ DOMAIN names = DOMAIN manifest.names
  /\ \A i \in DOMAIN names :
       IF manifest.names[i] = None THEN names[i] = None
       ELSE names[i] # None /\ names[i].kind \in {"cipher", "name"}
  /\ flag \in BOOLEAN
  /\ pc \in {"idle", "loop"}
  /\ key \in Key
  /\ pos \in 1..Len(names) + 1
  /\ result \in {"none", "ok", "err"}

Init ==
  /\ manifest \in Manifests
  /\ names = AsSent(manifest)
  /\ flag = manifest.flag
  /\ pc = "idle" /\ pos = 1 /\ result = "none"
  /\ key \in Key
  /\ used = <<>>

\* Slip: the flag is cleared before the loop.
ClearFirst(k) ==
  /\ pc = "idle" /\ Len(used) < MaxCalls
  /\ key' = k /\ used' = Append(used, k)
  /\ IF flag
     THEN pc' = "loop" /\ pos' = 1 /\ flag' = FALSE /\ UNCHANGED result
     ELSE result' = "ok" /\ UNCHANGED <<pc, pos, flag>>
  /\ UNCHANGED <<manifest, names>>

Call(k) ==
  /\ pc = "idle" /\ Len(used) < MaxCalls
  /\ key' = k /\ used' = Append(used, k)
  /\ IF flag
     THEN pc' = "loop" /\ pos' = 1 /\ UNCHANGED result
     ELSE result' = "ok" /\ UNCHANGED <<pc, pos>>
  /\ UNCHANGED <<manifest, names, flag>>

\* A name that was decrypted before is no ciphertext of any key: it fails to
\* decode, is too short, or gives whatever its bytes decrypt to.
Outcomes(n) ==
  IF n.kind = "cipher" THEN decrypt_filename(key, n)
  ELSE {Error} \cup {Ok(x) : x \in UNION {[1..l -> Utf8] : l \in 0..1}}

DecryptName ==
  /\ pc = "loop" /\ pos <= Len(names)
  /\ IF names[pos] = None
     THEN pos' = pos + 1 /\ UNCHANGED <<names, pc, result>>
     ELSE \E r \in Outcomes(names[pos]) :
            IF r.ok
            THEN names' = [names EXCEPT ![pos] = Name(r.data)] /\ pos' = pos + 1
                 /\ UNCHANGED <<pc, result>>
            ELSE pc' = "idle" /\ result' = "err" /\ UNCHANGED <<names, pos>>
  /\ UNCHANGED <<manifest, flag, key, used>>

Finish ==
  /\ pc = "loop" /\ pos = Len(names) + 1
  /\ flag' = FALSE
  /\ pc' = "idle" /\ result' = "ok"
  /\ UNCHANGED <<manifest, names, key, pos, used>>

Next == (\E k \in Key : Call(k)) \/ DecryptName \/ Finish

Spec == Init /\ [][Next]_vars

-----------------------------------------------------------------------------

\* A manifest whose flag is clear holds no encrypted name, in particular not
\* after an error halfway: what prepare_directory_tree gets are names.
FlagHonest == ~ flag => \A i \in DOMAIN names : names[i] = None \/ names[i].kind = "name"

\* With the right key alone the call succeeds, however often it is made, and
\* leaves the depot's names, without their trailing NULs.
RightKeyWorks ==
  (pc = "idle" /\ used # <<>> /\ \A i \in DOMAIN used : used[i] = manifest.key) =>
    /\ result = "ok"
    /\ manifest.flag => \A i \in DOMAIN names :
         names[i] = IF manifest.names[i] = None THEN None ELSE Name(StripNuls(manifest.names[i]))

\* What a caller finds after any calls: names where the flag is clear, the
\* depot's names after calls with the right key.
NamesInv == TypeOK /\ FlagHonest /\ RightKeyWorks

=============================================================================
