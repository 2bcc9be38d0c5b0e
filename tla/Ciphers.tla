------------------------------- MODULE Ciphers -------------------------------
(***************************************************************************)
(* The decryption of steamdepot/src/crypto.rs.  AES is a library: under    *)
(* its key a ciphertext gives back its plaintext, under another key any    *)
(* bytes of the same length.  What the code adds are the length checks,    *)
(* the two ways to remove PKCS7 padding, and, for filenames, the base64    *)
(* text and the trailing NULs.                                             *)
(***************************************************************************)
EXTENDS Naturals, Sequences, FiniteSets

CONSTANTS
  B,          \* bytes of an AES block (16)
  Byte,       \* the bytes that occur; 0 and 1..B among them
  Utf8,       \* those that may occur in a name
  ShortKey    \* a key that is not 32 bytes long

ASSUME CiphersAssumption ==
  /\ B \in Nat \ {0}
  /\ 0..B \subseteq Byte /\ Byte \subseteq Nat
  /\ Utf8 \subseteq Byte

Error == [ok |-> FALSE]
Ok(data) == [ok |-> TRUE, data |-> data]

Front(s, n) == SubSeq(s, 1, Len(s) - n)
AllZero(s) == \A i \in DOMAIN s : s[i] = 0

\* PKCS7 as the other side applies it
Pad(x) == LET n == B - (Len(x) % B) IN x \o [i \in 1..n |-> n]

\* Slip: the pad of a whole block is not seen.
PaddedInBlock(y) ==
  /\ y # <<>>
  /\ LET n == y[Len(y)] IN
     /\ n \in 1..B - 1 /\ Len(y) >= n
     /\ \A i \in Len(y) - n + 1..Len(y) : y[i] = n

Padded(y) ==
  /\ y # <<>>
  /\ LET n == y[Len(y)] IN
     /\ n \in 1..B /\ Len(y) >= n
     /\ \A i \in Len(y) - n + 1..Len(y) : y[i] = n

\* aes_ecb_decrypt: padding that is not valid stays in the output
EcbUnpad(y) ==
  IF Len(y) % B # 0 THEN Error
  ELSE Ok(IF Padded(y) THEN Front(y, y[Len(y)]) ELSE y)

\* decrypt_padded_mut::<Pkcs7>
CbcUnpad(y) ==
  IF Len(y) % B # 0 \/ ~ Padded(y) THEN Error ELSE Ok(Front(y, y[Len(y)]))

\* the outcomes of AES over a text encrypted under its key
Texts(key, c) == IF key = c.key THEN {c.text} ELSE [DOMAIN c.text -> Byte]

ecb_decrypt(key, c) ==
  IF key = ShortKey THEN {Error} ELSE {EcbUnpad(y) : y \in Texts(key, c)}

\* a block with the encrypted IV, then the text in CBC
symmetric_decrypt(key, c) ==
  IF Len(c.text) < B \/ key = ShortKey THEN {Error}
  ELSE {CbcUnpad(y) : y \in Texts(key, c)}

Zeros(x) == {i \in 0..Len(x) : AllZero(SubSeq(x, i + 1, Len(x)))}
StripNuls(x) == SubSeq(x, 1, CHOOSE i \in Zeros(x) : \A j \in Zeros(x) : i <= j)

Named(r) ==
  IF ~ r.ok THEN Error
  ELSE LET x == StripNuls(r.data) IN
       IF \A i \in DOMAIN x : x[i] \in Utf8 THEN Ok(x) ELSE Error

decrypt_filename(key, c) == {Named(r) : r \in symmetric_decrypt(key, c)}

=============================================================================
