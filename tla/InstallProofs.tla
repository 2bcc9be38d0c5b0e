---------------------------- MODULE InstallProofs ----------------------------
(***************************************************************************)
(* Proofs about what becomes of a manifest on the way to the disk: its     *)
(* names (ManifestNames), the ciphers (Ciphers) and the install tree       *)
(* (InstallTree), in this order.                                           *)
(*                                                                         *)
(* Names: for any manifests whose names are UTF-8, any keys and any block; *)
(* NamesIInv is inductive: what the loop has left behind it (LoopInv), and *)
(* where a caller with the right key alone has got to (RightInv).          *)
(*                                                                         *)
(* Tree: for any paths, versions and number of runs, ended anywhere, with  *)
(* blocking writes of earlier ones landing at any moment.  MixIInv is      *)
(* inductive for versions of any kinds: the file of every mapping that is  *)
(* prepared holds only this run's version, zeros and such late writes, and *)
(* no link leads to one that another version maps to a link.  SameIInv     *)
(* adds, for versions that agree on kinds, what each path may hold at all  *)
(* (Fits) and what a run has made so far (Made, Filled).                   *)
(***************************************************************************)
EXTENDS MCInstall, SequenceTheorems, FiniteSetTheorems, TLAPS

\* What the depot's name of a file is once it is decrypted.
Final(i) ==
  IF manifest.names[i] = None THEN None ELSE Name(StripNuls(manifest.names[i]))

\* Every call so far had the right key.
OnlyRight == \A i \in 1..Len(used) : used[i] = manifest.key

\* Nothing to decrypt any more.
IsName(n) == n = None \/ n.kind = "name"

\* Behind the loop are names; it runs only while the flag is set.
LoopInv ==
  /\ names \in Seq(Stored) /\ Len(names) = Len(manifest.names)
  /\ used \in Seq(Key)
  /\ flag => manifest.flag
  /\ pc = "loop" => flag /\ \A i \in 1..pos - 1 : IsName(names[i])
  /\ ~ flag => \A i \in 1..Len(names) : IsName(names[i])

\* With the right key alone the first call does everything and the others
\* nothing.
RightInv ==
  /\ used = <<>> => pc = "idle" /\ names = AsSent(manifest) /\ flag = manifest.flag
  /\ OnlyRight /\ pc = "loop" =>
       /\ key = manifest.key
       /\ \A i \in 1..Len(names) : names[i] = IF i < pos THEN Final(i) ELSE AsSent(manifest)[i]
  /\ OnlyRight /\ pc = "idle" /\ used # <<>> =>
       /\ result = "ok" /\ ~ flag
       /\ manifest.flag => \A i \in 1..Len(names) : names[i] = Final(i)

\* The inductive invariant of the names.
NamesIInv == TypeOK /\ LoopInv /\ RightInv

-----------------------------------------------------------------------------
(* Numbers *)

\* Quotient and remainder.
LEMMA DivMod ==
  ASSUME NEW x \in Nat, NEW m \in Nat \ {0}
  PROVE  /\ x \div m \in Nat /\ x % m \in 0..m - 1
         /\ x = m * (x \div m) + (x % m)
BY SMT

\* There is only one remainder.
LEMMA ModUnique ==
  ASSUME NEW x \in Nat, NEW m \in Nat \ {0}, NEW q \in Nat, NEW r \in 0..m - 1,
         x = m * q + r
  PROVE  x % m = r
<1> DEFINE p == x \div m
           s == x % m
<1>1. p \in Nat /\ s \in 0..m - 1 /\ x = m * p + s
  BY DivMod
<1> HIDE DEF p, s
<1>2. m * p + s = m * q + r
  BY <1>1
<1>3. CASE p = q
  BY <1>1, <1>2, <1>3 DEF s
<1>4. CASE p < q
  <2>1. PICK d \in Nat \ {0} : q = p + d
    <3>1. q - p \in Nat \ {0} /\ q = p + (q - p)
      BY <1>1, <1>4
    <3> QED
      BY <3>1
  <2>2. m * q = m * p + m * d /\ m * d >= m
    BY <1>1, <2>1
  <2> QED
    BY <1>1, <1>2, <2>2
<1>5. CASE q < p
  <2>1. PICK d \in Nat \ {0} : p = q + d
    <3>1. p - q \in Nat \ {0} /\ p = q + (p - q)
      BY <1>1, <1>5
    <3> QED
      BY <3>1
  <2>2. m * p = m * q + m * d /\ m * d >= m
    BY <1>1, <2>1
  <2> QED
    BY <1>1, <1>2, <2>2
<1> QED
  BY <1>1, <1>3, <1>4, <1>5

\* A set of numbers up to n that is not empty has a least one.
LEMMA LeastNumber ==
  ASSUME NEW n \in Nat, NEW T \in SUBSET (0..n), T # {}
  PROVE  \E x \in T : \A y \in T : x <= y
<1> DEFINE N == 0..n
           W == {0..x : x \in T}
<1>1. FiniteSubsetsOf(N) = SUBSET N
  <2>1. IsFiniteSet(N)
    BY FS_Interval
  <2> QED
    BY <2>1, FS_FiniteSubsetsOfFinite
<1>2. W # {} /\ W \subseteq SUBSET N
  <2>1. \A x \in T : 0..x \subseteq N
    OBVIOUS
  <2> QED
    BY <2>1
<1>3. \E w \in W : \A v \in W : <<v, w>> \notin StrictSubsetOrdering(N)
  <2>1. IsWellFoundedOn(StrictSubsetOrdering(N), SUBSET N)
    BY <1>1, FS_StrictSubsetOrderingWellFounded
  <2> HIDE DEF W, N
  <2> QED
    BY <1>2, <2>1, WFMin
<1>4. PICK x \in T : \A y \in T : <<0..y, 0..x>> \notin StrictSubsetOrdering(N)
  BY <1>3
<1>5. ASSUME NEW y \in T PROVE x <= y
  <2>1. SUFFICES ASSUME y < x PROVE FALSE
    OBVIOUS
  <2>2. 0..y \subseteq 0..x /\ 0..y # 0..x
    BY <2>1
  <2>3. <<0..y, 0..x>> \in (SUBSET N) \X (SUBSET N)
    OBVIOUS
  <2>4. <<0..y, 0..x>> \in StrictSubsetOrdering(N)
    BY <2>2, <2>3 DEF StrictSubsetOrdering
  <2> QED
    BY <1>4, <2>4
<1> QED
  BY <1>5

-----------------------------------------------------------------------------
(* Padding *)

\* PKCS7 fills up to whole blocks, with at least one byte.
LEMMA PadFacts ==
  ASSUME NEW x \in Seq(Byte)
  PROVE  \E n \in 1..B :
           /\ Pad(x) \in Seq(Byte) /\ Len(Pad(x)) = Len(x) + n
           /\ Len(Pad(x)) % B = 0 /\ Len(Pad(x)) >= B
           /\ \A i \in 1..Len(x) : Pad(x)[i] = x[i]
           /\ \A i \in Len(x) + 1..Len(x) + n : Pad(x)[i] = n
<1> DEFINE L == Len(x)
           r == L % B
           q == L \div B
           n == B - r
           e == [i \in 1..n |-> n]
<1>1. L \in Nat /\ B \in Nat \ {0}
  BY LenProperties, CiphersAssumption
<1>2. q \in Nat /\ r \in 0..B - 1 /\ L = B * q + r
  <2> HIDE DEF L
  <2> QED
    BY <1>1, DivMod
<1>3. Pad(x) = x \o e
  BY DEF Pad
<1> HIDE DEF q, r
<1>4. n \in 1..B
  BY <1>1, <1>2
<1> HIDE DEF n
<1>5. e \in Seq(Byte) /\ Len(e) = n /\ \A i \in 1..n : e[i] = n
  <2>1. n \in Byte /\ n \in Nat
    BY <1>1, <1>4, CiphersAssumption
  <2>2. e \in [1..n -> Byte]
    BY <2>1
  <2> QED
    BY <2>1, <2>2
<1> HIDE DEF e
<1>6. /\ x \o e \in Seq(Byte) /\ Len(x \o e) = L + n
      /\ \A i \in 1..L + n : (x \o e)[i] = IF i <= L THEN x[i] ELSE e[i - L]
  <2>1. /\ x \o e \in Seq(Byte) /\ Len(x \o e) = Len(x) + Len(e)
        /\ \A i \in 1..Len(x) + Len(e) : (x \o e)[i] = IF i <= Len(x) THEN x[i] ELSE e[i - Len(x)]
    BY <1>5, ConcatProperties
  <2> QED
    BY <1>5, <2>1
<1> HIDE DEF L
<1>7. L + n = B * (q + 1) + 0 /\ q + 1 \in Nat /\ L + n \in Nat /\ L + n >= B
  <2>1. B * (q + 1) = B * q + B /\ B * q \in Nat
    BY <1>1, <1>2
  <2> QED
    BY <1>1, <1>2, <2>1 DEF n
<1>8. (L + n) % B = 0
  <2>1. 0 \in 0..B - 1
    BY <1>1
  <2> QED
    BY <1>1, <1>7, <2>1, ModUnique
<1>9. \A i \in 1..L : (x \o e)[i] = x[i]
  <2>1. \A i \in 1..L : i \in 1..L + n /\ i <= L
    BY <1>1, <1>4
  <2> QED
    BY <1>6, <2>1, Zenon
<1>10. \A i \in L + 1..L + n : (x \o e)[i] = n
  <2>1. SUFFICES ASSUME NEW i \in L + 1..L + n PROVE (x \o e)[i] = n
    OBVIOUS
  <2>2. i - L \in 1..n /\ i \in 1..L + n /\ ~ (i <= L)
    BY <1>1, <1>4
  <2> QED
    BY <1>5, <1>6, <2>2
<1> QED
  BY <1>3, <1>4, <1>6, <1>7, <1>8, <1>9, <1>10 DEF L

\* A text comes back whole when its padding is removed, whichever way, also
\* one of whole blocks.
THEOREM PaddingRemoved ==
  ASSUME NEW x \in Seq(Byte)
  PROVE  CbcUnpad(Pad(x)) = Ok(x) /\ EcbUnpad(Pad(x)) = Ok(x)
<1> DEFINE y == Pad(x)
<1>1. Len(x) \in Nat /\ B \in Nat \ {0}
  BY LenProperties, CiphersAssumption
<1>2. PICK n \in 1..B :
        /\ y \in Seq(Byte) /\ Len(y) = Len(x) + n /\ Len(y) % B = 0
        /\ \A i \in 1..Len(x) : y[i] = x[i]
        /\ \A i \in Len(x) + 1..Len(x) + n : y[i] = n
  BY PadFacts
<1> HIDE DEF y
<1>3. y[Len(y)] = n
  <2>1. Len(y) \in Len(x) + 1..Len(x) + n
    BY <1>1, <1>2
  <2> QED
    BY <1>2, <2>1
<1>4. Padded(y)
  <2>1. y # <<>>
    <3>1. Len(y) # 0
      BY <1>1, <1>2
    <3> QED
      BY <3>1
  <2>2. Len(y) - n = Len(x) /\ Len(y) >= n
    BY <1>1, <1>2
  <2> QED
    BY <1>2, <1>3, <2>1, <2>2 DEF Padded
<1>5. Front(y, n) = x
  <2>1. Len(y) - n = Len(x) /\ Len(x) \in Int /\ (Len(x) - 1) + 1 = Len(x)
    BY <1>1, <1>2
  <2>2. \A i \in 1..Len(x) : y[i] \in Byte /\ x[i] \in Byte /\ y[i] = x[i]
    BY <1>2, ElementOfSeq
  <2>3. /\ SubSeq(y, 1, Len(x)) \in Seq(Byte)
        /\ Len(SubSeq(y, 1, Len(x))) = IF 1 <= Len(x) THEN Len(x) - 1 + 1 ELSE 0
        /\ \A i \in 1..Len(x) - 1 + 1 : SubSeq(y, 1, Len(x))[i] = y[1 + i - 1]
    BY <2>1, <2>2, SubSeqProperties
  <2>4. Len(SubSeq(y, 1, Len(x))) = Len(x)
    BY <1>1, <2>3
  <2>5. \A i \in 1..Len(x) : SubSeq(y, 1, Len(x))[i] = x[i]
    <3>1. \A i \in 1..Len(x) : i \in 1..Len(x) - 1 + 1 /\ 1 + i - 1 = i
      BY <1>1
    <3> QED
      BY <2>2, <2>3, <3>1
  <2>6. SubSeq(y, 1, Len(x)) = x
    BY <2>3, <2>4, <2>5, SeqEqual
  <2> QED
    BY <2>1, <2>6 DEF Front
<1> QED
  BY <1>2, <1>3, <1>4, <1>5 DEF CbcUnpad, EcbUnpad, y

-----------------------------------------------------------------------------
(* The decryption of a name *)

\* A prefix of a text is a text.
LEMMA PrefixFacts ==
  ASSUME NEW x \in Seq(Byte), NEW n \in Int, n <= Len(x)
  PROVE  SubSeq(x, 1, n) \in Seq(Byte)
<1>1. \A i \in 1..n : x[i] \in Byte
  <2>1. \A i \in 1..n : i \in 1..Len(x)
    BY LenProperties
  <2> QED
    BY <2>1, ElementOfSeq
<1> QED
  BY <1>1, SubSeqProperties

\* Without its trailing NULs a text is a text.
LEMMA StripFacts ==
  ASSUME NEW x \in Seq(Byte)
  PROVE  StripNuls(x) \in Seq(Byte)
<1> DEFINE c == CHOOSE i \in Zeros(x) : \A j \in Zeros(x) : i <= j
<1>1. Len(x) \in Nat
  BY LenProperties
<1>2. Zeros(x) \in SUBSET (0..Len(x)) /\ Zeros(x) # {}
  <2>1. SubSeq(x, Len(x) + 1, Len(x)) = <<>>
    BY <1>1, SubSeqEmpty
  <2>2. AllZero(<<>>)
    BY DEF AllZero
  <2>3. Len(x) \in Zeros(x)
    <3>1. Len(x) \in 0..Len(x)
      BY <1>1
    <3>2. AllZero(SubSeq(x, Len(x) + 1, Len(x)))
      BY <2>1, <2>2
    <3> QED
      BY <3>1, <3>2 DEF Zeros
  <2> QED
    BY <2>3 DEF Zeros
<1>3. \E i \in Zeros(x) : \A j \in Zeros(x) : i <= j
  BY <1>1, <1>2, LeastNumber
<1>4. c \in 0..Len(x)
  BY <1>2, <1>3
<1> HIDE DEF c
<1>5. SubSeq(x, 1, c) \in Seq(Byte)
  BY <1>1, <1>4, PrefixFacts
<1> QED
  BY <1>5 DEF StripNuls, c

\* Unpadding fails or gives a text; naming fails or gives one that is UTF-8.
LEMMA NamedFacts ==
  ASSUME NEW y \in Seq(Byte)
  PROVE  LET r == Named(CbcUnpad(y))
         IN r = Error \/ \E d \in Seq(Byte) : r = Ok(d)
<1> DEFINE n == y[Len(y)]
<1>1. Len(y) \in Nat
  BY LenProperties
<1>2. CASE CbcUnpad(y) = Error
  BY <1>2 DEF Named, Error
<1>3. CASE CbcUnpad(y) # Error
  <2>1. Padded(y) /\ CbcUnpad(y) = Ok(Front(y, n))
    BY <1>3 DEF CbcUnpad
  <2>2. n \in 1..B /\ B \in Nat
    BY <2>1, CiphersAssumption DEF Padded
  <2> HIDE DEF n
  <2>3. Front(y, n) \in Seq(Byte)
    <3>1. Len(y) - n \in Int /\ Len(y) - n <= Len(y)
      BY <1>1, <2>2
    <3> QED
      BY <3>1, PrefixFacts DEF Front
  <2>4. StripNuls(Front(y, n)) \in Seq(Byte)
    BY <2>3, StripFacts
  <2>5. CbcUnpad(y).ok /\ CbcUnpad(y).data = Front(y, n)
    BY <2>1 DEF Ok
  <2>6. Named(CbcUnpad(y)) = Error \/ Named(CbcUnpad(y)) = Ok(StripNuls(Front(y, n)))
    BY <2>5 DEF Named
  <2> QED
    BY <2>4, <2>6
<1> QED
  BY <1>2, <1>3

\* Whatever a decryption returns instead of an error is a text.
LEMMA OutcomeFacts ==
  ASSUME NEW n \in Stored \ {None}, NEW r \in Outcomes(n)
  PROVE  r = Error \/ \E d \in Seq(Byte) : r = Ok(d)
<1>1. n \in [kind : {"cipher"}, key : Key, text : Seq(Byte)] \cup [kind : {"name"}, name : Seq(Byte)]
  BY DEF Stored
<1>2. CASE n \in [kind : {"cipher"}, key : Key, text : Seq(Byte)]
  <2>1. n.kind = "cipher" /\ n.text \in Seq(Byte)
    BY <1>2
  <2>2. r \in decrypt_filename(key, n)
    BY <2>1 DEF Outcomes
  <2>3. PICK t \in symmetric_decrypt(key, n) : r = Named(t)
    BY <2>2 DEF decrypt_filename
  <2>4. CASE t = Error
    BY <2>3, <2>4 DEF Named, Error
  <2>5. CASE t # Error
    <3>1. PICK y \in Texts(key, n) : t = CbcUnpad(y)
      BY <2>3, <2>5 DEF symmetric_decrypt
    <3>2. y \in Seq(Byte)
      <4>1. n.text \in [1..Len(n.text) -> Byte] /\ DOMAIN n.text = 1..Len(n.text) /\ Len(n.text) \in Nat
        BY <2>1, LenProperties
      <4>2. y \in [1..Len(n.text) -> Byte]
        BY <4>1, <3>1, <2>1 DEF Texts
      <4> QED
        BY <4>1, <4>2
    <3>3. r = Named(CbcUnpad(y))
      BY <2>3, <3>1
    <3> QED
      BY <3>2, <3>3, NamedFacts
  <2> QED
    BY <2>4, <2>5
<1>3. CASE n \in [kind : {"name"}, name : Seq(Byte)]
  <2>1. n.kind # "cipher"
    BY <1>3
  <2>2. r = Error \/ \E l \in 0..1 : \E x \in [1..l -> Utf8] : r = Ok(x)
    BY <2>1 DEF Outcomes
  <2>3. ASSUME NEW l \in 0..1, NEW x \in [1..l -> Utf8] PROVE x \in Seq(Byte)
    <3>1. l \in Nat
      OBVIOUS
    <3>2. Utf8 \subseteq Byte
      BY CiphersAssumption
    <3>3. x \in [1..l -> Byte]
      BY <3>2
    <3> QED
      BY <3>1, <3>3
  <2> QED
    BY <2>2, <2>3
<1> QED
  BY <1>1, <1>2, <1>3

\* With the depot's key a ciphertext gives the depot's name, and nothing else.
LEMMA RightOutcome ==
  ASSUME NEW m \in Manifests, NEW i \in DOMAIN m.names, m.names[i] # None,
         key = m.key
  PROVE  Outcomes(Cipher(m.key, m.names[i])) = {Ok(StripNuls(m.names[i]))}
<1> DEFINE x == m.names[i]
           c == Cipher(m.key, x)
<1>1. /\ x \in Seq(Byte) /\ StripNuls(x) \in Seq(Utf8) /\ key # ShortKey
  BY NamesAssumption
<1> HIDE DEF x
<1>2. c.kind = "cipher" /\ c.key = key /\ c.text = Pad(x)
  BY DEF Cipher
<1> HIDE DEF c
<1>3. ~ (Len(c.text) < B)
  <2>1. Len(Pad(x)) >= B
    BY <1>1, PadFacts
  <2>2. Pad(x) \in Seq(Byte)
    BY <1>1, PadFacts
  <2>3. Len(Pad(x)) \in Nat /\ B \in Nat
    BY <2>2, LenProperties, CiphersAssumption
  <2> QED
    BY <1>2, <2>1, <2>3
<1>4. symmetric_decrypt(key, c) = {Ok(x)}
  <2>1. Texts(key, c) = {Pad(x)}
    BY <1>2 DEF Texts
  <2>2. CbcUnpad(Pad(x)) = Ok(x)
    BY <1>1, PaddingRemoved
  <2> QED
    BY <1>1, <1>3, <2>1, <2>2 DEF symmetric_decrypt
<1>5. Named(Ok(x)) = Ok(StripNuls(x))
  <2>1. \A j \in DOMAIN StripNuls(x) : StripNuls(x)[j] \in Utf8
    BY <1>1, LenProperties, ElementOfSeq
  <2>2. Ok(x).ok /\ Ok(x).data = x
    BY DEF Ok
  <2> QED
    BY <2>1, <2>2 DEF Named
<1>6. Outcomes(c) = {Ok(StripNuls(x))}
  BY <1>2, <1>4, <1>5 DEF Outcomes, decrypt_filename
<1> QED
  BY <1>6 DEF c, x

-----------------------------------------------------------------------------
(* The steps *)

\* A name is one of the things a manifest may hold, and it is not missing.
LEMMA NameFacts ==
  ASSUME NEW d \in Seq(Byte)
  PROVE  Name(d) \in Stored /\ Name(d) # None /\ Name(d).kind = "name" /\ IsName(Name(d))
<1>1. Name(d) \in [kind : {"name"}, name : Seq(Byte)] /\ Name(d).kind = "name"
  BY DEF Name
<1> QED
  BY <1>1, NamesAssumption DEF Stored, IsName

\* What the CDN has of a name is its ciphertext, or the name itself.
LEMMA SentFacts ==
  ASSUME NEW m \in Manifests
  PROVE  /\ AsSent(m) \in Seq(Stored) /\ Len(AsSent(m)) = Len(m.names) /\ Len(m.names) \in Nat
         /\ DOMAIN m.names = 1..Len(m.names)
         /\ \A i \in 1..Len(m.names) :
              /\ AsSent(m)[i] = IF m.names[i] = None THEN None
                               ELSE IF m.flag THEN Cipher(m.key, m.names[i]) ELSE Name(m.names[i])
              /\ AsSent(m)[i] = None <=> m.names[i] = None
              /\ AsSent(m)[i] # None => AsSent(m)[i].kind \in {"cipher", "name"}
              /\ ~ m.flag => IsName(AsSent(m)[i])
<1> DEFINE L == Len(m.names)
           e(i) == IF m.names[i] = None THEN None
                   ELSE IF m.flag THEN Cipher(m.key, m.names[i]) ELSE Name(m.names[i])
<1>1. L \in Nat /\ DOMAIN m.names = 1..L
  BY NamesAssumption, LenProperties
<1>2. AsSent(m) = [i \in 1..L |-> e(i)]
  BY <1>1 DEF AsSent
<1> HIDE DEF L
<1>3. ASSUME NEW i \in 1..L
      PROVE  /\ e(i) \in Stored
             /\ e(i) = None <=> m.names[i] = None
             /\ e(i) # None => e(i).kind \in {"cipher", "name"}
             /\ ~ m.flag => IsName(e(i))
  <2>1. CASE m.names[i] = None
    BY <2>1 DEF Stored, IsName
  <2>2. CASE m.names[i] # None
    <3>1. m.names[i] \in Seq(Byte) /\ m.key \in Key
      BY <1>1, <2>2, NamesAssumption
    <3>2. CASE m.flag
      <4>1. Pad(m.names[i]) \in Seq(Byte)
        BY <3>1, PadFacts
      <4>2. Cipher(m.key, m.names[i]) \in [kind : {"cipher"}, key : Key, text : Seq(Byte)]
        BY <3>1, <4>1 DEF Cipher
      <4>3. Cipher(m.key, m.names[i]).kind = "cipher"
        BY DEF Cipher
      <4> QED
        BY <2>2, <3>2, <4>2, <4>3, NamesAssumption DEF Stored
    <3>3. CASE ~ m.flag
      BY <2>2, <3>1, <3>3, NameFacts
    <3> QED
      BY <3>2, <3>3
  <2> QED
    BY <2>1, <2>2
<1> HIDE DEF e
<1>4. AsSent(m) \in [1..L -> Stored]
  BY <1>2, <1>3
<1>5. AsSent(m) \in Seq(Stored) /\ Len(AsSent(m)) = L
  BY <1>1, <1>4
<1>6. \A i \in 1..L : AsSent(m)[i] = e(i)
  BY <1>2
<1> QED
  BY <1>1, <1>3, <1>5, <1>6 DEF L, e

\* The names of a manifest and where they are counted from.
LEMMA NamesFacts ==
  ASSUME NamesIInv
  PROVE  /\ manifest \in Manifests /\ Len(names) \in Nat /\ DOMAIN names = 1..Len(names)
         /\ DOMAIN manifest.names = 1..Len(names) /\ Len(names) = Len(manifest.names)
         /\ DOMAIN used = 1..Len(used) /\ Len(used) \in Nat
         /\ names \in Seq(Stored) /\ used \in Seq(Key)
         /\ pos \in 1..Len(names) + 1
<1>1. names \in Seq(Stored) /\ used \in Seq(Key) /\ Len(names) = Len(manifest.names)
      /\ manifest \in Manifests /\ pos \in 1..Len(names) + 1
  BY DEF NamesIInv, LoopInv, TypeOK
<1> QED
  BY <1>1, LenProperties, SentFacts

\* A call begins the loop, or returns at once if there is nothing to decrypt.
LEMMA CallStep ==
  ASSUME NamesIInv, NEW k \in Key, Call(k)
  PROVE  NamesIInv'
<1>1. /\ pc = "idle" /\ key' = k /\ used' = Append(used, k)
      /\ \/ flag /\ pc' = "loop" /\ pos' = 1 /\ UNCHANGED result
         \/ ~ flag /\ result' = "ok" /\ UNCHANGED <<pc, pos>>
      /\ UNCHANGED <<manifest, names, flag>>
  BY DEF Call
<1>2. TypeOK /\ LoopInv /\ RightInv
  BY DEF NamesIInv
<1>3. /\ manifest \in Manifests /\ Len(names) \in Nat /\ Len(names) = Len(manifest.names)
      /\ used \in Seq(Key) /\ Len(used) \in Nat /\ DOMAIN names = 1..Len(names)
  BY NamesFacts
<1>4. /\ used' \in Seq(Key) /\ Len(used') = Len(used) + 1
      /\ \A i \in 1..Len(used) : used'[i] = used[i]
      /\ used'[Len(used) + 1] = k /\ used' # <<>>
  <2>1. /\ used' \in Seq(Key) /\ Len(used') = Len(used) + 1
        /\ \A i \in 1..Len(used) : used'[i] = used[i]
        /\ used'[Len(used) + 1] = k
    BY <1>1, <1>3, AppendProperties
  <2>2. used' # <<>>
    <3>1. Len(used') # 0
      BY <1>3, <2>1
    <3> QED
      BY <3>1
  <2> QED
    BY <2>1, <2>2
<1>5. OnlyRight' => OnlyRight /\ key' = manifest.key
  <2>1. SUFFICES ASSUME OnlyRight' PROVE OnlyRight /\ key' = manifest.key
    OBVIOUS
  <2>2. \A i \in 1..Len(used) + 1 : used'[i] = manifest.key
    BY <1>1, <1>4, <2>1 DEF OnlyRight
  <2>3. Len(used) + 1 \in 1..Len(used) + 1 /\ \A i \in 1..Len(used) : i \in 1..Len(used) + 1
    BY <1>3
  <2> QED
    BY <1>1, <1>4, <2>2, <2>3 DEF OnlyRight
<1>6. TypeOK'
  <2>1. pos' \in 1..Len(names) + 1
    BY <1>1, <1>2, <1>3 DEF TypeOK
  <2> QED
    BY <1>1, <1>2, <2>1 DEF TypeOK
<1>7. LoopInv'
  <2>1. \A n : IsName(n)' <=> IsName(n)
    BY DEF IsName
  <2>2. pc' = "loop" => flag' /\ \A i \in 1..pos' - 1 : IsName(names'[i])
    BY <1>1
  <2> QED
    BY <1>1, <1>2, <1>4, <2>2 DEF LoopInv, IsName
<1>8. RightInv'
  <2>1. ASSUME OnlyRight', pc' = "loop"
        PROVE  /\ key' = manifest'.key
               /\ \A i \in 1..Len(names') :
                    names'[i] = IF i < pos' THEN Final(i)' ELSE AsSent(manifest')[i]
    <3>1. flag /\ pos' = 1 /\ OnlyRight /\ key' = manifest.key
      BY <1>1, <1>5, <2>1
    <3>2. used = <<>>
      BY <1>1, <1>2, <3>1 DEF RightInv
    <3>3. names = AsSent(manifest)
      BY <1>2, <3>2 DEF RightInv
    <3> QED
      BY <1>1, <1>3, <3>1, <3>3
  <2>2. ASSUME OnlyRight', pc' = "idle"
        PROVE  /\ result' = "ok" /\ ~ flag'
               /\ manifest'.flag => \A i \in 1..Len(names') : names'[i] = Final(i)'
    <3>1. ~ flag /\ result' = "ok" /\ OnlyRight
      BY <1>1, <1>5, <2>2
    <3>2. manifest.flag => used # <<>>
      BY <1>2, <3>1 DEF RightInv
    <3>3. manifest.flag => \A i \in 1..Len(names) : names[i] = Final(i)
      BY <1>1, <1>2, <3>1, <3>2 DEF RightInv
    <3> QED
      BY <1>1, <3>1, <3>3 DEF Final
  <2> QED
    BY <1>4, <2>1, <2>2 DEF RightInv
<1> QED
  BY <1>6, <1>7, <1>8 DEF NamesIInv

\* One name further, or the call fails and the flag stays.
LEMMA DecryptStep ==
  ASSUME NamesIInv, DecryptName
  PROVE  NamesIInv'
<1>1. /\ pc = "loop" /\ pos <= Len(names) /\ UNCHANGED <<manifest, flag, key, used>>
      /\ \/ names[pos] = None /\ pos' = pos + 1 /\ UNCHANGED <<names, pc, result>>
         \/ /\ names[pos] # None
            /\ \E r \in Outcomes(names[pos]) :
                 \/ /\ r.ok /\ names' = [names EXCEPT ![pos] = Name(r.data)] /\ pos' = pos + 1
                    /\ UNCHANGED <<pc, result>>
                 \/ /\ ~ r.ok /\ pc' = "idle" /\ result' = "err" /\ UNCHANGED <<names, pos>>
  BY DEF DecryptName
<1>2. TypeOK /\ LoopInv /\ RightInv
  BY DEF NamesIInv
<1>3. /\ manifest \in Manifests /\ Len(names) \in Nat /\ Len(names) = Len(manifest.names)
      /\ names \in Seq(Stored) /\ DOMAIN names = 1..Len(names)
      /\ DOMAIN manifest.names = 1..Len(names) /\ pos \in 1..Len(names) /\ pos + 1 \in 1..Len(names) + 1
  BY <1>1, NamesFacts
<1>4. flag /\ manifest.flag /\ names[pos] \in Stored
      /\ used # <<>>
      /\ \A i \in 1..pos - 1 : IsName(names[i])
  BY <1>1, <1>2, <1>3, ElementOfSeq DEF LoopInv, RightInv
<1>5. \A i \in 1..Len(names) :
        /\ names[i] = None <=> manifest.names[i] = None
        /\ names[i] # None => names[i].kind \in {"cipher", "name"}
  BY <1>2, <1>3 DEF TypeOK
\* With the right key the name at hand is as sent.
<1>6. OnlyRight => key = manifest.key /\ names[pos] = AsSent(manifest)[pos]
  BY <1>1, <1>2, <1>3 DEF RightInv
<1>7. CASE names[pos] = None
  <2>1. pos' = pos + 1 /\ UNCHANGED <<names, pc, result, manifest, flag, key, used>>
    BY <1>1, <1>7
  <2>2. TypeOK'
    BY <1>2, <1>3, <2>1 DEF TypeOK
  <2>3. LoopInv'
    <3>1. \A i \in 1..pos : IsName(names[i])
      BY <1>3, <1>4, <1>7 DEF IsName
    <3>2. pos' - 1 = pos
      BY <1>3, <2>1
    <3> QED
      BY <1>2, <1>4, <2>1, <3>1, <3>2 DEF LoopInv, IsName
  <2>4. RightInv'
    <3>1. ASSUME OnlyRight, NEW i \in 1..Len(names)
          PROVE  names[i] = IF i < pos + 1 THEN Final(i) ELSE AsSent(manifest)[i]
      <4>1. i < pos + 1 <=> (i < pos \/ i = pos)
        BY <1>3
      <4>2. CASE i = pos
        BY <1>3, <1>5, <1>7, <4>1, <4>2 DEF Final
      <4>3. CASE i # pos
        BY <1>1, <1>2, <3>1, <4>1, <4>3 DEF RightInv
      <4> QED
        BY <4>2, <4>3
    <3> QED
      BY <1>1, <1>4, <1>6, <2>1, <3>1 DEF RightInv, OnlyRight, Final
  <2> QED
    BY <2>2, <2>3, <2>4 DEF NamesIInv
<1>8. ASSUME names[pos] # None, NEW r \in Outcomes(names[pos]), r.ok,
             names' = [names EXCEPT ![pos] = Name(r.data)], pos' = pos + 1,
             UNCHANGED <<pc, result>>
      PROVE  NamesIInv'
  <2>1. PICK d \in Seq(Byte) : r = Ok(d) /\ r.data = d
    <3>1. r # Error
      BY <1>8 DEF Error
    <3>2. \E d \in Seq(Byte) : r = Ok(d)
      BY <1>4, <1>8, <3>1, OutcomeFacts
    <3>3. \A d \in Seq(Byte) : Ok(d).data = d
      BY DEF Ok
    <3> QED
      BY <3>2, <3>3, Zenon
  <2> DEFINE n == Name(d)
  <2>2. n \in Stored /\ n # None /\ n.kind = "name" /\ IsName(n)
    BY NameFacts
  <2> HIDE DEF n
  <2>3. names' = [names EXCEPT ![pos] = n]
    BY <1>8, <2>1 DEF n
  <2>4. /\ names' \in Seq(Stored) /\ Len(names') = Len(names) /\ DOMAIN names' = 1..Len(names)
        /\ names'[pos] = n /\ \A i \in 1..Len(names) : i # pos => names'[i] = names[i]
    <3> HIDE DEF Stored
    <3>1. /\ names' \in Seq(Stored) /\ Len(names') = Len(names)
          /\ \A i \in 1..Len(names) : names'[i] = IF i = pos THEN n ELSE names[i]
      BY <1>3, <2>2, <2>3, ExceptSeq
    <3>2. DOMAIN names' = 1..Len(names')
      BY <3>1, LenProperties
    <3> QED
      BY <1>3, <3>1, <3>2
  <2>5. TypeOK'
    <3>1. \A i \in 1..Len(names) :
            IF manifest.names[i] = None THEN names'[i] = None
            ELSE names'[i] # None /\ names'[i].kind \in {"cipher", "name"}
      BY <1>3, <1>5, <1>8, <2>2, <2>4
    <3>2. pos' \in 1..Len(names') + 1
      BY <1>3, <1>8, <2>4
    <3> QED
      BY <1>1, <1>2, <1>3, <1>8, <2>4, <3>1, <3>2 DEF TypeOK
  <2>6. LoopInv'
    <3>1. \A i \in 1..pos : IsName(names'[i])
      <4>1. ASSUME NEW i \in 1..pos PROVE IsName(names'[i])
        <5>1. i = pos \/ (i \in 1..pos - 1 /\ i # pos /\ i \in 1..Len(names))
          BY <1>3
        <5> QED
          BY <1>4, <2>2, <2>4, <5>1
      <4> QED
        BY <4>1
    <3>2. pos' - 1 = pos
      BY <1>3, <1>8
    <3> QED
      BY <1>1, <1>2, <1>3, <1>4, <1>8, <2>4, <3>1, <3>2 DEF LoopInv, IsName
  <2>7. RightInv'
    <3>1. OnlyRight => n = Final(pos)
      <4>1. SUFFICES ASSUME OnlyRight PROVE n = Final(pos)
        OBVIOUS
      <4>2. manifest.names[pos] # None
        BY <1>3, <1>5, <1>8
      <4>3. names[pos] = Cipher(manifest.key, manifest.names[pos])
        BY <1>3, <1>4, <1>6, <4>1, <4>2, SentFacts
      <4>4. r = Ok(StripNuls(manifest.names[pos]))
        BY <1>3, <1>6, <1>8, <4>1, <4>2, <4>3, RightOutcome
      <4>5. r.data = StripNuls(manifest.names[pos])
        BY <4>4 DEF Ok
      <4> QED
        BY <2>1, <4>2, <4>5 DEF Final, n
    <3>2. ASSUME OnlyRight, NEW i \in 1..Len(names)
          PROVE  names'[i] = IF i < pos + 1 THEN Final(i) ELSE AsSent(manifest)[i]
      <4>1. i < pos + 1 <=> (i < pos \/ i = pos)
        BY <1>3
      <4>2. CASE i = pos
        BY <2>4, <3>1, <3>2, <4>1, <4>2
      <4>3. CASE i # pos
        BY <1>1, <1>2, <2>4, <3>2, <4>1, <4>3 DEF RightInv
      <4> QED
        BY <4>2, <4>3
    <3> QED
      BY <1>1, <1>4, <1>6, <1>8, <2>4, <3>2 DEF RightInv, OnlyRight, Final
  <2> QED
    BY <2>5, <2>6, <2>7 DEF NamesIInv
<1>9. ASSUME names[pos] # None, NEW r \in Outcomes(names[pos]), ~ r.ok,
             pc' = "idle", result' = "err", UNCHANGED <<names, pos>>
      PROVE  NamesIInv'
  <2>1. ~ OnlyRight
    <3>1. SUFFICES ASSUME OnlyRight PROVE FALSE
      OBVIOUS
    <3>2. manifest.names[pos] # None
      BY <1>3, <1>5, <1>9
    <3>3. names[pos] = Cipher(manifest.key, manifest.names[pos])
      BY <1>3, <1>4, <1>6, <3>1, <3>2, SentFacts
    <3>4. r = Ok(StripNuls(manifest.names[pos]))
      BY <1>3, <1>6, <1>9, <3>1, <3>2, <3>3, RightOutcome
    <3> QED
      BY <1>9, <3>4 DEF Ok
  <2>2. TypeOK'
    BY <1>1, <1>2, <1>9 DEF TypeOK
  <2>3. LoopInv'
    BY <1>1, <1>2, <1>4, <1>9 DEF LoopInv, IsName
  <2>4. RightInv'
    BY <1>1, <1>4, <1>9, <2>1 DEF RightInv, OnlyRight
  <2> QED
    BY <2>2, <2>3, <2>4 DEF NamesIInv
<1> QED
  BY <1>1, <1>7, <1>8, <1>9

\* The end of the loop: every name is behind it, and the flag is cleared.
LEMMA FinishStep ==
  ASSUME NamesIInv, Finish
  PROVE  NamesIInv'
<1>1. /\ pc = "loop" /\ pos = Len(names) + 1 /\ flag' = FALSE /\ pc' = "idle" /\ result' = "ok"
      /\ UNCHANGED <<manifest, names, key, pos, used>>
  BY DEF Finish
<1>2. TypeOK /\ LoopInv /\ RightInv /\ Len(names) \in Nat
  BY NamesFacts DEF NamesIInv
<1>3. pos - 1 = Len(names) /\ used # <<>>
  BY <1>1, <1>2 DEF RightInv
<1>4. TypeOK'
  BY <1>1, <1>2 DEF TypeOK
<1>5. LoopInv'
  BY <1>1, <1>2, <1>3 DEF LoopInv, IsName
<1>6. RightInv'
  <2>1. OnlyRight => \A i \in 1..Len(names) : names[i] = Final(i)
    BY <1>1, <1>2 DEF RightInv
  <2> QED
    BY <1>1, <1>3, <2>1 DEF RightInv, OnlyRight, Final
<1> QED
  BY <1>4, <1>5, <1>6 DEF NamesIInv

-----------------------------------------------------------------------------
(* The invariant and what follows from it *)

\* A manifest as the CDN has it satisfies the invariant.
LEMMA NamesStart ==
  Init => NamesIInv
<1> SUFFICES ASSUME Init
             PROVE  NamesIInv
  OBVIOUS
<1>1. manifest \in Manifests /\ names = AsSent(manifest) /\ flag = manifest.flag /\ used = <<>>
      /\ pc = "idle" /\ pos = 1 /\ result = "none" /\ key \in Key
  BY DEF Init
<1>2. /\ names \in Seq(Stored) /\ Len(names) = Len(manifest.names) /\ Len(names) \in Nat
      /\ DOMAIN manifest.names = 1..Len(names)
      /\ \A i \in 1..Len(names) :
           /\ names[i] = None <=> manifest.names[i] = None
           /\ names[i] # None => names[i].kind \in {"cipher", "name"}
           /\ ~ manifest.flag => IsName(names[i])
  BY <1>1, SentFacts
<1>3. DOMAIN names = 1..Len(names)
  BY <1>2, LenProperties
<1>4. TypeOK
  <2>1. flag \in BOOLEAN
    BY <1>1, NamesAssumption
  <2> QED
    BY <1>1, <1>2, <1>3, <2>1 DEF TypeOK
<1>5. LoopInv
  BY <1>1, <1>2, EmptySeq DEF LoopInv
<1>6. RightInv
  BY <1>1 DEF RightInv
<1> QED
  BY <1>4, <1>5, <1>6 DEF NamesIInv

\* The invariant holds after any calls with any keys.
THEOREM NamesInvariance == Spec => []NamesIInv
<1>1. NamesIInv /\ [Next]_vars => NamesIInv'
  <2>1. NamesIInv /\ UNCHANGED vars => NamesIInv'
    BY DEF vars, NamesIInv, TypeOK, LoopInv, RightInv, IsName, OnlyRight, Final
  <2> QED
    BY <2>1, CallStep, DecryptStep, FinishStep DEF Next
<1> QED
  BY NamesStart, <1>1, PTL DEF Spec

\* A clear flag never lies, and calls with the right key alone give the
\* depot's names.
THEOREM NamesHold == Spec => []NamesInv
<1>1. NamesIInv => NamesInv
  <2> SUFFICES ASSUME NamesIInv
               PROVE  NamesInv
    OBVIOUS
  <2>1. DOMAIN names = 1..Len(names) /\ DOMAIN used = 1..Len(used)
    BY NamesFacts
  <2>2. FlagHonest
    BY <2>1 DEF NamesIInv, LoopInv, FlagHonest, IsName
  <2>3. RightKeyWorks
    <3>1. SUFFICES ASSUME pc = "idle", used # <<>>, \A i \in DOMAIN used : used[i] = manifest.key
                   PROVE  /\ result = "ok"
                          /\ manifest.flag => \A i \in DOMAIN names : names[i] = Final(i)
      BY DEF RightKeyWorks, Final
    <3>2. OnlyRight
      BY <2>1, <3>1 DEF OnlyRight
    <3> QED
      BY <2>1, <3>1, <3>2 DEF NamesIInv, RightInv
  <2> QED
    BY <2>2, <2>3 DEF NamesIInv, NamesInv
<1> QED
  BY NamesInvariance, <1>1, PTL

-----------------------------------------------------------------------------
(* The two ways to decrypt *)

\* What the last call decrypted.
Sealed == [key |-> right, text |-> Plain]

\* What a call returned is what the two ways make of the ciphertext.
CipherIInv ==
  /\ text \in Seq(Byte) /\ padded \in BOOLEAN
  /\ ecb # {} =>
       part = "cipher" /\ ecb = ecb_decrypt(key, Sealed) /\ cbc = symmetric_decrypt(key, Sealed)

\* The two ways to remove padding differ only where one fails.
LEMMA UnpadsAgree ==
  ASSUME NEW y \in Seq(Byte)
  PROVE  /\ CbcUnpad(y).ok => CbcUnpad(y) = EcbUnpad(y)
         /\ ~ CbcUnpad(y).ok => EcbUnpad(y) \in {Error, Ok(y)}
         /\ Len(y) < B => EcbUnpad(y) \in {Error, Ok(y)}
<1>1. Len(y) \in Nat /\ B \in Nat \ {0} /\ (Len(y) = 0 => y = <<>>)
  BY LenProperties, EmptySeq, CiphersAssumption
<1>2. ~ Error.ok /\ \A d : Ok(d).ok
  BY DEF Error, Ok
<1>3. CASE Len(y) % B # 0 \/ ~ Padded(y)
  BY <1>2, <1>3 DEF CbcUnpad, EcbUnpad
<1>4. CASE Len(y) % B = 0 /\ Padded(y)
  <2>1. CbcUnpad(y) = Ok(Front(y, y[Len(y)])) /\ EcbUnpad(y) = Ok(Front(y, y[Len(y)]))
    BY <1>4 DEF CbcUnpad, EcbUnpad
  <2>2. ~ (Len(y) < B)
    <3> SUFFICES ASSUME Len(y) < B PROVE FALSE
      OBVIOUS
    <3>1. Len(y) = B * 0 + Len(y) /\ Len(y) \in 0..B - 1 /\ 0 \in Nat
      BY <1>1
    <3>2. Len(y) % B = Len(y)
      BY <1>1, <3>1, ModUnique
    <3>3. y = <<>>
      BY <1>1, <1>4, <3>2
    <3> QED
      BY <1>4, <3>3 DEF Padded
  <2> QED
    BY <1>2, <2>1, <2>2
<1> QED
  BY <1>3, <1>4

\* A padded text is at least a block.
LEMMA PlainFacts ==
  ASSUME CipherIInv
  PROVE  Plain \in Seq(Byte) /\ (padded => Plain = Pad(text) /\ B <= Len(Plain))
<1>1. PICK n \in 1..B : Pad(text) \in Seq(Byte) /\ Len(Pad(text)) = Len(text) + n /\ Len(Pad(text)) % B = 0
  BY PadFacts DEF CipherIInv
<1>2. B <= Len(Pad(text))
  <2>1. B \in Nat \ {0} /\ Len(text) \in Nat
    BY CiphersAssumption, LenProperties DEF CipherIInv
  <2> SUFFICES ASSUME Len(Pad(text)) < B PROVE FALSE
    BY <1>1, <2>1
  <2>2. Len(Pad(text)) = B * 0 + Len(Pad(text)) /\ Len(Pad(text)) \in 0..B - 1 /\ Len(Pad(text)) \in Nat /\ Len(Pad(text)) # 0
    BY <1>1, <2>1
  <2>3. Len(Pad(text)) % B = Len(Pad(text))
    BY <2>1, <2>2, ModUnique
  <2> QED
    BY <1>1, <2>2, <2>3
<1> QED
  BY <1>1, <1>2 DEF Plain, CipherIInv

\* Under its key the ciphertext has one outcome, its plaintext.
LEMMA CipherRoundTrip == CipherIInv => RoundTrip
<1> SUFFICES ASSUME CipherIInv, ecb # {}, key = right
             PROVE  /\ padded => ecb = {Ok(text)} /\ cbc = {Ok(text)}
                    /\ \A e \in ecb, c \in cbc : IF c.ok THEN e = c ELSE e = Error \/ e = Ok(Plain)
  BY DEF RoundTrip
<1>1. Plain \in Seq(Byte) /\ (padded => Plain = Pad(text) /\ B <= Len(Plain))
  BY PlainFacts
<1>2. Texts(right, Sealed) = {Plain} /\ right # ShortKey /\ Sealed.text = Plain
  BY CipherAssumption DEF Texts, Sealed
<1>3. ecb = {EcbUnpad(Plain)}
  BY <1>2 DEF CipherIInv, ecb_decrypt
<1>4. cbc = IF Len(Plain) < B THEN {Error} ELSE {CbcUnpad(Plain)}
  BY <1>2 DEF CipherIInv, symmetric_decrypt
<1>5. ASSUME padded PROVE ecb = {Ok(text)} /\ cbc = {Ok(text)}
  <2>1. ~ (Len(Plain) < B)
    BY <1>1, <1>5, LenProperties, CiphersAssumption
  <2>2. CbcUnpad(Plain) = Ok(text) /\ EcbUnpad(Plain) = Ok(text)
    BY <1>1, <1>5, PaddingRemoved DEF CipherIInv
  <2> QED
    BY <1>3, <1>4, <2>1, <2>2
<1>6. ASSUME NEW e \in ecb, NEW c \in cbc
      PROVE  IF c.ok THEN e = c ELSE e = Error \/ e = Ok(Plain)
  <2>1. e = EcbUnpad(Plain)
    BY <1>3, <1>6
  <2>2. ~ Error.ok
    BY DEF Error
  <2>3. CASE Len(Plain) < B
    BY <1>1, <1>4, <2>1, <2>2, <2>3, UnpadsAgree
  <2>4. CASE ~ (Len(Plain) < B)
    <3>1. c = CbcUnpad(Plain)
      BY <1>4, <2>4
    <3> QED
      BY <1>1, <2>1, <3>1, UnpadsAgree
  <2> QED
    BY <2>3, <2>4
<1> QED
  BY <1>5, <1>6

\* Before the call nothing has come back.
LEMMA CipherStarts == MCInit => CipherIInv
<1> SUFFICES ASSUME MCInit PROVE CipherIInv
  OBVIOUS
<1>1. text \in Seq(Byte)
  <2>1. CASE part = "cipher"
    <3>1. PICK n \in 0..MaxText : text \in [1..n -> Byte]
      BY <2>1 DEF MCInit, CipherInit
    <3>2. n \in Nat
      BY <3>1, CipherAssumption
    <3> QED
      BY <3>1, <3>2, SeqDef
  <2>2. CASE part # "cipher"
    BY <2>2, EmptySeq DEF MCInit, CipherInit
  <2> QED
    BY <2>1, <2>2
<1>2. padded \in BOOLEAN /\ ecb = {}
  BY DEF MCInit, CipherInit
<1> QED
  BY <1>1, <1>2 DEF CipherIInv

\* The call alone changes what it returned, and the key stays.
LEMMA CipherStep == CipherIInv /\ [MCNext]_<<part, vars, cipher, disk>> => CipherIInv'
<1> SUFFICES ASSUME CipherIInv, [MCNext]_<<part, vars, cipher, disk>> PROVE CipherIInv'
  OBVIOUS
<1>1. CASE part = "cipher" /\ Decrypt /\ UNCHANGED <<part, vars, disk>>
  <2>1. part' = part /\ key' = key /\ text' = text /\ padded' = padded
    BY <1>1 DEF Decrypt, vars
  <2>2. Sealed' = Sealed
    BY <2>1 DEF Sealed, Plain
  <2>3. ecb' = ecb_decrypt(key, Sealed) /\ cbc' = symmetric_decrypt(key, Sealed)
    BY <1>1 DEF Decrypt, Sealed
  <2> QED
    BY <1>1, <2>1, <2>2, <2>3 DEF CipherIInv
<1>2. CASE UNCHANGED <<part, cipher>> /\ (part = "cipher" => UNCHANGED key)
  <2>1. UNCHANGED <<part, text, padded, ecb, cbc>>
    BY <1>2 DEF cipher
  <2>2. Sealed' = Sealed
    BY <2>1 DEF Sealed, Plain
  <2> QED
    BY <1>2, <2>1, <2>2 DEF CipherIInv
<1> QED
  BY <1>1, <1>2 DEF MCNext, vars

\* What was padded and encrypted comes back whole under its key, for every
\* text, and the two ways to decrypt differ only where one of them fails.
THEOREM RoundTripHolds == MCSpec => []RoundTrip
BY CipherStarts, CipherStep, CipherRoundTrip, PTL DEF MCSpec

-----------------------------------------------------------------------------
(* The install tree: no file mixes versions *)

\* The paths of the tree.
Path == Installer!Path
\* The steps of a run.
Running == step \in {"mapping", "symlink", "set_len", "chmod", "writing", "aborted", "failed"}

\* The steps of a run that has not failed.
Active == step \in {"mapping", "symlink", "set_len", "chmod", "writing", "done"}

\* The mappings that are prepared, or whose file is open.
Opened == {i \in DOMAIN Paths : i < place \/ (i = place /\ step \in {"set_len", "chmod"})}

\* The file at p holds blocks of version v, zeros, and late writes.
Of(p, v) == \A i \in 1..Len(tree[p].data) : tree[p].data[i] \in {0, Stray, v}

\* What a file's chunks are written to holds nothing of another version.
Holds(q) == tree[q].kind = "file" /\ Of(q, version)

\* What links point to is not mapped to a link or directory by any version.
LinksOk ==
  \A p \in Path : tree[p].kind = "link" =>
    \A v \in DOMAIN Versions : Installer!KindIn(v, tree[p].to) \in {"none", "file"}

\* What each step of a run has established for the next.
Steps ==
  /\ Running => version \in DOMAIN Versions
  /\ step \in {"symlink", "set_len", "chmod"} => place \in DOMAIN Paths
  /\ step = "symlink" => Installer!mapping.kind = "link" /\ Installer!mapping.to # ""
  /\ step \in {"set_len", "chmod"} => Installer!mapping.kind = "file"
  /\ step = "writing" \/ pending # {} => place = Len(Paths) + 1

\* The inductive invariant for versions of any kinds.
MixIInv ==
  /\ Installer!TypeOK /\ Steps /\ LinksOk
  /\ \A p \in Path : tree[p].kind = "file" => \E v \in Installer!Block : Of(p, v)
  /\ Running => \A i \in Opened : Installer!IsFile(version, Paths[i]) => Holds(Installer!Resolve(Paths[i]))

-----------------------------------------------------------------------------
(* The install tree: a run installs its version *)

\* What a path may hold: what some version of the family maps it to.
Fits(p) ==
  \/ tree[p].kind = "none"
  \/ \E v \in Similar : tree[p].kind = Installer!KindIn(v, p)
  \/ tree[p].kind = "dir" /\ \E v \in Similar, q \in Path : Installer!KindIn(v, q) # "none" /\ p \in Above[q]

\* The file of p has its size and holds the chunks that are written, but for
\* the blocks that late writes have taken, and is longer by such a write alone.
Filled(p) ==
  LET d == tree[p].data
      n == Versions[version][p].size
  IN /\ tree[p].kind = "file" /\ n <= Len(d)
     /\ \A i \in 1..n : step \in {"writing", "done"} /\ [path |-> p, at |-> i] \notin pending =>
                       d[i] \in {version, Stray}
     /\ ~ (Len(d) <= n) => d[Len(d)] = Stray

\* The mapping of p is on the disk.
Made(p) ==
  LET m == Versions[version][p] IN
  /\ m.kind = "dir" => tree[p] = Installer!Dir
  /\ m.kind = "link" => tree[p] = Installer!Link(m.to)
  /\ m.kind = "file" => Filled(p) /\ (m.exec => tree[p].exec)

\* The inductive invariant for versions that agree on kinds.
SameIInv ==
  /\ MixIInv
  /\ step # "idle" => version \in Similar
  /\ step # "failed"
  /\ \A p \in Path : Fits(p)
  /\ step = "symlink" => tree[Installer!here] = Installer!Nothing
  /\ step = "set_len" => tree[Installer!here].kind = "file"
  /\ step = "chmod" => Filled(Installer!here) /\ Installer!mapping.exec
  /\ step = "done" => place = Len(Paths) + 1 /\ pending = {}
  /\ Active => \A i \in 1..place - 1 : Made(Paths[i])

-----------------------------------------------------------------------------

\* A position of Paths and its path.
LEMMA PathsFacts ==
  /\ Len(Paths) \in Nat /\ DOMAIN Paths = 1..Len(Paths)
  /\ \A i \in DOMAIN Paths : Paths[i] \in Path
  /\ \A i, j \in DOMAIN Paths : Paths[i] = Paths[j] => i = j
  /\ \A p \in Path : \E i \in DOMAIN Paths : p = Paths[i]
  /\ "" \notin Path
<1>1. Paths \in Seq(Path)
  BY TreeAssumption DEF Installer!InstallAssumption, Path
<1>2. \A p \in Path : \E i \in DOMAIN Paths : p = Paths[i]
  BY DEF Path, Installer!Path
<1>3. Len(Paths) \in Nat /\ DOMAIN Paths = 1..Len(Paths) /\ \A i \in DOMAIN Paths : Paths[i] \in Path
  BY <1>1, LenProperties, ElementOfSeq
<1>4. /\ "" \notin Path
      /\ \A i, j \in DOMAIN Paths : Paths[i] = Paths[j] => i = j
  BY TreeAssumption DEF Installer!InstallAssumption, Path
<1> QED
  BY <1>2, <1>3, <1>4

\* A version maps a path to nothing, a directory, a link or a file.
LEMMA MappingFacts ==
  ASSUME NEW v \in DOMAIN Versions, NEW p \in Path
  PROVE  /\ Installer!KindIn(v, p) = Versions[v][p].kind
         /\ \/ Versions[v][p] = Installer!NoMapping /\ Versions[v][p].kind = "none"
            \/ Versions[v][p].kind = "dir"
            \/ Versions[v][p].kind = "link" /\ Versions[v][p].to \in Path \cup {""}
            \/ Versions[v][p].kind = "file" /\ Versions[v][p].size \in Nat /\ Versions[v][p].exec \in BOOLEAN
<1>1. Versions[v][p] \in Installer!Mapping
  BY TreeAssumption DEF Installer!InstallAssumption, Path
<1> DEFINE m == Versions[v][p]
<1>2. Installer!KindIn(v, p) = m.kind
  BY DEF Installer!KindIn
<1>3. CASE m = Installer!NoMapping
  BY <1>2, <1>3 DEF Installer!NoMapping
<1>4. CASE m \in [kind : {"dir"}]
  BY <1>2, <1>4
<1>5. CASE m \in [kind : {"link"}, to : Path \cup {""}]
  BY <1>2, <1>5
<1>6. CASE m \in [kind : {"file"}, size : Nat, exec : BOOLEAN]
  BY <1>2, <1>6
<1> HIDE DEF m
<1> QED
  BY <1>1, <1>3, <1>4, <1>5, <1>6 DEF Installer!Mapping, Path, m

\* A path holds nothing, a directory, a link or a file, and resolves to a path.
LEMMA EntryFacts ==
  ASSUME tree \in [Path -> Installer!Entry], NEW p \in Path
  PROVE  /\ \/ tree[p].kind = "none" /\ tree[p] = Installer!Nothing
            \/ tree[p].kind = "dir" /\ tree[p] = Installer!Dir
            \/ tree[p].kind = "link" /\ tree[p].to \in Path /\ tree[p] = Installer!Link(tree[p].to)
            \/ tree[p].kind = "file" /\ tree[p].data \in Seq(Installer!Block) /\ tree[p].exec \in BOOLEAN
         /\ Installer!Resolve(p) \in Path
         /\ Installer!Resolve(p) # p => tree[p].kind = "link"
         /\ tree[p].kind # "link" => Installer!Resolve(p) = p
         /\ tree[p].kind = "link" => Installer!Resolve(p) = tree[p].to
BY DEF Installer!Entry, Installer!Nothing, Installer!Dir, Installer!Link, Installer!Resolve, Path

\* A job is a block of a file the version has.
LEMMA JobsFacts ==
  ASSUME NEW v, NEW j
  PROVE  j \in Installer!Jobs(v) <=>
           \E p \in Path : \E i \in 1..Versions[v][p].size :
             Installer!IsFile(v, p) /\ j = [path |-> p, at |-> i]
BY DEF Installer!Jobs, Path

\* set_len cuts the data or fills it with zeros.
LEMMA ResizedFacts ==
  ASSUME NEW d \in Seq(Installer!Block), NEW n \in Nat
  PROVE  /\ Installer!Resized(d, n) \in Seq(Installer!Block)
         /\ DOMAIN Installer!Resized(d, n) = 1..n /\ Len(Installer!Resized(d, n)) = n
         /\ \A i \in 1..n : i <= Len(d) => Installer!Resized(d, n)[i] = d[i]
         /\ \A i \in 1..n : ~ (i <= Len(d)) => Installer!Resized(d, n)[i] = 0
<1>0. 0 \in Installer!Block
  BY DEF Installer!Block, Installer!Zero
<1>1. Len(d) \in Nat /\ \A i \in 1..Len(d) : d[i] \in Installer!Block
  BY LenProperties, ElementOfSeq
<1>2. Installer!Resized(d, n) = [i \in 1..n |-> IF i <= Len(d) THEN d[i] ELSE 0]
  BY DEF Installer!Resized, Installer!Zero
<1>3. Installer!Resized(d, n) \in [1..n -> Installer!Block]
  BY <1>0, <1>1, <1>2
<1>4. Installer!Resized(d, n) \in Seq(Installer!Block)
  BY <1>3, SeqDef
<1> QED
  BY <1>2, <1>3, <1>4, LenProperties

\* A step that opens no path but the one it is at.
LEMMA OpenedGrows ==
  ASSUME place \in Nat, place' \in {place, place + 1},
         place' = place + 1 => step' \notin {"set_len", "chmod"}
  PROVE  Opened' \subseteq Opened \cup {place}
<1> SUFFICES ASSUME NEW i \in Opened', i # place
             PROVE  i \in Opened
  OBVIOUS
<1> DEFINE L == Len(Paths)
<1>0. i \in DOMAIN Paths /\ L \in Nat /\ DOMAIN Paths = 1..L
  BY PathsFacts DEF Opened
<1> HIDE DEF L
<1>1. i \in DOMAIN Paths /\ i \in Nat
  BY <1>0
<1>2. i < place' \/ (i = place' /\ step' \in {"set_len", "chmod"})
  BY DEF Opened
<1>3. i < place
  BY <1>1, <1>2
<1> QED
  BY <1>1, <1>3 DEF Opened

\* A step that opens none.
LEMMA OpenedKept ==
  ASSUME place' = place, step' \notin {"set_len", "chmod"}
  PROVE  Opened' \subseteq Opened
BY DEF Opened

\* The mapping at place is open once its file is created.
LEMMA OpenedFacts ==
  /\ Opened \subseteq DOMAIN Paths
  /\ step \in {"mapping", "symlink"} /\ place \in DOMAIN Paths => place \notin Opened
  /\ step \in {"set_len", "chmod"} /\ place \in DOMAIN Paths => place \in Opened
<1> DEFINE L == Len(Paths)
<1>0. L \in Nat /\ DOMAIN Paths = 1..L
  BY PathsFacts
<1> HIDE DEF L
<1>1. step \in {"mapping", "symlink"} /\ place \in DOMAIN Paths => place \notin Opened
  BY <1>0 DEF Opened
<1> QED
  BY <1>1 DEF Opened

\* What a path resolves to stays what it is while the path and the kind do.
LEMMA Resolved ==
  ASSUME tree \in [Path -> Installer!Entry], tree' \in [Path -> Installer!Entry], NEW p \in Path,
         tree'[p].kind = tree[p].kind, tree[p].kind = "link" => tree'[p] = tree[p]
  PROVE  Installer!Resolve(p)' = Installer!Resolve(p)
BY DEF Installer!Resolve

\* create_dir_all makes directories of what is missing, and nothing else.
LEMMA DirsFacts ==
  ASSUME tree \in [Path -> Installer!Entry], NEW ds \in SUBSET Path, Installer!Creatable(ds)
  PROVE  /\ Installer!WithDirs(ds) \in [Path -> Installer!Entry]
         /\ \A p \in Path : tree[p].kind \in {"file", "link"} => Installer!WithDirs(ds)[p] = tree[p]
         /\ \A p \in Path : Installer!WithDirs(ds)[p] # tree[p] =>
              p \in ds /\ tree[p].kind = "none" /\ Installer!WithDirs(ds)[p] = Installer!Dir
         /\ \A p \in ds : Installer!WithDirs(ds)[p] = Installer!Dir
<1>1. Installer!WithDirs(ds) = [p \in Path |-> IF p \in ds THEN Installer!Dir ELSE tree[p]]
  BY DEF Installer!WithDirs, Path
<1>2. Installer!Dir \in Installer!Entry
  BY DEF Installer!Entry
<1>3. \A p \in ds : tree[p].kind = "none" \/ tree[p] = Installer!Dir
  BY EntryFacts DEF Installer!Creatable
<1>4. \A p \in ds : tree[p].kind \in {"none", "dir"}
  BY DEF Installer!Creatable
<1> QED
  BY <1>1, <1>2, <1>3, <1>4

\* The types of a state, for Path and Paths[place].
LEMMA Typed ==
  ASSUME Installer!TypeOK
  PROVE  /\ tree \in [Path -> Installer!Entry]
         /\ version \in Installer!Block
         /\ place \in 1..Len(Paths) + 1 /\ place \in Nat
         /\ place \in DOMAIN Paths => Installer!here \in Path /\ Above[Installer!here] \in SUBSET Path
                                      /\ Installer!here \notin Above[Installer!here]
<1> DEFINE L == Len(Paths)
<1>0. L \in Nat /\ place \in 1..L + 1
  BY PathsFacts DEF Installer!TypeOK
<1> HIDE DEF L
<1>1. place \in 1..L + 1 /\ place \in Nat
  BY <1>0
<1>2. place \in DOMAIN Paths => Installer!here \in Path
  BY PathsFacts DEF Installer!here
<1>3. \A p \in Path : Above[p] \in SUBSET Path /\ p \notin Above[p]
  BY TreeAssumption DEF Installer!InstallAssumption, Path
<1>4. version \in Installer!Block
  BY DEF Installer!TypeOK, Installer!Block
<1> QED
  BY <1>1, <1>2, <1>3, <1>4 DEF Installer!TypeOK, Path, L

\* A step that adds no write and keeps the version keeps the types.
LEMMA TypeKept ==
  ASSUME Installer!TypeOK, tree' \in [Path -> Installer!Entry], version' = version, runs' = runs,
         step' \in {"idle", "mapping", "symlink", "set_len", "chmod", "writing", "done", "aborted", "failed"},
         place' \in 1..Len(Paths) + 1, pending' \subseteq pending, late' \subseteq late,
         pending' # {} => step' \in {"writing", "aborted", "failed"}
  PROVE  Installer!TypeOK'
<1>1. Installer!Jobs(version)' = Installer!Jobs(version) /\ \A w : Installer!Jobs(w)' = Installer!Jobs(w)
  BY DEF Installer!Jobs, Installer!IsFile, Installer!KindIn
<1>2. pending' # {} => pending' \subseteq Installer!Jobs(version)
  BY DEF Installer!TypeOK
<1>3. \A w \in late' : w.version \in DOMAIN Versions /\ w.job \in Installer!Jobs(w.version)
  BY DEF Installer!TypeOK
<1>4. version \in {Installer!Zero} \cup DOMAIN Versions /\ runs \in 0..MaxRuns
  BY DEF Installer!TypeOK
<1>5. Installer!Entry' = Installer!Entry /\ Installer!Path = Path
  BY DEF Installer!Entry, Installer!Block, Path
<1> QED
  BY <1>1, <1>2, <1>3, <1>4, <1>5 DEF Installer!TypeOK

\* What a step leaves of the files and the links.
LEMMA FilesKept ==
  ASSUME MixIInv, tree' \in [Path -> Installer!Entry], version' = version,
         \A p \in Path : tree'[p].kind = "file" =>
           tree'[p] = tree[p] \/ \A i \in 1..Len(tree'[p].data) : tree'[p].data[i] \in {0, Stray, version}
  PROVE  (\A p \in Path : tree[p].kind = "file" => \E v \in Installer!Block : Of(p, v))'
<1> SUFFICES ASSUME NEW p \in Path, tree'[p].kind = "file"
             PROVE  \E v \in Installer!Block : \A i \in 1..Len(tree'[p].data) : tree'[p].data[i] \in {0, Stray, v}
  BY DEF Of, Installer!Block, Installer!Zero
<1>1. CASE tree'[p] = tree[p]
  BY <1>1 DEF MixIInv, Of
<1>2. CASE \A i \in 1..Len(tree'[p].data) : tree'[p].data[i] \in {0, Stray, version}
  BY <1>2, Typed DEF MixIInv
<1> QED
  BY <1>1, <1>2

\* A new link has the target a version gives it.
LEMMA LinksKept ==
  ASSUME LinksOk,
         \A p \in Path : tree'[p].kind = "link" =>
           \/ tree'[p] = tree[p]
           \/ \E v \in DOMAIN Versions : Versions[v][p].kind = "link" /\ Versions[v][p].to # "" /\ tree'[p].to = Versions[v][p].to
  PROVE  LinksOk'
<1> SUFFICES ASSUME NEW p \in Path, tree'[p].kind = "link", NEW w \in DOMAIN Versions
             PROVE  Installer!KindIn(w, tree'[p].to) \in {"none", "file"}
  BY DEF LinksOk, Installer!KindIn
<1>1. CASE tree'[p] = tree[p]
  BY <1>1 DEF LinksOk
<1>2. ASSUME NEW v \in DOMAIN Versions, Versions[v][p].kind = "link", Versions[v][p].to # "", tree'[p].to = Versions[v][p].to
      PROVE  Installer!KindIn(w, tree'[p].to) \in {"none", "file"}
  BY <1>2, TreeAssumption DEF Installer!InstallAssumption, Installer!KindIn, Path
<1> QED
  BY <1>1, <1>2

\* A mapping stays open while its path stays what it is and its file stays a
\* file of this version.
LEMMA StaysOpen ==
  ASSUME tree \in [Path -> Installer!Entry], tree' \in [Path -> Installer!Entry], NEW p \in Path,
         version' = version,
         tree'[p].kind = tree[p].kind, tree[p].kind = "link" => tree'[p] = tree[p],
         tree'[Installer!Resolve(p)].kind = "file",
         \A i \in 1..Len(tree'[Installer!Resolve(p)].data) : tree'[Installer!Resolve(p)].data[i] \in {0, Stray, version}
  PROVE  Holds(Installer!Resolve(p))'
<1>1. Installer!Resolve(p)' = Installer!Resolve(p)
  BY Resolved
<1> QED
  BY <1>1 DEF Holds, Of

\* The place after a mapping is one again.
LEMMA PlaceFacts ==
  ASSUME place \in DOMAIN Paths
  PROVE  place \in Nat /\ place \in 1..Len(Paths) + 1 /\ place + 1 \in 1..Len(Paths) + 1 /\ place + 1 # place
<1> DEFINE L == Len(Paths)
<1>1. L \in Nat /\ place \in 1..L
  BY PathsFacts
<1> HIDE DEF L
<1>2. place \in Nat /\ place \in 1..L + 1 /\ place + 1 \in 1..L + 1 /\ place + 1 # place
  BY <1>1
<1> QED
  BY <1>2 DEF L

\* The steps of prepare_directory_tree.
Preparing == step \in {"mapping", "symlink", "set_len", "chmod"}

\* A step at one mapping keeps the invariant if it keeps files and links, what
\* is open, and has a file open where it goes on to one.
LEMMA MixPrepare ==
  ASSUME MixIInv, Preparing, place \in DOMAIN Paths, UNCHANGED <<version, pending, late, runs>>,
         tree' \in [Path -> Installer!Entry], LinksOk',
         (\A p \in Path : tree[p].kind = "file" => \E v \in Installer!Block : Of(p, v))',
         \/ step' = "mapping" /\ place' = place + 1
         \/ step' \in {"symlink", "set_len", "chmod"} /\ place' = place,
         step' = "symlink" => Installer!mapping.kind = "link" /\ Installer!mapping.to # "",
         step' \in {"set_len", "chmod"} => Installer!mapping.kind = "file",
         \A i \in Opened \cup {place} :
           Installer!IsFile(version, Paths[i]) => Holds(Installer!Resolve(Paths[i]))'
  PROVE  MixIInv'
<1>2. pending = {}
  BY DEF MixIInv, Installer!TypeOK, Preparing
<1>3. Installer!TypeOK'
  <2>1. place' \in 1..Len(Paths) + 1
    BY PlaceFacts, Zenon
  <2>2. Installer!TypeOK
    BY DEF MixIInv
  <2> QED
    BY <1>2, <2>1, <2>2, TypeKept
<1>4. Steps'
  <2>1. version \in DOMAIN Versions
    BY DEF MixIInv, Steps, Running, Preparing
  <2>2. step' \in {"symlink", "set_len", "chmod"} => Installer!mapping' = Installer!mapping
    BY DEF Installer!mapping, Installer!here
  <2> QED
    BY <1>2, <2>1, <2>2 DEF Steps, Running
<1>5. Opened' \subseteq Opened \cup {place}
  <2>1. place' = place + 1 => step' = "mapping"
    BY PlaceFacts, Zenon
  <2>2. place \in Nat /\ place' \in {place, place + 1}
    BY PlaceFacts, Zenon
  <2> QED
    BY <2>1, <2>2, OpenedGrows, Zenon
<1>6. ASSUME NEW i \in Opened', Installer!IsFile(version, Paths[i])
      PROVE  Holds(Installer!Resolve(Paths[i]))'
  BY <1>5, <1>6
<1>7. (Running => \A i \in Opened : Installer!IsFile(version, Paths[i]) => Holds(Installer!Resolve(Paths[i])))'
  BY <1>6 DEF Installer!IsFile, Installer!KindIn
<1> QED
  BY <1>3, <1>4, <1>7 DEF MixIInv

\* The mapping at place, in the words of its kind.
LEMMA Here ==
  ASSUME MixIInv, Preparing, place \in DOMAIN Paths
  PROVE  /\ version \in DOMAIN Versions
         /\ Installer!here = Paths[place] /\ Installer!mapping = Versions[version][Installer!here]
         /\ Installer!KindIn(version, Installer!here) = Installer!mapping.kind
         /\ \A i \in Opened : Paths[i] \in Path
         /\ step \in {"mapping", "symlink"} => \A i \in Opened : Paths[i] # Installer!here
         /\ \A i \in Opened : Installer!IsFile(version, Paths[i]) =>
              Holds(Installer!Resolve(Paths[i])) /\ Installer!Resolve(Paths[i]) \in Path
         /\ \A i \in Opened : Installer!IsFile(version, Paths[i]) /\ Installer!mapping.kind = "link" =>
              Installer!Resolve(Paths[i]) # Installer!here
<1>1. version \in DOMAIN Versions
  BY DEF MixIInv, Steps, Running, Preparing
<1>2. \A i \in Opened : Paths[i] \in Path
  BY OpenedFacts, PathsFacts
<1>3. step \in {"mapping", "symlink"} => \A i \in Opened : Paths[i] # Installer!here
  BY OpenedFacts, PathsFacts DEF Installer!here
<1>4. \A i \in Opened : Installer!IsFile(version, Paths[i]) =>
        Holds(Installer!Resolve(Paths[i])) /\ Installer!Resolve(Paths[i]) \in Path
  BY <1>2, Typed, EntryFacts DEF MixIInv, Running, Preparing
<1>5. Installer!KindIn(version, Installer!here) = Installer!mapping.kind
  BY DEF Installer!KindIn, Installer!mapping
<1>6. ASSUME NEW i \in Opened, Installer!IsFile(version, Paths[i]), Installer!mapping.kind = "link",
             Installer!Resolve(Paths[i]) = Installer!here
      PROVE  FALSE
  <2>1. CASE tree[Paths[i]].kind = "link"
    <3>1. tree[Paths[i]].to = Installer!here
      BY <1>2, <1>6, <2>1, Typed, EntryFacts DEF MixIInv
    <3> QED
      BY <1>1, <1>2, <1>5, <1>6, <2>1, <3>1 DEF MixIInv, LinksOk
  <2>2. CASE tree[Paths[i]].kind # "link"
    <3>1. Paths[i] = Installer!here
      BY <1>2, <1>6, <2>2, Typed, EntryFacts DEF MixIInv
    <3> QED
      BY <1>5, <1>6, <3>1 DEF Installer!IsFile
  <2> QED
    BY <2>1, <2>2
<1> QED
  BY <1>1, <1>2, <1>3, <1>4, <1>5, <1>6 DEF Installer!here, Installer!mapping

\* A step that opens nothing and leaves what is open.
LEMMA MixRest ==
  ASSUME MixIInv, version' = version, Installer!TypeOK', Steps', LinksOk',
         (\A p \in Path : tree[p].kind = "file" => \E v \in Installer!Block : Of(p, v))',
         Running' => Running, Opened' \subseteq Opened,
         Running => \A i \in Opened : Installer!IsFile(version, Paths[i]) => Holds(Installer!Resolve(Paths[i]))'
  PROVE  MixIInv'
<1>1. (Running => \A i \in Opened : Installer!IsFile(version, Paths[i]) => Holds(Installer!Resolve(Paths[i])))'
  BY DEF Installer!IsFile, Installer!KindIn
<1> QED
  BY <1>1 DEF MixIInv

\* A step that leaves every path what it is, and every file a file of the
\* versions it was of, keeps links, files, and what holds.
LEMMA MixKeeps ==
  ASSUME MixIInv, tree' \in [Path -> Installer!Entry], version' = version,
         \A p \in Path : tree'[p].kind = tree[p].kind /\ (tree[p].kind = "link" => tree'[p] = tree[p]),
         \A p \in Path, v \in Installer!Block : tree[p].kind = "file" /\ Of(p, v) => Of(p, v)'
  PROVE  /\ LinksOk'
         /\ (\A p \in Path : tree[p].kind = "file" => \E v \in Installer!Block : Of(p, v))'
         /\ Running => \A i \in Opened : Installer!IsFile(version, Paths[i]) => Holds(Installer!Resolve(Paths[i]))'
<1>1. LinksOk'
  BY LinksKept DEF MixIInv
<1>2. (\A p \in Path : tree[p].kind = "file" => \E v \in Installer!Block : Of(p, v))'
  <2> SUFFICES ASSUME NEW p \in Path, tree'[p].kind = "file"
               PROVE  \E v \in Installer!Block : Of(p, v)'
    BY DEF Installer!Block
  <2>1. PICK v \in Installer!Block : Of(p, v)
    BY DEF MixIInv
  <2> QED
    BY <2>1
<1>3. ASSUME Running, NEW i \in Opened, Installer!IsFile(version, Paths[i])
      PROVE  Holds(Installer!Resolve(Paths[i]))'
  <2> DEFINE p == Paths[i]
  <2>1. p \in Path
    BY OpenedFacts, PathsFacts
  <2>2. Holds(Installer!Resolve(p))
    BY <1>3 DEF MixIInv
  <2>3. tree \in [Path -> Installer!Entry] /\ version \in Installer!Block
    BY Typed DEF MixIInv
  <2> HIDE DEF p
  <2>4. Installer!Resolve(p)' = Installer!Resolve(p) /\ Installer!Resolve(p) \in Path
    BY <2>1, <2>3, Resolved, EntryFacts
  <2>5. PICK q \in Path : q = Installer!Resolve(p)
    BY <2>4
  <2>6. Of(q, version)' /\ tree'[q].kind = "file"
    BY <2>2, <2>3, <2>5 DEF Holds
  <2>7. Holds(Installer!Resolve(p))'
    BY <2>4, <2>5, <2>6 DEF Holds, Of
  <2> QED
    BY <2>7 DEF p
<1> QED
  BY <1>1, <1>2, <1>3

\* A step that stops the run, or goes nowhere, leaves the tree.
LEMMA MixSameTree ==
  ASSUME MixIInv, UNCHANGED <<tree, version>>
  PROVE  /\ tree' \in [Path -> Installer!Entry]
         /\ LinksOk'
         /\ (\A p \in Path : tree[p].kind = "file" => \E v \in Installer!Block : Of(p, v))'
         /\ Running => \A i \in Opened : Installer!IsFile(version, Paths[i]) => Holds(Installer!Resolve(Paths[i]))'
<1>1. tree' \in [Path -> Installer!Entry]
  BY Typed DEF MixIInv
<1>2. \A p, v : Of(p, v) => Of(p, v)'
  BY DEF Of
<1> QED
  BY <1>1, <1>2, MixKeeps

\* A run that ends, fails or is cut off leaves the tree.
LEMMA MixStop ==
  ASSUME MixIInv, UNCHANGED <<tree, version, place, runs>>, pending' \subseteq pending, late' \subseteq late,
         \/ step' \in {"done", "idle"} /\ pending' = {}
         \/ step' \in {"failed", "aborted"} /\ Running
  PROVE  MixIInv'
<1>1. step' \notin {"symlink", "set_len", "chmod", "writing"} /\ (Running' => Running)
  BY DEF Running
<1>2. Installer!TypeOK'
  <2>1. Installer!TypeOK /\ place' \in 1..Len(Paths) + 1 /\ tree' \in [Path -> Installer!Entry]
    BY Typed, MixSameTree DEF MixIInv
  <2> QED
    BY <2>1, TypeKept
<1>3. Steps'
  BY <1>1 DEF MixIInv, Steps
<1>4. Opened' \subseteq Opened
  BY <1>1, OpenedKept
<1> QED
  BY <1>1, <1>2, <1>3, <1>4, MixSameTree, MixRest

\* A step that fails.
LEMMA MixFail ==
  ASSUME MixIInv, Running, Installer!Fail
  PROVE  MixIInv'
<1>1. UNCHANGED <<tree, version, pending, late, runs, place>> /\ step' = "failed"
  BY DEF Installer!Fail, Installer!To
<1> QED
  BY <1>1, MixStop

\* A step of directories and links, which leaves every file as it is but one
\* at its own path.
LEMMA MixNoFile ==
  ASSUME MixIInv, step \in {"mapping", "symlink"}, place \in DOMAIN Paths,
         Installer!mapping.kind \in {"none", "dir", "link"}, UNCHANGED <<version, pending, late, runs>>,
         tree' \in [Path -> Installer!Entry],
         \A p \in Path : tree'[p].kind \in {"file", "link"} =>
           \/ tree'[p] = tree[p]
           \/ p = Installer!here /\ tree'[p].kind = "link" /\ Installer!mapping.kind = "link"
              /\ Installer!mapping.to # "" /\ tree'[p].to = Installer!mapping.to,
         \A p \in Path : tree[p].kind \in {"file", "link"} =>
           tree'[p] = tree[p] \/ (p = Installer!here /\ Installer!mapping.kind = "link"),
         \/ step' = "mapping" /\ place' = place + 1
         \/ step' = "symlink" /\ place' = place /\ Installer!mapping.kind = "link" /\ Installer!mapping.to # ""
  PROVE  MixIInv'
<1> DEFINE here == Installer!here
           m == Installer!mapping
           Resolve(p) == Installer!Resolve(p)
<1>p. Preparing
  BY DEF Preparing
<1>h. /\ version \in DOMAIN Versions
      /\ Installer!here = Paths[place] /\ Installer!mapping = Versions[version][Installer!here]
      /\ \A i \in Opened : Paths[i] \in Path
      /\ \A i \in Opened : Paths[i] # Installer!here
      /\ \A i \in Opened : Installer!IsFile(version, Paths[i]) =>
           Holds(Installer!Resolve(Paths[i])) /\ Installer!Resolve(Paths[i]) \in Path
      /\ \A i \in Opened : Installer!IsFile(version, Paths[i]) /\ Installer!mapping.kind = "link" =>
           Installer!Resolve(Paths[i]) # Installer!here
  BY <1>p, Here, Zenon
<1>1. /\ Preparing /\ version \in DOMAIN Versions /\ m = Versions[version][here] /\ here \in Path
      /\ here = Paths[place]
      /\ \A i \in Opened : Paths[i] \in Path /\ Paths[i] # here
      /\ \A i \in Opened : Installer!IsFile(version, Paths[i]) =>
           Holds(Resolve(Paths[i])) /\ Resolve(Paths[i]) \in Path
      /\ \A i \in Opened : Installer!IsFile(version, Paths[i]) /\ m.kind = "link" => Resolve(Paths[i]) # here
  <2>1. here \in Path
    BY <1>h, PathsFacts
  <2> QED
    BY <1>p, <1>h, <2>1, Zenon
<1>2. LinksOk'
  <2>1. ASSUME NEW p \in Path, tree'[p].kind = "link"
        PROVE  \/ tree'[p] = tree[p]
               \/ \E v \in DOMAIN Versions : Versions[v][p].kind = "link" /\ Versions[v][p].to # "" /\ tree'[p].to = Versions[v][p].to
    BY <1>1, <2>1
  <2> QED
    BY <2>1, LinksKept DEF MixIInv
<1>3. (\A p \in Path : tree[p].kind = "file" => \E v \in Installer!Block : Of(p, v))'
  <2>1. \A p \in Path : tree'[p].kind = "file" => tree'[p] = tree[p]
    OBVIOUS
  <2> QED
    BY <2>1, FilesKept
<1>4. ASSUME NEW i \in Opened, Installer!IsFile(version, Paths[i])
      PROVE  Holds(Resolve(Paths[i]))'
  <2> DEFINE p == Paths[i]
             q == Resolve(p)
  <2>1. p \in Path /\ q \in Path /\ Holds(q)
    BY <1>1, <1>4
  <2>2. q # p => tree[p].kind = "link"
    BY <2>1, EntryFacts, Typed DEF MixIInv
  <2>3. tree[q].kind = "file"
    BY <2>1 DEF Holds
  <2>4. q = here => m.kind # "link"
    BY <1>1, <1>4
  <2> HIDE DEF q
  <2>5. tree'[q] = tree[q]
    BY <2>1, <2>3, <2>4
  <2>6. tree'[p] = tree[p]
    <3>1. CASE q = p
      BY <2>5, <3>1
    <3>2. CASE q # p
      BY <1>1, <2>1, <2>2, <3>2
    <3> QED
      BY <3>1, <3>2
  <2>7. \A n \in 1..Len(tree'[q].data) : tree'[q].data[n] \in {0, Stray, version}
    BY <2>1, <2>5 DEF Holds, Of
  <2> QED
    BY <2>1, <2>3, <2>5, <2>6, <2>7, StaysOpen, Typed DEF MixIInv, q
<1>5. ~ Installer!IsFile(version, Paths[place])
  BY <1>1 DEF Installer!IsFile, Installer!KindIn
<1>6. \A i \in Opened \cup {place} : Installer!IsFile(version, Paths[i]) => Holds(Installer!Resolve(Paths[i]))'
  BY <1>4, <1>5
<1> QED
  BY <1>1, <1>2, <1>3, <1>6, MixPrepare, Zenon

\* A mapping that AtMapping finds.
LEMMA AtFacts ==
  ASSUME MixIInv, NEW kind, Installer!AtMapping(kind)
  PROVE  step = "mapping" /\ place \in DOMAIN Paths /\ Installer!mapping.kind = kind /\ Preparing
<1> DEFINE L == Len(Paths)
<1>1. L \in Nat /\ DOMAIN Paths = 1..L /\ place \in 1..L + 1 /\ place <= L
  BY PathsFacts, Typed DEF MixIInv, Installer!AtMapping
<1> HIDE DEF L
<1>2. place \in DOMAIN Paths
  BY <1>1
<1> QED
  BY <1>2 DEF Installer!AtMapping, Preparing

\* A path the version does not name.
LEMMA MixSkip == ASSUME MixIInv, Installer!SkipUnnamed PROVE MixIInv'
<1>1. /\ step = "mapping" /\ place \in DOMAIN Paths /\ Installer!mapping.kind = "none"
      /\ tree' = tree /\ UNCHANGED <<version, pending, late, runs>> /\ step' = "mapping" /\ place' = place + 1
  BY AtFacts DEF Installer!SkipUnnamed, Installer!Advance
<1> QED
  BY <1>1, MixNoFile, Typed DEF MixIInv

\* create_dir_all changes no file, and what it makes is no link.
LEMMA MixMakeDir == ASSUME MixIInv, Installer!MakeDir PROVE MixIInv'
<1> DEFINE ds == Above[Installer!here] \cup {Installer!here}
<1>1. step = "mapping" /\ place \in DOMAIN Paths /\ Installer!mapping.kind = "dir" /\ Preparing
  BY AtFacts DEF Installer!MakeDir
<1>2. CASE Installer!Fail
  BY <1>1, <1>2, MixFail DEF Running, Preparing
<1>3. CASE ~ Installer!Fail
  <2>1. /\ Installer!Creatable(ds) /\ tree' = Installer!WithDirs(ds)
        /\ UNCHANGED <<version, pending, late, runs>> /\ step' = "mapping" /\ place' = place + 1
    BY <1>3 DEF Installer!MakeDir, Installer!Advance
  <2>2. ds \in SUBSET Path
    BY <1>1, Typed DEF MixIInv
  <2> HIDE DEF ds
  <2>3. /\ tree' \in [Path -> Installer!Entry]
        /\ \A p \in Path : tree[p].kind \in {"file", "link"} => tree'[p] = tree[p]
        /\ \A p \in Path : tree'[p] # tree[p] => tree'[p] = Installer!Dir
    BY <2>1, <2>2, DirsFacts, Typed DEF MixIInv
  <2>4. \A p \in Path : tree'[p].kind \in {"file", "link"} => tree'[p] = tree[p]
    BY <2>3 DEF Installer!Dir
  <2> QED
    BY <1>1, <2>1, <2>3, <2>4, MixNoFile
<1> QED
  BY <1>2, <1>3

\* remove_file takes away what stands at a link's path, which no open file resolves to.
LEMMA MixRemoveOld == ASSUME MixIInv, Installer!RemoveOld PROVE MixIInv'
<1> DEFINE here == Installer!here
           ds == Above[here]
<1>1. step = "mapping" /\ place \in DOMAIN Paths /\ Installer!mapping.kind = "link" /\ Preparing
  BY AtFacts DEF Installer!RemoveOld
<1>2. CASE Installer!Fail
  BY <1>1, <1>2, MixFail DEF Running, Preparing
<1>3. CASE ~ Installer!Fail
  <2>1. /\ Installer!mapping.to # "" /\ Installer!Creatable(ds)
        /\ tree' = [p \in Path |-> IF p = here /\ tree[p].kind # "dir" THEN Installer!Nothing ELSE Installer!WithDirs(ds)[p]]
        /\ UNCHANGED <<version, pending, late, runs>> /\ step' = "symlink" /\ place' = place
    BY <1>3 DEF Installer!RemoveOld, Installer!To, Path
  <2>2. ds \in SUBSET Path /\ here \in Path
    BY <1>1, Typed DEF MixIInv
  <2> HIDE DEF ds, here
  <2>3. /\ Installer!WithDirs(ds) \in [Path -> Installer!Entry]
        /\ \A p \in Path : tree[p].kind \in {"file", "link"} => Installer!WithDirs(ds)[p] = tree[p]
        /\ \A p \in Path : Installer!WithDirs(ds)[p] # tree[p] => Installer!WithDirs(ds)[p] = Installer!Dir
    BY <2>1, <2>2, DirsFacts, Typed DEF MixIInv
  <2>4. Installer!Nothing \in Installer!Entry
    BY DEF Installer!Entry
  <2>5. tree' \in [Path -> Installer!Entry]
    BY <2>1, <2>3, <2>4
  <2>6. ASSUME NEW p \in Path, tree'[p].kind \in {"file", "link"}
        PROVE  tree'[p] = tree[p]
    <3>1. CASE p = here /\ tree[p].kind # "dir"
      BY <2>1, <2>6, <3>1 DEF Installer!Nothing
    <3>2. CASE ~ (p = here /\ tree[p].kind # "dir")
      <4>1. tree'[p] = Installer!WithDirs(ds)[p]
        BY <2>1, <3>2
      <4> QED
        BY <2>3, <2>6, <4>1 DEF Installer!Dir
    <3> QED
      BY <3>1, <3>2
  <2>7. \A p \in Path : tree[p].kind \in {"file", "link"} => tree'[p] = tree[p] \/ p = here
    BY <2>1, <2>3
  <2> QED
    BY <1>1, <2>1, <2>5, <2>6, <2>7, MixNoFile DEF here
<1> QED
  BY <1>2, <1>3

\* A link is made where nothing is, to a path that no version maps to a link.
LEMMA MixSymlink == ASSUME MixIInv, Installer!Symlink PROVE MixIInv'
<1> DEFINE here == Installer!here
           m == Installer!mapping
<1>1. step = "symlink" /\ place \in DOMAIN Paths /\ m.kind = "link" /\ m.to # "" /\ Preparing
  BY DEF Installer!Symlink, MixIInv, Steps, Preparing
<1>2. CASE Installer!Fail
  BY <1>1, <1>2, MixFail DEF Running, Preparing
<1>3. CASE ~ Installer!Fail
  <2>1. /\ tree[here] = Installer!Nothing /\ tree' = [tree EXCEPT ![here] = Installer!Link(m.to)]
        /\ UNCHANGED <<version, pending, late, runs>> /\ step' = "mapping" /\ place' = place + 1
    BY <1>3 DEF Installer!Symlink, Installer!Advance
  <2>2. here \in Path /\ tree \in [Path -> Installer!Entry]
    BY <1>1, Typed DEF MixIInv
  <2>3. m.to \in Path
    <3>1. version \in DOMAIN Versions /\ m = Versions[version][here]
      BY <1>1, Here
    <3>2. PICK w : w = Versions[version][here]
      OBVIOUS
    <3>3. w.kind = "link" => w.to \in Path \cup {""}
      BY <2>2, <3>1, <3>2, MappingFacts, Zenon
    <3> QED
      BY <1>1, <3>1, <3>2, <3>3
  <2>4. Installer!Link(m.to) \in Installer!Entry
    BY <2>3 DEF Installer!Entry, Installer!Link, Path
  <2>5. tree' \in [Path -> Installer!Entry]
    BY <2>1, <2>2, <2>4
  <2>6. \A p \in Path : p # here => tree'[p] = tree[p]
    BY <2>1, <2>2
  <2>7. tree'[here].kind = "link" /\ tree'[here].to = m.to /\ tree[here].kind = "none"
    BY <2>1, <2>2 DEF Installer!Link, Installer!Nothing
  <2> QED
    BY <1>1, <2>1, <2>5, <2>6, <2>7, MixNoFile
<1> QED
  BY <1>2, <1>3

-----------------------------------------------------------------------------

\* What is at a path whose file a step changes: another file there.
Changed(q) ==
  /\ tree \in [Path -> Installer!Entry] /\ tree' \in [Path -> Installer!Entry] /\ q \in Path
  /\ tree'[q].kind = "file"
  /\ \A i \in 1..Len(tree'[q].data) : tree'[q].data[i] \in {0, Stray, version}
  /\ \A p \in Path \ {q} : tree[p].kind \in {"file", "link"} \/ tree'[p].kind \in {"file", "link"} => tree'[p] = tree[p]

\* What held still holds when one file changes, and so does what resolves to it.
LEMMA ChangedHolds ==
  ASSUME NEW q, Changed(q), version' = version, NEW p \in Path,
         Holds(Installer!Resolve(p)) \/ Installer!Resolve(p) = q
  PROVE  Holds(Installer!Resolve(p))'
<1> DEFINE r == Installer!Resolve(p)
           r2 == Installer!Resolve(p)'
           Good(x) == /\ tree'[x].kind = "file"
                      /\ \A i \in 1..Len(tree'[x].data) : tree'[x].data[i] \in {0, Stray, version}
<1>1. Good(q)
  BY DEF Changed
<1>2. r \in Path /\ (r # p => tree[p].kind = "link") /\ (tree[p].kind # "link" => r = p)
  BY EntryFacts DEF Changed
<1>3. ASSUME Holds(r), r # q PROVE Good(r)
  <2>1. tree[r].kind = "file" /\ \A i \in 1..Len(tree[r].data) : tree[r].data[i] \in {0, Stray, version}
    BY <1>3 DEF Holds, Of
  <2> HIDE DEF r
  <2>2. tree'[r] = tree[r]
    BY <1>2, <1>3, <2>1 DEF Changed
  <2> QED
    BY <2>1, <2>2
<1>4. CASE p = q
  <2>1. r2 = q
    BY <1>4 DEF Changed, Installer!Resolve
  <2> QED
    BY <1>1, <2>1 DEF Holds, Of
<1>5. CASE p # q
  <2>1. tree[p].kind \in {"file", "link"}
    BY <1>2, <1>5 DEF Holds
  <2>2. tree'[p] = tree[p]
    BY <1>5, <2>1 DEF Changed
  <2>3. r2 = r
    BY <2>2 DEF Installer!Resolve
  <2>4. Good(r)
    BY <1>1, <1>3
  <2> HIDE DEF r, r2
  <2>5. Good(r2)
    BY <2>3, <2>4
  <2> QED
    BY <2>5 DEF Holds, Of, r2
<1> QED
  BY <1>4, <1>5

\* Files and links when one file changes.
LEMMA ChangedRest ==
  ASSUME MixIInv, NEW q, Changed(q), version' = version
  PROVE  /\ LinksOk'
         /\ (\A p \in Path : tree[p].kind = "file" => \E v \in Installer!Block : Of(p, v))'
<1>1. LinksOk'
  <2>1. \A p \in Path : tree'[p].kind = "link" => tree'[p] = tree[p]
    BY DEF Changed
  <2> QED
    BY <2>1, LinksKept DEF MixIInv
<1>2. (\A p \in Path : tree[p].kind = "file" => \E v \in Installer!Block : Of(p, v))'
  <2>1. \A p \in Path : tree'[p].kind = "file" =>
          tree'[p] = tree[p] \/ \A i \in 1..Len(tree'[p].data) : tree'[p].data[i] \in {0, Stray, version}
    BY DEF Changed
  <2> QED
    BY <2>1, FilesKept DEF Changed
<1> QED
  BY <1>1, <1>2

\* A step of a file's mapping that changes the file of its path.
LEMMA MixOneFile ==
  ASSUME MixIInv, Preparing, place \in DOMAIN Paths, Installer!mapping.kind = "file",
         Changed(Installer!Resolve(Installer!here)), UNCHANGED <<version, pending, late, runs>>,
         \/ step' = "mapping" /\ place' = place + 1
         \/ step' \in {"set_len", "chmod"} /\ place' = place
  PROVE  MixIInv'
<1> DEFINE q == Installer!Resolve(Installer!here)
<1>1. LinksOk' /\ (\A p \in Path : tree[p].kind = "file" => \E v \in Installer!Block : Of(p, v))'
  BY ChangedRest
<1>2. /\ Installer!here = Paths[place] /\ Installer!here \in Path
      /\ \A i \in Opened : Paths[i] \in Path
      /\ \A i \in Opened : Installer!IsFile(version, Paths[i]) => Holds(Installer!Resolve(Paths[i]))
  BY Here, Typed, Zenon DEF MixIInv
<1>3. ASSUME NEW i \in Opened \cup {place}, Installer!IsFile(version, Paths[i])
      PROVE  Holds(Installer!Resolve(Paths[i]))'
  <2>1. Paths[i] \in Path /\ (Holds(Installer!Resolve(Paths[i])) \/ Installer!Resolve(Paths[i]) = q)
    BY <1>2, <1>3
  <2> QED
    BY <2>1, ChangedHolds
<1>4. tree' \in [Path -> Installer!Entry]
  BY DEF Changed
<1> QED
  BY <1>1, <1>3, <1>4, MixPrepare

\* Writing a file's data changes nothing else.
LEMMA WithDataFacts ==
  ASSUME tree \in [Path -> Installer!Entry], NEW q \in Path, tree[q].kind = "file",
         NEW data \in Seq(Installer!Block)
  PROVE  /\ Installer!WithData(q, data) \in [Path -> Installer!Entry]
         /\ Installer!WithData(q, data)[q].kind = "file" /\ Installer!WithData(q, data)[q].data = data
         /\ Installer!WithData(q, data)[q].exec = tree[q].exec
         /\ \A p \in Path \ {q} : Installer!WithData(q, data)[p] = tree[p]
<1> DEFINE f == [kind |-> "file", data |-> data, exec |-> tree[q].exec]
<1>1. tree[q] \in [kind : {"file"}, data : Seq(Installer!Block), exec : BOOLEAN]
  <2>1. tree[q] \in Installer!Entry
    OBVIOUS
  <2> QED
    BY <2>1 DEF Installer!Entry, Installer!Nothing, Installer!Dir
<1>2. f \in Installer!Entry
  BY <1>1 DEF Installer!Entry
<1>3. [tree[q] EXCEPT !.data = data] = f
  BY <1>1
<1>4. Installer!WithData(q, data) = [tree EXCEPT ![q] = f]
  BY <1>3 DEF Installer!WithData
<1> HIDE DEF f
<1>5. /\ Installer!WithData(q, data) \in [Path -> Installer!Entry]
      /\ Installer!WithData(q, data)[q] = f
      /\ \A p \in Path \ {q} : Installer!WithData(q, data)[p] = tree[p]
  BY <1>2, <1>4
<1> QED
  BY <1>5 DEF f

\* File::create leaves an empty file at the end of the path.
LEMMA MixCreateFile == ASSUME MixIInv, Installer!CreateFile PROVE MixIInv'
<1> DEFINE here == Installer!here
           q == Installer!Resolve(here)
           dirs == Above[here] \ {q}
           e == IF tree[q].kind = "file" THEN tree[q].exec ELSE FALSE
           W == Installer!WithDirs(dirs)
<1>1. step = "mapping" /\ place \in DOMAIN Paths /\ Installer!mapping.kind = "file" /\ Preparing
  BY AtFacts DEF Installer!CreateFile
<1>2. CASE Installer!Fail
  BY <1>1, <1>2, MixFail DEF Running, Preparing
<1>3. CASE ~ Installer!Fail
  <2>1. /\ Installer!Creatable(Above[here])
        /\ tree' = [W EXCEPT ![q] = Installer!File(<<>>, e)]
        /\ UNCHANGED <<version, pending, late, runs>> /\ step' = "set_len" /\ place' = place
    BY <1>3 DEF Installer!CreateFile, Installer!To
  <2>2. tree \in [Path -> Installer!Entry] /\ here \in Path /\ q \in Path /\ dirs \in SUBSET Path
    BY <1>1, Typed, EntryFacts DEF MixIInv
  <2>3. Installer!Creatable(dirs)
    BY <2>1 DEF Installer!Creatable
  <2>4. Installer!File(<<>>, e) \in Installer!Entry
    <3>1. e \in BOOLEAN
      BY <2>2, EntryFacts
    <3>2. <<>> \in Seq(Installer!Block)
      BY EmptySeq
    <3> QED
      BY <3>1, <3>2 DEF Installer!File, Installer!Entry
  <2>f. Installer!File(<<>>, e).kind = "file" /\ Installer!File(<<>>, e).data = <<>>
    BY DEF Installer!File
  <2> HIDE DEF dirs, q, e
  <2>5. /\ W \in [Path -> Installer!Entry]
        /\ \A p \in Path : tree[p].kind \in {"file", "link"} => W[p] = tree[p]
        /\ \A p \in Path : W[p] # tree[p] => W[p] = Installer!Dir
    BY <2>2, <2>3, DirsFacts
  <2> HIDE DEF W
  <2>6. tree' \in [Path -> Installer!Entry] /\ tree'[q] = Installer!File(<<>>, e) /\ \A p \in Path \ {q} : tree'[p] = W[p]
    BY <2>1, <2>2, <2>4, <2>5
  <2>7. Changed(q)
    <3>1. \A p \in Path \ {q} : tree[p].kind \in {"file", "link"} \/ tree'[p].kind \in {"file", "link"} => tree'[p] = tree[p]
      BY <2>5, <2>6 DEF Installer!Dir
    <3>2. tree'[q].kind = "file" /\ \A i \in 1..Len(tree'[q].data) : tree'[q].data[i] \in {0, Stray, version}
      BY <2>f, <2>6
    <3> QED
      BY <2>2, <2>6, <3>1, <3>2 DEF Changed
  <2> QED
    BY <1>1, <2>1, <2>7, MixOneFile DEF q
<1> QED
  BY <1>2, <1>3

\* The file of the mapping that is being prepared is open.
LEMMA HereHolds ==
  ASSUME MixIInv, step \in {"set_len", "chmod"}
  PROVE  /\ place \in DOMAIN Paths /\ Preparing /\ Installer!mapping.kind = "file"
         /\ Installer!here \in Path /\ Installer!Resolve(Installer!here) \in Path
         /\ Holds(Installer!Resolve(Installer!here))
         /\ Installer!mapping.size \in Nat /\ Installer!mapping.exec \in BOOLEAN
<1>1. place \in DOMAIN Paths /\ Preparing /\ Installer!mapping.kind = "file"
  BY DEF MixIInv, Steps, Preparing
<1>2. /\ Installer!here = Paths[place] /\ place \in Opened /\ version \in DOMAIN Versions
      /\ Installer!mapping = Versions[version][Installer!here]
      /\ Installer!here \in Path
  BY <1>1, Here, OpenedFacts, Typed DEF MixIInv
<1>3. Installer!IsFile(version, Paths[place])
  BY <1>1, <1>2 DEF Installer!IsFile, Installer!KindIn
<1>4. Holds(Installer!Resolve(Installer!here)) /\ Installer!Resolve(Installer!here) \in Path
  BY <1>1, <1>2, <1>3, Here
<1> QED
  BY <1>1, <1>2, <1>4, MappingFacts

\* set_len keeps this version's blocks and adds zeros.
LEMMA MixSetLen == ASSUME MixIInv, Installer!SetLen PROVE MixIInv'
<1> DEFINE q == Installer!Resolve(Installer!here)
           n == Installer!mapping.size
           d == Installer!Resized(tree[q].data, n)
<1>1. /\ place \in DOMAIN Paths /\ Preparing /\ Installer!mapping.kind = "file"
      /\ q \in Path /\ Holds(q) /\ n \in Nat
  BY HereHolds DEF Installer!SetLen
<1>2. /\ tree' = Installer!WithData(q, d) /\ UNCHANGED <<version, pending, late, runs>>
      /\ \/ step' = "mapping" /\ place' = place + 1
         \/ step' = "chmod" /\ place' = place
  BY DEF Installer!SetLen, Installer!To, Installer!Advance
<1>3. tree \in [Path -> Installer!Entry] /\ tree[q].kind = "file" /\ tree[q].data \in Seq(Installer!Block)
  BY <1>1, Typed, EntryFacts DEF MixIInv, Holds
<1>4. \A i \in 1..Len(tree[q].data) : tree[q].data[i] \in {0, Stray, version}
  BY <1>1 DEF Holds, Of
<1> HIDE DEF q, n
<1>5. /\ d \in Seq(Installer!Block) /\ Len(d) = n
      /\ \A i \in 1..n : i <= Len(tree[q].data) => d[i] = tree[q].data[i]
      /\ \A i \in 1..n : ~ (i <= Len(tree[q].data)) => d[i] = 0
  <2>1. 0 \in Installer!Block
    BY DEF Installer!Block, Installer!Zero
  <2>2. n \in Nat
    BY <1>1
  <2>3. PICK od \in Seq(Installer!Block) : od = tree[q].data
    BY <1>3
  <2>4. PICK nd : nd = Installer!Resized(od, n)
    OBVIOUS
  <2>5. /\ nd \in Seq(Installer!Block) /\ Len(nd) = n
        /\ \A i \in 1..n : i <= Len(od) => nd[i] = od[i]
        /\ \A i \in 1..n : ~ (i <= Len(od)) => nd[i] = 0
    BY ONLY <2>1, <2>2, <2>4, ResizedFacts
  <2>6. d = nd
    BY <2>3, <2>4
  <2> HIDE DEF d
  <2> QED
    BY ONLY <2>3, <2>5, <2>6
<1>6. \A i \in 1..Len(d) : d[i] \in {0, Stray, version}
  BY <1>1, <1>3, <1>4, <1>5, LenProperties
<1> HIDE DEF d
<1>7. /\ tree' \in [Path -> Installer!Entry] /\ tree'[q].kind = "file" /\ tree'[q].data = d
      /\ \A p \in Path \ {q} : tree'[p] = tree[p]
  BY <1>1, <1>2, <1>3, <1>5, WithDataFacts
<1>8. Changed(q)
  BY <1>1, <1>3, <1>6, <1>7 DEF Changed
<1> QED
  BY <1>1, <1>2, <1>8, MixOneFile DEF q

\* set_permissions keeps the data.
LEMMA MixChmod == ASSUME MixIInv, Installer!Chmod PROVE MixIInv'
<1> DEFINE q == Installer!Resolve(Installer!here)
           e == tree[q].exec \/ Installer!mapping.exec
           f == [kind |-> "file", data |-> tree[q].data, exec |-> e]
<1>1. /\ place \in DOMAIN Paths /\ Preparing /\ Installer!mapping.kind = "file"
      /\ q \in Path /\ Holds(q) /\ Installer!mapping.exec \in BOOLEAN
  BY HereHolds DEF Installer!Chmod
<1>2. /\ tree' = [tree EXCEPT ![q].exec = e] /\ UNCHANGED <<version, pending, late, runs>>
      /\ step' = "mapping" /\ place' = place + 1
  BY DEF Installer!Chmod, Installer!Advance
<1>3. tree \in [Path -> Installer!Entry] /\ tree[q].kind = "file"
  BY <1>1, Typed DEF MixIInv, Holds
<1>4. tree[q] \in [kind : {"file"}, data : Seq(Installer!Block), exec : BOOLEAN]
  <2>1. tree[q] \in Installer!Entry
    BY <1>1, <1>3
  <2> QED
    BY <1>3, <2>1 DEF Installer!Entry, Installer!Nothing, Installer!Dir
<1>5. f \in Installer!Entry /\ [tree[q] EXCEPT !.exec = e] = f
  BY <1>4 DEF Installer!Entry
<1>6. tree' = [tree EXCEPT ![q] = f]
  BY <1>2, <1>5
<1>7. \A i \in 1..Len(tree[q].data) : tree[q].data[i] \in {0, Stray, version}
  BY <1>1 DEF Holds, Of
<1>8. f.kind = "file" /\ f.data = tree[q].data
  OBVIOUS
<1> HIDE DEF f, q, e
<1>9. /\ tree' \in [Path -> Installer!Entry] /\ tree'[q] = f /\ \A p \in Path \ {q} : tree'[p] = tree[p]
  BY <1>1, <1>3, <1>5, <1>6
<1>10. Changed(q)
  BY <1>1, <1>3, <1>7, <1>8, <1>9 DEF Changed
<1> QED
  BY <1>1, <1>2, <1>10, MixOneFile DEF q

-----------------------------------------------------------------------------

\* A run starts with no mapping open, of whatever version; what is left of the
\* run before goes on.
LEMMA MixBegin == ASSUME MixIInv, NEW v \in DOMAIN Versions, Installer!Begin(v) PROVE MixIInv'
<1> DEFINE L == Len(Paths)
<1>1. /\ UNCHANGED tree /\ version' = v /\ step' = "mapping" /\ place' = 1 /\ pending' = {}
      /\ runs' = runs + 1 /\ runs < MaxRuns
      /\ late' = late \cup {[version |-> version, job |-> j] : j \in pending}
  BY DEF Installer!Begin
<1>2. L \in Nat /\ DOMAIN Paths = 1..L /\ runs \in 0..MaxRuns /\ MaxRuns \in Nat
  BY PathsFacts, TreeAssumption DEF MixIInv, Installer!TypeOK, Installer!InstallAssumption
<1> HIDE DEF L
<1>3. 1 \in 1..L + 1 /\ runs' \in 0..MaxRuns
  BY <1>1, <1>2
<1>t. tree' \in [Path -> Installer!Entry]
  BY <1>1, Typed DEF MixIInv
<1>4. Installer!TypeOK'
  <2>1. \A w : Installer!Jobs(w)' = Installer!Jobs(w)
    BY DEF Installer!Jobs, Installer!IsFile, Installer!KindIn
  <2>2. pending # {} => version \in DOMAIN Versions /\ pending \subseteq Installer!Jobs(version)
    BY DEF MixIInv, Installer!TypeOK, Steps, Running
  <2>3. ASSUME NEW w \in late' PROVE w.version \in DOMAIN Versions /\ w.job \in Installer!Jobs(w.version)
    <3>1. CASE w \in late
      BY <3>1 DEF MixIInv, Installer!TypeOK
    <3>2. ASSUME NEW j \in pending, w = [version |-> version, job |-> j]
          PROVE  w.version \in DOMAIN Versions /\ w.job \in Installer!Jobs(w.version)
      BY <2>2, <3>2
    <3> QED
      BY <1>1, <3>1, <3>2
  <2>4. Installer!Entry' = Installer!Entry /\ Installer!Path = Path
    BY DEF Installer!Entry, Installer!Block, Path
  <2> QED
    BY <1>1, <1>3, <1>t, <2>1, <2>3, <2>4 DEF Installer!TypeOK, L
<1>5. Steps'
  BY <1>1 DEF Steps, Running
<1>6. Opened' = {}
  BY <1>1, <1>2 DEF Opened
<1>7. LinksOk'
  BY <1>1, LinksKept DEF MixIInv
<1>8. (\A p \in Path : tree[p].kind = "file" => \E u \in Installer!Block : Of(p, u))'
  BY <1>1 DEF MixIInv, Of, Installer!Block
<1> QED
  BY <1>4, <1>5, <1>6, <1>7, <1>8 DEF MixIInv

\* When the mappings are through, every one is open.
LEMMA AllOpened ==
  ASSUME place = Len(Paths) + 1
  PROVE  Opened = DOMAIN Paths
<1> DEFINE L == Len(Paths)
<1>1. L \in Nat /\ DOMAIN Paths = 1..L
  BY PathsFacts
<1>2. place = L + 1
  OBVIOUS
<1> HIDE DEF L
<1> QED
  BY <1>1, <1>2 DEF Opened

\* The chunk jobs begin when every mapping is open.
LEMMA MixFlatten == ASSUME MixIInv, Installer!Flatten PROVE MixIInv'
<1>1. /\ step = "mapping" /\ place = Len(Paths) + 1 /\ step' = "writing" /\ pending' = Installer!Jobs(version)
      /\ UNCHANGED <<tree, version, place, late, runs>>
  BY DEF Installer!Flatten
<1>2. Installer!TypeOK'
  <2>1. \A w : Installer!Jobs(w)' = Installer!Jobs(w)
    BY DEF Installer!Jobs, Installer!IsFile, Installer!KindIn
  <2>2. Installer!Entry' = Installer!Entry /\ Installer!Path = Path /\ tree' \in [Path -> Installer!Entry]
    BY <1>1, MixSameTree DEF Installer!Entry, Installer!Block, Path
  <2>3. Installer!TypeOK
    BY DEF MixIInv
  <2> QED
    BY <1>1, <2>1, <2>2, <2>3 DEF Installer!TypeOK
<1>3. Steps'
  BY <1>1 DEF MixIInv, Steps, Running
<1>4. Opened' \subseteq Opened
  BY <1>1, OpenedKept
<1>5. Running
  BY <1>1 DEF Running
<1> QED
  BY <1>1, <1>2, <1>3, <1>4, <1>5, MixSameTree, MixRest

\* A job names a block of a file of its version.
LEMMA JobShape ==
  ASSUME NEW v \in DOMAIN Versions, NEW j \in Installer!Jobs(v)
  PROVE  /\ j.path \in Path /\ Installer!IsFile(v, j.path)
         /\ Versions[v][j.path].size \in Nat /\ j.at \in 1..Versions[v][j.path].size
         /\ j = [path |-> j.path, at |-> j.at]
<1>2. PICK p \in Path : \E i \in 1..Versions[v][p].size : Installer!IsFile(v, p) /\ j = [path |-> p, at |-> i]
  BY JobsFacts
<1>3. PICK i \in 1..Versions[v][p].size : Installer!IsFile(v, p) /\ j = [path |-> p, at |-> i]
  BY <1>2
<1>4. j.path = p /\ j.at = i
  BY <1>3
<1>5. Versions[v][p].size \in Nat
  BY <1>3, MappingFacts DEF Installer!IsFile
<1> QED
  BY <1>3, <1>4, <1>5

\* The file a chunk is written to.
LEMMA JobFile ==
  ASSUME MixIInv, NEW j \in pending
  PROVE  /\ version \in DOMAIN Versions /\ Running
         /\ j.path \in Path /\ Installer!IsFile(version, j.path)
         /\ Versions[version][j.path].size \in Nat /\ j.at \in 1..Versions[version][j.path].size
         /\ j = [path |-> j.path, at |-> j.at]
         /\ Holds(Installer!Resolve(j.path)) /\ Installer!Resolve(j.path) \in Path
<1>0. Running
  BY DEF MixIInv, Installer!TypeOK, Running
<1>1. version \in DOMAIN Versions /\ place = Len(Paths) + 1 /\ j \in Installer!Jobs(version)
  BY <1>0 DEF MixIInv, Steps, Installer!TypeOK
<1>2. /\ j.path \in Path /\ Installer!IsFile(version, j.path)
      /\ Versions[version][j.path].size \in Nat /\ j.at \in 1..Versions[version][j.path].size
      /\ j = [path |-> j.path, at |-> j.at]
  BY <1>1, JobShape
<1>6. PICK n \in DOMAIN Paths : j.path = Paths[n]
  BY <1>2, PathsFacts
<1>7. Holds(Installer!Resolve(j.path))
  BY <1>0, <1>1, <1>2, <1>6, AllOpened DEF MixIInv
<1>8. Installer!Resolve(j.path) \in Path
  BY <1>2, Typed, EntryFacts DEF MixIInv
<1> QED
  BY <1>0, <1>1, <1>2, <1>7, <1>8

\* What a write makes of the blocks of a file.
IsWritten(e, d, at, w) ==
  /\ e \in Seq(Installer!Block) /\ Len(d) \in Nat
  /\ at <= Len(d) => Len(e) = Len(d)
  /\ ~ (at <= Len(d)) => Len(e) = at
  /\ e[at] = w
  /\ \A i \in 1..Len(e) : i # at /\ i <= Len(d) => e[i] = d[i]
  /\ \A i \in 1..Len(e) : i # at /\ ~ (i <= Len(d)) => e[i] = 0

\* Written makes it so.
LEMMA WrittenFacts ==
  ASSUME NEW d \in Seq(Installer!Block), NEW at \in Nat \ {0}, NEW w \in Installer!Block,
         NEW e, e = Installer!Written(d, at, w)
  PROVE  IsWritten(e, d, at, w)
<1>0. Len(d) \in Nat
  BY LenProperties
<1>n. PICK n \in Nat : n = IF at > Len(d) THEN at ELSE Len(d)
  BY <1>0
<1>m. at \in 1..n /\ (at <= Len(d) => n = Len(d)) /\ (~ (at <= Len(d)) => n = at)
  BY <1>0, <1>n
<1>3. ASSUME NEW r, r = Installer!Resized(d, n)
      PROVE  /\ r \in [1..n -> Installer!Block]
             /\ \A i \in 1..n : i <= Len(d) => r[i] = d[i]
             /\ \A i \in 1..n : ~ (i <= Len(d)) => r[i] = 0
  <2>1. /\ r \in Seq(Installer!Block) /\ Len(r) = n
        /\ \A i \in 1..n : i <= Len(d) => r[i] = d[i]
        /\ \A i \in 1..n : ~ (i <= Len(d)) => r[i] = 0
    <3>1. /\ Installer!Resized(d, n) \in Seq(Installer!Block) /\ Len(Installer!Resized(d, n)) = n
          /\ \A i \in 1..n : i <= Len(d) => Installer!Resized(d, n)[i] = d[i]
          /\ \A i \in 1..n : ~ (i <= Len(d)) => Installer!Resized(d, n)[i] = 0
      BY ResizedFacts
    <3> QED
      BY <1>3, <3>1
  <2> QED
    BY <2>1, LenProperties, ElementOfSeq
<1> DEFINE r == Installer!Resized(d, n)
           x == [r EXCEPT ![at] = w]
<1>w. e = x
  BY <1>n DEF Installer!Written
<1>4. /\ r \in [1..n -> Installer!Block]
      /\ \A i \in 1..n : i <= Len(d) => r[i] = d[i]
      /\ \A i \in 1..n : ~ (i <= Len(d)) => r[i] = 0
  BY <1>3
<1> HIDE DEF r
<1>x. x \in [1..n -> Installer!Block] /\ \A i \in 1..n : x[i] = IF i = at THEN w ELSE r[i]
  BY <1>4
<1> HIDE DEF x
<1>5. e \in [1..n -> Installer!Block] /\ \A i \in 1..n : e[i] = IF i = at THEN w ELSE r[i]
  BY <1>w, <1>x
<1>6. e \in Seq(Installer!Block) /\ Len(e) = n
  <2>1. e \in Seq(Installer!Block) /\ DOMAIN e = 1..n
    BY <1>5, SeqDef
  <2> QED
    BY <2>1, LenProperties
<1>7. e[at] = w
  BY <1>5, <1>m
<1>8. \A i \in 1..n : (i # at /\ i <= Len(d) => e[i] = d[i]) /\ (i # at /\ ~ (i <= Len(d)) => e[i] = 0)
  BY <1>4, <1>5
<1> QED
  BY <1>0, <1>m, <1>6, <1>7, <1>8 DEF IsWritten

\* A block that is written leaves the other blocks what they are, so that a
\* file whose blocks are of some set is of the same set and the new block.
LEMMA WrittenOf ==
  ASSUME NEW d \in Seq(Installer!Block), NEW at \in Nat \ {0}, NEW w \in Installer!Block,
         NEW e, e = Installer!Written(d, at, w),
         NEW bs, 0 \in bs, w \in bs, \A i \in 1..Len(d) : d[i] \in bs
  PROVE  \A i \in 1..Len(e) : e[i] \in bs
<1>2. /\ e \in Seq(Installer!Block) /\ Len(d) \in Nat
      /\ e[at] = w
      /\ \A i \in 1..Len(e) : i # at /\ i <= Len(d) => e[i] = d[i]
      /\ \A i \in 1..Len(e) : i # at /\ ~ (i <= Len(d)) => e[i] = 0
  <2>1. IsWritten(e, d, at, w)
    BY WrittenFacts
  <2> QED
    BY ONLY <2>1 DEF IsWritten
<1>3. Len(e) \in Nat
  BY <1>2, LenProperties
<1> SUFFICES ASSUME NEW i \in 1..Len(e) PROVE e[i] \in bs
  OBVIOUS
<1>4. i <= Len(d) => i \in 1..Len(d)
  BY <1>2, <1>3
<1> QED
  BY <1>2, <1>4

\* A block is written to the file at q.
Puts(q, at, b) ==
  /\ q \in Path /\ tree[q].kind = "file" /\ at \in Nat \ {0} /\ b \in Installer!Block
  /\ tree' = Installer!WithData(q, Installer!Written(tree[q].data, at, b))

\* What such a write leaves.
LEMMA PutsFacts ==
  ASSUME tree \in [Path -> Installer!Entry], NEW q, NEW at, NEW b, Puts(q, at, b)
  PROVE  /\ tree[q].data \in Seq(Installer!Block)
         /\ tree' \in [Path -> Installer!Entry] /\ tree'[q].kind = "file" /\ tree'[q].exec = tree[q].exec
         /\ tree'[q].data = Installer!Written(tree[q].data, at, b)
         /\ \A p \in Path \ {q} : tree'[p] = tree[p]
         /\ \A v : b \in {0, Stray, v} /\ Of(q, v) => Of(q, v)'
<1>0. 0 \in Installer!Block
  BY DEF Installer!Block, Installer!Zero
<1>1. tree[q].data \in Seq(Installer!Block)
  BY EntryFacts DEF Puts
<1>2. PICK d : d = tree[q].data
  OBVIOUS
<1>3. PICK e : e = Installer!Written(d, at, b)
  OBVIOUS
<1>4. e \in Seq(Installer!Block)
  <2>1. IsWritten(e, d, at, b)
    BY <1>1, <1>2, <1>3, WrittenFacts DEF Puts
  <2> QED
    BY ONLY <2>1 DEF IsWritten
<1>5. /\ tree' \in [Path -> Installer!Entry] /\ tree'[q].kind = "file" /\ tree'[q].exec = tree[q].exec
      /\ tree'[q].data = e
      /\ \A p \in Path \ {q} : tree'[p] = tree[p]
  BY <1>2, <1>3, <1>4, WithDataFacts DEF Puts
<1>6. ASSUME NEW v, b \in {0, Stray, v}, Of(q, v) PROVE Of(q, v)'
  <2>1. \A i \in 1..Len(d) : d[i] \in {0, Stray, v}
    BY <1>2, <1>6 DEF Of
  <2>2. \A i \in 1..Len(e) : e[i] \in {0, Stray, v}
    BY <1>0, <1>1, <1>2, <1>3, <1>6, <2>1, WrittenOf DEF Puts
  <2> QED
    BY <1>5, <2>2 DEF Of
<1> QED
  BY <1>1, <1>2, <1>3, <1>5, <1>6

\* A write of this version's block to a file of this version.
LEMMA MixOwnWrite ==
  ASSUME MixIInv, NEW q, NEW at, Puts(q, at, version), Of(q, version),
         UNCHANGED <<version, step, place, runs>>, pending' \subseteq pending, late' \subseteq late
  PROVE  MixIInv'
<1>1. tree \in [Path -> Installer!Entry]
  BY Typed DEF MixIInv
<1>2. /\ tree' \in [Path -> Installer!Entry] /\ tree'[q].kind = "file"
      /\ \A p \in Path \ {q} : tree'[p] = tree[p]
      /\ Of(q, version)'
  BY <1>1, PutsFacts
<1>3. Changed(q)
  BY <1>1, <1>2 DEF Changed, Of, Puts
<1>4. Installer!TypeOK' /\ Steps'
  <2>1. Installer!TypeOK /\ place' \in 1..Len(Paths) + 1
    BY Typed DEF MixIInv
  <2>2. /\ step' \in {"idle", "mapping", "symlink", "set_len", "chmod", "writing", "done", "aborted", "failed"}
        /\ pending' # {} => step' \in {"writing", "aborted", "failed"}
    BY DEF MixIInv, Installer!TypeOK
  <2>3. Installer!mapping' = Installer!mapping
    BY DEF Installer!mapping, Installer!here
  <2> QED
    BY <1>2, <2>1, <2>2, <2>3, TypeKept DEF MixIInv, Steps, Running
<1>5. Opened' = Opened /\ (Running' <=> Running)
  BY DEF Opened, Running
<1>6. ASSUME Running, NEW i \in Opened, Installer!IsFile(version, Paths[i])
      PROVE  Holds(Installer!Resolve(Paths[i]))'
  <2>1. Paths[i] \in Path /\ Holds(Installer!Resolve(Paths[i]))
    BY <1>6, OpenedFacts, PathsFacts DEF MixIInv
  <2> QED
    BY <1>3, <2>1, ChangedHolds
<1> QED
  BY <1>3, <1>4, <1>5, <1>6, ChangedRest, MixRest

\* A stray block, or a write that finds no file.
LEMMA MixStrayWrite ==
  ASSUME MixIInv, UNCHANGED tree \/ \E q, at : Puts(q, at, Stray),
         UNCHANGED <<version, step, place, runs>>, pending' \subseteq pending, late' \subseteq late
  PROVE  MixIInv'
<1>1. tree \in [Path -> Installer!Entry]
  BY Typed DEF MixIInv
<1>2. /\ tree' \in [Path -> Installer!Entry]
      /\ \A p \in Path : tree'[p].kind = tree[p].kind /\ (tree[p].kind = "link" => tree'[p] = tree[p])
      /\ \A p \in Path, v \in Installer!Block : tree[p].kind = "file" /\ Of(p, v) => Of(p, v)'
  <2>1. CASE UNCHANGED tree
    BY <1>1, <2>1 DEF Of
  <2>2. ASSUME NEW q, NEW at, Puts(q, at, Stray)
        PROVE  /\ tree' \in [Path -> Installer!Entry]
               /\ \A p \in Path : tree'[p].kind = tree[p].kind /\ (tree[p].kind = "link" => tree'[p] = tree[p])
               /\ \A p \in Path, v \in Installer!Block : tree[p].kind = "file" /\ Of(p, v) => Of(p, v)'
    <3>1. /\ tree' \in [Path -> Installer!Entry] /\ tree'[q].kind = "file" /\ tree[q].kind = "file"
          /\ \A p \in Path \ {q} : tree'[p] = tree[p]
          /\ \A v : Of(q, v) => Of(q, v)'
      BY <1>1, <2>2, PutsFacts DEF Puts
    <3>2. ASSUME NEW p \in Path, p # q, NEW v, Of(p, v) PROVE Of(p, v)'
      BY <3>1, <3>2 DEF Of
    <3> QED
      BY <3>1, <3>2
  <2> QED
    BY <2>1, <2>2
<1>3. Installer!TypeOK' /\ Steps'
  <2>1. Installer!TypeOK /\ place' \in 1..Len(Paths) + 1
    BY Typed DEF MixIInv
  <2>2. /\ step' \in {"idle", "mapping", "symlink", "set_len", "chmod", "writing", "done", "aborted", "failed"}
        /\ pending' # {} => step' \in {"writing", "aborted", "failed"}
    BY DEF MixIInv, Installer!TypeOK
  <2>3. Installer!mapping' = Installer!mapping
    BY DEF Installer!mapping, Installer!here
  <2> QED
    BY <1>2, <2>1, <2>2, <2>3, TypeKept DEF MixIInv, Steps, Running
<1>4. Opened' = Opened /\ (Running' <=> Running)
  BY DEF Opened, Running
<1> QED
  BY <1>2, <1>3, <1>4, MixKeeps, MixRest

\* A chunk goes to a file that holds this version, zeros and late writes.
LEMMA MixWriteChunk == ASSUME MixIInv, NEW j \in pending, Installer!WriteChunk(j) PROVE MixIInv'
<1> DEFINE q == Installer!Resolve(j.path)
<1>1. /\ version \in DOMAIN Versions /\ j.at \in Nat \ {0} /\ Holds(q) /\ q \in Path
  BY JobFile
<1>2. version \in Installer!Block
  BY <1>1 DEF Installer!Block
<1>3. /\ Puts(q, j.at, version) /\ Of(q, version)
      /\ pending' \subseteq pending /\ UNCHANGED <<version, step, place, late, runs>>
  BY <1>1, <1>2 DEF Installer!WriteChunk, Holds, Puts
<1> HIDE DEF q
<1> QED
  BY <1>3, MixOwnWrite

\* A write of an earlier run lands in a file, or finds none.
LEMMA LateFacts ==
  ASSUME MixIInv, NEW w \in late, Installer!LateWrite(w)
  PROVE  /\ w.version \in DOMAIN Versions /\ w.job \in Installer!Jobs(w.version)
         /\ late' \subseteq late /\ UNCHANGED <<version, step, place, pending, runs>>
         /\ \/ UNCHANGED tree
            \/ \E q : Puts(q, w.job.at, Stray)
            \/ \E q : /\ Puts(q, w.job.at, version) /\ Of(q, version)
                      /\ w.version = version /\ w.job.path = q
<1>1. w.version \in DOMAIN Versions /\ w.job \in Installer!Jobs(w.version)
  BY DEF MixIInv, Installer!TypeOK
<1>2. w.job.at \in Nat \ {0}
  BY <1>1, JobShape
<1>3. PICK q \in Path : \/ UNCHANGED tree
                       \/ /\ tree[q].kind = "file"
                          /\ tree' = Installer!WithData(q, Installer!Written(tree[q].data, w.job.at,
                               IF /\ w.version = version /\ q = w.job.path
                                  /\ \A i \in 1..Len(tree[q].data) : tree[q].data[i] \in {0, Stray, version}
                               THEN version ELSE Stray))
  BY DEF Installer!LateWrite, Path, Installer!Zero
<1>4. Stray \in Installer!Block /\ (w.version = version => version \in Installer!Block)
  BY <1>1 DEF Installer!Block
<1>5. late' \subseteq late /\ UNCHANGED <<version, step, place, pending, runs>>
  BY DEF Installer!LateWrite
<1>6. CASE /\ tree[q].kind = "file" /\ w.version = version /\ q = w.job.path
           /\ \A i \in 1..Len(tree[q].data) : tree[q].data[i] \in {0, Stray, version}
  <2>1. UNCHANGED tree \/ Puts(q, w.job.at, version)
    BY <1>2, <1>3, <1>4, <1>6 DEF Puts
  <2>2. Of(q, version)
    BY <1>6 DEF Of
  <2> QED
    BY <1>1, <1>5, <1>6, <2>1, <2>2
<1>7. CASE ~ (/\ tree[q].kind = "file" /\ w.version = version /\ q = w.job.path
              /\ \A i \in 1..Len(tree[q].data) : tree[q].data[i] \in {0, Stray, version})
  <2>1. UNCHANGED tree \/ Puts(q, w.job.at, Stray)
    BY <1>2, <1>3, <1>4, <1>7 DEF Puts
  <2> QED
    BY <1>1, <1>5, <2>1
<1> QED
  BY <1>6, <1>7

\* A late write keeps every file of the versions it was of.
LEMMA MixLateWrite == ASSUME MixIInv, NEW w \in late, Installer!LateWrite(w) PROVE MixIInv'
<1>1. /\ late' \subseteq late /\ UNCHANGED <<version, step, place, pending, runs>>
      /\ \/ UNCHANGED tree
         \/ \E q : Puts(q, w.job.at, Stray)
         \/ \E q : Puts(q, w.job.at, version) /\ Of(q, version)
  BY LateFacts
<1> QED
  BY <1>1, MixOwnWrite, MixStrayWrite

\* The empty tree.
LEMMA MixInit == Installer!Init => MixIInv
<1> SUFFICES ASSUME Installer!Init PROVE MixIInv
  OBVIOUS
<1> DEFINE L == Len(Paths)
<1>1. /\ tree = [p \in Path |-> Installer!Nothing] /\ version = 0 /\ step = "idle" /\ place = 1
      /\ pending = {} /\ late = {} /\ runs = 0
  BY DEF Installer!Init, Path, Installer!Zero
<1>2. L \in Nat /\ MaxRuns \in Nat
  BY PathsFacts, TreeAssumption DEF Installer!InstallAssumption
<1> HIDE DEF L
<1>3. 1 \in 1..L + 1 /\ 0 \in 0..MaxRuns
  BY <1>2
<1>4. tree \in [Path -> Installer!Entry]
  BY <1>1 DEF Installer!Entry
<1>5. \A p \in Path : tree[p].kind = "none"
  BY <1>1 DEF Installer!Nothing
<1>6. Installer!TypeOK
  BY <1>1, <1>3, <1>4 DEF Installer!TypeOK, Path, L, Installer!Block, Installer!Zero
<1> QED
  BY <1>1, <1>5, <1>6 DEF MixIInv, Steps, LinksOk, Running

\* Every step of the installer keeps the invariant.
LEMMA MixStep == MixIInv /\ [Installer!Next]_disk => MixIInv'
<1> SUFFICES ASSUME MixIInv, [Installer!Next]_disk PROVE MixIInv'
  OBVIOUS
<1>1. ASSUME NEW v \in DOMAIN Versions, Installer!Begin(v) PROVE MixIInv'
  BY <1>1, MixBegin
<1>2. CASE Installer!Prepare
  BY <1>2, MixSkip, MixMakeDir, MixRemoveOld, MixSymlink, MixCreateFile, MixSetLen, MixChmod DEF Installer!Prepare
<1>3. CASE Installer!Flatten
  BY <1>3, MixFlatten
<1>4. ASSUME NEW j \in pending, Installer!WriteChunk(j) PROVE MixIInv'
  BY <1>4, MixWriteChunk
<1>5. CASE Installer!Finish
  BY <1>5, MixStop DEF Installer!Finish, Installer!To
<1>6. CASE Installer!CutOff
  BY <1>6, MixStop DEF Installer!CutOff
<1>7. CASE Installer!Abort
  BY <1>7, MixStop DEF Installer!Abort, Running
<1>8. ASSUME NEW w \in late, Installer!LateWrite(w) PROVE MixIInv'
  BY <1>8, MixLateWrite
<1>9. CASE UNCHANGED disk
  BY <1>9, MixStrayWrite DEF disk
<1> QED
  BY <1>1, <1>2, <1>3, <1>4, <1>5, <1>6, <1>7, <1>8, <1>9 DEF Installer!Next

\* The invariant says of every file what NoMix says.
LEMMA MixNoMix == MixIInv => NoMix
<1> SUFFICES ASSUME MixIInv, NEW p \in Path, tree[p].kind = "file"
             PROVE  \E v \in Installer!Block : \A i \in DOMAIN tree[p].data : tree[p].data[i] \in {0, Stray, v}
  BY DEF NoMix, Installer!NoMix, Path, Installer!Zero
<1>1. PICK v \in Installer!Block : Of(p, v)
  BY DEF MixIInv
<1>2. tree[p].data \in Seq(Installer!Block)
  BY EntryFacts, Typed DEF MixIInv
<1>3. DOMAIN tree[p].data = 1..Len(tree[p].data)
  BY <1>2, LenProperties
<1> QED
  BY <1>1, <1>3 DEF Of

-----------------------------------------------------------------------------
(* The versions that agree *)

\* The family of versions agrees on kinds, and its links have targets.
LEMMA SimilarFacts ==
  /\ Similar \subseteq DOMAIN Versions /\ 0 \notin Similar
  /\ \A v, w \in Similar, p \in Path :
       /\ Installer!KindIn(v, p) = Installer!KindIn(w, p) \/ Installer!KindIn(v, p) = "none" \/ Installer!KindIn(w, p) = "none"
       /\ Installer!KindIn(v, p) # "none" => \A d \in Above[p] : Installer!KindIn(w, d) \in {"none", "dir"}
       /\ Installer!KindIn(v, p) = "link" => Versions[v][p].to # ""
BY TreeAssumption DEF Installer!Agree, Installer!InstallAssumption, Path

\* What a path and the directories above it hold when a version names it.
LEMMA Fitting ==
  ASSUME SameIInv, NEW p \in Path, version \in Similar, Installer!KindIn(version, p) # "none"
  PROVE  /\ tree[p].kind \in {"none", Installer!KindIn(version, p)}
         /\ Installer!Creatable(Above[p]) /\ Above[p] \in SUBSET Path /\ p \notin Above[p]
<1> DEFINE k == Installer!KindIn(version, p)
<1>1. Above[p] \in SUBSET Path /\ p \notin Above[p]
  BY TreeAssumption DEF Installer!InstallAssumption, Path
<1>2. tree[p].kind \in {"none", k}
  <2>1. Fits(p)
    BY DEF SameIInv
  <2>2. CASE tree[p].kind = "none"
    BY <2>2
  <2>3. ASSUME NEW v \in Similar, tree[p].kind = Installer!KindIn(v, p) PROVE tree[p].kind \in {"none", k}
    BY <2>3, SimilarFacts
  <2>4. ASSUME NEW v \in Similar, NEW q \in Path, tree[p].kind = "dir", Installer!KindIn(v, q) # "none", p \in Above[q]
        PROVE  tree[p].kind \in {"none", k}
    BY <2>4, SimilarFacts
  <2> QED
    BY <2>1, <2>2, <2>3, <2>4 DEF Fits
<1>3. ASSUME NEW d \in Above[p] PROVE tree[d].kind \in {"none", "dir"}
  <2>1. d \in Path /\ Fits(d)
    BY <1>1, <1>3 DEF SameIInv
  <2>2. \A v \in Similar : Installer!KindIn(v, d) \in {"none", "dir"}
    BY <1>3, SimilarFacts
  <2> QED
    BY <2>1, <2>2 DEF Fits
<1> QED
  BY <1>1, <1>2, <1>3 DEF Installer!Creatable

\* What was made stays made while a run prepares.
LEMMA MadeKept ==
  ASSUME NEW p \in Path, Made(p), step \notin {"writing", "done"}, step' \notin {"writing", "done"}, UNCHANGED version,
         tree'[p] = tree[p] \/ tree[p].kind = "none"
  PROVE  Made(p)'
<1>1. CASE tree[p].kind = "none"
  <2>1. Versions[version][p].kind \notin {"dir", "link", "file"}
    BY <1>1 DEF Made, Filled, Installer!Dir, Installer!Link
  <2> QED
    BY <2>1 DEF Made
<1>2. CASE tree'[p] = tree[p]
  <2>1. Filled(p) => Filled(p)'
    BY <1>2 DEF Filled
  <2> QED
    BY <1>2, <2>1 DEF Made, Installer!Dir, Installer!Link
<1> QED
  BY <1>1, <1>2

\* A step at one mapping, which changes its path and makes directories above.
LEMMA SamePrepare ==
  ASSUME NEW h, h = Installer!here, SameIInv, MixIInv', Preparing, place \in DOMAIN Paths, UNCHANGED <<version, pending, late, runs>>,
         \A p \in Path \ {Installer!here} :
           \/ tree'[p] = tree[p]
           \/ p \in Above[Installer!here] /\ Installer!mapping.kind # "none" /\ tree[p].kind = "none" /\ tree'[p] = Installer!Dir,
         tree'[Installer!here] = tree[Installer!here] \/ tree'[Installer!here].kind \in {"none", Installer!mapping.kind},
         \/ step' = "mapping" /\ place' = place + 1 /\ Made(h)'
         \/ step' \in {"symlink", "set_len", "chmod"} /\ place' = place,
         step' = "symlink" => tree'[Installer!here] = Installer!Nothing,
         step' = "set_len" => tree'[Installer!here].kind = "file",
         step' = "chmod" => Filled(h)' /\ Installer!mapping.exec
  PROVE  SameIInv'
<1> DEFINE L == Len(Paths)
<1>1. /\ version \in Similar /\ h = Paths[place] /\ h \in Path
      /\ Installer!KindIn(version, h) = Installer!mapping.kind
  BY Here, Typed DEF SameIInv, MixIInv, Running, Preparing
<1>2. L \in Nat /\ DOMAIN Paths = 1..L /\ place \in 1..L
  BY PathsFacts
<1> HIDE DEF L
<1>3. step' \in {"mapping", "symlink", "set_len", "chmod"} /\ step \notin {"writing", "done"}
  BY DEF Preparing
<1>4. ASSUME NEW p \in Path PROVE Fits(p)'
  <2>1. Fits(p)
    BY DEF SameIInv
  <2>2. CASE tree'[p] = tree[p]
    BY <2>1, <2>2 DEF Fits, Installer!KindIn
  <2>3. CASE p # h /\ tree'[p] # tree[p]
    <3>1. p \in Above[h] /\ Installer!KindIn(version, h) # "none" /\ tree'[p].kind = "dir"
      BY <1>1, <2>3 DEF Installer!Dir
    <3> QED
      BY <1>1, <3>1 DEF Fits, Installer!KindIn
  <2>4. CASE p = h /\ tree'[p].kind \in {"none", Installer!mapping.kind}
    <3>1. tree'[p].kind = "none" \/ tree'[p].kind = Installer!KindIn(version, p)
      BY <1>1, <2>4
    <3> QED
      BY <1>1, <3>1 DEF Fits, Installer!KindIn
  <2> QED
    BY <2>2, <2>3, <2>4
<1>5. ASSUME NEW i \in 1..place' - 1 PROVE Made(Paths[i])'
  <2>1. place \in Nat /\ (place' = place \/ place' = place + 1)
    BY <1>2
  <2>2. CASE i = place
    <3>1. place' # place
      BY <1>2, <2>2
    <3>2. Made(h)'
      BY <1>3, <3>1
    <3> QED
      BY <1>1, <2>2, <3>2
  <2>3. CASE i # place
    <3>1. i \in 1..place - 1 /\ i \in DOMAIN Paths
      BY <1>2, <2>1, <2>3
    <3>2. Paths[i] \in Path /\ Paths[i] # h
      <4>1. /\ Paths[i] \in Path
            /\ \A j \in DOMAIN Paths : Paths[i] = Paths[j] => i = j
        BY <3>1, PathsFacts
      <4>2. place \in DOMAIN Paths
        OBVIOUS
      <4> QED
        BY <1>1, <2>3, <4>1, <4>2
    <3>3. Made(Paths[i])
      BY <3>1 DEF SameIInv, Active, Preparing
    <3>4. tree'[Paths[i]] = tree[Paths[i]] \/ tree[Paths[i]].kind = "none"
      BY <3>2
    <3> QED
      BY <1>3, <3>2, <3>3, <3>4, MadeKept
  <2> QED
    BY <2>2, <2>3
<1>6. step' # "mapping" => Installer!here' = h /\ Installer!mapping' = Installer!mapping
  BY DEF Installer!here, Installer!mapping
<1>7. /\ (step = "symlink" => tree[Installer!here] = Installer!Nothing)'
      /\ (step = "set_len" => tree[Installer!here].kind = "file")'
      /\ (step = "chmod" => Installer!mapping.exec)'
  BY <1>3, <1>6 DEF Installer!Nothing
<1>8. (step = "chmod" => Filled(Installer!here))'
  <2> SUFFICES ASSUME step' = "chmod" PROVE Filled(Installer!here)'
    OBVIOUS
  <2>1. Filled(h)' /\ Installer!here' = h
    BY <1>6
  <2> QED
    BY <2>1 DEF Filled
<1>9. (step \notin {"failed", "done"})' /\ version' \in Similar
  BY <1>1, <1>3
<1> QED
  BY <1>4, <1>5, <1>7, <1>8, <1>9 DEF SameIInv

\* A path the version does not name is made.
LEMMA SameSkip == ASSUME SameIInv, MixIInv', Installer!SkipUnnamed PROVE SameIInv'
<1>1. /\ step = "mapping" /\ place \in DOMAIN Paths /\ Installer!mapping.kind = "none" /\ Preparing
      /\ tree' = tree /\ UNCHANGED <<version, pending, late, runs>> /\ step' = "mapping" /\ place' = place + 1
  BY AtFacts DEF SameIInv, Installer!SkipUnnamed, Installer!Advance
<1>2. ASSUME NEW h, h = Installer!here PROVE Made(h)'
  <2>1. Versions[version][h].kind = "none"
    BY <1>1, <1>2 DEF Installer!mapping
  <2> QED
    BY <1>1, <2>1 DEF Made
<1> QED
  BY <1>1, <1>2, SamePrepare

\* The mapping at place, when the versions agree.
LEMMA SameHere ==
  ASSUME SameIInv, Preparing, place \in DOMAIN Paths, Installer!mapping.kind # "none"
  PROVE  /\ version \in Similar /\ version \in DOMAIN Versions /\ Installer!here \in Path
         /\ Installer!mapping = Versions[version][Installer!here]
         /\ tree \in [Path -> Installer!Entry]
         /\ tree[Installer!here].kind \in {"none", Installer!mapping.kind}
         /\ Installer!Creatable(Above[Installer!here]) /\ Above[Installer!here] \in SUBSET Path
         /\ Installer!here \notin Above[Installer!here]
         /\ Installer!mapping.kind = "link" => Installer!mapping.to # ""
<1>1. /\ version \in Similar /\ version \in DOMAIN Versions /\ Installer!here \in Path
      /\ Installer!mapping = Versions[version][Installer!here]
      /\ tree \in [Path -> Installer!Entry]
      /\ Installer!KindIn(version, Installer!here) = Installer!mapping.kind
  BY Here, Typed DEF SameIInv, MixIInv, Running, Preparing
<1>2. Installer!mapping.kind = "link" => Installer!mapping.to # ""
  <2>1. \A p \in Path : Installer!KindIn(version, p) = "link" => Versions[version][p].to # ""
    BY <1>1, SimilarFacts
  <2> QED
    BY ONLY <1>1, <2>1
<1> QED
  BY <1>1, <1>2, Fitting

\* A directory's path holds nothing or a directory.
LEMMA SameMakeDir == ASSUME SameIInv, MixIInv', Installer!MakeDir PROVE SameIInv'
<1> SUFFICES ASSUME NEW h, h = Installer!here PROVE SameIInv'
  OBVIOUS
<1> DEFINE ds == Above[h] \cup {h}
<1>1. step = "mapping" /\ place \in DOMAIN Paths /\ Installer!mapping.kind = "dir" /\ Preparing
  BY AtFacts DEF SameIInv, Installer!MakeDir
<1>2. /\ Installer!Creatable(Above[h]) /\ tree[h].kind \in {"none", "dir"} /\ ds \in SUBSET Path /\ h \in Path
      /\ tree \in [Path -> Installer!Entry] /\ Versions[version][h].kind = "dir"
  BY <1>1, SameHere
<1>3. Installer!Creatable(ds)
  BY <1>2 DEF Installer!Creatable
<1>4. tree' = Installer!WithDirs(ds) /\ UNCHANGED <<version, pending, late, runs>> /\ step' = "mapping" /\ place' = place + 1
  BY <1>3 DEF Installer!MakeDir, Installer!Advance
<1>5. h \in ds /\ \A p \in ds : p # h => p \in Above[h]
  OBVIOUS
<1> HIDE DEF ds
<1>6. /\ \A p \in Path : tree'[p] # tree[p] => p \in ds /\ tree[p].kind = "none" /\ tree'[p] = Installer!Dir
      /\ tree'[h] = Installer!Dir
  BY <1>2, <1>3, <1>4, <1>5, DirsFacts
<1>7. Made(h)'
  BY <1>2, <1>4, <1>6 DEF Made, Installer!Dir
<1>8. \A p \in Path \ {h} : tree'[p] = tree[p] \/ (p \in Above[h] /\ tree[p].kind = "none" /\ tree'[p] = Installer!Dir)
  BY <1>5, <1>6
<1>9. tree'[h].kind = "dir"
  BY <1>6 DEF Installer!Dir
<1> QED
  BY <1>1, <1>4, <1>7, <1>8, <1>9, SamePrepare

\* A link's path holds nothing or a link, so remove_file leaves nothing.
LEMMA SameRemoveOld == ASSUME SameIInv, MixIInv', Installer!RemoveOld PROVE SameIInv'
<1> SUFFICES ASSUME NEW h, h = Installer!here PROVE SameIInv'
  OBVIOUS
<1> DEFINE ds == Above[h]
           W == Installer!WithDirs(ds)
<1>1. step = "mapping" /\ place \in DOMAIN Paths /\ Installer!mapping.kind = "link" /\ Preparing
  BY AtFacts DEF SameIInv, Installer!RemoveOld
<1>2. /\ Installer!Creatable(ds) /\ tree[h].kind \in {"none", "link"} /\ ds \in SUBSET Path /\ h \in Path
      /\ tree \in [Path -> Installer!Entry] /\ Installer!mapping.to # ""
  BY <1>1, SameHere
<1>3. /\ tree' = [p \in Path |-> IF p = h /\ tree[p].kind # "dir" THEN Installer!Nothing ELSE W[p]]
      /\ UNCHANGED <<version, pending, late, runs>> /\ step' = "symlink" /\ place' = place
  BY <1>2 DEF Installer!RemoveOld, Installer!To, Path
<1> HIDE DEF ds
<1>4. \A p \in Path : W[p] # tree[p] => p \in ds /\ tree[p].kind = "none" /\ W[p] = Installer!Dir
  BY <1>2, DirsFacts
<1> HIDE DEF W
<1>5. tree'[h] = Installer!Nothing /\ \A p \in Path \ {h} : tree'[p] = W[p]
  BY <1>2, <1>3
<1>6. \A p \in Path \ {h} : tree'[p] = tree[p] \/ (p \in ds /\ tree[p].kind = "none" /\ tree'[p] = Installer!Dir)
  BY <1>4, <1>5
<1>7. tree'[h].kind = "none"
  BY <1>5 DEF Installer!Nothing
<1> QED
  BY <1>1, <1>3, <1>5, <1>6, <1>7, SamePrepare DEF ds

\* The link is made where RemoveOld left nothing.
LEMMA SameSymlink == ASSUME SameIInv, MixIInv', Installer!Symlink PROVE SameIInv'
<1> SUFFICES ASSUME NEW h, h = Installer!here PROVE SameIInv'
  OBVIOUS
<1>1. step = "symlink" /\ place \in DOMAIN Paths /\ Installer!mapping.kind = "link" /\ Preparing
  BY DEF SameIInv, Installer!Symlink, MixIInv, Steps, Preparing
<1>2. h \in Path /\ tree \in [Path -> Installer!Entry] /\ Installer!mapping = Versions[version][h]
  BY <1>1, SameHere
<1>3. /\ tree' = [tree EXCEPT ![h] = Installer!Link(Installer!mapping.to)]
      /\ UNCHANGED <<version, pending, late, runs>> /\ step' = "mapping" /\ place' = place + 1
  BY <1>1 DEF SameIInv, Installer!Symlink, Installer!Advance
<1>4. tree'[h] = Installer!Link(Versions[version][h].to) /\ \A p \in Path \ {h} : tree'[p] = tree[p]
  BY <1>2, <1>3
<1>5. Made(h)' /\ tree'[h].kind = "link"
  BY <1>1, <1>2, <1>3, <1>4 DEF Made, Installer!Link
<1> QED
  BY <1>1, <1>3, <1>4, <1>5, SamePrepare

\* A file's path holds nothing or a file, so File::create succeeds.
LEMMA SameCreateFile == ASSUME SameIInv, MixIInv', Installer!CreateFile PROVE SameIInv'
<1> SUFFICES ASSUME NEW h, h = Installer!here PROVE SameIInv'
  OBVIOUS
<1> DEFINE ds == Above[h]
           e == IF tree[h].kind = "file" THEN tree[h].exec ELSE FALSE
           W == Installer!WithDirs(ds)
<1>1. step = "mapping" /\ place \in DOMAIN Paths /\ Installer!mapping.kind = "file" /\ Preparing
  BY AtFacts DEF SameIInv, Installer!CreateFile
<1>2. /\ Installer!Creatable(ds) /\ tree[h].kind \in {"none", "file"} /\ ds \in SUBSET Path /\ h \in Path
      /\ tree \in [Path -> Installer!Entry] /\ h \notin ds
  BY <1>1, SameHere
<1>3. Installer!Resolve(Installer!here) = h
  BY <1>2 DEF Installer!Resolve
<1>4. ds \ {h} = ds
  BY <1>2
<1>5. /\ tree' = [W EXCEPT ![h] = Installer!File(<<>>, e)]
      /\ UNCHANGED <<version, pending, late, runs>> /\ step' = "set_len" /\ place' = place
  BY <1>2, <1>3, <1>4 DEF Installer!CreateFile, Installer!To
<1>f. Installer!File(<<>>, e).kind = "file" /\ Installer!File(<<>>, e).data = <<>>
  BY DEF Installer!File
<1> HIDE DEF ds, e
<1>6. /\ \A p \in Path : W[p] # tree[p] => p \in ds /\ tree[p].kind = "none" /\ W[p] = Installer!Dir
      /\ W \in [Path -> Installer!Entry]
  BY <1>2, DirsFacts
<1> HIDE DEF W
<1>7. tree'[h] = Installer!File(<<>>, e) /\ \A p \in Path \ {h} : tree'[p] = W[p]
  BY <1>2, <1>5, <1>6
<1>8. \A p \in Path \ {h} : tree'[p] = tree[p] \/ (p \in ds /\ tree[p].kind = "none" /\ tree'[p] = Installer!Dir)
  BY <1>6, <1>7
<1> QED
  BY <1>1, <1>5, <1>f, <1>7, <1>8, SamePrepare DEF ds

\* set_len gives a file its size.
LEMMA SameSetLen == ASSUME SameIInv, MixIInv', Installer!SetLen PROVE SameIInv'
<1> SUFFICES ASSUME NEW h, h = Installer!here PROVE SameIInv'
  OBVIOUS
<1> DEFINE n == Versions[version][h].size
           d == Installer!Resized(tree[h].data, n)
<1>1. /\ step = "set_len" /\ place \in DOMAIN Paths /\ Installer!mapping.kind = "file" /\ Preparing
      /\ Installer!mapping.size \in Nat
      /\ tree[h].kind = "file"
  BY HereHolds DEF SameIInv, MixIInv, Installer!SetLen
<1>2. h \in Path /\ tree \in [Path -> Installer!Entry] /\ Installer!mapping = Versions[version][h] /\ n \in Nat
  BY <1>1, SameHere
<1>3. Installer!Resolve(Installer!here) = h
  BY <1>1 DEF Installer!Resolve
<1>4. /\ tree' = Installer!WithData(h, d) /\ UNCHANGED <<version, pending, late, runs>>
      /\ \/ step' = "mapping" /\ place' = place + 1 /\ ~ Installer!mapping.exec
         \/ step' = "chmod" /\ place' = place /\ Installer!mapping.exec
  BY <1>1, <1>2, <1>3 DEF Installer!SetLen, Installer!To, Installer!Advance
<1> HIDE DEF n
<1>5. d \in Seq(Installer!Block) /\ Len(d) = n
  <2>1. 0 \in Installer!Block /\ tree[h].data \in Seq(Installer!Block)
    BY <1>1, <1>2, EntryFacts DEF Installer!Block, Installer!Zero
  <2> QED
    BY <1>2, <2>1, ResizedFacts
<1> HIDE DEF d
<1>7. tree'[h].kind = "file" /\ tree'[h].data = d /\ \A p \in Path \ {h} : tree'[p] = tree[p]
  BY <1>1, <1>2, <1>4, <1>5, WithDataFacts
<1>8. Filled(h)'
  <2>1. step' \notin {"writing", "done"} /\ Versions[version'][h].size = n /\ n <= n
    BY <1>2, <1>4 DEF n
  <2> QED
    BY <1>5, <1>7, <2>1 DEF Filled
<1>9. ~ Installer!mapping.exec => Made(h)'
  BY <1>1, <1>2, <1>4, <1>8 DEF Made
<1> QED
  BY <1>1, <1>4, <1>7, <1>8, <1>9, SamePrepare

\* set_permissions makes the file executable and keeps its data.
LEMMA SameChmod == ASSUME SameIInv, MixIInv', Installer!Chmod PROVE SameIInv'
<1> SUFFICES ASSUME NEW h, h = Installer!here PROVE SameIInv'
  OBVIOUS
<1>1. /\ step = "chmod" /\ place \in DOMAIN Paths /\ Installer!mapping.kind = "file" /\ Preparing
      /\ Installer!mapping.exec /\ Filled(h)
  BY HereHolds DEF SameIInv, Installer!Chmod
<1>2. h \in Path /\ tree \in [Path -> Installer!Entry] /\ Installer!mapping = Versions[version][h]
  BY <1>1, SameHere
<1>3. tree[h].kind = "file"
  BY <1>1 DEF Filled
<1>4. Installer!Resolve(Installer!here) = h
  BY <1>3 DEF Installer!Resolve
<1>5. /\ tree' = [tree EXCEPT ![h].exec = TRUE] /\ UNCHANGED <<version, pending, late, runs>>
      /\ step' = "mapping" /\ place' = place + 1
  BY <1>1, <1>4 DEF Installer!Chmod, Installer!Advance
<1>6. tree[h] \in [kind : {"file"}, data : Seq(Installer!Block), exec : BOOLEAN]
  <2>1. tree[h] \in Installer!Entry
    BY <1>2
  <2> QED
    BY <1>3, <2>1 DEF Installer!Entry, Installer!Nothing, Installer!Dir
<1>7. /\ tree'[h].kind = "file" /\ tree'[h].data = tree[h].data /\ tree'[h].exec
      /\ \A p \in Path \ {h} : tree'[p] = tree[p]
  BY <1>2, <1>5, <1>6
<1>8. Made(h)'
  <2>1. Filled(h)'
    BY <1>1, <1>5, <1>7 DEF Filled
  <2> QED
    BY <1>1, <1>2, <1>5, <1>7, <2>1 DEF Made
<1> QED
  BY <1>1, <1>5, <1>7, <1>8, SamePrepare

-----------------------------------------------------------------------------

\* What is made when the mappings are through: every path.
LEMMA AllMade ==
  ASSUME SameIInv, step \in {"mapping", "writing", "done"}, place = Len(Paths) + 1
  PROVE  /\ version \in Similar /\ version \in DOMAIN Versions
         /\ \A p \in Path : Made(p)
<1> DEFINE L == Len(Paths)
<1>1. Active /\ step # "idle"
  BY DEF Active
<1>2. version \in Similar /\ \A i \in 1..place - 1 : Made(Paths[i])
  BY <1>1 DEF SameIInv
<1>3. L \in Nat /\ DOMAIN Paths = 1..L /\ place = L + 1
  BY PathsFacts
<1> HIDE DEF L
<1>4. 1..place - 1 = DOMAIN Paths
  BY <1>3
<1>5. \A p \in Path : Made(p)
  <2>1. SUFFICES ASSUME NEW p \in Path PROVE Made(p)
    OBVIOUS
  <2>2. PICK i \in DOMAIN Paths : p = Paths[i]
    BY <2>1, PathsFacts
  <2>3. Made(Paths[i])
    BY ONLY <1>2, <1>4, <2>2
  <2> QED
    BY <2>2, <2>3
<1> QED
  BY <1>2, <1>5, SimilarFacts

\* A state of the last steps of a run, in which every path is made.
LEMMA AllMadeKeeps ==
  ASSUME SameIInv, MixIInv', place = Len(Paths) + 1, UNCHANGED <<version, place>>,
         version \in Similar, step' \in {"writing", "done"},
         step' = "done" => pending' = {}, \A p \in Path : Made(p)' /\ Fits(p)'
  PROVE  SameIInv'
<1> DEFINE L == Len(Paths)
<1>3. L \in Nat /\ DOMAIN Paths = 1..L /\ place = L + 1 /\ place' = L + 1
  BY PathsFacts
<1> HIDE DEF L
<1>4. 1..place' - 1 = DOMAIN Paths
  BY <1>3
<1>5. \A i \in 1..place' - 1 : Made(Paths[i])'
  BY <1>4, PathsFacts
<1>6. place' = Len(Paths) + 1
  BY <1>3 DEF L
<1> QED
  BY <1>5, <1>6 DEF SameIInv

\* What a path may hold depends on its kind alone.
LEMMA FitsKept ==
  ASSUME NEW p, Fits(p), tree'[p].kind = tree[p].kind
  PROVE  Fits(p)'
BY DEF Fits, Installer!KindIn

\* When the jobs are made, every file has its size and every block is a job.
LEMMA SameFlatten == ASSUME SameIInv, MixIInv', Installer!Flatten PROVE SameIInv'
<1>1. /\ step = "mapping" /\ place = Len(Paths) + 1 /\ step' = "writing" /\ pending' = Installer!Jobs(version)
      /\ UNCHANGED <<tree, version, place, late, runs>>
  BY DEF Installer!Flatten
<1>2. version \in Similar /\ version \in DOMAIN Versions /\ \A p \in Path : Made(p)
  BY <1>1, AllMade
<1>3. ASSUME NEW p \in Path PROVE Made(p)' /\ Fits(p)'
  <2>1. Made(p) /\ Fits(p)
    BY <1>2 DEF SameIInv
  <2>2. ASSUME Versions[version][p].kind = "file" PROVE Filled(p)'
    <3>1. \A i \in 1..Versions[version][p].size : [path |-> p, at |-> i] \in pending'
      BY <1>1, <2>2, JobsFacts DEF Installer!IsFile, Installer!KindIn
    <3>2. Filled(p)
      BY <2>1, <2>2 DEF Made
    <3> QED
      BY <1>1, <3>1, <3>2 DEF Filled
  <2>3. Made(p)'
    BY <1>1, <2>1, <2>2 DEF Made, Installer!Dir, Installer!Link
  <2> QED
    BY <1>1, <2>1, <2>3, FitsKept
<1> QED
  BY <1>1, <1>2, <1>3, AllMadeKeeps

\* What a write leaves of a file that is filled: a stray block, or one of this
\* version within the file's size.
LEMMA FilledPut ==
  ASSUME SameIInv, NEW q, NEW at, NEW b, Puts(q, at, b), Filled(q), UNCHANGED <<version, step>>,
         Versions[version][q].size \in Nat,
         b = Stray \/ (b = version /\ at <= Versions[version][q].size),
         \A i \in 1..Versions[version][q].size :
           [path |-> q, at |-> i] \in pending /\ [path |-> q, at |-> i] \notin pending' => i = at
  PROVE  Filled(q)'
<1>1. PICK n \in Nat : n = Versions[version][q].size
  OBVIOUS
<1>2. PICK d : d = tree[q].data
  OBVIOUS
<1>3. PICK e : e = Installer!Written(d, at, b)
  OBVIOUS
<1>4. /\ d \in Seq(Installer!Block) /\ tree'[q].kind = "file" /\ tree'[q].data = e
      /\ at \in Nat \ {0} /\ b \in Installer!Block
  <2>1. Installer!TypeOK
    BY DEF SameIInv, MixIInv
  <2>2. tree \in [Path -> Installer!Entry]
    BY <2>1, Typed
  <2>3. /\ tree[q].data \in Seq(Installer!Block) /\ tree'[q].kind = "file"
        /\ tree'[q].data = Installer!Written(tree[q].data, at, b)
    BY <2>2, PutsFacts
  <2> QED
    BY <1>2, <1>3, <2>3 DEF Puts
<1>5. 0 \in Installer!Block
  BY DEF Installer!Block, Installer!Zero
<1>6. /\ Len(d) \in Nat
      /\ at <= Len(d) => Len(e) = Len(d)
      /\ ~ (at <= Len(d)) => Len(e) = at
      /\ e[at] = b
      /\ \A i \in 1..Len(e) : i # at /\ i <= Len(d) => e[i] = d[i]
  <2>1. IsWritten(e, d, at, b)
    BY <1>3, <1>4, WrittenFacts
  <2> QED
    BY ONLY <2>1 DEF IsWritten
<1>7. /\ n <= Len(d)
      /\ \A i \in 1..n : step \in {"writing", "done"} /\ [path |-> q, at |-> i] \notin pending => d[i] \in {version, Stray}
      /\ ~ (Len(d) <= n) => d[Len(d)] = Stray
  BY <1>1, <1>2 DEF Filled
<1>8. b = Stray \/ (b = version /\ at <= n)
  BY <1>1
<1>9. n <= Len(e) /\ Len(e) \in Nat /\ Len(d) <= Len(e)
  BY <1>4, <1>6, <1>7
<1>10. ASSUME NEW i \in 1..n, step \in {"writing", "done"}, [path |-> q, at |-> i] \notin pending'
       PROVE  e[i] \in {version, Stray}
  <2>1. CASE i = at
    BY <1>6, <1>8, <2>1
  <2>2. CASE i # at
    <3>1. [path |-> q, at |-> i] \notin pending
      BY <1>1, <1>10, <2>2
    <3>2. e[i] = d[i]
      BY <1>6, <1>7, <1>9, <2>2
    <3> QED
      BY <1>7, <1>10, <3>1, <3>2
  <2> QED
    BY <2>1, <2>2
<1>11. ASSUME ~ (Len(e) <= n) PROVE e[Len(e)] = Stray
  <2>1. CASE at = Len(e)
    <3>1. ~ (at <= n)
      BY <1>11, <2>1
    <3> QED
      BY <1>6, <1>8, <2>1, <3>1
  <2>2. CASE at # Len(e)
    <3>1. Len(e) = Len(d)
      BY <1>6, <2>2
    <3>2. Len(e) \in 1..Len(e)
      BY <1>1, <1>9, <1>11
    <3>3. e[Len(e)] = d[Len(d)]
      BY <1>6, <1>9, <2>2, <3>1, <3>2
    <3> QED
      BY <1>7, <1>11, <3>1, <3>3
  <2> QED
    BY <2>1, <2>2
<1>12. n = Versions[version'][q].size
  BY <1>1
<1> QED
  BY <1>4, <1>9, <1>10, <1>11, <1>12 DEF Filled

\* A file is of the version it is filled for, or of none that is being written.
LEMMA PutMade ==
  ASSUME SameIInv, NEW q, NEW at, NEW b, Puts(q, at, b), UNCHANGED <<version, step>>, pending' \subseteq pending,
         version \in DOMAIN Versions,
         Filled(q) /\ Versions[version][q].kind = "file" => Filled(q)',
         \A p \in Path \ {q} : \A i : [path |-> p, at |-> i] \in pending => [path |-> p, at |-> i] \in pending'
  PROVE  \A p \in Path : Made(p) => Made(p)'
<1> SUFFICES ASSUME NEW p \in Path, Made(p) PROVE Made(p)'
  OBVIOUS
<1>1. /\ tree[q].kind = "file" /\ tree'[q].kind = "file" /\ tree'[q].exec = tree[q].exec
      /\ \A r \in Path \ {q} : tree'[r] = tree[r]
  BY PutsFacts, Typed DEF SameIInv, MixIInv, Puts
<1>2. CASE p = q
  <2>1. Versions[version][p].kind \notin {"dir", "link"}
    BY <1>1, <1>2 DEF Made, Installer!Dir, Installer!Link
  <2>2. Versions[version][p].kind = "file" => Filled(p)' /\ (Versions[version][p].exec => tree'[p].exec)
    BY <1>1, <1>2 DEF Made
  <2> QED
    BY <2>1, <2>2 DEF Made
<1>3. CASE p # q
  <2>1. tree'[p] = tree[p]
    BY <1>1, <1>3
  <2>2. \A i : [path |-> p, at |-> i] \in pending' <=> [path |-> p, at |-> i] \in pending
    BY <1>3
  <2>3. Filled(p) => Filled(p)'
    BY <2>1, <2>2 DEF Filled
  <2> QED
    BY <2>1, <2>3 DEF Made, Installer!Dir, Installer!Link
<1> QED
  BY <1>2, <1>3

\* A step that goes nowhere and keeps kinds, what is made, and what is filled.
LEMMA SameStays ==
  ASSUME SameIInv, MixIInv', UNCHANGED <<version, step, place>>,
         step = "done" => pending' = {},
         \A p \in Path : tree'[p].kind = tree[p].kind,
         \A p \in Path : tree[p].kind = "none" => tree'[p] = tree[p],
         \A p \in Path : Made(p) => Made(p)',
         \A p \in Path : Filled(p) /\ Versions[version][p].kind = "file" => Filled(p)'
  PROVE  SameIInv'
<1>1. \A p \in Path : Fits(p)'
  BY FitsKept DEF SameIInv
<1>2. Installer!here' = Installer!here /\ Installer!mapping' = Installer!mapping
  BY DEF Installer!here, Installer!mapping
<1>3. step \in {"symlink", "set_len", "chmod"} => Installer!here \in Path
  BY Typed DEF SameIInv, MixIInv, Steps
<1>4. (step = "symlink" => tree[Installer!here] = Installer!Nothing)'
  BY <1>2, <1>3 DEF SameIInv, Installer!Nothing
<1>5. (step = "set_len" => tree[Installer!here].kind = "file")'
  BY <1>2, <1>3 DEF SameIInv
<1>6. (step = "chmod" => Filled(Installer!here) /\ Installer!mapping.exec)'
  <2> SUFFICES ASSUME step = "chmod" PROVE Filled(Installer!here)' /\ Installer!mapping.exec
    BY <1>2
  <2>1. Filled(Installer!here) /\ Installer!mapping.exec /\ Versions[version][Installer!here].kind = "file"
    BY DEF SameIInv, MixIInv, Steps, Installer!mapping
  <2>2. PICK h \in Path : h = Installer!here /\ h = Installer!here'
    BY <1>2, <1>3
  <2>3. Filled(h)'
    BY <2>1, <2>2
  <2> QED
    BY <2>1, <2>2, <2>3 DEF Filled
<1>7. (Active => \A i \in 1..place - 1 : Made(Paths[i]))'
  <2> SUFFICES ASSUME Active, NEW i \in 1..place - 1 PROVE Made(Paths[i])'
    BY DEF Active
  <2> DEFINE L == Len(Paths)
  <2>1. L \in Nat /\ DOMAIN Paths = 1..L /\ place \in 1..L + 1
    BY PathsFacts, Typed DEF SameIInv, MixIInv
  <2> HIDE DEF L
  <2>2. i \in DOMAIN Paths
    BY <2>1
  <2> QED
    BY <2>2, PathsFacts DEF SameIInv
<1>8. (step = "done" => place = Len(Paths) + 1 /\ pending = {})'
  BY DEF SameIInv
<1> QED
  BY <1>1, <1>4, <1>5, <1>6, <1>7, <1>8 DEF SameIInv

\* A write that lands in a file of this version, within its size, or strays.
LEMMA SamePut ==
  ASSUME SameIInv, MixIInv', NEW q, NEW at, NEW b, Puts(q, at, b), UNCHANGED <<version, step, place>>,
         pending' \subseteq pending,
         b = Stray \/ (b = version /\ Versions[version][q].kind = "file" /\ at <= Versions[version][q].size),
         \A p, i : [path |-> p, at |-> i] \in pending /\ [path |-> p, at |-> i] \notin pending' => p = q /\ i = at
  PROVE  SameIInv'
<1>1. /\ tree[q].kind = "file" /\ tree'[q].kind = "file" /\ q \in Path
      /\ \A p \in Path \ {q} : tree'[p] = tree[p]
  BY PutsFacts, Typed DEF SameIInv, MixIInv, Puts
<1>2. step # "idle" => version \in DOMAIN Versions
  BY SimilarFacts DEF SameIInv
<1>3. CASE step = "idle"
  <2>1. \A p \in Path : Fits(p)'
    BY <1>1, FitsKept DEF SameIInv
  <2> QED
    BY <1>3, <2>1 DEF SameIInv, Active
<1>4. CASE step # "idle"
  <2>1. Filled(q) /\ Versions[version][q].kind = "file" => Filled(q)'
    <3> SUFFICES ASSUME Filled(q), Versions[version][q].kind = "file" PROVE Filled(q)'
      OBVIOUS
    <3>1. Versions[version][q].size \in Nat
      BY <1>1, <1>2, <1>4, MappingFacts
    <3> QED
      BY <3>1, FilledPut
  <2>2. \A p \in Path : Made(p) => Made(p)'
    BY <1>2, <1>4, <2>1, PutMade
  <2>3. ASSUME NEW p \in Path, p # q, Filled(p) PROVE Filled(p)'
    <3>1. tree'[p] = tree[p]
      BY <1>1, <2>3
    <3>2. \A i : [path |-> p, at |-> i] \in pending' <=> [path |-> p, at |-> i] \in pending
      BY <2>3
    <3> QED
      BY <2>3, <3>1, <3>2 DEF Filled
  <2>4. \A p \in Path : tree'[p].kind = tree[p].kind /\ (tree[p].kind = "none" => tree'[p] = tree[p])
    BY <1>1
  <2>5. step = "done" => pending' = {}
    BY DEF SameIInv
  <2> QED
    BY <2>1, <2>2, <2>3, <2>4, <2>5, SameStays
<1> QED
  BY <1>3, <1>4

\* A chunk's write fills one block of one file, whose job it removes.
LEMMA SameWriteChunk == ASSUME SameIInv, MixIInv', NEW j \in pending, Installer!WriteChunk(j) PROVE SameIInv'
<1> SUFFICES ASSUME NEW q, q = j.path PROVE SameIInv'
  OBVIOUS
<1>1. /\ version \in DOMAIN Versions /\ Running
      /\ q \in Path /\ Versions[version][q].kind = "file" /\ Versions[version][q].size \in Nat
      /\ j.at \in 1..Versions[version][q].size
      /\ j = [path |-> q, at |-> j.at] /\ Holds(Installer!Resolve(q))
  BY JobFile DEF SameIInv, Installer!IsFile, Installer!KindIn
<1>2. tree[q].kind # "link"
  <2>1. Fits(q) /\ version \in Similar
    BY <1>1 DEF SameIInv, Running
  <2>2. Installer!KindIn(version, q) = "file"
    BY <1>1 DEF Installer!KindIn
  <2>3. tree[q].kind \in {"none", "file"}
    BY <1>1, <2>1, <2>2, Fitting
  <2> QED
    BY <2>3
<1>3. Installer!Resolve(q) = q
  BY <1>2 DEF Installer!Resolve
<1>4. tree[q].kind = "file"
  BY <1>1, <1>3 DEF Holds
<1>5. /\ tree' = Installer!WithData(q, Installer!Written(tree[q].data, j.at, version))
      /\ pending' = pending \ {j} /\ UNCHANGED <<version, step, place, late, runs>>
  BY <1>3, <1>4 DEF Installer!WriteChunk
<1>6. Puts(q, j.at, version)
  BY <1>1, <1>4, <1>5 DEF Puts, Installer!Block
<1>7. j.at <= Versions[version][q].size
  BY <1>1
<1>8. \A p, i : [path |-> p, at |-> i] \in pending /\ [path |-> p, at |-> i] \notin pending' => p = q /\ i = j.at
  BY <1>1, <1>5
<1> QED
  BY <1>1, <1>5, <1>6, <1>7, <1>8, SamePut

\* A late write lands in a file of this version, within its size, or strays.
LEMMA SameLateWrite == ASSUME SameIInv, MixIInv', NEW w \in late, Installer!LateWrite(w) PROVE SameIInv'
<1>1. /\ w.version \in DOMAIN Versions /\ w.job \in Installer!Jobs(w.version)
      /\ UNCHANGED <<version, step, place, pending>>
      /\ \/ UNCHANGED tree
         \/ \E q : Puts(q, w.job.at, Stray)
         \/ \E q : /\ Puts(q, w.job.at, version) /\ Of(q, version)
                   /\ w.version = version /\ w.job.path = q
  BY LateFacts DEF SameIInv
<1>2. CASE UNCHANGED tree
  <2>1. \A p : Filled(p) => Filled(p)'
    BY <1>1, <1>2 DEF Filled
  <2>2. \A p : Made(p) => Made(p)'
    BY <1>1, <1>2, <2>1 DEF Made, Installer!Dir, Installer!Link
  <2> QED
    BY <1>1, <1>2, <2>1, <2>2, SameStays DEF SameIInv
<1>3. ASSUME NEW q, Puts(q, w.job.at, Stray) PROVE SameIInv'
  BY <1>1, <1>3, SamePut
<1>4. ASSUME NEW q, Puts(q, w.job.at, version), w.version = version, w.job.path = q PROVE SameIInv'
  <2>1. /\ Versions[version][q].kind = "file" /\ Versions[version][q].size \in Nat
        /\ w.job.at \in 1..Versions[version][q].size
    BY <1>1, <1>4, JobShape DEF Installer!IsFile, Installer!KindIn
  <2>2. w.job.at <= Versions[version][q].size
    BY <2>1
  <2> QED
    BY <1>1, <1>4, <2>1, <2>2, SamePut
<1> QED
  BY <1>1, <1>2, <1>3, <1>4

\* A run finishes when no job is left.
LEMMA SameFinish == ASSUME SameIInv, MixIInv', Installer!Finish PROVE SameIInv'
<1>1. /\ step = "writing" /\ pending = {} /\ step' = "done" /\ UNCHANGED <<tree, version, place, pending, late, runs>>
  BY DEF Installer!Finish, Installer!To
<1>2. place = Len(Paths) + 1
  BY <1>1 DEF SameIInv, MixIInv, Steps
<1>3. version \in Similar /\ \A p \in Path : Made(p)
  BY <1>1, <1>2, AllMade
<1>4. ASSUME NEW p \in Path PROVE Made(p)' /\ Fits(p)'
  <2>1. Made(p) /\ Fits(p)
    BY <1>3 DEF SameIInv
  <2>2. Filled(p) => Filled(p)'
    BY <1>1 DEF Filled
  <2>3. Made(p)'
    BY <1>1, <2>1, <2>2 DEF Made, Installer!Dir, Installer!Link
  <2> QED
    BY <1>1, <2>1, <2>3, FitsKept
<1> QED
  BY <1>1, <1>2, <1>3, <1>4, AllMadeKeeps

\* A run that is cut off or aborted, and one that starts.
LEMMA SameEnds ==
  ASSUME SameIInv, MixIInv', UNCHANGED tree,
         \/ step' = "idle"
         \/ step' = "aborted" /\ version' \in Similar
         \/ step' = "mapping" /\ place' = 1 /\ version' \in Similar
  PROVE  SameIInv'
<1>1. \A p \in Path : Fits(p)'
  BY FitsKept DEF SameIInv
<1>2. step' = "mapping" => 1..place' - 1 = {}
  OBVIOUS
<1> QED
  BY <1>1, <1>2 DEF SameIInv, Active

\* The empty tree fits every version.
LEMMA SameInit == Installer!Init => SameIInv
<1> SUFFICES ASSUME Installer!Init PROVE SameIInv
  OBVIOUS
<1>1. MixIInv
  BY MixInit
<1>2. step = "idle" /\ \A p \in Path : tree[p].kind = "none"
  BY DEF Installer!Init, Path, Installer!Nothing
<1> QED
  BY <1>1, <1>2 DEF SameIInv, Fits, Active

\* Every step of the installer, for versions that agree, keeps the invariant.
LEMMA SameStep == SameIInv /\ [Installer!Next /\ version' \in Similar]_disk => SameIInv'
<1> SUFFICES ASSUME SameIInv, [Installer!Next /\ version' \in Similar]_disk PROVE SameIInv'
  OBVIOUS
<1>1. MixIInv'
  BY MixStep DEF SameIInv
<1>2. ASSUME NEW v \in DOMAIN Versions, Installer!Begin(v), version' \in Similar PROVE SameIInv'
  BY <1>1, <1>2, SameEnds DEF Installer!Begin
<1>3. CASE Installer!Prepare
  BY <1>1, <1>3, SameSkip, SameMakeDir, SameRemoveOld, SameSymlink, SameCreateFile, SameSetLen, SameChmod DEF Installer!Prepare
<1>4. CASE Installer!Flatten
  BY <1>1, <1>4, SameFlatten
<1>5. ASSUME NEW j \in pending, Installer!WriteChunk(j) PROVE SameIInv'
  BY <1>1, <1>5, SameWriteChunk
<1>6. CASE Installer!Finish
  BY <1>1, <1>6, SameFinish
<1>7. CASE Installer!CutOff
  BY <1>1, <1>7, SameEnds DEF Installer!CutOff
<1>8. CASE Installer!Abort
  <2>1. version \in Similar
    BY <1>8 DEF SameIInv, Installer!Abort
  <2> QED
    BY <1>1, <1>8, <2>1, SameEnds DEF Installer!Abort
<1>9. ASSUME NEW w \in late, Installer!LateWrite(w) PROVE SameIInv'
  BY <1>1, <1>9, SameLateWrite
<1>10. CASE UNCHANGED disk
  <2>1. UNCHANGED <<tree, version, step, place, pending, runs>>
    BY <1>10 DEF disk
  <2>2. \A p : Filled(p) => Filled(p)'
    BY <2>1 DEF Filled
  <2>3. \A p : Made(p) => Made(p)'
    BY <2>1, <2>2 DEF Made, Installer!Dir, Installer!Link
  <2> QED
    BY <1>1, <2>1, <2>2, <2>3, SameStays DEF SameIInv
<1> QED
  BY <1>2, <1>3, <1>4, <1>5, <1>6, <1>7, <1>8, <1>9, <1>10 DEF Installer!Next

\* The invariant makes a finished run complete.
LEMMA SameTreeInv == SameIInv => Installer!TreeInv
<1> SUFFICES ASSUME SameIInv PROVE Installer!TreeInv
  OBVIOUS
<1>1. Installer!TypeOK /\ Installer!RerunSucceeds
  BY DEF SameIInv, MixIInv, Installer!RerunSucceeds
<1>2. ASSUME step = "done", NEW p \in Installer!Path
      PROVE  LET m == Versions[version][p] IN
               CASE m.kind = "none" -> TRUE
                 [] m.kind = "dir" -> tree[p] = Installer!Dir
                 [] m.kind = "link" -> tree[p] = Installer!Link(m.to)
                 [] m.kind = "file" -> tree[p].kind = "file" /\ Installer!Complete(p) /\ (m.exec => tree[p].exec)
  <2> DEFINE m == Versions[version][p]
  <2>1. pending = {} /\ version \in DOMAIN Versions /\ Made(p) /\ p \in Path
    BY <1>2, AllMade DEF SameIInv, Path
  <2>2. m.kind \in {"none", "dir", "link", "file"}
    BY <2>1, MappingFacts
  <2>3. CASE m.kind = "file"
    <3>1. Filled(p) /\ (m.exec => tree[p].exec)
      BY <2>1, <2>3 DEF Made
    <3>2. tree[p].kind = "file" /\ tree[p].data \in Seq(Installer!Block)
      BY <2>1, <3>1, EntryFacts, Typed DEF SameIInv, MixIInv, Filled
    <3>3. Installer!Complete(p)
      <4>1. Len(tree[p].data) \in Nat /\ m.size \in Nat
        BY <2>1, <2>3, <3>2, MappingFacts, LenProperties
      <4>2. PICK n \in Nat : n = m.size
        BY <4>1
      <4>3. PICK l \in Nat : l = Len(tree[p].data)
        BY <4>1
      <4>4. n <= l => l >= n
        OBVIOUS
      <4>5. l > n => ~ (l <= n)
        OBVIOUS
      <4> QED
        BY <1>2, <3>1, <4>2, <4>3, <4>4, <4>5 DEF Filled, Installer!Complete
    <3> QED
      BY <2>3, <3>1, <3>2, <3>3
  <2>4. CASE m.kind # "file"
    BY <2>1, <2>2, <2>4 DEF Made
  <2> QED
    BY <2>3, <2>4
<1>3. Installer!Installed
  BY <1>2 DEF Installer!Installed
<1> QED
  BY <1>1, <1>3 DEF Installer!TreeInv

\* The inductive invariant of the tree, for both parts.
TreeIInv == MixIInv /\ (part = "same" => SameIInv)

\* download.rs: whatever runs follow each other, wherever they end, and whenever
\* a blocking write of a failed one lands, the inductive invariant holds.
THEOREM TreeInvariance == MCSpec => []TreeIInv
<1>1. MCInit => TreeIInv
  BY MixInit, SameInit DEF MCInit, TreeIInv
<1>2. TreeIInv /\ [MCNext]_<<part, vars, cipher, disk>> => TreeIInv'
  <2> SUFFICES ASSUME TreeIInv, [MCNext]_<<part, vars, cipher, disk>> PROVE TreeIInv'
    OBVIOUS
  <2>1. [Installer!Next]_disk /\ part' = part /\ (part = "same" => [Installer!Next /\ version' \in Similar]_disk)
    BY DEF MCNext
  <2> QED
    BY <2>1, MixStep, SameStep DEF TreeIInv
<1> QED
  BY <1>1, <1>2, PTL DEF MCSpec

\* download.rs: in whatever order runs of whatever versions follow each other and
\* end, a file holds blocks of one version, beside zeros and the blocks that late
\* writes of earlier runs have taken.
THEOREM NoMixHolds == MCSpec => []NoMix
<1>1. TreeIInv => NoMix
  BY MixNoMix DEF TreeIInv
<1> QED
  BY <1>1, TreeInvariance, PTL

\* download.rs: for versions that agree on kinds no run fails on what earlier ones
\* left or still write, and a run that finishes has installed its version:
\* directories, links, and files with their size, their mode and all their
\* chunks, but for the blocks that late writes of earlier runs have taken.
THEOREM TreeInvHolds == MCSpec => []TreeInv
<1>1. TreeIInv => TreeInv
  BY SameTreeInv DEF TreeIInv, TreeInv
<1> QED
  BY <1>1, TreeInvariance, PTL

=============================================================================
