---------------------------- MODULE FormatsProofs ----------------------------
(***************************************************************************)
(* Proofs about the pure algorithms, the parts MCFormats runs.             *)
(*                                                                         *)
(* About Adler32, for every modulus, block, word and largest byte with     *)
(* AdlerAssumption, which those of the source have, and for data of any    *)
(* length.  AdlerIInv is inductive: it bounds the two sums by the number   *)
(* of bytes since they were reduced, and says that they are those of the   *)
(* definition modulo MOD_ADLER.                                            *)
(*                                                                         *)
(* About ManifestBody, for any bodies.  ManifestIInv is inductive: each    *)
(* section that was read stands in the data right behind those before it   *)
(* (Occurs), and a failure has its reason there.                           *)
(*                                                                         *)
(* About KeyValues, for any texts without the mark At has for their end.   *)
(* ParserIInv is inductive: the place, the stack within what was read, and *)
(* every brace behind the parser counted against the open maps (Counted).  *)
(* And for any string: what was written in quotes reads as it was.         *)
(*                                                                         *)
(* The recursive functions of the parser exist, and have their values, by  *)
(* induction over a set of numbers (PrefixInduction).                      *)
(***************************************************************************)
EXTENDS MCFormats, SequenceTheorems, FiniteSetTheorems, TLAPS

\* Twice the largest second sum after n bytes of a block; the first is at most
\* Largest1(n).
Largest1(n) == (MOD_ADLER - 1) + MaxByte * n
Twice2(n) == 2 * ((MOD_ADLER - 1) * (n + 1)) + MaxByte * (n * (n + 1))

SumsInv ==
  /\ ~ done => s1 <= Largest1(inBlock) /\ 2 * s2 <= Twice2(inBlock)
  /\ ~ done => s1 % MOD_ADLER = a /\ s2 % MOD_ADLER = b
  /\ done => s1 = a /\ s2 = b

AdlerIInv == TypeOK /\ SumsInv

-----------------------------------------------------------------------------
(* Arithmetic *)

\* Quotient and remainder.
LEMMA DivMod ==
  ASSUME NEW x \in Nat, NEW m \in Nat \ {0}
  PROVE  /\ x \div m \in Nat /\ x % m \in 0..m - 1
         /\ x = m * (x \div m) + (x % m)
BY SMT

\* There is only one remainder.
LEMMA ModUnique ==
  ASSUME NEW x \in Nat, NEW m \in Nat \ {0}, NEW q \in Nat, NEW r \in 0..m - 1,
         x = m * q + r
  PROVE  x % m = r
<1> DEFINE p == x \div m
           s == x % m
<1>1. p \in Nat /\ s \in 0..m - 1 /\ x = m * p + s
  BY DivMod
<1> HIDE DEF p, s
<1>2. m * p + s = m * q + r
  BY <1>1
<1>3. CASE p = q
  BY <1>1, <1>2, <1>3 DEF s
<1>4. CASE p < q
  <2>1. PICK d \in Nat \ {0} : q = p + d
    <3>1. q - p \in Nat \ {0} /\ q = p + (q - p)
      BY <1>1, <1>4
    <3> QED
      BY <3>1
  <2>2. m * q = m * p + m * d /\ m * d >= m
    BY <1>1, <2>1
  <2> QED
    BY <1>1, <1>2, <2>2
<1>5. CASE q < p
  <2>1. PICK d \in Nat \ {0} : p = q + d
    <3>1. p - q \in Nat \ {0} /\ p = q + (p - q)
      BY <1>1, <1>5
    <3> QED
      BY <3>1
  <2>2. m * p = m * q + m * d /\ m * d >= m
    BY <1>1, <2>1
  <2> QED
    BY <1>1, <1>2, <2>2
<1> QED
  BY <1>1, <1>3, <1>4, <1>5

\* A sum may be reduced before it is added to.
LEMMA ModPlus ==
  ASSUME NEW x \in Nat, NEW y \in Nat, NEW m \in Nat \ {0}
  PROVE  ((x % m) + y) % m = (x + y) % m
<1> DEFINE q == x \div m
           r == x % m
           p == (r + y) \div m
           s == (r + y) % m
<1>1. q \in Nat /\ r \in 0..m - 1 /\ x = m * q + r
  BY DivMod
<1>2. r + y \in Nat
  BY <1>1
<1>3. p \in Nat /\ s \in 0..m - 1 /\ r + y = m * p + s
  BY <1>2, DivMod
<1> HIDE DEF q, r, p, s
<1>4. x + y = m * (q + p) + s /\ q + p \in Nat /\ x + y \in Nat
  <2>1. m * (q + p) = m * q + m * p
    BY <1>1, <1>3
  <2> QED
    BY <1>1, <1>3, <2>1
<1>5. (x + y) % m = s
  BY <1>3, <1>4, ModUnique
<1> QED
  BY <1>5 DEF s, r

\* What is below the modulus is its own remainder.
LEMMA ModSmall ==
  ASSUME NEW m \in Nat \ {0}, NEW x \in 0..m - 1
  PROVE  x % m = x
<1>1. x = m * 0 + x /\ x \in Nat
  OBVIOUS
<1> QED
  BY <1>1, ModUnique

\* The products by which the sums are bounded, one byte on and up to a block.
LEMMA Bounds ==
  ASSUME NEW n \in 0..Block - 1
  PROVE  /\ Largest1(n) \in Nat /\ Twice2(n) \in Nat
         /\ Largest1(n + 1) \in Nat /\ Twice2(n + 1) \in Nat
         /\ Largest1(n + 1) = Largest1(n) + MaxByte
         /\ Twice2(n + 1) = Twice2(n) + 2 * Largest1(n + 1)
         /\ Largest1(n + 1) < Word /\ Twice2(n + 1) < 2 * Word
<1> DEFINE m == MOD_ADLER - 1
<1>1. m \in Nat /\ MaxByte \in Nat /\ Word \in Nat /\ Block \in Nat \ {0} /\ n \in Nat
  BY AdlerAssumption
<1> HIDE DEF m
<1>2. /\ MaxByte * n \in Nat /\ MaxByte * (n + 1) = MaxByte * n + MaxByte
      /\ m * (n + 1) \in Nat /\ m * (n + 1 + 1) = m * (n + 1) + m
      /\ MaxByte * (n * (n + 1)) \in Nat
  BY <1>1
<1>3. MaxByte * ((n + 1) * (n + 1 + 1)) = MaxByte * (n * (n + 1)) + 2 * (MaxByte * (n + 1))
  <2>1. (n + 1) * (n + 1 + 1) = n * (n + 1) + 2 * (n + 1)
    BY <1>1
  <2>2. n * (n + 1) \in Nat /\ 2 * (n + 1) \in Nat
    BY <1>1
  <2>3. \A x, y \in Nat : MaxByte * (x + y) = MaxByte * x + MaxByte * y
    BY <1>1
  <2>4. MaxByte * (2 * (n + 1)) = 2 * (MaxByte * (n + 1))
    BY <1>1
  <2> QED
    BY <2>1, <2>2, <2>3, <2>4
<1>4. n + 1 <= Block => MaxByte * (n + 1) <= MaxByte * Block /\ m * (n + 1 + 1) <= m * (Block + 1)
  BY <1>1
<1>5. MaxByte * ((n + 1) * (n + 1 + 1)) <= MaxByte * (Block * (Block + 1))
  <2>1. (n + 1) * (n + 1 + 1) \in Nat /\ Block * (Block + 1) \in Nat
    BY <1>1
  <2>2. (n + 1) * (n + 1 + 1) <= Block * (Block + 1)
    <3>1. \A x, y \in Nat : x <= y => x * (x + 1) <= y * (y + 1)
      OBVIOUS
    <3> QED
      BY <1>1, <3>1
  <2>3. \A x, y \in Nat : x <= y => MaxByte * x <= MaxByte * y
    BY <1>1
  <2> QED
    BY <2>1, <2>2, <2>3
<1>6. /\ m + MaxByte * Block < Word
      /\ 2 * (m * (Block + 1)) + MaxByte * (Block * (Block + 1)) < 2 * Word
  <2>1. 2 * m * (Block + 1) = 2 * (m * (Block + 1))
    BY <1>1
  <2>2. MaxByte * Block * (Block + 1) = MaxByte * (Block * (Block + 1))
    BY <1>1
  <2> QED
    BY <2>1, <2>2, AdlerAssumption DEF m
<1>7. /\ Largest1(n) = m + MaxByte * n
      /\ Largest1(n + 1) = m + MaxByte * (n + 1)
      /\ Twice2(n) = 2 * (m * (n + 1)) + MaxByte * (n * (n + 1))
      /\ Twice2(n + 1) = 2 * (m * (n + 1 + 1)) + MaxByte * ((n + 1) * (n + 1 + 1))
  BY DEF Largest1, Twice2, m
<1>8. /\ Largest1(n) \in Nat /\ Twice2(n) \in Nat
      /\ Largest1(n + 1) \in Nat /\ Twice2(n + 1) \in Nat
      /\ Largest1(n + 1) = Largest1(n) + MaxByte
      /\ Twice2(n + 1) = Twice2(n) + 2 * Largest1(n + 1)
  <2> DEFINE u == MaxByte * n
             v == m * (n + 1)
             w == MaxByte * (n * (n + 1))
  <2>1. /\ u \in Nat /\ v \in Nat /\ w \in Nat
        /\ Largest1(n) = m + u /\ Largest1(n + 1) = m + (u + MaxByte)
        /\ Twice2(n) = 2 * v + w
        /\ Twice2(n + 1) = 2 * (v + m) + (w + 2 * (u + MaxByte))
    BY <1>2, <1>3, <1>7
  <2> HIDE DEF u, v, w
  <2> QED
    BY <1>1, <2>1
<1>9. Largest1(n + 1) < Word /\ Twice2(n + 1) < 2 * Word
  <2>1. n + 1 <= Block
    BY <1>1
  <2>2. /\ MaxByte * (n + 1) \in Nat /\ MaxByte * Block \in Nat
        /\ m * (n + 1 + 1) \in Nat /\ m * (Block + 1) \in Nat
        /\ MaxByte * ((n + 1) * (n + 1 + 1)) \in Nat /\ MaxByte * (Block * (Block + 1)) \in Nat
    BY <1>1
  <2> QED
    BY <1>1, <1>4, <1>5, <1>6, <1>7, <2>1, <2>2
<1> QED
  BY <1>8, <1>9

-----------------------------------------------------------------------------
(* The steps *)

\* One byte more: nothing wraps, and what is reduced agrees.
LEMMA NextByteStep ==
  ASSUME AdlerIInv, NEW x \in 0..MaxByte, NextByte(x)
  PROVE  AdlerIInv'
<1> DEFINE t1 == s1 + x
           t2 == s2 + t1
<1>1. /\ MOD_ADLER \in Nat \ {0} /\ Block \in Nat \ {0} /\ Word \in Nat /\ MaxLen \in Nat
      /\ MaxByte \in Nat
      /\ s1 \in Nat /\ s2 \in Nat /\ x \in Nat /\ x <= MaxByte /\ inBlock \in 0..Block - 1
      /\ t1 \in Nat /\ t2 \in Nat
  BY AdlerAssumption DEF AdlerIInv, TypeOK
<1>2. s1 <= Largest1(inBlock) /\ 2 * s2 <= Twice2(inBlock) /\ a = s1 % MOD_ADLER /\ b = s2 % MOD_ADLER
  BY DEF AdlerIInv, SumsInv, NextByte
<1>3. t1 <= Largest1(inBlock + 1) /\ 2 * t2 <= Twice2(inBlock + 1)
  BY <1>1, <1>2, Bounds
<1>4. t1 \in 0..Word - 1 /\ t2 \in 0..Word - 1
  <2>1. Largest1(inBlock + 1) \in Nat /\ Twice2(inBlock + 1) \in Nat
    BY <1>1, Bounds
  <2>2. Largest1(inBlock + 1) < Word /\ Twice2(inBlock + 1) < 2 * Word
    BY <1>1, Bounds
  <2> HIDE DEF t1, t2
  <2> QED
    BY <1>1, <1>3, <2>1, <2>2
<1>5. t1 % Word = t1 /\ t2 % Word = t2
  <2>1. Word \in Nat \ {0}
    BY <1>1, <1>4
  <2> HIDE DEF t1, t2
  <2> QED
    BY <1>4, <2>1, ModSmall
<1>6. a' = t1 % MOD_ADLER /\ b' = t2 % MOD_ADLER
  <2>1. /\ ((s1 % MOD_ADLER) + x) % MOD_ADLER = (s1 + x) % MOD_ADLER
        /\ ((s2 % MOD_ADLER) + (s1 % MOD_ADLER) + x) % MOD_ADLER = (s2 + (s1 + x)) % MOD_ADLER
    <3>1. s1 \in Nat /\ s2 \in Nat /\ x \in Nat /\ MOD_ADLER \in Nat \ {0}
      BY <1>1
    <3>2. PICK m \in Nat \ {0} : m = MOD_ADLER
      BY <3>1
    <3>3. PICK p \in Nat, q \in Nat, r \in Nat : p = s1 /\ q = s2 /\ r = x
      BY <3>1
    <3>4. ((p % m) + r) % m = (p + r) % m
      BY ModPlus
    <3>5. ((q % m) + (p % m) + r) % m = (q + (p + r)) % m
      <4>1. p % m \in Nat /\ q % m \in Nat
        BY DivMod
      <4>2. ((q % m) + ((p % m) + r)) % m = (q + ((p % m) + r)) % m
        <5>1. (p % m) + r \in Nat
          BY <4>1
        <5> QED
          BY <5>1, ModPlus
      <4>3. ((p % m) + (q + r)) % m = (p + (q + r)) % m
        <5>1. q + r \in Nat
          OBVIOUS
        <5> QED
          BY <5>1, ModPlus
      <4>4. /\ (q % m) + (p % m) + r = (q % m) + ((p % m) + r)
            /\ q + ((p % m) + r) = (p % m) + (q + r)
            /\ q + (p + r) = p + (q + r)
        BY <4>1
      <4> QED
        BY <4>2, <4>3, <4>4
    <3> QED
      BY <3>2, <3>3, <3>4, <3>5
  <2>2. a' = (a + x) % MOD_ADLER /\ b' = (b + a + x) % MOD_ADLER
    BY DEF NextByte
  <2> QED
    BY <1>2, <2>1, <2>2
<1>7. /\ length' \in 0..MaxLen /\ done' = FALSE
      /\ a' \in 0..MOD_ADLER - 1 /\ b' \in 0..MOD_ADLER - 1
  <2>1. length' \in 0..MaxLen /\ done' = FALSE
    BY <1>1 DEF NextByte, AdlerIInv, TypeOK
  <2> HIDE DEF t1, t2
  <2> QED
    BY <1>1, <1>6, <2>1, DivMod
<1>8. CASE inBlock + 1 = Block
  <2>1. s1' = t1 % MOD_ADLER /\ s2' = t2 % MOD_ADLER /\ inBlock' = 0
    BY <1>5, <1>8 DEF NextByte
  <2>2. s1' \in 0..MOD_ADLER - 1 /\ s2' \in 0..MOD_ADLER - 1
    BY <1>6, <1>7, <2>1
  <2>3. s1' % MOD_ADLER = a' /\ s2' % MOD_ADLER = b'
    BY <1>1, <1>6, <2>1, <2>2, ModSmall
  <2>4. Largest1(0) = MOD_ADLER - 1 /\ Twice2(0) = 2 * (MOD_ADLER - 1)
    BY <1>1 DEF Largest1, Twice2
  <2>5. Largest1(inBlock)' = MOD_ADLER - 1 /\ Twice2(inBlock)' = 2 * (MOD_ADLER - 1)
    BY <2>1, <2>4 DEF Largest1, Twice2
  <2>6. MOD_ADLER - 1 < Word
    <3>1. Largest1(0) < Word
      BY <1>1, AdlerAssumption DEF Largest1
    <3> QED
      BY <2>4, <3>1
  <2> HIDE DEF t1, t2
  <2>7. TypeOK'
    <3>1. s1' \in 0..Word - 1 /\ s2' \in 0..Word - 1
      <4>1. \A y \in 0..MOD_ADLER - 1 : y \in 0..Word - 1
        BY <1>1, <2>6
      <4> QED
        BY <2>2, <4>1
    <3>2. inBlock' \in 0..Block - 1
      BY <1>1, <2>1
    <3> QED
      BY <1>7, <3>1, <3>2 DEF TypeOK
  <2>8. SumsInv'
    <3>1. s1' <= MOD_ADLER - 1 /\ 2 * s2' <= 2 * (MOD_ADLER - 1)
      <4>1. \A y \in 0..MOD_ADLER - 1 : y <= MOD_ADLER - 1 /\ 2 * y <= 2 * (MOD_ADLER - 1)
        BY <1>1
      <4> QED
        BY <2>2, <4>1
    <3> QED
      BY <1>7, <2>3, <2>5, <3>1 DEF SumsInv
  <2> QED
    BY <2>7, <2>8 DEF AdlerIInv
<1>9. CASE inBlock + 1 # Block
  <2>1. s1' = t1 /\ s2' = t2 /\ inBlock' = inBlock + 1
    BY <1>5, <1>9 DEF NextByte
  <2> HIDE DEF t1, t2
  <2>2. TypeOK'
    <3>1. inBlock' \in 0..Block - 1
      BY <1>1, <1>9, <2>1
    <3> QED
      BY <1>4, <1>7, <2>1, <3>1 DEF TypeOK
  <2>3. SumsInv'
    <3>1. Largest1(inBlock)' = Largest1(inBlock + 1) /\ Twice2(inBlock)' = Twice2(inBlock + 1)
      BY <2>1 DEF Largest1, Twice2
    <3> QED
      BY <1>3, <1>6, <1>7, <2>1, <3>1 DEF SumsInv
  <2> QED
    BY <2>2, <2>3 DEF AdlerIInv
<1> QED
  BY <1>8, <1>9

\* The end of the data: the sums are reduced, a block that is full already was.
LEMMA FinishStep ==
  ASSUME AdlerIInv, Finish
  PROVE  AdlerIInv'
<1>1. /\ MOD_ADLER \in Nat \ {0} /\ s1 \in Nat /\ s2 \in Nat
      /\ a = s1 % MOD_ADLER /\ b = s2 % MOD_ADLER
  BY AdlerAssumption DEF AdlerIInv, TypeOK, SumsInv, Finish
<1>2. s1' = a /\ s2' = b /\ done' /\ UNCHANGED <<inBlock, length, a, b>>
  BY <1>1 DEF Finish
<1>3. a \in 0..Word - 1 /\ b \in 0..Word - 1
  <2>1. s1 \in 0..Word - 1 /\ s2 \in 0..Word - 1 /\ Word \in Nat
    BY AdlerAssumption DEF AdlerIInv, TypeOK
  <2>2. \A y \in Nat : y % MOD_ADLER \in Nat /\ y % MOD_ADLER <= y
    <3>1. SUFFICES ASSUME NEW y \in Nat PROVE y % MOD_ADLER \in Nat /\ y % MOD_ADLER <= y
      OBVIOUS
    <3>2. /\ y \div MOD_ADLER \in Nat /\ y % MOD_ADLER \in Nat
          /\ y = MOD_ADLER * (y \div MOD_ADLER) + (y % MOD_ADLER)
      BY <1>1, DivMod
    <3>3. MOD_ADLER * (y \div MOD_ADLER) \in Nat
      BY <1>1, <3>2
    <3> QED
      BY <3>2, <3>3
  <2> QED
    BY <1>1, <2>1, <2>2
<1> QED
  BY <1>2, <1>3 DEF AdlerIInv, TypeOK, SumsInv

-----------------------------------------------------------------------------
(* The invariant and what follows from it *)

\* The invariant holds for data of any length and any bytes.
THEOREM AdlerInvariance == Spec => []AdlerIInv
<1>1. Init => AdlerIInv
  <2> SUFFICES ASSUME Init
               PROVE  AdlerIInv
    OBVIOUS
  <2>1. MOD_ADLER \in Nat \ {0} /\ Block \in Nat \ {0} /\ 0 % MOD_ADLER = 0
    BY ModSmall, AdlerAssumption
  <2>2. 0 < Word /\ Word \in Nat
    <3>1. Largest1(0 + 1) < Word /\ Largest1(0) \in Nat /\ Largest1(0 + 1) = Largest1(0) + MaxByte
      BY <2>1, Bounds
    <3> QED
      BY <3>1, AdlerAssumption
  <2>3. Largest1(0) \in Nat /\ Twice2(0) \in Nat
    BY <2>1, Bounds
  <2>4. TypeOK
    <3>1. 0 \in 0..Word - 1 /\ 0 \in 0..Block - 1 /\ 0 \in 0..MaxLen /\ 0 \in 0..MOD_ADLER - 1
      BY <2>1, <2>2, AdlerAssumption
    <3> QED
      BY <3>1 DEF Init, TypeOK
  <2> QED
    BY <2>1, <2>3, <2>4 DEF Init, AdlerIInv, SumsInv
<1>2. AdlerIInv /\ [Next]_vars => AdlerIInv'
  <2>1. AdlerIInv /\ UNCHANGED vars => AdlerIInv'
    BY DEF vars, AdlerIInv, TypeOK, SumsInv, Largest1, Twice2
  <2> QED
    BY <2>1, NextByteStep, FinishStep DEF Next
<1> QED
  BY <1>1, <1>2, PTL DEF Spec

\* The checksum is the one that is defined, because no sum wraps before it is
\* reduced.
THEOREM ChecksumIsAdler32 == Spec => []AdlerInv
<1>1. AdlerIInv => AdlerInv
  <2> SUFFICES ASSUME AdlerIInv
               PROVE  AdlerInv
    OBVIOUS
  <2>1. NoWrap
    <3>1. SUFFICES ASSUME ~ done
                   PROVE  s1 + MaxByte < Word /\ s2 + s1 + MaxByte < Word
      BY DEF NoWrap
    <3>2. /\ s1 \in Nat /\ s2 \in Nat /\ inBlock \in 0..Block - 1
          /\ MaxByte \in Nat /\ Word \in Nat
          /\ s1 <= Largest1(inBlock) /\ 2 * s2 <= Twice2(inBlock)
      BY <3>1, AdlerAssumption DEF AdlerIInv, TypeOK, SumsInv
    <3> QED
      BY <3>2, Bounds
  <2>2. Matches
    BY DEF Matches, AdlerIInv, SumsInv
  <2> QED
    BY <2>1, <2>2 DEF AdlerIInv, AdlerInv
<1> QED
  BY AdlerInvariance, <1>1, PTL

-----------------------------------------------------------------------------
(* The sections of a manifest *)

\* u stands in d behind its first o places.
Occurs(d, o, u) ==
  /\ o + Len(u) <= Len(d)
  /\ \A i \in 1..Len(u) : d[o + i] = u[i]

\* What stands in d is a subsequence of it.
LEMMA OccursSub ==
  ASSUME NEW V, NEW d \in Seq(V), NEW u \in Seq(V), NEW o \in Nat
  PROVE  Occurs(d, o, u) <=> o + Len(u) <= Len(d) /\ SubSeq(d, o + 1, o + Len(u)) = u
<1> DEFINE n == Len(u)
           s == SubSeq(d, o + 1, o + n)
<1>1. n \in Nat /\ Len(d) \in Nat
  BY LenProperties
<1>2. SUFFICES ASSUME o + n <= Len(d)
               PROVE  (\A i \in 1..n : d[o + i] = u[i]) <=> s = u
  BY DEF Occurs
<1>3. \A i \in o + 1..o + n : d[i] \in V
  BY <1>1, <1>2, ElementOfSeq
<1> HIDE DEF n
<1>4. /\ s \in Seq(V)
      /\ Len(s) = IF o + 1 <= o + n THEN o + n - (o + 1) + 1 ELSE 0
      /\ \A i \in 1..o + n - (o + 1) + 1 : s[i] = d[o + 1 + i - 1]
  BY <1>1, <1>3, SubSeqProperties
<1> HIDE DEF s
<1>5. Len(s) = n /\ \A i \in 1..n : s[i] = d[o + i]
  <2>1. Len(s) = n
    BY <1>1, <1>4
  <2>2. ASSUME NEW i \in 1..n
        PROVE  s[i] = d[o + i]
    <3>1. o + n - (o + 1) + 1 = n /\ o + 1 + i - 1 = o + i
      BY <1>1
    <3> QED
      BY <1>4, <3>1
  <2> QED
    BY <2>1, <2>2
<1>6. ASSUME \A i \in 1..n : d[o + i] = u[i]
      PROVE  s = u
  BY <1>4, <1>5, <1>6, SeqEqual DEF n
<1> QED
  BY <1>5, <1>6

\* Two sequences stand behind each other as their concatenation does.
LEMMA OccursConcat ==
  ASSUME NEW V, NEW d \in Seq(V), NEW u \in Seq(V), NEW v \in Seq(V), NEW o \in Nat
  PROVE  /\ u \o v \in Seq(V) /\ Len(u \o v) = Len(u) + Len(v)
         /\ Occurs(d, o, u \o v) <=> Occurs(d, o, u) /\ Occurs(d, o + Len(u), v)
<1> DEFINE m == Len(u)
           n == Len(v)
<1>1. m \in Nat /\ n \in Nat /\ Len(d) \in Nat
  BY LenProperties
<1>2. /\ u \o v \in Seq(V) /\ Len(u \o v) = m + n
      /\ \A i \in 1..m + n : (u \o v)[i] = IF i <= m THEN u[i] ELSE v[i - m]
  BY ConcatProperties
<1> HIDE DEF m, n
<1> DEFINE w == u \o v
<1>5. /\ \A i \in 1..m + n : i <= m => w[i] = u[i]
      /\ \A i \in 1..m + n : ~ (i <= m) => w[i] = v[i - m]
  BY <1>2
<1>6. w \in Seq(V) /\ Len(w) = m + n
  BY <1>2
<1> HIDE DEF w
<1>3. ASSUME Occurs(d, o, w)
      PROVE  Occurs(d, o, u) /\ Occurs(d, o + m, v)
  <2>1. o + (m + n) <= Len(d) /\ \A i \in 1..m + n : d[o + i] = w[i]
    BY <1>6, <1>3 DEF Occurs
  <2>2. ASSUME NEW i \in 1..m
        PROVE  d[o + i] = u[i]
    <3>1. i \in 1..m + n /\ i <= m
      BY <1>1
    <3> QED
      BY <1>5, <2>1, <3>1
  <2>3. ASSUME NEW i \in 1..n
        PROVE  d[o + m + i] = v[i]
    <3> DEFINE k == m + i
    <3>1. k \in 1..m + n /\ ~ (k <= m) /\ k - m = i /\ o + k = o + m + i
      BY <1>1
    <3> HIDE DEF k
    <3>2. w[k] = v[k - m] /\ d[o + k] = w[k]
      BY <1>5, <2>1, <3>1
    <3> QED
      BY <3>1, <3>2
  <2> QED
    BY <1>1, <2>1, <2>2, <2>3 DEF Occurs, m, n
<1>4. ASSUME Occurs(d, o, u), Occurs(d, o + m, v)
      PROVE  Occurs(d, o, w)
  <2>1. /\ o + m + n <= Len(d)
        /\ \A i \in 1..m : d[o + i] = u[i]
        /\ \A i \in 1..n : d[o + m + i] = v[i]
    BY <1>4 DEF Occurs, m, n
  <2>2. ASSUME NEW i \in 1..m + n
        PROVE  d[o + i] = w[i]
    <3>1. CASE i <= m
      <4>1. i \in 1..m
        BY <1>1, <3>1
      <4> QED
        BY <1>5, <2>1, <3>1, <4>1
    <3>2. CASE ~ (i <= m)
      <4>1. i - m \in 1..n /\ o + m + (i - m) = o + i
        BY <1>1, <3>2
      <4> QED
        BY <1>5, <2>1, <3>2, <4>1
    <3> QED
      BY <3>1, <3>2
  <2>3. o + (m + n) <= Len(d)
    BY <1>1, <2>1
  <2> QED
    BY <1>6, <2>2, <2>3 DEF Occurs
<1> QED
  BY <1>2, <1>3, <1>4 DEF m, n, w

\* A set of words: the magic numbers and the lengths are among them.
Vocabulary(V) == Nat \subseteq V /\ {Payload, Metadata, Signature} \subseteq V

\* A section is its magic, its length and its body.
LEMMA OccursSection ==
  ASSUME NEW V, Vocabulary(V), NEW d \in Seq(V), NEW magic \in V, NEW x \in Seq(V), NEW o \in Nat
  PROVE  /\ Body!Section(magic, x) \in Seq(V) /\ Len(Body!Section(magic, x)) = 2 + Len(x)
         /\ Occurs(d, o, Body!Section(magic, x)) <=>
              /\ o + 2 + Len(x) <= Len(d)
              /\ d[o + 1] = magic /\ d[o + 2] = Len(x)
              /\ SubSeq(d, o + 3, o + 2 + Len(x)) = x
<1>1. Len(x) \in Nat /\ Len(d) \in Nat
  BY LenProperties
<1> DEFINE n == Len(x)
           h == <<magic, n>>
<1>2. h \in Seq(V) /\ Len(h) = 2 /\ h[1] = magic /\ h[2] = n
  BY <1>1 DEF Vocabulary
<1> HIDE DEF h
<1>3. /\ h \o x \in Seq(V) /\ Len(h \o x) = 2 + n
      /\ Occurs(d, o, h \o x) <=> Occurs(d, o, h) /\ Occurs(d, o + 2, x)
  <2>1. /\ h \o x \in Seq(V) /\ Len(h \o x) = Len(h) + Len(x)
        /\ Occurs(d, o, h \o x) <=> Occurs(d, o, h) /\ Occurs(d, o + Len(h), x)
    BY <1>2, OccursConcat
  <2> QED
    BY <1>2, <2>1
<1>4. Occurs(d, o, h) <=> o + 2 <= Len(d) /\ d[o + 1] = magic /\ d[o + 2] = n
  BY <1>2 DEF Occurs
<1>5. Occurs(d, o + 2, x) <=> o + 2 + n <= Len(d) /\ SubSeq(d, o + 2 + 1, o + 2 + n) = x
  BY OccursSub, o + 2 \in Nat
<1>6. o + 2 + 1 = o + 3 /\ (o + 2 + n <= Len(d) => o + 2 <= Len(d))
  BY <1>1
<1> QED
  BY <1>3, <1>4, <1>5, <1>6 DEF h, Body!Section

\* A section as a sequence.
LEMMA SectionSeq ==
  ASSUME NEW V, Vocabulary(V), NEW magic \in V, NEW x \in Seq(V)
  PROVE  Body!Section(magic, x) \in Seq(V) /\ Len(Body!Section(magic, x)) = 2 + Len(x)
<1>1. <<>> \in Seq(V)
  BY EmptySeq
<1> QED
  BY <1>1, OccursSection, 0 \in Nat

\* The header of a section that stands in d.
LEMMA SectionWords ==
  ASSUME NEW V, Vocabulary(V), NEW d \in Seq(V), NEW magic \in V, NEW x \in Seq(V), NEW o \in Nat,
         Occurs(d, o, Body!Section(magic, x))
  PROVE  o + 2 + Len(x) <= Len(d) /\ d[o + 1] = magic /\ d[o + 2] = Len(x)
BY OccursSection

Whole(x, y, z) ==
  Body!Section(Payload, x) \o Body!Section(Metadata, y) \o Body!Section(Signature, z)

\* The data d starts with three sections.
Starts(d, x, y, z) ==
  Len(Whole(x, y, z)) <= Len(d) /\ SubSeq(d, 1, Len(Whole(x, y, z))) = Whole(x, y, z)

\* The length of three sections, and how they stand in front of d.
LEMMA OccursWhole ==
  ASSUME NEW V, Vocabulary(V), NEW d \in Seq(V),
         NEW x \in Seq(V), NEW y \in Seq(V), NEW z \in Seq(V)
  PROVE  /\ Len(Whole(x, y, z)) = 2 + Len(x) + (2 + Len(y)) + (2 + Len(z))
         /\ Starts(d, x, y, z) <=>
              /\ Occurs(d, 0, Body!Section(Payload, x))
              /\ Occurs(d, 2 + Len(x), Body!Section(Metadata, y))
              /\ Occurs(d, 2 + Len(x) + (2 + Len(y)), Body!Section(Signature, z))
<1> DEFINE p == Body!Section(Payload, x)
           q == Body!Section(Metadata, y)
           r == Body!Section(Signature, z)
           w == Whole(x, y, z)
<1>1. Len(x) \in Nat /\ Len(y) \in Nat /\ Len(z) \in Nat
  BY LenProperties
<1>2. /\ p \in Seq(V) /\ Len(p) = 2 + Len(x)
      /\ q \in Seq(V) /\ Len(q) = 2 + Len(y)
      /\ r \in Seq(V) /\ Len(r) = 2 + Len(z)
  <2>1. Payload \in V /\ Metadata \in V /\ Signature \in V
    BY DEF Vocabulary
  <2> QED
    BY <2>1, SectionSeq
<1> HIDE DEF p, q, r, w
<1>3. /\ p \o q \in Seq(V) /\ Len(p \o q) = Len(p) + Len(q)
      /\ Occurs(d, 0, p \o q) <=> Occurs(d, 0, p) /\ Occurs(d, 0 + Len(p), q)
  BY <1>2, OccursConcat, 0 \in Nat
<1>4. /\ p \o q \o r \in Seq(V) /\ Len(p \o q \o r) = Len(p \o q) + Len(r)
      /\ Occurs(d, 0, p \o q \o r) <=> Occurs(d, 0, p \o q) /\ Occurs(d, 0 + Len(p \o q), r)
  BY <1>2, <1>3, OccursConcat, 0 \in Nat
<1>5. w = p \o q \o r
  BY DEF p, q, r, w, Whole
<1>6. Occurs(d, 0, w) <=> 0 + Len(w) <= Len(d) /\ SubSeq(d, 0 + 1, 0 + Len(w)) = w
  <2>1. w \in Seq(V)
    BY <1>4, <1>5
  <2> QED
    BY <2>1, OccursSub, 0 \in Nat
<1>7. 0 + 1 = 1 /\ 0 + Len(w) = Len(w) /\ 0 + Len(p) = 2 + Len(x) /\ 0 + Len(p \o q) = 2 + Len(x) + (2 + Len(y))
  <2>1. Len(w) \in Nat
    BY <1>4, <1>5, LenProperties
  <2> QED
    BY <1>1, <1>2, <1>3, <2>1
<1>8. Len(w) = 2 + Len(x) + (2 + Len(y)) + (2 + Len(z))
  BY <1>2, <1>3, <1>4, <1>5
<1> QED
  BY <1>3, <1>4, <1>5, <1>6, <1>7, <1>8 DEF p, q, r, w, Starts

\* The length of three sections.
LEMMA WholeLen ==
  ASSUME NEW V, Vocabulary(V), NEW x \in Seq(V), NEW y \in Seq(V), NEW z \in Seq(V)
  PROVE  Len(Whole(x, y, z)) = 2 + Len(x) + (2 + Len(y)) + (2 + Len(z))
BY OccursWhole

\* The words of the unpacked data.
Words == {data[i] : i \in DOMAIN data}

\* Why reading stops at offset; a broken word is somewhere in the data.
Bad ==
  \/ offset + 2 > Len(data)
  \/ data[offset + 2] \notin Nat
  \/ offset + 2 + data[offset + 2] > Len(data)
  \/ data[offset + 1] # Body!Magics[Len(sections) + 1]
  \/ Broken \in Words

\* The sections ss stand at the front of the data d, the first two up to o.
Placed(d, ss, o) ==
  /\ Len(ss) = 0 => o = 0
  /\ Len(ss) >= 1 => Occurs(d, 0, Body!Section(Payload, ss[1]))
  /\ Len(ss) = 1 => o = 2 + Len(ss[1])
  /\ Len(ss) >= 2 => Occurs(d, 2 + Len(ss[1]), Body!Section(Metadata, ss[2]))
  /\ Len(ss) = 2 => o = 2 + Len(ss[1]) + (2 + Len(ss[2]))
  /\ Len(ss) = 3 => Occurs(d, 2 + Len(ss[1]) + (2 + Len(ss[2])), Body!Section(Signature, ss[3]))

ReadInv == Placed(data, sections, offset)

ManifestIInv ==
  /\ Body!TypeOK
  /\ body.data \in Seq({body.data[i] : i \in DOMAIN body.data})
  /\ sections \in Seq(Seq(Words))
  /\ ReadInv
  /\ stage = "unpack" => data = <<>> /\ sections = <<>> /\ offset = 0 /\ result = "none"
  /\ stage = "sections" => result = "none"
  /\ result = "ok" => Len(sections) = 3
  /\ result = "err" /\ data # <<>> => Len(sections) < 3 /\ Bad

\* The data is a sequence of its words.
LEMMA DataIsSeq ==
  ASSUME ManifestIInv
  PROVE  data \in Seq(Words)
<1>1. CASE data = <<>>
  <2>1. <<>> \in Seq(Words)
    BY EmptySeq
  <2> QED
    BY <1>1, <2>1
<1>2. CASE data = body.data
  BY <1>2 DEF ManifestIInv, Words
<1> QED
  BY <1>1, <1>2 DEF ManifestIInv, Body!TypeOK

\* The instances with and without bodies start with nothing read.
LEMMA ManifestInit ==
  ASSUME FormatsAssumption, Body!Init \/ Unserved!Init
  PROVE  ManifestIInv
<1>1. /\ body.data \in Seq({body.data[i] : i \in DOMAIN body.data})
      /\ stage = "unpack" /\ data = <<>> /\ offset = 0 /\ sections = <<>> /\ result = "none"
  <2>1. CASE Body!Init
    BY <2>1 DEF FormatsAssumption, Body!BodyAssumption, Body!Init
  <2>2. CASE Unserved!Init
    <3>1. body = Served("raw", FALSE, <<>>)
      BY <2>2 DEF Unserved!Init
    <3>2. body.data = <<>>
      BY <3>1 DEF Served
    <3>3. <<>> \in Seq({body.data[i] : i \in DOMAIN body.data})
      BY EmptySeq
    <3> QED
      BY <2>2, <3>2, <3>3 DEF Unserved!Init
  <2> QED
    BY <2>1, <2>2
<1>2. Len(sections) = 0 /\ Len(data) = 0
  BY <1>1
<1>3. sections \in Seq(Seq(Words))
  <2>1. <<>> \in Seq(Seq(Words))
    BY EmptySeq
  <2> QED
    BY <1>1, <2>1
<1>4. Body!TypeOK /\ ReadInv
  BY <1>1, <1>2 DEF Body!TypeOK, ReadInv, Placed
<1> QED
  BY <1>1, <1>3, <1>4 DEF ManifestIInv

\* Unpacking leaves the data to read, or nothing.
LEMMA UnpackStep ==
  ASSUME ManifestIInv, Body!Unpack
  PROVE  ManifestIInv'
<1>1. /\ stage = "unpack" /\ data = <<>> /\ sections = <<>> /\ offset = 0 /\ result = "none"
      /\ body' = body /\ offset' = 0 /\ sections' = <<>>
      /\ \/ stage' = "sections" /\ data' = body.data /\ result' = "none"
         \/ stage' = "done" /\ data' = <<>> /\ result' = "err"
  BY DEF ManifestIInv, Body!Unpack, Body!Fails
<1>2. Len(sections') = 0 /\ (data' = <<>> => Len(data') = 0)
  BY <1>1
<1>3. sections' \in Seq(Seq(Words'))
  <2>1. <<>> \in Seq(Seq(Words'))
    BY EmptySeq
  <2> QED
    BY <1>1, <2>1
<1>4. body'.data \in Seq({body'.data[i] : i \in DOMAIN body'.data})
  BY <1>1 DEF ManifestIInv
<1>5. Len(data') \in Nat
  BY <1>1, <1>2, <1>4
<1>6. Body!TypeOK'
  BY <1>1, <1>2, <1>5 DEF Body!TypeOK
<1>7. ReadInv'
  BY <1>1, <1>2 DEF ReadInv, Placed
<1> QED
  BY <1>1, <1>3, <1>4, <1>6, <1>7 DEF ManifestIInv

\* The numbers and sequences of a state.
LEMMA ReadTypes ==
  ASSUME ManifestIInv
  PROVE  /\ offset \in Nat /\ Len(data) \in Nat /\ Len(sections) \in 0..3 /\ data \in Seq(Words)
         /\ sections \in Seq(Seq(Words))
         /\ \A i \in 1..Len(sections) : sections[i] \in Seq(Words) /\ Len(sections[i]) \in Nat
<1>1. data \in Seq(Words) /\ sections \in Seq(Seq(Words))
  BY DataIsSeq DEF ManifestIInv
<1>2. \A i \in 1..Len(sections) : sections[i] \in Seq(Words)
  BY <1>1, ElementOfSeq
<1>3. \A s \in Seq(Words) : Len(s) \in Nat
  BY LenProperties
<1> QED
  BY <1>1, <1>2, <1>3 DEF ManifestIInv, Body!TypeOK

\* A section that is read stands behind those before it.
LEMMA SectionRead ==
  ASSUME ManifestIInv, Body!ReadSection, sections' # sections
  PROVE  ManifestIInv'
<1> DEFINE n == Len(sections)
           k == data[offset + 2]
           end == offset + 2 + k
           x == SubSeq(data, offset + 3, end)
<1>0. /\ offset \in Nat /\ Len(data) \in Nat /\ n \in 0..3 /\ data \in Seq(Words)
      /\ sections \in Seq(Seq(Words))
      /\ \A i \in 1..n : sections[i] \in Seq(Words) /\ Len(sections[i]) \in Nat
  BY ReadTypes
<1>1. /\ stage = "sections" /\ n < 3
      /\ ~ (offset + 2 > Len(data)) /\ k \in Nat /\ ~ (end > Len(data))
      /\ data[offset + 1] = Body!Magics[n + 1]
      /\ sections' = Append(sections, x) /\ offset' = end
      /\ UNCHANGED <<body, stage, data, result>>
  BY DEF Body!ReadSection, Body!Fails, Body!IsLength
<1> HIDE DEF k
<1>2. end \in Nat /\ end <= Len(data) /\ offset + 2 <= Len(data)
  <2>1. \A u, l \in Nat : ~ (u > l) => u <= l
    OBVIOUS
  <2>2. end \in Nat /\ offset + 2 \in Nat
    <3>1. offset \in Nat /\ k \in Nat
      BY <1>0, <1>1
    <3> QED
      BY ONLY <3>1
  <2> HIDE DEF end
  <2> QED
    BY <1>0, <1>1, <2>1, <2>2
<1>3. x \in Seq(Words) /\ Len(x) = k
  <2>1. \A i \in offset + 3..end : data[i] \in Words
    BY <1>0, <1>2 DEF Words
  <2>2. /\ x \in Seq(Words)
        /\ Len(x) = IF offset + 3 <= end THEN end - (offset + 3) + 1 ELSE 0
    BY <1>0, <1>2, <2>1, SubSeqProperties, offset + 3 \in Int
  <2> QED
    BY <1>0, <1>1, <2>2
<1> DEFINE V == Words \cup {Payload, Metadata, Signature} \cup Nat
<1>4. data \in Seq(V) /\ x \in Seq(V) /\ Vocabulary(V) /\ \A i \in 1..3 : Body!Magics[i] \in V
  <2>1. Words \subseteq V
    OBVIOUS
  <2>2. Seq(Words) \subseteq Seq(V)
    BY <2>1, SeqMonotonic
  <2> QED
    BY <1>0, <1>3, <2>2 DEF Body!Magics, Vocabulary
<1> HIDE DEF x, V
<1>5. Occurs(data, offset, Body!Section(Body!Magics[n + 1], x))
  <2>1. n + 1 \in 1..3 /\ offset + 2 + Len(x) = end
    BY <1>0, <1>1, <1>3
  <2>2. SubSeq(data, offset + 3, offset + 2 + Len(x)) = x
    BY <2>1 DEF x
  <2>3. data[offset + 1] = Body!Magics[n + 1] /\ data[offset + 2] = Len(x)
    BY <1>1, <1>3 DEF k
  <2>4. Body!Magics[n + 1] \in V
    BY <1>4, <2>1
  <2>5. offset + 2 + Len(x) <= Len(data)
    BY <1>2, <2>1
  <2>6. ASSUME NEW U, U = V, NEW d, d = data, NEW o, o = offset, NEW s, s = x,
               NEW m, m = Body!Magics[n + 1]
        PROVE  Occurs(d, o, Body!Section(m, s))
    <3>1. d \in Seq(U) /\ s \in Seq(U) /\ o \in Nat /\ Vocabulary(U) /\ m \in U
      BY <1>0, <1>4, <2>4, <2>6
    <3>2. /\ o + 2 + Len(s) <= Len(d)
          /\ d[o + 1] = m /\ d[o + 2] = Len(s)
          /\ SubSeq(d, o + 3, o + 2 + Len(s)) = s
      BY <2>2, <2>3, <2>5, <2>6
    <3> QED
      BY <3>1, <3>2, OccursSection
  <2> QED
    BY <2>6
<1>6. /\ sections' \in Seq(Seq(Words)) /\ Len(sections') = n + 1
      /\ \A i \in 1..n : sections'[i] = sections[i]
      /\ sections'[n + 1] = x
  BY <1>0, <1>1, <1>3, AppendProperties
<1> HIDE DEF end
<1>7. ReadInv'
  <2>1. offset' = offset + (2 + Len(x)) /\ data' = data
    BY <1>0, <1>1, <1>3 DEF end
  <2>2. CASE n = 0
    <3>1. offset = 0 /\ Body!Magics[n + 1] = Payload /\ offset' = 2 + Len(x)
      BY <1>1, <1>3, <2>1, <2>2 DEF ManifestIInv, ReadInv, Placed, Body!Magics
    <3>2. Len(sections') = 1 /\ sections'[1] = x /\ Occurs(data', 0, Body!Section(Payload, sections'[1]))
      BY <1>5, <1>6, <2>1, <2>2, <3>1
    <3> QED
      BY <3>1, <3>2 DEF ReadInv, Placed
  <2>3. CASE n = 1
    <3>1. /\ offset = 2 + Len(sections[1]) /\ Body!Magics[n + 1] = Metadata
          /\ Occurs(data, 0, Body!Section(Payload, sections[1]))
      BY <2>3 DEF ManifestIInv, ReadInv, Placed, Body!Magics
    <3>2. Len(sections') = 2 /\ sections'[1] = sections[1] /\ sections'[2] = x
      BY <1>6, <2>3
    <3>3. /\ offset' = 2 + Len(sections'[1]) + (2 + Len(sections'[2]))
          /\ Occurs(data', 0, Body!Section(Payload, sections'[1]))
          /\ Occurs(data', 2 + Len(sections'[1]), Body!Section(Metadata, sections'[2]))
      BY <1>5, <2>1, <3>1, <3>2
    <3>4. Len(sections') # 0 /\ Len(sections') # 1 /\ Len(sections') # 3
      BY <3>2
    <3> QED
      BY <3>3, <3>4 DEF ReadInv, Placed
  <2>4. CASE n = 2
    <3>1. /\ offset = 2 + Len(sections[1]) + (2 + Len(sections[2])) /\ Body!Magics[n + 1] = Signature
          /\ Occurs(data, 0, Body!Section(Payload, sections[1]))
          /\ Occurs(data, 2 + Len(sections[1]), Body!Section(Metadata, sections[2]))
      BY <2>4 DEF ManifestIInv, ReadInv, Placed, Body!Magics
    <3>2. Len(sections') = 3 /\ sections'[1] = sections[1] /\ sections'[2] = sections[2] /\ sections'[3] = x
      BY <1>6, <2>4
    <3>3. /\ Occurs(data', 0, Body!Section(Payload, sections'[1]))
          /\ Occurs(data', 2 + Len(sections'[1]), Body!Section(Metadata, sections'[2]))
          /\ Occurs(data', 2 + Len(sections'[1]) + (2 + Len(sections'[2])), Body!Section(Signature, sections'[3]))
      BY <1>5, <2>1, <3>1, <3>2
    <3>4. Len(sections') # 0 /\ Len(sections') # 1 /\ Len(sections') # 2
      BY <3>2
    <3> QED
      BY <3>3, <3>4 DEF ReadInv, Placed
  <2> QED
    BY <1>0, <1>1, <2>2, <2>3, <2>4
<1>8. Body!TypeOK'
  <2>1. offset' \in 0..Len(data') /\ Len(sections') \in 0..3
    BY <1>0, <1>1, <1>2, <1>6
  <2> QED
    BY <1>1, <2>1 DEF ManifestIInv, Body!TypeOK
<1>9. result' = "none" /\ stage' = "sections"
  BY <1>1 DEF ManifestIInv
<1>10. Words' = Words
  BY <1>1 DEF Words
<1> QED
  BY <1>1, <1>6, <1>7, <1>8, <1>9, <1>10 DEF ManifestIInv

\* Where reading stops something is bad.
LEMMA SectionFails ==
  ASSUME ManifestIInv, Body!ReadSection, sections' = sections
  PROVE  ManifestIInv'
<1> DEFINE n == Len(sections)
           k == data[offset + 2]
           end == offset + 2 + k
           x == SubSeq(data, offset + 3, end)
<1>0. /\ offset \in Nat /\ Len(data) \in Nat /\ n \in 0..3 /\ data \in Seq(Words)
      /\ sections \in Seq(Seq(Words))
  BY ReadTypes
<1>1. Append(sections, x) # sections
  <2>1. Len(Append(sections, x)) = n + 1
    BY <1>0
  <2> QED
    BY <1>0, <2>1
<1>2. stage = "sections" /\ n < 3
  BY DEF Body!ReadSection
<1>3. Body!Fails
  BY <1>1 DEF Body!ReadSection
<1>4. Bad
  <2>1. SUFFICES ASSUME k \in Nat, end <= Len(data), offset + 2 <= Len(data),
                        data[offset + 1] = Body!Magics[n + 1]
                 PROVE  Broken \in Words
    <3>1. \/ offset + 2 > Len(data) \/ offset + 2 <= Len(data)
      BY <1>0
    <3>2. k \in Nat => (end > Len(data) \/ end <= Len(data))
      BY <1>0
    <3> QED
      BY <2>1, <3>1, <3>2 DEF Bad
  <2>2. PICK i \in DOMAIN x : x[i] = Broken
    <3>1. ~ (offset + 2 > Len(data)) /\ ~ (end > Len(data))
      BY <1>0, <2>1
    <3> QED
      BY <1>1, <2>1, <3>1 DEF Body!ReadSection, Body!IsLength
  <2>3. ASSUME NEW j \in offset + 3..end
        PROVE  data[j] \in Words
    <3>1. j \in 1..Len(data)
      BY <1>0, <2>1
    <3>2. \A m \in 1..Len(data) : data[m] \in Words
      BY ONLY <1>0, ElementOfSeq
    <3> QED
      BY ONLY <3>1, <3>2
  <2>4. x \in Seq(Words)
    BY <1>0, <2>1, <2>3, SubSeqProperties, offset + 3 \in Int, end \in Int
  <2> HIDE DEF x
  <2>5. x[i] \in Words
    BY <2>2, <2>4
  <2> QED
    BY <2>2, <2>5
<1>5. /\ stage' = "done" /\ result' = "err"
      /\ body' = body /\ data' = data /\ offset' = offset /\ sections' = sections
  BY <1>3 DEF Body!Fails
<1>6. Words' = Words /\ (Bad' <=> Bad) /\ (ReadInv' <=> ReadInv)
  BY <1>5 DEF Words, Bad, ReadInv
<1>7. Body!TypeOK'
  BY <1>5 DEF ManifestIInv, Body!TypeOK
<1> QED
  BY <1>2, <1>4, <1>5, <1>6, <1>7 DEF ManifestIInv

\* Every step of either part keeps it.
LEMMA ManifestStep ==
  ASSUME ManifestIInv, [MCNext]_<<part, vars, manifest, keyvalues>>
  PROVE  ManifestIInv'
<1>1. CASE UNCHANGED manifest
  <2>1. Words' = Words /\ (Bad' <=> Bad) /\ (ReadInv' <=> ReadInv)
    BY <1>1 DEF manifest, Words, Bad, ReadInv
  <2> QED
    BY <1>1, <2>1 DEF manifest, ManifestIInv, Body!TypeOK
<1>2. CASE Body!Finish
  <2>1. /\ stage' = "done" /\ result' = "ok" /\ Len(sections) = 3
        /\ body' = body /\ data' = data /\ offset' = offset /\ sections' = sections
    BY <1>2 DEF Body!Finish
  <2>2. Words' = Words /\ (ReadInv' <=> ReadInv)
    BY <2>1 DEF Words, ReadInv
  <2>3. Body!TypeOK'
    BY <2>1 DEF ManifestIInv, Body!TypeOK
  <2> QED
    BY <2>1, <2>2, <2>3 DEF ManifestIInv
<1>3. UNCHANGED manifest \/ Body!Next
  BY DEF MCNext
<1> QED
  BY <1>1, <1>2, <1>3, UnpackStep, SectionRead, SectionFails DEF Body!Next

\* The invariant holds for any bodies, however the parts run beside each other.
THEOREM ManifestInvariance == MCSpec => []ManifestIInv
<1>1. MCInit => ManifestIInv
  BY FormatsAssumption, ManifestInit DEF MCInit
<1> QED
  BY <1>1, ManifestStep, PTL DEF MCSpec

\* The data, sections and offset of a state, as constants, over what they hold.
LEMMA Held ==
  ASSUME ManifestIInv
  PROVE  \E V : /\ Vocabulary(V)
                /\ data \in Seq(V) /\ sections \in Seq(Seq(V))
<1> DEFINE V == Words \cup {Payload, Metadata, Signature} \cup Nat
<1>1. Seq(Words) \subseteq Seq(V)
  BY SeqMonotonic
<1>2. Seq(Seq(Words)) \subseteq Seq(Seq(V))
  BY <1>1, SeqMonotonic
<1>3. data \in Seq(V) /\ sections \in Seq(Seq(V))
  BY <1>1, <1>2, ReadTypes
<1>4. Vocabulary(V)
  BY DEF Vocabulary
<1> QED
  BY <1>3, <1>4

\* A subsequence within d and its length.
LEMMA SubSeqParts ==
  ASSUME NEW V, NEW d \in Seq(V), NEW i \in Nat \ {0}, NEW k \in Nat, i - 1 + k <= Len(d)
  PROVE  SubSeq(d, i, i - 1 + k) \in Seq(V) /\ Len(SubSeq(d, i, i - 1 + k)) = k
<1>0. Len(d) \in Nat
  BY LenProperties
<1>1. ASSUME NEW j \in i..i - 1 + k
      PROVE  d[j] \in V
  <2>1. j \in 1..Len(d)
    BY <1>0
  <2> QED
    BY <2>1, ElementOfSeq
<1>2. /\ SubSeq(d, i, i - 1 + k) \in Seq(V)
      /\ Len(SubSeq(d, i, i - 1 + k)) = IF i <= i - 1 + k THEN i - 1 + k - i + 1 ELSE 0
  BY <1>1, SubSeqProperties, i \in Int, i - 1 + k \in Int
<1>3. IF i <= i - 1 + k THEN i - 1 + k - i + 1 = k ELSE k = 0
  OBVIOUS
<1> QED
  BY <1>2, <1>3

\* The words in front of data that starts with three sections.
LEMMA WholeWords ==
  ASSUME NEW V, Vocabulary(V), NEW d \in Seq(V),
         NEW p \in Seq(V), NEW q \in Seq(V), NEW r \in Seq(V), Starts(d, p, q, r)
  PROVE  /\ 0 + 2 + Len(p) <= Len(d) /\ d[0 + 1] = Payload /\ d[0 + 2] = Len(p)
         /\ 2 + Len(p) + 2 + Len(q) <= Len(d)
         /\ d[2 + Len(p) + 1] = Metadata /\ d[2 + Len(p) + 2] = Len(q)
         /\ 2 + Len(p) + (2 + Len(q)) + 2 + Len(r) <= Len(d)
         /\ d[2 + Len(p) + (2 + Len(q)) + 1] = Signature
         /\ d[2 + Len(p) + (2 + Len(q)) + 2] = Len(r)
<1>1. /\ Occurs(d, 0, Body!Section(Payload, p))
      /\ Occurs(d, 2 + Len(p), Body!Section(Metadata, q))
      /\ Occurs(d, 2 + Len(p) + (2 + Len(q)), Body!Section(Signature, r))
  BY OccursWhole
<1>2. 2 + Len(p) \in Nat /\ 2 + Len(p) + (2 + Len(q)) \in Nat
  BY LenProperties
<1>3. Payload \in V /\ Metadata \in V /\ Signature \in V
  BY DEF Vocabulary
<1>4. 0 + 2 + Len(p) <= Len(d) /\ d[0 + 1] = Payload /\ d[0 + 2] = Len(p)
  BY <1>1, <1>3, 0 \in Nat, SectionWords
<1>5. /\ 2 + Len(p) + 2 + Len(q) <= Len(d)
      /\ d[2 + Len(p) + 1] = Metadata /\ d[2 + Len(p) + 2] = Len(q)
  BY <1>1, <1>2, <1>3, SectionWords
<1>6. /\ 2 + Len(p) + (2 + Len(q)) + 2 + Len(r) <= Len(d)
      /\ d[2 + Len(p) + (2 + Len(q)) + 1] = Signature
      /\ d[2 + Len(p) + (2 + Len(q)) + 2] = Len(r)
  BY <1>1, <1>2, <1>3, SectionWords
<1> QED
  BY <1>4, <1>5, <1>6

\* What reading asks of the place o when n sections are read.
NextGood(d, n, o) ==
  /\ o + 2 <= Len(d) /\ d[o + 2] \in Nat
  /\ o + 2 + d[o + 2] <= Len(d) /\ d[o + 1] = Body!Magics[n + 1]

\* The length of three sections, by parts.
LEMMA ThreeParts ==
  ASSUME NEW x \in Nat, NEW y \in Nat, NEW z \in Nat, NEW l \in Nat, x + y + z + 6 <= l
  PROVE  2 + x + (2 + y) + (2 + z) <= l
OBVIOUS

\* Where n of three sections in front of d are read, the next one is good.
LEMMA Refused ==
  ASSUME NEW V, Vocabulary(V), NEW d \in Seq(V),
         NEW p \in Seq(V), NEW q \in Seq(V), NEW r \in Seq(V), Starts(d, p, q, r),
         NEW ss \in Seq(Seq(V)), Len(ss) \in 0..2, NEW o \in Nat, Placed(d, ss, o)
  PROVE  NextGood(d, Len(ss), o)
<1>1. Len(d) \in Nat /\ Len(p) \in Nat /\ Len(q) \in Nat /\ Len(r) \in Nat
  BY LenProperties
<1>2. /\ 0 + 2 + Len(p) <= Len(d) /\ d[0 + 1] = Payload /\ d[0 + 2] = Len(p)
      /\ 2 + Len(p) + 2 + Len(q) <= Len(d)
      /\ d[2 + Len(p) + 1] = Metadata /\ d[2 + Len(p) + 2] = Len(q)
      /\ 2 + Len(p) + (2 + Len(q)) + 2 + Len(r) <= Len(d)
      /\ d[2 + Len(p) + (2 + Len(q)) + 1] = Signature
      /\ d[2 + Len(p) + (2 + Len(q)) + 2] = Len(r)
  BY WholeWords
<1>3. Body!Magics[1] = Payload /\ Body!Magics[2] = Metadata /\ Body!Magics[3] = Signature
  BY DEF Body!Magics
<1>4. ASSUME NEW n, NEW k \in Nat, o + 2 + k <= Len(d), d[o + 2] = k, d[o + 1] = Body!Magics[n + 1]
      PROVE  NextGood(d, n, o)
  BY <1>1, <1>4 DEF NextGood
<1>5. Payload \in V /\ Metadata \in V
  BY DEF Vocabulary
<1>6. CASE Len(ss) = 0
  <2>1. o = 0 /\ Body!Magics[Len(ss) + 1] = Payload
    BY <1>3, <1>6 DEF Placed
  <2> QED
    BY <1>1, <1>2, <1>4, <2>1
<1>7. CASE Len(ss) = 1 \/ Len(ss) = 2
  <2>1. ss[1] \in Seq(V) /\ Occurs(d, 0, Body!Section(Payload, ss[1]))
    <3>1. 1 \in 1..Len(ss) /\ Len(ss) >= 1
      <4>1. \A n : n = 1 \/ n = 2 => 1 \in 1..n /\ n >= 1
        OBVIOUS
      <4> QED
        BY <1>7, <4>1
    <3> QED
      BY <3>1, ElementOfSeq DEF Placed
  <2>2. Len(ss[1]) = Len(p)
    <3>1. d[0 + 2] = Len(ss[1])
      <4>1. PICK y : y = ss[1]
        OBVIOUS
      <4>2. Vocabulary(V) /\ y \in Seq(V) /\ Payload \in V /\ Occurs(d, 0, Body!Section(Payload, y))
        BY <1>1, <1>5, <2>1, <4>1
      <4>3. d[0 + 2] = Len(y)
        BY ONLY <4>2, d \in Seq(V), 0 \in Nat, SectionWords
      <4> QED
        BY ONLY <4>1, <4>3
    <3> QED
      BY <1>2, <3>1
  <2>3. CASE Len(ss) = 1
    <3>1. o = 2 + Len(p) /\ Body!Magics[Len(ss) + 1] = Metadata
      BY <1>3, <2>2, <2>3 DEF Placed
    <3> QED
      BY <1>1, <1>2, <1>4, <3>1
  <2>4. CASE Len(ss) = 2
    <3>1. ss[2] \in Seq(V) /\ Occurs(d, 2 + Len(p), Body!Section(Metadata, ss[2]))
      <4>1. 2 \in 1..Len(ss) /\ Len(ss) >= 2
        BY <2>4
      <4>2. Occurs(d, 2 + Len(p), Body!Section(Metadata, ss[2]))
        BY <2>2, <4>1 DEF Placed
      <4> QED
        BY <4>1, <4>2, ElementOfSeq
    <3>2. Len(ss[2]) = Len(q)
      <4>1. d[2 + Len(p) + 2] = Len(ss[2])
        <5>1. PICK k \in Nat : k = 2 + Len(p)
          BY <1>1
        <5>2. PICK y : y = ss[2]
          OBVIOUS
        <5>3. Vocabulary(V) /\ y \in Seq(V) /\ Metadata \in V /\ Occurs(d, k, Body!Section(Metadata, y))
          BY <1>1, <1>5, <3>1, <5>1, <5>2
        <5>4. d[k + 2] = Len(y)
          BY ONLY <5>1, <5>3, d \in Seq(V), SectionWords
        <5> QED
          BY ONLY <5>1, <5>2, <5>4
      <4> QED
        BY <1>2, <4>1
    <3>3. o = 2 + Len(p) + (2 + Len(q)) /\ Body!Magics[Len(ss) + 1] = Signature
      BY <1>3, <2>2, <2>4, <3>2 DEF Placed
    <3> QED
      BY <1>1, <1>2, <1>4, <3>3
  <2> QED
    BY <1>7, <2>3, <2>4
<1> QED
  BY <1>6, <1>7

\* An accepted manifest is its sections, and a refused one starts with no three.
LEMMA Faithful ==
  ASSUME ManifestIInv
  PROVE  SectionsFaithful
<1>1. PICK V : /\ Vocabulary(V)
               /\ data \in Seq(V) /\ sections \in Seq(Seq(V))
  BY Held
<1>2. Len(sections) \in 0..3 /\ offset \in Nat
  BY ReadTypes
<1>3. PICK d, ss, n, o : d = data /\ ss = sections /\ n = Len(sections) /\ o = offset
  OBVIOUS
<1>4. d \in Seq(V) /\ ss \in Seq(Seq(V)) /\ n = Len(ss) /\ o \in Nat /\ n \in 0..3 /\ Len(d) \in Nat
  BY <1>1, <1>2, <1>3, LenProperties
<1>5. Placed(d, ss, o)
  BY <1>3 DEF ManifestIInv, ReadInv
<1>6. ASSUME result = "ok"
      PROVE  Starts(d, ss[1], ss[2], ss[3])
  <2>1. n = 3 /\ Len(ss) = 3 /\ Len(ss) >= 1 /\ Len(ss) >= 2
    BY <1>3, <1>6 DEF ManifestIInv
  <2>2. /\ Occurs(d, 0, Body!Section(Payload, ss[1]))
        /\ Occurs(d, 2 + Len(ss[1]), Body!Section(Metadata, ss[2]))
        /\ Occurs(d, 2 + Len(ss[1]) + (2 + Len(ss[2])), Body!Section(Signature, ss[3]))
    BY <1>5, <2>1 DEF Placed
  <2>3. 1 \in 1..Len(ss) /\ 2 \in 1..Len(ss) /\ 3 \in 1..Len(ss)
    BY <1>4, <2>1
  <2>4. ss[1] \in Seq(V) /\ ss[2] \in Seq(V) /\ ss[3] \in Seq(V)
    BY <1>4, <2>3, ElementOfSeq
  <2> QED
    BY <1>1, <1>4, <2>2, <2>4, OccursWhole
<1>7. ASSUME result = "err", data # <<>>, Broken \notin Words,
             NEW p \in Seq(V), NEW q \in Seq(V), NEW r \in Seq(V)
      PROVE  ~ Starts(d, p, q, r)
  <2>1. n < 3 /\ Bad
    BY <1>3, <1>7 DEF ManifestIInv
  <2>2. n \in 0..2
    BY <1>4, <2>1
  <2>4. Starts(d, p, q, r) => NextGood(d, n, o)
    BY <1>1, <1>4, <1>5, <1>7, <2>2, Refused
  <2>5. \/ o + 2 > Len(d)
        \/ d[o + 2] \notin Nat
        \/ o + 2 + d[o + 2] > Len(d)
        \/ d[o + 1] # Body!Magics[n + 1]
    BY <1>3, <1>7, <2>1 DEF Bad
  <2> QED
    BY <1>4, <2>4, <2>5 DEF NextGood
<1>8. ASSUME NEW x \in 0..Len(d), NEW y \in 0..Len(d), NEW z \in 0..Len(d), x + y + z + 6 <= Len(d),
             NEW p, p = SubSeq(d, 3, 2 + x), NEW q, q = SubSeq(d, 5 + x, 4 + x + y),
             NEW r, r = SubSeq(d, 7 + x + y, 6 + x + y + z)
      PROVE  /\ p \in Seq(V) /\ q \in Seq(V) /\ r \in Seq(V)
             /\ Len(Whole(p, q, r)) <= Len(d)
  <2>1. p \in Seq(V) /\ Len(p) = x
    <3>1. 3 \in Nat \ {0} /\ x \in Nat /\ 3 - 1 + x = 2 + x /\ 2 + x <= Len(d)
      BY <1>4, <1>8
    <3> QED
      BY <1>4, <1>8, <3>1, SubSeqParts
  <2>2. q \in Seq(V) /\ Len(q) = y
    <3>1. 5 + x \in Nat \ {0} /\ y \in Nat /\ 5 + x - 1 + y = 4 + x + y /\ 4 + x + y <= Len(d)
      BY <1>4, <1>8
    <3> QED
      BY <1>4, <1>8, <3>1, SubSeqParts
  <2>3. r \in Seq(V) /\ Len(r) = z
    <3>1. /\ 7 + x + y \in Nat \ {0} /\ z \in Nat /\ 7 + x + y - 1 + z = 6 + x + y + z
          /\ 6 + x + y + z <= Len(d)
      BY <1>4, <1>8
    <3> QED
      BY <1>4, <1>8, <3>1, SubSeqParts
  <2>4. Len(Whole(p, q, r)) = 2 + x + (2 + y) + (2 + z)
    <3>1. Len(Whole(p, q, r)) = 2 + Len(p) + (2 + Len(q)) + (2 + Len(r))
      <4>1. Vocabulary(V) /\ p \in Seq(V) /\ q \in Seq(V) /\ r \in Seq(V)
        BY <1>1, <2>1, <2>2, <2>3
      <4> QED
        BY ONLY <4>1, WholeLen
    <3> QED
      BY <2>1, <2>2, <2>3, <3>1
  <2>5. 2 + x + (2 + y) + (2 + z) <= Len(d)
    <3>1. PICK l \in Nat : l = Len(d)
      BY <1>4
    <3>2. x \in Nat /\ y \in Nat /\ z \in Nat /\ x + y + z + 6 <= l
      BY <1>8, <3>1
    <3>3. 2 + x + (2 + y) + (2 + z) <= l
      BY ONLY <3>2, l \in Nat, ThreeParts
    <3> QED
      BY ONLY <3>1, <3>3
  <2> QED
    BY ONLY <2>1, <2>2, <2>3, <2>4, <2>5
<1>9. ASSUME result = "err", data # <<>>, Broken \notin Words,
             NEW x \in 0..Len(d), NEW y \in 0..Len(d), NEW z \in 0..Len(d), x + y + z + 6 <= Len(d),
             NEW w, w = Whole(SubSeq(d, 3, 2 + x), SubSeq(d, 5 + x, 4 + x + y),
                              SubSeq(d, 7 + x + y, 6 + x + y + z))
      PROVE  SubSeq(d, 1, Len(w)) # w
  <2>1. PICK p, q, r : /\ p = SubSeq(d, 3, 2 + x) /\ q = SubSeq(d, 5 + x, 4 + x + y)
                       /\ r = SubSeq(d, 7 + x + y, 6 + x + y + z)
    OBVIOUS
  <2>2. /\ p \in Seq(V) /\ q \in Seq(V) /\ r \in Seq(V)
        /\ Len(Whole(p, q, r)) <= Len(d)
    <3>1. x \in 0..Len(d) /\ y \in 0..Len(d) /\ z \in 0..Len(d) /\ x + y + z + 6 <= Len(d)
      BY <1>9
    <3> QED
      BY ONLY <1>8, <2>1, <3>1, Zenon
  <2>3. ~ Starts(d, p, q, r)
    BY <1>7, <1>9, <2>2
  <2> QED
    BY <1>9, <2>1, <2>2, <2>3 DEF Starts
<1>10. Body!TypeOK
  BY DEF ManifestIInv
<1>11. ASSUME result = "ok"
      PROVE  LET whole == Body!Section(Payload, sections[1]) \o Body!Section(Metadata, sections[2])
                          \o Body!Section(Signature, sections[3])
             IN Len(whole) <= Len(data) /\ SubSeq(data, 1, Len(whole)) = whole
  BY <1>3, <1>6, <1>11 DEF Starts, Whole
<1>12. ASSUME result = "err", data # <<>>, Broken \notin Words,
              NEW x \in 0..Len(data), NEW y \in 0..Len(data), NEW z \in 0..Len(data),
              x + y + z + 6 <= Len(data)
      PROVE  LET whole == Body!Section(Payload, SubSeq(data, 3, 2 + x))
                          \o Body!Section(Metadata, SubSeq(data, 5 + x, 4 + x + y))
                          \o Body!Section(Signature, SubSeq(data, 7 + x + y, 6 + x + y + z))
             IN SubSeq(data, 1, Len(whole)) # whole
  BY <1>3, <1>9, <1>12 DEF Whole
<1> QED
  BY <1>10, <1>11, <1>12 DEF SectionsFaithful, Body!SectionsFaithful, Words

\* A manifest is accepted exactly if its data starts with the three sections in
\* their order, and what it holds are their bodies.
THEOREM SectionsFaithfulHolds == MCSpec => []SectionsFaithful
BY ManifestInvariance, Faithful, PTL

-----------------------------------------------------------------------------
(* The parser of app infos: induction over the places of a text *)

\* A set of numbers up to n that is not empty has a least one.
LEMMA LeastNumber ==
  ASSUME NEW n \in Nat, NEW T \in SUBSET (0..n), T # {}
  PROVE  \E x \in T : \A y \in T : x <= y
<1> DEFINE N == 0..n
           W == {0..x : x \in T}
<1>1. FiniteSubsetsOf(N) = SUBSET N
  <2>1. IsFiniteSet(N)
    BY FS_Interval
  <2> QED
    BY <2>1, FS_FiniteSubsetsOfFinite
<1>2. W # {} /\ W \subseteq SUBSET N
  <2>1. \A x \in T : 0..x \subseteq N
    OBVIOUS
  <2> QED
    BY <2>1
<1>3. \E w \in W : \A v \in W : <<v, w>> \notin StrictSubsetOrdering(N)
  <2>1. IsWellFoundedOn(StrictSubsetOrdering(N), SUBSET N)
    BY <1>1, FS_StrictSubsetOrderingWellFounded
  <2> HIDE DEF W, N
  <2> QED
    BY <1>2, <2>1, WFMin
<1>4. PICK x \in T : \A y \in T : <<0..y, 0..x>> \notin StrictSubsetOrdering(N)
  BY <1>3
<1>5. ASSUME NEW y \in T PROVE x <= y
  <2>1. SUFFICES ASSUME y < x PROVE FALSE
    OBVIOUS
  <2>2. 0..y \subseteq 0..x /\ 0..y # 0..x
    BY <2>1
  <2>3. <<0..y, 0..x>> \in (SUBSET N) \X (SUBSET N)
    OBVIOUS
  <2>4. <<0..y, 0..x>> \in StrictSubsetOrdering(N)
    BY <2>2, <2>3 DEF StrictSubsetOrdering
  <2> QED
    BY <1>4, <2>4
<1> QED
  BY <1>5

\* A set that holds 0, and with each number below n the next, holds them all.
LEMMA PrefixInduction ==
  ASSUME NEW n \in Nat, NEW T \in SUBSET (0..n), 0 \in T,
         \A m \in T : m < n => m + 1 \in T
  PROVE  T = 0..n
<1> DEFINE Rest == (0..n) \ T
<1>1. SUFFICES ASSUME Rest # {} PROVE FALSE
  OBVIOUS
<1>2. PICK x \in Rest : \A y \in Rest : x <= y
  <2> HIDE DEF Rest
  <2>1. Rest \in SUBSET (0..n)
    BY DEF Rest
  <2> QED
    BY <1>1, <2>1, LeastNumber
<1>3. x \in 1..n /\ x - 1 \in 0..n
  OBVIOUS
<1>4. x - 1 \in T
  BY <1>2, <1>3
<1> QED
  BY <1>2, <1>3, <1>4

-----------------------------------------------------------------------------
(* The words of a text *)

End == Len(text) + 1
ATextInv == text \in Seq(STRING \ {"end"})

\* What stands at a place.
LEMMA AtPlace ==
  ASSUME ATextInv
  PROVE  /\ Len(text) \in Nat /\ End \in Nat
         /\ \A i \in 1..Len(text) : Reader!At(i) = text[i] /\ text[i] # "end"
         /\ \A i \in Nat : i > Len(text) => Reader!At(i) = "end"
<1>1. Len(text) \in Nat /\ DOMAIN text = 1..Len(text)
  BY LenProperties DEF ATextInv
<1>2. \A i \in 1..Len(text) : text[i] \in STRING \ {"end"}
  BY ElementOfSeq DEF ATextInv
<1> QED
  BY <1>1, <1>2 DEF Reader!At, End

\* No blank stands behind the text.
LEMMA AtEnd ==
  ASSUME ATextInv
  PROVE  Reader!At(End) = "end" /\ "end" \notin Reader!Blank
<1>1. End \in Nat /\ End > Len(text)
  BY AtPlace DEF End
<1>2. "end" \notin Reader!Blank
  BY DEF Reader!Blank, Reader!NL, Reader!Tab
<1> QED
  BY <1>1, <1>2, AtPlace

\* Where the line of i ends.
Lines(i) == {j \in i..Len(text) : Reader!At(j) = NL} \cup {Len(text) + 1}
LineEnd(i) == CHOOSE j \in Lines(i) : \A k \in Lines(i) : j <= k

SkipBody(f, i) ==
  IF Reader!At(i) \in Reader!Blank THEN f[i + 1]
  ELSE IF Reader!At(i) = "/" /\ Reader!At(i + 1) = "/" THEN f[LineEnd(i)]
  ELSE i

\* The end of a comment is behind its first slash.
LEMMA LineEndIs ==
  ASSUME ATextInv, NEW i \in 1..End, Reader!At(i) = "/"
  PROVE  LineEnd(i) \in i + 1..End
<1>1. Len(text) \in Nat /\ End \in Nat
  BY AtPlace
<1>2. i # End
  BY AtPlace DEF End
<1>3. Lines(i) \in SUBSET (0..End) /\ End \in Lines(i)
  BY <1>1 DEF Lines, End
<1>4. \E j \in Lines(i) : \A k \in Lines(i) : j <= k
  BY <1>1, <1>3, LeastNumber
<1>5. LineEnd(i) \in Lines(i)
  BY <1>4 DEF LineEnd
<1>6. Reader!At(i) # NL
  BY DEF NL
<1>7. ASSUME NEW j \in Lines(i)
      PROVE  j \in i + 1..End
  <2>1. CASE j = Len(text) + 1
    BY <1>1, <1>2, <2>1 DEF End
  <2>2. CASE j \in i..Len(text) /\ Reader!At(j) = NL
    BY <1>1, <1>6, <2>2 DEF End
  <2> QED
    BY <2>1, <2>2 DEF Lines
<1> QED
  BY <1>5, <1>7

\* The places at which skip asks for itself are behind its own.
LEMMA SkipBehind ==
  ASSUME ATextInv, NEW i \in 1..End, NEW f, NEW g, \A j \in i + 1..End : f[j] = g[j]
  PROVE  SkipBody(f, i) = SkipBody(g, i)
<1>1. Len(text) \in Nat /\ End \in Nat
  BY AtPlace
<1>2. CASE Reader!At(i) \in Reader!Blank
  <2>1. i # End
    BY <1>2, AtEnd
  <2>2. i + 1 \in i + 1..End
    BY <1>1, <2>1
  <2> QED
    BY <1>2, <2>2 DEF SkipBody
<1>3. CASE Reader!At(i) \notin Reader!Blank /\ Reader!At(i) = "/" /\ Reader!At(i + 1) = "/"
  BY <1>3, LineEndIs DEF SkipBody
<1> QED
  BY <1>2, <1>3 DEF SkipBody

\* There is a function that skips.
LEMMA SkipExists ==
  ASSUME ATextInv
  PROVE  \E f : f = [i \in 1..End |-> SkipBody(f, i)]
<1> DEFINE From(m) == {i \in 1..End : i > End - m}
           T == {m \in 0..End : \E f : /\ f = [i \in 1..End |-> f[i]]
                                       /\ \A i \in From(m) : f[i] = SkipBody(f, i)}
<1>1. Len(text) \in Nat /\ End \in Nat
  BY AtPlace
<1>2. 0 \in T
  <2> DEFINE f == [i \in 1..End |-> i]
  <2>1. f = [i \in 1..End |-> f[i]] /\ \A i \in From(0) : f[i] = SkipBody(f, i)
    BY <1>1
  <2> HIDE DEF f, From
  <2>2. 0 \in 0..End
    BY <1>1
  <2> QED
    BY <2>1, <2>2
<1>3. ASSUME NEW m \in T, m < End
      PROVE  m + 1 \in T
  <2>1. PICK f : /\ f = [i \in 1..End |-> f[i]]
                 /\ \A i \in From(m) : f[i] = SkipBody(f, i)
    OBVIOUS
  <2> DEFINE k == End - m
             g == [i \in 1..End |-> IF i = k THEN SkipBody(f, k) ELSE f[i]]
  <2>2. k \in 1..End /\ m \in Nat /\ m + 1 \in 0..End
    BY <1>1, <1>3
  <2>3. g = [i \in 1..End |-> g[i]]
    OBVIOUS
  <2>4. \A i \in From(m + 1) : i = k \/ i \in From(m)
    BY <1>1, <2>2
  <2>5. /\ \A j \in 1..End : j > k => g[j] = f[j]
        /\ g[k] = SkipBody(f, k)
        /\ \A j \in From(m) : j \in 1..End /\ j > k
    BY <1>1, <2>2
  <2> HIDE DEF k, g, From
  <2>6. ASSUME NEW i \in 1..End, i >= k
        PROVE  SkipBody(f, i) = SkipBody(g, i)
    <3>1. \A j \in i + 1..End : f[j] = g[j]
      BY <1>1, <2>2, <2>5, <2>6
    <3> QED
      BY <3>1, SkipBehind
  <2>7. \A i \in From(m + 1) : g[i] = SkipBody(g, i)
    <3>1. ASSUME NEW i \in From(m)
          PROVE  g[i] = SkipBody(g, i)
      <4>1. i \in 1..End /\ i > k /\ i >= k
        BY <1>1, <2>2, <2>5
      <4> QED
        BY <2>1, <2>5, <2>6, <4>1
    <3>2. g[k] = SkipBody(g, k)
      <4>1. k >= k
        BY <2>2, <1>1
      <4> QED
        BY <2>2, <2>5, <2>6, <4>1
    <3> QED
      BY <2>4, <3>1, <3>2
  <2> QED
    BY <2>2, <2>3, <2>7
<1>4. End \in T
  <2> HIDE DEF T
  <2>1. T \in SUBSET (0..End)
    BY DEF T
  <2>2. \A m \in T : m < End => m + 1 \in T
    BY <1>3
  <2> QED
    BY <1>1, <1>2, <2>1, <2>2, PrefixInduction
<1>5. PICK f : /\ f = [i \in 1..End |-> f[i]]
               /\ \A i \in From(End) : f[i] = SkipBody(f, i)
  BY <1>4
<1>6. From(End) = 1..End
  BY <1>1
<1>7. f = [i \in 1..End |-> SkipBody(f, i)]
  BY <1>5, <1>6
<1> QED
  BY <1>7

\* skip_whitespace_and_comments stops at a place of the text or behind it, and
\* in a text without slashes it passes only blanks.
LEMMA SkipIs ==
  ASSUME ATextInv, NEW p \in 1..End
  PROVE  /\ Reader!Skip(p) \in p..End
         /\ (\A i \in DOMAIN text : text[i] # "/") =>
              \A j \in p..Reader!Skip(p) - 1 : Reader!At(j) \in Reader!Blank
<1> DEFINE skip == CHOOSE f : f = [i \in 1..End |-> SkipBody(f, i)]
           Plain == \A i \in DOMAIN text : text[i] # "/"
           P(i) == /\ skip[i] \in i..End
                   /\ Plain => \A j \in i..skip[i] - 1 : Reader!At(j) \in Reader!Blank
           T == {m \in 0..End : \A i \in 1..End : i > End - m => P(i)}
<1>1. Len(text) \in Nat /\ End \in Nat
  BY AtPlace
<1>2. skip = [i \in 1..End |-> SkipBody(skip, i)]
  BY SkipExists
<1>3. Reader!Skip(p) = skip[p]
  BY DEF Reader!Skip, SkipBody, LineEnd, Lines, NL, Reader!NL, End
<1> HIDE DEF skip
<1>4. \A i \in 1..End : skip[i] = SkipBody(skip, i)
  BY <1>2
<1>5. 0 \in T
  BY <1>1
<1>6. ASSUME NEW m \in T, m < End
      PROVE  m + 1 \in T
  <2> DEFINE k == End - m
  <2>1. k \in 1..End /\ m \in Nat /\ m + 1 \in 0..End
    BY <1>1, <1>6
  <2>2. \A i \in 1..End : i > k => P(i)
    OBVIOUS
  <2>3. P(k)
    <3>1. CASE Reader!At(k) \in Reader!Blank
      <4>1. k # End
        BY <3>1, AtEnd
      <4>2. k + 1 \in 1..End /\ k + 1 > k
        BY <1>1, <2>1, <4>1
      <4>3. P(k + 1)
        BY <2>2, <4>2
      <4>4. skip[k] = skip[k + 1]
        BY <1>4, <2>1, <3>1 DEF SkipBody
      <4> HIDE DEF k
      <4>5. skip[k] \in k..End
        BY <1>1, <2>1, <4>2, <4>3, <4>4
      <4>6. ASSUME Plain, NEW j \in k..skip[k] - 1
            PROVE  Reader!At(j) \in Reader!Blank
        <5>1. j = k \/ j \in k + 1..skip[k + 1] - 1
          BY <1>1, <2>1, <4>2, <4>4, <4>5
        <5> QED
          BY <3>1, <4>3, <4>6, <5>1
      <4> QED
        BY <4>5, <4>6
    <3>2. CASE Reader!At(k) \notin Reader!Blank /\ Reader!At(k) = "/" /\ Reader!At(k + 1) = "/"
      <4>1. LineEnd(k) \in k + 1..End
        BY <2>1, <3>2, LineEndIs
      <4>2. skip[k] = skip[LineEnd(k)]
        BY <1>4, <2>1, <3>2 DEF SkipBody
      <4>3. LineEnd(k) \in 1..End /\ LineEnd(k) > k
        BY <1>1, <2>1, <4>1
      <4>4. P(LineEnd(k))
        BY <2>2, <4>3
      <4>5. skip[k] \in k..End
        BY <1>1, <2>1, <4>1, <4>2, <4>4
      <4>6. ~ Plain
        <5>1. k \in 1..Len(text) \/ k > Len(text)
          BY <1>1, <2>1
        <5>2. k \in 1..Len(text) /\ text[k] = "/"
          BY <2>1, <3>2, <5>1, AtPlace
        <5>3. DOMAIN text = 1..Len(text)
          BY DEF ATextInv
        <5> QED
          BY <5>2, <5>3
      <4> QED
        BY <4>5, <4>6
    <3>3. CASE ~ (Reader!At(k) \in Reader!Blank) /\ ~ (Reader!At(k) = "/" /\ Reader!At(k + 1) = "/")
      <4>1. skip[k] = k
        BY <1>4, <2>1, <3>3 DEF SkipBody
      <4> QED
        BY <1>1, <2>1, <4>1
    <3> QED
      BY <3>1, <3>2, <3>3
  <2> HIDE DEF P
  <2>4. \A i \in 1..End : i > End - (m + 1) => i = k \/ i > k
    BY <1>1, <2>1
  <2> QED
    BY <2>1, <2>2, <2>3, <2>4
<1>7. End \in T
  <2> HIDE DEF T
  <2>1. T \in SUBSET (0..End)
    BY DEF T
  <2>2. \A m \in T : m < End => m + 1 \in T
    BY <1>6
  <2> QED
    BY <1>1, <1>5, <2>1, <2>2, PrefixInduction
<1>8. P(p)
  <2>1. p > End - End
    BY <1>1
  <2> HIDE DEF P
  <2> QED
    BY <1>7, <2>1
<1> QED
  BY <1>3, <1>8

\* What the rest of a quoted string is, by that behind it.
RestBody(f, i) ==
  CASE Reader!At(i) = "end" -> Reader!Failed
    [] Reader!At(i) = Quote -> Reader!Parsed(<<>>, i + 1)
    [] Reader!At(i) = Backslash ->
         IF Reader!At(i + 1) = "end" THEN Reader!Failed
         ELSE Reader!Before(Reader!Escaped(Reader!At(i + 1)), f[i + 2])
    [] OTHER -> Reader!Before(<<Reader!At(i)>>, f[i + 1])

\* Its cases, and the places at which it asks for itself.
LEMMA RestCases ==
  ASSUME ATextInv, NEW i \in 1..End + 1, NEW f
  PROVE  \/ RestBody(f, i) = Reader!Failed
         \/ i \in 1..Len(text) /\ RestBody(f, i) = Reader!Parsed(<<>>, i + 1)
         \/ /\ i \in 1..Len(text) /\ Reader!At(i) = Backslash
            /\ Reader!At(i + 1) # "end"
            /\ RestBody(f, i) = Reader!Before(Reader!Escaped(Reader!At(i + 1)), f[i + 2])
         \/ /\ i \in 1..Len(text) /\ Reader!At(i) \notin {"end", Quote, Backslash}
            /\ RestBody(f, i) = Reader!Before(<<Reader!At(i)>>, f[i + 1])
<1>1. Len(text) \in Nat /\ i \in Nat /\ (Reader!At(i) # "end" => i \in 1..Len(text))
  BY AtPlace DEF End
<1>2. CASE Reader!At(i) = "end"
  BY <1>2 DEF RestBody, Quote, Backslash
<1>3. CASE Reader!At(i) = Quote
  BY <1>1, <1>3 DEF RestBody, Quote
<1>4. CASE Reader!At(i) = Backslash
  BY <1>1, <1>4 DEF RestBody, Quote, Backslash
<1>5. CASE Reader!At(i) \notin {"end", Quote, Backslash}
  BY <1>1, <1>5 DEF RestBody
<1> QED
  BY <1>2, <1>3, <1>4, <1>5

\* The places at which a quoted string asks for its rest are behind its own.
LEMMA RestBehind ==
  ASSUME ATextInv, NEW i \in 1..End + 1, NEW f, NEW g, \A j \in i + 1..End + 1 : f[j] = g[j]
  PROVE  RestBody(f, i) = RestBody(g, i)
<1>1. Len(text) \in Nat /\ i \in Nat /\ (Reader!At(i) # "end" => i \in 1..Len(text))
  BY AtPlace DEF End
<1>2. CASE Reader!At(i) = "end"
  BY <1>2 DEF RestBody, Quote, Backslash
<1>3. CASE Reader!At(i) # "end"
  <2>1. i + 1 \in i + 1..End + 1 /\ i + 2 \in i + 1..End + 1
    BY <1>1, <1>3 DEF End
  <2>2. f[i + 1] = g[i + 1] /\ f[i + 2] = g[i + 2]
    BY <2>1
  <2> QED
    BY <2>2 DEF RestBody
<1> QED
  BY <1>2, <1>3

\* There is a function that reads the rest of a quoted string.
LEMMA RestExists ==
  ASSUME ATextInv
  PROVE  \E f : f = [i \in 1..End + 1 |-> RestBody(f, i)]
<1> DEFINE N == End + 1
           From(m) == {i \in 1..N : i > N - m}
           T == {m \in 0..N : \E f : /\ f = [i \in 1..N |-> f[i]]
                                     /\ \A i \in From(m) : f[i] = RestBody(f, i)}
<1>1. N \in Nat
  BY AtPlace
<1>2. 0 \in T
  <2> DEFINE f == [i \in 1..N |-> i]
  <2>1. f = [i \in 1..N |-> f[i]] /\ \A i \in From(0) : f[i] = RestBody(f, i)
    BY <1>1
  <2> HIDE DEF f, From
  <2>2. 0 \in 0..N
    BY <1>1
  <2> QED
    BY <2>1, <2>2
<1>3. ASSUME NEW m \in T, m < N
      PROVE  m + 1 \in T
  <2>1. PICK f : /\ f = [i \in 1..N |-> f[i]]
                 /\ \A i \in From(m) : f[i] = RestBody(f, i)
    OBVIOUS
  <2> DEFINE k == N - m
             g == [i \in 1..N |-> IF i = k THEN RestBody(f, k) ELSE f[i]]
  <2>2. k \in 1..N /\ m \in Nat /\ m + 1 \in 0..N
    BY <1>1, <1>3
  <2>3. g = [i \in 1..N |-> g[i]]
    OBVIOUS
  <2>4. \A i \in From(m + 1) : i = k \/ i \in From(m)
    BY <1>1, <2>2
  <2>5. /\ \A j \in 1..N : j > k => g[j] = f[j]
        /\ g[k] = RestBody(f, k)
        /\ \A j \in From(m) : j \in 1..N /\ j > k
    BY <1>1, <2>2
  <2> HIDE DEF k, g, From
  <2>6. ASSUME NEW i \in 1..N, i >= k
        PROVE  RestBody(f, i) = RestBody(g, i)
    <3>1. \A j \in i + 1..N : f[j] = g[j]
      BY <1>1, <2>2, <2>5, <2>6
    <3> QED
      BY <3>1, RestBehind
  <2>7. \A i \in From(m + 1) : g[i] = RestBody(g, i)
    <3>1. ASSUME NEW i \in From(m)
          PROVE  g[i] = RestBody(g, i)
      <4>1. i \in 1..N /\ i > k /\ i >= k
        BY <1>1, <2>2, <2>5
      <4> QED
        BY <2>1, <2>5, <2>6, <4>1
    <3>2. g[k] = RestBody(g, k)
      <4>1. k >= k
        BY <2>2, <1>1
      <4> QED
        BY <2>2, <2>5, <2>6, <4>1
    <3> QED
      BY <2>4, <3>1, <3>2
  <2> QED
    BY <2>2, <2>3, <2>7
<1>4. N \in T
  <2> HIDE DEF T, N
  <2>1. T \in SUBSET (0..N)
    BY DEF T
  <2>2. \A m \in T : m < N => m + 1 \in T
    BY <1>3
  <2> QED
    BY <1>1, <1>2, <2>1, <2>2, PrefixInduction
<1>5. PICK f : /\ f = [i \in 1..N |-> f[i]]
               /\ \A i \in From(N) : f[i] = RestBody(f, i)
  BY <1>4
<1>6. From(N) = 1..N
  BY <1>1
<1>7. f = [i \in 1..N |-> RestBody(f, i)]
  BY <1>5, <1>6
<1> QED
  BY <1>7

\* A quoted string that parses ends behind its quotes and within the text.
LEMMA QuotedIs ==
  ASSUME ATextInv, NEW p \in 1..Len(text), Reader!Quoted(p).ok
  PROVE  Reader!Quoted(p).next \in p + 1..End
<1> DEFINE N == End + 1
           rest == CHOOSE f : f = [i \in 1..N |-> RestBody(f, i)]
           P(i) == rest[i].ok => rest[i].next \in i + 1..End
           T == {m \in 0..N : \A i \in 1..N : i > N - m => P(i)}
<1>1. N \in Nat /\ Len(text) \in Nat /\ End \in Nat
  BY AtPlace
<1>2. rest = [i \in 1..N |-> RestBody(rest, i)]
  BY RestExists
<1>3. Reader!Quoted(p) = rest[p + 1]
  <2>1. N = Len(text) + 2
    BY <1>1 DEF End
  <2> QED
    BY <2>1 DEF Reader!Quoted, RestBody, Quote, Backslash, Reader!Quote, Reader!Backslash
<1> HIDE DEF rest
<1>4. \A i \in 1..N : rest[i] = RestBody(rest, i)
  BY <1>2
<1>5. 0 \in T
  BY <1>1
<1>6. ASSUME NEW m \in T, m < N
      PROVE  m + 1 \in T
  <2> DEFINE k == N - m
  <2>1. k \in 1..N /\ m \in Nat /\ m + 1 \in 0..N
    BY <1>1, <1>6
  <2>2. \A i \in 1..N : i > k => P(i)
    OBVIOUS
  <2> HIDE DEF k
  <2>3. ASSUME NEW cs, NEW j \in k + 1..N, k \in 1..Len(text), rest[k] = Reader!Before(cs, rest[j])
        PROVE  P(k)
    <3>1. P(j) /\ j \in Nat /\ j > k
      BY <1>1, <2>1, <2>2, <2>3
    <3>2. CASE ~ rest[j].ok
      BY <2>3, <3>2 DEF Reader!Before
    <3>3. CASE rest[j].ok
      <4>1. rest[k].next = rest[j].next
        BY <2>3, <3>3 DEF Reader!Before, Reader!Parsed
      <4> QED
        BY <1>1, <2>1, <3>1, <3>3, <4>1
    <3> QED
      BY <3>2, <3>3
  <2>4. P(k)
    <3>1. rest[k] = RestBody(rest, k)
      BY <1>4, <2>1
    <3>2. CASE rest[k] = Reader!Failed
      BY <3>2 DEF Reader!Failed
    <3>3. CASE k \in 1..Len(text) /\ rest[k] = Reader!Parsed(<<>>, k + 1)
      <4>1. rest[k].next = k + 1
        BY <3>3 DEF Reader!Parsed
      <4> QED
        BY <1>1, <2>1, <3>3, <4>1 DEF End
    <3>4. CASE k \in 1..Len(text) /\ \E cs : rest[k] = Reader!Before(cs, rest[k + 1])
      <4>1. k + 1 \in k + 1..N
        BY <1>1, <2>1, <3>4 DEF End
      <4> QED
        BY <2>3, <3>4, <4>1
    <3>5. CASE k \in 1..Len(text) /\ \E cs : rest[k] = Reader!Before(cs, rest[k + 2])
      <4>1. k + 2 \in k + 1..N
        BY <1>1, <2>1, <3>5 DEF End
      <4> QED
        BY <2>3, <3>5, <4>1
    <3> QED
      BY <2>1, <3>1, <3>2, <3>3, <3>4, <3>5, RestCases
  <2> HIDE DEF P
  <2>5. \A i \in 1..N : i > N - (m + 1) => i = k \/ i > k
    BY <1>1, <2>1 DEF k
  <2> QED
    BY <2>1, <2>2, <2>4, <2>5
<1>7. N \in T
  <2> HIDE DEF T, N
  <2>1. T \in SUBSET (0..N)
    BY DEF T
  <2>2. \A m \in T : m < N => m + 1 \in T
    BY <1>6
  <2>3. N \in Nat /\ 0 \in T
    BY <1>1, <1>5 DEF N
  <2>4. T = 0..N
    BY ONLY <2>1, <2>2, <2>3, PrefixInduction
  <2>5. N \in 0..N
    BY <2>3
  <2> QED
    BY <2>4, <2>5
<1>8. P(p + 1) /\ p + 1 \in Nat
  <2>1. p + 1 \in 1..N /\ p + 1 > N - N
    BY <1>1 DEF End
  <2> HIDE DEF P
  <2> QED
    BY <1>7, <2>1
<1>9. rest[p + 1].next \in p + 1 + 1..End
  BY <1>3, <1>8
<1> QED
  BY <1>1, <1>3, <1>9

Bracket == {"{", "}"}

\* A word ends at a place of the text or behind it, and holds no brace.
LEMMA WordEndIs ==
  ASSUME ATextInv, NEW p \in 1..End
  PROVE  /\ Reader!WordEnd(p) \in p..End
         /\ \A j \in p..Reader!WordEnd(p) - 1 : Reader!At(j) \notin Bracket
<1> DEFINE Ends == {i \in p..Len(text) : Reader!At(i) \in Reader!Blank \cup {"{", "}", Reader!Quote}}
                   \cup {Len(text) + 1}
<1>1. Len(text) \in Nat /\ End \in Nat /\ End = Len(text) + 1
  BY AtPlace DEF End
<1>2. Ends \in SUBSET (0..End) /\ End \in Ends /\ \A i \in Ends : i \in p..End
  <2>1. ASSUME NEW i \in Ends
        PROVE  i \in p..End /\ i \in 0..End
    <3>1. i \in p..Len(text) \/ i = End
      BY <1>1
    <3> HIDE DEF Ends
    <3>2. CASE i = End
      BY <1>1, <3>2
    <3>3. CASE i \in p..Len(text)
      <4>1. i \in Nat /\ p <= i /\ i <= Len(text) /\ p \in Nat
        BY <1>1, <3>3
      <4> QED
        BY <1>1, <4>1
    <3> QED
      BY <3>1, <3>2, <3>3
  <2> QED
    BY <1>1, <2>1
<1>3. \E i \in Ends : \A j \in Ends : i <= j
  <2> HIDE DEF Ends
  <2> QED
    BY <1>1, <1>2, LeastNumber
<1>4. Reader!WordEnd(p) = CHOOSE i \in Ends : \A j \in Ends : i <= j
  BY DEF Reader!WordEnd
<1>5. Reader!WordEnd(p) \in Ends /\ \A j \in Ends : Reader!WordEnd(p) <= j
  BY <1>3, <1>4
<1>6. ASSUME NEW j \in p..Reader!WordEnd(p) - 1, Reader!At(j) \in Bracket
      PROVE  FALSE
  <2>1. Reader!WordEnd(p) \in Nat /\ Reader!WordEnd(p) <= End
    <3> HIDE DEF Ends
    <3>1. Reader!WordEnd(p) \in p..End
      BY <1>2, <1>5
    <3> QED
      BY <1>1, <3>1
  <2>2. j \in p..Len(text)
    BY <1>1, <2>1
  <2>3. j \in Ends
    BY <1>6, <2>2 DEF Bracket
  <2>4. ~ (Reader!WordEnd(p) <= j)
    BY <2>1
  <2> QED
    BY <1>5, <2>3, <2>4
<1> QED
  BY <1>2, <1>5, <1>6

\* A string that parses ends behind its start and within the text, and holds no
\* brace if it is not quoted.
LEMMA StringIs ==
  ASSUME ATextInv, NEW p \in 1..End, NEW r, r = Reader!parse_string(p), r.ok
  PROVE  /\ r.next \in p + 1..End
         /\ Reader!At(p) # Quote => \A j \in p..r.next - 1 : Reader!At(j) \notin Bracket
<1>1. Len(text) \in Nat /\ End \in Nat /\ End = Len(text) + 1
  BY AtPlace DEF End
<1>2. CASE Reader!At(p) = Quote
  <2>1. p # End
    BY <1>2, AtEnd DEF Quote
  <2>2. p \in 1..Len(text)
    BY <1>1, <2>1
  <2>3. r = Reader!Quoted(p)
    BY <1>2 DEF Reader!parse_string, Quote, Reader!Quote
  <2> QED
    BY <1>2, <2>2, <2>3, QuotedIs
<1>3. CASE Reader!At(p) # Quote
  <2>1. r = Reader!Unquoted(p)
    BY <1>3 DEF Reader!parse_string, Quote, Reader!Quote
  <2>2. Reader!WordEnd(p) # p
    BY <2>1 DEF Reader!Unquoted, Reader!Failed
  <2>3. r.next = Reader!WordEnd(p)
    BY <2>1, <2>2 DEF Reader!Unquoted, Reader!Parsed
  <2>4. Reader!WordEnd(p) \in p..End
    BY WordEndIs
  <2>5. Reader!WordEnd(p) \in p + 1..End
    BY <1>1, <2>2, <2>4
  <2> QED
    BY <2>3, <2>5, WordEndIs
<1> QED
  BY <1>2, <1>3

-----------------------------------------------------------------------------
(* The braces of a text *)

Places(t, c, n) == {i \in 1..n : t[i] = c}

\* In front of place p of t as many braces are closed as opened, but for those
\* of the d maps that are open; t has neither quotes nor comments.
Counted(t, p, d) ==
  (\A i \in DOMAIN t : t[i] \notin {Quote, "/"}) =>
    Cardinality(Places(t, "{", p - 1)) = Cardinality(Places(t, "}", p - 1)) + (d - 1)

\* The count of the module is this one.
LEMMA CountIs ==
  ASSUME NEW c, NEW n
  PROVE  Reader!Count(c, n) = Cardinality(Places(text, c, n))
<1>1. \A S : Reader!Cardinality(S) = Cardinality(S)
  BY DEF Reader!Cardinality, Cardinality
<1> QED
  BY <1>1 DEF Reader!Count, Places

\* The places are finitely many.
LEMMA PlacesFinite ==
  ASSUME NEW t, NEW c, NEW n \in Nat
  PROVE  IsFiniteSet(Places(t, c, n)) /\ Cardinality(Places(t, c, n)) \in Nat
<1>1. IsFiniteSet(1..n)
  BY FS_Interval
<1>2. Places(t, c, n) \subseteq 1..n
  BY DEF Places
<1>3. IsFiniteSet(Places(t, c, n))
  BY <1>1, <1>2, FS_Subset
<1> QED
  BY <1>3, FS_CardinalityType

\* Places without the brace add nothing, and the place of one adds it.
LEMMA PlacesAdd ==
  ASSUME NEW t, NEW c, NEW p \in Nat \ {0}, NEW q \in Nat \ {0}, p <= q
  PROVE  /\ (\A j \in p..q - 1 : t[j] # c) => Places(t, c, q - 1) = Places(t, c, p - 1)
         /\ t[p] = c => Cardinality(Places(t, c, p)) = Cardinality(Places(t, c, p - 1)) + 1
         /\ t[p] # c => Cardinality(Places(t, c, p)) = Cardinality(Places(t, c, p - 1))
<1>1. ASSUME \A j \in p..q - 1 : t[j] # c
      PROVE  Places(t, c, q - 1) = Places(t, c, p - 1)
  <2>1. \A i \in 1..q - 1 : i \in 1..p - 1 \/ i \in p..q - 1
    OBVIOUS
  <2>2. \A i \in 1..p - 1 : i \in 1..q - 1
    OBVIOUS
  <2> QED
    BY <1>1, <2>1, <2>2 DEF Places
<1>2. p - 1 \in Nat /\ p \notin Places(t, c, p - 1)
  BY DEF Places
<1>3. \A i : i \in 1..p <=> i \in 1..p - 1 \/ i = p
  OBVIOUS
<1>4. ASSUME t[p] = c
      PROVE  Cardinality(Places(t, c, p)) = Cardinality(Places(t, c, p - 1)) + 1
  <2>1. Places(t, c, p) = Places(t, c, p - 1) \cup {p}
    BY <1>3, <1>4 DEF Places
  <2>2. IsFiniteSet(Places(t, c, p - 1))
    BY <1>2, PlacesFinite
  <2> QED
    BY <1>2, <2>1, <2>2, FS_AddElement
<1>5. ASSUME t[p] # c
      PROVE  Places(t, c, p) = Places(t, c, p - 1)
  BY <1>3, <1>5 DEF Places
<1> QED
  BY <1>1, <1>2, <1>4, <1>5

\* The braces stay counted over places without any, over one that opens a map,
\* and over one that closes one.
LEMMA CountedOn ==
  ASSUME NEW t, NEW p \in Nat \ {0}, NEW q \in Nat \ {0}, NEW d \in Nat, p <= q, Counted(t, p, d),
         (\A i \in DOMAIN t : t[i] \notin {Quote, "/"}) => \A j \in p..q - 1 : t[j] \notin Bracket
  PROVE  /\ Counted(t, q, d)
         /\ t[q] = "{" => Counted(t, q + 1, d + 1)
         /\ t[q] = "}" => Counted(t, q + 1, d - 1)
<1> SUFFICES ASSUME \A i \in DOMAIN t : t[i] \notin {Quote, "/"}
             PROVE  /\ Counted(t, q, d)
                    /\ t[q] = "{" => Counted(t, q + 1, d + 1)
                    /\ t[q] = "}" => Counted(t, q + 1, d - 1)
  BY DEF Counted
<1>1. PICK o1, s1c, o2, s2c, o3, s3c :
        /\ o1 = Cardinality(Places(t, "{", p - 1)) /\ s1c = Cardinality(Places(t, "}", p - 1))
        /\ o2 = Cardinality(Places(t, "{", q - 1)) /\ s2c = Cardinality(Places(t, "}", q - 1))
        /\ o3 = Cardinality(Places(t, "{", q)) /\ s3c = Cardinality(Places(t, "}", q))
  OBVIOUS
<1>2. o1 = s1c + (d - 1)
  BY <1>1 DEF Counted
<1>3. \A j \in p..q - 1 : t[j] # "{" /\ t[j] # "}"
  BY DEF Bracket
<1>4. o2 = o1 /\ s2c = s1c
  BY <1>1, <1>3, PlacesAdd
<1>5. q <= q /\ q - 1 \in Nat
  OBVIOUS
<1>6. /\ \A c : t[q] = c => Cardinality(Places(t, c, q)) = Cardinality(Places(t, c, q - 1)) + 1
      /\ \A c : t[q] # c => Cardinality(Places(t, c, q)) = Cardinality(Places(t, c, q - 1))
  BY <1>5, PlacesAdd
<1>7. o2 \in Nat /\ s2c \in Nat
  BY <1>1, <1>5, PlacesFinite
<1>8. o2 = s2c + (d - 1)
  BY <1>2, <1>4
<1>9. PICK k \in Nat : k = q + 1 /\ k - 1 = q
  OBVIOUS
<1>10. Counted(t, q, d)
  BY <1>1, <1>8 DEF Counted
<1>11. ASSUME t[q] = "{"
       PROVE  Counted(t, q + 1, d + 1)
  <2>1. o3 = o2 + 1 /\ s3c = s2c
    BY <1>1, <1>6, <1>11
  <2>2. PICK e \in Nat : e = d + 1 /\ o3 = s3c + (e - 1)
    <3>1. o3 = s3c + (d + 1 - 1)
      BY <1>7, <1>8, <2>1
    <3> QED
      BY <3>1
  <2>3. Counted(t, k, e)
    BY <1>1, <1>9, <2>2 DEF Counted
  <2> QED
    BY <1>9, <2>2, <2>3
<1>12. ASSUME t[q] = "}"
       PROVE  Counted(t, q + 1, d - 1)
  <2>1. o3 = o2 /\ s3c = s2c + 1
    BY <1>1, <1>6, <1>12
  <2>2. o3 = s3c + (d - 1 - 1)
    BY <1>7, <1>8, <2>1
  <2>3. Counted(t, k, d - 1)
    BY <1>1, <1>9, <2>2 DEF Counted
  <2> QED
    BY <1>9, <2>3
<1> QED
  BY <1>10, <1>11, <1>12

-----------------------------------------------------------------------------
(* The invariant of the parser *)

IsSeq(s) == \E X : s \in Seq(X)

ParserIInv ==
  /\ ATextInv
  /\ pos \in 1..End
  /\ IsSeq(stack) /\ Len(stack) \in 1..pos
  /\ parsed \in {"none", "ok", "err"}
  /\ Counted(text, pos, Len(stack))
  /\ parsed = "ok" => Len(stack) = 1 /\ (pos = End \/ text[pos] = "}")

\* The parser's steps: it ends in place, fails in place, ends a map, reads a
\* string, or opens a map; q is where it stopped for that.
Moved(q, p1, d1) ==
  /\ q \in pos..End /\ p1 \in Nat /\ d1 \in Nat
  /\ (\A i \in DOMAIN text : text[i] \notin {Quote, "/"}) => \A j \in pos..q - 1 : text[j] \notin Bracket
  /\ \/ p1 = q /\ d1 = Len(stack)
     \/ q # End /\ text[q] = "}" /\ p1 = q + 1 /\ d1 = Len(stack) - 1 /\ d1 > 0
     \/ q # End /\ text[q] = "{" /\ p1 = q + 1 /\ d1 = Len(stack) + 1 /\ q > pos

\* Each of them keeps the place, the depth and the count.
LEMMA MovedOn ==
  ASSUME ParserIInv, NEW q, NEW p1, NEW d1, Moved(q, p1, d1)
  PROVE  p1 \in 1..End /\ d1 \in 1..p1 /\ Counted(text, p1, d1)
<1>1. /\ Len(text) \in Nat /\ End \in Nat /\ pos \in 1..End /\ q \in pos..End
      /\ Len(stack) \in 1..pos /\ p1 \in Nat /\ d1 \in Nat /\ ATextInv
  BY AtPlace DEF ParserIInv, Moved
<1>2. PICK t, p, d, e : t = text /\ p = pos /\ d = Len(stack) /\ e = End
  OBVIOUS
<1>3. p \in 1..e /\ q \in p..e /\ d \in 1..p /\ e \in Nat /\ p1 \in Nat /\ d1 \in Nat
  BY <1>1, <1>2
<1>4. p \in Nat \ {0} /\ q \in Nat \ {0} /\ p <= q /\ d \in Nat
  BY ONLY <1>3
<1>5. Counted(t, p, d)
  BY <1>2 DEF ParserIInv
<1>6. (\A i \in DOMAIN t : t[i] \notin {Quote, "/"}) => \A j \in p..q - 1 : t[j] \notin Bracket
  BY <1>2 DEF Moved
<1>7. /\ Counted(t, q, d)
      /\ t[q] = "{" => Counted(t, q + 1, d + 1)
      /\ t[q] = "}" => Counted(t, q + 1, d - 1)
  BY ONLY <1>4, <1>5, <1>6, CountedOn
<1>8. \/ p1 = q /\ d1 = d
      \/ q # e /\ t[q] = "}" /\ p1 = q + 1 /\ d1 = d - 1 /\ d1 > 0
      \/ q # e /\ t[q] = "{" /\ p1 = q + 1 /\ d1 = d + 1 /\ q > p
  BY <1>2 DEF Moved
<1>9. Counted(t, p1, d1)
  BY ONLY <1>7, <1>8
<1>10. p1 \in 1..e /\ d1 \in 1..p1
  <2>1. /\ p \in Nat /\ q \in Nat /\ d \in Nat /\ e \in Nat /\ p1 \in Nat /\ d1 \in Nat
        /\ 1 <= p /\ p <= q /\ q <= e /\ 1 <= d /\ d <= p
    BY ONLY <1>3
  <2>2. CASE p1 = q /\ d1 = d
    BY ONLY <2>1, <2>2
  <2>3. CASE q # e /\ p1 = q + 1 /\ d1 = d - 1 /\ d1 > 0
    BY ONLY <2>1, <2>3
  <2>4. CASE q # e /\ p1 = q + 1 /\ d1 = d + 1 /\ q > p
    BY ONLY <2>1, <2>4
  <2> QED
    BY <1>8, <2>2, <2>3, <2>4
<1> QED
  BY <1>2, <1>9, <1>10

\* Blanks are no braces.
LEMMA SkipMoves ==
  ASSUME ATextInv, NEW p \in 1..End, NEW q, q = Reader!Skip(p)
  PROVE  /\ q \in p..End
         /\ (\A i \in DOMAIN text : text[i] \notin {Quote, "/"}) => \A j \in p..q - 1 : text[j] \notin Bracket
<1>1. q \in p..End
  BY SkipIs
<1>2. ASSUME \A i \in DOMAIN text : text[i] \notin {Quote, "/"}, NEW j \in p..q - 1
      PROVE  text[j] \notin Bracket
  <2>1. \A i \in DOMAIN text : text[i] # "/"
    BY <1>2
  <2>2. Reader!At(j) \in Reader!Blank
    BY <2>1, SkipIs
  <2>3. j \in 1..Len(text) /\ Len(text) \in Nat
    <3>1. Len(text) \in Nat
      BY AtPlace
    <3> QED
      BY <1>1, <3>1 DEF End
  <2>4. text[j] \in Reader!Blank
    BY <2>2, <2>3, AtPlace
  <2> QED
    BY <2>4 DEF Bracket, Reader!Blank, Reader!NL, Reader!Tab
<1> QED
  BY <1>1, <1>2

\* Nor are the places of a string.
LEMMA StringMoves ==
  ASSUME ATextInv, NEW p \in 1..End, NEW r, r = Reader!parse_string(p), r.ok
  PROVE  /\ r.next \in p + 1..End
         /\ (\A i \in DOMAIN text : text[i] \notin {Quote, "/"}) => \A j \in p..r.next - 1 : text[j] \notin Bracket
<1>1. r.next \in p + 1..End
  BY StringIs
<1>2. ASSUME \A i \in DOMAIN text : text[i] \notin {Quote, "/"}, NEW j \in p..r.next - 1
      PROVE  text[j] \notin Bracket
  <2>1. Len(text) \in Nat
    BY AtPlace
  <2>2. j \in 1..Len(text) /\ p \in 1..Len(text)
    BY <1>1, <2>1 DEF End
  <2>3. DOMAIN text = 1..Len(text)
    BY DEF ATextInv
  <2>4. Reader!At(p) # Quote /\ Reader!At(j) = text[j]
    BY <1>2, <2>2, <2>3, AtPlace
  <2> QED
    BY <2>4, StringIs
<1> QED
  BY <1>1, <1>2

\* Filling a map leaves the stack as long as it is.
LEMMA StackFilled ==
  ASSUME NEW s, IsSeq(s), NEW d \in Nat, d = Len(s), d > 0, NEW m
  PROVE  IsSeq([s EXCEPT ![d] = m]) /\ Len([s EXCEPT ![d] = m]) = d
<1>1. PICK X : s \in Seq(X)
  BY DEF IsSeq
<1>2. s \in Seq(X \cup {m}) /\ m \in X \cup {m} /\ d \in 1..Len(s)
  BY <1>1, SeqMonotonic
<1>3. [s EXCEPT ![d] = m] \in Seq(X \cup {m}) /\ Len([s EXCEPT ![d] = m]) = d
  BY <1>2, ExceptSeq
<1> QED
  BY <1>3 DEF IsSeq

\* Opening one lengthens it.
LEMMA StackOpened ==
  ASSUME NEW s, IsSeq(s), NEW d \in Nat, d = Len(s), NEW x
  PROVE  IsSeq(Append(s, x)) /\ Len(Append(s, x)) = d + 1
<1>1. PICK X : s \in Seq(X)
  BY DEF IsSeq
<1>2. s \in Seq(X \cup {x}) /\ x \in X \cup {x}
  BY <1>1, SeqMonotonic
<1>3. Append(s, x) \in Seq(X \cup {x}) /\ Len(Append(s, x)) = d + 1
  BY <1>2, AppendProperties
<1> QED
  BY <1>3 DEF IsSeq

\* Closing one shortens it.
LEMMA StackClosed ==
  ASSUME NEW s, IsSeq(s), NEW d \in Nat, d = Len(s), d > 1, NEW x
  PROVE  /\ IsSeq(Append(SubSeq(s, 1, d - 2), x))
         /\ Len(Append(SubSeq(s, 1, d - 2), x)) = d - 1
<1>1. PICK X : s \in Seq(X)
  BY DEF IsSeq
<1>2. \A i \in 1..d - 2 : s[i] \in X
  <2>1. \A i \in 1..d - 2 : i \in 1..Len(s)
    OBVIOUS
  <2> QED
    BY <1>1, <2>1, ElementOfSeq
<1>3. /\ SubSeq(s, 1, d - 2) \in Seq(X)
      /\ Len(SubSeq(s, 1, d - 2)) = IF 1 <= d - 2 THEN d - 2 - 1 + 1 ELSE 0
  BY <1>2, SubSeqProperties, 1 \in Int, d - 2 \in Int
<1>4. (IF 1 <= d - 2 THEN d - 2 - 1 + 1 ELSE 0) = d - 2 /\ d - 2 \in Nat /\ d - 2 + 1 = d - 1
  OBVIOUS
<1>5. IsSeq(SubSeq(s, 1, d - 2)) /\ d - 2 = Len(SubSeq(s, 1, d - 2))
  BY <1>3, <1>4 DEF IsSeq
<1> QED
  BY <1>4, <1>5, StackOpened

\* A step that moves the parser keeps the invariant, if it does not end it.
LEMMA MovingStep ==
  ASSUME ParserIInv, NEW q, NEW p1, NEW d1, Moved(q, p1, d1),
         text' = text, pos' = p1, IsSeq(stack'), Len(stack') = d1,
         parsed' \in {"none", "ok"}, parsed' = "ok" => d1 = 1 /\ (p1 = End \/ text[p1] = "}")
  PROVE  ParserIInv'
<1>1. p1 \in 1..End /\ d1 \in 1..p1 /\ Counted(text, p1, d1)
  BY MovedOn
<1>2. End' = End /\ ATextInv'
  BY DEF End, ATextInv, ParserIInv
<1>3. Counted(text', pos', Len(stack'))
  BY <1>1
<1>4. Counted(text, pos, Len(stack))'
  BY <1>3
<1> QED
  BY <1>1, <1>2, <1>4 DEF ParserIInv

\* A failure leaves the parser where it is.
LEMMA FailStep ==
  ASSUME ParserIInv, text' = text, pos' = pos, stack' = stack, parsed' = "err"
  PROVE  ParserIInv'
<1>1. End' = End /\ ATextInv'
  BY DEF End, ATextInv, ParserIInv
<1>2. Counted(text, pos, Len(stack))'
  BY DEF ParserIInv
<1> QED
  BY <1>1, <1>2 DEF ParserIInv

\* The end of a map.
LEMMA EndMapStep ==
  ASSUME ParserIInv, Reader!EndMap
  PROVE  ParserIInv'
<1>1. PICK q, d : q = Reader!Skip(pos) /\ d = Len(stack)
  OBVIOUS
<1>2. ATextInv /\ pos \in 1..End /\ IsSeq(stack) /\ d \in 1..pos /\ Len(text) \in Nat /\ End \in Nat
  BY <1>1, AtPlace DEF ParserIInv
<1>3. /\ q \in pos..End
      /\ (\A i \in DOMAIN text : text[i] \notin {Quote, "/"}) => \A j \in pos..q - 1 : text[j] \notin Bracket
  BY <1>1, <1>2, SkipMoves
<1>4. q \in Nat /\ d \in Nat /\ d > 0 /\ (q # End => q \in 1..Len(text))
  BY <1>2, <1>3 DEF End
<1>5. parsed = "none" /\ Reader!At(q) \in {"end", "}"}
  BY <1>1 DEF Reader!EndMap, Reader!At
<1>6. Reader!At(q) = "}" => q # End /\ text[q] = "}"
  BY <1>2, <1>4, AtEnd, AtPlace
<1>7. Reader!At(q) = "end" => q = End
  BY <1>2, <1>4, AtPlace
<1>8. d = 1 => parsed' = "ok" /\ pos' = q /\ UNCHANGED <<text, stack>>
  <2>1. SUFFICES ASSUME d = 1
                 PROVE  parsed' = "ok" /\ pos' = q /\ UNCHANGED <<text, stack>>
    OBVIOUS
  <2>2. Reader!Depth = 1 /\ ~ (Reader!Depth > 1)
    BY <1>1, <2>1 DEF Reader!Depth
  <2> QED
    BY <1>1, <2>2 DEF Reader!EndMap
<1>13. d # 1 /\ d > 1 /\ Reader!At(q) = "end" => Reader!Fail
  BY <1>1 DEF Reader!EndMap, Reader!Depth, Reader!At
<1>14. ASSUME d # 1, ~ (d > 1 /\ Reader!At(q) = "end")
       PROVE  \E x : /\ pos' = q + 1 /\ UNCHANGED <<text, parsed>>
                     /\ stack' = Append(SubSeq(stack, 1, d - 2), x)
  BY <1>1, <1>14 DEF Reader!EndMap, Reader!Depth, Reader!At
<1>9. CASE d = 1
  <2>1. parsed' = "ok" /\ pos' = q /\ text' = text /\ stack' = stack
    BY <1>8, <1>9
  <2>2. Moved(q, q, d)
    BY <1>1, <1>3, <1>4 DEF Moved
  <2>3. q = End \/ text[q] = "}"
    BY <1>5, <1>6, <1>7
  <2>4. IsSeq(stack') /\ Len(stack') = d
    BY <1>1, <1>2, <2>1
  <2> QED
    BY <1>9, <2>1, <2>2, <2>3, <2>4, MovingStep
<1>10. CASE d # 1 /\ d > 1 /\ Reader!At(q) = "end"
  BY <1>13, <1>10, FailStep DEF Reader!Fail
<1>11. CASE d > 1 /\ Reader!At(q) # "end"
  <2>1. d # 1 /\ Reader!At(q) = "}"
    <3>1. d # 1
      BY ONLY <1>4, <1>11
    <3> QED
      BY <1>5, <1>11, <3>1
  <2>2. PICK x : /\ pos' = q + 1 /\ text' = text /\ parsed' = parsed
                 /\ stack' = Append(SubSeq(stack, 1, d - 2), x)
    BY <1>14, <1>11, <2>1
  <2>3. PICK s : s = stack
    OBVIOUS
  <2>4. IsSeq(s) /\ d = Len(s) /\ d \in Nat /\ d > 1 /\ d > 0
    BY <1>1, <1>2, <1>4, <1>11, <2>3
  <2>5. IsSeq(Append(SubSeq(s, 1, d - 2), x)) /\ Len(Append(SubSeq(s, 1, d - 2), x)) = d - 1
    BY ONLY <2>4, StackClosed
  <2>6. PICK z : z = Append(SubSeq(s, 1, d - 2), x)
    OBVIOUS
  <2>7. stack' = z /\ IsSeq(z) /\ Len(z) = d - 1
    BY <2>2, <2>3, <2>5, <2>6
  <2>8. d - 1 \in Nat /\ d - 1 > 0 /\ q + 1 \in Nat
    BY <1>4, <1>11
  <2>9. Moved(q, q + 1, d - 1)
    BY <1>1, <1>3, <1>6, <2>1, <2>8 DEF Moved
  <2>10. parsed' = "none" /\ IsSeq(stack') /\ Len(stack') = d - 1
    BY <1>5, <2>2, <2>7
  <2> QED
    BY <2>2, <2>9, <2>10, MovingStep
<1>12. d = 1 \/ d > 1
  BY <1>4
<1> QED
  BY <1>9, <1>10, <1>11, <1>12

\* The key and the value of an entry, or the brace that opens a map.
LEMMA EntryCases ==
  ASSUME Reader!Entry
  PROVE  \E q, key, p, value :
           /\ q = Reader!Skip(pos) /\ key = Reader!parse_string(q)
           /\ p = Reader!Skip(key.next) /\ value = Reader!parse_string(p)
           /\ parsed = "none" /\ Reader!At(q) \notin {"end", "}"}
           /\ \/ Reader!Fail
              \/ /\ key.ok /\ Reader!At(p) = "{" /\ pos' = p + 1 /\ UNCHANGED <<text, parsed>>
                 /\ \E k, x : stack' = Append([stack EXCEPT ![Len(stack)] = k], x)
              \/ /\ key.ok /\ value.ok /\ pos' = value.next /\ UNCHANGED <<text, parsed>>
                 /\ \E m : stack' = [stack EXCEPT ![Len(stack)] = m]
<1>1. PICK q : q = Reader!Skip(pos)
  OBVIOUS
<1>2. PICK key : key = Reader!parse_string(q)
  OBVIOUS
<1>3. PICK p : p = Reader!Skip(key.next)
  OBVIOUS
<1>4. PICK value : value = Reader!parse_string(p)
  OBVIOUS
<1>5. Reader!parse_string(Reader!Skip(pos)) = key
  BY <1>1, <1>2
<1>6. Reader!Skip(Reader!parse_string(Reader!Skip(pos)).next) = p
  BY <1>3, <1>5
<1>7. parsed = "none" /\ Reader!At(q) \notin {"end", "}"}
  BY <1>1 DEF Reader!Entry
<1>8. CASE ~ key.ok
  <2>1. Reader!Fail
    BY <1>5, <1>8 DEF Reader!Entry
  <2> QED
    BY <1>1, <1>2, <1>3, <1>4, <1>7, <2>1
<1>9. CASE key.ok /\ Reader!At(p) = "{"
  <2>1. /\ pos' = p + 1 /\ UNCHANGED <<text, parsed>>
        /\ stack' = Append([stack EXCEPT ![Len(stack)].key = key.str], [map |-> Reader!Empty, key |-> <<>>])
    BY <1>5, <1>6, <1>9 DEF Reader!Entry, Reader!Depth, Reader!At
  <2>2. PICK k : k = [stack[Len(stack)] EXCEPT !.key = key.str]
    OBVIOUS
  <2>3. [stack EXCEPT ![Len(stack)].key = key.str] = [stack EXCEPT ![Len(stack)] = k]
    BY <2>2
  <2> QED
    BY <1>1, <1>2, <1>3, <1>4, <1>7, <1>9, <2>1, <2>3
<1>10. CASE key.ok /\ Reader!At(p) # "{" /\ ~ value.ok
  <2>1. Reader!Fail
    BY <1>4, <1>5, <1>6, <1>10 DEF Reader!Entry, Reader!At
  <2> QED
    BY <1>1, <1>2, <1>3, <1>4, <1>7, <2>1
<1>11. CASE key.ok /\ Reader!At(p) # "{" /\ value.ok
  <2>1. /\ pos' = value.next /\ UNCHANGED <<text, parsed>>
        /\ stack' = [stack EXCEPT ![Len(stack)].map = Reader!Insert(@, key.str, Reader!Str(value.str))]
    BY <1>4, <1>5, <1>6, <1>11 DEF Reader!Entry, Reader!Depth, Reader!At
  <2>2. PICK m : m = [stack[Len(stack)] EXCEPT !.map = Reader!Insert(@, key.str, Reader!Str(value.str))]
    OBVIOUS
  <2>3. [stack EXCEPT ![Len(stack)].map = Reader!Insert(@, key.str, Reader!Str(value.str))]
          = [stack EXCEPT ![Len(stack)] = m]
    BY <2>2
  <2> QED
    BY <1>1, <1>2, <1>3, <1>4, <1>7, <1>11, <2>1, <2>3
<1> QED
  BY <1>8, <1>9, <1>10, <1>11

\* The entry of a map.
LEMMA EntryStep ==
  ASSUME ParserIInv, Reader!Entry
  PROVE  ParserIInv'
<1>1. PICK q, key, p, value :
        /\ q = Reader!Skip(pos) /\ key = Reader!parse_string(q)
        /\ p = Reader!Skip(key.next) /\ value = Reader!parse_string(p)
        /\ parsed = "none" /\ Reader!At(q) \notin {"end", "}"}
        /\ \/ Reader!Fail
           \/ /\ key.ok /\ Reader!At(p) = "{" /\ pos' = p + 1 /\ UNCHANGED <<text, parsed>>
              /\ \E k, x : stack' = Append([stack EXCEPT ![Len(stack)] = k], x)
           \/ /\ key.ok /\ value.ok /\ pos' = value.next /\ UNCHANGED <<text, parsed>>
              /\ \E m : stack' = [stack EXCEPT ![Len(stack)] = m]
  BY EntryCases
<1>2. ATextInv /\ pos \in 1..End /\ IsSeq(stack) /\ Len(stack) \in 1..pos /\ Len(text) \in Nat /\ End \in Nat
  BY AtPlace DEF ParserIInv
<1>3. PICK s, d, t, here, e : s = stack /\ d = Len(stack) /\ t = text /\ here = pos /\ e = End
  OBVIOUS
<1>4. /\ q \in here..e /\ here \in 1..e /\ d \in 1..here /\ e \in Nat
      /\ IsSeq(s) /\ d \in Nat /\ d > 0 /\ d = Len(s) /\ d + 1 \in Nat
  <2>1. q \in pos..End
    BY <1>1, <1>2, SkipMoves
  <2>2. here \in 1..e /\ d \in 1..here /\ e \in Nat /\ q \in here..e
    BY <1>2, <1>3, <2>1
  <2>3. d \in Nat /\ d > 0 /\ d + 1 \in Nat
    BY ONLY <2>2
  <2> QED
    BY <1>2, <1>3, <2>2, <2>3
<1>5. (\A i \in DOMAIN t : t[i] \notin {Quote, "/"}) => \A j \in here..q - 1 : t[j] \notin Bracket
  BY <1>1, <1>2, <1>3, SkipMoves
<1>6. q \in 1..e
  BY ONLY <1>4
<1>7. ASSUME key.ok
      PROVE  /\ p \in q + 1..e
             /\ (\A i \in DOMAIN t : t[i] \notin {Quote, "/"}) => \A j \in here..p - 1 : t[j] \notin Bracket
  <2>1. /\ key.next \in q + 1..e
        /\ (\A i \in DOMAIN t : t[i] \notin {Quote, "/"}) => \A j \in q..key.next - 1 : t[j] \notin Bracket
    BY <1>1, <1>2, <1>3, <1>6, <1>7, StringMoves
  <2>2. PICK n : n = key.next
    OBVIOUS
  <2>3. n \in q + 1..e /\ n \in 1..e
    BY ONLY <1>4, <2>1, <2>2
  <2>4. /\ p \in n..e
        /\ (\A i \in DOMAIN t : t[i] \notin {Quote, "/"}) => \A j \in n..p - 1 : t[j] \notin Bracket
    BY <1>1, <1>2, <1>3, <2>2, <2>3, SkipMoves
  <2>5. \A j \in here..p - 1 : j \in here..q - 1 \/ j \in q..n - 1 \/ j \in n..p - 1
    BY ONLY <1>4, <2>3, <2>4
  <2>6. p \in q + 1..e
    BY ONLY <1>4, <2>3, <2>4
  <2> QED
    BY ONLY <1>5, <2>1, <2>2, <2>4, <2>5, <2>6
<1>8. CASE Reader!Fail
  BY <1>8, FailStep DEF Reader!Fail
<1>9. ASSUME key.ok, Reader!At(p) = "{", pos' = p + 1, UNCHANGED <<text, parsed>>,
             NEW k, NEW x, stack' = Append([stack EXCEPT ![Len(stack)] = k], x)
      PROVE  ParserIInv'
  <2>1. p \in q + 1..e
    BY <1>7, <1>9
  <2>2. p \in here..e /\ p > here /\ p \in 1..e /\ p \in Nat /\ p + 1 \in Nat
    BY ONLY <1>4, <2>1
  <2>3. p # e
    <3>1. Reader!At(End) = "end"
      BY <1>2, AtEnd
    <3> QED
      BY <1>3, <1>9, <3>1 DEF Reader!At
  <2>4. p \in 1..Len(text)
    BY <1>2, <1>3, <2>2, <2>3 DEF End
  <2>5. text[p] = "{"
    BY <1>2, <1>9, <2>4, AtPlace
  <2>6. Moved(p, p + 1, d + 1)
    BY <1>3, <1>4, <1>7, <1>9, <2>2, <2>3, <2>5 DEF Moved
  <2>7. PICK f : f = [s EXCEPT ![d] = k]
    OBVIOUS
  <2>8. IsSeq(f) /\ Len(f) = d
    BY ONLY <1>4, <2>7, StackFilled
  <2>9. IsSeq(Append(f, x)) /\ Len(Append(f, x)) = d + 1
    BY ONLY <1>4, <2>8, StackOpened
  <2>10. PICK z : z = Append(f, x)
    OBVIOUS
  <2>11. stack' = z /\ IsSeq(z) /\ Len(z) = d + 1
    BY <1>3, <1>9, <2>7, <2>9, <2>10
  <2>12. parsed' = "none" /\ IsSeq(stack') /\ Len(stack') = d + 1
    BY <1>1, <1>9, <2>11
  <2> QED
    BY <1>9, <2>6, <2>12, MovingStep
<1>10. ASSUME key.ok, value.ok, pos' = value.next, UNCHANGED <<text, parsed>>,
              NEW m, stack' = [stack EXCEPT ![Len(stack)] = m]
       PROVE  ParserIInv'
  <2>1. p \in q + 1..e
    BY <1>7, <1>10
  <2>2. p \in here..e /\ p \in 1..e
    BY ONLY <1>4, <2>1
  <2>3. /\ value.next \in p + 1..e
        /\ (\A i \in DOMAIN t : t[i] \notin {Quote, "/"}) => \A j \in p..value.next - 1 : t[j] \notin Bracket
    BY <1>1, <1>2, <1>3, <1>10, <2>2, StringMoves
  <2>4. PICK n : n = value.next
    OBVIOUS
  <2>5. n \in here..e /\ n \in Nat /\ \A j \in here..n - 1 : j \in here..p - 1 \/ j \in p..n - 1
    BY ONLY <1>4, <2>2, <2>3, <2>4
  <2>6. (\A i \in DOMAIN t : t[i] \notin {Quote, "/"}) => \A j \in here..n - 1 : t[j] \notin Bracket
    BY ONLY <1>7, <1>10, <2>3, <2>4, <2>5
  <2>7. Moved(n, n, d)
    BY <1>3, <1>4, <2>5, <2>6 DEF Moved
  <2>8. PICK f : f = [s EXCEPT ![d] = m]
    OBVIOUS
  <2>9. IsSeq(f) /\ Len(f) = d
    BY ONLY <1>4, <2>8, StackFilled
  <2>10. stack' = f /\ pos' = n
    BY <1>3, <1>10, <2>4, <2>8
  <2>11. parsed' = "none" /\ IsSeq(stack') /\ Len(stack') = d
    BY <1>1, <1>10, <2>9, <2>10
  <2> QED
    BY <1>10, <2>7, <2>10, <2>11, MovingStep
<1> QED
  BY <1>1, <1>8, <1>9, <1>10

\* A text up to its NUL is a text.
LEMMA UntilIs ==
  ASSUME NEW t \in Seq(STRING \ {"end"}), NEW c
  PROVE  Reader!Until(t, c) \in Seq(STRING \ {"end"})
<1> DEFINE at == {i \in DOMAIN t : t[i] = c}
<1>1. CASE at = {}
  BY <1>1 DEF Reader!Until
<1>2. CASE at # {}
  <2>1. Len(t) \in Nat /\ at \in SUBSET (0..Len(t))
    OBVIOUS
  <2>2. \E x \in at : \A y \in at : x <= y
    <3> HIDE DEF at
    <3> QED
      BY <1>2, <2>1, LeastNumber
  <2> HIDE DEF at
  <2>3. PICK n : n = CHOOSE i \in at : \A j \in at : i <= j
    OBVIOUS
  <2>4. n \in at
    BY <2>2, <2>3
  <2>5. n \in 1..Len(t) /\ Len(t) \in Nat
    BY <2>4 DEF at
  <2>6. Reader!Until(t, c) = SubSeq(t, 1, n - 1)
    BY <1>2, <2>3 DEF Reader!Until, at
  <2>7. n - 1 \in Int /\ \A i \in 1..n - 1 : i \in 1..Len(t)
    BY <2>5
  <2>8. \A i \in 1..n - 1 : t[i] \in STRING \ {"end"}
    BY <2>7, ElementOfSeq
  <2>9. SubSeq(t, 1, n - 1) \in Seq(STRING \ {"end"})
    BY <2>7, <2>8, SubSeqProperties, 1 \in Int
  <2> QED
    BY <2>6, <2>9
<1> QED
  BY <1>1, <1>2

\* The parser at its start, before a text or before none.
LEMMA ParserStarts ==
  ASSUME Reader!Init \/ Unread!Init
  PROVE  ParserIInv
<1>1. PICK t \in Seq(STRING \ {"end"}) : text = Reader!Until(t, Null)
  <2>1. CASE Reader!Init
    BY <2>1, FormatsAssumption DEF Reader!Init, Reader!TextAssumption, Null, Reader!Null
  <2>2. CASE Unread!Init
    <3>1. text = Unread!Until(<<>>, Unread!Null)
      BY <2>2 DEF Unread!Init
    <3>2. text = Reader!Until(<<>>, Null)
      BY <3>1 DEF Unread!Until, Reader!Until, Unread!Null, Null
    <3>3. <<>> \in Seq(STRING \ {"end"})
      OBVIOUS
    <3> QED
      BY <3>2, <3>3
  <2> QED
    BY <2>1, <2>2
<1>2. ATextInv
  BY <1>1, UntilIs DEF ATextInv
<1>3. pos = 1 /\ parsed = "none" /\ \E x : stack = <<x>>
  BY DEF Reader!Init, Unread!Init
<1>4. IsSeq(stack) /\ Len(stack) = 1
  <2>1. PICK x : stack = <<x>>
    BY <1>3
  <2>2. <<x>> \in Seq({x}) /\ Len(<<x>>) = 1
    OBVIOUS
  <2> QED
    BY <2>1, <2>2 DEF IsSeq
<1>5. Counted(text, pos, 1)
  <2>1. Places(text, "{", 0) = {} /\ Places(text, "}", 0) = {}
    BY DEF Places
  <2>2. pos - 1 = 0 /\ 1 - 1 = 0 /\ 0 + 0 = 0
    BY <1>3
  <2>3. Cardinality({}) = 0
    BY FS_EmptySet
  <2> QED
    BY <2>1, <2>2, <2>3 DEF Counted
<1>6. pos \in 1..End
  BY <1>2, <1>3, AtPlace DEF End
<1> QED
  BY <1>2, <1>3, <1>4, <1>5, <1>6 DEF ParserIInv

\* The parser stays within its text and its stack within what was read, and
\* counts every brace it passed.
THEOREM ParserInvariance == MCSpec => []ParserIInv
<1>1. MCInit => ParserIInv
  BY ParserStarts DEF MCInit
<1>2. ParserIInv /\ [MCNext]_<<part, vars, manifest, keyvalues>> => ParserIInv'
  <2> SUFFICES ASSUME ParserIInv, [MCNext]_<<part, vars, manifest, keyvalues>>
               PROVE  ParserIInv'
    OBVIOUS
  <2>1. CASE Reader!Next
    BY <2>1, EndMapStep, EntryStep DEF Reader!Next
  <2>2. CASE UNCHANGED keyvalues
    <3>1. text' = text /\ pos' = pos /\ stack' = stack /\ parsed' = parsed
      BY <2>2 DEF keyvalues
    <3>2. End' = End /\ ATextInv'
      BY <3>1 DEF End, ATextInv, ParserIInv
    <3>3. Counted(text, pos, Len(stack))'
      BY <3>1 DEF ParserIInv
    <3> QED
      BY <3>1, <3>2, <3>3 DEF ParserIInv
  <2> QED
    BY <2>1, <2>2 DEF MCNext
<1> QED
  BY <1>1, <1>2, PTL DEF MCSpec

\* Whatever the text, the parser stays within it and its recursion, and what it
\* accepts has its braces in balance up to where it stopped (parse_map).
THEOREM ParserInvHolds == MCSpec => []ParserInv
<1>1. ParserIInv => ParserInv
  <2> SUFFICES ASSUME ParserIInv
               PROVE  ParserInv
    OBVIOUS
  <2>1. ATextInv /\ pos \in 1..End /\ Len(stack) \in 1..pos /\ Len(text) \in Nat /\ End = Len(text) + 1
    BY AtPlace DEF ParserIInv, End
  <2>2. Reader!TypeOK
    <3>1. text \in Seq(STRING)
      BY <2>1, SeqMonotonic DEF ATextInv
    <3>2. pos \in 1..Len(text) + 1 /\ Len(stack) \in 1..Len(text) + 1
      BY <2>1
    <3> QED
      BY <3>1, <3>2 DEF ParserIInv, Reader!TypeOK
  <2>3. ASSUME parsed = "ok", \A i \in DOMAIN text : text[i] \notin {Reader!Quote, "/"}
        PROVE  /\ Reader!Count("{", pos - 1) = Reader!Count("}", pos - 1)
               /\ pos = Len(text) + 1 \/ text[pos] = "}"
    <3>1. Len(stack) = 1 /\ (pos = End \/ text[pos] = "}")
      BY <2>3 DEF ParserIInv
    <3>2. PICK opened, closed : /\ opened = Cardinality(Places(text, "{", pos - 1))
                                /\ closed = Cardinality(Places(text, "}", pos - 1))
      OBVIOUS
    <3>3. opened = closed + (1 - 1)
      BY <2>3, <3>1, <3>2 DEF ParserIInv, Counted, Quote, Reader!Quote
    <3>4. closed \in Nat
      <4>1. pos - 1 \in Nat
        BY <2>1
      <4> QED
        BY <3>2, <4>1, PlacesFinite
    <3>5. opened = closed
      BY ONLY <3>3, <3>4
    <3> QED
      BY <2>1, <3>1, <3>2, <3>5, CountIs
  <2> QED
    BY <2>2, <2>3 DEF ParserInv, Reader!BracesBalanced
<1> QED
  BY <1>1, ParserInvariance, PTL

-----------------------------------------------------------------------------
(* Quoted strings: flattening a sequence of texts *)

Then(s, u) == s \o u
None == <<>>

\* F flattens the texts in ts from the front.
Flattens(F, ts, n) ==
  /\ F[0] = None
  /\ \A i \in 1..n : F[i] = Then(F[i - 1], ts[i])

\* What is joined is a text of both.
LEMMA ThenIs ==
  ASSUME NEW X, NEW s \in Seq(X), NEW u \in Seq(X)
  PROVE  /\ Then(s, u) \in Seq(X) /\ None \in Seq(X) /\ Then(None, u) = u
         /\ Len(s) \in Nat /\ Len(u) \in Nat /\ Len(Then(s, u)) \in Nat
         /\ Len(Then(s, u)) = Len(s) + Len(u) /\ Len(s) <= Len(Then(s, u))
         /\ \A j \in 1..Len(s) : Then(s, u)[j] = s[j]
         /\ \A j \in 1..Len(u) : Then(s, u)[Len(s) + j] = u[j]
<1>1. Len(s) \in Nat /\ Len(u) \in Nat /\ Len(s \o u) = Len(s) + Len(u) /\ s \o u \in Seq(X)
  BY LenProperties, ConcatProperties
<1>2. \A j \in 1..Len(s) : (s \o u)[j] = s[j]
  BY ConcatProperties
<1>3. \A j \in 1..Len(u) : (s \o u)[Len(s) + j] = u[j]
  BY ConcatProperties
<1>4. <<>> \o u = u /\ <<>> \in Seq(X)
  BY ConcatEmptySeq, EmptySeq
<1> QED
  BY <1>1, <1>2, <1>3, <1>4 DEF Then, None

\* The second behind the first.
LEMMA ThenAt ==
  ASSUME NEW X, NEW s \in Seq(X), NEW u \in Seq(X), NEW j \in 1..Len(u)
  PROVE  Then(s, u)[Len(s) + j] = u[j]
<1>1. (s \o u)[Len(s) + j] = u[j]
  BY ConcatProperties
<1> QED
  BY <1>1 DEF Then

\* There is such a function.
LEMMA FlattenExists ==
  ASSUME NEW ts, NEW n \in Nat
  PROVE  \E F : F = [i \in 0..n |-> F[i]] /\ Flattens(F, ts, n)
<1> DEFINE T == {m \in 0..n : \E F : F = [i \in 0..n |-> F[i]] /\ Flattens(F, ts, m)}
<1>1. 0 \in T
  <2> DEFINE F == [i \in 0..n |-> None]
  <2>1. F = [i \in 0..n |-> F[i]] /\ F[0] = None /\ \A i \in 1..0 : F[i] = Then(F[i - 1], ts[i])
    OBVIOUS
  <2> HIDE DEF F
  <2>2. 0 \in 0..n
    OBVIOUS
  <2> QED
    BY <2>1, <2>2 DEF Flattens
<1>2. ASSUME NEW m \in T, m < n
      PROVE  m + 1 \in T
  <2>1. PICK F : F = [i \in 0..n |-> F[i]] /\ Flattens(F, ts, m)
    OBVIOUS
  <2>2. m \in Nat /\ m + 1 \in 0..n /\ m + 1 # 0 /\ m + 1 - 1 = m
    BY <1>2
  <2> DEFINE G == [i \in 0..n |-> IF i = m + 1 THEN Then(F[m], ts[m + 1]) ELSE F[i]]
  <2>3. G = [i \in 0..n |-> G[i]]
    OBVIOUS
  <2>4. /\ G[m + 1] = Then(F[m], ts[m + 1])
        /\ \A i \in 0..m : G[i] = F[i]
    BY <2>2
  <2>5. /\ \A i \in 1..m + 1 : i = m + 1 \/ i \in 1..m
        /\ \A i \in 1..m : i \in 0..m /\ i - 1 \in 0..m
        /\ 0 \in 0..m /\ m \in 0..m
    BY <2>2
  <2> HIDE DEF G
  <2>6. ASSUME NEW i \in 1..m + 1
        PROVE  G[i] = Then(G[i - 1], ts[i])
    <3>1. CASE i = m + 1
      BY <2>2, <2>4, <2>5, <3>1
    <3>2. CASE i \in 1..m
      BY <2>1, <2>4, <2>5, <3>2 DEF Flattens
    <3> QED
      BY <2>5, <3>1, <3>2
  <2>7. Flattens(G, ts, m + 1)
    BY <2>1, <2>4, <2>5, <2>6 DEF Flattens
  <2> QED
    BY <2>2, <2>3, <2>7
<1>3. T = 0..n
  <2> HIDE DEF T
  <2>1. T \in SUBSET (0..n)
    BY DEF T
  <2> QED
    BY <1>1, <1>2, <2>1, PrefixInduction
<1> QED
  BY <1>3

\* F's values are texts, and each is a prefix of the last.
Fronts(F, ts, n, X) ==
  /\ \A i \in 0..n : F[i] \in Seq(X) /\ Len(F[i]) \in Nat
  /\ \A i \in 1..n : Len(F[i]) = Len(F[i - 1]) + Len(ts[i])
  /\ \A i \in 0..n : /\ Len(F[i]) <= Len(F[n])
                     /\ \A j \in 1..Len(F[i]) : F[n][j] = F[i][j]

\* So they are if it flattens texts.
LEMMA FlattensPrefix ==
  ASSUME NEW X, NEW ts \in Seq(Seq(X)), NEW n \in Nat, n = Len(ts), NEW F, Flattens(F, ts, n)
  PROVE  Fronts(F, ts, n, X)
<1> DEFINE T == {m \in 0..n : F[m] \in Seq(X)}
<1>1. 0 \in T
  <2>1. F[0] \in Seq(X) /\ 0 \in 0..n
    BY EmptySeq DEF Flattens, None
  <2> QED
    BY ONLY <2>1
<1>2. ASSUME NEW m \in T, m < n
      PROVE  m + 1 \in T
  <2>1. m + 1 \in 1..n /\ m + 1 - 1 = m /\ m + 1 \in 0..n
    BY <1>2
  <2>2. F[m + 1] = Then(F[m], ts[m + 1]) /\ ts[m + 1] \in Seq(X)
    BY <2>1, ElementOfSeq DEF Flattens
  <2>3. F[m] \in Seq(X)
    OBVIOUS
  <2>4. F[m + 1] \in Seq(X)
    <3>1. PICK s, u : s = F[m] /\ u = ts[m + 1]
      OBVIOUS
    <3>2. s \in Seq(X) /\ u \in Seq(X)
      BY <2>2, <2>3, <3>1
    <3>3. Then(s, u) \in Seq(X)
      BY ONLY <3>2, ThenIs
    <3> QED
      BY <2>2, <3>1, <3>3
  <2> QED
    BY <2>1, <2>4
<1>3. T = 0..n
  <2> HIDE DEF T
  <2>1. T \in SUBSET (0..n)
    BY DEF T
  <2> QED
    BY <1>1, <1>2, <2>1, PrefixInduction
<1>4. \A i \in 0..n : F[i] \in Seq(X) /\ Len(F[i]) \in Nat
  BY <1>3, LenProperties
<1>5. ASSUME NEW i \in 1..n
      PROVE  /\ Len(F[i]) = Len(F[i - 1]) + Len(ts[i]) /\ Len(ts[i]) \in Nat
             /\ \A j \in 1..Len(F[i - 1]) : F[i][j] = F[i - 1][j]
  <2>1. F[i] = Then(F[i - 1], ts[i]) /\ ts[i] \in Seq(X) /\ i - 1 \in 0..n
    BY ElementOfSeq DEF Flattens
  <2>2. F[i - 1] \in Seq(X) /\ Len(F[i - 1]) \in Nat
    BY <1>4, <2>1
  <2>3. Len(ts[i]) \in Nat
    BY <2>1, LenProperties
  <2>4. /\ Len(Then(F[i - 1], ts[i])) = Len(F[i - 1]) + Len(ts[i])
        /\ \A j \in 1..Len(F[i - 1]) : Then(F[i - 1], ts[i])[j] = F[i - 1][j]
    <3>1. PICK s, u : s = F[i - 1] /\ u = ts[i]
      OBVIOUS
    <3>2. s \in Seq(X) /\ u \in Seq(X)
      BY <2>1, <2>2, <3>1
    <3>3. Len(Then(s, u)) = Len(s) + Len(u) /\ \A j \in 1..Len(s) : Then(s, u)[j] = s[j]
      BY ONLY <3>2, ThenIs
    <3> QED
      BY ONLY <3>1, <3>3
  <2> QED
    BY ONLY <2>1, <2>2, <2>3, <2>4, ThenIs
<1> DEFINE Prefix(i) == Len(F[i]) <= Len(F[n]) /\ \A j \in 1..Len(F[i]) : F[n][j] = F[i][j]
           U == {m \in 0..n : Prefix(n - m)}
<1>6. 0 \in U
  <2>1. n - 0 = n /\ Len(F[n]) \in Nat
    BY <1>4
  <2> QED
    BY <2>1
<1>7. ASSUME NEW m \in U, m < n
      PROVE  m + 1 \in U
  <2>1. PICK i \in 1..n : i = n - m /\ i - 1 = n - (m + 1)
    <3>1. n - m \in 1..n /\ n - m - 1 = n - (m + 1)
      BY <1>7
    <3> QED
      BY <3>1
  <2>2. Prefix(i)
    BY <2>1
  <2>3. Len(F[i - 1]) \in Nat /\ Len(F[i]) \in Nat /\ Len(F[n]) \in Nat /\ Len(ts[i]) \in Nat
    <3>1. i - 1 \in 0..n /\ i \in 0..n /\ n \in 0..n
      OBVIOUS
    <3> QED
      BY <1>4, <1>5, <3>1
  <2>4. Len(F[i - 1]) <= Len(F[i])
    <3>1. Len(F[i]) = Len(F[i - 1]) + Len(ts[i])
      BY <1>5
    <3>2. PICK u, v, w : u = Len(F[i - 1]) /\ v = Len(ts[i]) /\ w = Len(F[i])
      OBVIOUS
    <3>3. u \in Nat /\ v \in Nat /\ w = u + v
      BY ONLY <2>3, <3>1, <3>2
    <3>4. u <= w
      BY ONLY <3>3
    <3> QED
      BY ONLY <3>2, <3>4
  <2>5. \A j \in 1..Len(F[i - 1]) : j \in 1..Len(F[i]) /\ F[i][j] = F[i - 1][j]
    <3>1. ASSUME NEW j \in 1..Len(F[i - 1])
          PROVE  j \in 1..Len(F[i])
      <4>1. PICK u, w : u = Len(F[i - 1]) /\ w = Len(F[i])
        OBVIOUS
      <4>2. u \in Nat /\ w \in Nat /\ u <= w /\ j \in 1..u
        BY ONLY <2>3, <2>4, <3>1, <4>1
      <4>3. j \in 1..w
        BY ONLY <4>2
      <4> QED
        BY ONLY <4>1, <4>3
    <3> QED
      BY <1>5, <3>1
  <2>8. Len(F[i - 1]) <= Len(F[n])
    <3>1. Len(F[i]) <= Len(F[n])
      BY <2>2
    <3>2. PICK u, v, w : u = Len(F[i - 1]) /\ v = Len(F[i]) /\ w = Len(F[n])
      OBVIOUS
    <3>3. u \in Nat /\ v \in Nat /\ w \in Nat /\ u <= v /\ v <= w
      BY ONLY <2>3, <2>4, <3>1, <3>2
    <3>4. u <= w
      BY ONLY <3>3
    <3> QED
      BY ONLY <3>2, <3>4
  <2>6. Prefix(i - 1)
    BY <2>2, <2>5, <2>8
  <2>7. m + 1 \in 0..n
    BY <1>7
  <2> QED
    BY <2>1, <2>6, <2>7
<1>8. U = 0..n
  <2> HIDE DEF U
  <2>1. U \in SUBSET (0..n)
    BY DEF U
  <2> QED
    BY <1>6, <1>7, <2>1, PrefixInduction
<1>9. \A i \in 0..n : Prefix(i)
  <2>1. \A i \in 0..n : n - i \in 0..n /\ n - (n - i) = i
    OBVIOUS
  <2> HIDE DEF Prefix
  <2> QED
    BY <1>8, <2>1
<1> QED
  BY <1>4, <1>5, <1>9 DEF Fronts

-----------------------------------------------------------------------------
(* Quoted strings *)

\* Escape takes one character after the other.
LEMMA EscapeIs ==
  ASSUME NEW s, NEW n \in Nat, n = Len(s)
  PROVE  \E F : Flattens(F, [i \in 1..n |-> Escaped(s[i])], n) /\ F[n] = Escape(s)
<1> DEFINE ts == [i \in 1..n |-> Escaped(s[i])]
           Body1(f, i) == IF i = 0 THEN <<>> ELSE f[i - 1] \o Escaped(s[i])
           esc == CHOOSE f : f = [i \in 0..n |-> Body1(f, i)]
<1>1. Escape(s) = esc[n]
  BY DEF Escape
<1>2. PICK G : G = [i \in 0..n |-> G[i]] /\ Flattens(G, ts, n)
  BY FlattenExists
<1>3. \A i \in 1..n : ts[i] = Escaped(s[i])
  OBVIOUS
<1> HIDE DEF ts
<1>4. ASSUME NEW i \in 0..n
      PROVE  G[i] = Body1(G, i)
  <2>1. CASE i = 0
    BY <1>2, <2>1 DEF Flattens, None
  <2>2. CASE i # 0
    <3>1. i \in 1..n
      BY <2>2
    <3>2. G[i] = Then(G[i - 1], ts[i])
      BY <1>2, <3>1 DEF Flattens
    <3> QED
      BY <1>3, <2>2, <3>1, <3>2 DEF Then
  <2> QED
    BY <2>1, <2>2
<1>5. esc = [i \in 0..n |-> Body1(esc, i)]
  <2>1. G = [i \in 0..n |-> Body1(G, i)]
    <3> HIDE DEF Body1
    <3> QED
      BY <1>2, <1>4
  <2> HIDE DEF Body1
  <2> QED
    BY <2>1
<1> HIDE DEF esc
<1>6. esc[0] = None
  BY <1>5 DEF None
<1>7. ASSUME NEW i \in 1..n
      PROVE  esc[i] = Then(esc[i - 1], ts[i])
  <2>1. i \in 0..n /\ i # 0
    OBVIOUS
  <2>2. esc[i] = Body1(esc, i)
    <3> HIDE DEF Body1
    <3> QED
      BY <1>5, <2>1
  <2> QED
    BY <1>3, <2>1, <2>2 DEF Then
<1>8. Flattens(esc, ts, n)
  BY <1>6, <1>7 DEF Flattens
<1> QED
  BY <1>1, <1>8 DEF ts

\* The quoted string at p is the rest behind its first quote.
LEMMA QuotedStarts ==
  ASSUME ATextInv, NEW p
  PROVE  \E rest : /\ Reader!Quoted(p) = rest[p + 1]
                   /\ \A i \in 1..End + 1 : rest[i] = RestBody(rest, i)
<1> DEFINE N == End + 1
           rest == CHOOSE f : f = [i \in 1..N |-> RestBody(f, i)]
<1>1. N \in Nat /\ Len(text) \in Nat /\ End \in Nat
  BY AtPlace
<1>2. rest = [i \in 1..N |-> RestBody(rest, i)]
  BY RestExists
<1>3. Reader!Quoted(p) = rest[p + 1]
  <2>1. N = Len(text) + 2
    BY <1>1 DEF End
  <2> QED
    BY <2>1 DEF Reader!Quoted, RestBody, Quote, Backslash, Reader!Quote, Reader!Backslash
<1> HIDE DEF rest
<1>4. \A i \in 1..N : rest[i] = RestBody(rest, i)
  BY <1>2
<1> QED
  BY <1>3, <1>4

\* u, m characters of the text from place i on, is what is written for c.
Spelt(c, u, m, i) ==
  /\ i \in Nat \ {0} /\ u = Escaped(c) /\ m = Len(u) /\ i + m <= End
  /\ \A j \in 1..m : text[i + j - 1] = u[j]

\* It reads as c.
LEMMA EscapedReads ==
  ASSUME ATextInv, NEW rest, NEW i, NEW c, NEW u, NEW m, Spelt(c, u, m, i)
  PROVE  RestBody(rest, i) = Reader!Before(<<c>>, rest[i + m])
<1> USE DEF Spelt
<1>1. Len(text) \in Nat /\ End = Len(text) + 1
  BY AtPlace DEF End
<1>2. CASE c \in {Quote, Backslash, NL}
  <2>1. PICK x : u = <<Backslash, x>> /\ x # "end" /\ Reader!Escaped(x) = <<c>>
    <3>1. c = Quote => u = <<Backslash, Quote>>
      BY DEF Escaped, Quote, Backslash, NL
    <3>2. c = Backslash => u = <<Backslash, Backslash>>
      BY DEF Escaped, Quote, Backslash, NL
    <3>3. c = NL => u = <<Backslash, "n">>
      BY DEF Escaped, Quote, Backslash, NL
    <3>4. /\ Reader!Escaped(Quote) = <<Quote>> /\ Reader!Escaped(Backslash) = <<Backslash>>
          /\ Reader!Escaped("n") = <<NL>> /\ Quote # "end" /\ Backslash # "end"
      BY DEF Reader!Escaped, Quote, Backslash, NL, Reader!Quote, Reader!Backslash, Reader!NL
    <3> QED
      BY <1>2, <3>1, <3>2, <3>3, <3>4
  <2>2. m = 2 /\ u[1] = Backslash /\ u[2] = x
    BY <2>1
  <2>3. i \in 1..Len(text) /\ i + 1 \in 1..Len(text) /\ i + 1 - 1 = i /\ i + 2 - 1 = i + 1
    BY <1>1, <2>2
  <2>4. text[i] = Backslash /\ text[i + 1] = x
    BY <2>2, <2>3
  <2>5. Reader!At(i) = Backslash /\ Reader!At(i + 1) = x
    BY <2>3, <2>4, AtPlace
  <2>6. RestBody(rest, i) = Reader!Before(Reader!Escaped(x), rest[i + 2])
    BY <2>1, <2>5 DEF RestBody, Quote, Backslash
  <2> QED
    BY <2>1, <2>2, <2>6
<1>3. CASE c \notin {Quote, Backslash, NL}
  <2>1. u = <<c>>
    BY <1>3 DEF Escaped
  <2>2. m = 1 /\ u[1] = c
    BY <2>1
  <2>3. i \in 1..Len(text) /\ i + 1 - 1 = i
    BY <1>1, <2>2
  <2>4. Reader!At(i) = c /\ c # "end"
    BY <2>2, <2>3, AtPlace
  <2>5. RestBody(rest, i) = Reader!Before(<<Reader!At(i)>>, rest[i + 1])
    BY <1>3, <2>4 DEF RestBody
  <2> QED
    BY <2>2, <2>4, <2>5
<1> QED
  BY <1>2, <1>3

\* What is written for a character is a text.
LEMMA EscapedIsText ==
  ASSUME NEW Y, Quote \in Y, Backslash \in Y, "n" \in Y, NEW c \in Y
  PROVE  Escaped(c) \in Seq(Y)
<1>1. Escaped(c) \in {<<Backslash, Quote>>, <<Backslash, Backslash>>, <<Backslash, "n">>, <<c>>}
  BY DEF Escaped
<1>2. /\ <<Backslash, Quote>> \in Seq(Y) /\ <<Backslash, Backslash>> \in Seq(Y)
      /\ <<Backslash, "n">> \in Seq(Y) /\ <<c>> \in Seq(Y)
  OBVIOUS
<1> QED
  BY <1>1, <1>2

\* q stands in the text from p on.
Stands(q, p) == p + Len(q) <= End /\ \A j \in 1..Len(q) : text[p + j - 1] = q[j]

\* q is the text e in quotes.
InQuote(q, e) ==
  /\ Len(e) \in Nat /\ Len(q) = Len(e) + 2
  /\ q[1] = Quote /\ q[Len(e) + 2] = Quote /\ \A j \in 1..Len(e) : q[j + 1] = e[j]

\* What is in quotes: the escaped text with a quote in front and one behind.
LEMMA InQuotesIs ==
  ASSUME NEW Y, Quote \in Y, NEW s, NEW e \in Seq(Y), e = Escape(s), NEW q, q = InQuotes(s)
  PROVE  InQuote(q, e)
<1>1. PICK x : x = <<Quote>> /\ x \in Seq(Y) /\ Len(x) = 1 /\ x[1] = Quote
  <2>1. <<Quote>> \in Seq(Y) /\ Len(<<Quote>>) = 1 /\ <<Quote>>[1] = Quote
    OBVIOUS
  <2> QED
    BY <2>1
<1>2. PICK y : y = x \o e
  OBVIOUS
<1>3. /\ y \in Seq(Y) /\ Len(e) \in Nat /\ Len(y) = 1 + Len(e)
      /\ y[1] = Quote /\ \A j \in 1..Len(e) : y[1 + j] = e[j]
  <2>1. x \o e \in Seq(Y) /\ Len(x \o e) = Len(x) + Len(e)
    BY <1>1, ConcatProperties
  <2>2. \A j \in 1..Len(x) : (x \o e)[j] = x[j]
    BY <1>1, ConcatProperties
  <2>3. \A j \in 1..Len(e) : (x \o e)[Len(x) + j] = e[j]
    BY <1>1, ConcatProperties
  <2>4. Len(e) \in Nat /\ 1 \in 1..Len(x)
    BY <1>1, LenProperties
  <2> QED
    BY <1>1, <1>2, <2>1, <2>2, <2>3, <2>4
<1>4. q = y \o x
  BY <1>1, <1>2 DEF InQuotes
<1>5. /\ Len(q) = Len(y) + 1
      /\ \A j \in 1..Len(y) : q[j] = y[j]
      /\ q[Len(y) + 1] = Quote
  <2>1. Len(y \o x) = Len(y) + Len(x)
    BY <1>1, <1>3, ConcatProperties
  <2>2. \A j \in 1..Len(y) : (y \o x)[j] = y[j]
    BY <1>1, <1>3, ConcatProperties
  <2>3. \A j \in 1..Len(x) : (y \o x)[Len(y) + j] = x[j]
    BY <1>1, <1>3, ConcatProperties
  <2>4. 1 \in 1..Len(x)
    BY <1>1
  <2> QED
    BY <1>1, <1>4, <2>1, <2>2, <2>3, <2>4
<1>6. \A j \in 1..Len(e) : j + 1 \in 1..Len(y) /\ j + 1 = 1 + j
  BY <1>3
<1>7. 1 \in 1..Len(y)
  BY <1>3
<1>8. \A j \in 1..Len(e) : q[j + 1] = e[j]
  BY <1>3, <1>5, <1>6
<1>9. Len(y) + 1 = Len(e) + 2
  BY <1>3
<1> QED
  BY <1>3, <1>5, <1>7, <1>8, <1>9 DEF InQuote

\* keyvalues.rs:125: every string that was written in quotes reads as it was,
\* whatever its characters: the reader undoes exactly the escapes of the writer.
THEOREM QuotedReadsBack ==
  ASSUME ATextInv, NEW C, NEW s \in Seq(C), NEW p \in Nat \ {0}, Stands(InQuotes(s), p)
  PROVE  Reader!parse_string(p) = Reader!Parsed(s, p + Len(InQuotes(s)))
<1>0. PICK n, Y, ts, q :
        /\ n = Len(s) /\ Y = C \cup {Quote, Backslash, "n"}
        /\ ts = [i \in 1..n |-> Escaped(s[i])] /\ q = InQuotes(s)
  OBVIOUS
<1>1. n \in Nat /\ s \in Seq(Y) /\ Quote \in Y /\ Backslash \in Y /\ "n" \in Y
  BY <1>0, LenProperties, SeqMonotonic
<1>2. \A i \in 1..n : s[i] \in Y /\ Escaped(s[i]) \in Seq(Y)
  BY <1>0, <1>1, ElementOfSeq, EscapedIsText
<1>3. ts \in Seq(Seq(Y)) /\ n = Len(ts) /\ \A i \in 1..n : ts[i] = Escaped(s[i])
  BY <1>0, <1>1, <1>2, IsASeq
<1>4. PICK F : Flattens(F, ts, n) /\ F[n] = Escape(s)
  BY <1>0, <1>1, EscapeIs
<1>5. Fronts(F, ts, n, Y)
  BY ONLY <1>1, <1>3, <1>4, FlattensPrefix
<1>6. PICK e : e = F[n]
  OBVIOUS
<1>7. PICK N \in Nat : N = Len(e) /\ e \in Seq(Y)
  <2>1. n \in 0..n
    BY <1>1
  <2> QED
    BY <1>5, <1>6, <2>1 DEF Fronts
<1>8. /\ Len(q) = N + 2 /\ q[1] = Quote /\ q[N + 2] = Quote
      /\ \A j \in 1..N : q[j + 1] = e[j]
  <2>1. InQuote(q, e)
    BY <1>0, <1>1, <1>4, <1>6, <1>7, InQuotesIs
  <2> QED
    BY <1>7, <2>1 DEF InQuote
<1>9. /\ Len(text) \in Nat /\ End \in Nat /\ End = Len(text) + 1 /\ p + N + 2 <= End
      /\ \A j \in 1..N + 2 : text[p + j - 1] = q[j]
  <2>1. Stands(q, p)
    BY <1>0
  <2> QED
    BY <1>8, <2>1, AtPlace DEF Stands, End
<1>10. text[p] = Quote /\ text[p + N + 1] = Quote /\ \A j \in 1..N : text[p + j] = e[j]
  <2>1. 1 \in 1..N + 2 /\ N + 2 \in 1..N + 2 /\ p + 1 - 1 = p /\ p + (N + 2) - 1 = p + N + 1
    OBVIOUS
  <2>2. \A j \in 1..N : j + 1 \in 1..N + 2 /\ p + (j + 1) - 1 = p + j
    OBVIOUS
  <2>3. text[p + 1 - 1] = q[1] /\ text[p + (N + 2) - 1] = q[N + 2]
    BY ONLY <1>9, <2>1
  <2>4. ASSUME NEW j \in 1..N
        PROVE  text[p + j] = e[j]
    <3>1. text[p + (j + 1) - 1] = q[j + 1]
      BY ONLY <1>9, <2>2
    <3> QED
      BY ONLY <1>8, <2>2, <3>1
  <2> QED
    BY ONLY <1>8, <2>1, <2>3, <2>4
<1>11. PICK rest : /\ Reader!Quoted(p) = rest[p + 1]
                   /\ \A i \in 1..End + 1 : rest[i] = RestBody(rest, i)
  BY QuotedStarts
<1>12. p \in 1..Len(text) /\ p + N + 1 \in 1..Len(text) /\ p + N + 1 \in 1..End + 1
  BY <1>9
<1> DEFINE Reads(k) == rest[p + 1 + Len(F[k])] = Reader!Parsed(SubSeq(s, k + 1, n), p + N + 2)
           T == {m \in 0..n : Reads(n - m)}
<1>13. 0 \in T
  <2>1. n - 0 = n /\ p + 1 + N = p + N + 1 /\ p + N + 1 + 1 = p + N + 2 /\ 0 \in 0..n /\ n + 1 \in Int /\ n < n + 1
    BY <1>1
  <2>2. Reader!At(p + N + 1) = Quote
    BY <1>10, <1>12, AtPlace
  <2>3. rest[p + N + 1] = Reader!Parsed(<<>>, p + N + 1 + 1)
    <3>1. PICK i : i = p + N + 1
      OBVIOUS
    <3>2. Reader!At(i) = Quote
      BY <2>2, <3>1
    <3>3. RestBody(rest, i) = Reader!Parsed(<<>>, i + 1)
      BY <3>2 DEF RestBody, Quote, Backslash
    <3> QED
      BY <1>11, <1>12, <3>1, <3>3
  <2>4. SubSeq(s, n + 1, n) = <<>>
    BY <1>1, <2>1, SubSeqEmpty
  <2> QED
    BY <1>6, <1>7, <2>1, <2>3, <2>4
<1>14. ASSUME NEW k \in 1..n, Reads(k)
       PROVE  Reads(k - 1)
  <2>1. PICK c, u, o, m : c = s[k] /\ u = Escaped(c) /\ o = Len(F[k - 1]) /\ m = Len(u)
    OBVIOUS
  <2>2. k - 1 \in 0..n /\ k \in 0..n /\ ts[k] = u /\ u \in Seq(Y) /\ F[k - 1] \in Seq(Y) /\ o \in Nat
    <3>1. k - 1 \in 0..n /\ k \in 0..n
      BY <1>1
    <3> QED
      BY <1>2, <1>3, <1>5, <2>1, <3>1 DEF Fronts
  <2>3. m \in Nat
    BY <2>1, <2>2, LenProperties
  <2>4. Len(F[k]) = o + m /\ o + m <= N
    BY <1>5, <1>6, <1>7, <2>1, <2>2 DEF Fronts
  <2>5. F[k] = Then(F[k - 1], u)
    BY <1>4, <2>2 DEF Flattens
  <2>6. \A j \in 1..m : e[o + j] = u[j]
    <3>1. PICK v : v = F[k - 1]
      OBVIOUS
    <3>2. v \in Seq(Y) /\ u \in Seq(Y) /\ o = Len(v)
      BY <2>1, <2>2, <3>1
    <3>3. ASSUME NEW j \in 1..Len(u)
          PROVE  Then(v, u)[Len(v) + j] = u[j]
      <4>1. v \in Seq(Y) /\ u \in Seq(Y) /\ j \in 1..Len(u)
        BY <3>2, <3>3
      <4> QED
        BY ONLY <4>1, ThenAt
    <3>4. \A j \in 1..m : F[k][o + j] = u[j]
      BY ONLY <2>1, <2>5, <3>1, <3>2, <3>3
    <3>5. \A j \in 1..m : o + j \in 1..o + m
      BY ONLY <2>2, <2>3
    <3>6. \A j \in 1..Len(F[k]) : e[j] = F[k][j]
      BY <1>5, <1>6, <2>2 DEF Fronts
    <3> QED
      BY <2>4, <3>4, <3>5, <3>6
  <2>7. PICK i \in Nat \ {0} : i = p + 1 + o /\ i + m = p + 1 + Len(F[k]) /\ i + m <= End /\ i \in 1..End + 1
    <3>1. p + 1 + o \in Nat \ {0} /\ p + 1 + o + m = p + 1 + (o + m) /\ p + 1 + o + m <= End
      BY <1>9, <2>2, <2>3, <2>4
    <3>2. p + 1 + o \in 1..End + 1
      BY <1>9, <2>2, <2>3, <3>1
    <3> QED
      BY <2>4, <3>1, <3>2
  <2>8. \A j \in 1..m : text[i + j - 1] = u[j]
    <3>1. \A j \in 1..m : o + j \in 1..N /\ i + j - 1 = p + (o + j)
      BY ONLY <1>7, <2>2, <2>3, <2>4, <2>7, p \in Nat
    <3> QED
      BY <1>10, <2>6, <3>1
  <2>9. RestBody(rest, i) = Reader!Before(<<c>>, rest[i + m])
    <3>1. Spelt(c, u, m, i)
      BY <2>1, <2>7, <2>8 DEF Spelt
    <3> QED
      BY <3>1, EscapedReads
  <2>10. rest[i + m] = Reader!Parsed(SubSeq(s, k + 1, n), p + N + 2)
    BY <1>14, <2>7
  <2>11. SubSeq(s, k, n) = <<s[k]>> \o SubSeq(s, k + 1, n)
    <3>1. k \in 1..Len(s) /\ n \in k..Len(s)
      BY <1>0, <1>1
    <3> QED
      BY <3>1, SubSeqRecursiveFirst
  <2>12. rest[i] = Reader!Parsed(<<c>> \o SubSeq(s, k + 1, n), p + N + 2)
    <3>1. rest[i] = RestBody(rest, i)
      BY <1>11, <2>7
    <3>2. PICK z : z = SubSeq(s, k + 1, n)
      OBVIOUS
    <3>3. rest[i] = Reader!Before(<<c>>, Reader!Parsed(z, p + N + 2))
      BY ONLY <2>9, <2>10, <3>1, <3>2
    <3>4. Reader!Before(<<c>>, Reader!Parsed(z, p + N + 2)) = Reader!Parsed(<<c>> \o z, p + N + 2)
      BY DEF Reader!Before, Reader!Parsed
    <3> QED
      BY ONLY <3>2, <3>3, <3>4
  <2>13. k - 1 + 1 = k
    OBVIOUS
  <2> QED
    BY <2>1, <2>7, <2>11, <2>12, <2>13
<1>15. ASSUME NEW m \in T, m < n
       PROVE  m + 1 \in T
  <2>1. PICK k \in 1..n : k = n - m /\ k - 1 = n - (m + 1)
    <3>1. n - m \in 1..n /\ n - m - 1 = n - (m + 1)
      BY <1>1, <1>15
    <3> QED
      BY <3>1
  <2>2. m + 1 \in 0..n
    BY <1>1, <1>15
  <2> HIDE DEF Reads
  <2> QED
    BY <1>14, <2>1, <2>2
<1>16. T = 0..n
  <2> HIDE DEF T
  <2>1. T \in SUBSET (0..n)
    BY DEF T
  <2> QED
    BY <1>1, <1>13, <1>15, <2>1, PrefixInduction
<1>17. Reads(0)
  <2>1. n \in 0..n /\ n - n = 0
    BY <1>1
  <2> HIDE DEF Reads
  <2> QED
    BY <1>16, <2>1
<1>18. p + 1 + Len(F[0]) = p + 1
  BY <1>4, EmptySeq DEF Flattens, None
<1>19. SubSeq(s, 0 + 1, n) = s
  BY <1>0, SubSeqFull
<1>20. Reader!Quoted(p) = Reader!Parsed(s, p + N + 2)
  BY <1>11, <1>17, <1>18, <1>19
<1>21. Reader!parse_string(p) = Reader!Quoted(p)
  BY <1>10, <1>12, AtPlace DEF Reader!parse_string, Quote, Reader!Quote
<1>22. p + Len(q) = p + N + 2
  BY <1>8
<1> QED
  BY <1>0, <1>20, <1>21, <1>22

=============================================================================
