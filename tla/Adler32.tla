------------------------------- MODULE Adler32 -------------------------------
(***************************************************************************)
(* adler32_steam of steamdepot/src/download.rs, a byte at a time: the sums *)
(* wrap at the width of u32 and are reduced only at the end of a block of  *)
(* bytes.  Beside it runs the checksum as it is defined, with both sums    *)
(* reduced at every byte.                                                  *)
(***************************************************************************)
EXTENDS Naturals

CONSTANTS
  MOD_ADLER,  \* 65521
  Block,      \* bytes between two reductions (5552)
  Word,       \* 2^32
  MaxByte,    \* 255
  MaxLen      \* bound: bytes of the data

\* the largest values the sums reach before they are reduced
ASSUME AdlerAssumption ==
  /\ MOD_ADLER \in Nat \ {0} /\ Block \in Nat \ {0}
  /\ Word \in Nat /\ MaxByte \in Nat /\ MaxLen \in Nat
  /\ MOD_ADLER - 1 + MaxByte * Block < Word
  /\ 2 * (MOD_ADLER - 1) * (Block + 1) + MaxByte * Block * (Block + 1) < 2 * Word

VARIABLES
  s1, s2,
  inBlock,    \* bytes of this block so far
  length,     \* bytes so far
  done,
  a, b        \* the sums as they are defined

vars == <<s1, s2, inBlock, length, done, a, b>>

TypeOK ==
  /\ s1 \in 0..Word - 1 /\ s2 \in 0..Word - 1
  /\ inBlock \in 0..Block - 1
  /\ length \in 0..MaxLen
  /\ done \in BOOLEAN
  /\ a \in 0..MOD_ADLER - 1 /\ b \in 0..MOD_ADLER - 1

Init ==
  /\ s1 = 0 /\ s2 = 0
  /\ inBlock = 0 /\ length = 0 /\ done = FALSE
  /\ a = 0 /\ b = 0

\* Slip: one more byte in a block.
ByteLate(x) ==
  /\ ~ done /\ length < MaxLen
  /\ LET t1 == (s1 + x) % Word
         t2 == (s2 + t1) % Word
     IN IF inBlock = Block
        THEN s1' = t1 % MOD_ADLER /\ s2' = t2 % MOD_ADLER /\ inBlock' = 0
        ELSE s1' = t1 /\ s2' = t2 /\ inBlock' = inBlock + 1
  /\ length' = length + 1
  /\ a' = (a + x) % MOD_ADLER
  /\ b' = (b + a + x) % MOD_ADLER
  /\ UNCHANGED done

\* a byte, and the reduction when it is the last of its block
NextByte(x) ==
  /\ ~ done /\ length < MaxLen
  /\ LET t1 == (s1 + x) % Word
         t2 == (s2 + t1) % Word
     IN IF inBlock + 1 = Block
        THEN s1' = t1 % MOD_ADLER /\ s2' = t2 % MOD_ADLER /\ inBlock' = 0
        ELSE s1' = t1 /\ s2' = t2 /\ inBlock' = inBlock + 1
  /\ length' = length + 1
  /\ a' = (a + x) % MOD_ADLER
  /\ b' = (b + a + x) % MOD_ADLER
  /\ UNCHANGED done

\* the data ends: the last block may be a short one
Finish ==
  /\ ~ done
  /\ done' = TRUE
  /\ s1' = s1 % MOD_ADLER /\ s2' = s2 % MOD_ADLER
  /\ UNCHANGED <<inBlock, length, a, b>>

Next == (\E x \in 0..MaxByte : NextByte(x)) \/ Finish

Spec == Init /\ [][Next]_vars

-----------------------------------------------------------------------------

\* The checksum is the one that is defined, for data of any length: no sum
\* wraps before it is reduced.
Matches == done => s1 = a /\ s2 = b

\* Within a block the sums stay where the next byte cannot make them wrap.
NoWrap ==
  ~ done =>
    /\ s1 + MaxByte < Word
    /\ s2 + s1 + MaxByte < Word

\* The two together: the checksum is right because no sum wraps.
AdlerInv == TypeOK /\ NoWrap /\ Matches

=============================================================================
