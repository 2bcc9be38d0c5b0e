----------------------------- MODULE MailProofs -----------------------------
(***************************************************************************)
(* Proofs about the mail server (SteamMail) and the flow that waits for    *)
(* its codes (AuthFlow), the parts MCMail runs; how one mail's text is     *)
(* decoded; what is found in it is left to TLC.                            *)
(*                                                                         *)
(* About SteamMail, for any sessions, capacity and bounds. MailIInv is     *)
(* inductive: whose the lines and the item of a session are (BodyInv), the *)
(* queues in front of and behind the channel (QueueInv), that what has     *)
(* passed is in the order of each session's mails and was acknowledged or  *)
(* waits for it or has lost its client (PassedInv), and that the client    *)
(* sends a mail in one session at a time and never again once it has its   *)
(* 250 (AckedInv).                                                         *)
(*                                                                         *)
(* About AuthFlow, for any flows, codes in the mailbox, interval and       *)
(* patience of Steam: FlowIInv is inductive.                               *)
(*                                                                         *)
(* About MailText, for every text: decoding undoes the sender's quoted-    *)
(* printable but for what is no ASCII, which it reads byte by byte.        *)
(* FlattenSeq and Decode are recursive functions; that they exist, and     *)
(* what they are, is shown by induction over a set of numbers              *)
(* (PrefixInduction).                                                      *)
(***************************************************************************)
EXTENDS MCMail, SequenceTheorems, FiniteSetTheorems, TLAPS

\* What was extracted from a mail, lines of it included.
OfMail(s, x) == x \in Item /\ x.from = s /\ x.mail = mails[s]

\* The lines of a session are of its mail under way, and so is what it sends
\* and answers.
BodyInv ==
  /\ body \in [Session -> Seq(Item \cup {NoItem})]
  /\ found \in [Session -> Item \cup {NoItem}]
  /\ \A s \in Session :
       /\ mode[s] = "data" => mails[s] >= 1
       /\ \A i \in 1..Len(body[s]) : body[s][i] = NoItem \/ OfMail(s, body[s][i])
       /\ mode[s] = "sending" => OfMail(s, found[s])
       /\ mode[s] = "replying" => found[s] = NoItem \/ OfMail(s, found[s])

\* A session waits once; only items pass.
QueueInv ==
  /\ waiting \in Seq(Session)
  /\ \A i, j \in 1..Len(waiting) : i < j => waiting[i] # waiting[j]
  /\ channel \in Seq(Item) /\ taken \in Seq(Item)

Passed == taken \o channel

\* The mail under way is later than all of its session that have passed; what
\* has passed and is not acknowledged waits for it or has lost its client.
PassedInv ==
  /\ \A x \in Elems(Passed) : /\ x.mail <= mails[x.from]
                              /\ mode[x.from] \in {"data", "sending"} => x.mail < mails[x.from]
  /\ \A x \in Elems(Passed) \ acked : Unanswered(x)
  /\ receiver = "gone" => channel = <<>>
  /\ SessionOrder

\* What is acknowledged, or about to be, has passed; no mail is open twice,
\* nor again once it is acknowledged.
AckedInv ==
  /\ acked \subseteq Item
  /\ receiver # "gone" =>
       /\ acked \subseteq Elems(Passed)
       /\ \A s \in Session :
            (mode[s] = "replying" /\ found[s] # NoItem) => found[s] \in Elems(Passed)
  /\ \A s, u \in Session : (s # u /\ Open(s) /\ Open(u)) => mails[s] # mails[u]
  /\ \A x \in acked, s \in Session : Open(s) => mails[s] # x.mail
  /\ \A x, y \in acked : x.mail = y.mail => x = y

MailIInv == TypeOK /\ BodyInv /\ QueueInv /\ PassedInv /\ AckedInv

-----------------------------------------------------------------------------
(* Sequences *)

\* The elements of a sequence are what is at its places.
LEMMA ElemsFacts ==
  ASSUME NEW S, NEW q \in Seq(S)
  PROVE  /\ Elems(q) = {q[i] : i \in 1..Len(q)} /\ Elems(q) \subseteq S
         /\ DOMAIN q = 1..Len(q) /\ Len(q) \in Nat
<1>1. DOMAIN q = 1..Len(q) /\ Len(q) \in Nat /\ \A i \in 1..Len(q) : q[i] \in S
  BY LenProperties, ElementOfSeq
<1> QED
  BY <1>1 DEF Elems

\* One more element.
LEMMA ElemsAppend ==
  ASSUME NEW S, NEW q \in Seq(S), NEW x \in S
  PROVE  Elems(Append(q, x)) = Elems(q) \cup {x}
<1>1. /\ Append(q, x) \in Seq(S) /\ Len(Append(q, x)) = Len(q) + 1 /\ Len(q) \in Nat
      /\ \A i \in 1..Len(q) : Append(q, x)[i] = q[i]
      /\ Append(q, x)[Len(q) + 1] = x
  BY AppendProperties
<1>2. 1..Len(q) + 1 = 1..Len(q) \cup {Len(q) + 1}
  BY <1>1
<1>3. Elems(Append(q, x)) = {Append(q, x)[i] : i \in 1..Len(q) + 1}
  BY <1>1, ElemsFacts
<1>4. Elems(q) = {q[i] : i \in 1..Len(q)}
  BY ElemsFacts
<1> QED
  BY <1>1, <1>2, <1>3, <1>4

\* What enters the channel comes last of all that has passed.
LEMMA AppendMoves ==
  ASSUME NEW S, NEW p \in Seq(S), NEW q \in Seq(S), NEW x \in S
  PROVE  p \o Append(q, x) = Append(p \o q, x)
<1>1. <<x>> \in Seq(S) /\ p \o q \in Seq(S)
  BY ConcatProperties
<1>2. Append(q, x) = q \o <<x>> /\ Append(p \o q, x) = (p \o q) \o <<x>>
  BY <1>1, AppendIsConcat
<1> QED
  BY <1>1, <1>2, ConcatAssociative

\* What leaves the channel keeps its place among what has passed.
LEMMA HeadMoves ==
  ASSUME NEW S, NEW p \in Seq(S), NEW q \in Seq(S), q # <<>>
  PROVE  /\ Append(p, q[1]) \o Tail(q) = p \o q
         /\ q[1] \in S /\ Tail(q) \in Seq(S) /\ Len(Tail(q)) = Len(q) - 1 /\ Len(q) \in Nat \ {0}
         /\ \A i \in 1..Len(q) - 1 : Tail(q)[i] = q[i + 1]
<1>1. /\ Len(q) \in Nat \ {0} /\ q[1] \in S /\ Tail(q) \in Seq(S)
      /\ Len(Tail(q)) = Len(q) - 1 /\ \A i \in 1..Len(q) - 1 : Tail(q)[i] = q[i + 1]
  <2>1. Len(q) \in Nat \ {0}
    BY EmptySeq
  <2> QED
    BY <2>1, HeadTailProperties, ElementOfSeq
<1> DEFINE a == Append(p, q[1])
           t == Tail(q)
<1>2. /\ a \in Seq(S) /\ Len(a) = Len(p) + 1 /\ Len(p) \in Nat
      /\ \A i \in 1..Len(p) : a[i] = p[i]
      /\ a[Len(p) + 1] = q[1]
  BY <1>1, AppendProperties
<1>3. t \in Seq(S) /\ Len(t) = Len(q) - 1 /\ \A i \in 1..Len(q) - 1 : t[i] = q[i + 1]
  BY <1>1
<1> HIDE DEF a, t
<1>4. /\ a \o t \in Seq(S) /\ Len(a \o t) = Len(p) + Len(q)
      /\ \A i \in 1..Len(p) + Len(q) : (a \o t)[i] = IF i <= Len(p) + 1 THEN a[i] ELSE t[i - (Len(p) + 1)]
  <2>1. /\ a \o t \in Seq(S) /\ Len(a \o t) = Len(a) + Len(t)
        /\ \A i \in 1..Len(a) + Len(t) : (a \o t)[i] = IF i <= Len(a) THEN a[i] ELSE t[i - Len(a)]
    BY <1>2, <1>3, ConcatProperties
  <2>2. Len(a) + Len(t) = Len(p) + Len(q)
    BY <1>1, <1>2, <1>3
  <2> QED
    BY <1>2, <2>1, <2>2
<1>5. /\ p \o q \in Seq(S) /\ Len(p \o q) = Len(p) + Len(q)
      /\ \A i \in 1..Len(p) + Len(q) : (p \o q)[i] = IF i <= Len(p) THEN p[i] ELSE q[i - Len(p)]
  BY ConcatProperties
<1>6. ASSUME NEW i \in 1..Len(p) + Len(q) PROVE (a \o t)[i] = (p \o q)[i]
  <2>1. CASE i <= Len(p)
    BY <1>2, <1>4, <1>5, <2>1
  <2>2. CASE i = Len(p) + 1
    BY <1>2, <1>4, <1>5, <2>2
  <2>3. CASE i > Len(p) + 1
    <3>1. /\ (a \o t)[i] = t[i - (Len(p) + 1)] /\ (p \o q)[i] = q[i - Len(p)]
          /\ i - (Len(p) + 1) \in 1..Len(q) - 1 /\ (i - (Len(p) + 1)) + 1 = i - Len(p)
      BY <1>1, <1>2, <1>4, <1>5, <2>3
    <3> QED
      BY <1>3, <3>1
  <2>4. i <= Len(p) \/ i = Len(p) + 1 \/ i > Len(p) + 1
    BY <1>2
  <2> QED
    BY <2>1, <2>2, <2>3, <2>4
<1>7. a \o t = p \o q
  BY <1>4, <1>5, <1>6, SeqEqual
<1> QED
  BY <1>1, <1>7 DEF a, t

\* Elements that are all different are as many as there are places.
LEMMA OncePerPlace ==
  ASSUME NEW S, NEW q \in Seq(S), \A i, j \in 1..Len(q) : i < j => q[i] # q[j]
  PROVE  Cardinality(Elems(q)) = Len(q)
<1> DEFINE n == Len(q)
           E == Elems(q)
<1>1. n \in Nat /\ q \in [1..n -> S] /\ E = {q[i] : i \in 1..n}
  BY LenProperties, ElemsFacts
<1> HIDE DEF n, E
<1>2. IsFiniteSet(1..n) /\ Cardinality(1..n) = n
  BY <1>1, FS_Interval
<1>3. q \in Surjection(1..n, E)
  BY <1>1 DEF Surjection
<1>4. q \in Injection(1..n, E)
  <2>1. q \in [1..n -> E]
    BY <1>1
  <2>2. \A i, j \in 1..n : q[i] = q[j] => i = j
    BY <1>1 DEF n
  <2> QED
    BY <2>1, <2>2 DEF Injection, IsInjective
<1>5. Cardinality(E) = n
  BY <1>2, <1>3, <1>4, FS_Surjection
<1> QED
  BY <1>5 DEF n, E

\* A set of places that is not empty has a first one.
LEMMA FirstPlace ==
  ASSUME NEW n \in Nat, NEW T \in SUBSET (1..n), T # {}
  PROVE  \E i \in T : \A j \in T : i <= j
<1> DEFINE N == 0..n
           W == {0..x : x \in T}
<1>1. FiniteSubsetsOf(N) = SUBSET N
  <2>1. IsFiniteSet(N)
    BY FS_Interval
  <2> QED
    BY <2>1, FS_FiniteSubsetsOfFinite
<1>2. W # {} /\ W \subseteq SUBSET N
  <2>1. \A x \in T : 0..x \subseteq N
    OBVIOUS
  <2> QED
    BY <2>1
<1>3. \E w \in W : \A v \in W : <<v, w>> \notin StrictSubsetOrdering(N)
  <2>1. IsWellFoundedOn(StrictSubsetOrdering(N), SUBSET N)
    BY <1>1, FS_StrictSubsetOrderingWellFounded
  <2> HIDE DEF W, N
  <2> QED
    BY <1>2, <2>1, WFMin
<1>4. PICK i \in T : \A j \in T : <<0..j, 0..i>> \notin StrictSubsetOrdering(N)
  BY <1>3
<1>5. ASSUME NEW j \in T, j < i PROVE FALSE
  <2>1. 0..j \subseteq 0..i /\ 0..j # 0..i
    BY <1>5
  <2>2. <<0..j, 0..i>> \in (SUBSET N) \X (SUBSET N)
    OBVIOUS
  <2>3. <<0..j, 0..i>> \in StrictSubsetOrdering(N)
    BY <2>1, <2>2 DEF StrictSubsetOrdering
  <2> QED
    BY <1>4, <2>3
<1> QED
  BY <1>5

-----------------------------------------------------------------------------
(* The item of a mail *)

\* What is extracted is one of the lines, if it is anything.
LEMMA ExtractFacts ==
  ASSUME NEW S, NEW ls \in Seq(S)
  PROVE  \/ Extract(ls) = NoItem
         \/ \E i \in 1..Len(ls) : Extract(ls) = ls[i] /\ ls[i].kind \in Kind
<1> DEFINE of(k) == {i \in 1..Len(ls) : ls[i].kind = k}
           at(k) == CHOOSE i \in of(k) : \A j \in of(k) : i <= j
<1>1. DOMAIN ls = 1..Len(ls) /\ Len(ls) \in Nat
  BY LenProperties
<1>2. ASSUME NEW k, of(k) # {} PROVE at(k) \in of(k)
  <2>1. \E i \in of(k) : \A j \in of(k) : i <= j
    <3>1. of(k) \in SUBSET (1..Len(ls))
      OBVIOUS
    <3> HIDE DEF of
    <3> QED
      BY <1>1, <1>2, <3>1, FirstPlace
  <2> HIDE DEF of
  <2> QED
    BY <2>1
<1>3. Extract(ls) = IF of("code") # {} THEN ls[at("code")]
                       ELSE IF of("link") # {} THEN ls[at("link")] ELSE NoItem
  BY <1>1 DEF Extract
<1> HIDE DEF at
<1>4. CASE of("code") # {}
  <2>1. at("code") \in of("code")
    BY <1>2, <1>4
  <2> QED
    BY <1>3, <1>4, <2>1 DEF Kind
<1>5. CASE of("code") = {} /\ of("link") # {}
  <2>1. at("link") \in of("link")
    BY <1>2, <1>5
  <2> QED
    BY <1>3, <1>5, <2>1 DEF Kind
<1>6. CASE of("code") = {} /\ of("link") = {}
  BY <1>3, <1>6
<1> QED
  BY <1>4, <1>5, <1>6

-----------------------------------------------------------------------------
(* The sessions *)

\* What has passed and what was acknowledged stays while a session collects its
\* mail, if a mail that is opened is under way nowhere else and not acknowledged.
LEMMA PassedKept ==
  ASSUME TypeOK, QueueInv, PassedInv, AckedInv, NEW s \in Session,
         UNCHANGED <<channel, taken, acked, receiver, left>>,
         mode[s] \in {"command", "data"},
         \A u \in Session \ {s} : mode'[u] = mode[u] /\ mails'[u] = mails[u] /\ found'[u] = found[u],
         mails'[s] \in 0..MaxMails,
         \/ /\ mails'[s] = mails[s]
            /\ mode'[s] \in {"data", "sending", "replying"} => mode[s] = "data"
         \/ /\ mails'[s] > mails[s]
            /\ \A x \in acked : x.mail # mails'[s]
            /\ \A u \in Session : Open(u) => mails[u] # mails'[s],
         mode'[s] = "replying" => found'[s] = NoItem
  PROVE  PassedInv' /\ AckedInv'
<1>1. Elems(Passed) \subseteq Item /\ acked \subseteq Item
  <2>1. taken \in Seq(Item) /\ channel \in Seq(Item)
    BY DEF QueueInv
  <2>2. Elems(Passed) \subseteq Item
    <3> HIDE DEF Item
    <3> QED
      BY <2>1, ConcatProperties, ElemsFacts DEF Passed
  <2> QED
    BY <2>2 DEF AckedInv
<1>2. \A x \in Item : x.from \in Session /\ x.mail \in Nat
  BY MailAssumption DEF Item
<1>3. \A u \in Session : mails[u] \in Nat /\ mails'[u] \in Nat
  BY MailAssumption DEF TypeOK
<1>4. Passed' = Passed /\ SessionOrder' /\ Elems(Passed)' = Elems(Passed)
  BY DEF Passed, PassedInv, SessionOrder, Elems
<1>5. s \notin left
  BY DEF TypeOK
<1>6. ASSUME NEW x \in Elems(Passed)
      PROVE  /\ x.mail <= mails'[x.from]
             /\ mode'[x.from] \in {"data", "sending"} => x.mail < mails'[x.from]
  <2>1. /\ x.mail <= mails[x.from]
        /\ mode[x.from] \in {"data", "sending"} => x.mail < mails[x.from]
        /\ x.from \in Session /\ x.mail \in Nat
    BY <1>1, <1>2 DEF PassedInv
  <2> QED
    BY <1>3, <2>1
<1>7. ASSUME NEW x \in Elems(Passed) \ acked PROVE Unanswered(x)'
  <2>1. Unanswered(x) /\ x.from \in Session
    BY <1>1, <1>2 DEF PassedInv
  <2>2. x.from # s
    BY <1>5, <2>1 DEF Unanswered
  <2> QED
    BY <2>1, <2>2 DEF Unanswered
<1>8. PassedInv'
  BY <1>4, <1>6, <1>7 DEF PassedInv
<1>9. \A u \in Session \ {s} : Open(u)' <=> Open(u)
  BY DEF Open
<1>10. CASE mails'[s] = mails[s] /\ (mode'[s] \in {"data", "sending", "replying"} => mode[s] = "data")
  <2>1. Open(s)' => Open(s)
    BY <1>5, <1>10 DEF Open
  <2>2. \A u \in Session : (Open(u)' => Open(u)) /\ mails'[u] = mails[u]
    BY <1>9, <1>10, <2>1
  <2> QED
    BY <1>4, <1>8, <2>2 DEF AckedInv
<1>11. CASE /\ mails'[s] > mails[s]
            /\ \A x \in acked : x.mail # mails'[s]
            /\ \A u \in Session : Open(u) => mails[u] # mails'[s]
  <2>1. \A u, v \in Session : (u # v /\ Open(u)' /\ Open(v)') => mails'[u] # mails'[v]
    <3>1. \A u, v \in Session : (u # v /\ Open(u) /\ Open(v)) => mails[u] # mails[v]
      BY DEF AckedInv
    <3> QED
      BY <1>9, <1>11, <3>1
  <2>2. \A x \in acked, u \in Session : Open(u)' => mails'[u] # x.mail
    <3>1. \A x \in acked, u \in Session : Open(u) => mails[u] # x.mail
      BY DEF AckedInv
    <3> QED
      BY <1>9, <1>11, <3>1
  <2> QED
    BY <1>4, <1>8, <2>1, <2>2 DEF AckedInv
<1> QED
  BY <1>10, <1>11

\* The lines of every session are items or nothing.
LEMMA BodyElems ==
  ASSUME NEW f \in [Session -> Seq(Item \cup {NoItem})]
  PROVE  \A s \in Session : Elems(f[s]) \subseteq Item \cup {NoItem}
<1>1. ASSUME NEW s \in Session PROVE Elems(f[s]) \subseteq Item \cup {NoItem}
  <2>1. f[s] \in Seq(Item \cup {NoItem})
    OBVIOUS
  <2> HIDE DEF Item, NoItem
  <2> QED
    BY <2>1, ElemsFacts
<1> QED
  BY <1>1

\* A mail begins after those of its session that have passed.
LEMMA DataStep ==
  ASSUME MailIInv, NEW s \in Session, NEW m \in 1..MaxMails, Data(s, m)
  PROVE  MailIInv'
<1>1. /\ mode[s] = "command" /\ mode' = [mode EXCEPT ![s] = "data"]
      /\ mails' = [mails EXCEPT ![s] = m] /\ m > mails[s]
      /\ \A x \in acked : x.mail # m
      /\ \A u \in Session : Open(u) => mails[u] # m
      /\ UNCHANGED <<body, found, left, waiting, channel, receiver, acked, taken>>
  BY DEF Data
<1>2. TypeOK /\ BodyInv /\ QueueInv /\ PassedInv /\ AckedInv
  BY DEF MailIInv
<1>3. /\ mode' \in [Session -> {"command", "data", "sending", "replying", "closed"}]
      /\ mails' \in [Session -> 0..MaxMails] /\ mails'[s] = m /\ mode'[s] = "data" /\ m \in Nat
      /\ \A u \in Session \ {s} : mails'[u] = mails[u] /\ mode'[u] = mode[u]
      /\ \A u \in Session : mails[u] \in Nat
  BY <1>1, <1>2, MailAssumption DEF TypeOK
<1>4. TypeOK'
  BY <1>1, <1>2, <1>3 DEF TypeOK
<1>5. BodyInv'
  <2>1. ASSUME NEW u \in Session
        PROVE  /\ mode'[u] = "data" => mails'[u] >= 1
               /\ \A i \in 1..Len(body'[u]) : body'[u][i] = NoItem \/ OfMail(u, body[u][i])'
               /\ mode'[u] = "sending" => OfMail(u, found[u])'
               /\ mode'[u] = "replying" => found'[u] = NoItem \/ OfMail(u, found[u])'
    <3>1. CASE u = s
      <4>1. body[u] = <<>> /\ mode'[u] = "data"
        BY <1>1, <1>2, <1>3, <3>1 DEF TypeOK
      <4> QED
        BY <1>1, <1>3, <3>1, <4>1
    <3>2. CASE u # s
      BY <1>1, <1>2, <1>3, <3>2 DEF BodyInv, OfMail
    <3> QED
      BY <3>1, <3>2
  <2> QED
    BY <1>1, <1>2, <2>1 DEF BodyInv
<1>6. QueueInv'
  BY <1>1, <1>2 DEF QueueInv
<1>7. PassedInv' /\ AckedInv'
  BY <1>1, <1>2, <1>3, PassedKept
<1> QED
  BY <1>4, <1>5, <1>6, <1>7 DEF MailIInv

\* A line adds at most an item of the mail under way.
LEMMA BodyLineStep ==
  ASSUME MailIInv, NEW s \in Session, NEW k \in Kind \cup {"none"}, BodyLine(s, k)
  PROVE  MailIInv'
<1> DEFINE x == IF k = "none" THEN NoItem ELSE [from |-> s, mail |-> mails[s], kind |-> k]
           L == Item \cup {NoItem}
<1>1. /\ mode[s] = "data" /\ body' = [body EXCEPT ![s] = Append(@, x)]
      /\ UNCHANGED <<mode, mails, found, left, waiting, channel, receiver, acked, taken>>
  BY DEF BodyLine
<1>2. TypeOK /\ BodyInv /\ QueueInv /\ PassedInv /\ AckedInv
  BY DEF MailIInv
<1>3. x \in L /\ (x = NoItem \/ OfMail(s, x))
  <2>1. mails[s] \in 1..MaxMails
    BY <1>1, <1>2, MailAssumption DEF TypeOK, BodyInv
  <2> QED
    BY <2>1 DEF Item, OfMail
<1>4. body[s] \in Seq(L) /\ body \in [Session -> Seq(L)]
  BY <1>2 DEF BodyInv
<1>5. /\ body' \in [Session -> Seq(L)] /\ body'[s] = Append(body[s], x)
      /\ \A u \in Session \ {s} : body'[u] = body[u]
      /\ Len(body'[s]) = Len(body[s]) + 1 /\ Len(body[s]) \in Nat
      /\ \A i \in 1..Len(body[s]) : body'[s][i] = body[s][i]
      /\ body'[s][Len(body[s]) + 1] = x
  <2> HIDE DEF L, x
  <2>1. Append(body[s], x) \in Seq(L)
    BY <1>3, <1>4, AppendProperties
  <2>2. body' \in [Session -> Seq(L)] /\ body'[s] = Append(body[s], x)
        /\ \A u \in Session \ {s} : body'[u] = body[u]
    BY <1>1, <1>4, <2>1
  <2> QED
    BY <1>3, <1>4, <2>2, AppendProperties
<1> HIDE DEF x
<1>6. TypeOK'
  <2>1. \A u \in Session : Elems(body'[u]) \subseteq Item \cup {NoItem}
    BY <1>5, BodyElems
  <2> QED
    BY <1>1, <1>2, <1>5, <2>1 DEF TypeOK
<1>7. BodyInv'
  <2>1. ASSUME NEW u \in Session, NEW i \in 1..Len(body'[u])
        PROVE  body'[u][i] = NoItem \/ OfMail(u, body'[u][i])
    <3>1. CASE u = s /\ i = Len(body[s]) + 1
      BY <1>3, <1>5, <3>1
    <3>2. CASE u = s /\ i # Len(body[s]) + 1
      <4>1. i \in 1..Len(body[s]) /\ body'[s][i] = body[s][i]
        BY <1>5, <3>2
      <4> QED
        BY <1>2, <3>2, <4>1 DEF BodyInv
    <3>3. CASE u # s
      BY <1>2, <1>5, <3>3 DEF BodyInv
    <3> QED
      BY <3>1, <3>2, <3>3
  <2>2. \A u \in Session : \A i \in 1..Len(body'[u]) : body'[u][i] = NoItem \/ OfMail(u, body[u][i])'
    BY <1>1, <2>1 DEF OfMail
  <2>3. \A u \in Session : OfMail(u, found[u])' <=> OfMail(u, found[u])
    BY <1>1 DEF OfMail
  <2> QED
    BY <1>1, <1>2, <1>5, <2>2, <2>3 DEF BodyInv
<1>8. QueueInv'
  BY <1>1, <1>2 DEF QueueInv
<1>9. PassedInv' /\ AckedInv'
  <2>1. mails'[s] \in 0..MaxMails /\ mails'[s] = mails[s] /\ mode'[s] = "data"
    BY <1>1, <1>2 DEF TypeOK
  <2> QED
    BY <1>1, <1>2, <2>1, PassedKept
<1> QED
  BY <1>6, <1>7, <1>8, <1>9 DEF MailIInv

\* The mail ends: the session queues with its item, once, or is through with it.
LEMMA DotStep ==
  ASSUME MailIInv, NEW s \in Session, Dot(s)
  PROVE  MailIInv'
<1> DEFINE x == Extract(body[s])
           L == Item \cup {NoItem}
<1>1. /\ mode[s] = "data" /\ found' = [found EXCEPT ![s] = x]
      /\ \/ /\ x = NoItem
            /\ mode' = [mode EXCEPT ![s] = "replying"]
            /\ body' = [body EXCEPT ![s] = <<>>]
            /\ UNCHANGED waiting
         \/ /\ x # NoItem
            /\ mode' = [mode EXCEPT ![s] = "sending"]
            /\ waiting' = Append(waiting, s)
            /\ UNCHANGED body
      /\ UNCHANGED <<mails, left, channel, receiver, acked, taken>>
  BY DEF Dot, Replying
<1>2. TypeOK /\ BodyInv /\ QueueInv /\ PassedInv /\ AckedInv
  BY DEF MailIInv
<1>3. x = NoItem \/ OfMail(s, x)
  <2>1. body[s] \in Seq(L)
    BY <1>2 DEF BodyInv
  <2>2. x = NoItem \/ \E i \in 1..Len(body[s]) : x = body[s][i]
    <3> HIDE DEF L
    <3> QED
      BY <2>1, ExtractFacts
  <2> QED
    BY <1>2, <2>2 DEF BodyInv
<1> HIDE DEF x
<1>4. x \in L
  BY <1>3 DEF OfMail
<1>5. /\ s \notin Elems(waiting) /\ waiting \in Seq(Session)
      /\ Elems(waiting) = {waiting[i] : i \in 1..Len(waiting)} /\ Len(waiting) \in Nat
  BY <1>1, <1>2, ElemsFacts DEF TypeOK, QueueInv
<1>6. /\ mode \in [Session -> {"command", "data", "sending", "replying", "closed"}]
      /\ mode' \in [Session -> {"command", "data", "sending", "replying", "closed"}]
      /\ mode'[s] \in {"replying", "sending"} /\ (mode'[s] = "sending" <=> x # NoItem)
      /\ \A u \in Session \ {s} : mode'[u] = mode[u] /\ body'[u] = body[u] /\ found'[u] = found[u]
      /\ body' \in [Session -> Seq(L)] /\ found' \in [Session -> L] /\ found'[s] = x
      /\ mode'[s] = "replying" => body'[s] = <<>>
      /\ body'[s] = <<>> \/ body'[s] = body[s]
  <2>1. body \in [Session -> Seq(L)] /\ found \in [Session -> L]
        /\ mode \in [Session -> {"command", "data", "sending", "replying", "closed"}]
    BY <1>2 DEF BodyInv, TypeOK
  <2>2. <<>> \in Seq(L)
    BY EmptySeq
  <2> HIDE DEF L
  <2> QED
    BY <1>1, <1>4, <2>1, <2>2
<1>7. /\ waiting' \in Seq(Session)
      /\ \A i, j \in 1..Len(waiting') : i < j => waiting'[i] # waiting'[j]
      /\ Elems(waiting') = IF x = NoItem THEN Elems(waiting) ELSE Elems(waiting) \cup {s}
  <2>1. CASE x = NoItem
    BY <1>1, <1>2, <2>1 DEF QueueInv
  <2>2. CASE x # NoItem
    <3>1. waiting' = Append(waiting, s)
      BY <1>1, <2>2
    <3>2. /\ waiting' \in Seq(Session) /\ Len(waiting') = Len(waiting) + 1
          /\ \A i \in 1..Len(waiting) : waiting'[i] = waiting[i]
          /\ waiting'[Len(waiting) + 1] = s
      BY <1>5, <3>1, AppendProperties
    <3>3. ASSUME NEW i \in 1..Len(waiting'), NEW j \in 1..Len(waiting'), i < j
          PROVE  waiting'[i] # waiting'[j]
      <4>1. i \in 1..Len(waiting) /\ (j \in 1..Len(waiting) \/ j = Len(waiting) + 1)
        BY <1>5, <3>2, <3>3
      <4> QED
        BY <1>2, <1>5, <3>2, <3>3, <4>1 DEF QueueInv
    <3> QED
      BY <1>5, <2>2, <3>1, <3>2, <3>3, ElemsAppend
  <2> QED
    BY <2>1, <2>2
<1>8. TypeOK'
  <2>1. \A u \in Session : Elems(body'[u]) \subseteq Item \cup {NoItem}
    BY <1>6, BodyElems
  <2>2. \A u \in Session : mode'[u] = "sending" <=> u \in Elems(waiting')
    <3>1. \A u \in Session : mode[u] = "sending" <=> u \in Elems(waiting)
      BY <1>2 DEF TypeOK
    <3>2. ASSUME NEW u \in Session PROVE mode'[u] = "sending" <=> u \in Elems(waiting')
      <4>1. CASE u = s
        BY <1>5, <1>6, <1>7, <4>1
      <4>2. CASE u # s
        BY <1>6, <1>7, <3>1, <4>2
      <4> QED
        BY <4>1, <4>2
    <3> QED
      BY <3>2
  <2>3. \A u \in Session : mode'[u] \notin {"data", "sending"} => body'[u] = <<>>
    BY <1>2, <1>6 DEF TypeOK
  <2> QED
    BY <1>1, <1>2, <1>6, <2>1, <2>2, <2>3 DEF TypeOK
<1>9. BodyInv'
  <2>1. \A u, y : OfMail(u, y)' <=> OfMail(u, y)
    BY <1>1 DEF OfMail
  <2>2. ASSUME NEW u \in Session
        PROVE  /\ mode'[u] = "data" => mails'[u] >= 1
               /\ \A i \in 1..Len(body'[u]) : body'[u][i] = NoItem \/ OfMail(u, body'[u][i])
               /\ mode'[u] = "sending" => OfMail(u, found'[u])
               /\ mode'[u] = "replying" => found'[u] = NoItem \/ OfMail(u, found'[u])
    <3>1. CASE u = s
      BY <1>2, <1>3, <1>6, <3>1 DEF BodyInv
    <3>2. CASE u # s
      BY <1>1, <1>2, <1>6, <3>2 DEF BodyInv
    <3> QED
      BY <3>1, <3>2
  <2>3. \A u \in Session :
               /\ \A i \in 1..Len(body'[u]) : body'[u][i] = NoItem \/ OfMail(u, body[u][i])'
               /\ mode'[u] = "sending" => OfMail(u, found[u])'
               /\ mode'[u] = "replying" => found'[u] = NoItem \/ OfMail(u, found[u])'
    BY <1>1, <2>2 DEF OfMail
  <2> QED
    BY <1>6, <2>2, <2>3 DEF BodyInv
<1>10. QueueInv'
  BY <1>1, <1>2, <1>7 DEF QueueInv
<1>11. PassedInv' /\ AckedInv'
  <2>1. mails'[s] \in 0..MaxMails /\ mails' = mails
    BY <1>1, <1>2 DEF TypeOK
  <2>2. mode'[s] = "replying" => found'[s] = NoItem
    BY <1>6
  <2> QED
    BY <1>1, <1>2, <1>6, <2>1, <2>2, PassedKept
<1> QED
  BY <1>8, <1>9, <1>10, <1>11 DEF MailIInv

\* A connection ends between two mails or within one, and its lines are gone.
LEMMA CloseStep ==
  ASSUME MailIInv, NEW s \in Session, Close(s)
  PROVE  MailIInv'
<1> DEFINE L == Item \cup {NoItem}
<1>1. /\ mode[s] \in {"command", "data"} /\ mode' = [mode EXCEPT ![s] = "closed"]
      /\ body' = [body EXCEPT ![s] = <<>>]
      /\ UNCHANGED <<mails, found, left, waiting, channel, receiver, acked, taken>>
  BY DEF Close
<1>2. TypeOK /\ BodyInv /\ QueueInv /\ PassedInv /\ AckedInv
  BY DEF MailIInv
<1>3. /\ mode' \in [Session -> {"command", "data", "sending", "replying", "closed"}]
      /\ mode'[s] = "closed" /\ body'[s] = <<>>
      /\ \A u \in Session \ {s} : mode'[u] = mode[u] /\ body'[u] = body[u]
      /\ body' \in [Session -> Seq(L)]
  <2>1. body \in [Session -> Seq(L)] /\ mode \in [Session -> {"command", "data", "sending", "replying", "closed"}]
    BY <1>2 DEF BodyInv, TypeOK
  <2>2. <<>> \in Seq(L)
    BY EmptySeq
  <2> HIDE DEF L
  <2> QED
    BY <1>1, <2>1, <2>2
<1>4. TypeOK'
  <2>1. \A u \in Session : Elems(body'[u]) \subseteq Item \cup {NoItem}
    BY <1>3, BodyElems
  <2> QED
    BY <1>1, <1>2, <1>3, <2>1 DEF TypeOK
<1>5. BodyInv'
  <2>1. ASSUME NEW u \in Session
        PROVE  /\ mode'[u] = "data" => mails'[u] >= 1
               /\ \A i \in 1..Len(body'[u]) : body'[u][i] = NoItem \/ OfMail(u, body[u][i])'
               /\ mode'[u] = "sending" => OfMail(u, found[u])'
               /\ mode'[u] = "replying" => found'[u] = NoItem \/ OfMail(u, found[u])'
    <3>1. CASE u = s
      BY <1>3, <3>1
    <3>2. CASE u # s
      BY <1>1, <1>2, <1>3, <3>2 DEF BodyInv, OfMail
    <3> QED
      BY <3>1, <3>2
  <2> QED
    BY <1>1, <1>2, <1>3, <2>1 DEF BodyInv
<1>6. QueueInv'
  BY <1>1, <1>2 DEF QueueInv
<1>7. PassedInv' /\ AckedInv'
  <2>1. mails'[s] \in 0..MaxMails /\ mails' = mails /\ found' = found
    BY <1>1, <1>2 DEF TypeOK
  <2> QED
    BY <1>1, <1>2, <1>3, <2>1, PassedKept
<1> QED
  BY <1>4, <1>5, <1>6, <1>7 DEF MailIInv

\* The first of the queue gets on, and the others move up.
LEMMA QueueMovesUp ==
  ASSUME QueueInv, waiting # <<>>
  PROVE  /\ waiting[1] \in Session /\ Tail(waiting) \in Seq(Session)
         /\ \A i, j \in 1..Len(Tail(waiting)) : i < j => Tail(waiting)[i] # Tail(waiting)[j]
         /\ Elems(Tail(waiting)) = Elems(waiting) \ {waiting[1]}
<1> DEFINE t == Tail(waiting)
           n == Len(waiting)
<1>1. /\ waiting \in Seq(Session) /\ n \in Nat \ {0} /\ waiting[1] \in Session
      /\ t \in Seq(Session) /\ Len(t) = n - 1 /\ \A i \in 1..n - 1 : t[i] = waiting[i + 1]
  BY HeadMoves DEF QueueInv
<1>2. \A i, j \in 1..n : i < j => waiting[i] # waiting[j]
  BY DEF QueueInv
<1>3. Elems(t) = {t[i] : i \in 1..n - 1} /\ Elems(waiting) = {waiting[i] : i \in 1..n}
  BY <1>1, ElemsFacts
<1> HIDE DEF t, n
<1>4. \A i \in 1..n - 1 : i + 1 \in 1..n /\ i + 1 # 1 /\ 1 \in 1..n /\ 1 < i + 1
  BY <1>1
<1>5. \A i, j \in 1..n - 1 : i < j => t[i] # t[j]
  BY <1>1, <1>2, <1>4
<1>6. Elems(t) \subseteq Elems(waiting) \ {waiting[1]}
  BY <1>1, <1>2, <1>3, <1>4
<1>7. Elems(waiting) \ {waiting[1]} \subseteq Elems(t)
  <2>1. ASSUME NEW i \in 1..n, waiting[i] # waiting[1] PROVE waiting[i] \in Elems(t)
    <3>1. i - 1 \in 1..n - 1 /\ (i - 1) + 1 = i
      BY <1>1, <2>1
    <3>2. t[i - 1] = waiting[i]
      BY <1>1, <3>1
    <3> QED
      BY <1>3, <3>1, <3>2
  <2> QED
    BY <1>3, <2>1
<1> QED
  BY <1>1, <1>5, <1>6, <1>7 DEF t

\* The item of the first that waits passes last, and is to be acknowledged.
LEMMA SentStep ==
  ASSUME MailIInv, NEW s \in Session, Sent(s)
  PROVE  MailIInv'
<1> DEFINE x == found[s]
           L == Item \cup {NoItem}
<1>1. /\ waiting # <<>> /\ s = waiting[1] /\ waiting' = Tail(waiting)
      /\ \/ receiver # "gone" /\ Len(channel) < Capacity /\ channel' = Append(channel, x)
         \/ receiver = "gone" /\ channel' = channel
      /\ mode' = [mode EXCEPT ![s] = "replying"]
      /\ body' = [body EXCEPT ![s] = <<>>]
      /\ UNCHANGED <<mails, found, left, receiver, acked, taken>>
  BY DEF Sent, Replying
<1>2. TypeOK /\ BodyInv /\ QueueInv /\ PassedInv /\ AckedInv
  BY DEF MailIInv
<1>3. /\ waiting' \in Seq(Session)
      /\ \A i, j \in 1..Len(waiting') : i < j => waiting'[i] # waiting'[j]
      /\ Elems(waiting') = Elems(waiting) \ {s}
  BY <1>1, <1>2, QueueMovesUp
<1>4. mode[s] = "sending" /\ OfMail(s, x)
  <2>1. 1 \in 1..Len(waiting) /\ Elems(waiting) = {waiting[i] : i \in 1..Len(waiting)}
    BY <1>1, <1>2, EmptySeq, ElemsFacts DEF QueueInv
  <2> QED
    BY <1>1, <1>2, <2>1 DEF TypeOK, BodyInv
<1>5. x \in Item /\ x.from = s /\ x.mail = mails[s] /\ x.from \in Session /\ x.mail \in Nat
  BY <1>4, MailAssumption DEF OfMail, Item
<1>6. /\ mode' \in [Session -> {"command", "data", "sending", "replying", "closed"}]
      /\ mode'[s] = "replying" /\ body'[s] = <<>>
      /\ \A u \in Session \ {s} : mode'[u] = mode[u] /\ body'[u] = body[u]
      /\ body' \in [Session -> Seq(L)]
  <2>1. body \in [Session -> Seq(L)] /\ mode \in [Session -> {"command", "data", "sending", "replying", "closed"}]
    BY <1>2 DEF BodyInv, TypeOK
  <2>2. <<>> \in Seq(L)
    BY EmptySeq
  <2> HIDE DEF L, x
  <2> QED
    BY <1>1, <2>1, <2>2
<1>7. /\ channel' \in Seq(Item) /\ Len(channel') <= Capacity /\ Elems(channel') \subseteq Item
  <2> HIDE DEF x
  <2>1. channel' \in Seq(Item) /\ Len(channel') <= Capacity
    <3>1. channel \in Seq(Item) /\ Len(channel) \in Nat /\ Capacity \in Nat /\ Len(channel) <= Capacity
      BY <1>2, MailAssumption, LenProperties DEF QueueInv, TypeOK
    <3>2. Append(channel, x) \in Seq(Item) /\ Len(Append(channel, x)) = Len(channel) + 1
      <4> HIDE DEF Item
      <4> QED
        BY <1>5, <3>1, AppendProperties
    <3>3. CASE channel' = Append(channel, x) /\ Len(channel) < Capacity
      BY <3>1, <3>2, <3>3
    <3>4. CASE channel' = channel
      BY <3>1, <3>4
    <3> QED
      BY <1>1, <3>3, <3>4
  <2> HIDE DEF Item
  <2> QED
    BY <2>1, ElemsFacts
<1>8. TypeOK'
  <2>1. \A u \in Session : Elems(body'[u]) \subseteq Item \cup {NoItem}
    BY <1>6, BodyElems
  <2>2. \A u \in Session : mode'[u] = "sending" <=> u \in Elems(waiting')
    <3>1. \A u \in Session : mode[u] = "sending" <=> u \in Elems(waiting)
      BY <1>2 DEF TypeOK
    <3> QED
      BY <1>3, <1>6, <3>1
  <2>3. \A u \in Session : mode'[u] \notin {"data", "sending"} => body'[u] = <<>>
    BY <1>2, <1>6 DEF TypeOK
  <2> QED
    BY <1>1, <1>2, <1>6, <1>7, <2>1, <2>2, <2>3 DEF TypeOK
<1>9. BodyInv'
  <2>1. ASSUME NEW u \in Session
        PROVE  /\ mode'[u] = "data" => mails'[u] >= 1
               /\ \A i \in 1..Len(body'[u]) : body'[u][i] = NoItem \/ OfMail(u, body[u][i])'
               /\ mode'[u] = "sending" => OfMail(u, found[u])'
               /\ mode'[u] = "replying" => found'[u] = NoItem \/ OfMail(u, found[u])'
    <3>1. CASE u = s
      <4>1. OfMail(s, found[s])'
        BY <1>1, <1>4 DEF OfMail
      <4> QED
        BY <1>6, <3>1, <4>1
    <3>2. CASE u # s
      <4> HIDE DEF x, L
      <4>1. mode'[u] = mode[u] /\ body'[u] = body[u] /\ mails' = mails /\ found' = found
        BY <1>1, <1>6, <3>2
      <4>2. /\ mode[u] = "data" => mails[u] >= 1
            /\ \A i \in 1..Len(body[u]) : body[u][i] = NoItem \/ OfMail(u, body[u][i])
            /\ mode[u] = "sending" => OfMail(u, found[u])
            /\ mode[u] = "replying" => found[u] = NoItem \/ OfMail(u, found[u])
        BY <1>2 DEF BodyInv
      <4> QED
        BY <4>1, <4>2 DEF OfMail
    <3> QED
      BY <3>1, <3>2
  <2> QED
    BY <1>1, <1>2, <1>6, <2>1 DEF BodyInv
<1>10. QueueInv'
  BY <1>1, <1>2, <1>3, <1>7 DEF QueueInv
<1>11. \A y \in Elems(Passed) : y \in Item /\ y.from \in Session /\ y.mail \in Nat
  <2>1. Elems(Passed) \subseteq Item
    <3>1. taken \in Seq(Item) /\ channel \in Seq(Item)
      BY <1>2 DEF QueueInv
    <3> HIDE DEF Item
    <3> QED
      BY <3>1, ConcatProperties, ElemsFacts DEF Passed
  <2> QED
    BY <2>1, MailAssumption DEF Item
<1>12. ASSUME NEW y \in Elems(Passed)
       PROVE  /\ y.mail <= mails'[y.from]
              /\ mode'[y.from] \in {"data", "sending"} => y.mail < mails'[y.from]
              /\ y \notin acked => Unanswered(y)'
  <2>1. /\ y.mail <= mails[y.from]
        /\ mode[y.from] \in {"data", "sending"} => y.mail < mails[y.from]
        /\ y \notin acked => Unanswered(y)
    BY <1>2 DEF PassedInv
  <2>2. mode'[y.from] = IF y.from = s THEN "replying" ELSE mode[y.from]
    BY <1>6, <1>11
  <2> QED
    BY <1>1, <2>1, <2>2 DEF Unanswered
<1>13. \A u \in Session : (Open(u)' <=> Open(u)) /\ mails'[u] = mails[u]
  <2> HIDE DEF x
  <2> QED
    BY <1>1, <1>4, <1>6 DEF Open
<1>14. \A u \in Session \ {s} :
         mode'[u] = "replying" => mode[u] = "replying" /\ found'[u] = found[u]
  <2> HIDE DEF x
  <2> QED
    BY <1>1, <1>6
<1>15. CASE receiver = "gone" /\ channel' = channel
  <2> HIDE DEF x
  <2>1. Passed' = Passed /\ Elems(Passed)' = Elems(Passed) /\ SessionOrder'
    BY <1>1, <1>2, <1>15 DEF Passed, PassedInv, SessionOrder, Elems
  <2>2. PassedInv'
    BY <1>1, <1>2, <1>12, <1>15, <2>1 DEF PassedInv
  <2>3. AckedInv'
    BY <1>1, <1>2, <1>13, <1>15 DEF AckedInv
  <2> QED
    BY <1>8, <1>9, <1>10, <2>2, <2>3 DEF MailIInv
<1>16. CASE receiver # "gone" /\ channel' = Append(channel, x)
  <2> HIDE DEF x
  <2>1. /\ taken \in Seq(Item) /\ channel \in Seq(Item) /\ Passed \in Seq(Item)
        /\ Passed' = Append(Passed, x)
    <3>1. taken \in Seq(Item) /\ channel \in Seq(Item)
      BY <1>2 DEF QueueInv
    <3> HIDE DEF Item
    <3>2. taken \o channel \in Seq(Item) /\ taken \o Append(channel, x) = Append(taken \o channel, x)
      BY <1>5, <3>1, ConcatProperties, AppendMoves
    <3> QED
      BY <1>1, <1>16, <3>1, <3>2 DEF Passed
  <2>2. /\ Elems(Passed') = Elems(Passed) \cup {x}
        /\ Passed' \in Seq(Item) /\ Len(Passed') = Len(Passed) + 1 /\ Len(Passed) \in Nat
        /\ \A i \in 1..Len(Passed) : Passed'[i] = Passed[i] /\ Passed[i] \in Elems(Passed)
        /\ Passed'[Len(Passed) + 1] = x
        /\ DOMAIN Passed = 1..Len(Passed) /\ DOMAIN Passed' = 1..Len(Passed) + 1
    <3> HIDE DEF Item
    <3>1. Elems(Append(Passed, x)) = Elems(Passed) \cup {x}
      BY <1>5, <2>1, ElemsAppend
    <3>2. Passed' \in Seq(Item) /\ Len(Passed') = Len(Passed) + 1 /\ Len(Passed) \in Nat
          /\ \A i \in 1..Len(Passed) : Passed'[i] = Passed[i]
          /\ Passed'[Len(Passed) + 1] = x
      BY <1>5, <2>1, AppendProperties
    <3>3. DOMAIN Passed = 1..Len(Passed) /\ Elems(Passed) = {Passed[i] : i \in 1..Len(Passed)}
      BY <2>1, ElemsFacts
    <3>4. DOMAIN Passed' = 1..Len(Passed')
      BY <3>2, LenProperties
    <3> QED
      BY <2>1, <3>1, <3>2, <3>3, <3>4
  <2>3. SessionOrder'
    <3>1. SUFFICES ASSUME NEW i \in 1..Len(Passed) + 1, NEW j \in 1..Len(Passed) + 1,
                          i < j, Passed'[i].from = Passed'[j].from
                   PROVE  Passed'[i].mail < Passed'[j].mail
      BY <2>2 DEF SessionOrder, Passed
    <3>2. i \in 1..Len(Passed) /\ Passed'[i] = Passed[i] /\ Passed[i] \in Elems(Passed)
      BY <2>2, <3>1
    <3>3. CASE j \in 1..Len(Passed)
      BY <1>2, <2>2, <3>1, <3>2, <3>3 DEF PassedInv, SessionOrder, Passed
    <3>4. CASE j = Len(Passed) + 1
      <4>1. Passed[i].from = s
        BY <1>5, <2>2, <3>1, <3>2, <3>4
      <4>2. Passed[i].mail < mails[s]
        BY <1>2, <1>4, <3>2, <4>1 DEF PassedInv
      <4> QED
        BY <1>5, <2>2, <3>2, <3>4, <4>2
    <3> QED
      BY <2>2, <3>1, <3>3, <3>4
  <2>4. Elems(Passed)' = Elems(Passed) \cup {x}
    BY <2>2 DEF Elems
  <2>5. PassedInv'
    <3>1. x.mail <= mails'[x.from] /\ mode'[x.from] = "replying"
      BY <1>1, <1>5, <1>6
    <3>2. ASSUME NEW y \in Elems(Passed)'
          PROVE  /\ y.mail <= mails'[y.from]
                 /\ mode'[y.from] \in {"data", "sending"} => y.mail < mails'[y.from]
                 /\ y \notin acked => Unanswered(y)'
      <4>1. CASE y = x
        <5>1. mode'[x.from] \notin {"data", "sending"}
          BY <3>1
        <5>2. Unanswered(y)'
          BY <1>1, <1>5, <1>6, <4>1 DEF Unanswered, x
        <5> QED
          BY <3>1, <4>1, <5>1, <5>2
      <4>2. CASE y \in Elems(Passed)
        BY <1>12, <4>2
      <4> QED
        BY <2>4, <4>1, <4>2
    <3>3. acked' = acked /\ receiver' # "gone"
      BY <1>1, <1>16
    <3> QED
      BY <2>3, <3>2, <3>3 DEF PassedInv
  <2>6. AckedInv'
    <3>1. \A u \in Session :
            (mode'[u] = "replying" /\ found'[u] # NoItem) => found'[u] \in Elems(Passed) \cup {x}
      BY <1>1, <1>2, <1>14, <1>16 DEF AckedInv, x
    <3> QED
      BY <1>1, <1>2, <1>13, <1>16, <2>4, <3>1 DEF AckedInv
  <2> QED
    BY <1>8, <1>9, <1>10, <2>5, <2>6 DEF MailIInv
<1> QED
  BY <1>1, <1>15, <1>16

\* The client gets its 250, and the mail is acknowledged once; or it is gone, and
\* the connection with it.
LEMMA AcknowledgeStep ==
  ASSUME MailIInv, NEW s \in Session, Acknowledge(s)
  PROVE  MailIInv'
<1> DEFINE x == found[s]
<1>1. /\ mode[s] = "replying"
      /\ \/ s \in left /\ mode' = [mode EXCEPT ![s] = "closed"] /\ acked' = acked
         \/ /\ s \notin left /\ mode' = [mode EXCEPT ![s] = "command"]
            /\ acked' = acked \cup ({x} \ {NoItem})
      /\ UNCHANGED <<mails, body, found, left, waiting, channel, receiver, taken>>
  BY DEF Acknowledge
<1>2. TypeOK /\ BodyInv /\ QueueInv /\ PassedInv /\ AckedInv
  BY DEF MailIInv
<1>3. x = NoItem \/ (x \in Item /\ x.from = s /\ x.mail = mails[s])
  BY <1>1, <1>2 DEF BodyInv, OfMail
<1> HIDE DEF x
<1>4. /\ mode \in [Session -> {"command", "data", "sending", "replying", "closed"}]
      /\ mode' \in [Session -> {"command", "data", "sending", "replying", "closed"}]
      /\ mode'[s] \in {"command", "closed"} /\ (s \in left => mode'[s] = "closed")
      /\ \A u \in Session \ {s} : mode'[u] = mode[u]
  BY <1>1, <1>2 DEF TypeOK
<1>5. TypeOK'
  BY <1>1, <1>2, <1>4 DEF TypeOK
<1>6. BodyInv' /\ QueueInv'
  <2>1. \A u, y : OfMail(u, y)' <=> OfMail(u, y)
    BY <1>1 DEF OfMail
  <2>2. ASSUME NEW u \in Session
        PROVE  /\ mode'[u] = "data" => mails'[u] >= 1
               /\ \A i \in 1..Len(body'[u]) : body'[u][i] = NoItem \/ OfMail(u, body[u][i])'
               /\ mode'[u] = "sending" => OfMail(u, found[u])'
               /\ mode'[u] = "replying" => found'[u] = NoItem \/ OfMail(u, found[u])'
    <3>1. mode'[u] \in {"data", "sending", "replying"} => mode'[u] = mode[u]
      BY <1>4
    <3> QED
      BY <1>1, <1>2, <3>1 DEF BodyInv, OfMail
  <2> QED
    BY <1>1, <1>2, <2>2 DEF BodyInv, QueueInv
<1>7. \A y \in Elems(Passed) : y.from \in Session
  <2>1. taken \in Seq(Item) /\ channel \in Seq(Item)
    BY <1>2 DEF QueueInv
  <2>2. Elems(Passed) \subseteq Item
    <3> HIDE DEF Item
    <3> QED
      BY <2>1, ConcatProperties, ElemsFacts DEF Passed
  <2> QED
    BY <2>2 DEF Item
<1>8. Passed' = Passed /\ SessionOrder' /\ Elems(Passed)' = Elems(Passed)
  BY <1>1, <1>2 DEF Passed, PassedInv, SessionOrder, Elems
<1>9. PassedInv'
  <2>1. ASSUME NEW y \in Elems(Passed)
        PROVE  /\ y.mail <= mails'[y.from]
               /\ mode'[y.from] \in {"data", "sending"} => y.mail < mails'[y.from]
    <3>1. mode'[y.from] \in {"data", "sending"} => mode'[y.from] = mode[y.from]
      BY <1>4, <1>7
    <3> QED
      BY <1>1, <1>2, <3>1 DEF PassedInv
  <2>2. ASSUME NEW y \in Elems(Passed) \ acked' PROVE Unanswered(y)'
    <3>1. y \notin acked /\ Unanswered(y) /\ y.from \in Session /\ y # NoItem
      <4>1. y \in Item
        <5>1. taken \in Seq(Item) /\ channel \in Seq(Item)
          BY <1>2 DEF QueueInv
        <5> HIDE DEF Item
        <5> QED
          BY <5>1, ConcatProperties, ElemsFacts DEF Passed
      <4>2. y # NoItem
        BY <4>1 DEF Item, NoItem, Kind
      <4> QED
        BY <1>1, <1>2, <1>7, <4>2 DEF PassedInv
    <3>2. CASE y.from = s
      <4>1. x = y
        BY <3>1, <3>2 DEF Unanswered, x
      <4>2. s \in left
        BY <1>1, <3>1, <4>1
      <4> QED
        BY <1>1, <3>1, <3>2, <4>2 DEF Unanswered
    <3>3. CASE y.from # s
      BY <1>1, <1>4, <3>1, <3>3 DEF Unanswered
    <3> QED
      BY <3>2, <3>3
  <2> QED
    BY <1>1, <1>2, <1>8, <2>1, <2>2 DEF PassedInv
<1>10. \A u \in Session : Open(u)' => Open(u) /\ u # s
  BY <1>1, <1>4 DEF Open
<1>11. \A u \in Session : mode'[u] = "replying" => mode[u] = "replying"
  BY <1>4
<1>12. ASSUME acked' = acked PROVE AckedInv'
  <2>1. \A u \in Session : (Open(u)' => Open(u)) /\ mails'[u] = mails[u] /\ found'[u] = found[u]
    BY <1>1, <1>10
  <2> QED
    BY <1>1, <1>2, <1>8, <1>11, <1>12, <2>1 DEF AckedInv
<1>13. ASSUME s \notin left, x # NoItem, acked' = acked \cup {x} PROVE AckedInv'
  <2>1. x \in Item /\ x.mail = mails[s] /\ Open(s)
    BY <1>1, <1>3, <1>13 DEF Open
  <2>2. receiver # "gone" => x \in Elems(Passed)
    BY <1>1, <1>2, <1>13 DEF AckedInv, x
  <2>3. \A y \in acked : x.mail # y.mail
    BY <1>2, <2>1 DEF AckedInv
  <2>4. \A u \in Session : Open(u)' => mails'[u] # x.mail
    BY <1>1, <1>2, <1>10, <2>1 DEF AckedInv
  <2>5. /\ acked' \subseteq Item
        /\ \A y, z \in acked' : y.mail = z.mail => y = z
    BY <1>2, <1>13, <2>1, <2>3 DEF AckedInv
  <2>6. \A u, v \in Session : (u # v /\ Open(u)' /\ Open(v)') => mails'[u] # mails'[v]
    BY <1>1, <1>2, <1>10 DEF AckedInv
  <2>7. \A y \in acked', u \in Session : Open(u)' => mails'[u] # y.mail
    BY <1>1, <1>2, <1>10, <1>13, <2>4 DEF AckedInv
  <2>8. receiver' # "gone" =>
          /\ acked' \subseteq Elems(Passed)'
          /\ \A u \in Session :
               (mode'[u] = "replying" /\ found'[u] # NoItem) => found'[u] \in Elems(Passed)'
    BY <1>1, <1>2, <1>8, <1>11, <1>13, <2>2 DEF AckedInv
  <2> QED
    BY <2>5, <2>6, <2>7, <2>8 DEF AckedInv
<1>14. acked' = acked \/ (s \notin left /\ x # NoItem /\ acked' = acked \cup {x})
  BY <1>1
<1>15. AckedInv'
  BY <1>12, <1>13, <1>14
<1> QED
  BY <1>5, <1>6, <1>9, <1>15 DEF MailIInv

\* A client that is gone no longer waits for the answer to its mail.
LEMMA LeaveStep ==
  ASSUME MailIInv, NEW s \in Session, Leave(s)
  PROVE  MailIInv'
<1>1. /\ mode[s] \in {"sending", "replying"} /\ left' = left \cup {s}
      /\ UNCHANGED <<mode, mails, body, found, waiting, channel, receiver, acked, taken>>
  BY DEF Leave
<1>2. TypeOK /\ BodyInv /\ QueueInv /\ PassedInv /\ AckedInv
  BY DEF MailIInv
<1>3. TypeOK'
  BY <1>1, <1>2 DEF TypeOK
<1>4. BodyInv' /\ QueueInv'
  BY <1>1, <1>2 DEF BodyInv, OfMail, QueueInv
<1>5. Passed' = Passed /\ SessionOrder' /\ Elems(Passed)' = Elems(Passed)
  BY <1>1, <1>2 DEF Passed, PassedInv, SessionOrder, Elems
<1>6. \A y : Unanswered(y) => Unanswered(y)'
  BY <1>1 DEF Unanswered
<1>7. \A u \in Session : Open(u)' => Open(u)
  BY <1>1 DEF Open
<1>8. PassedInv'
  BY <1>1, <1>2, <1>5, <1>6 DEF PassedInv
<1>9. AckedInv'
  BY <1>1, <1>2, <1>5, <1>7 DEF AckedInv
<1> QED
  BY <1>3, <1>4, <1>8, <1>9 DEF MailIInv

-----------------------------------------------------------------------------
(* The receiving side *)

\* A recv begins or is given up, and nothing moves.
LEMMA WaitStep ==
  ASSUME MailIInv, (\E k \in Waits : Recv(k)) \/ Cancel
  PROVE  MailIInv'
<1>1. /\ receiver # "gone" /\ receiver' \in Waits \cup {"none"}
      /\ UNCHANGED <<session, channel, acked, taken>>
  BY DEF Recv, Cancel, Waits, Kind
<1>2. receiver' # "gone"
  BY <1>1 DEF Waits, Kind
<1>3. UNCHANGED <<mode, mails, body, found, left, waiting, channel, acked, taken>>
  BY <1>1 DEF session
<1>4. TypeOK'
  BY <1>1, <1>3 DEF MailIInv, TypeOK
<1>5. BodyInv' /\ QueueInv'
  BY <1>3 DEF MailIInv, BodyInv, OfMail, QueueInv
<1>6. Passed' = Passed /\ SessionOrder' /\ Elems(Passed)' = Elems(Passed)
  BY <1>3 DEF MailIInv, PassedInv, Passed, SessionOrder, Elems
<1>7. \A y : (Unanswered(y)' <=> Unanswered(y)) /\ (Open(y)' <=> Open(y))
  BY <1>3 DEF Unanswered, Open
<1>8. PassedInv'
  BY <1>1, <1>2, <1>3, <1>6, <1>7 DEF MailIInv, PassedInv
<1>9. AckedInv'
  BY <1>1, <1>2, <1>3, <1>6, <1>7 DEF MailIInv, AckedInv
<1> QED
  BY <1>4, <1>5, <1>8, <1>9 DEF MailIInv

\* The head of the channel is taken, whether it is looked for or not, and keeps
\* its place among what has passed.
LEMMA TakeStep ==
  ASSUME MailIInv, Take
  PROVE  MailIInv'
<1> DEFINE x == channel[1]
<1>1. /\ receiver \in Waits /\ channel # <<>>
      /\ channel' = Tail(channel) /\ taken' = Append(taken, x)
      /\ receiver' \in {"none", receiver}
      /\ UNCHANGED <<mode, mails, body, found, left, waiting, acked>>
  BY DEF Take, session
<1>2. receiver # "gone" /\ receiver' # "gone" /\ receiver' \in Waits \cup {"none"}
  BY <1>1 DEF Waits, Kind
<1>3. taken \in Seq(Item) /\ channel \in Seq(Item) /\ Len(channel) <= Capacity /\ Capacity \in Nat
  BY MailAssumption DEF MailIInv, QueueInv, TypeOK
<1>4. /\ Passed' = Passed /\ x \in Item
      /\ channel' \in Seq(Item) /\ taken' \in Seq(Item)
      /\ Len(channel') <= Capacity /\ Elems(channel') \subseteq Item
  <2> HIDE DEF Item
  <2>1. /\ Append(taken, x) \o Tail(channel) = taken \o channel
        /\ x \in Item /\ Tail(channel) \in Seq(Item)
        /\ Len(Tail(channel)) = Len(channel) - 1 /\ Len(channel) \in Nat \ {0}
    BY <1>1, <1>3, HeadMoves
  <2>2. taken' \in Seq(Item)
    BY <1>1, <1>3, <2>1, AppendProperties
  <2>3. Elems(channel') \subseteq Item
    BY <1>1, <2>1, ElemsFacts
  <2> QED
    <3>1. Passed' = Passed /\ channel' = Tail(channel)
      BY <1>1, <2>1 DEF Passed
    <3>2. Len(channel') <= Capacity
      BY <1>3, <2>1, <3>1
    <3> QED
      BY <2>1, <2>2, <2>3, <3>1, <3>2
<1>5. TypeOK'
  BY <1>1, <1>2, <1>4 DEF MailIInv, TypeOK
<1>6. BodyInv' /\ QueueInv'
  <2>1. BodyInv'
    BY <1>1 DEF MailIInv, BodyInv, OfMail
  <2>2. QueueInv'
    BY <1>1, <1>4 DEF MailIInv, QueueInv
  <2> QED
    BY <2>1, <2>2
<1>8. SessionOrder' /\ Elems(Passed)' = Elems(Passed)
  BY <1>4 DEF MailIInv, PassedInv, SessionOrder, Passed, Elems
<1>9. \A y : (Unanswered(y)' <=> Unanswered(y)) /\ (Open(y)' <=> Open(y))
  BY <1>1 DEF Unanswered, Open
<1>7. PassedInv'
  BY <1>1, <1>2, <1>8, <1>9 DEF MailIInv, PassedInv
<1>10. AckedInv'
  BY <1>1, <1>2, <1>8, <1>9 DEF MailIInv, AckedInv
<1> QED
  BY <1>5, <1>6, <1>7, <1>10 DEF MailIInv

\* The server is dropped with what is in the channel.
LEMMA DropStep ==
  ASSUME MailIInv, DropServer
  PROVE  MailIInv'
<1>1. /\ receiver' = "gone" /\ channel' = <<>>
      /\ UNCHANGED <<mode, mails, body, found, left, waiting, acked, taken>>
  BY DEF DropServer, session
<1>2. taken \in Seq(Item) /\ channel \in Seq(Item) /\ Capacity \in Nat
  BY MailAssumption DEF MailIInv, QueueInv
<1>3. /\ channel' \in Seq(Item) /\ Len(channel') <= Capacity /\ Elems(channel') \subseteq Item
  <2> HIDE DEF Item
  <2>1. channel' \in Seq(Item) /\ Len(channel') = 0
    BY <1>1, EmptySeq
  <2>2. Elems(channel') \subseteq Item
    BY <2>1, ElemsFacts
  <2> QED
    BY <1>2, <2>1, <2>2
<1>4. /\ Passed' = taken /\ Len(taken) \in Nat /\ DOMAIN taken = 1..Len(taken)
      /\ Elems(taken) \subseteq Elems(Passed)
      /\ \A i \in 1..Len(taken) : i \in DOMAIN Passed /\ Passed[i] = taken[i]
  <2> HIDE DEF Item
  <2>1. Passed' = taken
    BY <1>1, <1>2, ConcatEmptySeq DEF Passed
  <2>2. /\ Passed \in Seq(Item) /\ Len(Passed) = Len(taken) + Len(channel)
        /\ \A i \in 1..Len(taken) + Len(channel) :
             Passed[i] = IF i <= Len(taken) THEN taken[i] ELSE channel[i - Len(taken)]
    BY <1>2, ConcatProperties DEF Passed
  <2>3. /\ Len(taken) \in Nat /\ Len(channel) \in Nat
        /\ DOMAIN taken = 1..Len(taken) /\ DOMAIN Passed = 1..Len(Passed)
    BY <1>2, <2>2, LenProperties
  <2>4. \A i \in 1..Len(taken) : i \in DOMAIN Passed /\ Passed[i] = taken[i]
    BY <2>2, <2>3
  <2> QED
    BY <2>1, <2>3, <2>4 DEF Elems
<1>5. TypeOK'
  BY <1>1, <1>3 DEF MailIInv, TypeOK
<1>6. BodyInv' /\ QueueInv'
  BY <1>1, <1>3 DEF MailIInv, BodyInv, OfMail, QueueInv
<1>7. PassedInv'
  <2>1. SessionOrder'
    <3>1. SUFFICES ASSUME NEW i \in 1..Len(taken), NEW j \in 1..Len(taken),
                          i < j, taken[i].from = taken[j].from
                   PROVE  taken[i].mail < taken[j].mail
      BY <1>4 DEF SessionOrder, Passed
    <3> QED
      BY <1>4, <3>1 DEF MailIInv, PassedInv, SessionOrder, Passed
  <2>2. Elems(Passed)' \subseteq Elems(Passed)
    BY <1>4 DEF Elems
  <2>3. \A y : Unanswered(y)' <=> Unanswered(y)
    BY <1>1 DEF Unanswered
  <2> QED
    BY <1>1, <2>1, <2>2, <2>3 DEF MailIInv, PassedInv
<1>8. AckedInv'
  <2>1. \A y : Open(y)' <=> Open(y)
    BY <1>1 DEF Open
  <2> QED
    BY <1>1, <2>1 DEF MailIInv, AckedInv
<1> QED
  BY <1>5, <1>6, <1>7, <1>8 DEF MailIInv

-----------------------------------------------------------------------------
(* The invariant and what follows from it *)

\* Nobody is connected and nothing has passed at the start.
LEMMA MailInit ==
  Init => MailIInv
<1> SUFFICES ASSUME Init
             PROVE  MailIInv
  OBVIOUS
<1> DEFINE L == Item \cup {NoItem}
<1>1. /\ waiting \in Seq(Session) /\ channel \in Seq(Item) /\ taken \in Seq(Item)
      /\ Len(waiting) = 0 /\ Len(channel) = 0 /\ body \in [Session -> Seq(L)]
      /\ Passed = <<>>
  <2>1. <<>> \in Seq(L) /\ <<>> \in Seq(Item) /\ <<>> \in Seq(Session) /\ Len(<<>>) = 0
    BY EmptySeq
  <2>2. <<>> \o <<>> = <<>>
    BY <2>1, ConcatEmptySeq
  <2> HIDE DEF L, Item
  <2> QED
    BY <2>1, <2>2 DEF Init, Passed
<1>2. Elems(<<>>) = {}
  BY DEF Elems
<1>3. TypeOK
  <2>1. \A s \in Session : Elems(body[s]) \subseteq Item \cup {NoItem}
    BY <1>2 DEF Init
  <2> QED
    BY <1>1, <1>2, <2>1, MailAssumption DEF Init, TypeOK
<1>4. BodyInv
  BY <1>1 DEF Init, BodyInv
<1>5. QueueInv
  BY <1>1 DEF Init, QueueInv
<1>6. PassedInv
  BY <1>1, <1>2 DEF Init, PassedInv, SessionOrder, Passed
<1>7. AckedInv
  BY DEF Init, AckedInv, Open
<1> QED
  BY <1>3, <1>4, <1>5, <1>6, <1>7 DEF MailIInv

\* The invariant holds in every reachable state, however sessions and receiver
\* interleave.
THEOREM MailInvariance == Spec => []MailIInv
<1>1. MailIInv /\ [Next]_vars => MailIInv'
  <2>1. MailIInv /\ UNCHANGED vars => MailIInv'
    <3> SUFFICES ASSUME MailIInv, UNCHANGED vars
                 PROVE  MailIInv'
      OBVIOUS
    <3>1. TypeOK'
      BY DEF vars, MailIInv, TypeOK
    <3>2. BodyInv' /\ QueueInv'
      BY DEF vars, MailIInv, BodyInv, OfMail, QueueInv
    <3>3. /\ Elems(Passed)' = Elems(Passed) /\ (SessionOrder' <=> SessionOrder)
          /\ UNCHANGED <<acked, mails, mode, found, left, receiver, channel>>
      BY DEF vars, Passed, Elems, SessionOrder
    <3>4. \A y : (Unanswered(y)' <=> Unanswered(y)) /\ (Open(y)' <=> Open(y))
      BY <3>3 DEF Unanswered, Open
    <3>5. PassedInv'
      BY <3>3, <3>4 DEF MailIInv, PassedInv
    <3>6. AckedInv'
      BY <3>3, <3>4 DEF MailIInv, AckedInv
    <3> QED
      BY <3>1, <3>2, <3>5, <3>6 DEF MailIInv
  <2> QED
    BY <2>1, DataStep, BodyLineStep, DotStep, SentStep, AcknowledgeStep, LeaveStep, CloseStep,
       WaitStep, TakeStep, DropStep
       DEF Next, Smtp
<1> QED
  BY MailInit, <1>1, PTL DEF Spec

\* No acknowledged mail is lost, acknowledged twice or out of order; the item of
\* a mail may come out twice only if its client did not wait for the first 250.
THEOREM MailHolds == Spec => []MailInv
<1>1. MailIInv => MailInv
  <2> SUFFICES ASSUME MailIInv
               PROVE  MailInv
    OBVIOUS
  <2>1. /\ Passed \in Seq(Item) /\ DOMAIN Passed = 1..Len(Passed)
    <3>1. taken \in Seq(Item) /\ channel \in Seq(Item)
      BY DEF MailIInv, QueueInv
    <3> HIDE DEF Item
    <3>2. Passed \in Seq(Item)
      BY <3>1, ConcatProperties DEF Passed
    <3> QED
      BY <3>2, LenProperties
  <2>2. \A i, j \in 1..Len(Passed) : i < j => Passed[i] # Passed[j]
    <3>1. SUFFICES ASSUME NEW i \in 1..Len(Passed), NEW j \in 1..Len(Passed), i < j,
                          Passed[i] = Passed[j]
                   PROVE  FALSE
      OBVIOUS
    <3>2. Passed[i].mail < Passed[j].mail
      BY <2>1, <3>1 DEF MailIInv, PassedInv, SessionOrder, Passed
    <3>3. Passed[i].mail \in Nat
      <4>1. Passed[i] \in Item
        <5> HIDE DEF Item
        <5> QED
          BY <2>1, ElementOfSeq
      <4> QED
        BY <4>1, MailAssumption DEF Item
    <3> QED
      BY <3>1, <3>2, <3>3
  <2>3. Cardinality(Elems(Passed)) = Len(Passed)
    <3> HIDE DEF Item
    <3> QED
      BY <2>1, <2>2, OncePerPlace
  <2>4. AckedIsDelivered
    BY <2>3 DEF AckedIsDelivered, MailIInv, PassedInv, AckedInv, Passed
  <2> QED
    BY <2>4 DEF MailIInv, PassedInv, MailInv
<1> QED
  BY MailInvariance, <1>1, PTL

-----------------------------------------------------------------------------
(* The authentication flow *)

\* The place in the flow, the connection and the session, of which a call needs
\* a connection where the flow logs on.
PhaseTyped ==
  /\ flow \in Flows
  /\ pc \in {"start", "logon", "tokens", "failed"} \cup Auth!Calls \cup Auth!Waits
  /\ conn \in {"none", "open", "on", "lost"}
  /\ error \in {"none", "call", "lost", "no session", "stale key", "stale code"}
  /\ guard \in {"none", "wanted", "mailed", "passed"}
  /\ (pc \in Auth!Calls \cup Auth!Waits /\ flow # "direct") => conn \in {"on", "lost"}

KeysTyped == key \in 0..2 /\ steamKey \in 1..2
CodesTyped == guard_code \in {"none", "old", "new"} /\ inbox \in Seq({"old", "new"})
TimesTyped == slept \in 0..Interval /\ silent \in 0..Silence

FlowTyped == PhaseTyped /\ KeysTyped /\ CodesTyped /\ TimesTyped

\* Steam confirms no session that waits for its code, and there is neither a
\* code to wait for nor a session to confirm before the flow has begun one.
Confirmed ==
  /\ confirmed => guard \in {"none", "passed"}
  /\ (confirmed \/ guard # "none") => pc \notin {"start", "logon", "rsa", "begin"}
  /\ pc = "tokens" => confirmed

FlowIInv ==
  /\ FlowTyped
  /\ heartbeats \in BOOLEAN /\ confirmed \in BOOLEAN
  /\ Confirmed

\* A flow starts with nothing of Steam's in hand.
LEMMA FlowStarts == Auth!Init => FlowIInv
<1> SUFFICES ASSUME Auth!Init
             PROVE  FlowIInv
  OBVIOUS
<1>1. FlowTyped
  BY FlowAssumption DEF Auth!AuthAssumption, Auth!Init, FlowTyped, PhaseTyped, KeysTyped, CodesTyped,
    TimesTyped, Auth!Calls, Auth!Waits
<1>2. heartbeats \in BOOLEAN /\ confirmed \in BOOLEAN
  BY Zenon DEF Auth!Init
<1>3. Confirmed
  BY DEF Auth!Init, Confirmed
<1> QED
  BY <1>1, <1>2, <1>3 DEF FlowIInv

\* The flags stay flags: a step leaves them alone, or Steam confirms.
LEMMA FlagsKept ==
  ASSUME heartbeats \in BOOLEAN, confirmed \in BOOLEAN, [Auth!Next]_(Auth!vars)
  PROVE  heartbeats' \in BOOLEAN /\ confirmed' \in BOOLEAN
<1> USE DEF Auth!caller, Auth!steam
<1>1. CASE Auth!Caller
  BY <1>1, Zenon DEF Auth!Caller, Auth!Connect, Auth!LogonAnonymous, Auth!GetRsaKey, Auth!BeginSession,
    Auth!BeginRefused, Auth!RecvCode, Auth!SubmitGuard, Auth!CodeRefused, Auth!Poll, Auth!WakeUp, Auth!NoSession,
    Auth!ConnectionLost, Auth!Fail
<1>2. CASE \/ Auth!CallFails \/ Auth!Tick \/ Auth!HangUp \/ Auth!MailCode \/ Auth!Confirm
           \/ Auth!RotateKey \/ UNCHANGED Auth!vars
  BY <1>2, Zenon DEF Auth!CallFails, Auth!Fail, Auth!Tick, Auth!HangUp, Auth!MailCode, Auth!Confirm,
    Auth!RotateKey, Auth!vars
<1> QED
  BY <1>1, <1>2, Zenon DEF Auth!Next

\* auth.rs: every call, answer and failure keeps the types, whatever Steam does.
LEMMA TypesKept ==
  ASSUME FlowTyped, [Auth!Next]_(Auth!vars)
  PROVE  FlowTyped'
<1> USE DEF FlowTyped, Auth!caller, Auth!steam, Auth!Fail, Auth!Call
<1>0. Interval \in Nat \ {0} /\ Silence \in Nat \ {0}
  BY FlowAssumption DEF Auth!AuthAssumption
<1>1. KeysTyped'
  <2> USE DEF KeysTyped
  <2>1. CASE Auth!Caller
    <3>1. (key' = key \/ key' = steamKey) /\ steamKey' = steamKey
      BY <2>1, Zenon DEF Auth!Caller, Auth!Connect, Auth!LogonAnonymous, Auth!GetRsaKey,
        Auth!BeginSession, Auth!BeginRefused, Auth!RecvCode, Auth!SubmitGuard, Auth!CodeRefused, Auth!Poll,
        Auth!WakeUp, Auth!NoSession, Auth!ConnectionLost
    <3> QED
      BY <3>1
  <2>2. CASE ~ Auth!Caller
    BY <2>2 DEF Auth!Next, Auth!CallFails, Auth!Tick, Auth!HangUp, Auth!MailCode, Auth!Confirm,
      Auth!RotateKey, Auth!vars
  <2> QED
    BY <2>1, <2>2
<1>2. CodesTyped'
  <2> USE DEF CodesTyped
  <2>1. CASE Auth!RecvCode
    BY <2>1 DEF Auth!RecvCode
  <2>2. CASE Auth!MailCode
    BY <2>2 DEF Auth!MailCode
  <2>3. CASE ~ Auth!RecvCode /\ ~ Auth!MailCode
    <3>1. guard_code' = guard_code /\ inbox' = inbox
      BY <2>3 DEF Auth!Next, Auth!Caller, Auth!Connect, Auth!LogonAnonymous, Auth!GetRsaKey,
        Auth!BeginSession, Auth!BeginRefused, Auth!SubmitGuard, Auth!CodeRefused, Auth!Poll, Auth!WakeUp,
        Auth!NoSession, Auth!ConnectionLost, Auth!CallFails, Auth!Tick, Auth!HangUp, Auth!Confirm,
        Auth!RotateKey, Auth!vars
    <3> QED
      BY <3>1
  <2> QED
    BY <2>1, <2>2, <2>3
<1>3. TimesTyped'
  <2> USE <1>0 DEF TimesTyped
  <2>1. CASE Auth!Caller
    <3>1. (slept' = slept \/ slept' = 0) /\ (silent' = silent \/ silent' = 0)
      BY <2>1, Zenon DEF Auth!Caller, Auth!Connect, Auth!LogonAnonymous, Auth!GetRsaKey,
        Auth!BeginSession, Auth!BeginRefused, Auth!RecvCode, Auth!SubmitGuard, Auth!CodeRefused, Auth!Poll,
        Auth!WakeUp, Auth!NoSession, Auth!ConnectionLost
    <3> QED
      BY <3>1
  <2>2. CASE Auth!Tick
    <3>1. slept' \in 0..Interval
      BY <2>2 DEF Auth!Tick
    <3>2. silent' \in 0..Silence
      BY <2>2 DEF Auth!Tick
    <3> QED
      BY <3>1, <3>2
  <2>3. CASE ~ Auth!Caller /\ ~ Auth!Tick
    BY <2>3 DEF Auth!Next, Auth!CallFails, Auth!HangUp, Auth!MailCode, Auth!Confirm,
      Auth!RotateKey, Auth!vars
  <2> QED
    BY <2>1, <2>2, <2>3
<1>4. PhaseTyped'
  <2> USE DEF PhaseTyped, Auth!Calls, Auth!Waits
  <2>1. CASE Auth!Connect \/ Auth!LogonAnonymous \/ Auth!GetRsaKey
    BY <2>1 DEF Auth!Connect, Auth!LogonAnonymous, Auth!GetRsaKey
  <2>2. CASE Auth!BeginSession
    BY <2>2 DEF Auth!BeginSession
  <2>3. CASE \/ Auth!BeginRefused \/ Auth!CodeRefused \/ Auth!NoSession \/ Auth!ConnectionLost
             \/ Auth!CallFails
    BY <2>3 DEF Auth!BeginRefused, Auth!CodeRefused, Auth!NoSession, Auth!ConnectionLost, Auth!CallFails
  <2>4. CASE Auth!RecvCode \/ Auth!SubmitGuard
    BY <2>4 DEF Auth!RecvCode, Auth!SubmitGuard
  <2>5. CASE Auth!Poll \/ Auth!WakeUp
    BY <2>5 DEF Auth!Poll, Auth!WakeUp
  <2>6. CASE Auth!Tick \/ Auth!HangUp \/ Auth!RotateKey
    BY <2>6 DEF Auth!Tick, Auth!HangUp, Auth!RotateKey
  <2>7. CASE Auth!MailCode
    BY <2>7 DEF Auth!MailCode
  <2>8. CASE Auth!Confirm
    BY <2>8 DEF Auth!Confirm
  <2>9. CASE UNCHANGED Auth!vars
    BY <2>9 DEF Auth!vars
  <2> QED
    BY <2>1, <2>2, <2>3, <2>4, <2>5, <2>6, <2>7, <2>8, <2>9 DEF Auth!Next, Auth!Caller
<1> QED
  BY <1>1, <1>2, <1>3, <1>4

\* auth.rs:243: a poll returns tokens only once Steam has confirmed, and no step
\* of the flow goes back behind that.
LEMMA ConfirmedKept ==
  ASSUME Confirmed, [Auth!Next]_(Auth!vars)
  PROVE  Confirmed'
<1> USE DEF Confirmed, Auth!Calls, Auth!Waits, Auth!caller, Auth!steam
<1>1. CASE Auth!Connect \/ Auth!LogonAnonymous \/ Auth!GetRsaKey
  BY <1>1 DEF Auth!Connect, Auth!LogonAnonymous, Auth!GetRsaKey, Auth!Call
<1>2. CASE Auth!BeginSession
  BY <1>2 DEF Auth!BeginSession, Auth!Call
<1>3. CASE \/ Auth!BeginRefused \/ Auth!CodeRefused \/ Auth!NoSession \/ Auth!ConnectionLost
           \/ Auth!CallFails
  <2>1. pc' = "failed" /\ guard' = guard /\ confirmed' = confirmed
    BY <1>3, Zenon DEF Auth!BeginRefused, Auth!CodeRefused, Auth!NoSession, Auth!ConnectionLost,
      Auth!CallFails, Auth!Fail
  <2> QED
    BY <2>1
<1>4. CASE Auth!RecvCode
  BY <1>4 DEF Auth!RecvCode
<1>5. CASE Auth!SubmitGuard
  BY <1>5 DEF Auth!SubmitGuard, Auth!CodeRefused, Auth!Call
<1>6. CASE Auth!Poll \/ Auth!WakeUp
  BY <1>6 DEF Auth!Poll, Auth!WakeUp, Auth!Call
<1>7. CASE Auth!Tick \/ Auth!HangUp \/ Auth!RotateKey \/ Auth!MailCode
  BY <1>7 DEF Auth!Tick, Auth!HangUp, Auth!RotateKey, Auth!MailCode
<1>8. CASE Auth!Confirm
  <2>1. guard \in {"none", "passed"} /\ pc' = pc /\ guard' = guard
    BY <1>8 DEF Auth!Confirm
  <2>2. guard = "none" => pc \in {"poll", "sleep"}
    BY <1>8 DEF Auth!Confirm
  <2> QED
    BY <2>1, <2>2, <1>8 DEF Auth!Confirm
<1>9. CASE UNCHANGED Auth!vars
  BY <1>9 DEF Auth!vars
<1> QED
  BY <1>1, <1>2, <1>3, <1>4, <1>5, <1>6, <1>7, <1>8, <1>9 DEF Auth!Next, Auth!Caller

\* login.rs, auth.rs: the invariant that makes the tokens Steam's to give.
THEOREM FlowInvariance == Auth!Spec => []FlowIInv
<1>1. FlowIInv /\ [Auth!Next]_(Auth!vars) => FlowIInv'
  BY FlagsKept, TypesKept, ConfirmedKept, Zenon DEF FlowIInv
<1> QED
  BY FlowStarts, <1>1, PTL DEF Auth!Spec

\* auth.rs: tokens are returned only from a session that Steam has confirmed,
\* after the guard code where it wanted one, for any intervals, any codes in
\* the mailbox and every way to begin.
THEOREM FlowHolds == Auth!Spec => []AuthInv
<1>1. FlowIInv => AuthInv
  <2> SUFFICES ASSUME FlowIInv
               PROVE  AuthInv
    OBVIOUS
  <2>1. Auth!TypeOK
    BY Zenon DEF FlowIInv, FlowTyped, PhaseTyped, KeysTyped, CodesTyped, TimesTyped, Auth!TypeOK
  <2>2. Auth!TokensAreConfirmed
    BY Zenon DEF FlowIInv, Confirmed, Auth!TokensAreConfirmed
  <2> QED
    BY <2>1, <2>2 DEF AuthInv, Auth!AuthInv
<1> QED
  BY FlowInvariance, <1>1, PTL

-----------------------------------------------------------------------------
(* Induction over a prefix of the numbers *)

\* A set of numbers up to n that is not empty has a least one.
LEMMA LeastNumber ==
  ASSUME NEW n \in Nat, NEW T \in SUBSET (0..n), T # {}
  PROVE  \E x \in T : \A y \in T : x <= y
<1> DEFINE N == 0..n
           W == {0..x : x \in T}
<1>1. FiniteSubsetsOf(N) = SUBSET N
  <2>1. IsFiniteSet(N)
    BY FS_Interval
  <2> QED
    BY <2>1, FS_FiniteSubsetsOfFinite
<1>2. W # {} /\ W \subseteq SUBSET N
  <2>1. \A x \in T : 0..x \subseteq N
    OBVIOUS
  <2> QED
    BY <2>1
<1>3. \E w \in W : \A v \in W : <<v, w>> \notin StrictSubsetOrdering(N)
  <2>1. IsWellFoundedOn(StrictSubsetOrdering(N), SUBSET N)
    BY <1>1, FS_StrictSubsetOrderingWellFounded
  <2> HIDE DEF W, N
  <2> QED
    BY <1>2, <2>1, WFMin
<1>4. PICK x \in T : \A y \in T : <<0..y, 0..x>> \notin StrictSubsetOrdering(N)
  BY <1>3
<1>5. ASSUME NEW y \in T PROVE x <= y
  <2>1. SUFFICES ASSUME y < x PROVE FALSE
    OBVIOUS
  <2>2. 0..y \subseteq 0..x /\ 0..y # 0..x
    BY <2>1
  <2>3. <<0..y, 0..x>> \in (SUBSET N) \X (SUBSET N)
    OBVIOUS
  <2>4. <<0..y, 0..x>> \in StrictSubsetOrdering(N)
    BY <2>2, <2>3 DEF StrictSubsetOrdering
  <2> QED
    BY <1>4, <2>4
<1> QED
  BY <1>5

\* A set that holds 0, and with each number below n the next, holds them all.
LEMMA PrefixInduction ==
  ASSUME NEW n \in Nat, NEW T \in SUBSET (0..n), 0 \in T,
         \A m \in T : m < n => m + 1 \in T
  PROVE  T = 0..n
<1> DEFINE Rest == (0..n) \ T
<1>1. SUFFICES ASSUME Rest # {} PROVE FALSE
  OBVIOUS
<1>2. PICK x \in Rest : \A y \in Rest : x <= y
  <2> HIDE DEF Rest
  <2>1. Rest \in SUBSET (0..n)
    BY DEF Rest
  <2> QED
    BY <1>1, <2>1, LeastNumber
<1>3. x \in 1..n /\ x - 1 \in 0..n
  OBVIOUS
<1>4. x - 1 \in T
  BY <1>2, <1>3
<1> QED
  BY <1>2, <1>3, <1>4

-----------------------------------------------------------------------------
(* Flattening a sequence of texts *)

Then(s, u) == s \o u
None == <<>>

\* F flattens the texts in ts from the front.
Flattens(F, ts, n) ==
  /\ F[0] = None
  /\ \A i \in 1..n : F[i] = Then(F[i - 1], ts[i])

\* What is joined is a text of both.
LEMMA ThenIs ==
  ASSUME NEW X, NEW s \in Seq(X), NEW u \in Seq(X)
  PROVE  /\ Then(s, u) \in Seq(X) /\ None \in Seq(X) /\ Then(None, u) = u
         /\ Len(s) \in Nat /\ Len(u) \in Nat /\ Len(Then(s, u)) \in Nat
         /\ Len(Then(s, u)) = Len(s) + Len(u) /\ Len(s) <= Len(Then(s, u))
         /\ \A j \in 1..Len(s) : Then(s, u)[j] = s[j]
         /\ \A j \in 1..Len(u) : Then(s, u)[Len(s) + j] = u[j]
<1>1. Len(s) \in Nat /\ Len(u) \in Nat /\ Len(s \o u) = Len(s) + Len(u) /\ s \o u \in Seq(X)
  BY LenProperties, ConcatProperties
<1>2. \A j \in 1..Len(s) : (s \o u)[j] = s[j]
  BY ConcatProperties
<1>3. \A j \in 1..Len(u) : (s \o u)[Len(s) + j] = u[j]
  BY ConcatProperties
<1>4. <<>> \o u = u /\ <<>> \in Seq(X)
  BY ConcatEmptySeq, EmptySeq
<1> QED
  BY <1>1, <1>2, <1>3, <1>4 DEF Then, None

\* The second behind the first.
LEMMA ThenAt ==
  ASSUME NEW X, NEW s \in Seq(X), NEW u \in Seq(X), NEW j \in 1..Len(u)
  PROVE  Then(s, u)[Len(s) + j] = u[j]
<1>1. (s \o u)[Len(s) + j] = u[j]
  BY ConcatProperties
<1> QED
  BY <1>1 DEF Then

\* Three in a row.
LEMMA ThenThrice ==
  ASSUME NEW X, NEW s \in Seq(X), NEW u \in Seq(X), NEW w \in Seq(X)
  PROVE  Then(s, Then(u, w)) = Then(Then(s, u), w) /\ Then(s, None) = s
<1>1. (s \o u) \o w = s \o (u \o w)
  BY ConcatAssociative
<1>2. s \o <<>> = s
  BY ConcatEmptySeq
<1> QED
  BY <1>1, <1>2 DEF Then, None

\* There is such a function.
LEMMA FlattenExists ==
  ASSUME NEW ts, NEW n \in Nat
  PROVE  \E F : F = [i \in 0..n |-> F[i]] /\ Flattens(F, ts, n)
<1> DEFINE T == {m \in 0..n : \E F : F = [i \in 0..n |-> F[i]] /\ Flattens(F, ts, m)}
<1>1. 0 \in T
  <2> DEFINE F == [i \in 0..n |-> None]
  <2>1. F = [i \in 0..n |-> F[i]] /\ F[0] = None /\ \A i \in 1..0 : F[i] = Then(F[i - 1], ts[i])
    OBVIOUS
  <2> HIDE DEF F
  <2>2. 0 \in 0..n
    OBVIOUS
  <2> QED
    BY <2>1, <2>2 DEF Flattens
<1>2. ASSUME NEW m \in T, m < n
      PROVE  m + 1 \in T
  <2>1. PICK F : F = [i \in 0..n |-> F[i]] /\ Flattens(F, ts, m)
    OBVIOUS
  <2>2. m \in Nat /\ m + 1 \in 0..n /\ m + 1 # 0 /\ m + 1 - 1 = m
    BY <1>2
  <2> DEFINE G == [i \in 0..n |-> IF i = m + 1 THEN Then(F[m], ts[m + 1]) ELSE F[i]]
  <2>3. G = [i \in 0..n |-> G[i]]
    OBVIOUS
  <2>4. /\ G[m + 1] = Then(F[m], ts[m + 1])
        /\ \A i \in 0..m : G[i] = F[i]
    BY <2>2
  <2>5. /\ \A i \in 1..m + 1 : i = m + 1 \/ i \in 1..m
        /\ \A i \in 1..m : i \in 0..m /\ i - 1 \in 0..m
        /\ 0 \in 0..m /\ m \in 0..m
    BY <2>2
  <2> HIDE DEF G
  <2>6. ASSUME NEW i \in 1..m + 1
        PROVE  G[i] = Then(G[i - 1], ts[i])
    <3>1. CASE i = m + 1
      BY <2>2, <2>4, <2>5, <3>1
    <3>2. CASE i \in 1..m
      BY <2>1, <2>4, <2>5, <3>2 DEF Flattens
    <3> QED
      BY <2>5, <3>1, <3>2
  <2>7. Flattens(G, ts, m + 1)
    BY <2>1, <2>4, <2>5, <2>6 DEF Flattens
  <2> QED
    BY <2>2, <2>3, <2>7
<1>3. T = 0..n
  <2> HIDE DEF T
  <2>1. T \in SUBSET (0..n)
    BY DEF T
  <2> QED
    BY <1>1, <1>2, <2>1, PrefixInduction
<1> QED
  BY <1>3

\* FlattenSeq is the last of its values.
LEMMA FlattenIs ==
  ASSUME NEW X, NEW ts \in Seq(Seq(X)), NEW n \in Nat, n = Len(ts)
  PROVE  \E F : Flattens(F, ts, n) /\ F[n] = FlattenSeq(ts)
<1> DEFINE Body(f, i) == IF i = 1 THEN ts[i] ELSE Then(f[i - 1], ts[i])
           flatten == CHOOSE f : f = [i \in 1..n |-> Body(f, i)]
           F == [i \in 0..n |-> IF i = 0 THEN None ELSE flatten[i]]
<1>1. CASE n = 0
  <2>1. FlattenSeq(ts) = ts /\ ts = <<>>
    BY <1>1, EmptySeq DEF FlattenSeq
  <2>2. PICK G : G = [i \in 0..n |-> G[i]] /\ Flattens(G, ts, n)
    BY FlattenExists
  <2> QED
    BY <1>1, <2>1, <2>2 DEF Flattens
<1>2. CASE n # 0
  <2>1. FlattenSeq(ts) = flatten[n]
    BY <1>2 DEF FlattenSeq, Then
  <2>2. PICK G : G = [i \in 0..n |-> G[i]] /\ Flattens(G, ts, n)
    BY FlattenExists
  <2> DEFINE g == [i \in 1..n |-> G[i]]
  <2>3. ASSUME NEW i \in 1..n
        PROVE  g[i] = Body(g, i)
    <3>1. CASE i = 1
      <4>1. ts[1] \in Seq(X) /\ 1 \in 1..n /\ 1 - 1 = 0
        BY <3>1, ElementOfSeq
      <4>2. G[1] = Then(None, ts[1])
        BY <2>2, <4>1 DEF Flattens
      <4>3. G[1] = ts[1]
        BY <4>1, <4>2, ThenIs
      <4> QED
        BY <3>1, <4>3
    <3>2. CASE i # 1
      <4>1. i - 1 \in 1..n
        BY <3>2
      <4>2. g[i] = G[i] /\ g[i - 1] = G[i - 1]
        BY <4>1
      <4> QED
        BY <2>2, <3>2, <4>2 DEF Flattens
    <3> QED
      BY <3>1, <3>2
  <2>4. g = [i \in 1..n |-> Body(g, i)]
    <3> HIDE DEF Body
    <3> QED
      BY <2>3
  <2>5. flatten = [i \in 1..n |-> Body(flatten, i)]
    <3> HIDE DEF g, Body
    <3> QED
      BY <2>4
  <2> HIDE DEF flatten, g
  <2>6. ASSUME NEW i \in 1..n
        PROVE  F[i] = Then(F[i - 1], ts[i])
    <3>1. flatten[i] = Body(flatten, i)
      BY <2>5
    <3>2. CASE i = 1
      <4>1. ts[1] \in Seq(X)
        BY <3>2, ElementOfSeq
      <4> QED
        BY <3>1, <3>2, <4>1, ThenIs
    <3>3. CASE i # 1
      <4>1. F[i] = flatten[i] /\ F[i - 1] = flatten[i - 1]
        BY <3>3
      <4> QED
        BY <3>1, <3>3, <4>1
    <3> QED
      BY <3>2, <3>3
  <2>7. F[0] = None /\ F[n] = flatten[n]
    BY <1>2
  <2>8. Flattens(F, ts, n)
    <3> HIDE DEF F
    <3> QED
      BY <2>6, <2>7 DEF Flattens
  <2> HIDE DEF F
  <2> QED
    BY <2>1, <2>7, <2>8
<1> QED
  BY <1>1, <1>2

\* F's values are texts, and each is a prefix of the last.
Fronts(F, ts, n, X) ==
  /\ \A i \in 0..n : F[i] \in Seq(X) /\ Len(F[i]) \in Nat
  /\ \A i \in 1..n : Len(F[i]) = Len(F[i - 1]) + Len(ts[i])
  /\ \A i \in 0..n : /\ Len(F[i]) <= Len(F[n])
                     /\ \A j \in 1..Len(F[i]) : F[n][j] = F[i][j]

\* So they are if it flattens texts.
LEMMA FlattensPrefix ==
  ASSUME NEW X, NEW ts \in Seq(Seq(X)), NEW n \in Nat, n = Len(ts), NEW F, Flattens(F, ts, n)
  PROVE  Fronts(F, ts, n, X)
<1> DEFINE T == {m \in 0..n : F[m] \in Seq(X)}
<1>1. 0 \in T
  <2>1. F[0] \in Seq(X) /\ 0 \in 0..n
    BY EmptySeq DEF Flattens, None
  <2> QED
    BY ONLY <2>1
<1>2. ASSUME NEW m \in T, m < n
      PROVE  m + 1 \in T
  <2>1. m + 1 \in 1..n /\ m + 1 - 1 = m /\ m + 1 \in 0..n
    BY <1>2
  <2>2. F[m + 1] = Then(F[m], ts[m + 1]) /\ ts[m + 1] \in Seq(X)
    BY <2>1, ElementOfSeq DEF Flattens
  <2>3. F[m] \in Seq(X)
    OBVIOUS
  <2>4. F[m + 1] \in Seq(X)
    <3>1. PICK s, u : s = F[m] /\ u = ts[m + 1]
      OBVIOUS
    <3>2. s \in Seq(X) /\ u \in Seq(X)
      BY <2>2, <2>3, <3>1
    <3>3. Then(s, u) \in Seq(X)
      BY ONLY <3>2, ThenIs
    <3> QED
      BY <2>2, <3>1, <3>3
  <2> QED
    BY <2>1, <2>4
<1>3. T = 0..n
  <2> HIDE DEF T
  <2>1. T \in SUBSET (0..n)
    BY DEF T
  <2> QED
    BY <1>1, <1>2, <2>1, PrefixInduction
<1>4. \A i \in 0..n : F[i] \in Seq(X) /\ Len(F[i]) \in Nat
  BY <1>3, LenProperties
<1>5. ASSUME NEW i \in 1..n
      PROVE  /\ Len(F[i]) = Len(F[i - 1]) + Len(ts[i]) /\ Len(ts[i]) \in Nat
             /\ \A j \in 1..Len(F[i - 1]) : F[i][j] = F[i - 1][j]
  <2>1. F[i] = Then(F[i - 1], ts[i]) /\ ts[i] \in Seq(X) /\ i - 1 \in 0..n
    BY ElementOfSeq DEF Flattens
  <2>2. F[i - 1] \in Seq(X) /\ Len(F[i - 1]) \in Nat
    BY <1>4, <2>1
  <2>3. Len(ts[i]) \in Nat
    BY <2>1, LenProperties
  <2>4. /\ Len(Then(F[i - 1], ts[i])) = Len(F[i - 1]) + Len(ts[i])
        /\ \A j \in 1..Len(F[i - 1]) : Then(F[i - 1], ts[i])[j] = F[i - 1][j]
    <3>1. PICK s, u : s = F[i - 1] /\ u = ts[i]
      OBVIOUS
    <3>2. s \in Seq(X) /\ u \in Seq(X)
      BY <2>1, <2>2, <3>1
    <3>3. Len(Then(s, u)) = Len(s) + Len(u) /\ \A j \in 1..Len(s) : Then(s, u)[j] = s[j]
      BY ONLY <3>2, ThenIs
    <3> QED
      BY ONLY <3>1, <3>3
  <2> QED
    BY ONLY <2>1, <2>2, <2>3, <2>4, ThenIs
<1> DEFINE Prefix(i) == Len(F[i]) <= Len(F[n]) /\ \A j \in 1..Len(F[i]) : F[n][j] = F[i][j]
           U == {m \in 0..n : Prefix(n - m)}
<1>6. 0 \in U
  <2>1. n - 0 = n /\ Len(F[n]) \in Nat
    BY <1>4
  <2> QED
    BY <2>1
<1>7. ASSUME NEW m \in U, m < n
      PROVE  m + 1 \in U
  <2>1. PICK i \in 1..n : i = n - m /\ i - 1 = n - (m + 1)
    <3>1. n - m \in 1..n /\ n - m - 1 = n - (m + 1)
      BY <1>7
    <3> QED
      BY <3>1
  <2>2. Prefix(i)
    BY <2>1
  <2>3. Len(F[i - 1]) \in Nat /\ Len(F[i]) \in Nat /\ Len(F[n]) \in Nat /\ Len(ts[i]) \in Nat
    <3>1. i - 1 \in 0..n /\ i \in 0..n /\ n \in 0..n
      OBVIOUS
    <3> QED
      BY <1>4, <1>5, <3>1
  <2>4. Len(F[i - 1]) <= Len(F[i])
    <3>1. Len(F[i]) = Len(F[i - 1]) + Len(ts[i])
      BY <1>5
    <3>2. PICK u, v, w : u = Len(F[i - 1]) /\ v = Len(ts[i]) /\ w = Len(F[i])
      OBVIOUS
    <3>3. u \in Nat /\ v \in Nat /\ w = u + v
      BY ONLY <2>3, <3>1, <3>2
    <3>4. u <= w
      BY ONLY <3>3
    <3> QED
      BY ONLY <3>2, <3>4
  <2>5. \A j \in 1..Len(F[i - 1]) : j \in 1..Len(F[i]) /\ F[i][j] = F[i - 1][j]
    <3>1. ASSUME NEW j \in 1..Len(F[i - 1])
          PROVE  j \in 1..Len(F[i])
      <4>1. PICK u, w : u = Len(F[i - 1]) /\ w = Len(F[i])
        OBVIOUS
      <4>2. u \in Nat /\ w \in Nat /\ u <= w /\ j \in 1..u
        BY ONLY <2>3, <2>4, <3>1, <4>1
      <4>3. j \in 1..w
        BY ONLY <4>2
      <4> QED
        BY ONLY <4>1, <4>3
    <3> QED
      BY <1>5, <3>1
  <2>8. Len(F[i - 1]) <= Len(F[n])
    <3>1. Len(F[i]) <= Len(F[n])
      BY <2>2
    <3>2. PICK u, v, w : u = Len(F[i - 1]) /\ v = Len(F[i]) /\ w = Len(F[n])
      OBVIOUS
    <3>3. u \in Nat /\ v \in Nat /\ w \in Nat /\ u <= v /\ v <= w
      BY ONLY <2>3, <2>4, <3>1, <3>2
    <3>4. u <= w
      BY ONLY <3>3
    <3> QED
      BY ONLY <3>2, <3>4
  <2>6. Prefix(i - 1)
    BY <2>2, <2>5, <2>8
  <2>7. m + 1 \in 0..n
    BY <1>7
  <2> QED
    BY <2>1, <2>6, <2>7
<1>8. U = 0..n
  <2> HIDE DEF U
  <2>1. U \in SUBSET (0..n)
    BY DEF U
  <2> QED
    BY <1>6, <1>7, <2>1, PrefixInduction
<1>9. \A i \in 0..n : Prefix(i)
  <2>1. \A i \in 0..n : n - i \in 0..n /\ n - (n - i) = i
    OBVIOUS
  <2> HIDE DEF Prefix
  <2> QED
    BY <1>8, <2>1
<1> QED
  BY <1>4, <1>5, <1>9 DEF Fronts

-----------------------------------------------------------------------------
(* Quoted-printable *)

DecodeBody(f, t, i) ==
  IF i > Len(t) THEN None
  ELSE IF Escapes(t, i) /\ t[i + 1] = NL THEN f[i + 2]
  ELSE IF Escapes(t, i) /\ t[i + 1] \in Hex /\ t[i + 2] \in Hex
       THEN Then(<<HexValue(t[i + 1], t[i + 2])>>, f[i + 3])
  ELSE Then(Latin(t[i]), f[i + 1])

\* The places at which the decoding asks for itself are behind its own.
LEMMA DecodeBehind ==
  ASSUME NEW t, NEW N \in Nat, N = Len(t), NEW i \in 1..N + 1, NEW f, NEW g,
         \A j \in i + 1..N + 1 : f[j] = g[j]
  PROVE  DecodeBody(f, t, i) = DecodeBody(g, t, i)
<1>1. CASE i > N
  BY <1>1 DEF DecodeBody
<1>2. CASE ~ (i > N)
  <2>1. i + 1 \in i + 1..N + 1
    BY <1>2
  <2>2. Escapes(t, i) => i + 2 \in i + 1..N + 1 /\ i + 3 \in i + 1..N + 1
    BY DEF Escapes
  <2>3. f[i + 1] = g[i + 1] /\ (Escapes(t, i) => f[i + 2] = g[i + 2] /\ f[i + 3] = g[i + 3])
    BY <2>1, <2>2
  <2> QED
    BY <2>3 DEF DecodeBody
<1> QED
  BY <1>1, <1>2

\* There is a function that decodes.
LEMMA DecodeExists ==
  ASSUME NEW t, NEW N \in Nat, N = Len(t)
  PROVE  \E f : f = [i \in 1..N + 1 |-> DecodeBody(f, t, i)]
<1> DEFINE M == N + 1
           From(m) == {i \in 1..M : i > M - m}
           T == {m \in 0..M : \E f : /\ f = [i \in 1..M |-> f[i]]
                                     /\ \A i \in From(m) : f[i] = DecodeBody(f, t, i)}
<1>1. M \in Nat
  OBVIOUS
<1>2. 0 \in T
  <2> DEFINE f == [i \in 1..M |-> i]
  <2>1. f = [i \in 1..M |-> f[i]] /\ \A i \in From(0) : f[i] = DecodeBody(f, t, i)
    BY <1>1
  <2> HIDE DEF f, From
  <2>2. 0 \in 0..M
    BY <1>1
  <2> QED
    BY <2>1, <2>2
<1>3. ASSUME NEW m \in T, m < M
      PROVE  m + 1 \in T
  <2>1. PICK f : /\ f = [i \in 1..M |-> f[i]]
                 /\ \A i \in From(m) : f[i] = DecodeBody(f, t, i)
    OBVIOUS
  <2> DEFINE k == M - m
             g == [i \in 1..M |-> IF i = k THEN DecodeBody(f, t, k) ELSE f[i]]
  <2>2. k \in 1..M /\ m \in Nat /\ m + 1 \in 0..M
    BY <1>1, <1>3
  <2>3. g = [i \in 1..M |-> g[i]]
    OBVIOUS
  <2>4. \A i \in From(m + 1) : i = k \/ i \in From(m)
    BY <1>1, <2>2
  <2>5. /\ \A j \in 1..M : j > k => g[j] = f[j]
        /\ g[k] = DecodeBody(f, t, k)
        /\ \A j \in From(m) : j \in 1..M /\ j > k
    BY <1>1, <2>2
  <2> HIDE DEF k, g, From
  <2>6. ASSUME NEW i \in 1..M, i >= k
        PROVE  DecodeBody(f, t, i) = DecodeBody(g, t, i)
    <3>1. \A j \in i + 1..N + 1 : f[j] = g[j]
      BY <1>1, <2>2, <2>5, <2>6
    <3> QED
      BY <3>1, DecodeBehind
  <2>7. \A i \in From(m + 1) : g[i] = DecodeBody(g, t, i)
    <3>1. ASSUME NEW i \in From(m)
          PROVE  g[i] = DecodeBody(g, t, i)
      <4>1. i \in 1..M /\ i > k /\ i >= k
        BY <1>1, <2>2, <2>5
      <4> QED
        BY <2>1, <2>5, <2>6, <4>1
    <3>2. g[k] = DecodeBody(g, t, k)
      <4>1. k >= k
        BY <2>2, <1>1
      <4> QED
        BY <2>2, <2>5, <2>6, <4>1
    <3> QED
      BY <2>4, <3>1, <3>2
  <2> QED
    BY <2>2, <2>3, <2>7
<1>4. M \in T
  <2> HIDE DEF T, M
  <2>1. T \in SUBSET (0..M)
    BY DEF T
  <2>2. \A m \in T : m < M => m + 1 \in T
    BY <1>3
  <2>3. M \in 0..M
    BY <1>1
  <2> QED
    BY <1>1, <1>2, <2>1, <2>2, <2>3, PrefixInduction
<1>5. PICK f : /\ f = [i \in 1..M |-> f[i]]
               /\ \A i \in From(M) : f[i] = DecodeBody(f, t, i)
  BY <1>4
<1>6. From(M) = 1..M
  BY <1>1
<1>7. f = [i \in 1..M |-> DecodeBody(f, t, i)]
  BY <1>5, <1>6
<1> QED
  BY <1>7

\* Decode is its value at the first place.
LEMMA DecodeIs ==
  ASSUME NEW t, NEW N \in Nat, N = Len(t)
  PROVE  \E f : Decode(t) = f[1] /\ \A i \in 1..N + 1 : f[i] = DecodeBody(f, t, i)
<1> DEFINE at == CHOOSE f : f = [i \in 1..N + 1 |-> DecodeBody(f, t, i)]
<1>1. Decode(t) = at[1]
  BY DEF Decode, DecodeBody, Then, None
<1>2. at = [i \in 1..N + 1 |-> DecodeBody(at, t, i)]
  <2>1. \E f : f = [i \in 1..N + 1 |-> DecodeBody(f, t, i)]
    BY DecodeExists
  <2> QED
    BY ONLY <2>1
<1> HIDE DEF at
<1>3. \A i \in 1..N + 1 : at[i] = DecodeBody(at, t, i)
  BY <1>2
<1> QED
  BY <1>1, <1>3

\* Short texts.
LEMMA ShortTexts ==
  ASSUME NEW C
  PROVE  /\ \A c1 \in C : <<c1>> \in Seq(C)
         /\ \A c1, c2 \in C : <<c1, c2>> \in Seq(C)
         /\ \A c1, c2, c3 \in C : <<c1, c2, c3>> \in Seq(C)
         /\ \A c1, c2, c3, c4 \in C : <<c1, c2, c3, c4>> \in Seq(C)
         /\ \A c1, c2, c3, c4, c5 \in C : <<c1, c2, c3, c4, c5>> \in Seq(C)
         /\ \A c1, c2, c3, c4, c5, c6, c7 \in C : <<c1, c2, c3, c4, c5, c6, c7>> \in Seq(C)
<1>1. \A c1 \in C : <<c1>> \in Seq(C)
  OBVIOUS
<1>2. \A c1, c2 \in C : <<c1, c2>> \in Seq(C)
  OBVIOUS
<1>3. \A c1, c2, c3 \in C : <<c1, c2, c3>> \in Seq(C)
  OBVIOUS
<1>4. \A c1, c2, c3, c4 \in C : <<c1, c2, c3, c4>> \in Seq(C)
  OBVIOUS
<1>5. \A c1, c2, c3, c4, c5 \in C : <<c1, c2, c3, c4, c5>> \in Seq(C)
  OBVIOUS
<1>6. \A c1, c2, c3, c4, c5, c6, c7 \in C : <<c1, c2, c3, c4, c5, c6, c7>> \in Seq(C)
  OBVIOUS
<1> QED
  BY <1>1, <1>2, <1>3, <1>4, <1>5, <1>6

\* What a character is sent as, and what is read of it.
LEMMA QuotedIs ==
  ASSUME NEW X, "=" \in X, "3" \in X, "D" \in X, "A" \in X, High \in X, NEW c \in X
  PROVE  /\ Quoted(c) \in Seq(X) /\ Len(Quoted(c)) \in Nat \ {0}
         /\ Latin(c) \in Seq(X)
<1>1. CASE c = "="
  <2>1. Quoted(c) = <<"=", "3", "D">> /\ Latin(c) = <<c>>
    BY <1>1 DEF Quoted, Latin, High
  <2>2. <<"=", "3", "D">> \in Seq(X) /\ <<c>> \in Seq(X)
    BY ShortTexts
  <2>3. Len(<<"=", "3", "D">>) = 3
    OBVIOUS
  <2> QED
    BY <2>1, <2>2, <2>3
<1>2. CASE c = High
  <2>1. Quoted(c) = <<"=", "D", "3", "=", "A", "3">> /\ Latin(c) = <<c, c>>
    BY <1>2 DEF Quoted, Latin, High
  <2>2. <<"=", "D", "3", "=", "A", "3">> \in Seq(X) /\ <<c, c>> \in Seq(X)
    OBVIOUS
  <2>3. Len(<<"=", "D", "3", "=", "A", "3">>) = 6
    OBVIOUS
  <2> QED
    BY <2>1, <2>2, <2>3
<1>3. CASE c # "=" /\ c # High
  <2>1. Quoted(c) = <<c>> /\ Latin(c) = <<c>>
    BY <1>3 DEF Quoted, Latin
  <2> QED
    BY <1>3, <2>1
<1> QED
  BY <1>1, <1>2, <1>3

\* Behind place o of e stands c, written in a characters, m with its soft break.
Standing(e, N, o, c, broken, a, m) ==
  /\ N \in Nat /\ N = Len(e) /\ o \in Nat /\ a \in Nat /\ m \in Nat
  /\ o + m <= N /\ (broken => o + m < N) /\ broken \in BOOLEAN
  /\ a = Len(Quoted(c)) /\ m = (IF broken THEN a + 2 ELSE a)
  /\ \A j \in 1..a : e[o + j] = Quoted(c)[j]
  /\ broken => e[o + a + 1] = "=" /\ e[o + a + 2] = NL

DecodesBy(f, e, N) == \A i \in 1..N + 1 : f[i] = DecodeBody(f, e, i)

\* What the sender writes for character c at place o, and the soft break behind
\* it, decode to c, or to its bytes.
LEMMA SymbolDecodes ==
  ASSUME NEW e, NEW N, NEW f, DecodesBy(f, e, N),
         NEW o, NEW c, NEW a, NEW m, NEW broken, Standing(e, N, o, c, broken, a, m),
         NEW X, High \in X, NEW r \in Seq(X), r = f[o + m + 1]
  PROVE  f[o + 1] = Then(Latin(c), r)
<1>1. \A j \in 1..a : e[o + j] = Quoted(c)[j]
  BY DEF Standing
<1>2. /\ N \in Nat /\ N = Len(e) /\ o \in Nat /\ a \in Nat /\ m \in Nat /\ o + a <= N
      /\ broken \in BOOLEAN
  BY DEF Standing
<1>3. r = f[o + a + 1]
  <2>1. CASE ~ broken
    BY <2>1 DEF Standing
  <2>2. CASE broken
    <3> USE DEF Standing
    <3>1. PICK i \in Nat : i = o + a + 1 /\ i + 2 <= N /\ i + 2 = o + m + 1 /\ e[i] = "=" /\ e[i + 1] = NL
      <4>1. o + a + 1 \in Nat /\ o + a + 1 + 2 <= N /\ o + a + 1 + 2 = o + m + 1
        BY <2>2
      <4>2. o + a + 1 + 1 = o + a + 2
        OBVIOUS
      <4> QED
        BY <2>2, <4>1, <4>2
    <3>2. Escapes(e, i) /\ i \in 1..N + 1 /\ ~ (i > N)
      BY <3>1 DEF Escapes
    <3>3. f[i] = f[i + 2]
      BY <3>1, <3>2 DEF DecodeBody, DecodesBy
    <3> QED
      BY <3>1, <3>3
  <2> QED
    BY <1>2, <2>1, <2>2
<1>4. ASSUME NEW i \in Nat, i + 2 <= N, i >= 1, e[i] = "=", e[i + 1] \in Hex, e[i + 2] \in Hex
      PROVE  f[i] = Then(<<HexValue(e[i + 1], e[i + 2])>>, f[i + 3])
  <2>1. Escapes(e, i) /\ i \in 1..N + 1 /\ ~ (i > N)
    BY <1>2, <1>4 DEF Escapes
  <2>2. e[i + 1] # NL
    BY <1>4 DEF Hex, NL
  <2> QED
    BY <1>2, <1>4, <2>1, <2>2 DEF DecodeBody, DecodesBy
<1>5. CASE c # "=" /\ c # High
  <2>1. Quoted(c) = <<c>>
    BY <1>5 DEF Quoted
  <2>2. a = 1
    BY <2>1 DEF Standing
  <2>3. e[o + 1] = c
    BY <1>1, <2>1, <2>2
  <2>4. o + 1 \in 1..N + 1 /\ ~ (o + 1 > N) /\ ~ Escapes(e, o + 1)
    BY <1>2, <1>5, <2>2, <2>3 DEF Escapes
  <2>5. f[o + 1] = Then(Latin(c), f[o + 1 + 1])
    BY <1>2, <2>3, <2>4 DEF DecodeBody, DecodesBy
  <2> QED
    BY <1>3, <2>2, <2>5
<1>6. CASE c = "="
  <2>1. Quoted(c) = <<"=", "3", "D">> /\ Latin(c) = <<"=">>
    BY <1>6 DEF Quoted, Latin, High
  <2>2. a = 3
    BY <2>1 DEF Standing
  <2>3. e[o + 1] = "=" /\ e[o + 2] = "3" /\ e[o + 3] = "D"
    BY <1>1, <2>1, <2>2
  <2>4. PICK i \in Nat : i = o + 1 /\ i + 1 = o + 2 /\ i + 2 = o + 3 /\ i + 3 = o + a + 1
    BY <1>2, <2>2
  <2>5. "3" \in Hex /\ "D" \in Hex /\ HexValue("3", "D") = "="
    BY DEF Hex, HexValue
  <2>6. f[i] = Then(<<HexValue("3", "D")>>, f[i + 3])
    BY <1>2, <1>4, <2>2, <2>3, <2>4, <2>5
  <2> QED
    BY <1>3, <2>1, <2>4, <2>5, <2>6
<1>7. CASE c = High
  <2>1. Quoted(c) = <<"=", "D", "3", "=", "A", "3">> /\ Latin(c) = <<High, High>>
    BY <1>7 DEF Quoted, Latin, High
  <2>2. a = 6
    BY <2>1 DEF Standing
  <2>3. /\ e[o + 1] = "=" /\ e[o + 2] = "D" /\ e[o + 3] = "3"
        /\ e[o + 4] = "=" /\ e[o + 5] = "A" /\ e[o + 6] = "3"
    BY <1>1, <2>1, <2>2
  <2>4. PICK i \in Nat : i = o + 1 /\ i + 1 = o + 2 /\ i + 2 = o + 3 /\ i + 3 = o + 4
    BY <1>2
  <2>5. PICK k \in Nat : k = o + 4 /\ k + 1 = o + 5 /\ k + 2 = o + 6 /\ k + 3 = o + a + 1
    BY <1>2, <2>2
  <2>6. /\ "3" \in Hex /\ "D" \in Hex /\ "A" \in Hex
        /\ HexValue("D", "3") = High /\ HexValue("A", "3") = High
    BY DEF Hex, HexValue
  <2>7. f[k] = Then(<<High>>, r)
    <3>1. f[k] = Then(<<HexValue("A", "3")>>, f[k + 3])
      BY <1>2, <1>4, <2>2, <2>3, <2>5, <2>6
    <3> QED
      BY <1>3, <2>5, <2>6, <3>1
  <2>8. f[i] = Then(<<High>>, f[k])
    <3>1. f[i] = Then(<<HexValue("D", "3")>>, f[i + 3])
      BY <1>2, <1>4, <2>2, <2>3, <2>4, <2>6
    <3> QED
      BY <2>4, <2>5, <2>6, <3>1
  <2>9. Then(<<High>>, Then(<<High>>, r)) = Then(Then(<<High>>, <<High>>), r)
    <3>1. PICK u \in Seq(X) : u = <<High>>
      BY ShortTexts
    <3>2. Then(u, Then(u, r)) = Then(Then(u, u), r)
      BY ONLY u \in Seq(X), r \in Seq(X), ThenThrice
    <3> QED
      BY ONLY <3>1, <3>2
  <2>10. Then(<<High>>, <<High>>) = <<High, High>>
    <3>1. <<High>> \in Seq(X)
      BY ShortTexts
    <3>2. Append(<<High>>, High) = <<High, High>>
      <4>1. PICK u, q : u = <<High>> /\ q = Append(u, High)
        OBVIOUS
      <4>2. /\ u \in Seq(X) /\ q \in Seq(X) /\ Len(u) = 1 /\ Len(q) = Len(u) + 1
            /\ \A j \in 1..Len(u) : q[j] = u[j]
            /\ q[Len(u) + 1] = High
        BY <3>1, <4>1, AppendProperties
      <4>3. Len(q) = 2 /\ q[1] = High /\ q[2] = High
        BY <4>1, <4>2
      <4>4. PICK w : w = <<High, High>> /\ w \in Seq(X) /\ Len(w) = 2 /\ w[1] = High /\ w[2] = High
        <5>1. <<High, High>> \in Seq(X)
          BY ShortTexts
        <5>2. Len(<<High, High>>) = 2 /\ <<High, High>>[1] = High /\ <<High, High>>[2] = High
          OBVIOUS
        <5> QED
          BY <5>1, <5>2
      <4>5. \A j \in 1..Len(q) : q[j] = w[j]
        BY ONLY <4>3, <4>4
      <4> QED
        BY <4>1, <4>2, <4>3, <4>4, <4>5, SeqEqual
    <3> QED
      BY <3>1, <3>2, AppendIsConcat DEF Then
  <2> QED
    BY <2>1, <2>4, <2>7, <2>8, <2>9, <2>10
<1> QED
  BY <1>5, <1>6, <1>7

Symbol(t, p, i) == Then(Quoted(t[i]), IF i = p /\ i < Len(t) THEN <<"=", NL>> ELSE None)

\* s is c as quoted-printable, in a characters, and the soft break behind it.
Written(s, c, broken, a) ==
  /\ a \in Nat \ {0} /\ a = Len(Quoted(c))
  /\ Len(s) \in Nat /\ Len(s) = (IF broken THEN a + 2 ELSE a)
  /\ \A j \in 1..a : s[j] = Quoted(c)[j]
  /\ broken => s[a + 1] = "=" /\ s[a + 2] = NL

Alphabet(X) == {"=", "3", "D", "A", NL, High} \subseteq X

\* What the sender writes for one character.
LEMMA SymbolIs ==
  ASSUME NEW X, Alphabet(X), NEW t \in Seq(X), NEW p, NEW i \in 1..Len(t),
         NEW c, c = t[i], NEW broken, broken = (i = p /\ i < Len(t)),
         NEW a, a = Len(Quoted(c)), NEW s, s = Symbol(t, p, i)
  PROVE  s \in Seq(X) /\ Written(s, c, broken, a) /\ Latin(c) \in Seq(X)
<1>1. PICK u, v : u = Quoted(c) /\ v = IF broken THEN <<"=", NL>> ELSE None
  OBVIOUS
<1>2. c \in X
  BY ElementOfSeq
<1>3. u \in Seq(X) /\ Len(u) = a /\ a \in Nat \ {0} /\ Latin(c) \in Seq(X)
  BY <1>1, <1>2, QuotedIs DEF Alphabet
<1>4. /\ v \in Seq(X) /\ Len(v) = (IF broken THEN 2 ELSE 0)
      /\ broken => v[1] = "=" /\ v[2] = NL
  BY <1>1 DEF None, Alphabet
<1>5. s = Then(u, v)
  BY <1>1 DEF Symbol
<1>6. /\ s \in Seq(X) /\ Len(s) = Len(u) + Len(v) /\ Len(s) \in Nat
      /\ \A j \in 1..Len(u) : s[j] = u[j]
      /\ \A j \in 1..Len(v) : s[Len(u) + j] = v[j]
  <2>1. u \in Seq(X) /\ v \in Seq(X)
    BY <1>3, <1>4
  <2>2. /\ Then(u, v) \in Seq(X) /\ Len(Then(u, v)) = Len(u) + Len(v) /\ Len(Then(u, v)) \in Nat
        /\ \A j \in 1..Len(u) : Then(u, v)[j] = u[j]
        /\ \A j \in 1..Len(v) : Then(u, v)[Len(u) + j] = v[j]
    BY ONLY <2>1, ThenIs
  <2> QED
    BY ONLY <1>5, <2>2
<1>7. Len(s) = (IF broken THEN a + 2 ELSE a)
  BY <1>3, <1>4, <1>6
<1>8. \A j \in 1..a : s[j] = Quoted(c)[j]
  BY ONLY <1>1, <1>3, <1>6
<1>9. broken => s[a + 1] = "=" /\ s[a + 2] = NL
  <2>1. broken => 1 \in 1..Len(v) /\ 2 \in 1..Len(v)
    BY <1>4
  <2> QED
    BY <1>3, <1>4, <1>6, <2>1
<1> QED
  BY <1>3, <1>6, <1>7, <1>8, <1>9 DEF Written

\* ASCII is read as it is.
LEMMA AsciiIsItself ==
  ASSUME NEW S, NEW t \in Seq(S), High \notin S
  PROVE  ByteByByte(t) = t
<1>1. PICK n, ls : n = Len(t) /\ ls = [i \in 1..n |-> Latin(t[i])]
  OBVIOUS
<1>2. n \in Nat /\ \A i \in 1..n : t[i] \in S /\ ls[i] = <<t[i]>>
  BY <1>1, LenProperties, ElementOfSeq DEF Latin
<1>3. ls \in Seq(Seq(S)) /\ n = Len(ls)
  <2>1. ASSUME NEW i \in 1..n PROVE Latin(t[i]) \in Seq(S)
    <3>1. t[i] \in S /\ Latin(t[i]) = <<t[i]>>
      BY <1>1, <1>2
    <3> QED
      BY ONLY <3>1
  <2> QED
    BY <1>1, <1>2, <2>1, IsASeq
<1>4. PICK G : Flattens(G, ls, n) /\ G[n] = FlattenSeq(ls)
  BY <1>2, <1>3, FlattenIs
<1> DEFINE T == {k \in 0..n : G[k] = SubSeq(t, 1, k)}
<1>5. 0 \in T
  <2>1. SubSeq(t, 1, 0) = None
    BY SubSeqEmpty DEF None
  <2>2. G[0] = None /\ 0 \in 0..n
    BY <1>2, <1>4 DEF Flattens
  <2> QED
    BY ONLY <2>1, <2>2
<1>6. ASSUME NEW k \in T, k < n
      PROVE  k + 1 \in T
  <2>1. k + 1 \in 1..n /\ k + 1 - 1 = k /\ k + 1 \in 0..n
    BY <1>2, <1>6
  <2>2. G[k + 1] = Then(G[k], <<t[k + 1]>>)
    <3>1. \A i \in 1..n : G[i] = Then(G[i - 1], ls[i]) /\ ls[i] = <<t[i]>>
      BY <1>2, <1>4 DEF Flattens
    <3>2. PICK j \in 1..n : j = k + 1 /\ j - 1 = k
      BY ONLY <2>1
    <3>3. G[j] = Then(G[j - 1], <<t[j]>>)
      BY ONLY <3>1, j \in 1..n
    <3> QED
      BY ONLY <3>2, <3>3
  <2>3. SubSeq(t, 1, k + 1) = SubSeq(t, 1, k) \o <<t[k + 1]>>
    <3>1. SubSeq(t, 1, k + 1) = Append(SubSeq(t, 1, k), t[k + 1])
      BY <1>1, <1>2, <2>1, SubSeqRecursiveSecond
    <3>2. SubSeq(t, 1, k) \in Seq(S) /\ t[k + 1] \in S
      BY <1>1, <1>2, <2>1, SubSeqProperties
    <3> QED
      BY <3>1, <3>2, AppendIsConcat
  <2> QED
    BY <2>1, <2>2, <2>3 DEF Then
<1>7. T = 0..n
  <2> HIDE DEF T
  <2>1. T \in SUBSET (0..n)
    BY DEF T
  <2> QED
    BY <1>2, <1>5, <1>6, <2>1, PrefixInduction
<1>8. G[n] = SubSeq(t, 1, n)
  BY <1>2, <1>7
<1> QED
  BY <1>1, <1>4, <1>8, SubSeqFull DEF ByteByByte

\* steam-mail/src/lib.rs:146: decoding gives back every text that was sent as
\* quoted-printable, wherever a soft break is in it: byte by byte, a character
\* that is no ASCII as one for each of its bytes, and an ASCII text as it is.
THEOREM DecodesWhatWasSent ==
  ASSUME NEW S, NEW t \in Seq(S), NEW p
  PROVE  /\ Decode(Encode(t, p)) = ByteByByte(t)
         /\ High \notin S => ByteByByte(t) = t
<1>0. PICK n, X, ts, ls :
        /\ n = Len(t) /\ X = S \cup {"=", "3", "D", "A", NL, High}
        /\ ts = [i \in 1..n |-> Symbol(t, p, i)] /\ ls = [i \in 1..n |-> Latin(t[i])]
  OBVIOUS
<1>1. n \in Nat /\ t \in Seq(X) /\ Alphabet(X)
  BY <1>0, LenProperties, SeqMonotonic DEF Alphabet
<1>2. \A i \in 1..n : Symbol(t, p, i) \in Seq(X) /\ Latin(t[i]) \in Seq(X)
  BY <1>0, <1>1, SymbolIs
<1>18. /\ ls \in Seq(Seq(X)) /\ Len(ls) = n /\ \A i \in 1..n : ls[i] = Latin(t[i])
       /\ ByteByByte(t) = FlattenSeq(ls)
  BY <1>0, <1>1, <1>2, IsASeq DEF ByteByByte
<1>19. PICK G : /\ G[n] = ByteByByte(t) /\ G[0] = None
                /\ \A i \in 1..n : G[i] = Then(G[i - 1], Latin(t[i]))
                /\ \A i \in 0..n : G[i] \in Seq(X)
  <2>1. PICK G : Flattens(G, ls, n) /\ G[n] = FlattenSeq(ls)
    BY <1>1, <1>18, FlattenIs
  <2>2. Fronts(G, ls, n, X)
    <3>1. ls \in Seq(Seq(X)) /\ n \in Nat /\ n = Len(ls) /\ Flattens(G, ls, n)
      BY <1>1, <1>18, <2>1
    <3> QED
      BY ONLY <3>1, FlattensPrefix
  <2> QED
    BY <1>18, <2>1, <2>2 DEF Flattens, Fronts
<1>3. ts \in Seq(Seq(X)) /\ Len(ts) = n /\ \A i \in 1..n : ts[i] = Symbol(t, p, i)
  BY <1>0, <1>1, <1>2, IsASeq
<1>4. Encode(t, p) = FlattenSeq(ts)
  BY <1>0 DEF Encode, Symbol, Then, None
<1>5. PICK F : Flattens(F, ts, n) /\ F[n] = FlattenSeq(ts)
  BY <1>1, <1>3, FlattenIs
<1>6. PICK e : e = F[n]
  OBVIOUS
<1>7. /\ \A i \in 0..n : F[i] \in Seq(X) /\ Len(F[i]) \in Nat
      /\ \A i \in 1..n : Len(F[i]) = Len(F[i - 1]) + Len(ts[i])
      /\ \A i \in 0..n : /\ Len(F[i]) <= Len(F[n])
                         /\ \A j \in 1..Len(F[i]) : F[n][j] = F[i][j]
  <2>1. ts \in Seq(Seq(X)) /\ n \in Nat /\ n = Len(ts) /\ Flattens(F, ts, n)
    BY <1>1, <1>3, <1>5
  <2>2. Fronts(F, ts, n, X)
    BY ONLY <2>1, FlattensPrefix
  <2> QED
    BY ONLY <2>2 DEF Fronts
<1>8. PICK N \in Nat : N = Len(e)
  <2>1. n \in 0..n
    BY <1>1
  <2> QED
    BY <1>6, <1>7, <2>1
<1>9. PICK f : Decode(e) = f[1] /\ \A i \in 1..N + 1 : f[i] = DecodeBody(f, e, i)
  BY <1>8, DecodeIs
<1> DEFINE Rest(k) == f[Len(F[k]) + 1] \in Seq(X) /\ Then(G[k], f[Len(F[k]) + 1]) = G[n]
           T == {m \in 0..n : Rest(n - m)}
<1>10. 0 \in T
  <2>1. n - 0 = n /\ Len(F[n]) + 1 = N + 1 /\ N + 1 \in 1..N + 1 /\ N + 1 > Len(e)
    BY <1>1, <1>6, <1>8
  <2>2. f[N + 1] = None
    BY <1>9, <2>1 DEF DecodeBody
  <2>3. None \in Seq(X) /\ Then(G[n], None) = G[n]
    <3>1. G[n] \in Seq(X) /\ None \in Seq(X)
      BY <1>1, <1>19, EmptySeq DEF None
    <3> QED
      BY <3>1, ThenThrice
  <2>4. 0 \in 0..n
    BY <1>1
  <2> QED
    BY <2>1, <2>2, <2>3, <2>4
<1>11. ASSUME NEW k \in 1..n, Rest(k)
       PROVE  Rest(k - 1)
  <2>1. PICK s, c, o, broken :
          /\ s = Symbol(t, p, k) /\ c = t[k] /\ o = Len(F[k - 1]) /\ broken = (k = p /\ k < n)
    OBVIOUS
  <2>2. PICK a : a = Len(Quoted(c))
    OBVIOUS
  <2>3. PICK m : m = Len(s)
    OBVIOUS
  <2>4. broken = (k = p /\ k < Len(t)) /\ k \in 1..Len(t)
    BY <1>0, <2>1
  <2>5. /\ s \in Seq(X) /\ a \in Nat \ {0} /\ m \in Nat /\ m = (IF broken THEN a + 2 ELSE a)
        /\ \A j \in 1..a : s[j] = Quoted(c)[j]
        /\ broken => s[a + 1] = "=" /\ s[a + 2] = NL
        /\ Latin(c) \in Seq(X)
    <3>1. /\ Alphabet(X) /\ t \in Seq(X) /\ k \in 1..Len(t)
          /\ c = t[k] /\ broken = (k = p /\ k < Len(t)) /\ a = Len(Quoted(c))
          /\ s = Symbol(t, p, k)
      BY <1>1, <2>1, <2>2, <2>4
    <3>2. s \in Seq(X) /\ Written(s, c, broken, a) /\ Latin(c) \in Seq(X)
      BY ONLY <3>1, SymbolIs
    <3> QED
      BY ONLY <2>3, <3>2 DEF Written
  <2>6. k - 1 \in 0..n /\ k \in 0..n /\ ts[k] = s /\ F[k - 1] \in Seq(X) /\ o \in Nat
    BY <1>1, <1>3, <1>7, <2>1
  <2>7. Len(F[k]) = o + m /\ o + m <= N
    BY <1>6, <1>7, <1>8, <2>1, <2>3, <2>6
  <2>8. F[k] = Then(F[k - 1], s)
    BY <1>5, <2>6 DEF Flattens
  <2>9. \A j \in 1..m : e[o + j] = s[j]
    <3>1. PICK u : u = F[k - 1]
      OBVIOUS
    <3>2. u \in Seq(X) /\ s \in Seq(X) /\ o = Len(u)
      BY <2>1, <2>5, <2>6, <3>1
    <3>3. ASSUME NEW j \in 1..Len(s)
          PROVE  Then(u, s)[Len(u) + j] = s[j]
      <4>1. u \in Seq(X) /\ s \in Seq(X) /\ j \in 1..Len(s)
        BY <3>2, <3>3
      <4> QED
        BY ONLY <4>1, ThenAt
    <3>4. \A j \in 1..m : F[k][o + j] = s[j]
      BY ONLY <2>3, <2>8, <3>1, <3>2, <3>3
    <3>5. \A j \in 1..m : o + j \in 1..o + m
      BY ONLY <2>5, <2>6
    <3>6. \A j \in 1..Len(F[k]) : e[j] = F[k][j]
      BY <1>6, <1>7, <2>6
    <3> QED
      BY <2>7, <3>4, <3>5, <3>6
  <2>10. broken => o + m < N
    <3>1. SUFFICES ASSUME broken
                   PROVE  o + m < N
      OBVIOUS
    <3>2. k + 1 \in 1..n /\ k + 1 \in 0..n /\ k + 1 - 1 = k /\ k + 1 \in 1..Len(t)
      <4>1. k < n /\ n = Len(t)
        BY <1>0, <2>1, <3>1
      <4> QED
        BY <1>1, <4>1
    <3>3. PICK q : q = Symbol(t, p, k + 1)
      OBVIOUS
    <3>4. Len(q) \in Nat /\ Len(q) >= 1
      <4>1. PICK d, b, l : d = t[k + 1] /\ b = (k + 1 = p /\ k + 1 < Len(t)) /\ l = Len(Quoted(d))
        OBVIOUS
      <4>2. l \in Nat \ {0} /\ Len(q) \in Nat /\ Len(q) = (IF b THEN l + 2 ELSE l)
        BY <1>1, <3>2, <3>3, <4>1, SymbolIs DEF Written
      <4> QED
        BY <4>1, <4>2
    <3>5. PICK x, y, z : x = Len(F[k + 1]) /\ y = Len(q) /\ z = o + m
      OBVIOUS
    <3>6. x = z + y
      <4>1. PICK i \in 1..n : i = k + 1
        BY <3>2
      <4>3. Len(F[i]) = Len(F[i - 1]) + Len(ts[i])
        BY <1>7
      <4>4. i - 1 = k /\ ts[i] = q
        BY <1>3, <3>2, <3>3, <4>1
      <4>2. Len(F[k + 1]) = Len(F[k]) + Len(q)
        BY ONLY <4>1, <4>3, <4>4
      <4> QED
        BY ONLY <2>7, <3>5, <4>2
    <3>7. x <= N
      BY <1>6, <1>7, <1>8, <3>2, <3>5
    <3>8. z \in Nat /\ y \in Nat /\ y >= 1
      BY <2>5, <2>6, <3>4, <3>5
    <3>9. z < N
      BY ONLY <3>6, <3>7, <3>8, N \in Nat
    <3> QED
      BY <3>5, <3>9
  <2>11. PICK w \in Seq(X) : w = f[o + m + 1] /\ Then(G[k], w) = G[n]
    BY <1>11, <2>7
  <2>12. f[o + 1] = Then(Latin(c), w)
    <3>1. \A j \in 1..a : e[o + j] = Quoted(c)[j]
      <4>1. \A j \in 1..a : j \in 1..m
        BY ONLY <2>5
      <4> QED
        BY ONLY <2>5, <2>9, <4>1
    <3>2. broken => e[o + a + 1] = "=" /\ e[o + a + 2] = NL
      <4>1. o + (a + 1) = o + a + 1 /\ o + (a + 2) = o + a + 2
        BY ONLY <2>5, <2>6
      <4>2. broken => a + 1 \in 1..m /\ a + 2 \in 1..m
        BY ONLY <2>5
      <4>3. broken => e[o + (a + 1)] = "=" /\ e[o + (a + 2)] = NL
        BY ONLY <2>5, <2>9, <4>2
      <4> QED
        BY ONLY <4>1, <4>3
    <3>3. broken \in BOOLEAN
      BY <2>1
    <3>4. N \in Nat /\ N = Len(e) /\ DecodesBy(f, e, N)
      BY <1>8, <1>9 DEF DecodesBy
    <3>5. Standing(e, N, o, c, broken, a, m)
      BY ONLY <2>2, <2>5, <2>6, <2>7, <2>10, <3>1, <3>2, <3>3, <3>4 DEF Standing
    <3>6. High \in X
      BY <1>1 DEF Alphabet
    <3> QED
      BY ONLY <2>11, <3>4, <3>5, <3>6, SymbolDecodes
  <2>13. PICK g, l : g = G[k - 1] /\ l = Latin(c)
    OBVIOUS
  <2>14. g \in Seq(X) /\ l \in Seq(X) /\ G[k] = Then(g, l)
    BY <1>19, <2>1, <2>5, <2>6, <2>13
  <2>15. Then(l, w) \in Seq(X)
    BY ONLY w \in Seq(X), <2>14, ThenIs
  <2>16. Then(g, Then(l, w)) = Then(Then(g, l), w)
    BY ONLY w \in Seq(X), <2>14, ThenThrice
  <2> QED
    BY <2>1, <2>11, <2>12, <2>13, <2>14, <2>15, <2>16
<1>12. ASSUME NEW m \in T, m < n
       PROVE  m + 1 \in T
  <2>1. PICK k \in 1..n : k = n - m /\ k - 1 = n - (m + 1)
    <3>1. n - m \in 1..n /\ n - m - 1 = n - (m + 1)
      BY <1>1, <1>12
    <3> QED
      BY <3>1
  <2>2. m + 1 \in 0..n
    BY <1>1, <1>12
  <2> HIDE DEF Rest
  <2> QED
    BY <1>11, <2>1, <2>2
<1>13. T = 0..n
  <2> HIDE DEF T
  <2>1. T \in SUBSET (0..n)
    BY DEF T
  <2> QED
    BY <1>1, <1>10, <1>12, <2>1, PrefixInduction
<1>14. Rest(0)
  <2>1. n \in 0..n /\ n - n = 0
    BY <1>1
  <2> HIDE DEF Rest
  <2> QED
    BY <1>13, <2>1
<1>15. Len(F[0]) = 0
  BY <1>5, EmptySeq DEF Flattens, None
<1>16. Decode(e) = G[n]
  <2>1. 0 + 1 = 1
    OBVIOUS
  <2>2. PICK w \in Seq(X) : w = f[1] /\ Then(None, w) = G[n]
    BY <1>14, <1>15, <1>19, <2>1
  <2>3. Then(None, w) = w
    BY ONLY w \in Seq(X), ThenIs
  <2> QED
    BY <1>9, <2>2, <2>3
<1>17. High \notin S => ByteByByte(t) = t
  BY AsciiIsItself
<1> QED
  BY <1>4, <1>5, <1>6, <1>16, <1>17, <1>19

\* The characters of the lines.
Chars == {"K", "3", "D", "A", "i", "s", "host", "verify", "code", "=", " ", ":", ".", "<", ">", Quote, NL,
          High}

\* The lines of a mail are texts.
LEMMA LineIsText ==
  ASSUME NEW kind \in LineKinds
  PROVE  Text(kind) \o <<NL>> \in Seq(Chars)
<1>1. CodeOf(kind) \in Seq(Chars) /\ <<NL>> \in Seq(Chars)
  <2>1. Guard \in Seq(Chars) /\ GuardI \in Seq(Chars) /\ Word \in Seq(Chars) /\ <<NL>> \in Seq(Chars)
    BY ShortTexts DEF Guard, GuardI, Word, Chars
  <2> QED
    BY <2>1 DEF CodeOf
<1>2. UrlOf(kind) \in Seq(Chars)
  <2>1. <<"D", "A">> \in Seq(Chars) /\ <<"3", "A">> \in Seq(Chars) /\ <<"host", "verify", "=">> \in Seq(Chars)
    BY ShortTexts DEF Chars
  <2> QED
    BY <2>1, ConcatProperties DEF UrlOf, Url
<1>3. Text(kind) \in Seq(Chars)
  <2>1. CASE kind \in Labels
    <3>1. <<"K", "code", " ", "i", "s", ":", " ">> \in Seq(Chars)
      BY ShortTexts DEF Chars
    <3>2. Text(kind) = <<"K", "code", " ", "i", "s", ":", " ">> \o CodeOf(kind)
      BY <2>1 DEF Text, Labels, OwnLines
    <3> QED
      BY <1>1, <3>1, <3>2, ConcatProperties
  <2>2. CASE kind \in OwnLines
    <3>1. <<" ">> \in Seq(Chars)
      BY ShortTexts DEF Chars
    <3>2. Text(kind) = <<" ">> \o CodeOf(kind) \o <<" ">>
      BY <2>2 DEF Text, Labels, OwnLines
    <3>3. <<" ">> \o CodeOf(kind) \in Seq(Chars)
      BY <1>1, <3>1, ConcatProperties
    <3> QED
      BY <3>1, <3>2, <3>3, ConcatProperties
  <2>3. CASE kind = "about"
    <3>1. <<"code", " ">> \in Seq(Chars) /\ Word \in Seq(Chars)
      BY ShortTexts DEF Chars, Word
    <3>2. Text(kind) = <<"code", " ">> \o Word
      BY <2>3 DEF Text, Labels, OwnLines
    <3> QED
      BY <3>1, <3>2, ConcatProperties
  <2>4. CASE kind = "sentence"
    <3>1. Text(kind) = <<High, "=", " ", "code", ".">>
      BY <2>4 DEF Text, Labels, OwnLines
    <3>2. <<High, "=", " ", "code", ".">> \in Seq(Chars)
      BY ShortTexts DEF Chars
    <3> QED
      BY <3>1, <3>2
  <2>5. CASE kind = "html link"
    <3>1. <<"<", "K", "=", Quote>> \in Seq(Chars) /\ <<Quote, ">", "K">> \in Seq(Chars)
      BY ShortTexts DEF Chars
    <3>2. Text(kind) = <<"<", "K", "=", Quote>> \o UrlOf(kind) \o <<Quote, ">", "K">>
      BY <2>5 DEF Text, Labels, OwnLines
    <3>3. <<"<", "K", "=", Quote>> \o UrlOf(kind) \in Seq(Chars)
      BY <1>2, <3>1, ConcatProperties
    <3> QED
      BY <3>1, <3>2, <3>3, ConcatProperties
  <2>6. CASE kind = "bare link"
    <3>1. Text(kind) = UrlOf(kind)
      BY <2>6 DEF Text, Labels, OwnLines
    <3> QED
      BY <1>2, <3>1
  <2> QED
    BY <2>1, <2>2, <2>3, <2>4, <2>5, <2>6 DEF LineKinds, Links
<1> QED
  BY <1>1, <1>3, ConcatProperties

\* So is a mail.
LEMMA MailIsText ==
  ASSUME NEW ls \in Seq(LineKinds)
  PROVE  Mail(ls) \in Seq(Chars)
<1>1. PICK ts, n : ts = [i \in DOMAIN ls |-> Text(ls[i]) \o <<NL>>] /\ n = Len(ls)
  OBVIOUS
<1>2. n \in Nat /\ DOMAIN ls = 1..n
  BY <1>1, LenProperties
<1>3. \A i \in 1..n : Text(ls[i]) \o <<NL>> \in Seq(Chars)
  BY <1>1, <1>2, ElementOfSeq, LineIsText
<1>4. ts \in Seq(Seq(Chars)) /\ n = Len(ts)
  BY <1>1, <1>2, <1>3, IsASeq
<1>5. PICK F : Flattens(F, ts, n) /\ F[n] = FlattenSeq(ts)
  BY <1>2, <1>4, FlattenIs
<1>6. Fronts(F, ts, n, Chars)
  BY ONLY <1>2, <1>4, <1>5, FlattensPrefix
<1>7. F[n] \in Seq(Chars)
  <2>1. n \in 0..n
    BY <1>2
  <2> QED
    BY <1>6, <2>1 DEF Fronts
<1> QED
  BY <1>1, <1>5, <1>7 DEF Mail

TextIInv == lines \in Seq(LineKinds) /\ TextDecoded

\* steam-mail/src/lib.rs:146: a mail of any lines, sent as quoted-printable, is
\* read as it was written, byte by byte, wherever the sender broke its lines.
THEOREM TextDecodedHolds == MCSpec => []TextDecoded
<1>1. MCInit => TextIInv
  <2>1. \A n \in 1..TextLines : [1..n -> LineKinds] \subseteq Seq(LineKinds)
    BY IsASeq
  <2>2. <<>> \in Seq(LineKinds)
    BY EmptySeq
  <2> QED
    BY <2>1, <2>2 DEF MCInit, TextInit, TextIInv, TextDecoded
<1>2. TextIInv /\ [MCNext]_<<part, vars, text, auth>> => TextIInv'
  <2> SUFFICES ASSUME TextIInv, [MCNext]_<<part, vars, text, auth>>
               PROVE  TextIInv'
    OBVIOUS
  <2>1. ASSUME NEW p, Read(Encode(Mail(lines), p))
        PROVE  TextIInv'
    <3>1. lines' = lines /\ decoded' = Decode(Encode(Mail(lines), p))
      BY <2>1 DEF Read
    <3>2. PICK ls : ls = lines
      OBVIOUS
    <3>3. Mail(ls) \in Seq(Chars)
      BY <3>2, MailIsText DEF TextIInv
    <3>4. Decode(Encode(Mail(ls), p)) = ByteByByte(Mail(ls))
      BY <3>3, DecodesWhatWasSent
    <3>5. decoded' = ByteByByte(Mail(ls)) /\ ls = lines'
      BY <3>1, <3>2, <3>4
    <3>6. decoded' = ByteByByte(Mail(lines'))
      BY <3>5
    <3>7. TextDecoded'
      BY <3>6 DEF TextDecoded, Mail
    <3> QED
      BY <3>1, <3>7 DEF TextIInv
  <2>2. CASE UNCHANGED text
    <3>1. lines' = lines /\ decoded' = decoded
      BY <2>2 DEF text
    <3> QED
      BY <3>1 DEF TextIInv, TextDecoded, Mail
  <2> QED
    BY <2>1, <2>2 DEF MCNext
<1> QED
  BY <1>1, <1>2, PTL DEF MCSpec, TextIInv

=============================================================================
