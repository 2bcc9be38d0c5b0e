---------------------------- MODULE OutputProofs ----------------------------
(***************************************************************************)
(* Proofs about what the program prints, the two parts MCOutput runs: the  *)
(* progress of a download (ChunkProgress) and the command (Cli).           *)
(*                                                                         *)
(* About ChunkProgress, for any number of tasks, any sizes, any total and  *)
(* any rounding. ProgressIInv is inductive: the chunk counter counts the   *)
(* tasks that are past it and somebody knows its last value (CountInv),    *)
(* what is above a threshold when the threshold is replaced (PctsInv),     *)
(* what the tasks that are through have printed (LinesInv), and that what  *)
(* is printed was stored by one task alone (AnnouncedInv).                 *)
(*                                                                         *)
(* About Cli, for any depots, any manifests and any set of commands:       *)
(* CliIInv is inductive.  It says which lines are out at each place of     *)
(* main, in which order, and which files a failure has left.               *)
(***************************************************************************)
EXTENDS MCOutput, SequenceTheorems, FiniteSetTheorems, TLAPS

Percentage == 0..100

Counted == {t \in Task : pc[t] \notin {"fetch_add_bytes", "fetch_add_chunks"}}
Finished == {t \in Task : pc[t] \in {"dropped", "done"}}

\* The counter counts the tasks past it; the one that counted last knows its
\* value, and no task reports less than it knows.
CountInv ==
  /\ own_bytes \in [Task -> Nat]
  /\ chunks_done = Cardinality(Counted)
  /\ chunks_done > 0 => \E t \in Counted : own_chunks[t] = chunks_done
  /\ \A t \in Counted : pc[t] # "load_chunks" => progress[t].chunks >= own_chunks[t]

\* A task that is about to replace the threshold has more than what it loaded.
PctsInv ==
  /\ Len(pcts) >= 1 /\ pcts[1] = NotStarted
  /\ \A i \in 2..Len(pcts) : pcts[i] \in Percentage
  /\ \A i, k \in 2..Len(pcts) : i < k => pcts[i] < pcts[k]
  /\ \A t \in Task : pc[t] = "compare_exchange" => prev[t] = NotStarted \/ prev[t] < pct(t)

\* Every line is of another task; in human mode no task is turned away before
\* the throttle, which lets the full count through.
LinesInv ==
  /\ Len(lines) <= Cardinality(Finished)
  /\ mode = "json" => lines \in Seq([bytes : Nat, pct : Percentage])
  /\ mode = "human" =>
       /\ lines \in Seq([chunks : 0..NTasks, bytes : Nat])
       /\ \A t \in Task :
            /\ pc[t] \notin {"load_pct", "compare_exchange", "dropped"}
            /\ pc[t] = "done" /\ progress[t].chunks = NTasks =>
                 \E i \in 1..Len(lines) : lines[i].chunks = NTasks

\* What was announced or is about to be was stored, and by one task only.
AnnouncedInv ==
  mode = "json" =>
    /\ \A t \in Task : pc[t] = "print" => Stored(pct(t))
    /\ \A t, u \in Task : pc[t] = "print" /\ pc[u] = "print" /\ pct(t) = pct(u) => t = u
    /\ \A i \in 1..Len(lines) :
         /\ Stored(lines[i].pct)
         /\ \A t \in Task : pc[t] = "print" => lines[i].pct # pct(t)
    /\ \A i, k \in 1..Len(lines) : lines[i].pct = lines[k].pct => i = k

ProgressIInv == TypeOK /\ CountInv /\ PctsInv /\ LinesInv /\ AnnouncedInv

-----------------------------------------------------------------------------
(* Facts about the operators of the model *)

\* A percentage is one, however the quotient is rounded.
LEMMA PercentFacts ==
  \A bytes \in Nat : percent(bytes) \in Percentage
<1>1. SUFFICES ASSUME NEW bytes \in Nat PROVE percent(bytes) \in Percentage
  OBVIOUS
<1> DEFINE p == IF bytes_total = 0 THEN 0 ELSE (bytes * 100) \div bytes_total
           q == IF bytes \in RoundsDown /\ p > 0 THEN p - 1 ELSE p
<1>2. p \in Nat
  <2>1. \A n \in Nat, m \in Nat \ {0} : n \div m \in Nat
    BY SMT
  <2>2. bytes * 100 \in Nat
    OBVIOUS
  <2> QED
    BY <2>1, <2>2, ProgressAssumption
<1>3. q \in Nat
  <2> HIDE DEF p
  <2> QED
    BY <1>2
<1>4. percent(bytes) = IF q > 100 THEN 100 ELSE q
  BY DEF percent
<1> QED
  <2> HIDE DEF q
  <2> QED
    BY <1>3, <1>4 DEF Percentage

\* There are NTasks tasks, and no more than that have got anywhere.
LEMMA TaskCount ==
  /\ IsFiniteSet(Task) /\ Cardinality(Task) = NTasks /\ NTasks \in Nat
  /\ \A S \in SUBSET Task : IsFiniteSet(S) /\ Cardinality(S) \in 0..NTasks
<1>1. NTasks \in Nat
  BY ProgressAssumption
<1>2. IsFiniteSet(Task) /\ Cardinality(Task) = NTasks
  BY <1>1, FS_Interval DEF Task
<1>3. ASSUME NEW S \in SUBSET Task PROVE IsFiniteSet(S) /\ Cardinality(S) \in 0..NTasks
  BY <1>1, <1>2, FS_Subset, FS_CardinalityType
<1> QED
  BY <1>1, <1>2, <1>3

\* One more task is one more, and still no more than there are.
LEMMA OneMore ==
  ASSUME NEW S \in SUBSET Task, NEW t \in Task, t \notin S
  PROVE  Cardinality(S \cup {t}) = Cardinality(S) + 1 /\ Cardinality(S) + 1 \in 0..NTasks
<1>1. IsFiniteSet(S) /\ S \cup {t} \in SUBSET Task
  BY TaskCount
<1>2. Cardinality(S \cup {t}) = Cardinality(S) + 1
  BY <1>1, FS_AddElement
<1> QED
  BY <1>1, <1>2, TaskCount

-----------------------------------------------------------------------------
(* The steps *)

\* The types are kept: the counter stays within the number of tasks.
LEMMA TypeStep ==
  ProgressIInv /\ [Next]_vars => TypeOK'
<1> SUFFICES ASSUME ProgressIInv, [Next]_vars
             PROVE  TypeOK'
  OBVIOUS
<1>t. TypeOK /\ own_bytes \in [Task -> Nat] /\ Len(bytes_downloaded) \in Nat /\ Len(pcts) \in Nat
      /\ NTasks \in Nat
  BY ProgressAssumption DEF ProgressIInv, CountInv, TypeOK
<1>1. ASSUME NEW t \in Task, FetchAddBytes(t), UNCHANGED mode PROVE TypeOK'
  <2>1. Newest(bytes_downloaded) \in Nat
    BY <1>t, ElementOfSeq DEF TypeOK, Newest
  <2>2. Newest(bytes_downloaded) + SizeOf[t] \in Nat
    BY <2>1, ProgressAssumption DEF Task
  <2>3. bytes_downloaded' \in Seq(Nat) /\ Len(bytes_downloaded') = Len(bytes_downloaded) + 1
    BY <1>1, <1>t, <2>2, AppendProperties DEF FetchAddBytes, TypeOK
  <2>4. \A u \in Task : own_bytes'[u] \in 1..Len(bytes_downloaded')
    <3>1. SUFFICES ASSUME NEW u \in Task PROVE own_bytes'[u] \in 1..Len(bytes_downloaded')
      OBVIOUS
    <3>2. own_bytes[u] \in 1..Len(bytes_downloaded)
      BY <1>t DEF TypeOK
    <3>3. own_bytes'[u] = IF u = t THEN Len(bytes_downloaded') ELSE own_bytes[u]
      BY <1>1, <1>t DEF FetchAddBytes
    <3> QED
      BY <1>t, <2>3, <3>2, <3>3
  <2> QED
    BY <1>1, <1>t, <2>3, <2>4 DEF FetchAddBytes, Goto, TypeOK
<1>2. ASSUME NEW t \in Task, FetchAddChunks(t), UNCHANGED mode PROVE TypeOK'
  <2>1. chunks_done + 1 \in 0..NTasks
    <3>1. Counted \in SUBSET Task /\ t \notin Counted
      BY <1>2 DEF FetchAddChunks, Counted
    <3> QED
      BY <3>1, OneMore DEF ProgressIInv, CountInv
  <2>2. own_chunks' \in [Task -> 0..chunks_done']
    <3>1. chunks_done \in Nat /\ own_chunks \in [Task -> 0..chunks_done] /\ chunks_done' = chunks_done + 1
          /\ own_chunks' = [own_chunks EXCEPT ![t] = chunks_done + 1]
      BY <1>2, <1>t DEF FetchAddChunks, TypeOK
    <3> QED
      BY <3>1
  <2> QED
    BY <1>2, <1>t, <2>1, <2>2 DEF FetchAddChunks, Goto, TypeOK
<1>3. ASSUME NEW t \in Task, LoadChunks(t), UNCHANGED mode PROVE TypeOK'
  <2>1. PICK n \in own_chunks[t]..chunks_done : progress' = [progress EXCEPT ![t].chunks = n]
    BY <1>3 DEF LoadChunks
  <2>2. n \in 0..NTasks
    BY <1>t, <2>1 DEF TypeOK
  <2>3. progress' \in [Task -> [chunks : 0..NTasks, bytes : Nat]]
    BY <1>t, <2>1, <2>2 DEF TypeOK
  <2> QED
    BY <1>3, <1>t, <2>3 DEF LoadChunks, Goto, TypeOK
<1>4. ASSUME NEW t \in Task, LoadBytes(t), UNCHANGED mode PROVE TypeOK'
  <2>1. PICK i \in own_bytes[t]..Len(bytes_downloaded) :
          progress' = [progress EXCEPT ![t].bytes = bytes_downloaded[i]]
    BY <1>4 DEF LoadBytes
  <2>2. i \in 1..Len(bytes_downloaded)
    BY <1>t, <2>1 DEF TypeOK
  <2>3. bytes_downloaded[i] \in Nat
    BY <1>t, <2>2, ElementOfSeq DEF TypeOK
  <2>4. progress' \in [Task -> [chunks : 0..NTasks, bytes : Nat]]
    BY <1>t, <2>1, <2>3 DEF TypeOK
  <2> QED
    BY <1>4, <1>t, <2>4 DEF LoadBytes, Goto, TypeOK
<1>5. ASSUME NEW t \in Task, LoadPct(t), UNCHANGED mode PROVE TypeOK'
  <2>1. PICK i \in 1..Len(pcts) : prev' = [prev EXCEPT ![t] = pcts[i]]
    BY <1>5 DEF LoadPct
  <2>2. pcts[i] \in {NotStarted} \cup 0..100
    BY <1>t, <2>1, ElementOfSeq DEF TypeOK
  <2>3. pc' \in [Task -> {"fetch_add_bytes", "fetch_add_chunks", "load_chunks", "load_bytes",
                          "load_pct", "compare_exchange", "print", "dropped", "done"}]
    <3>1. PICK at \in {"compare_exchange", "done"} : pc' = [pc EXCEPT ![t] = at]
      BY <1>5 DEF LoadPct, Goto
    <3> QED
      BY <1>t, <3>1 DEF TypeOK
  <2> QED
    BY <1>5, <1>t, <2>1, <2>2, <2>3 DEF LoadPct, TypeOK
<1>6. ASSUME NEW t \in Task, CompareExchange(t), UNCHANGED mode PROVE TypeOK'
  <2>1. pct(t) \in {NotStarted} \cup 0..100
    BY <1>t, PercentFacts DEF pct, TypeOK, Percentage
  <2>2. pcts' \in Seq({NotStarted} \cup 0..100)
    <3>1. Append(pcts, pct(t)) \in Seq({NotStarted} \cup 0..100)
      BY <1>t, <2>1, AppendProperties DEF TypeOK
    <3>2. pcts' = Append(pcts, pct(t)) \/ pcts' = pcts
      BY <1>6 DEF CompareExchange
    <3> QED
      BY <1>t, <3>1, <3>2 DEF TypeOK
  <2>3. pc' \in [Task -> {"fetch_add_bytes", "fetch_add_chunks", "load_chunks", "load_bytes",
                          "load_pct", "compare_exchange", "print", "dropped", "done"}]
    BY <1>6, <1>t DEF CompareExchange, Goto, TypeOK
  <2> QED
    BY <1>6, <1>t, <2>2, <2>3 DEF CompareExchange, TypeOK
<1>7. ASSUME NEW t \in Task, PrintJson(t) \/ PrintHuman(t), UNCHANGED mode PROVE TypeOK'
  <2>1. Len(lines') <= NTasks
    <3>1. Len(lines) \in Nat /\ Len(lines') \in Nat /\ Len(lines') <= Len(lines) + 1
      <4>1. mode \in {"json", "human"}
        BY <1>t DEF TypeOK
      <4>2. CASE mode = "json"
        <5>1. lines \in Seq([bytes : Nat, pct : Percentage])
          BY <4>2 DEF ProgressIInv, LinesInv
        <5>2. [bytes |-> progress[t].bytes, pct |-> pct(t)] \in [bytes : Nat, pct : Percentage]
          BY <1>t, PercentFacts DEF pct, TypeOK
        <5> QED
          BY <1>7, <4>2, <5>1, <5>2, AppendProperties DEF PrintJson, PrintHuman
      <4>3. CASE mode = "human"
        <5>1. lines \in Seq([chunks : 0..NTasks, bytes : Nat])
          BY <4>3 DEF ProgressIInv, LinesInv
        <5>2. progress[t] \in [chunks : 0..NTasks, bytes : Nat]
          BY <1>t DEF TypeOK
        <5> QED
          BY <1>7, <4>3, <5>1, <5>2, AppendProperties DEF PrintJson, PrintHuman
      <4> QED
        BY <4>1, <4>2, <4>3
    <3>2. Finished \in SUBSET Task /\ t \notin Finished
      BY <1>7 DEF PrintJson, PrintHuman, Finished
    <3>3. Cardinality(Finished) + 1 \in 0..NTasks /\ Cardinality(Finished) \in 0..NTasks
      BY <3>2, OneMore, TaskCount
    <3>4. Len(lines) <= Cardinality(Finished)
      BY DEF ProgressIInv, LinesInv
    <3> QED
      BY <1>t, <3>1, <3>3, <3>4
  <2> QED
    BY <1>7, <1>t, <2>1 DEF PrintJson, PrintHuman, Goto, TypeOK
<1>8. CASE UNCHANGED vars
  BY <1>8, <1>t DEF vars, TypeOK
<1> QED
  BY <1>1, <1>2, <1>3, <1>4, <1>5, <1>6, <1>7, <1>8 DEF Next, Step

\* The counter goes on counting: the task that counts is one more, and knows
\* the new value.
LEMMA CountStep ==
  ProgressIInv /\ [Next]_vars => CountInv'
<1> SUFFICES ASSUME ProgressIInv, [Next]_vars
             PROVE  CountInv'
  OBVIOUS
<1>t. TypeOK /\ CountInv /\ Len(bytes_downloaded) \in Nat /\ NTasks \in Nat
  BY ProgressAssumption DEF ProgressIInv, TypeOK
\* A task that counted before and counts again is the same in what it knows.
<1>1. ASSUME NEW t \in Task, FetchAddBytes(t) PROVE CountInv'
  <2>1. Len(bytes_downloaded') \in Nat
    <3>1. Len(bytes_downloaded) \in Nat /\ bytes_downloaded \in Seq(Nat) /\ own_bytes[t] \in 1..Len(bytes_downloaded)
      BY <1>t DEF TypeOK
    <3>2. Newest(bytes_downloaded) \in Nat
      BY <3>1, ElementOfSeq DEF Newest
    <3>3. Newest(bytes_downloaded) + SizeOf[t] \in Nat
      BY <3>2, ProgressAssumption DEF Task
    <3> QED
      BY <1>1, <3>1, <3>3, AppendProperties DEF FetchAddBytes
  <2>2. own_bytes' \in [Task -> Nat]
    BY <1>1, <1>t, <2>1 DEF FetchAddBytes, CountInv
  <2>3. Counted' = Counted /\ UNCHANGED <<chunks_done, own_chunks, progress>>
    BY <1>1, <1>t DEF FetchAddBytes, Goto, Counted, TypeOK
  <2>4. \A u \in Counted : pc'[u] = pc[u]
    BY <1>1, <1>t DEF FetchAddBytes, Goto, Counted, TypeOK
  <2> QED
    BY <1>t, <2>2, <2>3, <2>4 DEF CountInv
<1>2. ASSUME NEW t \in Task, FetchAddChunks(t) PROVE CountInv'
  <2>1. t \notin Counted /\ Counted \in SUBSET Task
    BY <1>2 DEF FetchAddChunks, Counted
  <2>2. Counted' = Counted \cup {t}
    BY <1>2, <1>t DEF FetchAddChunks, Goto, Counted, TypeOK
  <2>3. chunks_done' = Cardinality(Counted') /\ chunks_done' = chunks_done + 1
    BY <1>2, <1>t, <2>1, <2>2, OneMore DEF FetchAddChunks, CountInv
  <2>4. own_chunks'[t] = chunks_done' /\ \A u \in Task \ {t} : own_chunks'[u] = own_chunks[u]
    BY <1>2, <1>t DEF FetchAddChunks, TypeOK
  <2>5. pc'[t] = "load_chunks" /\ \A u \in Task \ {t} : pc'[u] = pc[u]
    BY <1>2, <1>t DEF FetchAddChunks, Goto, TypeOK
  <2>6. UNCHANGED <<own_bytes, progress>>
    BY <1>2 DEF FetchAddChunks
  <2>7. \A u \in Counted' : pc'[u] # "load_chunks" => progress'[u].chunks >= own_chunks'[u]
    BY <1>t, <2>1, <2>2, <2>4, <2>5, <2>6 DEF CountInv
  <2> QED
    BY <1>t, <2>2, <2>3, <2>4, <2>6, <2>7 DEF CountInv
<1>3. ASSUME NEW t \in Task, t \in Counted, t \in Counted', \A u \in Task \ {t} : pc'[u] = pc[u],
             UNCHANGED <<own_bytes, chunks_done, own_chunks>>,
             \A u \in Task \ {t} : progress'[u] = progress[u],
             progress'[t].chunks >= own_chunks[t]
      PROVE  CountInv'
  <2>1. Counted' = Counted
    BY <1>3 DEF Counted
  <2> QED
    BY <1>3, <1>t, <2>1 DEF CountInv, Counted
<1>4. ASSUME NEW t \in Task, LoadChunks(t) PROVE CountInv'
  <2>1. PICK n \in own_chunks[t]..chunks_done : progress' = [progress EXCEPT ![t].chunks = n]
    BY <1>4 DEF LoadChunks
  <2>2. t \in Counted /\ t \in Counted' /\ \A u \in Task \ {t} : pc'[u] = pc[u]
    BY <1>4, <1>t DEF LoadChunks, Goto, Counted, TypeOK
  <2>3. progress'[t].chunks = n /\ \A u \in Task \ {t} : progress'[u] = progress[u]
    BY <1>t, <2>1 DEF TypeOK
  <2>4. n >= own_chunks[t]
    BY <1>t, <2>1 DEF TypeOK
  <2> QED
    BY <1>3, <1>4, <2>2, <2>3, <2>4 DEF LoadChunks
\* After that no task changes what it knows or reports of the chunks.
<1>5. ASSUME NEW t \in Task, pc[t] \notin {"fetch_add_bytes", "fetch_add_chunks", "load_chunks"},
             NEW place, place \notin {"fetch_add_bytes", "fetch_add_chunks"}, Goto(t, place),
             UNCHANGED <<own_bytes, chunks_done, own_chunks>>,
             \A u \in Task : progress'[u].chunks = progress[u].chunks
      PROVE  CountInv'
  <2>1. Counted' = Counted /\ t \in Counted
    BY <1>5, <1>t DEF Goto, Counted, TypeOK
  <2>2. \A u \in Counted \ {t} : pc'[u] = pc[u]
    BY <1>5, <1>t DEF Goto, Counted, TypeOK
  <2>3. \A u \in Counted' : pc'[u] # "load_chunks" => progress'[u].chunks >= own_chunks'[u]
    <3>1. SUFFICES ASSUME NEW u \in Counted PROVE progress[u].chunks >= own_chunks[u] \/ pc'[u] = "load_chunks"
      BY <1>5, <2>1 DEF Counted
    <3>2. pc[u] = "load_chunks" => pc'[u] = "load_chunks"
      BY <1>5, <2>2
    <3> QED
      BY <1>t, <3>1, <3>2 DEF CountInv
  <2> QED
    BY <1>5, <1>t, <2>1, <2>3 DEF CountInv
<1>6. ASSUME NEW t \in Task, LoadBytes(t) PROVE CountInv'
  <2>1. PICK i \in own_bytes[t]..Len(bytes_downloaded) :
          progress' = [progress EXCEPT ![t].bytes = bytes_downloaded[i]]
    BY <1>6 DEF LoadBytes
  <2>2. \A u \in Task : progress'[u].chunks = progress[u].chunks
    BY <1>t, <2>1 DEF TypeOK
  <2>3. Goto(t, IF mode = "json" THEN "load_pct" ELSE "print") /\ pc[t] = "load_bytes"
        /\ UNCHANGED <<own_bytes, chunks_done, own_chunks>>
    BY <1>6 DEF LoadBytes
  <2> QED
    BY <1>5, <2>2, <2>3
<1>7. ASSUME NEW t \in Task, LoadPct(t) \/ CompareExchange(t) \/ PrintJson(t) \/ PrintHuman(t)
      PROVE  CountInv'
  <2>1. /\ pc[t] \in {"load_pct", "compare_exchange", "print"}
        /\ UNCHANGED <<own_bytes, chunks_done, own_chunks, progress>>
        /\ \E place \in {"done", "compare_exchange", "print", "dropped"} : Goto(t, place)
    BY <1>7 DEF LoadPct, CompareExchange, PrintJson, PrintHuman
  <2> QED
    BY <1>5, <2>1
<1>8. CASE UNCHANGED vars
  BY <1>8, <1>t DEF vars, CountInv, Counted
<1> QED
  BY <1>1, <1>2, <1>4, <1>6, <1>7, <1>8 DEF Next, Step

\* What replaces the threshold is above everything that was stored.
LEMMA AboveAll ==
  ASSUME ProgressIInv, NEW t \in Task, CompareExchange(t), Newest(pcts) = prev[t]
  PROVE  \A i \in 2..Len(pcts) : pcts[i] < pct(t)
<1> DEFINE n == Len(pcts)
<1>t. TypeOK /\ PctsInv /\ n \in Nat
  BY DEF ProgressIInv, TypeOK
<1>1. pct(t) \in Percentage
  BY <1>t, PercentFacts DEF pct, TypeOK
<1>2. pcts[n] = NotStarted \/ pcts[n] < pct(t)
  BY <1>t DEF CompareExchange, Newest, PctsInv
<1>3. SUFFICES ASSUME NEW i \in 2..n PROVE pcts[i] < pct(t)
  OBVIOUS
<1>4. /\ pcts[n] \in 0..100 /\ pcts[i] \in 0..100 /\ NotStarted = 101
      /\ pct(t) \in 0..100 /\ (i < n => pcts[i] < pcts[n])
  BY <1>t, <1>1 DEF PctsInv, Percentage, NotStarted
<1>5. i = n \/ i < n
  BY <1>t
<1>6. pcts[n] # NotStarted
  <2>1. \A x \in 0..100 : x # 101
    OBVIOUS
  <2> QED
    BY <1>4, <2>1
<1>7. pcts[n] < pct(t)
  BY <1>2, <1>6
<1>8. CASE i < n
  <2> HIDE DEF n
  <2>1. \A x, y, z \in 0..100 : x < y /\ y < z => x < z
    OBVIOUS
  <2> QED
    BY <1>4, <1>7, <1>8, <2>1
<1> QED
  BY <1>5, <1>7, <1>8

\* A threshold is replaced by a higher one.
LEMMA PctsStep ==
  ProgressIInv /\ [Next]_vars => PctsInv'
<1> SUFFICES ASSUME ProgressIInv, [Next]_vars
             PROVE  PctsInv'
  OBVIOUS
<1>t. TypeOK /\ PctsInv /\ Len(pcts) \in Nat
  BY DEF ProgressIInv, TypeOK
\* What a task announces does not change once its counts are read.
<1>1. ASSUME NEW t \in Task, pc[t] # "compare_exchange", NEW place, place # "compare_exchange",
             Goto(t, place), UNCHANGED <<pcts, prev>>,
             \A u \in Task \ {t} : progress'[u] = progress[u]
      PROVE  PctsInv'
  <2>1. \A u \in Task : pc'[u] = "compare_exchange" =>
          u # t /\ pc[u] = "compare_exchange" /\ pct(u)' = pct(u)
    BY <1>1, <1>t DEF Goto, TypeOK, pct
  <2> QED
    BY <1>1, <1>t, <2>1 DEF PctsInv
<1>2. ASSUME NEW t \in Task, FetchAddBytes(t) \/ FetchAddChunks(t) \/ PrintJson(t) \/ PrintHuman(t)
      PROVE  PctsInv'
  <2>1. /\ pc[t] # "compare_exchange" /\ UNCHANGED <<pcts, prev, progress>>
        /\ \E place \in {"fetch_add_chunks", "load_chunks", "done"} : Goto(t, place)
    BY <1>2 DEF FetchAddBytes, FetchAddChunks, PrintJson, PrintHuman
  <2> QED
    BY <1>1, <2>1
<1>3. ASSUME NEW t \in Task, LoadChunks(t) PROVE PctsInv'
  <2>1. \A u \in Task \ {t} : progress'[u] = progress[u]
    BY <1>3, <1>t DEF LoadChunks, TypeOK
  <2> QED
    BY <1>1, <1>3, <2>1 DEF LoadChunks
<1>4. ASSUME NEW t \in Task, LoadBytes(t) PROVE PctsInv'
  <2>1. \A u \in Task \ {t} : progress'[u] = progress[u]
    BY <1>4, <1>t DEF LoadBytes, TypeOK
  <2> QED
    BY <1>1, <1>4, <2>1 DEF LoadBytes
<1>5. ASSUME NEW t \in Task, LoadPct(t) PROVE PctsInv'
  <2>1. PICK i \in 1..Len(pcts) :
          /\ prev' = [prev EXCEPT ![t] = pcts[i]]
          /\ IF pcts[i] # NotStarted /\ pct(t) <= pcts[i]
               THEN Goto(t, "done")
               ELSE Goto(t, "compare_exchange")
    BY <1>5 DEF LoadPct
  <2>2. UNCHANGED <<pcts, progress>> /\ \A u \in Task : pct(u)' = pct(u)
    BY <1>5 DEF LoadPct, pct
  <2>3. pct(t) \in Nat /\ (pcts[i] = NotStarted \/ pcts[i] \in Nat)
    <3>1. pcts[i] \in {NotStarted} \cup 0..100
      BY <1>t, <2>1, ElementOfSeq DEF TypeOK
    <3>2. pct(t) \in Percentage
      BY <1>t, PercentFacts DEF pct, TypeOK
    <3>3. \A x \in 0..100 : x \in Nat
      OBVIOUS
    <3>4. pct(t) \in Nat
      BY <3>2, <3>3 DEF Percentage
    <3>5. pcts[i] = NotStarted \/ pcts[i] \in 0..100
      BY <3>1
    <3> QED
      BY <3>3, <3>4, <3>5
  <2>4. prev'[t] = pcts[i] /\ \A u \in Task \ {t} : prev'[u] = prev[u] /\ pc'[u] = pc[u]
    BY <1>t, <2>1 DEF TypeOK, Goto
  <2>5. pc'[t] = "compare_exchange" => pcts[i] = NotStarted \/ pcts[i] < pct(t)
    BY <1>t, <2>1, <2>3 DEF TypeOK, Goto
  <2>6. \A u \in Task : pc'[u] = "compare_exchange" => prev'[u] = NotStarted \/ prev'[u] < pct(u)'
    BY <1>t, <2>2, <2>4, <2>5 DEF PctsInv
  <2> QED
    BY <1>t, <2>2, <2>6 DEF PctsInv
<1>6. ASSUME NEW t \in Task, CompareExchange(t) PROVE PctsInv'
  <2>1. UNCHANGED <<prev, progress>> /\ \A u \in Task : pct(u)' = pct(u)
    BY <1>6 DEF CompareExchange, pct
  <2>2. \A u \in Task : pc'[u] = "compare_exchange" => pc[u] = "compare_exchange"
    BY <1>6, <1>t DEF CompareExchange, Goto, TypeOK
  <2>3. CASE UNCHANGED pcts
    BY <1>t, <2>1, <2>2, <2>3 DEF PctsInv
  <2>4. CASE Newest(pcts) = prev[t] /\ pcts' = Append(pcts, pct(t))
    <3> DEFINE n == Len(pcts)
    <3>1. pct(t) \in Percentage /\ pct(t) \in {NotStarted} \cup 0..100
      BY <1>t, PercentFacts DEF pct, TypeOK, Percentage
    <3>2. /\ Len(pcts') = n + 1 /\ pcts'[n + 1] = pct(t)
          /\ \A i \in 1..n : pcts'[i] = pcts[i]
      BY <1>t, <2>4, <3>1, AppendProperties DEF TypeOK
    <3>4. \A i \in 2..n : pcts[i] < pct(t)
      BY <1>6, <2>4, AboveAll
    <3>5. \A i \in 2..n + 1 : pcts'[i] \in Percentage
      BY <1>t, <3>1, <3>2 DEF PctsInv
    <3>6. \A i, k \in 2..n + 1 : i < k => pcts'[i] < pcts'[k]
      <4>1. SUFFICES ASSUME NEW i \in 2..n + 1, NEW k \in 2..n + 1, i < k
                     PROVE  pcts'[i] < pcts'[k]
        OBVIOUS
      <4>2. i \in 2..n /\ (k \in 2..n \/ k = n + 1)
        BY <1>t, <4>1
      <4> QED
        BY <1>t, <3>2, <3>4, <4>1, <4>2 DEF PctsInv
    <3>7. Len(pcts') >= 1 /\ pcts'[1] = NotStarted
      BY <1>t, <3>2 DEF PctsInv
    <3> QED
      BY <1>t, <2>1, <2>2, <3>2, <3>5, <3>6, <3>7 DEF PctsInv
  <2> QED
    BY <1>6, <2>3, <2>4 DEF CompareExchange
<1>7. CASE UNCHANGED vars
  BY <1>7, <1>t DEF vars, PctsInv, pct
<1> QED
  BY <1>2, <1>3, <1>4, <1>5, <1>6, <1>7 DEF Next, Step

\* A task that is through has printed its line, unless it was turned away; the
\* throttle never turns away the full count.
LEMMA LinesStep ==
  ProgressIInv /\ [Next]_vars => LinesInv'
<1> SUFFICES ASSUME ProgressIInv, [Next]_vars
             PROVE  LinesInv'
  OBVIOUS
<1>t. TypeOK /\ LinesInv /\ NTasks \in Nat
  BY ProgressAssumption DEF ProgressIInv
<1>m. mode' = mode
  BY DEF Next, vars
<1>f. Finished \in SUBSET Task /\ Cardinality(Finished) \in Nat
  BY TaskCount DEF Finished
\* A step that prints nothing and finishes at most a task of JSON mode.
<1>1. ASSUME NEW t \in Task, NEW place, Goto(t, place), UNCHANGED lines,
             pc[t] \notin {"dropped", "done"},
             mode = "human" => place \notin {"load_pct", "compare_exchange", "dropped", "done"},
             \A u \in Task \ {t} : progress'[u] = progress[u]
      PROVE  LinesInv'
  <2>1. pc'[t] = place /\ \A u \in Task \ {t} : pc'[u] = pc[u]
    BY <1>1, <1>t DEF Goto, TypeOK
  <2>2. Finished' = Finished \/ Finished' = Finished \cup {t}
    BY <1>1, <2>1 DEF Finished
  <2>3. Cardinality(Finished') \in Nat /\ Cardinality(Finished') >= Cardinality(Finished)
    <3>1. t \notin Finished
      BY <1>1 DEF Finished
    <3> QED
      BY <1>f, <2>2, <3>1, OneMore
  <2>4. Len(lines') <= Cardinality(Finished')
    <3>1. Len(lines) \in Nat
      BY <1>t DEF TypeOK, LinesInv
    <3> QED
      BY <1>1, <1>f, <1>t, <2>3, <3>1 DEF LinesInv
  <2>5. mode = "human" => \A u \in Task :
            /\ pc'[u] \notin {"load_pct", "compare_exchange", "dropped"}
            /\ pc'[u] = "done" /\ progress'[u].chunks = NTasks =>
                 \E i \in 1..Len(lines) : lines[i].chunks = NTasks
    BY <1>1, <1>t, <2>1 DEF LinesInv
  <2> QED
    BY <1>1, <1>m, <1>t, <2>4, <2>5 DEF LinesInv
<1>2. ASSUME NEW t \in Task, FetchAddBytes(t) \/ FetchAddChunks(t) PROVE LinesInv'
  BY <1>1, <1>2 DEF FetchAddBytes, FetchAddChunks
<1>3. ASSUME NEW t \in Task, LoadChunks(t) \/ LoadBytes(t) PROVE LinesInv'
  <2>1. \A u \in Task \ {t} : progress'[u] = progress[u]
    BY <1>3, <1>t DEF LoadChunks, LoadBytes, TypeOK
  <2>2. /\ UNCHANGED lines /\ pc[t] \notin {"dropped", "done"}
        /\ \/ Goto(t, "load_bytes")
           \/ Goto(t, IF mode = "json" THEN "load_pct" ELSE "print")
    BY <1>3 DEF LoadChunks, LoadBytes
  <2> QED
    BY <1>1, <2>1, <2>2
<1>4. ASSUME NEW t \in Task, LoadPct(t) \/ CompareExchange(t) PROVE LinesInv'
  <2>1. mode # "human"
    BY <1>4, <1>t DEF LoadPct, CompareExchange, LinesInv
  <2>2. /\ UNCHANGED <<lines, progress>> /\ pc[t] \notin {"dropped", "done"}
        /\ \E place : Goto(t, place)
    BY <1>4 DEF LoadPct, CompareExchange
  <2> QED
    BY <1>1, <2>1, <2>2
\* One more task is through, with at most one more line.
<1>5. ASSUME NEW t \in Task, pc[t] = "print", Goto(t, "done")
      PROVE  /\ pc'[t] = "done" /\ \A u \in Task \ {t} : pc'[u] = pc[u]
             /\ Cardinality(Finished') = Cardinality(Finished) + 1
  <2>1. pc'[t] = "done" /\ \A u \in Task \ {t} : pc'[u] = pc[u]
    BY <1>5, <1>t DEF Goto, TypeOK
  <2>2. Finished' = Finished \cup {t} /\ t \notin Finished
    BY <1>5, <2>1 DEF Finished
  <2> QED
    BY <1>f, <2>1, <2>2, OneMore
<1>6. ASSUME NEW t \in Task, PrintJson(t) PROVE LinesInv'
  <2> DEFINE L == [bytes |-> progress[t].bytes, pct |-> pct(t)]
             Line == [bytes : Nat, pct : Percentage]
  <2>1. mode = "json" /\ pc[t] = "print" /\ Goto(t, "done") /\ lines' = Append(lines, L)
    BY <1>6 DEF PrintJson
  <2>2. L \in Line
    BY <1>t, PercentFacts DEF pct, TypeOK
  <2>3. lines \in Seq(Line)
    BY <1>t, <2>1 DEF LinesInv
  <2>4. lines' \in Seq(Line) /\ Len(lines') = Len(lines) + 1 /\ Len(lines) \in Nat
    <3> HIDE DEF L, Line
    <3> QED
      BY <2>1, <2>2, <2>3, AppendProperties
  <2>5. Len(lines') <= Cardinality(Finished')
    BY <1>5, <1>f, <1>t, <2>1, <2>4 DEF LinesInv
  <2> QED
    BY <1>m, <2>1, <2>4, <2>5 DEF LinesInv
<1>7. ASSUME NEW t \in Task, PrintHuman(t) PROVE LinesInv'
  <2> DEFINE Line == [chunks : 0..NTasks, bytes : Nat]
  <2>1. /\ mode = "human" /\ pc[t] = "print" /\ Goto(t, "done") /\ UNCHANGED progress
        /\ \/ lines' = lines /\ progress[t].chunks # NTasks
           \/ lines' = Append(lines, progress[t])
    BY <1>7 DEF PrintHuman
  <2>2. lines \in Seq(Line) /\ progress[t] \in Line
    BY <1>t, <2>1 DEF LinesInv, TypeOK
  <2>3. /\ lines' \in Seq(Line) /\ Len(lines) \in Nat /\ Len(lines') \in Nat
        /\ Len(lines) <= Len(lines') /\ Len(lines') <= Len(lines) + 1
        /\ \A i \in 1..Len(lines) : lines'[i] = lines[i]
        /\ progress[t].chunks = NTasks =>
             Len(lines') \in 1..Len(lines') /\ lines'[Len(lines')] = progress[t]
    <3> HIDE DEF Line
    <3>1. CASE lines' = lines /\ progress[t].chunks # NTasks
      BY <2>2, <3>1
    <3>2. CASE lines' = Append(lines, progress[t])
      BY <2>2, <3>2, AppendProperties
    <3> QED
      BY <2>1, <3>1, <3>2
  <2>4. Len(lines') <= Cardinality(Finished')
    BY <1>5, <1>f, <1>t, <2>1, <2>3 DEF LinesInv
  <2>5. \A u \in Task :
          /\ pc'[u] \notin {"load_pct", "compare_exchange", "dropped"}
          /\ pc'[u] = "done" /\ progress'[u].chunks = NTasks =>
               \E i \in 1..Len(lines') : lines'[i].chunks = NTasks
    <3>1. SUFFICES ASSUME NEW u \in Task
                   PROVE  /\ pc'[u] \notin {"load_pct", "compare_exchange", "dropped"}
                          /\ pc'[u] = "done" /\ progress[u].chunks = NTasks =>
                               \E i \in 1..Len(lines') : lines'[i].chunks = NTasks
      BY <2>1
    <3>2. CASE u = t
      BY <1>5, <2>1, <2>3, <3>2
    <3>3. CASE u # t
      <4>1. pc'[u] = pc[u]
        BY <1>5, <2>1, <3>3
      <4>2. \A i \in 1..Len(lines) : i \in 1..Len(lines')
        <5> HIDE DEF Line
        <5> QED
          BY <2>3
      <4>3. \A i \in 1..Len(lines) : lines'[i] = lines[i]
        BY <2>3
      <4> QED
        BY <1>t, <2>1, <4>1, <4>2, <4>3 DEF LinesInv
    <3> QED
      BY <3>2, <3>3
  <2> QED
    BY <1>m, <2>1, <2>3, <2>4, <2>5 DEF LinesInv
<1>8. CASE UNCHANGED vars
  BY <1>8, <1>t DEF vars, LinesInv, Finished
<1> QED
  BY <1>2, <1>3, <1>4, <1>6, <1>7, <1>8 DEF Next, Step

\* A percentage is stored by one task, which prints it once.
LEMMA AnnouncedStep ==
  ProgressIInv /\ [Next]_vars => AnnouncedInv'
<1> SUFFICES ASSUME ProgressIInv, [Next]_vars, mode = "json"
             PROVE  AnnouncedInv'
  BY DEF Next, vars, AnnouncedInv
<1>t. TypeOK /\ AnnouncedInv /\ Len(pcts) \in Nat /\ Len(lines) \in Nat
  BY DEF ProgressIInv, TypeOK, LinesInv
\* A step that neither stores nor prints, of a task that comes from elsewhere.
<1>1. ASSUME NEW t \in Task, pc[t] # "print", NEW place, place # "print", Goto(t, place),
             UNCHANGED <<pcts, lines>>, \A u \in Task \ {t} : progress'[u] = progress[u]
      PROVE  AnnouncedInv'
  <2>1. \A u \in Task : pc'[u] = "print" => pc[u] = "print" /\ pct(u)' = pct(u)
    BY <1>1, <1>t DEF Goto, TypeOK, pct
  <2>2. \A p : Stored(p) => Stored(p)'
    BY <1>1 DEF Stored
  <2> QED
    BY <1>1, <1>t, <2>1, <2>2 DEF AnnouncedInv
<1>2. ASSUME NEW t \in Task, FetchAddBytes(t) \/ FetchAddChunks(t) \/ LoadPct(t) PROVE AnnouncedInv'
  <2>1. /\ pc[t] # "print" /\ UNCHANGED <<pcts, lines, progress>>
        /\ \E place \in {"fetch_add_chunks", "load_chunks", "done", "compare_exchange"} : Goto(t, place)
    BY <1>2 DEF FetchAddBytes, FetchAddChunks, LoadPct
  <2> QED
    BY <1>1, <2>1
<1>3. ASSUME NEW t \in Task, LoadChunks(t) \/ LoadBytes(t) PROVE AnnouncedInv'
  <2>1. \A u \in Task \ {t} : progress'[u] = progress[u]
    BY <1>3, <1>t DEF LoadChunks, LoadBytes, TypeOK
  <2>2. /\ pc[t] # "print" /\ UNCHANGED <<pcts, lines>>
        /\ \E place \in {"load_bytes", "load_pct"} : Goto(t, place)
    BY <1>3 DEF LoadChunks, LoadBytes
  <2> QED
    BY <1>1, <2>1, <2>2
<1>4. ASSUME NEW t \in Task, CompareExchange(t) PROVE AnnouncedInv'
  <2>1. UNCHANGED <<lines, progress>> /\ \A u \in Task : pct(u)' = pct(u)
    BY <1>4 DEF CompareExchange, pct
  <2>2. CASE UNCHANGED pcts /\ Goto(t, "dropped")
    BY <1>1, <1>4, <2>1, <2>2 DEF CompareExchange
  <2>3. CASE Newest(pcts) = prev[t] /\ pcts' = Append(pcts, pct(t)) /\ Goto(t, "print")
    <3> DEFINE n == Len(pcts)
    <3>0. \A x \in Percentage : x \in Nat /\ x \in {NotStarted} \cup 0..100
      BY DEF Percentage
    <3>1. pct(t) \in {NotStarted} \cup 0..100 /\ pct(t) \in Nat
      <4>1. pct(t) \in Percentage
        BY <1>t, PercentFacts DEF pct, TypeOK
      <4> QED
        BY <3>0, <4>1
    <3>2. /\ Len(pcts') = n + 1 /\ pcts'[n + 1] = pct(t) /\ n >= 1
          /\ \A i \in 1..n : pcts'[i] = pcts[i]
      BY <1>t, <2>3, <3>1, AppendProperties DEF TypeOK, ProgressIInv, PctsInv
    <3>3. \A p : Stored(p) => Stored(p)' /\ p # pct(t)
      <4>1. \A i \in 2..n : pcts[i] < pct(t) /\ pcts[i] \in Nat
        <5>1. \A i \in 2..n : pcts[i] < pct(t)
          BY <1>4, <2>3, AboveAll
        <5>2. \A i \in 2..n : pcts[i] \in Percentage
          BY DEF ProgressIInv, PctsInv
        <5> QED
          BY <3>0, <5>1, <5>2
      <4>2. \A i \in 2..n : i \in 2..Len(pcts') /\ pcts'[i] = pcts[i]
        BY <1>t, <3>2
      <4>3. \A i \in 2..n : pcts[i] # pct(t)
        BY <3>1, <4>1
      <4> QED
        BY <4>2, <4>3 DEF Stored
    <3>4. Stored(pct(t))'
      <4>1. n + 1 \in 2..Len(pcts')
        BY <1>t, <3>2
      <4> QED
        BY <2>1, <3>2, <4>1 DEF Stored
    <3>5. pc'[t] = "print" /\ \A u \in Task \ {t} : pc'[u] = pc[u]
      BY <1>t, <2>3 DEF Goto, TypeOK
    <3>6. \A u \in Task \ {t} : pc'[u] = "print" => Stored(pct(u)) /\ pct(u) # pct(t)
      BY <1>t, <3>3, <3>5 DEF AnnouncedInv
    <3>7. \A i \in 1..Len(lines) : Stored(lines[i].pct)' /\ lines[i].pct # pct(t)
      BY <1>t, <3>3, <2>1 DEF AnnouncedInv
    <3> QED
      BY <1>t, <2>1, <3>3, <3>4, <3>5, <3>6, <3>7 DEF AnnouncedInv
  <2> QED
    BY <1>4, <2>2, <2>3 DEF CompareExchange
<1>5. ASSUME NEW t \in Task, PrintJson(t) PROVE AnnouncedInv'
  <2> DEFINE L == [bytes |-> progress[t].bytes, pct |-> pct(t)]
             n == Len(lines)
  <2>1. pc[t] = "print" /\ Goto(t, "done") /\ lines' = Append(lines, L) /\ UNCHANGED <<pcts, progress>>
    BY <1>5 DEF PrintJson
  <2>2. /\ Len(lines') = n + 1 /\ lines'[n + 1] = L
        /\ \A i \in 1..n : lines'[i] = lines[i]
    <3>1. lines \in Seq([bytes : Nat, pct : Percentage])
      BY DEF ProgressIInv, LinesInv
    <3>2. L \in [bytes : Nat, pct : Percentage]
      BY <1>t, PercentFacts DEF pct, TypeOK
    <3> HIDE DEF L
    <3> QED
      BY <2>1, <3>1, <3>2, AppendProperties
  <2>3. \A p : Stored(p) <=> Stored(p)'
    BY <2>1 DEF Stored
  <2>4. \A u \in Task : pc'[u] = "print" => u # t /\ pc[u] = "print" /\ pct(u)' = pct(u)
    BY <1>t, <2>1 DEF Goto, TypeOK, pct
  <2>5. L.pct = pct(t) /\ Stored(pct(t)) /\ \A i \in 1..n : lines[i].pct # pct(t)
    BY <1>t, <2>1 DEF AnnouncedInv
  <2>6. \A i \in 1..n + 1 : i \in 1..n \/ i = n + 1
    BY <1>t
  <2>7. \A i \in 1..n + 1 : Stored(lines'[i].pct)
    BY <1>t, <2>2, <2>5, <2>6 DEF AnnouncedInv
  <2>8. \A i \in 1..n + 1 : \A u \in Task : pc'[u] = "print" => lines'[i].pct # pct(u)
    BY <1>t, <2>1, <2>2, <2>4, <2>5, <2>6 DEF AnnouncedInv
  <2>9. \A i, k \in 1..n + 1 : lines'[i].pct = lines'[k].pct => i = k
    BY <1>t, <2>2, <2>5, <2>6 DEF AnnouncedInv
  <2> QED
    BY <1>t, <2>1, <2>2, <2>3, <2>4, <2>7, <2>8, <2>9 DEF AnnouncedInv
<1>6. ASSUME NEW t \in Task, PrintHuman(t) PROVE AnnouncedInv'
  BY <1>6 DEF PrintHuman
<1>7. CASE UNCHANGED vars
  BY <1>7, <1>t DEF vars, AnnouncedInv, Stored, pct
<1> QED
  BY <1>2, <1>3, <1>4, <1>5, <1>6, <1>7 DEF Next, Step

\* Nothing has been counted, announced or printed at the start.
LEMMA ProgressInit ==
  Init => ProgressIInv
<1> SUFFICES ASSUME Init
             PROVE  ProgressIInv
  OBVIOUS
<1>1. Counted = {} /\ Cardinality(Counted) = 0 /\ Finished = {} /\ Cardinality(Finished) = 0
  BY FS_EmptySet DEF Init, Counted, Finished
<1>2. TypeOK
  BY ProgressAssumption DEF Init, TypeOK
<1>3. CountInv
  BY <1>1 DEF Init, CountInv
<1>4. PctsInv
  BY DEF Init, PctsInv
<1>5. LinesInv
  BY <1>1 DEF Init, LinesInv
<1>6. AnnouncedInv
  BY DEF Init, AnnouncedInv
<1> QED
  BY <1>2, <1>3, <1>4, <1>5, <1>6 DEF ProgressIInv

-----------------------------------------------------------------------------
(* The invariant and what follows from it *)

\* The invariant holds in every reachable state, however the tasks interleave
\* and however old the values are that their relaxed loads return.
THEOREM ProgressInvariance == Spec => []ProgressIInv
<1>1. ProgressIInv /\ [Next]_vars => ProgressIInv'
  BY TypeStep, CountStep, PctsStep, LinesStep, AnnouncedStep DEF ProgressIInv
<1> QED
  BY ProgressInit, <1>1, PTL DEF Spec

\* JSON: last_pct only rises, and what is announced was stored and is announced
\* by one line only.
THEOREM Announced == Spec => []EachPercentOnce
<1>1. ProgressIInv => EachPercentOnce
  BY DEF ProgressIInv, PctsInv, AnnouncedInv, EachPercentOnce
<1> QED
  BY ProgressInvariance, <1>1, PTL

\* Human: once all tasks are through, a line with the full number of chunks was
\* printed; its bytes may be older.
THEOREM FinalLine == Spec => []FinalLineShown
<1>1. ProgressIInv => FinalLineShown
  <2> SUFFICES ASSUME ProgressIInv, Through, mode = "human", NTasks > 0
               PROVE  \E i \in 1..Len(lines) : lines[i].chunks = NTasks
    BY DEF FinalLineShown
  <2>1. Counted = Task
    BY DEF Through, Counted
  <2>2. chunks_done = NTasks
    BY <2>1, TaskCount DEF ProgressIInv, CountInv
  <2>3. PICK t \in Task : t \in Counted /\ own_chunks[t] = NTasks
    BY <2>1, <2>2 DEF ProgressIInv, CountInv
  <2>4. pc[t] \in {"dropped", "done"}
    BY DEF Through
  <2>5. progress[t].chunks \in 0..NTasks /\ progress[t].chunks >= NTasks
    BY <2>3, <2>4 DEF ProgressIInv, CountInv, TypeOK
  <2>6. progress[t].chunks = NTasks /\ pc[t] = "done"
    BY <2>4, <2>5, ProgressAssumption DEF ProgressIInv, LinesInv
  <2> QED
    BY <2>6 DEF ProgressIInv, LinesInv
<1> QED
  BY ProgressInvariance, <1>1, PTL

-----------------------------------------------------------------------------
(* main *)

Line == Main!Lines \X (Depots \cup {0})

\* The depots whose preparation and whose completion main has announced.
Begun == {d \in Depots : Main!Said("prepare", d)}
Complete == {d \in Depots : Main!Said("complete", d)}

Early == {"list", "connect", "login", "info", "key", "plan", "manifests"}
Loop == {"decrypt", "tree", "chunks"}
Installs == {"download", "manifests", "install"} \subseteq options

\* Before the loop nothing is announced; in it the depots before the cursor are
\* complete if there is an installation, and no others; afterwards all are.
PlaceOk ==
  /\ stage \in Early => cursor = 0 /\ Begun = {} /\ Complete = {}
  /\ stage = "manifests" => plan # <<>>
  /\ stage \in Loop =>
       /\ cursor >= 1
       /\ \A i \in 1..Len(plan) : plan[i] \in Complete => i < cursor
       /\ "install" \in options => \A i \in 1..cursor - 1 : plan[i] \in Complete
  /\ stage \in {"tree", "chunks"} => plan[cursor] \in Begun
  /\ Installs /\ (stage = "shutdown" \/ exit = "ok") => \A i \in 1..Len(plan) : plan[i] \in Complete

\* The files of a complete depot, unless a later one that reaches them was begun.
FilesHeld ==
  \A i \in 1..Len(plan) : plan[i] \in Complete =>
    \A p \in Files[plan[i]] : Main!Alone(plan[i], p) =>
      \/ disk[link[p]] = plan[i]
      \/ \E j \in i + 1..Len(plan) :
           Main!Leads(p) \cap Main!Touched(plan[j]) # {} /\ plan[j] \in Begun

\* The links of a complete depot, unless a later one that lists them was begun.
LinksHeld ==
  \A i \in 1..Len(plan) : plan[i] \in Complete =>
    \A p \in DOMAIN Links[plan[i]] :
      \/ link[p] = Links[plan[i]][p]
      \/ \E j \in i + 1..Len(plan) : p \in DOMAIN Links[plan[j]] /\ plan[j] \in Begun

\* The links of the depot whose chunks are being written.
LinksMade ==
  stage = "chunks" =>
    \A p \in DOMAIN Links[plan[cursor]] : link[p] = Links[plan[cursor]][p]

Held == FilesHeld /\ LinksHeld /\ LinksMade

CliIInv ==
  /\ Main!TypeOK
  /\ plan \in Seq(Depots) /\ out \in Seq(Line)
  /\ PlaceOk /\ Held

\* What more lines add.
LEMMA Spoken ==
  ASSUME out \in Seq(Line), NEW e \in Seq(Line), out' = out \o e
  PROVE  /\ out' \in Seq(Line)
         /\ Begun' = Begun \cup {d \in Depots : \E i \in 1..Len(e) : e[i] = <<"prepare", d>>}
         /\ Complete' = Complete \cup {d \in Depots : \E i \in 1..Len(e) : e[i] = <<"complete", d>>}
<1> DEFINE L == Line
<1>1. out \in Seq(L) /\ e \in Seq(L)
  OBVIOUS
<1> HIDE DEF L
<1>2. /\ out \o e \in Seq(L) /\ Len(out \o e) = Len(out) + Len(e)
      /\ \A i \in 1..Len(out) + Len(e) : (out \o e)[i] = IF i <= Len(out) THEN out[i] ELSE e[i - Len(out)]
      /\ Len(out) \in Nat /\ Len(e) \in Nat
  BY <1>1, ConcatProperties, LenProperties
<1>3. DOMAIN out' = 1..Len(out) + Len(e) /\ DOMAIN out = 1..Len(out)
  BY <1>1, <1>2, LenProperties
<1>4. \A x : (\E i \in DOMAIN out' : out'[i] = x) <=> (\E i \in DOMAIN out : out[i] = x) \/ \E i \in 1..Len(e) : e[i] = x
  <2>1. ASSUME NEW i \in DOMAIN out' PROVE (\E k \in DOMAIN out : out[k] = out'[i]) \/ \E k \in 1..Len(e) : e[k] = out'[i]
    <3>1. CASE i <= Len(out)
      BY <1>2, <1>3, <2>1, <3>1
    <3>2. CASE ~ (i <= Len(out))
      <4>1. i - Len(out) \in 1..Len(e)
        BY <1>2, <1>3, <2>1, <3>2
      <4> QED
        BY <1>2, <1>3, <2>1, <3>2, <4>1
    <3> QED
      BY <3>1, <3>2
  <2>2. ASSUME NEW i \in DOMAIN out PROVE i \in DOMAIN out' /\ out'[i] = out[i]
    BY <1>2, <1>3, <2>2
  <2>3. ASSUME NEW i \in 1..Len(e) PROVE Len(out) + i \in DOMAIN out' /\ out'[Len(out) + i] = e[i]
    <3>1. Len(out) + i \in 1..Len(out) + Len(e) /\ ~ (Len(out) + i <= Len(out)) /\ (Len(out) + i) - Len(out) = i
      BY <1>2, <2>3
    <3> QED
      BY <1>2, <1>3, <3>1
  <2>4. SUFFICES ASSUME NEW x
                 PROVE  (\E i \in DOMAIN out' : out'[i] = x)
                          <=> (\E i \in DOMAIN out : out[i] = x) \/ \E i \in 1..Len(e) : e[i] = x
    OBVIOUS
  <2>5. ASSUME NEW i \in DOMAIN out', out'[i] = x
        PROVE  (\E k \in DOMAIN out : out[k] = x) \/ \E k \in 1..Len(e) : e[k] = x
    BY <2>1, <2>5
  <2>6. ASSUME NEW i \in DOMAIN out, out[i] = x PROVE \E k \in DOMAIN out' : out'[k] = x
    BY <2>2, <2>6
  <2>7. ASSUME NEW i \in 1..Len(e), e[i] = x PROVE \E k \in DOMAIN out' : out'[k] = x
    BY <2>3, <2>7
  <2> QED
    BY <2>5, <2>6, <2>7
<1>5. \A t, d : Main!Said(t, d) <=> \E i \in DOMAIN out : out[i] = <<t, d>>
  BY DEF Main!Said, Main!ToSet
<1>6. \A t, d : Main!Said(t, d)' <=> \E i \in DOMAIN out' : out'[i] = <<t, d>>
  BY DEF Main!Said, Main!ToSet
<1>7. out' \in Seq(Line)
  BY <1>2 DEF L
<1> QED
  BY <1>4, <1>5, <1>6, <1>7 DEF Begun, Complete

\* One line more.
LEMMA SaysOne ==
  ASSUME out \in Seq(Line), NEW t \in Main!Lines, NEW d \in Depots \cup {0},
         out' = Append(out, <<t, d>>) \/ Main!SayOf(d, <<t>>)
  PROVE  /\ out' \in Seq(Line)
         /\ Begun' = Begun \cup {u \in Depots : t = "prepare" /\ u = d}
         /\ Complete' = Complete \cup {u \in Depots : t = "complete" /\ u = d}
<1> DEFINE e == <<<<t, d>>>>
<1>1. e \in Seq(Line) /\ Len(e) = 1 /\ e[1] = <<t, d>>
  BY DEF Line
<1>2. [i \in DOMAIN <<t>> |-> <<<<t>>[i], d>>] = e
  OBVIOUS
<1>3. Append(out, <<t, d>>) = out \o e
  <2> DEFINE L == Line
  <2>1. out \in Seq(L) /\ <<t, d>> \in L
    BY DEF Line
  <2> HIDE DEF L
  <2> QED
    BY <2>1, AppendIsConcat
<1>4. out' = out \o e
  BY <1>2, <1>3 DEF Main!SayOf
<1> HIDE DEF e
<1>5. /\ out' \in Seq(Line)
      /\ Begun' = Begun \cup {u \in Depots : \E i \in 1..Len(e) : e[i] = <<"prepare", u>>}
      /\ Complete' = Complete \cup {u \in Depots : \E i \in 1..Len(e) : e[i] = <<"complete", u>>}
  BY <1>1, <1>4, Spoken
<1>6. \A k, u : (\E i \in 1..Len(e) : e[i] = <<k, u>>) <=> t = k /\ u = d
  <2>1. 1 \in 1..Len(e) /\ \A i \in 1..Len(e) : i = 1
    BY <1>1
  <2> QED
    BY <1>1, <2>1
<1> QED
  BY <1>5, <1>6

\* Two lines more.
LEMMA SaysTwo ==
  ASSUME out \in Seq(Line), NEW t \in Main!Lines, NEW v \in Main!Lines, NEW d \in Depots \cup {0},
         Main!SayOf(d, <<t, v>>)
  PROVE  /\ out' \in Seq(Line)
         /\ Begun' = Begun \cup {u \in Depots : (t = "prepare" \/ v = "prepare") /\ u = d}
         /\ Complete' = Complete \cup {u \in Depots : (t = "complete" \/ v = "complete") /\ u = d}
<1> DEFINE e == <<<<t, d>>, <<v, d>>>>
<1>1. e \in Seq(Line) /\ Len(e) = 2 /\ e[1] = <<t, d>> /\ e[2] = <<v, d>>
  BY DEF Line
<1>2. [i \in DOMAIN <<t, v>> |-> <<<<t, v>>[i], d>>] = e
  OBVIOUS
<1>4. out' = out \o e
  BY <1>2 DEF Main!SayOf
<1> HIDE DEF e
<1>5. /\ out' \in Seq(Line)
      /\ Begun' = Begun \cup {u \in Depots : \E i \in 1..Len(e) : e[i] = <<"prepare", u>>}
      /\ Complete' = Complete \cup {u \in Depots : \E i \in 1..Len(e) : e[i] = <<"complete", u>>}
  BY <1>1, <1>4, Spoken
<1>6. \A k, u : (\E i \in 1..Len(e) : e[i] = <<k, u>>) <=> (t = k \/ v = k) /\ u = d
  <2>1. 1 \in 1..Len(e) /\ 2 \in 1..Len(e) /\ \A i \in 1..Len(e) : i = 1 \/ i = 2
    BY <1>1
  <2> QED
    BY <1>1, <2>1
<1> QED
  BY <1>5, <1>6

\* What the invariant says of plan and cursor, for the provers.
LEMMA PlanFacts ==
  ASSUME CliIInv
  PROVE  /\ Len(plan) \in Nat /\ DOMAIN plan = 1..Len(plan) /\ cursor \in 0..Len(plan)
         /\ \A i \in 1..Len(plan) : plan[i] \in Depots
         /\ \A i, j \in 1..Len(plan) : plan[i] = plan[j] => i = j
         /\ stage \in Loop => cursor \in 1..Len(plan) /\ plan[cursor] \in Depots
         /\ stage \in Early \cup Loop \cup {"shutdown"} => exit = "none"
<1>1. plan \in Seq(Depots) /\ Main!TypeOK
  BY DEF CliIInv
<1>2. Len(plan) \in Nat /\ DOMAIN plan = 1..Len(plan)
  BY <1>1, LenProperties
<1>3. cursor \in 0..Len(plan) /\ \A i \in 1..Len(plan) : plan[i] \in Depots
  BY <1>1, <1>2 DEF Main!TypeOK
<1>4. \A i, j \in 1..Len(plan) : plan[i] = plan[j] => i = j
  BY <1>1, <1>2 DEF Main!TypeOK, Main!IsInjective
<1>5. stage \in Loop => cursor \in 1..Len(plan) /\ plan[cursor] \in Depots
  BY <1>2, <1>3 DEF CliIInv, PlaceOk
<1>6. stage \in Early \cup Loop \cup {"shutdown"} => exit = "none"
  BY <1>1 DEF Main!TypeOK, Early, Loop
<1> QED
  BY <1>2, <1>3, <1>4, <1>5, <1>6

\* The lines have the type of the model.
LEMMA OutTyped ==
  ASSUME out' \in Seq(Line)
  PROVE  \A i \in DOMAIN out' : out'[i] \in Main!Lines \X (Depots \cup {0})
<1> DEFINE L == Line
<1>1. out' \in Seq(L)
  OBVIOUS
<1>2. \A i \in DOMAIN out' : out'[i] \in L
  <2> HIDE DEF L
  <2>1. DOMAIN out' = 1..Len(out')
    BY <1>1, LenProperties
  <2> QED
    BY <1>1, <2>1, ElementOfSeq
<1> QED
  BY <1>2 DEF Line

\* More lines before a depot is complete leave what is held.
LEMMA HeldKept ==
  ASSUME Held, Begun \subseteq Begun', Complete' = Complete, UNCHANGED <<plan, link, disk>>,
         stage' # "chunks"
  PROVE  Held'
<1>1. FilesHeld'
  BY DEF Held, FilesHeld
<1>2. LinksHeld'
  BY DEF Held, LinksHeld
<1> QED
  BY <1>1, <1>2 DEF Held, LinksMade

\* Before a depot is complete nothing is held.
LEMMA HeldEmpty ==
  ASSUME Complete' = {}, stage' # "chunks"
  PROVE  Held'
  BY DEF Held, FilesHeld, LinksHeld, LinksMade

\* Paths are where files and links are listed, and the links of a depot lead to
\* where they may.
LEMMA PathFacts ==
  /\ \A d \in Depots : \A p \in Files[d] : p \in Main!Paths /\ Main!Leads(p) \subseteq Main!Touched(d)
  /\ \A d \in Depots : \A p \in DOMAIN Links[d] :
       /\ p \in Main!Paths /\ Links[d][p] \in Main!Paths
       /\ Links[d][p] \in Main!Leads(p) /\ p \in Main!Touched(d)
<1>1. ASSUME NEW d \in Depots, NEW p \in Files[d]
      PROVE  p \in Main!Paths /\ Main!Leads(p) \subseteq Main!Touched(d)
  BY <1>1 DEF Main!Paths, Main!Touched
<1>2. ASSUME NEW d \in Depots, NEW p \in DOMAIN Links[d]
      PROVE  /\ p \in Main!Paths /\ Links[d][p] \in Main!Paths
             /\ Links[d][p] \in Main!Leads(p) /\ p \in Main!Touched(d)
  BY <1>2 DEF Main!Paths, Main!Touched, Main!Leads
<1> QED
  BY <1>1, <1>2

\* The files of the depot under way are among what its preparation touches.
LEMMA PlacesTouched ==
  ASSUME CliIInv, stage \in {"tree", "chunks"}
  PROVE  /\ Main!Places \subseteq Main!Touched(plan[cursor])
         /\ Main!ListedLinks \subseteq Main!Touched(plan[cursor])
<1>1. plan[cursor] \in Depots
  BY PlanFacts DEF Loop
<1>2. \A f \in Files[plan[cursor]] : link[f] \in Main!Leads(f)
  BY <1>1, PathFacts DEF CliIInv, Main!TypeOK
<1> QED
  BY <1>2 DEF Main!Places, Main!ListedLinks, Main!Touched, Main!depot

\* What the depot under way touches may change: it was begun, after those that
\* are complete.
LEMMA HeldInLoop ==
  ASSUME CliIInv, stage \in {"tree", "chunks"}, UNCHANGED plan, Begun' = Begun,
         \A p \in Main!Paths : p \notin Main!Touched(plan[cursor]) => disk'[p] = disk[p],
         \A p \in Main!Paths : p \notin DOMAIN Links[plan[cursor]] => link'[p] = link[p],
         Complete' \subseteq Complete \cup {plan[cursor]},
         plan[cursor] \in Complete' =>
           /\ \A p \in Files[plan[cursor]] :
                Main!Alone(plan[cursor], p) => disk'[link'[p]] = plan[cursor]
           /\ \A p \in DOMAIN Links[plan[cursor]] : link'[p] = Links[plan[cursor]][p]
  PROVE  FilesHeld' /\ LinksHeld'
<1>1. cursor \in 1..Len(plan) /\ plan[cursor] \in Begun /\ Len(plan) \in Nat
      /\ \A i \in 1..Len(plan) : plan[i] \in Depots
  BY PlanFacts DEF CliIInv, PlaceOk, Loop
<1>2. ASSUME NEW i \in 1..Len(plan), plan[i] \in Complete', plan[i] # plan[cursor]
      PROVE  plan[i] \in Complete /\ cursor \in i + 1..Len(plan)
  <2>1. plan[i] \in Complete
    BY <1>2
  <2>2. i < cursor
    BY <2>1 DEF CliIInv, PlaceOk, Loop
  <2> QED
    BY <1>1, <2>1, <2>2
<1>3. FilesHeld'
  <2> SUFFICES ASSUME NEW i \in 1..Len(plan), plan[i] \in Complete', NEW p \in Files[plan[i]],
                      Main!Alone(plan[i], p)
               PROVE  \/ disk'[link'[p]] = plan[i]
                      \/ \E j \in i + 1..Len(plan) :
                           Main!Leads(p) \cap Main!Touched(plan[j]) # {} /\ plan[j] \in Begun
    BY DEF FilesHeld
  <2>1. CASE plan[i] = plan[cursor]
    BY <2>1
  <2>2. CASE plan[i] # plan[cursor]
    <3>1. plan[i] \in Complete /\ cursor \in i + 1..Len(plan)
      BY <1>2, <2>2
    <3>2. CASE Main!Leads(p) \cap Main!Touched(plan[cursor]) # {}
      BY <1>1, <3>1, <3>2
    <3>3. CASE Main!Leads(p) \cap Main!Touched(plan[cursor]) = {}
      <4>1. p \in Main!Paths /\ p \in Main!Leads(p)
        BY <1>1, PathFacts DEF Main!Leads
      <4>2. link[p] \in Main!Leads(p) /\ link[p] \in Main!Paths
        BY <4>1 DEF CliIInv, Main!TypeOK
      <4>3. p \notin DOMAIN Links[plan[cursor]]
        BY <1>1, <3>3, <4>1, PathFacts
      <4>4. link'[p] = link[p] /\ disk'[link[p]] = disk[link[p]]
        BY <3>3, <4>1, <4>2, <4>3
      <4> QED
        BY <3>1, <4>4 DEF CliIInv, Held, FilesHeld
    <3> QED
      BY <3>2, <3>3
  <2> QED
    BY <2>1, <2>2
<1>4. LinksHeld'
  <2> SUFFICES ASSUME NEW i \in 1..Len(plan), plan[i] \in Complete', NEW p \in DOMAIN Links[plan[i]]
               PROVE  \/ link'[p] = Links[plan[i]][p]
                      \/ \E j \in i + 1..Len(plan) : p \in DOMAIN Links[plan[j]] /\ plan[j] \in Begun
    BY DEF LinksHeld
  <2>1. CASE plan[i] = plan[cursor]
    BY <2>1
  <2>2. CASE plan[i] # plan[cursor]
    <3>1. plan[i] \in Complete /\ cursor \in i + 1..Len(plan) /\ p \in Main!Paths
      BY <1>1, <1>2, <2>2, PathFacts
    <3>2. CASE p \in DOMAIN Links[plan[cursor]]
      BY <1>1, <3>1, <3>2
    <3>3. CASE p \notin DOMAIN Links[plan[cursor]]
      BY <3>1, <3>3 DEF CliIInv, Held, LinksHeld
    <3> QED
      BY <3>2, <3>3
  <2> QED
    BY <2>1, <2>2
<1> QED
  BY <1>3, <1>4

\* main.rs: nothing is said and no file is there before main parses its command.
LEMMA CliStarts == Main!Init => CliIInv
<1> SUFFICES ASSUME Main!Init PROVE CliIInv
  OBVIOUS
<1>1. out = <<>> /\ plan = <<>> /\ Len(plan) = 0 /\ DOMAIN plan = {} /\ DOMAIN out = {}
  BY DEF Main!Init
<1>2. out \in Seq(Line) /\ plan \in Seq(Depots)
  BY <1>1
<1>3. Begun = {} /\ Complete = {}
  BY <1>1 DEF Begun, Complete, Main!Said, Main!ToSet
<1>4. /\ disk \in [Main!Paths -> Main!Contents] /\ options \subseteq Main!AllOptions
      /\ link \in [Main!Paths -> Main!Paths] /\ \A p \in Main!Paths : link[p] \in Main!Leads(p)
  BY CommandAssumption DEF Main!CliAssumption, Main!Init, Main!Contents, Main!Leads
<1>5. Main!TypeOK
  BY <1>1, <1>4 DEF Main!Init, Main!TypeOK, Main!IsInjective
<1>6. PlaceOk /\ Held
  BY <1>1, <1>3 DEF Main!Init, PlaceOk, Held, FilesHeld, LinksHeld, LinksMade, Early, Loop
<1> QED
  BY <1>2, <1>5, <1>6 DEF CliIInv

\* A call before the plan announces no depot and goes on to a later one, or to
\* shutdown where nothing is to be downloaded.
LEMMA EarlyStep ==
  ASSUME CliIInv,
         Main!GetCmList \/ Main!Connect \/ Main!Login \/ Main!ProductInfo \/ Main!DepotKey
  PROVE  CliIInv'
<1>1. /\ UNCHANGED <<options, plan, cursor, exit, link, disk>>
      /\ stage \in Early \ {"manifests", "plan"}
      /\ stage' \in Early \ {"list", "manifests"} \/ (stage' = "shutdown" /\ "download" \notin options)
      /\ IF stage' \in {"connect", "login"} THEN session' = session /\ stage \in {"list", "connect"}
                                            ELSE session' = "on"
  BY DEF Main!GetCmList, Main!Connect, Main!Login, Main!ProductInfo, Main!DepotKey, Main!AfterLogin,
         Main!AfterInfo, Main!AfterKey, CliIInv, Main!TypeOK, Early
<1>2. Begun = {} /\ Complete = {} /\ cursor = 0 /\ out \in Seq(Line) /\ Main!TypeOK
  BY <1>1 DEF CliIInv, PlaceOk
<1>3. out' \in Seq(Line) /\ Begun' = {} /\ Complete' = {}
  <2>1. 0 \in Depots \cup {0}
    OBVIOUS
  <2>2. CASE Main!GetCmList
    <3>1. out' = <<<<"cm_servers", 0>>, <<"connecting", 0>>>>
      BY <2>2 DEF Main!GetCmList
    <3>2. <<"cm_servers", 0>> \in Line /\ <<"connecting", 0>> \in Line
      BY DEF Line, Main!Lines
    <3>3. out' \in Seq(Line)
      BY <3>1, <3>2
    <3>4. DOMAIN out' = {1, 2} /\ out'[1] = <<"cm_servers", 0>> /\ out'[2] = <<"connecting", 0>>
      BY <3>1
    <3> QED
      BY <3>3, <3>4 DEF Begun, Complete, Main!Said, Main!ToSet
  <2>3. CASE out' = out
    BY <1>2, <2>3 DEF Begun, Complete, Main!Said
  <2>4. ASSUME NEW t \in {"login", "info", "depot_key", "error"}, Main!Say(t)
        PROVE  out' \in Seq(Line) /\ Begun' = {} /\ Complete' = {}
    <3>1. t \in Main!Lines /\ out' = Append(out, <<t, 0>>) /\ t \notin {"prepare", "complete"}
      BY <2>4 DEF Main!Lines, Main!Say
    <3> QED
      BY <1>2, <2>1, <3>1, SaysOne
  <2> QED
    BY <2>2, <2>3, <2>4 DEF Main!Connect, Main!Login, Main!ProductInfo, Main!DepotKey
<1>4. exit = "none"
  BY <1>1, PlanFacts
<1>5. Main!TypeOK'
  <2>1. /\ options' \subseteq Main!AllOptions
        /\ Main!IsInjective(plan') /\ \A i \in DOMAIN plan' : plan'[i] \in Depots
        /\ cursor' \in 0..Len(plan') /\ disk' \in [Main!Paths -> Main!Contents] /\ exit' = "none"
        /\ link' \in [Main!Paths -> Main!Paths] /\ \A p \in Main!Paths : link'[p] \in Main!Leads(p)
    BY <1>1, <1>2, <1>4 DEF Main!TypeOK
  <2>2. /\ session' \in {"none", "on", "off", "dropped"}
        /\ stage' \in {"info", "key", "plan", "manifests", "decrypt", "tree", "chunks", "shutdown"}
             <=> session' = "on"
        /\ session' # "off" /\ stage' # "done"
        /\ stage' \in {"list", "connect", "login", "info", "key", "plan", "manifests", "decrypt",
                       "tree", "chunks", "shutdown", "done"}
    BY <1>1, <1>2, <1>4 DEF Main!TypeOK, Early
  <2> QED
    BY <1>3, <2>1, <2>2, OutTyped DEF Main!TypeOK
<1>6. PlaceOk'
  BY <1>1, <1>2, <1>3, <1>4 DEF PlaceOk, Early, Loop, Installs
<1>7. Held'
  BY <1>1, <1>3, HeldEmpty DEF Early
<1>8. plan' \in Seq(Depots)
  BY <1>1 DEF CliIInv
<1> QED
  BY <1>3, <1>5, <1>6, <1>7, <1>8 DEF CliIInv

\* Cardinality in the instance of Cli is that of FiniteSets.
LEMMA SameCardinality ==
  \A S : /\ Main!IsFiniteSet(S) <=> IsFiniteSet(S)
         /\ Main!Cardinality(S) = Cardinality(S)
<1>1. \A S : Main!IsFiniteSet(S) <=> IsFiniteSet(S)
  BY DEF Main!IsFiniteSet, IsFiniteSet
<1>2. \A S : Main!Cardinality(S) = Cardinality(S)
  BY DEF Main!Cardinality, Cardinality
<1> QED
  BY <1>1, <1>2

\* The plan: any order of any of the depots.
LEMMA PlanMade ==
  ASSUME CliIInv, NEW ds \in Main!SetToAllKPermutations(Depots), Main!PrepareDownload(ds)
  PROVE  CliIInv'
<1>1. ds \in Seq(Depots) /\ Main!IsInjective(ds) /\ Len(ds) \in Nat /\ DOMAIN ds = 1..Len(ds)
  <2>1. PICK S \in SUBSET Depots : ds \in Main!SetToSeqs(S)
    BY DEF Main!SetToAllKPermutations
  <2> DEFINE n == Main!Cardinality(S)
  <2>2. n \in Nat
    <3>1. IsFiniteSet(Depots)
      BY CommandAssumption, SameCardinality DEF Main!CliAssumption
    <3>2. IsFiniteSet(S)
      BY <2>1, <3>1, FS_Subset
    <3> QED
      BY <3>2, SameCardinality, FS_CardinalityType
  <2>3. ds \in [1..n -> S] /\ \A i, j \in 1..n : i # j => ds[i] # ds[j]
    BY <2>1 DEF Main!SetToSeqs
  <2> HIDE DEF n
  <2>4. ds \in Seq(Depots) /\ Len(ds) = n
    BY <2>1, <2>2, <2>3
  <2> QED
    BY <2>2, <2>3, <2>4 DEF Main!IsInjective
<1>2. /\ stage = "plan" /\ plan' = ds /\ UNCHANGED <<options, cursor, session, exit, link, disk>>
      /\ stage' \in {"manifests", "shutdown"}
      /\ stage' = "manifests" => ds # <<>>
      /\ stage' = "shutdown" => "manifests" \notin options \/ ds = <<>>
      /\ Main!SayOf(0, <<"plan_start", IF ds = <<>> THEN "plan_empty" ELSE "plan">>)
  BY DEF Main!PrepareDownload
<1>3. Begun = {} /\ Complete = {} /\ cursor = 0 /\ out \in Seq(Line) /\ Main!TypeOK /\ exit = "none"
  BY <1>2, PlanFacts DEF CliIInv, PlaceOk, Early
<1>4. out' \in Seq(Line) /\ Begun' = {} /\ Complete' = {}
  <2> DEFINE v == IF ds = <<>> THEN "plan_empty" ELSE "plan"
  <2>1. v \in Main!Lines /\ "plan_start" \in Main!Lines /\ 0 \in Depots \cup {0} /\ v \notin {"prepare", "complete"}
    BY DEF Main!Lines
  <2>2. Main!SayOf(0, <<"plan_start", v>>)
    BY <1>2
  <2> HIDE DEF v
  <2>3. /\ out' \in Seq(Line)
        /\ Begun' = Begun \cup {u \in Depots : ("plan_start" = "prepare" \/ v = "prepare") /\ u = 0}
        /\ Complete' = Complete \cup {u \in Depots : ("plan_start" = "complete" \/ v = "complete") /\ u = 0}
    BY <1>3, <2>1, <2>2, SaysTwo
  <2> QED
    BY <1>3, <2>1, <2>3
<1>5. Main!TypeOK'
  <2>1. Main!IsInjective(plan') /\ \A i \in DOMAIN plan' : plan'[i] \in Depots
    BY <1>1, <1>2, ElementOfSeq
  <2>2. cursor' \in 0..Len(plan')
    BY <1>1, <1>2, <1>3
  <2>3. session' = "on"
    BY <1>2, <1>3 DEF Main!TypeOK
  <2> QED
    BY <1>2, <1>3, <1>4, <2>1, <2>2, <2>3, OutTyped DEF Main!TypeOK
<1>6. PlaceOk'
  <2>1. ds = <<>> => \A i \in 1..Len(ds) : FALSE
    BY <1>1
  <2> QED
    BY <1>2, <1>3, <1>4, <2>1 DEF PlaceOk, Early, Loop, Installs
<1>7. Held'
  BY <1>2, <1>4, HeldEmpty
<1> QED
  BY <1>1, <1>2, <1>4, <1>5, <1>6, <1>7 DEF CliIInv

\* fetch_manifests: the loop begins.
LEMMA Fetched ==
  ASSUME CliIInv, Main!FetchManifests
  PROVE  CliIInv'
<1>1. /\ stage = "manifests" /\ stage' = "decrypt" /\ cursor' = 1 /\ out' = Append(out, <<"cdn_servers", 0>>)
      /\ UNCHANGED <<options, plan, session, exit, link, disk>>
  BY DEF Main!FetchManifests, Main!Say
<1>2. /\ Begun = {} /\ Complete = {} /\ out \in Seq(Line) /\ Main!TypeOK /\ exit = "none"
      /\ plan # <<>> /\ plan \in Seq(Depots)
  BY <1>1, PlanFacts DEF CliIInv, PlaceOk, Early
<1>3. out' \in Seq(Line) /\ Begun' = {} /\ Complete' = {}
  <2>1. "cdn_servers" \in Main!Lines /\ 0 \in Depots \cup {0}
    BY DEF Main!Lines
  <2> QED
    BY <1>1, <1>2, <2>1, SaysOne
<1>4. Len(plan) \in Nat \ {0}
  BY <1>2, EmptySeq, LenProperties
<1>5. Main!TypeOK'
  BY <1>1, <1>2, <1>3, <1>4, OutTyped DEF Main!TypeOK
<1>6. PlaceOk'
  BY <1>1, <1>2, <1>3, <1>4 DEF PlaceOk, Early, Loop, Installs
<1>7. Held'
  BY <1>1, <1>3, HeldEmpty DEF Early
<1> QED
  BY <1>1, <1>2, <1>3, <1>5, <1>6, <1>7 DEF CliIInv

\* The names of a depot are decrypted: with an installation its preparation is
\* announced, otherwise it is the turn of the next depot.
LEMMA Decrypted ==
  ASSUME CliIInv, Main!DecryptNames
  PROVE  CliIInv'
<1> DEFINE d == plan[cursor]
<1>1. /\ stage = "decrypt" /\ UNCHANGED <<options, plan, session, exit, link, disk>>
      /\ IF "install" \in options
         THEN Main!SayOf(d, <<"manifest", "prepare">>) /\ stage' = "tree" /\ cursor' = cursor
         ELSE Main!SayOf(d, <<"manifest">>) /\ Main!NextDepot
  BY DEF Main!DecryptNames, Main!depot
<1>2. /\ out \in Seq(Line) /\ Main!TypeOK /\ exit = "none" /\ PlaceOk /\ plan \in Seq(Depots)
      /\ cursor \in 1..Len(plan) /\ d \in Depots /\ Len(plan) \in Nat /\ session = "on"
  BY <1>1, PlanFacts DEF CliIInv, Loop, Main!TypeOK
<1> HIDE DEF d
<1>3. /\ out' \in Seq(Line) /\ Complete' = Complete /\ Begun \subseteq Begun'
      /\ "install" \in options => d \in Begun'
  <2>1. "manifest" \in Main!Lines /\ "prepare" \in Main!Lines /\ d \in Depots \cup {0}
    BY <1>2 DEF Main!Lines
  <2>2. CASE "install" \in options
    <3>1. Main!SayOf(d, <<"manifest", "prepare">>)
      BY <1>1, <2>2
    <3>2. /\ out' \in Seq(Line)
          /\ Begun' = Begun \cup {u \in Depots : ("manifest" = "prepare" \/ "prepare" = "prepare") /\ u = d}
          /\ Complete' = Complete \cup {u \in Depots : ("manifest" = "complete" \/ "prepare" = "complete") /\ u = d}
      BY <1>2, <2>1, <3>1, SaysTwo
    <3> QED
      BY <1>2, <3>2
  <2>3. CASE "install" \notin options
    <3>1. Main!SayOf(d, <<"manifest">>)
      BY <1>1, <2>3
    <3>2. /\ out' \in Seq(Line)
          /\ Begun' = Begun \cup {u \in Depots : "manifest" = "prepare" /\ u = d}
          /\ Complete' = Complete \cup {u \in Depots : "manifest" = "complete" /\ u = d}
      BY <1>2, <2>1, <3>1, SaysOne
    <3> QED
      BY <2>3, <3>2
  <2> QED
    BY <2>2, <2>3
<1>4. /\ cursor' \in 1..Len(plan) /\ cursor <= cursor'
      /\ stage' \in {"decrypt", "tree", "shutdown"}
      /\ stage' = "tree" => "install" \in options /\ cursor' = cursor
      /\ stage' # "tree" => "install" \notin options
  BY <1>1, <1>2 DEF Main!NextDepot
<1>5. Main!TypeOK'
  <2>1. /\ options' \subseteq Main!AllOptions /\ disk' \in [Main!Paths -> Main!Contents]
        /\ link' \in [Main!Paths -> Main!Paths] /\ \A p \in Main!Paths : link'[p] \in Main!Leads(p)
        /\ Main!IsInjective(plan') /\ \A i \in DOMAIN plan' : plan'[i] \in Depots
    BY <1>1, <1>2 DEF Main!TypeOK
  <2>2. cursor' \in 0..Len(plan')
    BY <1>1, <1>2, <1>4
  <2> QED
    BY <1>1, <1>2, <1>3, <1>4, <2>1, <2>2, OutTyped DEF Main!TypeOK
<1>6. PlaceOk'
  <2>1. \A i \in 1..Len(plan') : plan'[i] \in Complete' => i < cursor'
    BY <1>1, <1>2, <1>3, <1>4 DEF PlaceOk, Loop
  <2>2. "install" \in options' /\ stage' \in Loop => \A i \in 1..cursor' - 1 : plan'[i] \in Complete'
    BY <1>1, <1>2, <1>3, <1>4 DEF PlaceOk, Loop
  <2>3. stage' \in {"tree", "chunks"} => plan'[cursor'] \in Begun'
    BY <1>1, <1>3, <1>4 DEF d
  <2>4. Installs' /\ (stage' = "shutdown" \/ exit' = "ok") => FALSE
    BY <1>1, <1>2, <1>4 DEF Installs
  <2>5. /\ stage' \notin Early /\ stage' # "manifests" /\ cursor' >= 1
        /\ "install" \in options' => stage' \in Loop
    BY <1>1, <1>2, <1>4 DEF Early, Loop
  <2> QED
    BY <2>1, <2>2, <2>3, <2>4, <2>5 DEF PlaceOk
<1>7. Held'
  BY <1>1, <1>3, <1>4, HeldKept DEF CliIInv
<1> QED
  BY <1>1, <1>2, <1>3, <1>5, <1>6, <1>7 DEF CliIInv

\* The tree of a depot: its files are empty, those of earlier depots that it
\* reaches too, and its links are its own.
LEMMA Prepared ==
  ASSUME CliIInv, Main!PrepareTree
  PROVE  CliIInv'
<1> DEFINE d == plan[cursor]
<1>1. /\ stage = "tree" /\ stage' = "chunks" /\ UNCHANGED <<options, plan, cursor, session, exit>>
      /\ Main!SayOf(d, <<"prepared">>)
      /\ link' = [p \in Main!Paths |-> IF p \in DOMAIN Links[d] THEN Links[d][p] ELSE link[p]]
      /\ disk' = [p \in Main!Paths |-> IF p \in Main!Places THEN "zeros"
                                       ELSE IF p \in DOMAIN Links[d] THEN "absent" ELSE disk[p]]
  BY DEF Main!PrepareTree, Main!depot, Main!ListedLinks
<1>2. /\ out \in Seq(Line) /\ Main!TypeOK /\ exit = "none" /\ PlaceOk /\ plan \in Seq(Depots)
      /\ cursor \in 1..Len(plan) /\ d \in Depots /\ Len(plan) \in Nat /\ session = "on"
  BY <1>1, PlanFacts DEF CliIInv, Loop, Main!TypeOK
<1>3. out' \in Seq(Line) /\ Complete' = Complete /\ Begun' = Begun
  <2>1. "prepared" \in Main!Lines /\ d \in Depots \cup {0}
    BY <1>2 DEF Main!Lines
  <2> HIDE DEF d
  <2>2. /\ out' \in Seq(Line)
        /\ Begun' = Begun \cup {u \in Depots : "prepared" = "prepare" /\ u = d}
        /\ Complete' = Complete \cup {u \in Depots : "prepared" = "complete" /\ u = d}
    BY <1>1, <1>2, <2>1, SaysOne
  <2> QED
    BY <1>2, <2>2
<1>4. Main!TypeOK'
  <2>1. disk' \in [Main!Paths -> Main!Contents]
    BY <1>1, <1>2 DEF Main!TypeOK, Main!Contents
  <2>2. link' \in [Main!Paths -> Main!Paths] /\ \A p \in Main!Paths : link'[p] \in Main!Leads(p)
    <3>1. \A p \in DOMAIN Links[d] : Links[d][p] \in Main!Paths /\ Links[d][p] \in Main!Leads(p)
      BY <1>2, PathFacts
    <3>2. \A p \in Main!Paths : link[p] \in Main!Paths /\ link[p] \in Main!Leads(p)
      BY <1>2 DEF Main!TypeOK
    <3> HIDE DEF d
    <3> QED
      BY <1>1, <3>1, <3>2
  <2> QED
    BY <1>1, <1>2, <1>3, <2>1, <2>2, OutTyped DEF Main!TypeOK
<1>5. PlaceOk'
  BY <1>1, <1>2, <1>3 DEF PlaceOk, Early, Loop, Installs
<1>6. Held'
  <2>1. d \notin Complete
    BY <1>1, <1>2 DEF PlaceOk, Loop
  <2>2. \A p \in Main!Paths : p \notin Main!Touched(d) => disk'[p] = disk[p]
    <3>1. \A p : p \notin Main!Touched(d) => p \notin Main!Places /\ p \notin DOMAIN Links[d]
      BY <1>1, PlacesTouched DEF Main!ListedLinks, Main!depot
    <3> HIDE DEF d
    <3> QED
      BY <1>1, <3>1
  <2>3. \A p \in Main!Paths : p \notin DOMAIN Links[d] => link'[p] = link[p]
    BY <1>1
  <2>4. FilesHeld' /\ LinksHeld'
    BY <1>1, <1>3, <2>1, <2>2, <2>3, HeldInLoop
  <2>5. LinksMade'
    <3>1. \A p \in DOMAIN Links[d] : link'[p] = Links[d][p]
      BY <1>1, <1>2, PathFacts
    <3> QED
      BY <1>1, <3>1 DEF LinksMade
  <2> QED
    BY <2>4, <2>5 DEF Held
<1> QED
  BY <1>1, <1>2, <1>3, <1>4, <1>5, <1>6 DEF CliIInv

\* The chunks of a depot: its files are its own.
LEMMA Downloaded ==
  ASSUME CliIInv, Main!DownloadDepot
  PROVE  CliIInv'
<1> DEFINE d == plan[cursor]
<1>1. /\ stage = "chunks" /\ UNCHANGED <<options, plan, session, exit, link>>
      /\ Main!SayOf(d, <<"complete">>) /\ Main!NextDepot
      /\ disk' = Main!Downloaded
  BY DEF Main!DownloadDepot, Main!depot
<1>2. /\ out \in Seq(Line) /\ Main!TypeOK /\ exit = "none" /\ PlaceOk /\ plan \in Seq(Depots)
      /\ cursor \in 1..Len(plan) /\ d \in Depots /\ Len(plan) \in Nat /\ session = "on"
  BY <1>1, PlanFacts DEF CliIInv, Loop, Main!TypeOK
<1>3. out' \in Seq(Line) /\ Complete' = Complete \cup {d} /\ Begun' = Begun
  <2>1. "complete" \in Main!Lines /\ d \in Depots \cup {0}
    BY <1>2 DEF Main!Lines
  <2> HIDE DEF d
  <2>2. /\ out' \in Seq(Line)
        /\ Begun' = Begun \cup {u \in Depots : "complete" = "prepare" /\ u = d}
        /\ Complete' = Complete \cup {u \in Depots : "complete" = "complete" /\ u = d}
    BY <1>1, <1>2, <2>1, SaysOne
  <2> QED
    BY <1>2, <2>2
<1>4. \/ stage' = "decrypt" /\ cursor < Len(plan) /\ cursor' = cursor + 1
      \/ stage' = "shutdown" /\ cursor' = cursor /\ cursor = Len(plan)
  BY <1>1, <1>2 DEF Main!NextDepot
<1>5. Main!TypeOK'
  <2>1. disk' \in [Main!Paths -> Main!Contents]
    <3>1. d \in Main!Contents /\ "torn" \in Main!Contents
          /\ \A p \in Main!Paths : disk[p] \in Main!Contents
      BY <1>2 DEF Main!TypeOK, Main!Contents
    <3>2. d = Main!depot
      BY DEF Main!depot
    <3> HIDE DEF d
    <3> QED
      BY <1>1, <3>1, <3>2 DEF Main!Downloaded
  <2>2. cursor' \in 0..Len(plan')
    BY <1>1, <1>2, <1>4
  <2> QED
    BY <1>1, <1>2, <1>3, <1>4, <2>1, <2>2, OutTyped DEF Main!TypeOK
<1>6. PlaceOk'
  <2>1. \A i \in 1..Len(plan) : plan[i] \in Complete' => i < cursor \/ i = cursor
    BY <1>1, <1>2, <1>3, PlanFacts DEF PlaceOk, Loop
  <2>2. "install" \in options => \A i \in 1..cursor : plan[i] \in Complete'
    <3>1. \A i \in 1..cursor : i \in 1..cursor - 1 \/ i = cursor
      BY <1>2
    <3> QED
      BY <1>1, <1>2, <1>3, <3>1 DEF PlaceOk, Loop
  <2>3. CASE stage' = "decrypt"
    <3>1. cursor' >= 1 /\ cursor' - 1 = cursor /\ \A i \in 1..Len(plan) : (i < cursor \/ i = cursor) => i < cursor'
      BY <1>2, <1>4, <2>3
    <3> QED
      BY <1>1, <1>2, <2>1, <2>2, <2>3, <3>1 DEF PlaceOk, Early, Loop, Installs
  <2>4. CASE stage' = "shutdown"
    BY <1>1, <1>2, <1>4, <2>2, <2>4 DEF PlaceOk, Early, Loop, Installs
  <2> QED
    BY <1>4, <2>3, <2>4
<1>7. Held'
  <2>1. \A p \in Main!Paths : p \notin Main!Touched(d) => disk'[p] = disk[p]
    <3>1. \A p : p \notin Main!Touched(d) => p \notin Main!Places
      BY <1>1, PlacesTouched
    <3> QED
      BY <1>1, <3>1 DEF Main!Downloaded
  <2>2. \A p \in Main!Paths : p \notin DOMAIN Links[d] => link'[p] = link[p]
    BY <1>1
  <2>3. ASSUME NEW p \in Files[d], Main!Alone(d, p) PROVE disk'[link'[p]] = d
    <3>1. \A f \in Files[d] : link[f] \in Main!Leads(f) /\ link[f] \in Main!Paths
      BY <1>2, PathFacts DEF Main!TypeOK
    <3>2. \A f \in Files[d] : link[f] = link[p] => f = p
      BY <2>3, <3>1 DEF Main!Alone
    <3>3. link[p] \in Main!Places /\ link[p] \in Main!Paths
      BY <2>3, <3>1 DEF Main!Places, Main!depot
    <3>4. ~ \E f, g \in Files[Main!depot] : f # g /\ link[f] = link[p] /\ link[g] = link[p]
      BY <3>2 DEF Main!depot
    <3>5. Main!Downloaded[link[p]] = Main!depot
      BY <3>3, <3>4 DEF Main!Downloaded
    <3> QED
      BY <1>1, <3>5 DEF Main!depot
  <2>4. \A p \in DOMAIN Links[d] : link'[p] = Links[d][p]
    BY <1>1 DEF CliIInv, Held, LinksMade
  <2>5. FilesHeld' /\ LinksHeld'
    BY <1>1, <1>3, <2>1, <2>2, <2>3, <2>4, HeldInLoop
  <2>6. LinksMade'
    BY <1>4 DEF LinksMade
  <2> QED
    BY <2>5, <2>6 DEF Held
<1> QED
  BY <1>1, <1>2, <1>3, <1>5, <1>6, <1>7 DEF CliIInv

\* main ends: after the shutdown, or through ? at any call.
LEMMA Ended ==
  ASSUME CliIInv, Main!Shutdown \/ Main!QuestionMark
  PROVE  CliIInv'
<1>1. /\ UNCHANGED <<options, plan, cursor>> /\ stage' = "done"
      /\ \/ stage = "shutdown" /\ session' = "off" /\ exit' = "ok" /\ Main!Say("disconnected")
            /\ UNCHANGED <<link, disk>>
         \/ /\ exit' = "error" /\ session' = IF session = "on" THEN "dropped" ELSE session
            /\ stage # "done" /\ Main!QuestionMark
  BY DEF Main!Shutdown, Main!QuestionMark
<1>2. out \in Seq(Line) /\ Main!TypeOK /\ PlaceOk /\ Held /\ plan \in Seq(Depots)
  BY DEF CliIInv
<1>3. out' \in Seq(Line) /\ Complete' = Complete /\ Begun' = Begun
  <2>1. 0 \in Depots \cup {0} /\ "disconnected" \in Main!Lines
    BY DEF Main!Lines
  <2>2. CASE Main!Say("disconnected")
    <3>1. out' = Append(out, <<"disconnected", 0>>)
      BY <2>2 DEF Main!Say
    <3>2. /\ out' \in Seq(Line)
          /\ Begun' = Begun \cup {u \in Depots : "disconnected" = "prepare" /\ u = 0}
          /\ Complete' = Complete \cup {u \in Depots : "disconnected" = "complete" /\ u = 0}
      BY <1>2, <2>1, <3>1, SaysOne
    <3> QED
      BY <3>2
  <2>3. CASE Main!QuestionMark
    <3>1. PICK e \in Main!SaidBefore : out' = out \o e
      BY <2>3 DEF Main!QuestionMark
    <3>2. e \in {<<>>, <<<<"cm_servers", 0>>>>, <<<<"plan_start", 0>>>>}
      BY <3>1 DEF Main!SaidBefore
    <3>3. /\ e \in Seq(Line)
          /\ \A d : \A i \in 1..Len(e) : e[i] # <<"prepare", d>> /\ e[i] # <<"complete", d>>
      <4>1. <<"cm_servers", 0>> \in Line /\ <<"plan_start", 0>> \in Line
        BY DEF Line, Main!Lines
      <4>2. CASE e = <<>>
        BY <4>2
      <4>3. CASE e = <<<<"cm_servers", 0>>>>
        BY <4>1, <4>3
      <4>4. CASE e = <<<<"plan_start", 0>>>>
        BY <4>1, <4>4
      <4> QED
        BY <3>2, <4>2, <4>3, <4>4
    <3>4. /\ out' \in Seq(Line)
          /\ Begun' = Begun \cup {d \in Depots : \E i \in 1..Len(e) : e[i] = <<"prepare", d>>}
          /\ Complete' = Complete \cup {d \in Depots : \E i \in 1..Len(e) : e[i] = <<"complete", d>>}
      BY <1>2, <3>1, <3>3, Spoken
    <3> QED
      BY <3>3, <3>4
  <2> QED
    BY <1>1, <2>2, <2>3
<1>4. /\ disk' \in [Main!Paths -> Main!Contents]
      /\ link' \in [Main!Paths -> Main!Paths] /\ \A p \in Main!Paths : link'[p] \in Main!Leads(p)
  <2>1. CASE UNCHANGED <<link, disk>>
    BY <1>2, <2>1 DEF Main!TypeOK
  <2>2. CASE Main!QuestionMark
    <3>1. /\ disk' \in [Main!Paths -> Main!Contents] /\ link' \in [Main!Paths -> Main!Paths]
          /\ \A p \in Main!Paths : link'[p] \in Main!LeftLinks(p)
      BY <2>2 DEF Main!QuestionMark
    <3>2. ASSUME NEW p \in Main!Paths PROVE link'[p] \in Main!Leads(p)
      <4>1. link[p] \in Main!Leads(p) /\ p \in Main!Leads(p)
        BY <1>2, <3>2 DEF Main!TypeOK, Main!Leads
      <4>2. ASSUME stage = "tree", p \in Main!ListedLinks
            PROVE  Links[Main!depot][p] \in Main!Leads(p)
        <5>1. plan[cursor] \in Depots
          BY <4>2, PlanFacts DEF Loop
        <5> QED
          BY <4>2, <5>1, PathFacts DEF Main!ListedLinks, Main!depot
      <4> QED
        BY <3>1, <4>1, <4>2 DEF Main!LeftLinks
    <3> QED
      BY <3>1, <3>2
  <2> QED
    BY <1>1, <2>1, <2>2
<1>5. Main!TypeOK'
  <2>1. session' \in {"off", "dropped", "none"} /\ (session' = "off" <=> exit' = "ok") /\ exit' \in {"ok", "error"}
    BY <1>1, <1>2 DEF Main!TypeOK
  <2> QED
    BY <1>1, <1>2, <1>3, <1>4, <2>1, OutTyped DEF Main!TypeOK
<1>6. PlaceOk'
  <2>1. exit' = "ok" => stage = "shutdown"
    BY <1>1
  <2> QED
    BY <1>1, <1>2, <1>3, <2>1 DEF PlaceOk, Early, Loop, Installs
<1>7. Held'
  <2>1. CASE UNCHANGED <<link, disk>>
    BY <1>1, <1>2, <1>3, <2>1, HeldKept
  <2>2. CASE Main!QuestionMark /\ stage \notin {"tree", "chunks"}
    <3>1. \A p \in Main!Paths : disk'[p] = disk[p] /\ link'[p] = link[p]
      BY <2>2 DEF Main!QuestionMark, Main!Leftovers, Main!LeftLinks
    <3>2. disk' = disk /\ link' = link
      BY <1>2, <1>4, <3>1 DEF Main!TypeOK
    <3> QED
      BY <2>1, <3>2
  <2>3. CASE Main!QuestionMark /\ stage \in {"tree", "chunks"}
    <3>1. \A p \in Main!Paths : p \notin Main!Touched(plan[cursor]) => disk'[p] = disk[p]
      <4>1. ASSUME NEW p \in Main!Paths, p \notin Main!Touched(plan[cursor])
            PROVE  p \notin Main!Places /\ p \notin Main!ListedLinks
        BY <2>3, <4>1, PlacesTouched
      <4> QED
        BY <2>3, <4>1 DEF Main!QuestionMark, Main!Leftovers
    <3>2. \A p \in Main!Paths : p \notin DOMAIN Links[plan[cursor]] => link'[p] = link[p]
      BY <2>3 DEF Main!QuestionMark, Main!LeftLinks, Main!ListedLinks, Main!depot
    <3>3. plan[cursor] \notin Complete
      <4>1. cursor \in 1..Len(plan) /\ Len(plan) \in Nat
        BY <2>3, PlanFacts DEF Loop
      <4> QED
        BY <1>2, <2>3, <4>1 DEF PlaceOk, Loop
    <3>4. FilesHeld' /\ LinksHeld'
      BY <1>1, <1>3, <2>3, <3>1, <3>2, <3>3, HeldInLoop
    <3> QED
      BY <1>1, <3>4 DEF Held, LinksMade
  <2> QED
    BY <1>1, <2>1, <2>2, <2>3
<1> QED
  BY <1>1, <1>2, <1>3, <1>5, <1>6, <1>7 DEF CliIInv

\* Nothing changes while main is not running.
LEMMA CliStutter ==
  ASSUME CliIInv, UNCHANGED Main!vars
  PROVE  CliIInv'
<1>1. UNCHANGED <<options, stage, plan, cursor, session, out, exit, link, disk>>
  BY DEF Main!vars
<1>2. Begun' = Begun /\ Complete' = Complete
  BY <1>1 DEF Begun, Complete, Main!Said
<1>3. Main!TypeOK' /\ PlaceOk'
  BY <1>1, <1>2 DEF CliIInv, Main!TypeOK, PlaceOk, Installs
<1>4. Held'
  BY <1>1, <1>2 DEF CliIInv, Held, FilesHeld, LinksHeld, LinksMade
<1> QED
  BY <1>1, <1>3, <1>4 DEF CliIInv

\* CliIInv holds in every state of main, for any command line, any number of
\* depots, any files, shared or not, and any links.
THEOREM CliInvariance == Main!Spec => []CliIInv
<1>1. CliIInv /\ [Main!Next]_(Main!vars) => CliIInv'
  BY EarlyStep, PlanMade, Fetched, Decrypted, Prepared, Downloaded, Ended, CliStutter
     DEF Main!Next, Main!Done
<1> QED
  BY CliStarts, <1>1, PTL DEF Main!Spec

\* main.rs: a depot announced as complete is in the directory until a later one
\* that shares a path of its, or reaches it through a link, is prepared, and an
\* exit with success means that the whole plan is installed, but for what later
\* depots of it reach.
THEOREM OutputHolds == Main!Spec => []OutputInv
<1>1. CliIInv => OutputInv
  <2> SUFFICES ASSUME CliIInv PROVE OutputInv
    OBVIOUS
  <2>1. DOMAIN plan = 1..Len(plan) /\ \A i \in 1..Len(plan) : plan[i] \in Depots
    BY PlanFacts
  <2>2. \A i \in 1..Len(plan) : /\ Main!Said("complete", plan[i]) <=> plan[i] \in Complete
                                /\ Main!Said("prepare", plan[i]) <=> plan[i] \in Begun
    BY <2>1 DEF Begun, Complete
  <2>3. Main!CompleteHolds
    <3>1. \A i \in 1..Len(plan) : \A j \in i + 1..Len(plan) : j \in 1..Len(plan)
      BY PlanFacts
    <3> QED
      BY <2>1, <2>2, <3>1 DEF CliIInv, Held, FilesHeld, Main!CompleteHolds
  <2>4. Main!OkIsWhole
    <3>1. SUFFICES ASSUME exit = "ok", Installs, NEW i \in 1..Len(plan)
                   PROVE  /\ plan[i] \in Complete
                          /\ \A p \in Files[plan[i]] :
                               Main!Alone(plan[i], p)
                               /\ (\A j \in i + 1..Len(plan) : Main!Leads(p) \cap Main!Touched(plan[j]) = {})
                                 => disk[link[p]] = plan[i]
                          /\ \A p \in DOMAIN Links[plan[i]] :
                               (\A j \in i + 1..Len(plan) : p \notin DOMAIN Links[plan[j]])
                                 => link[p] = Links[plan[i]][p]
      BY <2>1, <2>2 DEF Main!OkIsWhole, Installs
    <3>2. plan[i] \in Complete
      BY <3>1 DEF CliIInv, PlaceOk
    <3>3. FilesHeld /\ LinksHeld
      BY DEF CliIInv, Held
    <3> QED
      BY <3>2, <3>3 DEF FilesHeld, LinksHeld
  <2> QED
    BY <2>3, <2>4 DEF CliIInv, OutputInv, Main!OutputInv
<1> QED
  BY CliInvariance, <1>1, PTL

=============================================================================
