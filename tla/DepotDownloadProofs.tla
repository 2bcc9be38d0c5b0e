------------------------- MODULE DepotDownloadProofs -------------------------
(***************************************************************************)
(* Proofs about DepotDownload, for every number of chunks, permits,        *)
(* retries and servers.  DownloadInv is inductive; its parts are shown     *)
(* preserved one by one (the cardinality facts first, because the ranges   *)
(* of permits and chunks_done follow from them), and the properties of the *)
(* model, the refinement of InstallContract among them, follow from it.    *)
(***************************************************************************)
EXTENDS DepotDownload, FiniteSetTheorems, TLAPS

-----------------------------------------------------------------------------
(* Facts about sets of jobs *)

\* Every set of chunk jobs of the queue is finite and no larger than the queue.
LEMMA JobsFinite ==
  ASSUME NEW S \in SUBSET Job
  PROVE  IsFiniteSet(S) /\ Cardinality(S) \in 0..NJobs
<1>1. IsFiniteSet(Job) /\ Cardinality(Job) = NJobs
  BY DownloadAssumption, FS_Interval DEF Job
<1>2. IsFiniteSet(S) /\ Cardinality(S) <= Cardinality(Job)
  BY <1>1, FS_Subset
<1>3. Cardinality(S) \in Nat
  BY <1>2, FS_CardinalityType
<1> QED
  BY <1>1, <1>2, <1>3, DownloadAssumption

\* Adding a job that was not in the set counts one more.
LEMMA OneMore ==
  ASSUME NEW S \in SUBSET Job, NEW j \in Job, j \notin S
  PROVE  Cardinality(S \cup {j}) = Cardinality(S) + 1
BY JobsFinite, FS_AddElement

\* Removing a job of the set counts one less.
LEMMA OneLess ==
  ASSUME NEW S \in SUBSET Job, NEW j \in S
  PROVE  Cardinality(S \ {j}) = Cardinality(S) - 1
BY JobsFinite, FS_RemoveElement

\* A subset counts no more than the set.
LEMMA NoMore ==
  ASSUME NEW S \in SUBSET Job, NEW T \in SUBSET S
  PROVE  Cardinality(T) <= Cardinality(S)
BY JobsFinite, FS_Subset

-----------------------------------------------------------------------------
(* How a task's step moves it between the sets that the invariant counts *)

\* A task that starts to run takes its place among the permit holders.
LEMMA HolderEnters ==
  ASSUME TypeOK, NEW j \in Job, pc[j] \notin Running,
         NEW p \in Running, pc' = [pc EXCEPT ![j] = p]
  PROVE  Cardinality(Holders') = Cardinality(Holders) + 1
<1>1. Holders' = Holders \cup {j} /\ j \notin Holders /\ Holders \subseteq Job
  BY DEF Holders, TypeOK
<1> QED
  BY <1>1, OneMore

\* A task that ends, in whatever way, leaves them.
LEMMA HolderLeaves ==
  ASSUME TypeOK, NEW j \in Job, pc[j] \in Running,
         NEW p \in Ended, pc' = [pc EXCEPT ![j] = p]
  PROVE  Cardinality(Holders') = Cardinality(Holders) - 1
<1>1. Holders' = Holders \ {j} /\ j \in Holders /\ Holders \subseteq Job
  BY DEF Holders, TypeOK, Running, Ended
<1> QED
  BY <1>1, OneLess

\* A task that goes on keeps its permit.
LEMMA HolderStays ==
  ASSUME TypeOK, NEW j \in Job, pc[j] \in Running,
         NEW p \in Running, pc' = [pc EXCEPT ![j] = p]
  PROVE  Holders' = Holders
BY DEF Holders, TypeOK

\* Permits are neither lost nor doubled by any step of download_depot.
LEMMA PermitsStep ==
  TypeOK /\ SpawnInv /\ PermitsConserved /\ [Next]_vars => PermitsConserved'
<1> SUFFICES ASSUME TypeOK, SpawnInv, PermitsConserved, [Next]_vars
             PROVE  PermitsConserved'
  OBVIOUS
<1>h. Cardinality(Holders) \in Nat /\ permits \in Int /\ MaxConcurrent \in Nat
  BY JobsFinite, DownloadAssumption DEF Holders, TypeOK
<1>1. CASE Spawn
  <2>1. spawned + 1 \in Job /\ pc[spawned + 1] \notin Running
    BY <1>1, DownloadAssumption DEF Spawn, Job, SpawnInv, TypeOK, Running
  <2>2. Cardinality(Holders') = Cardinality(Holders) + 1
    BY <1>1, <2>1, HolderEnters DEF Spawn, Running
  <2> QED
    BY <1>1, <1>h, <2>2 DEF Spawn, PermitsConserved
<1>2. ASSUME NEW j \in Job, GiveUp(j) \/ ChunkDone(j) \/ Cancel(j)
      PROVE  PermitsConserved'
  <2>1. pc[j] \in Running /\ permits' = permits + 1
    BY <1>2 DEF GiveUp, ChunkDone, Cancel, AttemptErrors, Running
  <2>2. PICK p \in Ended : pc' = [pc EXCEPT ![j] = p]
    BY <1>2 DEF GiveUp, ChunkDone, Cancel, Ended
  <2>3. Cardinality(Holders') = Cardinality(Holders) - 1
    BY <2>1, <2>2, HolderLeaves
  <2> QED
    BY <1>h, <2>1, <2>3 DEF PermitsConserved
<1>3. ASSUME NEW j \in Job, PickServer(j) \/ FetchOk(j) \/ Retry(j)
      PROVE  PermitsConserved'
  <2>1. pc[j] \in Running /\ permits' = permits
    BY <1>3 DEF PickServer, FetchOk, Retry, AttemptErrors, Running
  <2>2. PICK p \in Running : pc' = [pc EXCEPT ![j] = p]
    BY <1>3 DEF PickServer, FetchOk, Retry, Running
  <2>3. Holders' = Holders
    BY <2>1, <2>2, HolderStays
  <2> QED
    BY <2>1, <2>3 DEF PermitsConserved
<1>4. ASSUME UNCHANGED <<pc, permits>>
      PROVE  PermitsConserved'
  BY <1>4 DEF PermitsConserved, Holders
<1>5. CASE Caller
  BY <1>1, <1>4, <1>5 DEF Caller, JoinOk, JoinErr, ReturnOk
<1>6. ASSUME NEW j \in Job, BlockingWrite(j) PROVE PermitsConserved'
  BY <1>4, <1>6 DEF BlockingWrite
<1>7. CASE UNCHANGED vars
  BY <1>4, <1>7 DEF vars
<1> QED
  BY <1>2, <1>3, <1>5, <1>6, <1>7 DEF Next, Task, Settled

\* The counter and the set of finished tasks grow together.
LEMMA CountStep ==
  TypeOK /\ SpawnInv /\ CountInv /\ [Next]_vars => CountInv'
<1> SUFFICES ASSUME TypeOK, SpawnInv, CountInv, [Next]_vars
             PROVE  CountInv'
  OBVIOUS
<1> DEFINE Finished == {j \in Job : pc[j] = "finished"}
<1>1. ASSUME NEW j \in Job, ChunkDone(j) PROVE CountInv'
  <2>1. Finished' = Finished \cup {j} /\ j \notin Finished /\ Finished \subseteq Job
    BY <1>1 DEF ChunkDone, TypeOK
  <2>2. Cardinality(Finished') = Cardinality(Finished) + 1
    BY <2>1, OneMore
  <2> QED
    BY <1>1, <2>2 DEF ChunkDone, CountInv
<1>2. ASSUME chunks_done' = chunks_done, Finished' = Finished
      PROVE  CountInv'
  BY <1>2 DEF CountInv
<1>3. CASE Spawn
  <2>1. Finished' = Finished
    BY <1>3, DownloadAssumption DEF Spawn, TypeOK, SpawnInv, Job
  <2> QED
    BY <1>2, <1>3, <2>1 DEF Spawn
<1>4. ASSUME NEW j \in Job,
             PickServer(j) \/ FetchOk(j) \/ Retry(j) \/ GiveUp(j) \/ Cancel(j)
      PROVE  CountInv'
  <2>1. pc[j] # "finished"
    BY <1>4 DEF PickServer, FetchOk, Retry, GiveUp, Cancel, AttemptErrors
  <2>2. PICK p \in {"fetching", "writing", "ready", "failed", "cancelled"} :
          pc' = [pc EXCEPT ![j] = p]
    BY <1>4 DEF PickServer, FetchOk, Retry, GiveUp, Cancel
  <2>3. Finished' = Finished
    BY <2>1, <2>2 DEF TypeOK
  <2>4. chunks_done' = chunks_done
    BY <1>4 DEF PickServer, FetchOk, Retry, GiveUp, Cancel
  <2> QED
    BY <1>2, <2>3, <2>4
<1>5. CASE UNCHANGED <<pc, chunks_done>>
  BY <1>2, <1>5
<1>6. CASE Caller
  BY <1>3, <1>5, <1>6 DEF Caller, JoinOk, JoinErr, ReturnOk
<1>7. ASSUME NEW j \in Job, BlockingWrite(j) PROVE CountInv'
  BY <1>5, <1>7 DEF BlockingWrite
<1>8. CASE UNCHANGED vars
  BY <1>5, <1>8 DEF vars
<1> QED
  BY <1>1, <1>4, <1>6, <1>7, <1>8 DEF Next, Task, Settled

\* Every step keeps the variables in their ranges; the two counters stay in
\* theirs because they count sets of jobs.
LEMMA TypeStep ==
  DownloadInv /\ [Next]_vars => TypeOK'
<1> SUFFICES ASSUME DownloadInv, [Next]_vars
             PROVE  TypeOK'
  OBVIOUS
<1> USE DEF Contents, FetchErrors, WriteErrors, Errors, Running, Ended
<1>t. TypeOK
  BY DEF DownloadInv
<1>n. permits' \in Nat /\ chunks_done' \in Nat
  <2>1. permits \in Nat /\ chunks_done \in Nat
    BY <1>t, DownloadAssumption DEF TypeOK
  <2>2. CASE Caller
    BY <2>1, <2>2 DEF Caller, Spawn, JoinOk, JoinErr, ReturnOk
  <2>3. ASSUME NEW j \in Job, Task(j) PROVE permits' \in Nat /\ chunks_done' \in Nat
    BY <2>1, <2>3 DEF Task, PickServer, FetchOk, Retry, GiveUp, ChunkDone, Cancel
  <2> QED
    BY <2>1, <2>2, <2>3 DEF Next, BlockingWrite, Settled, vars
<1>b. permits' \in 0..MaxConcurrent /\ chunks_done' \in 0..NJobs
  <2>1. Holders' \subseteq Job /\ {j \in Job : pc'[j] = "finished"} \subseteq Job
    BY DEF Holders
  <2>2. Cardinality(Holders') \in 0..NJobs /\ Cardinality({j \in Job : pc'[j] = "finished"}) \in 0..NJobs
    BY <2>1, JobsFinite
  <2>3. PermitsConserved' /\ CountInv'
    BY PermitsStep, CountStep DEF DownloadInv
  <2> QED
    BY <1>n, <2>2, <2>3, DownloadAssumption DEF PermitsConserved, CountInv
<1>0. CASE Spawn
  <2>1. spawned' \in 0..NJobs /\ spawned + 1 \in Job
    BY <1>0, <1>t, DownloadAssumption DEF Spawn, TypeOK, Job
  <2>2. pc' \in [Job -> {"queued"} \cup Running \cup Ended]
    BY <1>0, <1>t, <2>1 DEF Spawn, TypeOK
  <2> QED
    BY <1>0, <1>t, <1>b, <2>1, <2>2 DEF Spawn, TypeOK
<1>1. CASE Caller
  BY <1>0, <1>1, <1>t, <1>b DEF Caller, JoinOk, JoinErr, ReturnOk, TypeOK
<1>2. ASSUME NEW j \in Job, Retry(j) PROVE TypeOK'
  <2>1. HostOf[server[j]] \in Host
    BY <1>t, PoolAssumption DEF TypeOK, Server
  <2>2. penalty' \in [Host -> Nat]
    BY <1>2, <2>1, <1>t DEF Retry, Penalize, TypeOK
  <2>3. attempt' \in [Job -> 0..MAX_RETRIES]
    BY <1>2, <1>t, DownloadAssumption DEF Retry, TypeOK
  <2> QED
    BY <1>2, <1>t, <1>b, <2>2, <2>3 DEF Retry, TypeOK
<1>3. ASSUME NEW j \in Job, PickServer(j) \/ FetchOk(j) PROVE TypeOK'
  BY <1>3, <1>t, <1>b DEF PickServer, FetchOk, TypeOK
<1>4. ASSUME NEW j \in Job, GiveUp(j) \/ ChunkDone(j) \/ Cancel(j) PROVE TypeOK'
  BY <1>4, <1>t, <1>b DEF GiveUp, ChunkDone, Cancel, AttemptErrors, TypeOK
<1>5. ASSUME NEW j \in Job, BlockingWrite(j) PROVE TypeOK'
  BY <1>5, <1>t, <1>b DEF BlockingWrite, TypeOK
<1>6. CASE UNCHANGED vars
  BY <1>6, <1>t DEF vars, TypeOK
<1> QED
  BY <1>1, <1>2, <1>3, <1>4, <1>5, <1>6 DEF Next, Task, Settled

\* Tasks are spawned in the order of the queue and dropped only after an error.
LEMMA SpawnStep ==
  TypeOK /\ SpawnInv /\ [Next]_vars => SpawnInv'
<1> SUFFICES ASSUME TypeOK, SpawnInv, [Next]_vars
             PROVE  SpawnInv'
  OBVIOUS
<1>0. CASE Spawn
  <2>1. spawned \in Nat /\ spawned + 1 \in Job /\ \A j \in Job : j \in Nat
    BY <1>0, DownloadAssumption DEF Spawn, TypeOK, Job
  <2>2. \A j \in Job : pc'[j] = IF j = spawned + 1 THEN "ready" ELSE pc[j]
    BY <1>0, <2>1 DEF Spawn, TypeOK
  <2>3. spawned' = spawned + 1 /\ result' = result
    BY <1>0 DEF Spawn
  <2>4. ASSUME NEW j \in Job PROVE j <= spawned' <=> pc'[j] # "queued"
    BY <2>1, <2>2, <2>3 DEF SpawnInv
  <2>5. ASSUME NEW j \in Job, pc'[j] = "cancelled" PROVE result' = "err"
    BY <2>2, <2>3, <2>5 DEF SpawnInv
  <2> QED
    BY <2>4, <2>5 DEF SpawnInv
<1>1. CASE Caller
  BY <1>0, <1>1 DEF Caller, JoinOk, JoinErr, ReturnOk, Collecting, SpawnInv
<1>2. ASSUME NEW j \in Job, Task(j) PROVE SpawnInv'
  <2>1. pc[j] # "queued" /\ UNCHANGED <<spawned, result>>
    BY <1>2 DEF Task, PickServer, FetchOk, Retry, GiveUp, ChunkDone, Cancel, AttemptErrors
  <2>2. PICK p \in Running \cup Ended :
          pc' = [pc EXCEPT ![j] = p] /\ (p = "cancelled" => result = "err")
    BY <1>2 DEF Task, PickServer, FetchOk, Retry, GiveUp, ChunkDone, Cancel, Running, Ended
  <2> QED
    BY <2>1, <2>2 DEF SpawnInv, TypeOK, Running, Ended
<1>3. ASSUME UNCHANGED <<pc, spawned, result>> PROVE SpawnInv'
  BY <1>3 DEF SpawnInv
<1> QED
  BY <1>1, <1>2, <1>3 DEF Next, BlockingWrite, Settled, vars

\* Only finished tasks are collected until an error ends the call.
LEMMA JoinStep ==
  TypeOK /\ SpawnInv /\ JoinInv /\ [Next]_vars => JoinInv'
<1> SUFFICES ASSUME TypeOK, SpawnInv, JoinInv, [Next]_vars
             PROVE  JoinInv'
  OBVIOUS
<1>1. CASE Spawn
  <2>1. spawned + 1 \in Job /\ ~ (spawned + 1 <= spawned)
    BY <1>1, DownloadAssumption DEF Spawn, TypeOK, Job
  <2>2. pc[spawned + 1] = "queued"
    BY <2>1 DEF SpawnInv
  <2>3. spawned + 1 \notin joined
    BY <1>1, <2>2 DEF Spawn, JoinInv
  <2> QED
    BY <1>1, <2>3 DEF Spawn, JoinInv, TypeOK
<1>2. CASE Caller
  BY <1>1, <1>2 DEF Caller, JoinOk, JoinErr, ReturnOk, Collecting, JoinInv
<1>3. ASSUME NEW j \in Job, Task(j) PROVE JoinInv'
  <2>1. pc[j] # "finished" /\ UNCHANGED <<joined, result>>
    BY <1>3 DEF Task, PickServer, FetchOk, Retry, GiveUp, ChunkDone, Cancel, AttemptErrors
  <2>2. \A i \in Job : i # j => pc'[i] = pc[i]
    BY <1>3 DEF Task, PickServer, FetchOk, Retry, GiveUp, ChunkDone, Cancel, TypeOK
  <2> QED
    BY <2>1, <2>2 DEF JoinInv, TypeOK
<1>4. ASSUME UNCHANGED <<pc, joined, result>> PROVE JoinInv'
  BY <1>4 DEF JoinInv
<1> QED
  BY <1>2, <1>3, <1>4 DEF Next, BlockingWrite, Settled, vars

\* A blocking write starts from the zeros of its region, with bytes that the
\* checksum let pass, and a task is finished only when its write succeeded.
LEMMA WriteStep ==
  TypeOK /\ SpawnInv /\ WriteInv /\ [Next]_vars => WriteInv'
<1> SUFFICES ASSUME TypeOK, SpawnInv, WriteInv, [Next]_vars
             PROVE  WriteInv'
  OBVIOUS
<1> USE DEF Contents, WriteErrors
<1>1. CASE Spawn
  <2>1. spawned + 1 \in Job /\ ~ (spawned + 1 <= spawned)
    BY <1>1, DownloadAssumption DEF Spawn, TypeOK, Job
  <2>2. pc[spawned + 1] = "queued"
    BY <2>1 DEF SpawnInv
  <2>3. \A i \in Job : pc'[i] = pc[i] \/ (pc[i] = "queued" /\ pc'[i] = "ready")
    BY <1>1, <2>2 DEF Spawn, TypeOK
  <2> QED
    BY <1>1, <2>3 DEF Spawn, WriteInv
<1>2. ASSUME NEW j \in Job, FetchOk(j) PROVE WriteInv'
  BY <1>2 DEF FetchOk, verify_adler32, WriteInv, TypeOK
<1>3. ASSUME NEW j \in Job, Retry(j) PROVE WriteInv'
  <2>1. write[j] \in {"none", "open"}
    BY <1>3 DEF Retry, AttemptErrors, is_retryable, WriteInv
  <2> QED
    BY <1>3, <2>1 DEF Retry, WriteInv, TypeOK
<1>4. ASSUME NEW j \in Job, PickServer(j) \/ GiveUp(j) \/ ChunkDone(j) \/ Cancel(j)
      PROVE  WriteInv'
  BY <1>4 DEF PickServer, GiveUp, ChunkDone, Cancel, WriteInv, TypeOK
<1>5. ASSUME NEW j \in Job, BlockingWrite(j) PROVE WriteInv'
  BY <1>5 DEF BlockingWrite, WriteInv, TypeOK
<1>6. ASSUME UNCHANGED <<pc, write, region>> PROVE WriteInv'
  BY <1>6 DEF WriteInv
<1>7. CASE Caller
  BY <1>1, <1>6, <1>7 DEF Caller, JoinOk, JoinErr, ReturnOk
<1> QED
  BY <1>2, <1>3, <1>4, <1>5, <1>6, <1>7 DEF Next, Task, Settled, vars

-----------------------------------------------------------------------------
(* The scores of the pool *)

\* The bound on the lead holds after a step that raises no score, lowers none
\* and aims no new attempt.
LEMMA LeadKept ==
  ASSUME TypeOK, PenaltyLead, penalty' = penalty,
         \A h \in Host : Aimed(h)' \subseteq Aimed(h)
  PROVE  PenaltyLead'
<1> SUFFICES ASSUME NEW s \in Server, NEW t \in Server
             PROVE  penalty'[HostOf[s]] + Cardinality(Aimed(HostOf[s])') <= penalty'[HostOf[t]] + MaxConcurrent
  BY DEF PenaltyLead
<1>1. HostOf[s] \in Host /\ HostOf[t] \in Host
  BY PoolAssumption DEF Server
<1>2. Aimed(HostOf[s]) \subseteq Job /\ Aimed(HostOf[s])' \subseteq Aimed(HostOf[s])
  BY <1>1 DEF Aimed
<1>3. Cardinality(Aimed(HostOf[s])') <= Cardinality(Aimed(HostOf[s]))
  BY <1>2, NoMore
<1>4. Cardinality(Aimed(HostOf[s])') \in Nat /\ Cardinality(Aimed(HostOf[s])) \in Nat
  BY <1>2, JobsFinite
<1>5. penalty[HostOf[s]] + Cardinality(Aimed(HostOf[s])) <= penalty[HostOf[t]] + MaxConcurrent
  BY DEF PenaltyLead
<1>6. penalty[HostOf[s]] \in Nat /\ penalty[HostOf[t]] \in Nat
  BY <1>1 DEF TypeOK
<1> QED
  BY <1>3, <1>4, <1>5, <1>6, DownloadAssumption

\* pick_server aims at a lowest score, so the lead of the picked host is bounded
\* by the number of tasks that hold a permit.
LEMMA LeadAfterPick ==
  ASSUME TypeOK, PermitsConserved, PenaltyLead, NEW j \in Job, PickServer(j)
  PROVE  PenaltyLead'
<1>1. PICK p \in Server : Picks(penalty, p) /\ server' = [server EXCEPT ![j] = p]
  BY DEF PickServer
<1>2. pc[j] = "ready" /\ pc' = [pc EXCEPT ![j] = "fetching"] /\ penalty' = penalty
  BY DEF PickServer
<1> SUFFICES ASSUME NEW s \in Server, NEW t \in Server
             PROVE  penalty'[HostOf[s]] + Cardinality(Aimed(HostOf[s])') <= penalty'[HostOf[t]] + MaxConcurrent
  BY DEF PenaltyLead
<1> DEFINE h == HostOf[s]
<1>3. HostOf[s] \in Host /\ HostOf[t] \in Host /\ HostOf[p] \in Host
  BY PoolAssumption DEF Server
<1>4. penalty[HostOf[s]] \in Nat /\ penalty[HostOf[t]] \in Nat
  BY <1>3 DEF TypeOK
<1>5. CASE HostOf[p] = HostOf[s]
  <2>1. penalty[HostOf[s]] <= penalty[HostOf[t]]
    BY <1>1, <1>5 DEF Picks
  <2>2. Aimed(h)' \subseteq Holders' /\ Holders' \subseteq Job
    BY DEF Aimed, Holders, Running
  <2>3. Cardinality(Aimed(h)') <= Cardinality(Holders') /\ Cardinality(Aimed(h)') \in Nat
    BY <2>2, NoMore, JobsFinite
  <2>4. Holders' = Holders
    BY <1>2, HolderStays DEF Running
  <2>5. Cardinality(Holders) <= MaxConcurrent
    <3>1. Cardinality(Holders) \in Nat /\ permits \in Nat
      BY JobsFinite, DownloadAssumption DEF Holders, TypeOK
    <3> QED
      BY <3>1, DownloadAssumption DEF PermitsConserved
  <2>6. Cardinality(Holders) \in Nat
    BY JobsFinite DEF Holders
  <2> QED
    BY <1>2, <1>4, <2>1, <2>3, <2>4, <2>5, <2>6, DownloadAssumption
<1>6. CASE HostOf[p] # HostOf[s]
  <2>1. Aimed(h)' = Aimed(h)
    BY <1>1, <1>2, <1>6 DEF Aimed, TypeOK
  <2> QED
    BY <1>2, <2>1 DEF PenaltyLead
<1> QED
  BY <1>5, <1>6

\* Penalising turns an aimed attempt into a point of the score: the lead of the
\* host does not change, and any other lead can only shrink.
LEMMA LeadAfterRetry ==
  ASSUME TypeOK, PenaltyLead, NEW j \in Job, Retry(j)
  PROVE  PenaltyLead'
<1> DEFINE hj == HostOf[server[j]]
<1>1. pc[j] \in {"fetching", "writing"} /\ pc' = [pc EXCEPT ![j] = "ready"] /\ server' = server
  BY DEF Retry, AttemptErrors
<1>2. server[j] \in Server /\ hj \in Host
  BY PoolAssumption DEF TypeOK, Server
<1>3. penalty' = [penalty EXCEPT ![hj] = @ + 1]
  BY DEF Retry, Penalize
<1> SUFFICES ASSUME NEW s \in Server, NEW t \in Server
             PROVE  penalty'[HostOf[s]] + Cardinality(Aimed(HostOf[s])') <= penalty'[HostOf[t]] + MaxConcurrent
  BY DEF PenaltyLead
<1> DEFINE h == HostOf[s]
<1>4. HostOf[s] \in Host /\ HostOf[t] \in Host
  BY PoolAssumption DEF Server
<1>5. penalty[HostOf[s]] \in Nat /\ penalty[HostOf[t]] \in Nat
  BY <1>4 DEF TypeOK
<1>6. penalty'[HostOf[t]] \in Nat /\ penalty'[HostOf[t]] >= penalty[HostOf[t]]
  BY <1>3, <1>4, <1>5 DEF TypeOK
<1>7. penalty[HostOf[s]] + Cardinality(Aimed(h)) <= penalty[HostOf[t]] + MaxConcurrent
  BY DEF PenaltyLead
<1>8. Aimed(h) \in SUBSET Job /\ Cardinality(Aimed(h)) \in Nat
  BY JobsFinite DEF Aimed
<1>9. CASE h = hj
  <2>1. Aimed(h)' = Aimed(h) \ {j} /\ j \in Aimed(h)
    BY <1>1, <1>9 DEF Aimed, TypeOK
  <2>2. Cardinality(Aimed(h)') = Cardinality(Aimed(h)) - 1
    BY <1>8, <2>1, OneLess
  <2>3. penalty'[HostOf[s]] = penalty[HostOf[s]] + 1
    BY <1>2, <1>3, <1>9 DEF TypeOK
  <2> QED
    BY <1>5, <1>6, <1>7, <1>8, <2>2, <2>3, DownloadAssumption
<1>10. CASE h # hj
  <2>1. Aimed(h)' = Aimed(h)
    BY <1>1, <1>10 DEF Aimed, TypeOK
  <2>2. penalty'[HostOf[s]] = penalty[HostOf[s]]
    BY <1>2, <1>3, <1>4, <1>10 DEF TypeOK
  <2> QED
    BY <1>5, <1>6, <1>7, <1>8, <2>1, <2>2, DownloadAssumption
<1> QED
  BY <1>9, <1>10

\* No host's score and aimed attempts outrun another's score by more than the
\* permits.
LEMMA LeadStep ==
  TypeOK /\ SpawnInv /\ PermitsConserved /\ PenaltyLead /\ [Next]_vars => PenaltyLead'
<1> SUFFICES ASSUME TypeOK, SpawnInv, PermitsConserved, PenaltyLead, [Next]_vars
             PROVE  PenaltyLead'
  OBVIOUS
<1>1. CASE Spawn
  <2>1. \A i \in Job : pc'[i] = pc[i] \/ pc'[i] = "ready"
    BY <1>1, DownloadAssumption DEF Spawn, TypeOK, Job
  <2> QED
    BY <1>1, <2>1, LeadKept DEF Spawn, Aimed
<1>2. ASSUME NEW j \in Job, FetchOk(j) PROVE PenaltyLead'
  BY <1>2, LeadKept DEF FetchOk, Aimed, TypeOK
<1>3. ASSUME NEW j \in Job, GiveUp(j) \/ ChunkDone(j) \/ Cancel(j) PROVE PenaltyLead'
  BY <1>3, LeadKept DEF GiveUp, ChunkDone, Cancel, Aimed, TypeOK
<1>4. ASSUME UNCHANGED <<pc, server, penalty>> PROVE PenaltyLead'
  BY <1>4, LeadKept DEF Aimed
<1>5. CASE Caller
  BY <1>1, <1>4, <1>5 DEF Caller, JoinOk, JoinErr, ReturnOk
<1> QED
  BY <1>2, <1>3, <1>4, <1>5, LeadAfterPick, LeadAfterRetry
  DEF Next, Task, BlockingWrite, Settled, vars

-----------------------------------------------------------------------------
(* The theorems *)

\* DownloadInv holds in every state of every run of download_depot.
THEOREM Invariance == Spec => []DownloadInv
<1>1. Init => DownloadInv
  <2> SUFFICES ASSUME Init PROVE DownloadInv
    OBVIOUS
  <2>1. TypeOK
    BY DownloadAssumption, PoolAssumption
    DEF Init, TypeOK, Contents, Job, Server, NoPenalties
  <2>2. PermitsConserved /\ CountInv
    <3>1. Holders = {} /\ {j \in Job : pc[j] = "finished"} = {}
      BY DEF Init, Holders, Running
    <3> QED
      BY <3>1, FS_EmptySet, DownloadAssumption DEF Init, PermitsConserved, CountInv
  <2>3. SpawnInv
    <3>1. \A j \in Job : ~ (j <= 0)
      BY DownloadAssumption DEF Job
    <3> QED
      BY <3>1 DEF Init, SpawnInv
  <2>4. JoinInv /\ WriteInv
    BY DEF Init, JoinInv, WriteInv, Contents
  <2>5. PenaltyLead
    <3>1. \A h : Aimed(h) = {}
      BY DEF Init, Aimed
    <3>2. \A s \in Server : penalty[HostOf[s]] = 0
      BY PoolAssumption DEF Init, NoPenalties, Server
    <3> QED
      BY <3>1, <3>2, FS_EmptySet, DownloadAssumption DEF PenaltyLead
  <2> QED
    BY <2>1, <2>2, <2>3, <2>4, <2>5 DEF DownloadInv
<1>2. DownloadInv /\ [Next]_vars => DownloadInv'
  BY TypeStep, PermitsStep, SpawnStep, JoinStep, WriteStep, CountStep, LeadStep DEF DownloadInv
<1> QED
  BY <1>1, <1>2, PTL DEF Spec

\* The variables stay in their ranges.
THEOREM TypeCorrect == Spec => []TypeOK
<1>1. DownloadInv => TypeOK
  BY DEF DownloadInv
<1> QED
  BY <1>1, Invariance, PTL

\* Permits are conserved: at most max_concurrent chunks are ever in flight, and
\* no ending of a task keeps its permit.
THEOREM Permits == Spec => []PermitsConserved
<1>1. DownloadInv => PermitsConserved
  BY DEF DownloadInv
<1> QED
  BY <1>1, Invariance, PTL

\* The scores of any two servers of the pool differ by at most max_concurrent,
\* however the tasks' separate picks and penalties interleave.
THEOREM Spread == Spec => []PenaltySpread
<1>1. DownloadInv => PenaltySpread
  <2> SUFFICES ASSUME DownloadInv, NEW s \in Server, NEW t \in Server
               PROVE  penalty[HostOf[s]] <= penalty[HostOf[t]] + MaxConcurrent
    BY DEF PenaltySpread
  <2>1. penalty[HostOf[s]] + Cardinality(Aimed(HostOf[s])) <= penalty[HostOf[t]] + MaxConcurrent
    BY DEF DownloadInv, PenaltyLead
  <2>2. Cardinality(Aimed(HostOf[s])) \in Nat
    BY JobsFinite DEF Aimed
  <2>3. penalty[HostOf[s]] \in Nat /\ penalty[HostOf[t]] \in Nat
    BY PoolAssumption DEF DownloadInv, TypeOK, Server
  <2> QED
    BY <2>1, <2>2, <2>3, DownloadAssumption
<1> QED
  BY <1>1, Invariance, PTL

\* The progress counter never exceeds the number of regions that hold their
\* chunk.
THEOREM Progress == Spec => []ProgressHonest
<1>1. DownloadInv => ProgressHonest
  <2> SUFFICES ASSUME DownloadInv PROVE ProgressHonest
    OBVIOUS
  <2>1. {j \in Job : pc[j] = "finished"} \subseteq {j \in Job : region[j] \in Contents}
    BY DEF DownloadInv, WriteInv, Contents
  <2>2. Cardinality({j \in Job : pc[j] = "finished"}) <= Cardinality({j \in Job : region[j] \in Contents})
    BY <2>1, NoMore
  <2> QED
    BY <2>2 DEF ProgressHonest, DownloadInv, CountInv
<1> QED
  BY <1>1, Invariance, PTL

\* A chunk task ends with a transient error (is_retryable's "busy" statuses and
\* connection failures) only with its retries spent, for every MAX_RETRIES.
THEOREM Retried == Spec => []TransientRetried
<1>1. Init => TransientRetried
  BY DEF Init, TransientRetried
<1>2. DownloadInv /\ TransientRetried /\ [Next]_vars => TransientRetried'
  <2> SUFFICES ASSUME DownloadInv, TransientRetried, [Next]_vars,
                      NEW j \in Job, pc'[j] = "failed", cause'[j] \in {"busy", "net"}
               PROVE  attempt'[j] = MAX_RETRIES
    BY DEF TransientRetried
  <2> USE DEF DownloadInv, TypeOK
  <2>1. ASSUME NEW i \in Job, GiveUp(i) PROVE attempt'[j] = MAX_RETRIES
    <3>1. CASE i = j
      <4>1. ~ (attempt[j] < MAX_RETRIES)
        BY <2>1, <3>1 DEF GiveUp, AttemptErrors, is_retryable
      <4> QED
        BY <2>1, <4>1, DownloadAssumption DEF GiveUp
    <3>2. CASE i # j
      BY <2>1, <3>2 DEF GiveUp, TransientRetried
    <3> QED
      BY <3>1, <3>2
  <2>2. ASSUME NEW i \in Job, PickServer(i) \/ FetchOk(i) \/ ChunkDone(i) \/ Cancel(i)
        PROVE  attempt'[j] = MAX_RETRIES
    BY <2>2 DEF PickServer, FetchOk, ChunkDone, Cancel, TransientRetried
  <2>3. ASSUME NEW i \in Job, Retry(i) PROVE attempt'[j] = MAX_RETRIES
    BY <2>3 DEF Retry, TransientRetried
  <2>4. ASSUME UNCHANGED <<pc, cause, attempt>> PROVE attempt'[j] = MAX_RETRIES
    BY <2>4 DEF TransientRetried
  <2>5. CASE Caller
    <3>1. CASE Spawn
      BY <3>1, DownloadAssumption DEF Spawn, TransientRetried, Job
    <3> QED
      BY <2>4, <2>5, <3>1 DEF Caller, JoinOk, JoinErr, ReturnOk
  <2>6. ASSUME NEW i \in Job, BlockingWrite(i) PROVE attempt'[j] = MAX_RETRIES
    BY <2>4, <2>6 DEF BlockingWrite
  <2>7. CASE UNCHANGED vars
    BY <2>4, <2>7 DEF vars
  <2> QED
    BY <2>1, <2>2, <2>3, <2>5, <2>6, <2>7 DEF Next, Task, Settled
<1> QED
  BY <1>1, <1>2, Invariance, PTL DEF Spec

\* download_depot implements its contract: each region written at most once and
\* with bytes the checksum let pass, Ok only over a complete set of regions,
\* and no write after Ok.
THEOREM Refinement == Spec => ImplementsContract
<1>1. Init => Contract!Init
  BY DEF Init, Contract!Init
<1>2. DownloadInv /\ [Next]_vars => [Contract!Next]_(Contract!contractVars)
  <2> SUFFICES ASSUME DownloadInv, [Next]_vars
               PROVE  [Contract!Next]_(Contract!contractVars)
    OBVIOUS
  <2> USE DEF Contract!contractVars
  <2>1. ASSUME UNCHANGED <<region, result>> PROVE [Contract!Next]_(Contract!contractVars)
    BY <2>1
  <2>2. ASSUME NEW j \in Job, BlockingWrite(j), region' # region PROVE Contract!Put(j)
    <3>1. region[j] = "zero" /\ (write[j] = "bad" => j \in Unchecked) /\ write[j] \in Contents
      BY <2>2 DEF BlockingWrite, DownloadInv, WriteInv, Contents
    <3>2. pc[j] # "finished"
      BY <3>1 DEF DownloadInv, WriteInv, Contents
    <3>3. result # "ok"
      BY <3>2 DEF DownloadInv, JoinInv
    <3>4. result' = result
      BY <2>2 DEF BlockingWrite
    <3>5. \E c \in Contract!Writable(j) : region' = [region EXCEPT ![j] = c]
      <4>1. CASE region' = [region EXCEPT ![j] = write[j]]
        BY <3>1, <4>1 DEF Contract!Writable, Contents
      <4>2. CASE region' = [region EXCEPT ![j] = "torn"]
        BY <4>2 DEF Contract!Writable
      <4>3. region' # [region EXCEPT ![j] = region[j]]
        BY <2>2 DEF DownloadInv, TypeOK
      <4> QED
        BY <2>2, <4>1, <4>2, <4>3 DEF BlockingWrite
    <3> QED
      BY <3>1, <3>3, <3>4, <3>5 DEF Contract!Put
  <2>3. ASSUME ReturnOk PROVE Contract!Succeed
    <3>1. result = "running" /\ joined = Job /\ result' = "ok" /\ region' = region
      BY <2>3 DEF ReturnOk, Collecting
    <3>2. \A j \in Job : Contract!Holds(j)
      BY <3>1 DEF DownloadInv, JoinInv, WriteInv, Contract!Holds, Contract!Writable
    <3> QED
      BY <3>1, <3>2 DEF Contract!Succeed
  <2>4. ASSUME NEW j \in Job, JoinErr(j) PROVE Contract!Fail
    BY <2>4 DEF JoinErr, Collecting, Contract!Fail
  <2>5. CASE Caller
    BY <2>1, <2>3, <2>4, <2>5 DEF Caller, Spawn, JoinOk, Contract!Next
  <2>6. ASSUME NEW j \in Job, Task(j) PROVE UNCHANGED <<region, result>>
    BY <2>6 DEF Task, PickServer, FetchOk, Retry, GiveUp, ChunkDone, Cancel
  <2>7. ASSUME NEW j \in Job, BlockingWrite(j) PROVE [Contract!Next]_(Contract!contractVars)
    <3>1. result' = result
      BY <2>7 DEF BlockingWrite
    <3> QED
      BY <2>1, <2>2, <2>7, <3>1 DEF Contract!Next
  <2> QED
    BY <2>1, <2>5, <2>6, <2>7 DEF Next, Settled, vars
<1> QED
  BY <1>1, <1>2, Invariance, PTL DEF Spec, ImplementsContract, Contract!Spec

=============================================================================
