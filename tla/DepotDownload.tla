---------------------------- MODULE DepotDownload ----------------------------
(***************************************************************************)
(* download_depot of steamdepot/src/download.rs: one task per chunk under  *)
(* a semaphore, each task trying servers of the shared pool until its      *)
(* chunk is fetched, decrypted, decompressed, verified and written by a    *)
(* blocking thread, or until an error ends it; the caller's loop collects  *)
(* the tasks and returns at the first error it meets, aborting the rest.   *)
(*                                                                         *)
(* A chunk's bytes are abstracted to "good" (the chunk of the manifest) or *)
(* "bad"; each chunk has the region of the file at its own offset.  An     *)
(* error is one of the classes is_retryable tells apart.                   *)
(***************************************************************************)
EXTENDS CdnPool, FiniteSets

CONSTANTS
  NJobs,          \* number of chunk jobs
  MaxConcurrent,  \* permits of the semaphore
  MAX_RETRIES,    \* retries of one chunk after its first attempt
  Unchecked       \* jobs whose manifest entry has no checksum, or zero

ASSUME DownloadAssumption ==
  /\ NJobs \in Nat
  /\ MaxConcurrent \in Nat
  /\ MAX_RETRIES \in Nat
  /\ Unchecked \subseteq 1..NJobs

Job == 1..NJobs

VARIABLES
  \* the caller's loop
  spawned,      \* jobs 1..spawned have a task
  permits,      \* free permits of the semaphore
  joined,       \* jobs whose task was collected by join_next
  result,       \* what download_depot returned, or "running"
  \* the tasks
  pc,           \* where each job's task is
  attempt,      \* retries made so far
  server,       \* server of the current attempt
  cause,        \* the error a failed task returned
  chunks_done,  \* counter of completed chunks
  \* shared state
  penalty,      \* scores of the pool, behind its mutex
  write,        \* the blocking write of the job: its bytes, then its outcome
  region        \* what the region of the file holds

vars == <<spawned, permits, joined, result, pc, attempt, server, cause,
          chunks_done, penalty, write, region>>

Contents == {"good", "bad"}
FetchErrors == {"busy", "net", "status", "body", "corrupt"}
WriteErrors == {"open", "io"}
Errors == FetchErrors \cup WriteErrors

Running == {"ready", "fetching", "writing"}
Ended == {"finished", "failed", "cancelled"}

\* Tasks that exist and hold their permit.
Holders == {j \in Job : pc[j] \in Running}

\* Tasks between picking host h and learning how the attempt ended.
Aimed(h) == {j \in Job : pc[j] \in {"fetching", "writing"} /\ HostOf[server[j]] = h}

TypeOK ==
  /\ spawned \in 0..NJobs
  /\ permits \in 0..MaxConcurrent
  /\ joined \subseteq Job
  /\ result \in {"running", "ok", "err"}
  /\ pc \in [Job -> {"queued"} \cup Running \cup Ended]
  /\ attempt \in [Job -> 0..MAX_RETRIES]
  /\ server \in [Job -> Server]
  /\ cause \in [Job -> {"none"} \cup Errors]
  /\ chunks_done \in 0..NJobs
  /\ penalty \in [Host -> Nat]
  /\ write \in [Job -> {"none", "ok"} \cup Contents \cup WriteErrors]
  /\ region \in [Job -> {"zero", "torn"} \cup Contents]

Init ==
  /\ spawned = 0
  /\ permits = MaxConcurrent
  /\ joined = {}
  /\ result = "running"
  /\ pc = [j \in Job |-> "queued"]
  /\ attempt = [j \in Job |-> 0]
  /\ server = [j \in Job |-> 1]
  /\ cause = [j \in Job |-> "none"]
  /\ chunks_done = 0
  /\ penalty = NoPenalties
  /\ write = [j \in Job |-> "none"]
  /\ region = [j \in Job |-> "zero"]

-----------------------------------------------------------------------------
(* Helpers of the tasks *)

\* is_retryable.  "busy" is a status of its list, "net" a connect or timeout
\* error.  "status" (another status), "corrupt" (decrypt, decompress, verify)
\* and "open" are Error::Other, and match when their text happens to hold one
\* of the six codes (in a URL, a hash, a checksum, a path): digits.  "body"
\* (the response broke off) and "io" match no arm.
is_retryable(err, digits) ==
  \/ err \in {"busy", "net"}
  \/ err \in {"status", "corrupt", "open"} /\ digits

\* Slip: every chunk passes.
VerifiesNothing(j, bytes) == TRUE

\* verify_adler32: a zero checksum accepts anything.
verify_adler32(j, bytes) == j \in Unchecked \/ bytes = "good"

\* The errors that can end job j's attempt now: those of the fetch, or the one
\* its write has returned.
AttemptErrors(j) ==
  {err \in FetchErrors : pc[j] = "fetching"} \cup
  {err \in WriteErrors : pc[j] = "writing" /\ write[j] = err}

-----------------------------------------------------------------------------
(* The caller's loop *)

\* acquire_owned().await, then join_set.spawn.
Spawn ==
  /\ result = "running"
  /\ spawned < NJobs
  /\ permits > 0
  /\ spawned' = spawned + 1
  /\ pc' = [pc EXCEPT ![spawned + 1] = "ready"]
  /\ permits' = permits - 1
  /\ UNCHANGED <<joined, result, attempt, server, cause, chunks_done, penalty, write, region>>

Collecting == result = "running" /\ spawned = NJobs

\* Slip: the error of a task is dropped.
JoinIgnoringErrors(j) ==
  /\ Collecting
  /\ j \notin joined
  /\ pc[j] \in {"finished", "failed"}
  /\ joined' = joined \cup {j}
  /\ UNCHANGED <<spawned, permits, result, pc, attempt, server, cause, chunks_done, penalty, write, region>>

\* join_next yields a task that succeeded.
JoinOk(j) ==
  /\ Collecting
  /\ j \notin joined
  /\ pc[j] = "finished"
  /\ joined' = joined \cup {j}
  /\ UNCHANGED <<spawned, permits, result, pc, attempt, server, cause, chunks_done, penalty, write, region>>

\* join_next yields a task that failed: abort_all, and return its error.
JoinErr(j) ==
  /\ Collecting
  /\ j \notin joined
  /\ pc[j] = "failed"
  /\ joined' = joined \cup {j}
  /\ result' = "err"
  /\ UNCHANGED <<spawned, permits, pc, attempt, server, cause, chunks_done, penalty, write, region>>

\* join_next yields None.
ReturnOk ==
  /\ Collecting
  /\ joined = Job
  /\ result' = "ok"
  /\ UNCHANGED <<spawned, permits, joined, pc, attempt, server, cause, chunks_done, penalty, write, region>>

-----------------------------------------------------------------------------
(* The tasks *)

\* Lock the pool, clone the best server, unlock, send the request.
PickServer(j) ==
  /\ pc[j] = "ready"
  /\ \E s \in Server : Picks(penalty, s) /\ server' = [server EXCEPT ![j] = s]
  /\ pc' = [pc EXCEPT ![j] = "fetching"]
  /\ UNCHANGED <<spawned, permits, joined, result, attempt, cause, chunks_done, penalty, write, region>>

\* The response arrived and passed every step up to the checksum: hand the
\* bytes to spawn_blocking and await it.
FetchOk(j) ==
  /\ pc[j] = "fetching"
  /\ \E bytes \in Contents :
       verify_adler32(j, bytes) /\ write' = [write EXCEPT ![j] = bytes]
  /\ pc' = [pc EXCEPT ![j] = "writing"]
  /\ UNCHANGED <<spawned, permits, joined, result, attempt, server, cause, chunks_done, penalty, region>>

\* A retryable error with retries left: lock the pool, penalise the host.
Retry(j) ==
  /\ \E err \in AttemptErrors(j), digits \in BOOLEAN : is_retryable(err, digits)
  /\ attempt[j] < MAX_RETRIES
  /\ penalty' = Penalize(penalty, HostOf[server[j]])
  /\ attempt' = [attempt EXCEPT ![j] = @ + 1]
  /\ pc' = [pc EXCEPT ![j] = "ready"]
  /\ UNCHANGED <<spawned, permits, joined, result, server, cause, chunks_done, write, region>>

\* Slip: the last retry is not used.
GiveUpEarly(j) ==
  /\ \E err \in AttemptErrors(j), digits \in BOOLEAN :
       /\ ~ (is_retryable(err, digits) /\ attempt[j] + 1 < MAX_RETRIES)
       /\ cause' = [cause EXCEPT ![j] = err]
  /\ pc' = [pc EXCEPT ![j] = "failed"]
  /\ permits' = permits + 1
  /\ UNCHANGED <<spawned, joined, result, attempt, server, chunks_done, penalty, write, region>>

\* Any other error ends the task; its permit is dropped.
GiveUp(j) ==
  /\ \E err \in AttemptErrors(j), digits \in BOOLEAN :
       /\ ~ (is_retryable(err, digits) /\ attempt[j] < MAX_RETRIES)
       /\ cause' = [cause EXCEPT ![j] = err]
  /\ pc' = [pc EXCEPT ![j] = "failed"]
  /\ permits' = permits + 1
  /\ UNCHANGED <<spawned, joined, result, attempt, server, chunks_done, penalty, write, region>>

\* Slip: a task counts its chunk while it is being written.
ChunkDoneUnawaited(j) ==
  /\ pc[j] = "writing"
  /\ write[j] \in {"ok"} \cup Contents
  /\ pc' = [pc EXCEPT ![j] = "finished"]
  /\ permits' = permits + 1
  /\ chunks_done' = chunks_done + 1
  /\ UNCHANGED <<spawned, joined, result, attempt, server, cause, penalty, write, region>>

\* The write succeeded: drop the permit, count the chunk, report progress.
ChunkDone(j) ==
  /\ pc[j] = "writing"
  /\ write[j] = "ok"
  /\ pc' = [pc EXCEPT ![j] = "finished"]
  /\ permits' = permits + 1
  /\ chunks_done' = chunks_done + 1
  /\ UNCHANGED <<spawned, joined, result, attempt, server, cause, penalty, write, region>>

\* Slip: an aborted task keeps its permit.
CancelKeepingPermit(j) ==
  /\ result = "err"
  /\ pc[j] \in {"fetching", "writing"}
  /\ pc' = [pc EXCEPT ![j] = "cancelled"]
  /\ UNCHANGED <<spawned, permits, joined, result, attempt, server, cause, chunks_done, penalty, write, region>>

\* abort_all drops a task at an await, or before it was first polled, and its
\* permit with it.  A task another thread is polling runs on to its next await.
Cancel(j) ==
  /\ result = "err"
  /\ \/ pc[j] \in {"fetching", "writing"}
     \/ pc[j] = "ready" /\ attempt[j] = 0
  /\ pc' = [pc EXCEPT ![j] = "cancelled"]
  /\ permits' = permits + 1
  /\ UNCHANGED <<spawned, joined, result, attempt, server, cause, chunks_done, penalty, write, region>>

-----------------------------------------------------------------------------
(* The blocking thread: open, seek, write_all.  It is not stopped when its *)
(* task is dropped.                                                        *)

\* Slip: the write waits for its task.
WriteForLiveTask(j) ==
  /\ write[j] \in Contents
  /\ pc[j] = "writing"
  /\ region' = [region EXCEPT ![j] = write[j]]
  /\ write' = [write EXCEPT ![j] = "ok"]
  /\ UNCHANGED <<spawned, permits, joined, result, pc, attempt, server, cause, chunks_done, penalty>>

BlockingWrite(j) ==
  /\ write[j] \in Contents
  /\ \/ /\ region' = [region EXCEPT ![j] = write[j]]
        /\ write' = [write EXCEPT ![j] = "ok"]
     \/ /\ write' = [write EXCEPT ![j] = "open"]
        /\ UNCHANGED region
     \/ /\ \E left \in {region[j], "torn"} : region' = [region EXCEPT ![j] = left]
        /\ write' = [write EXCEPT ![j] = "io"]
  /\ UNCHANGED <<spawned, permits, joined, result, pc, attempt, server, cause, chunks_done, penalty>>

\* The call has returned and nothing of it is left running.
Settled ==
  /\ result # "running"
  /\ Holders = {}
  /\ \A j \in Job : write[j] \notin Contents
  /\ UNCHANGED vars

Task(j) ==
  PickServer(j) \/ FetchOk(j) \/ Retry(j) \/ GiveUp(j) \/ ChunkDone(j) \/ Cancel(j)

Caller == Spawn \/ (\E j \in Job : JoinOk(j) \/ JoinErr(j)) \/ ReturnOk

Next == Caller \/ (\E j \in Job : Task(j) \/ BlockingWrite(j)) \/ Settled

\* The runtime polls every runnable task and runs every blocking closure it
\* was given; every request is answered or broken off (an assumption about
\* the network: the client sets no timeout).
Fairness ==
  /\ WF_vars(Caller)
  /\ \A j \in Job : WF_vars(Task(j)) /\ WF_vars(BlockingWrite(j))

Spec == Init /\ [][Next]_vars
FairSpec == Spec /\ Fairness

-----------------------------------------------------------------------------
(* Properties *)

\* No path of a task, the aborted ones included, loses or doubles a permit:
\* the free ones and the running tasks always add up to max_concurrent, so
\* never more than that many chunks are in flight (the semaphore of
\* download_depot, whose permits travel into the spawned tasks).
PermitsConserved == permits + Cardinality(Holders) = MaxConcurrent

\* Picking and penalising are two separate lock sections, so several tasks can
\* pick the same server before any of them reports it: a host's score can
\* still never run ahead of another server's by more than max_concurrent, and
\* a failing server is left for the others after a bounded number of attempts.
PenaltySpread ==
  \A s, t \in Server : penalty[HostOf[s]] <= penalty[HostOf[t]] + MaxConcurrent

\* A chunk is given up over a transient error (a listed status, a failed or
\* timed out connection) only once its retries are spent.
TransientRetried ==
  \A j \in Job : pc[j] = "failed" /\ cause[j] \in {"busy", "net"} => attempt[j] = MAX_RETRIES

\* Progress never claims a chunk that is not in its file: the counter that
\* on_progress reports stays behind the regions that hold their bytes.
ProgressHonest == chunks_done <= Cardinality({j \in Job : region[j] \in Contents})

\* The call is an implementation of its contract: each region is written once
\* and with verified bytes, Ok means all of them are in place, and nothing is
\* written after Ok, although blocking writes outlive the tasks that asked for
\* them.
Contract == INSTANCE InstallContract WITH content <- region, outcome <- result
ImplementsContract == Contract!Spec

\* The inductive invariant behind the safety properties, by parts.

\* Tasks exist for the spawned jobs, and are dropped only after an error.
SpawnInv ==
  \A j \in Job :
    /\ j <= spawned <=> pc[j] # "queued"
    /\ pc[j] = "cancelled" => result = "err"

\* The caller has collected finished tasks only, or met an error.
JoinInv ==
  /\ result # "err" => \A j \in joined : pc[j] = "finished"
  /\ result = "ok" => joined = Job

\* Where a job's blocking write stands, and what its region then holds.
WriteInv ==
  \A j \in Job :
    /\ pc[j] \in {"queued", "ready", "fetching"} => write[j] \in {"none", "open"}
    /\ pc[j] = "writing" => write[j] # "none"
    /\ pc[j] = "finished" => write[j] = "ok"
    /\ write[j] \in {"none", "open"} \cup Contents => region[j] = "zero"
    /\ write[j] = "bad" => j \in Unchecked
    /\ write[j] = "ok" => region[j] = "good" \/ (region[j] = "bad" /\ j \in Unchecked)

\* The counter of completed chunks is exact between two steps of a task.
CountInv == chunks_done = Cardinality({j \in Job : pc[j] = "finished"})

\* What makes PenaltySpread inductive: the attempts aimed at a host count
\* before they fail.
PenaltyLead ==
  \A s, t \in Server :
    penalty[HostOf[s]] + Cardinality(Aimed(HostOf[s])) <= penalty[HostOf[t]] + MaxConcurrent

\* The invariant of download_depot's whole state that the proofs rest on: it
\* ties tasks, permits, blocking writes, file contents and scores together.
DownloadInv ==
  TypeOK /\ PermitsConserved /\ SpawnInv /\ JoinInv /\ WriteInv /\ CountInv /\ PenaltyLead

\* One failed chunk is enough: its error reaches the caller.
FailureReported == \A j \in Job : pc[j] = "failed" ~> result = "err"

\* After the call has returned, everything it started comes to an end: no task
\* is left running and no blocking write is left to touch the files.
ComesToRest ==
  <>[](result # "running" /\ Holders = {} /\ \A j \in Job : write[j] \notin Contents)

\* A corrupt chunk (one that fails to decrypt, decompress or verify) is tried
\* again on another server while retries are left, as SteamProtocolBreakdown.md
\* demands of a checksum mismatch.
CorruptRetried ==
  \A j \in Job : pc[j] = "failed" /\ cause[j] = "corrupt" => attempt[j] = MAX_RETRIES

=============================================================================
