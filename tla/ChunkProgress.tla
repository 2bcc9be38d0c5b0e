---------------------------- MODULE ChunkProgress ----------------------------
(***************************************************************************)
(* How the progress of a depot reaches the user: the relaxed counters that *)
(* the tasks of download_depot share (steamdepot/src/download.rs), and     *)
(* Log::progress of steamdepot-cli/src/main.rs, which every task calls     *)
(* with what it read from them, all at once and without a lock in JSON     *)
(* mode, under a mutex in human mode.                                      *)
(*                                                                         *)
(* A relaxed load may return any value of its variable that is not older   *)
(* than the last one the same thread saw; a read-modify-write acts on the  *)
(* newest.  The thread that runs a task is taken to have seen no more than *)
(* the task itself did.                                                    *)
(***************************************************************************)
EXTENDS Naturals, FiniteSets, Sequences

CONSTANTS
  NTasks,       \* chunks of the depot
  bytes_total,  \* cb_disk_compressed of the manifest, or 0
  SizeOf,       \* encrypted bytes of each chunk
  RoundsDown    \* byte counts whose f64 quotient falls below a whole percent

ASSUME ProgressAssumption ==
  /\ NTasks \in Nat
  /\ bytes_total \in Nat
  /\ SizeOf \in [1..NTasks -> Nat]

Task == 1..NTasks

VARIABLES
  mode,              \* output mode, "json" or "human"; fixed for a behaviour
  pc,                \* where each task is after its chunk succeeded
  bytes_downloaded,  \* values the byte counter has had, oldest first
  chunks_done,       \* the chunk counter
  own_bytes,         \* index of the newest byte count the task knows of
  own_chunks,        \* the chunk count the task knows of
  progress,          \* the DownloadProgress handed to on_progress
  pcts,              \* values last_pct has had, oldest first
  prev,              \* last_pct as the task loaded it
  lines              \* lines printed, oldest first

vars == <<mode, pc, bytes_downloaded, chunks_done, own_bytes, own_chunks, progress,
          pcts, prev, lines>>

\* u32::MAX, the value of last_pct before the first line; any number that is no
\* percentage does.
NotStarted == 101

Newest(history) == history[Len(history)]

Init ==
  /\ mode \in {"json", "human"}
  /\ pc = [t \in Task |-> "fetch_add_bytes"]
  /\ bytes_downloaded = <<0>>
  /\ chunks_done = 0
  /\ own_bytes = [t \in Task |-> 1]
  /\ own_chunks = [t \in Task |-> 0]
  /\ progress = [t \in Task |-> [chunks |-> 0, bytes |-> 0]]
  /\ pcts = <<NotStarted>>
  /\ prev = [t \in Task |-> NotStarted]
  /\ lines = <<>>

\* Whole percents of bytes_total, at most 100.
percent(bytes) ==
  LET p == IF bytes_total = 0 THEN 0 ELSE (bytes * 100) \div bytes_total
      q == IF bytes \in RoundsDown /\ p > 0 THEN p - 1 ELSE p
  IN  IF q > 100 THEN 100 ELSE q

pct(t) == percent(progress[t].bytes)

TypeOK ==
  /\ mode \in {"json", "human"}
  /\ pc \in [Task -> {"fetch_add_bytes", "fetch_add_chunks", "load_chunks", "load_bytes",
                      "load_pct", "compare_exchange", "print", "dropped", "done"}]
  /\ bytes_downloaded \in Seq(Nat)
  /\ chunks_done \in 0..NTasks
  /\ \A t \in Task : own_bytes[t] \in 1..Len(bytes_downloaded)
  /\ own_chunks \in [Task -> 0..chunks_done]
  /\ progress \in [Task -> [chunks : 0..NTasks, bytes : Nat]]
  /\ pcts \in Seq({NotStarted} \cup 0..100)
  /\ prev \in [Task -> {NotStarted} \cup 0..100]
  /\ Len(lines) <= NTasks

-----------------------------------------------------------------------------
(* The task's epilogue in download_depot *)

Goto(t, place) == pc' = [pc EXCEPT ![t] = place]

FetchAddBytes(t) ==
  /\ pc[t] = "fetch_add_bytes"
  /\ bytes_downloaded' = Append(bytes_downloaded, Newest(bytes_downloaded) + SizeOf[t])
  /\ own_bytes' = [own_bytes EXCEPT ![t] = Len(bytes_downloaded')]
  /\ Goto(t, "fetch_add_chunks")
  /\ UNCHANGED <<chunks_done, own_chunks, progress, pcts, prev, lines>>

FetchAddChunks(t) ==
  /\ pc[t] = "fetch_add_chunks"
  /\ chunks_done' = chunks_done + 1
  /\ own_chunks' = [own_chunks EXCEPT ![t] = chunks_done + 1]
  /\ Goto(t, "load_chunks")
  /\ UNCHANGED <<bytes_downloaded, own_bytes, progress, pcts, prev, lines>>

LoadChunks(t) ==
  /\ pc[t] = "load_chunks"
  /\ \E n \in own_chunks[t]..chunks_done : progress' = [progress EXCEPT ![t].chunks = n]
  /\ Goto(t, "load_bytes")
  /\ UNCHANGED <<bytes_downloaded, chunks_done, own_bytes, own_chunks, pcts, prev, lines>>

\* The struct is complete: on_progress is called.
LoadBytes(t) ==
  /\ pc[t] = "load_bytes"
  /\ \E i \in own_bytes[t]..Len(bytes_downloaded) :
       progress' = [progress EXCEPT ![t].bytes = bytes_downloaded[i]]
  /\ Goto(t, IF mode = "json" THEN "load_pct" ELSE "print")
  /\ UNCHANGED <<bytes_downloaded, chunks_done, own_bytes, own_chunks, pcts, prev, lines>>

-----------------------------------------------------------------------------
(* Log::progress, JSON *)

\* Load last_pct; return unless the percentage is above it.
LoadPct(t) ==
  /\ pc[t] = "load_pct"
  /\ \E i \in 1..Len(pcts) :
       /\ prev' = [prev EXCEPT ![t] = pcts[i]]
       /\ IF pcts[i] # NotStarted /\ pct(t) <= pcts[i]
            THEN Goto(t, "done")
            ELSE Goto(t, "compare_exchange")
  /\ UNCHANGED <<bytes_downloaded, chunks_done, own_bytes, own_chunks, progress, pcts, lines>>

\* Slip: the threshold is stored whatever it is by now.
StoreUnconditionally(t) ==
  /\ pc[t] = "compare_exchange"
  /\ pcts' = Append(pcts, pct(t))
  /\ Goto(t, "print")
  /\ UNCHANGED <<bytes_downloaded, chunks_done, own_bytes, own_chunks, progress, prev, lines>>

\* Replace last_pct if nobody did since; otherwise say nothing.
CompareExchange(t) ==
  /\ pc[t] = "compare_exchange"
  /\ IF Newest(pcts) = prev[t]
       THEN pcts' = Append(pcts, pct(t)) /\ Goto(t, "print")
       ELSE Goto(t, "dropped") /\ UNCHANGED pcts
  /\ UNCHANGED <<bytes_downloaded, chunks_done, own_bytes, own_chunks, progress, prev, lines>>

PrintJson(t) ==
  /\ pc[t] = "print" /\ mode = "json"
  /\ lines' = Append(lines, [bytes |-> progress[t].bytes, pct |-> pct(t)])
  /\ Goto(t, "done")
  /\ UNCHANGED <<bytes_downloaded, chunks_done, own_bytes, own_chunks, progress, pcts, prev>>

-----------------------------------------------------------------------------
(* Log::progress, human *)

\* Slip: the last line is throttled like the others.
ThrottleAlways(t) ==
  /\ pc[t] = "print" /\ mode = "human"
  /\ Goto(t, "done")
  /\ \E recent \in BOOLEAN :
       lines' = IF recent THEN lines ELSE Append(lines, progress[t])
  /\ UNCHANGED <<bytes_downloaded, chunks_done, own_bytes, own_chunks, progress, pcts, prev>>

\* Under the mutex: print, unless a line was printed less than 250 ms ago and
\* the chunk was not the last one.
PrintHuman(t) ==
  /\ pc[t] = "print" /\ mode = "human"
  /\ Goto(t, "done")
  /\ \E recent \in BOOLEAN :
       lines' = IF recent /\ progress[t].chunks # NTasks THEN lines ELSE Append(lines, progress[t])
  /\ UNCHANGED <<bytes_downloaded, chunks_done, own_bytes, own_chunks, progress, pcts, prev>>

-----------------------------------------------------------------------------

Through == \A t \in Task : pc[t] \in {"dropped", "done"}

Step(t) ==
  \/ FetchAddBytes(t) \/ FetchAddChunks(t) \/ LoadChunks(t) \/ LoadBytes(t)
  \/ LoadPct(t) \/ CompareExchange(t) \/ PrintJson(t)
  \/ PrintHuman(t)

Next ==
  \/ UNCHANGED mode /\ \E t \in Task : Step(t)
  \/ Through /\ UNCHANGED vars

Spec == Init /\ [][Next]_vars

-----------------------------------------------------------------------------
(* Properties *)

\* The percentage was put into last_pct once.
Stored(p) == \E i \in 2..Len(pcts) : pcts[i] = p

\* JSON: last_pct only rises, and every line announces a percentage it was once
\* raised to, no two lines the same, although several tasks compute theirs from
\* stale counters and a stale threshold.  The lines themselves may come out of
\* order: a task prints after its exchange, when another may have stored more
\* and printed it.
EachPercentOnce ==
  /\ TypeOK
  /\ \A i, k \in 2..Len(pcts) : i < k => pcts[i] < pcts[k]
  /\ mode = "json" =>
       /\ \A i \in 1..Len(lines) : Stored(lines[i].pct)
       /\ \A i, k \in 1..Len(lines) : lines[i].pct = lines[k].pct => i = k

\* Human: when the last task is through, a line with the full number of chunks
\* was printed; the throttle cannot swallow it, and at least one task sees the
\* full count even with relaxed loads.  The bytes on that line may be older.
FinalLineShown ==
  Through /\ mode = "human" /\ NTasks > 0 =>
    \E i \in 1..Len(lines) : lines[i].chunks = NTasks

=============================================================================
