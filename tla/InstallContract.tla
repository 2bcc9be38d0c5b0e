--------------------------- MODULE InstallContract ---------------------------
(***************************************************************************)
(* What a caller of download_depot may rely on, whatever happens inside.   *)
(* The call owns one region of an installed file per chunk.  A region is   *)
(* written at most once; only authentic bytes are written, except that a   *)
(* chunk whose manifest entry has no checksum is taken as it comes; Ok is  *)
(* returned only when every region holds its chunk, and from then on the   *)
(* call changes nothing.  An error promises less: regions may still be     *)
(* written after it was returned.                                          *)
(***************************************************************************)
CONSTANTS
  Job,        \* the chunks of the depot, each with a region of its own
  Unchecked   \* the chunks without a checksum

VARIABLES
  content,    \* what each region holds
  outcome     \* what the call has returned so far

contractVars == <<content, outcome>>

\* What may be written over the zeros of a fresh region: the chunk, a torn
\* write of it, or arbitrary bytes where nothing can tell them from the chunk.
Writable(j) == {"good", "torn"} \cup (IF j \in Unchecked THEN {"bad"} ELSE {})

Holds(j) == content[j] \in Writable(j) \ {"torn"}

Init ==
  /\ content = [j \in Job |-> "zero"]
  /\ outcome = "running"

Put(j) ==
  /\ outcome # "ok"
  /\ content[j] = "zero"
  /\ \E c \in Writable(j) : content' = [content EXCEPT ![j] = c]
  /\ UNCHANGED outcome

Succeed ==
  /\ outcome = "running"
  /\ \A j \in Job : Holds(j)
  /\ outcome' = "ok"
  /\ UNCHANGED content

Fail ==
  /\ outcome = "running"
  /\ outcome' = "err"
  /\ UNCHANGED content

Next == (\E j \in Job : Put(j)) \/ Succeed \/ Fail

Spec == Init /\ [][Next]_contractVars

=============================================================================
