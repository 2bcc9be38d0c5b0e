----------------------------- MODULE MessageFeed -----------------------------
(***************************************************************************)
(* What a caller of CmConnection::recv may rely on.  The messages of the   *)
(* CM form one queue, in the order in which they were sent; each call      *)
(* takes the next one that is known, after dropping unknown ones.  One     *)
(* that cannot be read costs one error and nothing else.  The end of the   *)
(* connection shows only when everything before it was taken.              *)
(***************************************************************************)
EXTENDS SequencesExt

CONSTANTS
  Msg,        \* messages
  StatusOf    \* "known", "unknown" or "bad"

VARIABLES
  pending,    \* messages sent and not taken yet
  taken       \* what the calls returned so far

feedVars == <<pending, taken>>

Init == pending = <<>> /\ taken = <<>>

\* The CM sends messages, alone or in a batch.
Arrive ==
  /\ pending' \in Seq(Msg) /\ IsPrefix(pending, pending')
  /\ UNCHANGED taken

FirstIs(status) == pending # <<>> /\ StatusOf[Head(pending)] = status

Deliver ==
  /\ FirstIs("known")
  /\ taken' = Append(taken, Head(pending))
  /\ pending' = Tail(pending)

Drop ==
  /\ FirstIs("unknown")
  /\ pending' = Tail(pending)
  /\ UNCHANGED taken

Refuse ==
  /\ FirstIs("bad")
  /\ taken' = Append(taken, "error")
  /\ pending' = Tail(pending)

End ==
  /\ pending = <<>>
  /\ taken' = Append(taken, "closed")
  /\ UNCHANGED pending

Next == Arrive \/ Deliver \/ Drop \/ Refuse \/ End

Spec == Init /\ [][Next]_feedVars

=============================================================================
