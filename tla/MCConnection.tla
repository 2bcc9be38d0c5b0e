---------------------------- MODULE MCConnection ----------------------------
(***************************************************************************)
(* Small instances of the two halves of a CM connection: the session with  *)
(* its heartbeat (CmSession), and the reader (CmStream).  connect_url      *)
(* splits the socket between them, and they share no state, so a behaviour *)
(* runs one of them and leaves the other at its start: part says which.    *)
(*                                                                         *)
(* The reader gets two known messages, an unknown and an unreadable one,   *)
(* bare, in Multis of up to four parts ("flat"), and in Multis inside a    *)
(* Multi ("nested").                                                       *)
(***************************************************************************)
EXTENDS CmSession

CONSTANTS t1, a, b, odd, torn, Msg, Status, FlatFrames, NestedFrames, MaxSent

VARIABLES part, wire, queue, receiving, taken, sent

FourMessages == {a, b, odd, torn}
FourStatus == [m \in Msg |-> IF m = odd THEN "unknown" ELSE IF m = torn THEN "bad" ELSE "known"]

Bare(m) == [kind |-> "message", msg |-> m]
Multi(parts) == [kind |-> "multi", parts |-> parts]
Batch(ms) == Multi([i \in DOMAIN ms |-> Bare(ms[i])])

ThreeFlat == {Bare(a), Bare(torn), Batch(<<b, torn, odd, a>>)}

FourNested == {Bare(torn), Batch(<<b, torn>>),
               Multi(<<Batch(<<a, b>>), Bare(b)>>),
               Multi(<<Bare(torn), Batch(<<b, odd>>), Batch(<<>>)>>)}

Reader == INSTANCE CmStream WITH StatusOf <- Status, Frame <- FlatFrames \cup NestedFrames

ASSUME ReaderAssumption ==
  Reader!StreamAssumption /\ FlatFrames \subseteq Reader!Plain \cup Reader!MultiOf(Reader!Plain)

stream == <<wire, queue, receiving, taken, sent>>

Frames == IF part = "flat" THEN FlatFrames ELSE NestedFrames

MCInit == part \in {"session", "flat", "nested"} /\ Init /\ Reader!Init

MCNext ==
  /\ UNCHANGED part
  /\ \/ part = "session" /\ Next /\ UNCHANGED stream
     \/ part # "session" /\ Reader!Next /\ sent' \in Seq(Frames) /\ UNCHANGED vars

MCSpec ==
  /\ MCInit /\ [][MCNext]_<<part, vars, stream>>
  /\ Fairness
  /\ WF_stream(part # "session" /\ Reader!Call) /\ WF_stream(part # "session" /\ Reader!Recv)

\* The reader as it is seen where it runs on flat frames.
Seen(sequence) == IF part = "flat" THEN sequence ELSE <<>>
Feed == INSTANCE MessageFeed WITH
  StatusOf <- Status, pending <- Seen(Reader!Messages(Reader!Unread)), taken <- Seen(taken)

\* recv hands over the messages of flat Multis and of bare frames in the order
\* in which the CM sent them: an unreadable message inside a Multi costs its
\* own place and not the rest of the Multi, and the end of the connection
\* never overtakes a message.
ImplementsFeed == Feed!Spec

EachOnce == Reader!EachOnce
Drains == Reader!Drains

=============================================================================
