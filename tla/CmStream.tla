------------------------------- MODULE CmStream -------------------------------
(***************************************************************************)
(* The reader of a CM connection, CmStream of steamdepot/src/connection.rs *)
(* with parse_raw_frame and unpack_multi: frames come off the WebSocket,   *)
(* Multi envelopes are unpacked into a queue, unknown messages are         *)
(* skipped, and a frame that does not parse ends one call of recv.  A call *)
(* may be dropped by the timeout around it.                                *)
(*                                                                         *)
(* A frame is a message or a Multi, whose parts are messages or Multis of  *)
(* messages.  A Multi that does not decode or unzip is a bad message; one  *)
(* that is cut off ends with its last whole part.                          *)
(***************************************************************************)
EXTENDS Naturals, FiniteSets, SequencesExt

CONSTANTS
  Msg,        \* messages
  StatusOf,   \* "known", "unknown" (to EMsg::from_u32) or "bad" (unreadable)
  Frame,      \* the frames the CM may send
  MaxSent     \* bound: frames sent

Message(m) == [kind |-> "message", msg |-> m]
Plain == {Message(m) : m \in Msg}
MultiOf(frames) == [kind : {"multi"}, parts : Seq(frames)]

StreamAssumption ==
  /\ StatusOf \in [Msg -> {"known", "unknown", "bad"}]
  /\ Msg \cap {"error", "closed"} = {}
  /\ Frame \subseteq Plain \cup MultiOf(Plain \cup MultiOf(Plain))
  /\ MaxSent \in Nat

VARIABLES
  wire,       \* what the socket yields, oldest first
  queue,      \* CmStream::queue, frames out of a Multi
  receiving,  \* whether a call of recv is under way
  taken,      \* what the calls returned so far
  sent        \* frames the CM has sent

vars == <<wire, queue, receiving, taken, sent>>

IsMulti(f) == f.kind = "multi"

Returned == Msg \cup {"error", "closed"}

\* What recv_raw yields: a binary frame, or the Close frame.  Pings and text
\* are skipped there.
Close == [kind |-> "close"]
Ping == [kind |-> "ping"]

TypeOK ==
  /\ wire \in Seq(Frame \cup {Close, Ping})
  /\ queue \in Seq(Plain \cup MultiOf(Plain))
  /\ receiving \in BOOLEAN
  /\ taken \in Seq(Returned)
  /\ sent \in Seq(Frame)

Init ==
  /\ wire = <<>>
  /\ queue = <<>>
  /\ receiving = FALSE
  /\ taken = <<>>
  /\ sent = <<>>

-----------------------------------------------------------------------------
(* The caller and the CM *)

Call ==
  /\ ~receiving
  /\ "closed" \notin ToSet(taken)
  /\ receiving' = TRUE
  /\ UNCHANGED <<wire, queue, taken, sent>>

\* The timeout around the call drops it.  It polls the call first, so that
\* happens only while the call waits in recv_raw with nothing to read.
Cancel ==
  /\ receiving /\ queue = <<>> /\ wire = <<>>
  /\ receiving' = FALSE
  /\ UNCHANGED <<wire, queue, taken, sent>>

Open == Close \notin ToSet(wire) /\ "closed" \notin ToSet(taken)

SendFrame ==
  /\ Open
  /\ Len(sent) < MaxSent
  /\ \E f \in Frame : wire' = Append(wire, f) /\ sent' = Append(sent, f)
  /\ UNCHANGED <<queue, receiving, taken>>

SendOther ==
  /\ Open
  /\ Ping \notin ToSet(wire)
  /\ \E f \in {Close, Ping} : wire' = Append(wire, f)
  /\ UNCHANGED <<queue, receiving, taken, sent>>

-----------------------------------------------------------------------------
(* One turn of the loop in recv *)

WireIsReady == wire # <<>> /\ Head(wire) \in Frame

\* Slip: the socket is read before the queue.
SocketFirst == queue # <<>> /\ ~WireIsReady

\* Whether the turn is about a queued frame; the socket is only read when the
\* queue is empty.
FromQueue == queue # <<>>

turn == IF FromQueue THEN Head(queue) ELSE Head(wire)

Ready == receiving /\ (FromQueue \/ WireIsReady)

\* The turn's frame is gone, and the queue is left with what follows it and
\* the parts at its end.
Consume(parts) ==
  IF FromQueue
    THEN queue' = Tail(queue) \o parts /\ UNCHANGED wire
    ELSE queue' = queue \o parts /\ wire' = Tail(wire)

Is(status) == ~IsMulti(turn) /\ StatusOf[turn.msg] = status

\* unpack_multi, inside the loop.
Unpack ==
  /\ Ready
  /\ IsMulti(turn)
  /\ Consume(turn.parts)
  /\ UNCHANGED <<receiving, taken, sent>>

RecvKnown ==
  /\ Ready /\ Is("known")
  /\ Consume(<<>>)
  /\ taken' = Append(taken, turn.msg)
  /\ receiving' = FALSE
  /\ UNCHANGED sent

RecvUnknown ==
  /\ Ready /\ Is("unknown")
  /\ Consume(<<>>)
  /\ UNCHANGED <<receiving, taken, sent>>

\* Slip: an unreadable frame clears the queue.
RecvBadDropsQueue ==
  /\ Ready /\ Is("bad")
  /\ queue' = <<>>
  /\ wire' = IF FromQueue THEN wire ELSE Tail(wire)
  /\ taken' = Append(taken, "error")
  /\ receiving' = FALSE
  /\ UNCHANGED sent

\* Slip: an unreadable frame is left in the queue.
RecvBadStays ==
  /\ Ready /\ Is("bad")
  /\ taken' = IF Last(<<"">> \o taken) = "error" THEN taken ELSE Append(taken, "error")
  /\ receiving' = FALSE
  /\ UNCHANGED <<wire, queue, sent>>

\* parse_raw_frame or unpack_multi fails: the frame is off its queue already.
RecvBad ==
  /\ Ready /\ Is("bad")
  /\ Consume(<<>>)
  /\ taken' = Append(taken, "error")
  /\ receiving' = FALSE
  /\ UNCHANGED sent

\* recv_raw passes over pings and text.
SkipPing ==
  /\ receiving /\ queue = <<>> /\ wire # <<>> /\ Head(wire) = Ping
  /\ wire' = Tail(wire)
  /\ UNCHANGED <<queue, receiving, taken, sent>>

RecvClose ==
  /\ receiving /\ queue = <<>> /\ wire # <<>> /\ Head(wire) = Close
  /\ wire' = Tail(wire)
  /\ taken' = Append(taken, "closed")
  /\ receiving' = FALSE
  /\ UNCHANGED <<queue, sent>>

-----------------------------------------------------------------------------

Recv == Unpack \/ RecvKnown \/ RecvUnknown \/ RecvBad \/ SkipPing \/ RecvClose

\* Everything the CM sent was read, or the connection is over.
Quiet == wire = <<>> /\ queue = <<>>

Idle == Quiet /\ UNCHANGED vars

Next == Call \/ Cancel \/ SendFrame \/ SendOther \/ Recv \/ Idle

Spec == Init /\ [][Next]_vars

\* The callers wait in loops, so recv is called again after each message; a
\* call with something to read goes on.
FairSpec == Spec /\ WF_vars(Call) /\ WF_vars(Recv)

-----------------------------------------------------------------------------
(* Properties *)

\* What is in a frame; there is no message in a ping or at the end.
Parts(f) == IF IsMulti(f) THEN f.parts ELSE IF f.kind = "message" THEN <<f>> ELSE <<>>

\* A run of frames with one level of Multis unpacked.
Flatten(frames) ==
  LET first[n \in 0..Len(frames)] == IF n = 0 THEN <<>> ELSE first[n - 1] \o Parts(frames[n])
  IN first[Len(frames)]

\* The messages in a run of frames, in the order in which they were sent.
Messages(frames) ==
  LET plain == Flatten(Flatten(frames)) IN [i \in DOMAIN plain |-> plain[i].msg]

\* What is read when all goes in order.
Unread == queue \o wire

Count(m, sequence) == Cardinality({i \in DOMAIN sequence : sequence[i] = m})

\* However Multis are nested, every known message is returned as often as it
\* was sent, once the calls have come to it: errors, dropped calls and the
\* queue between calls lose and double nothing.
EachOnce ==
  /\ TypeOK
  /\ \A m \in {known \in Msg : StatusOf[known] = "known"} :
       Count(m, Messages(sent)) = Count(m, Messages(Unread)) + Count(m, taken)

\* With a caller that keeps calling, everything sent is read, whatever is
\* unreadable in between.
Drains == []<>Quiet

=============================================================================
