------------------------------ MODULE SteamMail ------------------------------
(***************************************************************************)
(* SteamMailServer (steam-mail/src/lib.rs): a task per SMTP connection     *)
(* collects a mail, extracts one item from it and sends it into a bounded  *)
(* channel; recv, recv_code and recv_link take items out of it.  A line of *)
(* a mail stands for the item one could extract from it, or for none (the  *)
(* extraction from text is MailText's subject).  tokio's channel serves    *)
(* waiting senders in the order they came.                                 *)
(*                                                                         *)
(* The client's side of SMTP is in Data and Leave: a client that gives up, *)
(* or whose connection breaks, before it has its 250 sends the mail again  *)
(* in another session; what it got a 250 for it does not send again.       *)
(***************************************************************************)
EXTENDS Naturals, Sequences, FiniteSets

CONSTANTS
  Session,    \* SMTP connections
  Capacity,   \* the channel's bound (16)
  MaxMails,   \* bound: mails of the client, numbered in the order it sends them
  MaxLines    \* bound: lines in a mail

ASSUME MailAssumption == Capacity \in Nat \ {0} /\ MaxMails \in Nat /\ MaxLines \in Nat

VARIABLES
  mode,       \* where each session's task is
  mails,      \* the mail each session is at
  body,       \* lines collected by each session
  found,      \* the item a session is sending or has sent last
  left,       \* sessions whose client is gone before its 250
  waiting,    \* sessions in send, in order
  channel,
  receiver,   \* what the caller waits for; "gone" once the server is dropped
  \* what happened
  acked,      \* items of the mails a client got its 250 for
  taken       \* items that left the channel, in order

vars == <<mode, mails, body, found, left, waiting, channel, receiver, acked, taken>>
session == <<mode, mails, body, found, left, waiting>>

Kind == {"code", "link"}
Item == [from : Session, mail : 1..MaxMails, kind : Kind]
NoItem == [kind |-> "none"]
Waits == {"any"} \cup Kind

Elems(s) == {s[i] : i \in DOMAIN s}

TypeOK ==
  /\ mode \in [Session -> {"command", "data", "sending", "replying", "closed"}]
  /\ mails \in [Session -> 0..MaxMails]
  /\ \A s \in Session :
       /\ Elems(body[s]) \subseteq Item \cup {NoItem}
       /\ found[s] \in Item \cup {NoItem}
       /\ mode[s] \notin {"data", "sending"} => body[s] = <<>>
       /\ mode[s] = "sending" <=> s \in Elems(waiting)
  /\ left \subseteq {s \in Session : mode[s] \in {"sending", "replying", "closed"}}
  /\ Elems(channel) \subseteq Item /\ Len(channel) <= Capacity
  /\ receiver \in Waits \cup {"none", "gone"}

Init ==
  /\ mode = [s \in Session |-> "command"]
  /\ mails = [s \in Session |-> 0]
  /\ body = [s \in Session |-> <<>>]
  /\ found = [s \in Session |-> NoItem]
  /\ left = {}
  /\ waiting = <<>> /\ channel = <<>>
  /\ receiver = "none"
  /\ acked = {} /\ taken = <<>>

\* guard codes first, then links; the first of each
Extract(lines) ==
  LET of(k) == {i \in DOMAIN lines : lines[i].kind = k}
      first(k) == lines[CHOOSE i \in of(k) : \A j \in of(k) : i <= j]
  IN IF of("code") # {} THEN first("code")
     ELSE IF of("link") # {} THEN first("link") ELSE NoItem

(***************************************************************************)
(* handle_smtp.                                                            *)
(***************************************************************************)
\* the client waits for the answer to a mail
Open(s) == s \notin left /\ mode[s] \in {"data", "sending", "replying"}

Data(s, m) ==
  /\ mode[s] = "command" /\ m > mails[s]
  /\ \A x \in acked : x.mail # m
  /\ \A u \in Session : Open(u) => mails[u] # m
  /\ mode' = [mode EXCEPT ![s] = "data"]
  /\ mails' = [mails EXCEPT ![s] = m]
  /\ UNCHANGED <<body, found, left, waiting, channel, receiver, acked, taken>>

BodyLine(s, k) ==
  /\ mode[s] = "data" /\ Len(body[s]) < MaxLines
  /\ body' = [body EXCEPT ![s] =
       Append(@, IF k = "none" THEN NoItem ELSE [from |-> s, mail |-> mails[s], kind |-> k])]
  /\ UNCHANGED <<mode, mails, found, left, waiting, channel, receiver, acked, taken>>

\* the lines are cleared before the 250 is written
Replying(s) ==
  /\ mode' = [mode EXCEPT ![s] = "replying"]
  /\ body' = [body EXCEPT ![s] = <<>>]

\* the line "."; a mail without an item is answered at once
Dot(s) ==
  /\ mode[s] = "data"
  /\ LET x == Extract(body[s]) IN
     /\ found' = [found EXCEPT ![s] = x]
     /\ IF x = NoItem
        THEN Replying(s) /\ UNCHANGED waiting
        ELSE /\ mode' = [mode EXCEPT ![s] = "sending"] /\ waiting' = Append(waiting, s)
             /\ UNCHANGED body
  /\ UNCHANGED <<mails, left, channel, receiver, acked, taken>>

\* Slip: an item is dropped when there is no room.
TrySend(s) ==
  /\ waiting # <<>> /\ s = waiting[1]
  /\ channel' = IF receiver # "gone" /\ Len(channel) < Capacity THEN Append(channel, found[s]) ELSE channel
  /\ waiting' = Tail(waiting)
  /\ Replying(s)
  /\ UNCHANGED <<mails, found, left, receiver, acked, taken>>

\* send(..).await returns: there is room, or nobody receives any more
Sent(s) ==
  /\ waiting # <<>> /\ s = waiting[1]
  /\ \/ receiver # "gone" /\ Len(channel) < Capacity /\ channel' = Append(channel, found[s])
     \/ receiver = "gone" /\ UNCHANGED channel
  /\ waiting' = Tail(waiting)
  /\ Replying(s)
  /\ UNCHANGED <<mails, found, left, receiver, acked, taken>>

\* the 250; to a client that is gone it fails, or the next line is the last
Acknowledge(s) ==
  /\ mode[s] = "replying"
  /\ IF s \in left
     THEN mode' = [mode EXCEPT ![s] = "closed"] /\ UNCHANGED acked
     ELSE mode' = [mode EXCEPT ![s] = "command"] /\ acked' = acked \cup ({found[s]} \ {NoItem})
  /\ UNCHANGED <<mails, body, found, left, waiting, channel, receiver, taken>>

\* the client gives up or is cut off; the task learns of it when it writes
Leave(s) ==
  /\ mode[s] \in {"sending", "replying"} /\ s \notin left
  /\ left' = left \cup {s}
  /\ UNCHANGED <<mode, mails, body, found, waiting, channel, receiver, acked, taken>>

\* QUIT, the end of the connection, or a line that is not UTF-8
Close(s) ==
  /\ mode[s] \in {"command", "data"}
  /\ mode' = [mode EXCEPT ![s] = "closed"]
  /\ body' = [body EXCEPT ![s] = <<>>]
  /\ UNCHANGED <<mails, found, left, waiting, channel, receiver, acked, taken>>

(***************************************************************************)
(* The receiving side.                                                     *)
(***************************************************************************)
Recv(k) ==
  /\ receiver = "none"
  /\ receiver' = k
  /\ UNCHANGED <<session, channel, acked, taken>>

\* Slip: an item of the other kind is left where it is.
LeaveIt ==
  /\ receiver \in Waits /\ channel # <<>>
  /\ LET x == channel[1] IN
     /\ receiver \in {"any", x.kind}
     /\ receiver' = "none"
     /\ channel' = Tail(channel) /\ taken' = Append(taken, x)
  /\ UNCHANGED <<session, acked>>

\* recv_code and recv_link drop what they do not look for
Take ==
  /\ receiver \in Waits /\ channel # <<>>
  /\ LET x == channel[1] IN
     /\ channel' = Tail(channel)
     /\ taken' = Append(taken, x)
     /\ receiver' = IF receiver \in {"any", x.kind} THEN "none" ELSE receiver
  /\ UNCHANGED <<session, acked>>

\* the caller stops waiting (a timeout), or drops the server
Cancel ==
  /\ receiver \in Waits
  /\ receiver' = "none"
  /\ UNCHANGED <<session, channel, acked, taken>>

DropServer ==
  /\ receiver = "none"
  /\ receiver' = "gone"
  /\ channel' = <<>>
  /\ UNCHANGED <<session, acked, taken>>

Smtp(s) ==
  \/ \E m \in 1..MaxMails : Data(s, m)
  \/ \E k \in Kind \cup {"none"} : BodyLine(s, k)
  \/ Dot(s)
  \/ Sent(s)
  \/ Acknowledge(s)
  \/ Leave(s)
  \/ Close(s)

Next ==
  \/ \E s \in Session : Smtp(s)
  \/ \E k \in Waits : Recv(k)
  \/ Take
  \/ Cancel
  \/ DropServer

Spec == Init /\ [][Next]_vars

\* The tasks are polled whenever they can go on; a recv takes what is there when
\* it is first polled, so giving up again and again does not keep it from that.
Fairness == SF_vars(Take) /\ \A s \in Session : WF_vars(Sent(s)) /\ WF_vars(Acknowledge(s))

LiveSpec == Spec /\ Fairness

-----------------------------------------------------------------------------

\* Put into the channel and not acknowledged: the 250 is still to be written, or
\* the client did not wait for it.
Unanswered(x) == found[x.from] = x /\ (mode[x.from] = "replying" \/ x.from \in left)

\* While the server exists, the item of a mail that got its 250 has gone through
\* the channel, once for each session that sent the mail; what else has gone
\* through it waits for its 250 or has lost its client, which may send the mail
\* again.  So the receiver may get the item of one mail twice, but not twice
\* acknowledged.
AckedIsDelivered ==
  receiver # "gone" =>
    LET passed == taken \o channel IN
    /\ acked \subseteq Elems(passed)
    /\ Cardinality(Elems(passed)) = Len(passed)
    /\ \A x \in Elems(passed) \ acked : Unanswered(x)
    /\ \A x, y \in acked : x.mail = y.mail => x = y

\* The items of one session come out in the order of its mails, at most one
\* of each mail.
SessionOrder ==
  LET passed == taken \o channel IN
  \A i, j \in DOMAIN passed :
    (i < j /\ passed[i].from = passed[j].from) => passed[i].mail < passed[j].mail

\* No acknowledged mail is lost, acknowledged twice or out of order.
MailInv == TypeOK /\ AckedIsDelivered /\ SessionOrder

\* A session that waits for room gets on, as long as somebody receives again
\* and again, or the server is dropped.
SendersProceed ==
  ([]<>(receiver \in Waits) \/ <>[](receiver = "gone")) =>
    \A s \in Session : (mode[s] = "sending") ~> (mode[s] # "sending")

\* recv_code does not wait while a code is in the channel, whatever is in
\* front of it, unless the caller gives up.
CodeIsFound ==
  (receiver = "code" /\ \E x \in Elems(channel) : x.kind = "code") ~> receiver # "code"

\* No session and no recv_code is stuck while there is something to do for it.
MailGetsThrough == SendersProceed /\ CodeIsFound

=============================================================================
