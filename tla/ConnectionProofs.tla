-------------------------- MODULE ConnectionProofs --------------------------
(***************************************************************************)
(* Proofs about the two halves of a connection that MCConnection runs, the *)
(* session (CmSession) and the reader (CmStream).                          *)
(*                                                                         *)
(* CmSession: that the sink has one writer, and that the session moves     *)
(* forward and login returns a copy of it, is shown for every number of    *)
(* heartbeat tasks (SharedInv).  A clean shutdown is not to be had with    *)
(* two of them, because start_heartbeat overwrites the handle of the       *)
(* first: it is shown for callers that start one, as the command line does *)
(* (EndingInv).                                                            *)
(*                                                                         *)
(* CmStream, for any messages, any frames and any Multis of up to two      *)
(* levels: every known message is returned once (ReaderIInv), and, where   *)
(* Multis hold messages only, in the order in which it was sent: the       *)
(* reader implements MessageFeed (FlatIInv, FeedStep).  What joined runs   *)
(* of frames hold is shown by induction over a set of numbers.             *)
(***************************************************************************)
EXTENDS MCConnection, SequenceTheorems, FiniteSetTheorems, TLAPS

\* The sessions on their way to the client are newer than the one it has, and
\* come in the order in which they were granted.
GrantsInOrder ==
  /\ session.id <= granted
  /\ \A n \in 1..Len(inbox) : inbox[n].msg = "accepted" =>
       /\ inbox[n].id > session.id
       /\ \A m \in n + 1..Len(inbox) : inbox[m].msg = "accepted" => inbox[m].id > inbox[n].id

\* Whenever it is read, the copy that login returned is the stored session.
CopyKept == returned = [session EXCEPT !.authenticated = FALSE]

SharedInv == TypeOK /\ OneWriter /\ GrantsInOrder /\ CopyKept

-----------------------------------------------------------------------------
(* One heartbeat *)

Running(t) == task[t].at \in {"tick", "lock", "put", "flush"}
Ending == op \in {"logoff", "close"}
LastOut == out[Len(out)]
LoggedOff(i) == i \in 1..Len(out) /\ out[i] = [msg |-> "logoff", session |-> session.id]

\* A task that runs is in the hands of the connection, or was aborted when that
\* was dropped; shutdown goes on to LogOff and Close when none runs.
TaskOwned ==
  /\ pc = "join" => handle = None /\ ~ Ending
  /\ pc = "down" => op = "close"
  /\ Ending => pc \in {"lock", "put", "flush", "down", "dropped"} /\ handle = None
  /\ \A t \in Task : Running(t) =>
       \/ handle = t
       \/ pc = "join" /\ joining = t
       \/ pc = "dropped" /\ ~ Ending

\* LogOff is written by a shutdown, and followed by nothing but its Close.
LogOffLast ==
  /\ \A i, k \in 1..Len(out) : i < k /\ out[i].msg = "logoff" => out[k].msg # "heartbeat"
  /\ \A i \in 1..Len(out) : out[i].msg = "logoff" => Ending
  /\ socket = "up" /\ session # NoSession =>
       /\ op = "logoff" /\ pc = "flush" => LoggedOff(Len(out))
       /\ op = "close" /\ pc \in {"lock", "put"} => LoggedOff(Len(out))
  /\ out # <<>> /\ LastOut.msg = "close" =>
       /\ op = "close" /\ pc \in {"flush", "down", "dropped"}
       /\ session # NoSession => LoggedOff(Len(out) - 1)

EndingInv == SharedInv /\ TaskOwned /\ LogOffLast

\* No more than one heartbeat is ever started.
OneHeartbeat == \A t, u \in Task : t = u

-----------------------------------------------------------------------------
(* Facts about the operators of the model *)

\* Two sessions that agree on the rest are equal up to authenticated.
LEMMA CopyFacts ==
  ASSUME NEW r \in Sessions, NEW q \in Sessions,
         q.id = r.id, q.seconds = r.seconds, q.authenticated = FALSE
  PROVE  q = [r EXCEPT !.authenticated = FALSE]
BY DEF Sessions

\* Using up a bound leaves a number.
LEMMA UseFacts ==
  ASSUME TypeOK, NEW bound \in {"logins", "answers", "requests", "beats", "other"}, NEW max, Use(bound, max)
  PROVE  used' \in [{"logins", "answers", "requests", "beats", "other"} -> Nat]
BY SMTT(20) DEF Use, TypeOK

\* A task that moves keeps its session and whether it is aborted.
LEMMA GotoFacts ==
  ASSUME TypeOK, NEW t \in Task,
         NEW at \in {"unborn", "tick", "lock", "put", "flush", "done"}, Goto(t, at)
  PROVE  /\ task' \in [Task -> [at : {"unborn", "tick", "lock", "put", "flush", "done"},
                                session : 0..granted, aborted : BOOLEAN]]
         /\ task'[t].at = at
         /\ \A u \in Task \ {t} : task'[u] = task[u]
BY DEF Goto, TypeOK

\* Aborting a task moves none.
LEMMA AbortFacts ==
  ASSUME TypeOK, NEW t \in Task \cup {None}, Abort(t)
  PROVE  /\ task' \in [Task -> [at : {"unborn", "tick", "lock", "put", "flush", "done"},
                                session : 0..granted, aborted : BOOLEAN]]
         /\ \A u \in Task : task'[u].at = task[u].at
BY SessionAssumption DEF Abort, TypeOK

\* What a write is followed by.
LEMMA ProceedFacts ==
  ASSUME TypeOK, NEW ok \in BOOLEAN, Proceed(ok)
  PROVE  /\ op' \in Ops /\ pc' \in {"idle", "lock", "answer", "down"}
         /\ op = "logoff" => pc' = "lock" /\ op' = "close"
         /\ op = "close" => pc' = "down" /\ op' = "close"
         /\ op \notin {"logoff", "close"} => pc' \in {"idle", "answer"} /\ op' = op
BY DEF Proceed, TypeOK, Ops

\* A message is added to those that were written before.
LEMMA OutFacts ==
  ASSUME TypeOK, NEW m \in [msg : Ops \cup {"heartbeat"}, session : Nat], out' = Append(out, m)
  PROVE  /\ out' \in Seq([msg : Ops \cup {"heartbeat"}, session : Nat])
         /\ Len(out) \in Nat /\ Len(out') = Len(out) + 1 /\ out' # <<>>
         /\ \A i \in 1..Len(out) : out'[i] = out[i]
         /\ out'[Len(out')] = m
<1>1. Len(out) \in Nat
  BY DEF TypeOK
<1> QED
  BY SMTT(20), <1>1, AppendProperties DEF TypeOK

\* Reading takes the oldest message to the client.
LEMMA ReadFacts ==
  ASSUME TypeOK, inbox # <<>>, inbox' = Tail(inbox)
  PROVE  /\ Head(inbox) = inbox[1] /\ 1 \in 1..Len(inbox) /\ Len(inbox) \in Nat
         /\ inbox[1] \in [msg : {"accepted", "refused", "other"}, id : 0..granted, seconds : Seconds]
         /\ inbox' \in Seq([msg : {"accepted", "refused", "other"}, id : 0..granted, seconds : Seconds])
         /\ Len(inbox') = Len(inbox) - 1
         /\ \A n \in 1..Len(inbox') : inbox'[n] = inbox[n + 1] /\ n + 1 \in 1..Len(inbox)
<1>1. inbox \in Seq([msg : {"accepted", "refused", "other"}, id : 0..granted, seconds : Seconds])
  BY DEF TypeOK
<1>2. Len(inbox) \in Nat \ {0}
  BY <1>1, EmptySeq
<1>3. inbox[1] \in [msg : {"accepted", "refused", "other"}, id : 0..granted, seconds : Seconds]
  <2> DEFINE Message == [msg : {"accepted", "refused", "other"}, id : 0..granted, seconds : Seconds]
  <2>1. inbox \in Seq(Message) /\ 1 \in 1..Len(inbox)
    BY <1>1, <1>2
  <2> HIDE DEF Message
  <2>2. inbox[1] \in Message
    BY <2>1, ElementOfSeq
  <2> QED
    BY <2>2 DEF Message
<1>4. /\ Tail(inbox) \in Seq([msg : {"accepted", "refused", "other"}, id : 0..granted, seconds : Seconds])
      /\ Len(Tail(inbox)) = Len(inbox) - 1
      /\ \A n \in 1..Len(Tail(inbox)) : Tail(inbox)[n] = inbox[n + 1]
  BY <1>1, HeadTailProperties
<1>5. Head(inbox) = inbox[1]
  BY <1>1
<1> QED
  BY <1>2, <1>3, <1>4, <1>5

\* The CM answers a logon it has not answered, and grants a session or none.
LEMMA AnswerFacts ==
  ASSUME TypeOK, AnswerLogon
  PROVE  /\ granted' \in Nat /\ granted' \in {granted, granted + 1}
         /\ Len(inbox) \in Nat /\ Len(inbox') = Len(inbox) + 1
         /\ inbox' \in Seq([msg : {"accepted", "refused", "other"}, id : 0..granted',
                            seconds : Seconds])
         /\ \A n \in 1..Len(inbox) : inbox'[n] = inbox[n]
         /\ inbox'[Len(inbox')].msg = "accepted" => inbox'[Len(inbox')].id = granted + 1
                                                     /\ granted' = granted + 1
<1> DEFINE Message(g) == [msg : {"accepted", "refused", "other"}, id : 0..g, seconds : Seconds]
<1>1. granted \in Nat /\ inbox \in Seq(Message(granted)) /\ Len(inbox) \in Nat
  BY DEF TypeOK
<1>2. CASE \E s \in Seconds : /\ granted' = granted + 1
                             /\ inbox' = Append(inbox, [msg |-> "accepted", id |-> granted', seconds |-> s])
  <2>1. PICK s \in Seconds :
          /\ granted' = granted + 1
          /\ inbox' = Append(inbox, [msg |-> "accepted", id |-> granted', seconds |-> s])
    BY <1>2
  <2>2. Message(granted) \subseteq Message(granted + 1)
    BY <1>1
  <2>3. inbox \in Seq(Message(granted + 1))
    BY <1>1, <2>2, SeqMonotonic
  <2>4. [msg |-> "accepted", id |-> granted', seconds |-> s] \in Message(granted + 1)
    BY <1>1, <2>1
  <2> QED
    BY <1>1, <2>1, <2>3, <2>4, AppendProperties
<1>3. CASE /\ inbox' = Append(inbox, [msg |-> "refused", id |-> 0, seconds |-> 0])
           /\ UNCHANGED granted
  <2>1. [msg |-> "refused", id |-> 0, seconds |-> 0] \in Message(granted)
    BY <1>1 DEF Seconds
  <2> QED
    BY <1>1, <1>3, <2>1, AppendProperties
<1> QED
  BY <1>2, <1>3 DEF AnswerLogon

\* What the CM sends unasked is no grant.
LEMMA UnaskedFacts ==
  ASSUME TypeOK, Unasked
  PROVE  /\ Len(inbox) \in Nat /\ Len(inbox') = Len(inbox) + 1
         /\ inbox' \in Seq([msg : {"accepted", "refused", "other"}, id : 0..granted, seconds : Seconds])
         /\ \A n \in 1..Len(inbox) : inbox'[n] = inbox[n]
         /\ inbox'[Len(inbox')].msg # "accepted"
<1> DEFINE Message == [msg : {"accepted", "refused", "other"}, id : 0..granted, seconds : Seconds]
<1>1. granted \in Nat /\ inbox \in Seq(Message) /\ Len(inbox) \in Nat
  BY DEF TypeOK
<1>2. [msg |-> "other", id |-> 0, seconds |-> 0] \in Message
  BY <1>1 DEF Seconds
<1> QED
  BY <1>1, <1>2, AppendProperties DEF Unasked

-----------------------------------------------------------------------------
(* What holds for every number of heartbeat tasks *)

\* The types are kept by every step.
LEMMA TypeStep ==
  SharedInv /\ [Next]_vars => TypeOK'
<1> SUFFICES ASSUME SharedInv, [Next]_vars
             PROVE  TypeOK'
  OBVIOUS
<1>t. TypeOK /\ granted \in Nat /\ session.id \in 0..granted
  BY DEF SharedInv, GrantsInOrder, TypeOK, Sessions
<1>1. CASE Login
  BY <1>1, <1>t, UseFacts DEF Login, TypeOK, Ops
<1>2. CASE Request
  BY <1>2, <1>t, UseFacts DEF Request, TypeOK, Ops
<1>3. CASE Lock
  BY <1>3, <1>t DEF Lock, TypeOK
<1>4. CASE Put
  <2>1. [msg |-> op, session |-> Header] \in [msg : Ops \cup {"heartbeat"}, session : Nat]
    BY <1>t DEF Header, TypeOK, Sessions
  <2>2. out' \in Seq([msg : Ops \cup {"heartbeat"}, session : Nat])
    BY <1>4, <1>t, <2>1, OutFacts DEF Put
  <2> QED
    BY <1>4, <1>t, <2>2 DEF Put, TypeOK
<1>5. CASE Flush \/ WriteFails
  <2>1. op' \in Ops /\ pc' \in {"idle", "lock", "answer", "down"}
    BY <1>5, <1>t, ProceedFacts DEF Flush, WriteFails
  <2> QED
    BY <1>5, <1>t, <2>1 DEF Flush, WriteFails, TypeOK
<1>6. CASE LogonResponse
  <2>1. /\ inbox' \in Seq([msg : {"accepted", "refused", "other"}, id : 0..granted, seconds : Seconds])
        /\ Head(inbox) \in [msg : {"accepted", "refused", "other"}, id : 0..granted, seconds : Seconds]
    BY <1>6, <1>t, ReadFacts DEF LogonResponse
  <2>2. session' \in Sessions /\ returned' \in Sessions
    <3>1. CASE Head(inbox).msg = "accepted"
      <4>1. /\ session' = [Granted(Head(inbox)) EXCEPT !.authenticated = (op = "token")]
            /\ returned' = Granted(Head(inbox))
        BY <1>6, <3>1 DEF LogonResponse
      <4>2. Granted(Head(inbox)) \in Sessions
        BY <1>t, <2>1 DEF Granted, Sessions
      <4>3. (op = "token") \in BOOLEAN
        OBVIOUS
      <4> QED
        BY <4>1, <4>2, <4>3 DEF Sessions
    <3>2. CASE Head(inbox).msg # "accepted"
      BY <1>6, <1>t, <3>2 DEF LogonResponse, TypeOK
    <3> QED
      BY <3>1, <3>2
  <2> QED
    BY <1>6, <1>t, <2>1, <2>2 DEF LogonResponse, TypeOK
<1>7. CASE LogonClosed
  BY <1>7, <1>t DEF LogonClosed, TypeOK
<1>8. CASE Shutdown
  <2>1. task' \in [Task -> [at : {"unborn", "tick", "lock", "put", "flush", "done"},
                           session : 0..granted, aborted : BOOLEAN]]
    BY <1>8, <1>t, AbortFacts DEF Shutdown, TypeOK
  <2> QED
    BY <1>8, <1>t, <2>1 DEF Shutdown, LogOff, TypeOK, Ops
<1>9. CASE Joined
  BY <1>9, <1>t DEF Joined, LogOff, TypeOK, Ops
<1>10. CASE Drop
  <2>1. task' \in [Task -> [at : {"unborn", "tick", "lock", "put", "flush", "done"},
                           session : 0..granted, aborted : BOOLEAN]]
    BY <1>10, <1>t, AbortFacts DEF Drop, TypeOK
  <2> QED
    BY <1>10, <1>t, <2>1 DEF Drop, Release, TypeOK
<1>11. ASSUME NEW t \in Task, StartHeartbeat(t) PROVE TypeOK'
  <2>1. [at |-> "tick", session |-> session.id, aborted |-> FALSE]
          \in [at : {"unborn", "tick", "lock", "put", "flush", "done"},
              session : 0..granted, aborted : BOOLEAN]
    BY <1>t
  <2>2. task' \in [Task -> [at : {"unborn", "tick", "lock", "put", "flush", "done"},
                           session : 0..granted, aborted : BOOLEAN]]
    BY <1>11, <1>t, <2>1 DEF StartHeartbeat, TypeOK
  <2> QED
    BY <1>11, <1>t, <2>2 DEF StartHeartbeat, TypeOK
<1>12. ASSUME NEW t \in Task, Beat(t) \/ CancelTask(t) PROVE TypeOK'
  <2>1. task' \in [Task -> [at : {"unborn", "tick", "lock", "put", "flush", "done"},
                           session : 0..granted, aborted : BOOLEAN]]
    BY <1>12, <1>t, GotoFacts
    DEF Beat, Tick, BeatLock, BeatPut, BeatFlush, BeatFails, CancelTask
  <2>2. used' \in [{"logins", "answers", "requests", "beats", "other"} -> Nat]
    <3>1. CASE Tick(t)
      BY <1>t, <3>1, UseFacts DEF Tick
    <3>2. CASE ~ Tick(t)
      BY <1>12, <1>t, <3>2 DEF Beat, BeatLock, BeatPut, BeatFlush, BeatFails, CancelTask, TypeOK
    <3> QED
      BY <3>1, <3>2
  <2>3. out' \in Seq([msg : Ops \cup {"heartbeat"}, session : Nat])
    <3>1. CASE BeatPut(t)
      <4>1. [msg |-> "heartbeat", session |-> task[t].session]
              \in [msg : Ops \cup {"heartbeat"}, session : Nat]
        <5>1. task[t].session \in 0..granted
          BY <1>t DEF TypeOK
        <5> QED
          BY <1>t, <5>1
      <4> QED
        BY <1>t, <3>1, <4>1, OutFacts DEF BeatPut
    <3>2. CASE ~ BeatPut(t)
      BY <1>12, <1>t, <3>2 DEF Beat, Tick, BeatLock, BeatFlush, BeatFails, CancelTask, TypeOK
    <3> QED
      BY <3>1, <3>2
  <2>4. lock' \in Task \cup {Main, None}
    BY <1>12, <1>t
    DEF Beat, Tick, BeatLock, BeatPut, BeatFlush, BeatFails, CancelTask, Release, TypeOK
  <2>5. UNCHANGED <<caller, socket, inbox, granted>>
    BY <1>12 DEF Beat, Tick, BeatLock, BeatPut, BeatFlush, BeatFails, CancelTask
  <2> QED
    BY <1>t, <2>1, <2>2, <2>3, <2>4, <2>5 DEF caller, TypeOK
<1>13. CASE AnswerLogon
  <2>1. /\ granted' \in Nat /\ granted' \in {granted, granted + 1}
        /\ inbox' \in Seq([msg : {"accepted", "refused", "other"}, id : 0..granted',
                           seconds : Seconds])
    BY <1>13, <1>t, AnswerFacts
  <2>2. used' \in [{"logins", "answers", "requests", "beats", "other"} -> Nat]
    <3>1. PICK i \in Logons : used' = [used EXCEPT !.answers = i]
      BY <1>13 DEF AnswerLogon
    <3>2. i \in Nat
      BY SMTT(20), <1>t DEF Logons, TypeOK
    <3> QED
      BY <1>t, <3>1, <3>2 DEF TypeOK
  <2>3. task \in [Task -> [at : {"unborn", "tick", "lock", "put", "flush", "done"},
                          session : 0..granted', aborted : BOOLEAN]]
    <3>1. 0..granted \subseteq 0..granted'
      BY <1>t, <2>1
    <3> QED
      BY <1>t, <3>1 DEF TypeOK
  <2> QED
    BY <1>13, <1>t, <2>1, <2>2, <2>3 DEF AnswerLogon, caller, TypeOK
<1>14. CASE Unasked
  <2>1. used' \in [{"logins", "answers", "requests", "beats", "other"} -> Nat]
    BY <1>14, <1>t, UseFacts DEF Unasked
  <2> QED
    BY <1>14, <1>t, <2>1, UnaskedFacts DEF Unasked, caller, TypeOK
<1>15. CASE HangUp \/ UNCHANGED vars
  BY <1>15, <1>t DEF HangUp, vars, caller, TypeOK
<1> QED
  BY <1>1, <1>2, <1>3, <1>4, <1>5, <1>6, <1>7, <1>8, <1>9, <1>10, <1>11, <1>12, <1>13, <1>14,
     <1>15
  DEF Next, Writing, Over

\* The sink keeps one writer.
LEMMA WriterStep ==
  SharedInv /\ [Next]_vars => OneWriter'
<1> SUFFICES ASSUME SharedInv, [Next]_vars
             PROVE  OneWriter'
  OBVIOUS
<1>t. TypeOK /\ OneWriter /\ Main \notin Task /\ None \notin Task /\ Main # None
  BY SessionAssumption DEF SharedInv
<1>1. CASE \/ Login \/ Request \/ LogonResponse \/ LogonClosed \/ Joined
  <2>1. UNCHANGED <<task, lock>> /\ pc \notin {"put", "flush"} /\ pc' \notin {"put", "flush"}
    BY <1>1 DEF Login, Request, LogonResponse, LogonClosed, Joined, LogOff
  <2> QED
    BY <1>t, <2>1 DEF OneWriter
<1>2. CASE Lock
  BY <1>2, <1>t DEF Lock, OneWriter
<1>3. CASE Put
  BY <1>3, <1>t DEF Put, OneWriter
<1>4. CASE Flush \/ WriteFails
  <2>1. pc \in {"put", "flush"} /\ lock' = None /\ task' = task
    BY <1>4 DEF Flush, WriteFails
  <2>2. pc' \notin {"put", "flush"}
    BY <1>4, <1>t, ProceedFacts DEF Flush, WriteFails
  <2> QED
    BY <1>t, <2>1, <2>2 DEF OneWriter
<1>5. CASE Shutdown \/ Drop
  <2>1. \A u \in Task : task'[u].at = task[u].at
    BY <1>5, <1>t, AbortFacts DEF Shutdown, Drop, TypeOK
  <2>2. pc' \notin {"put", "flush"}
    BY <1>5 DEF Shutdown, Drop, LogOff
  <2>3. lock' = IF lock = Main THEN None ELSE lock
    BY <1>5, <1>t DEF Shutdown, Drop, Release, OneWriter
  <2> QED
    BY <1>t, <2>1, <2>2, <2>3 DEF OneWriter
<1>6. ASSUME NEW t \in Task, StartHeartbeat(t) PROVE OneWriter'
  <2>1. /\ task[t].at = "unborn" /\ task'[t].at = "tick" /\ UNCHANGED <<pc, lock>>
        /\ \A u \in Task \ {t} : task'[u] = task[u]
    BY <1>6, <1>t DEF StartHeartbeat, TypeOK
  <2> QED
    BY <1>t, <2>1 DEF OneWriter
<1>7. ASSUME NEW t \in Task, Beat(t) \/ CancelTask(t) PROVE OneWriter'
  <2>1. /\ pc' = pc
        /\ \A u \in Task \ {t} : task'[u] = task[u]
        /\ \/ /\ lock' = lock
              /\ task[t].at \in {"put", "flush"} <=> task'[t].at \in {"put", "flush"}
           \/ lock = None /\ lock' = t /\ task'[t].at = "put"
           \/ lock' = (IF lock = t THEN None ELSE lock) /\ task'[t].at \in {"tick", "done"}
    BY <1>7, <1>t, GotoFacts
    DEF Beat, Tick, BeatLock, BeatPut, BeatFlush, BeatFails, CancelTask, Release, caller
  <2> QED
    BY <1>t, <2>1 DEF OneWriter
<1>8. CASE AnswerLogon \/ Unasked \/ HangUp \/ UNCHANGED vars
  <2>1. UNCHANGED <<pc, task, lock>>
    BY <1>8 DEF AnswerLogon, Unasked, HangUp, vars, caller
  <2> QED
    BY <1>t, <2>1 DEF OneWriter
<1> QED
  BY <1>1, <1>2, <1>3, <1>4, <1>5, <1>6, <1>7, <1>8 DEF Next, Writing, Over

\* The only step that changes the session takes a grant from the inbox, which
\* is newer than the session it replaces.
LEMMA SessionChanges ==
  ASSUME SharedInv, [Next]_vars
  PROVE  \/ UNCHANGED <<session, returned>>
         \/ /\ LogonResponse
            /\ inbox[1].msg = "accepted" /\ inbox[1].id \in (session.id + 1)..granted
            /\ session'.id = inbox[1].id
            /\ returned' = [session' EXCEPT !.authenticated = FALSE]
            /\ UNCHANGED granted
<1>t. TypeOK /\ GrantsInOrder
  BY DEF SharedInv
<1>1. CASE LogonResponse
  <2>1. /\ Head(inbox) = inbox[1] /\ 1 \in 1..Len(inbox)
        /\ inbox[1] \in [msg : {"accepted", "refused", "other"}, id : 0..granted, seconds : Seconds]
    BY <1>1, <1>t, ReadFacts DEF LogonResponse
  <2>2. CASE inbox[1].msg # "accepted"
    BY <1>1, <2>1, <2>2 DEF LogonResponse
  <2>3. CASE inbox[1].msg = "accepted"
    <3>1. /\ session' = [Granted(inbox[1]) EXCEPT !.authenticated = (op = "token")]
          /\ returned' = Granted(inbox[1]) /\ granted' = granted
      BY <1>1, <2>1, <2>3 DEF LogonResponse
    <3>2. session'.id = inbox[1].id /\ returned' = [session' EXCEPT !.authenticated = FALSE]
      <4> DEFINE auth == op = "token"
      <4>1. auth \in BOOLEAN
        OBVIOUS
      <4>2. session' = [Granted(inbox[1]) EXCEPT !.authenticated = auth]
        BY <3>1
      <4> HIDE DEF auth
      <4>3. session' = [id |-> inbox[1].id, seconds |-> inbox[1].seconds, authenticated |-> auth]
        BY <4>2 DEF Granted
      <4>4. returned' = [id |-> inbox[1].id, seconds |-> inbox[1].seconds, authenticated |-> FALSE]
        BY <3>1 DEF Granted
      <4>5. session' \in Sessions /\ returned' \in Sessions
        BY TypeStep DEF TypeOK
      <4> QED
        BY <4>3, <4>4, <4>5, CopyFacts
    <3>3. session.id \in Nat /\ granted \in Nat /\ inbox[1].id \in 0..granted
      BY <1>t, <2>1 DEF TypeOK, Sessions
    <3>4. inbox[1].id > session.id
      BY <1>t, <2>1, <2>3 DEF GrantsInOrder
    <3> QED
      BY <1>1, <2>3, <3>1, <3>2, <3>3, <3>4
  <2> QED
    BY <2>2, <2>3
<1>2. CASE ~ LogonResponse
  BY <1>2 DEF Next, Writing, Over, vars, caller, Login, Request, Lock, Put, Flush, WriteFails,
     LogonClosed, Shutdown, Joined, Drop, StartHeartbeat, Beat, CancelTask, Tick, BeatLock,
     BeatPut, BeatFlush, BeatFails, AnswerLogon, Unasked, HangUp
<1> QED
  BY <1>1, <1>2

\* Grants arrive in the order in which they were made.
LEMMA GrantsStep ==
  SharedInv /\ [Next]_vars => GrantsInOrder'
<1> SUFFICES ASSUME SharedInv, [Next]_vars
             PROVE  GrantsInOrder'
  OBVIOUS
<1>t. TypeOK /\ GrantsInOrder /\ session.id \in Nat /\ granted \in Nat
  BY DEF SharedInv, TypeOK, Sessions
<1>n. ASSUME NEW n \in 1..Len(inbox) PROVE inbox[n].id \in 0..granted
  <2> DEFINE Message == [msg : {"accepted", "refused", "other"}, id : 0..granted, seconds : Seconds]
  <2>1. inbox \in Seq(Message)
    BY <1>t DEF TypeOK
  <2> HIDE DEF Message
  <2>2. inbox[n] \in Message
    BY <2>1, ElementOfSeq
  <2> QED
    BY <2>2 DEF Message
<1>1. CASE LogonResponse
  <2>1. /\ 1 \in 1..Len(inbox) /\ Len(inbox) \in Nat /\ Len(inbox') = Len(inbox) - 1
        /\ \A n \in 1..Len(inbox') : inbox'[n] = inbox[n + 1] /\ n + 1 \in 1..Len(inbox)
    BY <1>1, <1>t, ReadFacts DEF LogonResponse
  <2>2. granted' = granted
    BY <1>1 DEF LogonResponse
  <2>3. session'.id \in Nat /\ session'.id <= granted
    BY <1>t, SessionChanges DEF GrantsInOrder
  <2>4. ASSUME NEW n \in 1..Len(inbox'), inbox'[n].msg = "accepted"
        PROVE  inbox'[n].id > session'.id
    <3>1. n + 1 \in 1 + 1..Len(inbox) /\ inbox[n + 1].msg = "accepted" /\ inbox'[n] = inbox[n + 1]
      BY <2>1, <2>4
    <3>2. inbox[n + 1].id > session.id
      BY <1>t, <2>1, <3>1 DEF GrantsInOrder
    <3>3. inbox[1].msg = "accepted" => inbox[n + 1].id > inbox[1].id
      BY <1>t, <2>1, <3>1 DEF GrantsInOrder
    <3> QED
      BY <3>1, <3>2, <3>3, SessionChanges
  <2>5. ASSUME NEW n \in 1..Len(inbox'), inbox'[n].msg = "accepted",
               NEW m \in n + 1..Len(inbox'), inbox'[m].msg = "accepted"
        PROVE  inbox'[m].id > inbox'[n].id
    <3>1. /\ inbox'[n] = inbox[n + 1] /\ n + 1 \in 1..Len(inbox)
          /\ inbox'[m] = inbox[m + 1] /\ m + 1 \in (n + 1) + 1..Len(inbox)
      BY <2>1
    <3> QED
      BY <1>t, <2>5, <3>1 DEF GrantsInOrder
  <2> QED
    BY <2>2, <2>3, <2>4, <2>5 DEF GrantsInOrder
<1>2. CASE AnswerLogon
  <2>1. /\ granted' \in Nat /\ granted' \in {granted, granted + 1}
        /\ Len(inbox) \in Nat /\ Len(inbox') = Len(inbox) + 1
        /\ \A n \in 1..Len(inbox) : inbox'[n] = inbox[n]
        /\ inbox'[Len(inbox')].msg = "accepted" => inbox'[Len(inbox')].id = granted + 1
    BY <1>2, <1>t, AnswerFacts
  <2>2. session' = session
    BY <1>2 DEF AnswerLogon, caller
  <2> QED
    BY SMTT(20), <1>t, <1>n, <2>1, <2>2 DEF GrantsInOrder
<1>3. CASE Unasked
  <2>1. session' = session /\ granted' = granted
    BY <1>3 DEF Unasked, caller
  <2>2. /\ Len(inbox) \in Nat /\ Len(inbox') = Len(inbox) + 1
        /\ \A n \in 1..Len(inbox) : inbox'[n] = inbox[n]
        /\ inbox'[Len(inbox')].msg # "accepted"
    BY <1>3, <1>t, UnaskedFacts
  <2> QED
    BY <1>t, <2>1, <2>2 DEF GrantsInOrder
<1>4. CASE ~ (LogonResponse \/ AnswerLogon \/ Unasked)
  <2>1. UNCHANGED <<session, inbox, granted>>
    BY <1>4 DEF Next, Writing, Over, vars, caller, Login, Request, Lock, Put, Flush, WriteFails,
       LogonClosed, Shutdown, Joined, Drop, StartHeartbeat, Beat, CancelTask, Tick, BeatLock,
       BeatPut, BeatFlush, BeatFails, HangUp
  <2> QED
    BY <1>t, <2>1 DEF GrantsInOrder
<1> QED
  BY <1>1, <1>2, <1>3, <1>4

\* Nothing is connected or written at the start.
LEMMA SharedInit ==
  Init => SharedInv
<1> SUFFICES ASSUME Init
             PROVE  SharedInv
  OBVIOUS
<1>1. TypeOK
  <2>1. NoSession \in Sessions
    BY DEF NoSession, Sessions, Seconds
  <2>2. /\ out \in Seq([msg : Ops \cup {"heartbeat"}, session : Nat]) /\ granted = 0
        /\ inbox \in Seq([msg : {"accepted", "refused", "other"}, id : 0..granted, seconds : Seconds])
    BY EmptySeq DEF Init
  <2>3. task \in [Task -> [at : {"unborn", "tick", "lock", "put", "flush", "done"},
                          session : 0..granted, aborted : BOOLEAN]]
    BY <2>2 DEF Init
  <2> QED
    BY <2>1, <2>2, <2>3 DEF Init, TypeOK, Ops
<1>2. OneWriter
  BY SessionAssumption DEF Init, OneWriter
<1>3. GrantsInOrder /\ CopyKept
  <2>1. Len(inbox) = 0
    BY DEF Init
  <2>2. GrantsInOrder
    BY <2>1 DEF Init, GrantsInOrder, NoSession
  <2>3. [NoSession EXCEPT !.authenticated = FALSE] = NoSession
    <3>1. NoSession \in Sessions /\ NoSession.authenticated = FALSE
      BY DEF NoSession, Sessions, Seconds
    <3> QED
      BY <3>1, CopyFacts
  <2> QED
    BY <2>2, <2>3 DEF Init, CopyKept
<1> QED
  BY <1>1, <1>2, <1>3 DEF SharedInv

\* connection.rs: with any number of heartbeats, the sink has one writer at a
\* time and the caller of login holds a copy of the session.
THEOREM SharedInvariance ==
  Spec => []SharedInv
<1>1. Init => SharedInv
  BY SharedInit
<1>2. SharedInv /\ [Next]_vars => SharedInv'
  <2> SUFFICES ASSUME SharedInv, [Next]_vars
               PROVE  SharedInv'
    OBVIOUS
  <2>1. CopyKept'
    BY SessionChanges DEF SharedInv, CopyKept
  <2> QED
    BY <2>1, TypeStep, WriterStep, GrantsStep DEF SharedInv
<1> QED
  BY <1>1, <1>2, PTL DEF Spec

\* login.rs: the stored session is only ever replaced by a newer one that the
\* CM has granted on this connection.
THEOREM SessionsOnlyAdvance ==
  Spec => SessionsAdvance
<1>1. SharedInv /\ [Next]_vars => [session' # session => session'.id \in (session.id + 1)..granted]_vars
  BY SessionChanges
<1> QED
  BY <1>1, SharedInvariance, PTL DEF Spec, SessionsAdvance

-----------------------------------------------------------------------------
(* What holds with one heartbeat *)

\* A task that runs while shutdown is about to log off would be nobody's.
LEMMA NoneRuns ==
  ASSUME TaskOwned, Ending, NEW t \in Task
  PROVE  ~ Running(t)
BY SessionAssumption DEF TaskOwned

\* The one task that may run stays with the connection that aborts it.
LEMMA OwnedStep ==
  ASSUME OneHeartbeat, EndingInv, [Next]_vars
  PROVE  TaskOwned'
<1>t. TypeOK /\ TaskOwned /\ None \notin Task
  BY SessionAssumption DEF EndingInv, SharedInv
<1>1. CASE Login \/ Request
  <2>1. pc = "idle" /\ pc' = "lock" /\ op' \in {"logon", "token", "request"}
        /\ UNCHANGED <<handle, joining, task>>
    BY <1>1 DEF Login, Request
  <2> QED
    BY <1>t, <2>1 DEF TaskOwned, Ending, Running
<1>2. CASE Lock \/ Put
  <2>1. /\ pc \in {"lock", "put"} /\ pc' \in {"put", "flush"}
        /\ UNCHANGED <<op, handle, joining, task>>
    BY <1>2 DEF Lock, Put
  <2> QED
    BY <1>t, <2>1 DEF TaskOwned, Ending, Running
<1>3. CASE Flush \/ WriteFails
  <2>1. pc \in {"put", "flush"} /\ UNCHANGED <<handle, joining, task>>
    BY <1>3 DEF Flush, WriteFails
  <2>2. /\ pc' \in {"idle", "lock", "answer", "down"}
        /\ op = "logoff" => pc' = "lock" /\ op' = "close"
        /\ op = "close" => pc' = "down" /\ op' = "close"
        /\ op \notin {"logoff", "close"} => pc' \in {"idle", "answer"} /\ op' = op
    BY <1>3, <1>t, ProceedFacts DEF Flush, WriteFails
  <2> QED
    BY <1>t, <2>1, <2>2 DEF TaskOwned, Ending, Running
<1>4. CASE LogonResponse \/ LogonClosed
  <2>1. pc = "answer" /\ pc' = "idle" /\ UNCHANGED <<op, handle, joining, task>>
    BY <1>4 DEF LogonResponse, LogonClosed
  <2> QED
    BY <1>t, <2>1 DEF TaskOwned, Ending, Running
<1>5. CASE Shutdown
  <2>1. /\ pc = "idle" /\ handle' = None
        /\ \/ handle = None /\ pc' = "lock" /\ op' \in {"logoff", "close"} /\ joining' = joining
           \/ handle # None /\ pc' = "join" /\ joining' = handle /\ op' = op
    BY <1>5 DEF Shutdown, LogOff
  <2>2. \A t \in Task : task'[t].at = task[t].at
    BY <1>5, <1>t, AbortFacts DEF Shutdown, TypeOK
  <2> QED
    BY <1>t, <2>1, <2>2 DEF TaskOwned, Ending, Running
<1>6. CASE Joined
  <2>1. /\ pc = "join" /\ task[joining].at = "done" /\ pc' = "lock" /\ op' \in {"logoff", "close"}
        /\ UNCHANGED <<handle, joining, task>>
    BY <1>6 DEF Joined, LogOff
  <2> QED
    BY <1>t, <2>1 DEF TaskOwned, Ending, Running
<1>7. CASE Drop
  <2>1. pc # "dropped" /\ pc' = "dropped" /\ handle' = None /\ UNCHANGED <<op, joining>>
    BY <1>7 DEF Drop
  <2>2. \A t \in Task : task'[t].at = task[t].at
    BY <1>7, <1>t, AbortFacts DEF Drop, TypeOK
  <2>3. Ending => \A t \in Task : ~ Running(t)
    BY <1>t, NoneRuns
  <2> QED
    BY <1>t, <2>1, <2>2, <2>3 DEF TaskOwned, Ending, Running
<1>8. ASSUME NEW t \in Task, StartHeartbeat(t) PROVE TaskOwned'
  <2>1. pc = "idle" /\ handle' = t /\ UNCHANGED <<pc, op>>
    BY <1>8 DEF StartHeartbeat
  <2>2. \A u \in Task : u = t
    BY DEF OneHeartbeat
  <2> QED
    BY <1>t, <2>1, <2>2 DEF TaskOwned, Ending, Running
<1>9. ASSUME NEW t \in Task, Beat(t) \/ CancelTask(t) PROVE TaskOwned'
  <2>1. Running(t) /\ UNCHANGED <<pc, op, handle, joining>>
    BY <1>9 DEF Beat, Tick, BeatLock, BeatPut, BeatFlush, BeatFails, CancelTask, Running, caller
  <2>2. \A u \in Task \ {t} : task'[u] = task[u]
    BY <1>9, <1>t, GotoFacts DEF Beat, Tick, BeatLock, BeatPut, BeatFlush, BeatFails, CancelTask
  <2> QED
    BY <1>t, <2>1, <2>2 DEF TaskOwned, Ending, Running
<1>10. CASE AnswerLogon \/ Unasked \/ HangUp \/ UNCHANGED vars
  <2>1. UNCHANGED <<pc, op, handle, joining, task>>
    BY <1>10 DEF AnswerLogon, Unasked, HangUp, vars, caller
  <2> QED
    BY <1>t, <2>1 DEF TaskOwned, Ending, Running
<1> QED
  BY <1>1, <1>2, <1>3, <1>4, <1>5, <1>6, <1>7, <1>8, <1>9, <1>10 DEF Next, Writing, Over

\* Nothing is put in between the LogOff of a shutdown and its Close.
LEMMA LogOffStep ==
  ASSUME OneHeartbeat, EndingInv, [Next]_vars
  PROVE  LogOffLast'
<1>t. TypeOK /\ TaskOwned /\ LogOffLast /\ Len(out) \in Nat
  BY DEF EndingInv, SharedInv, TypeOK
<1>1. CASE Put
  <2>1. [msg |-> op, session |-> Header] \in [msg : Ops \cup {"heartbeat"}, session : Nat]
    BY <1>t DEF Header, TypeOK, Sessions
  <2>2. /\ pc = "put" /\ socket = "up" /\ pc' = "flush" /\ UNCHANGED <<op, session, socket>>
        /\ out' = Append(out, [msg |-> op, session |-> Header])
    BY <1>1 DEF Put
  <2>3. /\ Len(out') = Len(out) + 1 /\ out' # <<>>
        /\ \A i \in 1..Len(out) : out'[i] = out[i]
        /\ out'[Len(out')] = [msg |-> op, session |-> Header]
    BY <1>t, <2>1, <2>2, OutFacts
  <2>4. op # "heartbeat" /\ (op = "logoff" => Header = session.id)
    BY <1>t DEF Header, TypeOK, Ops
  <2>5. op = "close" /\ session # NoSession => LoggedOff(Len(out))
    BY <1>t, <2>2 DEF LogOffLast
  <2>6. \A i, k \in 1..Len(out') : i < k /\ out'[i].msg = "logoff" => out'[k].msg # "heartbeat"
    BY <1>t, <2>3, <2>4 DEF LogOffLast
  <2>7. \A i \in 1..Len(out') : out'[i].msg = "logoff" => Ending'
    BY <1>t, <2>2, <2>3 DEF LogOffLast, Ending
  <2>8. session' # NoSession /\ op' = "logoff" => LoggedOff(Len(out))'
    BY <1>t, <2>2, <2>3, <2>4 DEF LoggedOff
  <2>9. op = "close" /\ session' # NoSession => LoggedOff(Len(out) - 1)'
    BY <1>t, <2>2, <2>3, <2>5 DEF LoggedOff
  <2>10. LastOut'.msg = "close" => op = "close"
    BY <2>3 DEF LastOut
  <2> QED
    BY <2>2, <2>6, <2>7, <2>8, <2>9, <2>10 DEF LogOffLast
<1>2. ASSUME NEW t \in Task, BeatPut(t) PROVE LogOffLast'
  <2>1. [msg |-> "heartbeat", session |-> task[t].session]
          \in [msg : Ops \cup {"heartbeat"}, session : Nat]
    <3>1. task[t].session \in 0..granted /\ granted \in Nat
      BY <1>t DEF TypeOK
    <3> QED
      BY <3>1
  <2>2. /\ UNCHANGED <<op, pc, session, socket>>
        /\ out' = Append(out, [msg |-> "heartbeat", session |-> task[t].session])
    BY <1>2 DEF BeatPut, caller
  <2>3. /\ Len(out') = Len(out) + 1 /\ out' # <<>>
        /\ \A i \in 1..Len(out) : out'[i] = out[i]
        /\ out'[Len(out')] = [msg |-> "heartbeat", session |-> task[t].session]
    BY <1>t, <2>1, <2>2, OutFacts
  <2>4. ~ Ending
    <3>1. Running(t)
      BY <1>2 DEF BeatPut, Running
    <3> QED
      BY <1>t, <3>1, NoneRuns
  <2>5. \A i \in 1..Len(out') : out'[i].msg # "logoff"
    BY <1>t, <2>3, <2>4 DEF LogOffLast
  <2> QED
    BY <2>2, <2>3, <2>4, <2>5 DEF LogOffLast, LastOut, Ending
\* Steps outside of a shutdown, into it, and within it, that write nothing.
<1>o. ASSUME out' = out, ~ Ending, ~ Ending' PROVE LogOffLast'
  BY <1>t, <1>o DEF LogOffLast, LastOut, Ending
<1>i. ASSUME out' = out, ~ Ending, pc' = "lock", LogOff, session' = session PROVE LogOffLast'
  BY <1>t, <1>i DEF LogOffLast, LastOut, Ending, LogOff
<1>w. ASSUME UNCHANGED <<out, op, session>>, socket' = socket \/ socket' # "up",
             pc' = pc \/ pc' = "dropped" \/ (pc = "lock" /\ pc' = "put")
      PROVE  LogOffLast'
  BY <1>t, <1>w DEF LogOffLast, LastOut, LoggedOff, Ending
<1>3. CASE Login \/ Request \/ LogonResponse \/ LogonClosed
  <2>1. out' = out /\ pc \in {"idle", "answer"} /\ (op' = op \/ op' \in {"logon", "token", "request"})
    BY <1>3 DEF Login, Request, LogonResponse, LogonClosed
  <2> QED
    BY <1>t, <1>o, <2>1 DEF TaskOwned, Ending
<1>4. CASE Flush \/ WriteFails
  <2>1. /\ pc \in {"put", "flush"} /\ UNCHANGED <<out, session>>
        /\ \/ pc = "flush" /\ socket = "up"
           \/ socket # "up" /\ socket' # "up"
    BY <1>4 DEF Flush, WriteFails
  <2>2. /\ op = "logoff" => pc' = "lock" /\ op' = "close"
        /\ op = "close" => pc' = "down" /\ op' = "close"
        /\ op \notin {"logoff", "close"} => op' = op
    BY <1>4, <1>t, ProceedFacts DEF Flush, WriteFails
  <2>3. CASE Ending
    BY <1>t, <2>1, <2>2, <2>3 DEF LogOffLast, LastOut, LoggedOff, Ending
  <2>4. CASE ~ Ending
    BY <1>o, <2>1, <2>2, <2>4 DEF Ending
  <2> QED
    BY <2>3, <2>4
<1>5. CASE Shutdown \/ Joined
  <2>1. pc \in {"idle", "join"} /\ UNCHANGED <<out, session>>
        /\ ((pc' = "lock" /\ LogOff) \/ op' = op)
    BY <1>5 DEF Shutdown, Joined, LogOff
  <2> QED
    BY <1>t, <1>i, <1>o, <2>1 DEF TaskOwned, Ending
<1>6. CASE Lock \/ Drop \/ AnswerLogon \/ Unasked \/ HangUp \/ UNCHANGED vars
  <2>1. /\ UNCHANGED <<out, op, session>> /\ (socket' = socket \/ socket' # "up")
        /\ pc' = pc \/ pc' = "dropped" \/ (pc = "lock" /\ pc' = "put")
    BY <1>6 DEF Lock, Drop, AnswerLogon, Unasked, HangUp, vars, caller
  <2> QED
    BY <1>w, <2>1
<1>7. ASSUME NEW t \in Task,
             StartHeartbeat(t) \/ Tick(t) \/ BeatLock(t) \/ BeatFlush(t) \/ BeatFails(t) \/ CancelTask(t)
      PROVE  LogOffLast'
  <2>1. UNCHANGED <<out, op, session, pc, socket>>
    BY <1>7 DEF StartHeartbeat, Tick, BeatLock, BeatFlush, BeatFails, CancelTask, caller
  <2> QED
    BY <1>w, <2>1
<1> QED
  BY <1>1, <1>2, <1>3, <1>4, <1>5, <1>6, <1>7 DEF Next, Writing, Beat, Over

\* EndingInv holds of every state of a connection with one heartbeat.
THEOREM EndingInvariance ==
  ASSUME OneHeartbeat
  PROVE  Spec => []EndingInv
<1>1. Init => EndingInv
  <2> SUFFICES ASSUME Init
               PROVE  EndingInv
    OBVIOUS
  <2>1. TaskOwned
    BY DEF Init, TaskOwned, Ending, Running
  <2>2. Len(out) = 0 /\ out = <<>>
    BY DEF Init
  <2>3. LogOffLast
    BY <2>2 DEF Init, LogOffLast
  <2> QED
    BY <2>1, <2>3, SharedInit DEF EndingInv
<1>2. EndingInv /\ SharedInv' /\ [Next]_vars => EndingInv'
  BY OwnedStep, LogOffStep DEF EndingInv
<1> QED
  BY <1>1, <1>2, SharedInvariance, PTL DEF Spec

\* connection.rs: with one heartbeat, the sink has one writer, shutdown ends in
\* LogOff and Close, no heartbeat follows the LogOff of its session, and login returns a copy of the stored session.
THEOREM SessionHolds ==
  ASSUME OneHeartbeat
  PROVE  Spec => []SessionInv
<1>1. EndingInv => SessionInv
  <2> SUFFICES ASSUME EndingInv
               PROVE  SessionInv
    OBVIOUS
  <2>1. Len(out) \in Nat
    BY DEF EndingInv, SharedInv, TypeOK
  <2>2. CleanShutdown
    BY <2>1 DEF EndingInv, LogOffLast, LastOut, LoggedOff, CleanShutdown
  <2>3. ReturnedIsCopy
    BY DEF EndingInv, SharedInv, CopyKept, ReturnedIsCopy
  <2>4. QuietAfterLogoff
    <3>1. DOMAIN out = 1..Len(out)
      BY LenProperties DEF EndingInv, SharedInv, TypeOK
    <3> QED
      BY <3>1 DEF EndingInv, LogOffLast, QuietAfterLogoff
  <2> QED
    BY <2>2, <2>3, <2>4 DEF EndingInv, SharedInv, SessionInv
<1> QED
  BY <1>1, EndingInvariance, PTL

-----------------------------------------------------------------------------
(* Induction over a prefix of the numbers *)

\* A set of numbers up to n that is not empty has a least one.
LEMMA LeastNumber ==
  ASSUME NEW n \in Nat, NEW T \in SUBSET (0..n), T # {}
  PROVE  \E x \in T : \A y \in T : x <= y
<1> DEFINE N == 0..n
           W == {0..x : x \in T}
<1>1. FiniteSubsetsOf(N) = SUBSET N
  <2>1. IsFiniteSet(N)
    BY FS_Interval
  <2> QED
    BY <2>1, FS_FiniteSubsetsOfFinite
<1>2. W # {} /\ W \subseteq SUBSET N
  <2>1. \A x \in T : 0..x \subseteq N
    OBVIOUS
  <2> QED
    BY <2>1
<1>3. \E w \in W : \A v \in W : <<v, w>> \notin StrictSubsetOrdering(N)
  <2>1. IsWellFoundedOn(StrictSubsetOrdering(N), SUBSET N)
    BY <1>1, FS_StrictSubsetOrderingWellFounded
  <2> HIDE DEF W, N
  <2> QED
    BY <1>2, <2>1, WFMin
<1>4. PICK x \in T : \A y \in T : <<0..y, 0..x>> \notin StrictSubsetOrdering(N)
  BY <1>3
<1>5. ASSUME NEW y \in T PROVE x <= y
  <2>1. SUFFICES ASSUME y < x PROVE FALSE
    OBVIOUS
  <2>2. 0..y \subseteq 0..x /\ 0..y # 0..x
    BY <2>1
  <2>3. <<0..y, 0..x>> \in (SUBSET N) \X (SUBSET N)
    OBVIOUS
  <2>4. <<0..y, 0..x>> \in StrictSubsetOrdering(N)
    BY <2>2, <2>3 DEF StrictSubsetOrdering
  <2> QED
    BY <1>4, <2>4
<1> QED
  BY <1>5

\* A set that holds 0, and with each number below n the next, holds them all.
LEMMA PrefixInduction ==
  ASSUME NEW n \in Nat, NEW T \in SUBSET (0..n), 0 \in T,
         \A m \in T : m < n => m + 1 \in T
  PROVE  T = 0..n
<1> DEFINE Rest == (0..n) \ T
<1>1. SUFFICES ASSUME Rest # {} PROVE FALSE
  OBVIOUS
<1>2. PICK x \in Rest : \A y \in Rest : x <= y
  <2> HIDE DEF Rest
  <2>1. Rest \in SUBSET (0..n)
    BY DEF Rest
  <2> QED
    BY <1>1, <2>1, LeastNumber
<1>3. x \in 1..n /\ x - 1 \in 0..n
  OBVIOUS
<1>4. x - 1 \in T
  BY <1>2, <1>3
<1> QED
  BY <1>2, <1>3, <1>4

-----------------------------------------------------------------------------
(* Sequences of frames *)

\* Flatten takes one frame after the other.
LEMMA FlattenSteps ==
  ASSUME NEW frames, Len(frames) \in Nat
  PROVE  \E f : /\ f[0] = <<>>
                /\ \A n \in 1..Len(frames) : f[n] = f[n - 1] \o Reader!Parts(frames[n])
                /\ Reader!Flatten(frames) = f[Len(frames)]
<1> DEFINE L == Len(frames)
           Step(f, n) == IF n = 0 THEN <<>> ELSE f[n - 1] \o Reader!Parts(frames[n])
           Made(f, m) == f = [n \in 0..m |-> Step(f, n)]
           T == {m \in 0..L : \E f : Made(f, m)}
<1>1. 0 \in T
  <2>1. Made([n \in 0..0 |-> <<>>], 0)
    OBVIOUS
  <2>2. \E f : Made(f, 0)
    BY <2>1
  <2> HIDE DEF Made
  <2>3. 0 \in 0..L
    OBVIOUS
  <2> QED
    BY <2>2, <2>3
<1>2. ASSUME NEW m \in T, m < L PROVE m + 1 \in T
  <2>1. PICK f : Made(f, m)
    OBVIOUS
  <2> DEFINE g == [n \in 0..m + 1 |-> IF n = m + 1 THEN Step(f, m + 1) ELSE f[n]]
  <2>2. \A n \in 0..m + 1 : g[n] = Step(g, n)
    <3>1. SUFFICES ASSUME NEW n \in 0..m + 1 PROVE g[n] = Step(g, n)
      OBVIOUS
    <3>2. n # 0 => n - 1 \in 0..m /\ g[n - 1] = f[n - 1]
      OBVIOUS
    <3>3. Step(g, n) = Step(f, n)
      BY <3>2
    <3>4. n # m + 1 => f[n] = Step(f, n)
      <4>1. SUFFICES ASSUME n # m + 1 PROVE f[n] = Step(f, n)
        OBVIOUS
      <4>2. n \in 0..m
        BY <4>1
      <4> HIDE DEF Step
      <4> QED
        BY <2>1, <4>2
    <3> HIDE DEF Step
    <3> QED
      BY <3>3, <3>4
  <2>3. Made(g, m + 1)
    <3> HIDE DEF Step
    <3>1. g = [n \in 0..m + 1 |-> g[n]]
      OBVIOUS
    <3> HIDE DEF g
    <3> QED
      BY <2>2, <3>1
  <2>4. m + 1 \in 0..L
    BY <1>2
  <2> QED
    BY <2>3, <2>4
<1>3. T = 0..L
  <2> HIDE DEF T
  <2>1. T \in SUBSET (0..L)
    BY DEF T
  <2> QED
    BY <1>1, <1>2, <2>1, PrefixInduction
<1>4. \E f : Made(f, L)
  <2> HIDE DEF Made
  <2>1. L \in 0..L
    OBVIOUS
  <2> QED
    BY <1>3, <2>1
<1> DEFINE all == CHOOSE f : Made(f, L)
<1>5. Made(all, L)
  <2> HIDE DEF Made
  <2> QED
    BY <1>4
<1>6. Reader!Flatten(frames) = all[L]
  BY DEF Reader!Flatten
<1>7. \A n \in 0..L : all[n] = Step(all, n)
  <2> HIDE DEF Step, all
  <2> QED
    BY <1>5
<1> HIDE DEF all
<1>8. all[0] = <<>>
  <2>1. 0 \in 0..L
    OBVIOUS
  <2> QED
    BY <1>7, <2>1
<1>9. ASSUME NEW n \in 1..L PROVE all[n] = all[n - 1] \o Reader!Parts(frames[n])
  <2>1. n \in 0..L /\ n # 0
    OBVIOUS
  <2> QED
    BY <1>7, <2>1
<1> QED
  BY <1>6, <1>8, <1>9

\* What is joined is flattened one after the other.
LEMMA FlattenJoin ==
  ASSUME NEW X, NEW S, \A x \in X : Reader!Parts(x) \in Seq(S),
         NEW s \in Seq(X), NEW t \in Seq(X)
  PROVE  /\ Reader!Flatten(s) \in Seq(S)
         /\ Reader!Flatten(s \o t) = Reader!Flatten(s) \o Reader!Flatten(t)
<1> DEFINE p(x) == Reader!Parts(x)
<1>0. \A x \in X : p(x) \in Seq(S)
  OBVIOUS
<1>l. Len(s) \in Nat /\ Len(t) \in Nat
  OBVIOUS
<1> HIDE DEF p
<1>1. PICK f : /\ f[0] = <<>>
               /\ \A n \in 1..Len(s) : f[n] = f[n - 1] \o p(s[n])
               /\ Reader!Flatten(s) = f[Len(s)]
  BY <1>l, FlattenSteps DEF p
<1>2. PICK g : /\ g[0] = <<>>
               /\ \A n \in 1..Len(t) : g[n] = g[n - 1] \o p(t[n])
               /\ Reader!Flatten(t) = g[Len(t)]
  BY <1>l, FlattenSteps DEF p
<1>3. PICK h : /\ h[0] = <<>>
               /\ \A n \in 1..Len(s \o t) : h[n] = h[n - 1] \o p((s \o t)[n])
               /\ Reader!Flatten(s \o t) = h[Len(s \o t)]
  <2>1. Len(s \o t) \in Nat
    OBVIOUS
  <2> QED
    BY <2>1, FlattenSteps DEF p
<1>4. /\ Len(s) \in Nat /\ Len(t) \in Nat /\ Len(s \o t) = Len(s) + Len(t)
      /\ \A n \in 1..Len(s) : s[n] \in X /\ (s \o t)[n] = s[n]
      /\ \A n \in 1..Len(t) : t[n] \in X /\ (s \o t)[Len(s) + n] = t[n]
  OBVIOUS
<1>5. \A n \in 0..Len(s) : f[n] \in Seq(S) /\ h[n] = f[n]
  <2> DEFINE T == {n \in 0..Len(s) : f[n] \in Seq(S) /\ h[n] = f[n]}
  <2>1. 0 \in T
    <3>1. 0 \in 0..Len(s) /\ <<>> \in Seq(S)
      BY <1>4
    <3> QED
      BY <1>1, <1>3, <3>1
  <2>2. ASSUME NEW m \in T, m < Len(s) PROVE m + 1 \in T
    <3>1. m + 1 \in 1..Len(s) /\ m + 1 \in 1..Len(s \o t) /\ (m + 1) - 1 = m
      BY <1>4, <2>2
    <3>2. f[m + 1] = f[m] \o p(s[m + 1]) /\ h[m + 1] = h[m] \o p(s[m + 1])
      BY <1>1, <1>3, <1>4, <3>1
    <3>3. p(s[m + 1]) \in Seq(S)
      BY <1>0, <1>4, <3>1
    <3>4. f[m + 1] \in Seq(S) /\ h[m + 1] = f[m + 1]
      BY <3>2, <3>3, ConcatProperties
    <3> QED
      BY <3>1, <3>4
  <2>3. T = 0..Len(s)
    <3> HIDE DEF T
    <3>1. T \in SUBSET (0..Len(s))
      BY DEF T
    <3> QED
      BY <1>4, <2>1, <2>2, <3>1, PrefixInduction
  <2> QED
    BY <2>3
<1>6. \A n \in 0..Len(t) : g[n] \in Seq(S) /\ h[Len(s) + n] = f[Len(s)] \o g[n]
  <2> DEFINE T == {n \in 0..Len(t) : g[n] \in Seq(S) /\ h[Len(s) + n] = f[Len(s)] \o g[n]}
  <2>a. f[Len(s)] \in Seq(S) /\ h[Len(s)] = f[Len(s)]
    BY <1>4, <1>5
  <2>1. 0 \in T
    <3>1. f[Len(s)] \o <<>> = f[Len(s)]
      BY <2>a, ConcatEmptySeq
    <3>2. 0 \in 0..Len(t) /\ <<>> \in Seq(S) /\ Len(s) + 0 = Len(s)
      BY <1>4
    <3> QED
      BY <1>2, <2>a, <3>1, <3>2
  <2>2. ASSUME NEW m \in T, m < Len(t) PROVE m + 1 \in T
    <3>1. /\ m + 1 \in 1..Len(t) /\ (m + 1) - 1 = m
          /\ Len(s) + (m + 1) \in 1..Len(s \o t) /\ (Len(s) + (m + 1)) - 1 = Len(s) + m
      BY <1>4, <2>2
    <3>2. g[m + 1] = g[m] \o p(t[m + 1])
      BY <1>2, <3>1
    <3>3. h[Len(s) + (m + 1)] = h[Len(s) + m] \o p(t[m + 1])
      BY <1>3, <1>4, <3>1
    <3>4. p(t[m + 1]) \in Seq(S) /\ g[m] \in Seq(S)
      BY <1>0, <1>4, <2>2, <3>1
    <3>5. g[m + 1] \in Seq(S)
      BY <3>2, <3>4, ConcatProperties
    <3>6. (f[Len(s)] \o g[m]) \o p(t[m + 1]) = f[Len(s)] \o (g[m] \o p(t[m + 1]))
      <4>1. \A x, y, z \in Seq(S) : (x \o y) \o z = x \o (y \o z)
        BY SMTT(20), ConcatAssociative
      <4> QED
        BY <2>a, <3>4, <4>1, Zenon
    <3>7. h[Len(s) + (m + 1)] = f[Len(s)] \o g[m + 1]
      <4>1. h[Len(s) + m] = f[Len(s)] \o g[m]
        BY <2>2
      <4> QED
        BY <3>2, <3>3, <3>6, <4>1
    <3>8. m + 1 \in 0..Len(t)
      BY <3>1
    <3> QED
      BY <3>5, <3>7, <3>8
  <2>3. T = 0..Len(t)
    <3> HIDE DEF T
    <3>1. T \in SUBSET (0..Len(t))
      BY DEF T
    <3> QED
      BY <1>4, <2>1, <2>2, <3>1, PrefixInduction
  <2> QED
    BY <2>3
<1>7. Len(s) \in 0..Len(s) /\ Len(t) \in 0..Len(t)
  BY <1>4
<1> QED
  BY <1>1, <1>2, <1>3, <1>4, <1>5, <1>6, <1>7

\* One frame is what is in it, and none is nothing.
LEMMA FlattenOne ==
  ASSUME NEW S, NEW x, Reader!Parts(x) \in Seq(S)
  PROVE  Reader!Flatten(<<x>>) = Reader!Parts(x) /\ Reader!Flatten(<<>>) = <<>>
<1>1. Reader!Flatten(<<>>) = <<>>
  <2>1. Len(<<>>) = 0
    OBVIOUS
  <2> QED
    BY <2>1, FlattenSteps
<1>2. Reader!Flatten(<<x>>) = <<>> \o Reader!Parts(x)
  <2>1. Len(<<x>>) = 1 /\ <<x>>[1] = x /\ 1 \in 1..1 /\ 1 - 1 = 0
    OBVIOUS
  <2>2. PICK f : /\ f[0] = <<>>
                 /\ \A n \in 1..Len(<<x>>) : f[n] = f[n - 1] \o Reader!Parts(<<x>>[n])
                 /\ Reader!Flatten(<<x>>) = f[Len(<<x>>)]
    BY <2>1, FlattenSteps
  <2>3. f[1] = f[0] \o Reader!Parts(x)
    BY <2>1, <2>2
  <2> QED
    BY <2>1, <2>2, <2>3
<1> QED
  BY <1>1, <1>2, ConcatEmptySeq

\* A run of messages has nothing to unpack.
LEMMA FlattenPlain ==
  ASSUME NEW p \in Seq(Reader!Plain)
  PROVE  Reader!Flatten(p) = p
<1> DEFINE S == Reader!Plain
<1>1. \A x \in S : Reader!Parts(x) = <<x>> /\ <<x>> \in Seq(S)
  BY DEF Reader!Plain, Reader!Message, Reader!Parts, Reader!IsMulti
<1>2. p \in Seq(S) /\ Len(p) \in Nat /\ \A n \in 1..Len(p) : p[n] \in S
  OBVIOUS
<1> HIDE DEF S
<1>3. PICK f : /\ f[0] = <<>>
               /\ \A n \in 1..Len(p) : f[n] = f[n - 1] \o Reader!Parts(p[n])
               /\ Reader!Flatten(p) = f[Len(p)]
  BY <1>2, FlattenSteps
<1> DEFINE T == {n \in 0..Len(p) : f[n] = SubSeq(p, 1, n)}
<1>4. 0 \in T
  <2>1. SubSeq(p, 1, 0) = <<>> /\ 0 \in 0..Len(p)
    BY <1>2
  <2> QED
    BY <1>3, <2>1
<1>5. ASSUME NEW m \in T, m < Len(p) PROVE m + 1 \in T
  <2>1. m + 1 \in 1..Len(p) /\ (m + 1) - 1 = m /\ m \in Nat
    BY <1>2, <1>5
  <2>2. f[m + 1] = SubSeq(p, 1, m) \o <<p[m + 1]>>
    <3>1. f[m + 1] = f[m] \o <<p[m + 1]>>
      BY <1>1, <1>2, <1>3, <2>1
    <3> QED
      BY <3>1
  <2>3. SubSeq(p, 1, m + 1) = SubSeq(p, 1, m) \o <<p[m + 1]>>
    BY <1>2, <2>1
  <2> QED
    BY <2>1, <2>2, <2>3
<1>6. T = 0..Len(p)
  <2> HIDE DEF T
  <2>1. T \in SUBSET (0..Len(p))
    BY DEF T
  <2> QED
    BY <1>2, <1>4, <1>5, <2>1, PrefixInduction
<1>7. Reader!Flatten(p) = SubSeq(p, 1, Len(p))
  <2>1. Len(p) \in 0..Len(p)
    BY <1>2
  <2> QED
    BY <1>3, <1>6, <2>1
<1>8. SubSeq(p, 1, Len(p)) = p
  BY <1>2
<1> QED
  BY <1>7, <1>8

\* What occurs where in two sequences that are joined.
LEMMA CountJoin ==
  ASSUME NEW S, NEW s \in Seq(S), NEW t \in Seq(S), NEW x
  PROVE  /\ Reader!Count(x, s) \in Nat
         /\ Reader!Count(x, s \o t) = Reader!Count(x, s) + Reader!Count(x, t)
<1> DEFINE A == {i \in 1..Len(s) : s[i] = x}
           B == {i \in 1..Len(t) : t[i] = x}
           C == {Len(s) + i : i \in B}
           D == {i \in 1..Len(s \o t) : (s \o t)[i] = x}
<1>1. /\ Len(s) \in Nat /\ Len(t) \in Nat /\ Len(s \o t) = Len(s) + Len(t)
      /\ \A n \in 1..Len(s) : (s \o t)[n] = s[n]
      /\ \A n \in 1..Len(t) : (s \o t)[Len(s) + n] = t[n]
  OBVIOUS
<1>2. /\ Reader!Count(x, s) = Cardinality(A)
      /\ Reader!Count(x, t) = Cardinality(B)
      /\ Reader!Count(x, s \o t) = Cardinality(D)
  <2>1. DOMAIN s = 1..Len(s) /\ DOMAIN t = 1..Len(t) /\ DOMAIN (s \o t) = 1..Len(s \o t)
    OBVIOUS
  <2> QED
    BY <2>1 DEF Reader!Count, Reader!Cardinality, Cardinality
<1>3. IsFiniteSet(A) /\ IsFiniteSet(B)
  <2>1. IsFiniteSet(1..Len(s)) /\ IsFiniteSet(1..Len(t))
    BY <1>1, FS_Interval
  <2> QED
    BY <2>1, FS_Subset
<1>4. IsFiniteSet(C) /\ Cardinality(C) = Cardinality(B)
  <2> DEFINE g == [i \in B |-> Len(s) + i]
  <2>1. g \in [B -> C] /\ (\A i, j \in B : g[i] = g[j] => i = j) /\ (\A k \in C : \E i \in B : g[i] = k)
    BY <1>1
  <2>2. g \in Bijection(B, C)
    <3> HIDE DEF g, B, C
    <3> QED
      BY <2>1 DEF Bijection, Injection, Surjection, IsInjective
  <2>3. ExistsBijection(B, C)
    BY <2>2 DEF ExistsBijection
  <2> HIDE DEF B, C
  <2> QED
    BY <1>3, <2>3, FS_Bijection
<1>5. D = A \cup C /\ A \cap C = {}
  <2>1. \A i \in 1..Len(s) + Len(t) : i \in 1..Len(s) \/ \E j \in 1..Len(t) : i = Len(s) + j
    <3>1. ASSUME NEW i \in 1..Len(s) + Len(t)
          PROVE  i \in 1..Len(s) \/ \E j \in 1..Len(t) : i = Len(s) + j
      <4>1. CASE i <= Len(s)
        BY <1>1, <4>1
      <4>2. CASE i > Len(s)
        <5>1. i - Len(s) \in 1..Len(t) /\ i = Len(s) + (i - Len(s))
          BY <1>1, <4>2
        <5> QED
          BY <5>1
      <4> QED
        BY <1>1, <4>1, <4>2
    <3> QED
      BY <3>1
  <2>2. D \subseteq A \cup C
    <3>1. SUFFICES ASSUME NEW i \in D PROVE i \in A \cup C
      OBVIOUS
    <3>2. i \in 1..Len(s) + Len(t) /\ (s \o t)[i] = x
      BY <1>1
    <3>3. CASE i \in 1..Len(s)
      BY <1>1, <3>2, <3>3
    <3>4. CASE \E j \in 1..Len(t) : i = Len(s) + j
      BY <1>1, <3>2, <3>4
    <3> QED
      BY <2>1, <3>2, <3>3, <3>4
  <2>3. A \cup C \subseteq D
    BY <1>1
  <2>4. A \cap C = {}
    BY <1>1
  <2> QED
    BY <2>2, <2>3, <2>4
<1>6. Cardinality(D) = Cardinality(A) + Cardinality(B) - Cardinality({}) /\ Cardinality({}) = 0
  <2> HIDE DEF A, B, C, D
  <2> QED
    BY <1>3, <1>4, <1>5, FS_Union, FS_EmptySet
<1>7. Cardinality(A) \in Nat /\ Cardinality(B) \in Nat
  BY <1>3, FS_CardinalityType
<1> HIDE DEF A, B, C, D
<1> QED
  BY <1>2, <1>6, <1>7

\* One message occurs once or not at all.
LEMMA CountOne ==
  ASSUME NEW x, NEW y
  PROVE  /\ Reader!Count(x, <<y>>) = IF x = y THEN 1 ELSE 0
         /\ Reader!Count(x, <<>>) = 0
<1> DEFINE A == {i \in DOMAIN <<y>> : <<y>>[i] = x}
<1>1. A = IF x = y THEN {1} ELSE {}
  OBVIOUS
<1>2. {i \in DOMAIN <<>> : <<>>[i] = x} = {}
  OBVIOUS
<1> HIDE DEF A
<1>3. Cardinality(A) = IF x = y THEN 1 ELSE 0
  BY <1>1, FS_Singleton, FS_EmptySet
<1>4. Reader!Count(x, <<y>>) = Cardinality(A)
  BY DEF A, Reader!Count, Reader!Cardinality, Cardinality
<1>5. Reader!Count(x, <<>>) = Cardinality({})
  BY <1>2 DEF Reader!Count, Reader!Cardinality, Cardinality
<1> QED
  BY <1>3, <1>4, <1>5, FS_EmptySet

\* What the queue and the wire may hold.
Batched == Reader!Plain \cup Reader!MultiOf(Reader!Plain)
AnyFrame == Reader!Plain \cup Reader!MultiOf(Batched) \cup {Reader!Close, Reader!Ping}

\* A sequence of some frames is one of any.
LEMMA FramesFacts ==
  /\ \A x \in Reader!Plain : Reader!Parts(x) = <<x>> /\ ~ Reader!IsMulti(x)
  /\ \A x \in Reader!MultiOf(Batched) : Reader!Parts(x) = x.parts /\ Reader!IsMulti(x)
                                       /\ x.parts \in Seq(Batched)
  /\ \A x \in Reader!MultiOf(Reader!Plain) : x.parts \in Seq(Reader!Plain)
  /\ Reader!Parts(Reader!Close) = <<>> /\ Reader!Parts(Reader!Ping) = <<>>
  /\ Reader!MultiOf(Reader!Plain) \subseteq Reader!MultiOf(Batched)
  /\ Batched \subseteq AnyFrame
  /\ Seq(Reader!Plain) \subseteq Seq(Batched) /\ Seq(Batched) \subseteq Seq(AnyFrame)
<1> DEFINE P == Reader!Plain
           B == Batched
           A == AnyFrame
<1>1. \A x \in Reader!Plain : Reader!Parts(x) = <<x>> /\ ~ Reader!IsMulti(x)
  BY DEF Reader!Plain, Reader!Message, Reader!Parts, Reader!IsMulti
<1>2. \A x \in Reader!MultiOf(Batched) : Reader!Parts(x) = x.parts /\ Reader!IsMulti(x)
                                         /\ x.parts \in Seq(Batched)
  BY DEF Reader!MultiOf, Reader!Parts, Reader!IsMulti
<1>3. \A x \in Reader!MultiOf(Reader!Plain) : x.parts \in Seq(Reader!Plain)
  BY DEF Reader!MultiOf
<1>4. Reader!Parts(Reader!Close) = <<>> /\ Reader!Parts(Reader!Ping) = <<>>
  BY DEF Reader!Parts, Reader!Close, Reader!Ping, Reader!IsMulti
<1>5. Seq(P) \subseteq Seq(B)
  <2>1. P \subseteq B
    BY DEF Batched
  <2> HIDE DEF P, B
  <2> QED
    BY <2>1
<1>6. Reader!MultiOf(Reader!Plain) \subseteq Reader!MultiOf(Batched)
  <2> HIDE DEF P, B
  <2>1. [kind : {"multi"}, parts : Seq(P)] \subseteq [kind : {"multi"}, parts : Seq(B)]
    BY <1>5
  <2> QED
    BY <2>1 DEF P, B, Reader!MultiOf
<1>7. Batched \subseteq AnyFrame
  BY <1>6 DEF Batched, AnyFrame
<1>8. Seq(B) \subseteq Seq(A)
  <2>1. B \subseteq A
    BY <1>7
  <2> HIDE DEF A, B
  <2> QED
    BY <2>1
<1> QED
  BY <1>1, <1>2, <1>3, <1>4, <1>5, <1>6, <1>7, <1>8

\* The parts of what was read are what the queue may hold, and their parts are
\* messages.
LEMMA PartsFacts ==
  /\ \A x \in AnyFrame : Reader!Parts(x) \in Seq(Batched)
  /\ \A x \in Batched : Reader!Parts(x) \in Seq(Reader!Plain)
<1> DEFINE S == Seq(Batched)
           R == Seq(Reader!Plain)
<1>1. <<>> \in S /\ \A x \in Reader!Plain : <<x>> \in S /\ <<x>> \in R
  <2>1. \A x \in Reader!Plain : <<x>> \in Seq(Reader!Plain)
    OBVIOUS
  <2>2. <<>> \in Seq(Batched)
    OBVIOUS
  <2> HIDE DEF S, R
  <2>3. \A x \in Reader!Plain : <<x>> \in R
    BY <2>1 DEF R
  <2>4. \A x \in Reader!Plain : <<x>> \in S
    BY <2>1, FramesFacts DEF S
  <2> QED
    BY <2>2, <2>3, <2>4 DEF S
<1> HIDE DEF S, R
<1>2. \A x \in AnyFrame : Reader!Parts(x) \in S
  BY <1>1, FramesFacts DEF AnyFrame, S
<1>3. \A x \in Batched : Reader!Parts(x) \in R
  BY <1>1, FramesFacts DEF Batched, R
<1> QED
  BY <1>2, <1>3 DEF S, R

\* The texts of messages.
Texts(p) == [i \in DOMAIN p |-> p[i].msg]

\* Texts takes one message after the other.
LEMMA TextsFacts ==
  /\ \A p, q \in Seq(Reader!Plain) : Texts(p) \in Seq(Msg) /\ Texts(p \o q) = Texts(p) \o Texts(q)
  /\ \A m \in Msg : Texts(<<Reader!Message(m)>>) = <<m>>
  /\ Texts(<<>>) = <<>>
<1>1. \A x \in Reader!Plain : x.msg \in Msg
  BY DEF Reader!Plain, Reader!Message
<1> DEFINE S == Reader!Plain
<1>2. ASSUME NEW p \in Seq(S) PROVE Texts(p) \in Seq(Msg) /\ Len(Texts(p)) = Len(p)
  <2>1. DOMAIN p = 1..Len(p) /\ Len(p) \in Nat /\ \A i \in 1..Len(p) : p[i] \in S
    OBVIOUS
  <2> HIDE DEF S
  <2>2. Texts(p) = [i \in 1..Len(p) |-> p[i].msg]
    BY <2>1 DEF Texts
  <2>3. \A i \in 1..Len(p) : p[i].msg \in Msg
    BY <1>1, <2>1 DEF S
  <2> QED
    BY <2>1, <2>2, <2>3
<1>3. ASSUME NEW p \in Seq(S), NEW q \in Seq(S) PROVE Texts(p \o q) = Texts(p) \o Texts(q)
  <2> HIDE DEF S
  <2>1. /\ p \o q \in Seq(S) /\ Len(p) \in Nat /\ Len(q) \in Nat
        /\ Len(p \o q) = Len(p) + Len(q)
        /\ DOMAIN p = 1..Len(p) /\ DOMAIN q = 1..Len(q) /\ DOMAIN (p \o q) = 1..Len(p) + Len(q)
        /\ \A i \in 1..Len(p) + Len(q) : (p \o q)[i] = IF i <= Len(p) THEN p[i] ELSE q[i - Len(p)]
    OBVIOUS
  <2>2. /\ Texts(p) \in Seq(Msg) /\ Len(Texts(p)) = Len(p)
        /\ Texts(q) \in Seq(Msg) /\ Len(Texts(q)) = Len(q)
        /\ Texts(p \o q) \in Seq(Msg) /\ Len(Texts(p \o q)) = Len(p) + Len(q)
    BY <1>2, <2>1
  <2>3. ASSUME NEW i \in 1..Len(p) + Len(q)
        PROVE  Texts(p \o q)[i] = (Texts(p) \o Texts(q))[i]
    <3>1. Texts(p \o q)[i] = (p \o q)[i].msg
      BY <2>1 DEF Texts
    <3>2. CASE i <= Len(p)
      <4>1. i \in 1..Len(p)
        BY <2>1, <3>2
      <4>2. Texts(p)[i] = p[i].msg
        BY <2>1, <4>1 DEF Texts
      <4>3. (Texts(p) \o Texts(q))[i] = Texts(p)[i]
        BY <2>1, <2>2, <4>1, ConcatProperties, <3>2
      <4> QED
        BY <2>1, <3>1, <3>2, <4>2, <4>3
    <3>3. CASE i > Len(p)
      <4>1. i - Len(p) \in 1..Len(q)
        BY <2>1, <3>3
      <4>2. Texts(q)[i - Len(p)] = q[i - Len(p)].msg
        BY <2>1, <4>1 DEF Texts
      <4>3. (Texts(p) \o Texts(q))[i] = Texts(q)[i - Len(p)]
        BY <2>1, <2>2, <4>1, ConcatProperties, <3>3
      <4>4. (p \o q)[i] = q[i - Len(p)]
        BY <2>1, <3>3
      <4> QED
        BY <3>1, <4>2, <4>3, <4>4
    <3>4. i <= Len(p) \/ i > Len(p)
      BY <2>1
    <3> HIDE DEF Texts
    <3> QED
      BY <3>2, <3>3, <3>4
  <2> DEFINE u == Texts(p \o q)
             v == Texts(p) \o Texts(q)
  <2>4. u \in Seq(Msg) /\ v \in Seq(Msg) /\ Len(u) = Len(p) + Len(q) /\ Len(v) = Len(p) + Len(q)
    BY <2>2, ConcatProperties
  <2>5. \A i \in 1..Len(u) : u[i] = v[i]
    BY <2>3, <2>4
  <2> HIDE DEF u, v
  <2>6. u = v
    BY <2>4, <2>5, SeqEqual
  <2> QED
    BY <2>6 DEF u, v
<1>4. ASSUME NEW m \in Msg PROVE Texts(<<Reader!Message(m)>>) = <<m>>
  BY DEF Texts, Reader!Message
<1>5. Texts(<<>>) = <<>>
  BY DEF Texts
<1> QED
  BY <1>2, <1>3, <1>4, <1>5

\* The messages of frames that are joined.
LEMMA MessagesJoin ==
  ASSUME NEW s \in Seq(AnyFrame), NEW t \in Seq(AnyFrame)
  PROVE  /\ Reader!Messages(s) \in Seq(Msg)
         /\ Reader!Messages(s \o t) = Reader!Messages(s) \o Reader!Messages(t)
<1> DEFINE F(x) == Reader!Flatten(x)
<1>1. \A x \in Seq(AnyFrame) : Reader!Messages(x) = Texts(F(F(x)))
  BY DEF Reader!Messages, Texts
<1>2. F(s) \in Seq(Batched) /\ F(t) \in Seq(Batched) /\ F(s \o t) = F(s) \o F(t)
  BY PartsFacts, FlattenJoin
<1>3. ASSUME NEW x \in Seq(Batched), NEW y \in Seq(Batched)
      PROVE  F(x) \in Seq(Reader!Plain) /\ F(x \o y) = F(x) \o F(y)
  BY PartsFacts, FlattenJoin
<1>4. s \o t \in Seq(AnyFrame)
  BY ConcatProperties
<1> HIDE DEF F
<1>5. /\ F(F(s)) \in Seq(Reader!Plain) /\ F(F(t)) \in Seq(Reader!Plain)
      /\ F(F(s \o t)) = F(F(s)) \o F(F(t))
  BY <1>2, <1>3
<1> QED
  BY <1>1, <1>4, <1>5, TextsFacts

\* The messages of one frame: itself, those of its parts, or none.
LEMMA MessagesOne ==
  /\ \A m \in Msg : Reader!Messages(<<Reader!Message(m)>>) = <<m>>
  /\ \A f \in Reader!MultiOf(Batched) : Reader!Messages(<<f>>) = Reader!Messages(f.parts)
  /\ \A f \in {Reader!Close, Reader!Ping} : Reader!Messages(<<f>>) = <<>>
  /\ Reader!Messages(<<>>) = <<>>
<1> DEFINE F(x) == Reader!Flatten(x)
<1>1. \A x : Reader!Messages(x) = Texts(F(F(x)))
  BY DEF Reader!Messages, Texts
<1>2. \A x \in AnyFrame : F(<<x>>) = Reader!Parts(x)
  BY PartsFacts, FlattenOne
<1>3. F(<<>>) = <<>>
  <2>1. Reader!Parts(Reader!Ping) \in Seq(Batched)
    BY PartsFacts DEF AnyFrame
  <2> QED
    BY <2>1, FlattenOne
<1>4. \A p \in Seq(Reader!Plain) : F(p) = p
  BY FlattenPlain
<1>5. \A x \in Seq(Batched) : F(x) \in Seq(Reader!Plain)
  BY PartsFacts, FlattenJoin
<1> HIDE DEF F
<1>6. ASSUME NEW m \in Msg PROVE Reader!Messages(<<Reader!Message(m)>>) = <<m>>
  <2> DEFINE x == Reader!Message(m)
  <2>1. x \in Reader!Plain /\ <<x>> \in Seq(Reader!Plain)
    BY DEF Reader!Plain
  <2>2. F(<<x>>) = <<x>>
    BY <1>4, <2>1
  <2>3. Texts(<<x>>) = <<m>>
    BY TextsFacts
  <2> QED
    BY <1>1, <2>2, <2>3
<1>7. ASSUME NEW f \in Reader!MultiOf(Batched) PROVE Reader!Messages(<<f>>) = Reader!Messages(f.parts)
  <2>1. F(<<f>>) = f.parts /\ f.parts \in Seq(Batched)
    BY <1>2, FramesFacts DEF AnyFrame
  <2>2. F(F(f.parts)) = F(f.parts)
    BY <1>4, <1>5, <2>1
  <2> QED
    BY <1>1, <2>1, <2>2
<1>8. ASSUME NEW f \in {Reader!Close, Reader!Ping} PROVE Reader!Messages(<<f>>) = <<>>
  <2>1. F(<<f>>) = <<>>
    BY <1>2, FramesFacts DEF AnyFrame
  <2> QED
    BY <1>1, <1>3, <2>1, TextsFacts
<1>9. Reader!Messages(<<>>) = <<>>
  BY <1>1, <1>3, TextsFacts
<1> QED
  BY <1>6, <1>7, <1>8, <1>9

-----------------------------------------------------------------------------
(* Each message once *)

\* The end of the connection is the last that is read.
CloseIsLast == \A i \in 1..Len(wire) : wire[i] = Reader!Close => i = Len(wire)

ReaderIInv == EachOnce /\ CloseIsLast

\* The reader's state has its types.
LEMMA ReaderTyped ==
  ASSUME Reader!TypeOK
  PROVE  /\ wire \in Seq(AnyFrame) /\ sent \in Seq(AnyFrame)
         /\ queue \in Seq(Batched) /\ queue \in Seq(AnyFrame)
         /\ Reader!Unread \in Seq(AnyFrame)
<1> DEFINE F == FlatFrames \cup NestedFrames
           A == AnyFrame
<1>1. F \subseteq Reader!Plain \cup Reader!MultiOf(Batched)
  BY ReaderAssumption DEF Reader!StreamAssumption, Batched
<1>2. F \subseteq A /\ F \cup {Reader!Close, Reader!Ping} \subseteq A
  BY <1>1 DEF AnyFrame
<1> HIDE DEF F, A
<1>3. wire \in Seq(A) /\ sent \in Seq(A)
  <2>1. wire \in Seq(F \cup {Reader!Close, Reader!Ping}) /\ sent \in Seq(F)
    BY DEF F, Reader!TypeOK
  <2> QED
    BY <1>2, <2>1
<1>4. queue \in Seq(Batched) /\ queue \in Seq(A)
  BY FramesFacts DEF Reader!TypeOK, Batched, A
<1>5. Reader!Unread \in Seq(A)
  BY <1>3, <1>4, ConcatProperties DEF Reader!Unread
<1> QED
  BY <1>3, <1>4, <1>5 DEF A

\* One turn of recv: the turn's frame is gone, its parts are in.  Where it came
\* off the socket, or had none, they stand in its place.
LEMMA Turned ==
  ASSUME Reader!TypeOK, CloseIsLast, Reader!Ready, NEW parts \in Seq(Batched), Reader!Consume(parts)
  PROVE  /\ Reader!turn \in Reader!Plain \cup Reader!MultiOf(Batched)
         /\ wire' \in Seq(FlatFrames \cup NestedFrames \cup {Reader!Close, Reader!Ping})
         /\ queue' \in Seq(Batched)
         /\ CloseIsLast'
         /\ \A m : /\ Reader!Count(m, Reader!Messages(Reader!Unread')) \in Nat
                   /\ Reader!Count(m, Reader!Messages(Reader!Unread)) \in Nat
                   /\ Reader!Count(m, Reader!Messages(Reader!Unread')) + Reader!Count(m, Reader!Messages(<<Reader!turn>>))
                        = Reader!Count(m, Reader!Messages(Reader!Unread)) + Reader!Count(m, Reader!Messages(parts))
         /\ (parts = <<>> \/ queue = <<>>) =>
              \E rest \in Seq(Msg) :
                /\ Reader!Messages(Reader!Unread) = Reader!Messages(<<Reader!turn>>) \o rest
                /\ Reader!Messages(Reader!Unread') = Reader!Messages(parts) \o rest
<1> DEFINE M(x) == Reader!Messages(x)
           N(m, x) == Reader!Count(m, M(x))
           A == AnyFrame
           W == FlatFrames \cup NestedFrames \cup {Reader!Close, Reader!Ping}
           x == Reader!turn
<1>1. /\ wire \in Seq(A) /\ wire \in Seq(W) /\ queue \in Seq(Batched) /\ queue \in Seq(A)
      /\ parts \in Seq(A)
  BY ReaderTyped, FramesFacts DEF Reader!TypeOK
<1>2. ASSUME NEW s \in Seq(A), NEW t \in Seq(A)
      PROVE  /\ M(s) \in Seq(Msg) /\ M(s \o t) = M(s) \o M(t)
             /\ \A m : N(m, s) \in Nat /\ N(m, s \o t) = N(m, s) + N(m, t)
  <2>1. M(s) \in Seq(Msg) /\ M(t) \in Seq(Msg) /\ M(s \o t) = M(s) \o M(t)
    BY MessagesJoin
  <2> HIDE DEF M
  <2> QED
    BY <2>1, CountJoin
<1>3. CASE queue # <<>>
  <2>1. /\ x = Head(queue) /\ queue' = Tail(queue) \o parts /\ wire' = wire
    BY <1>3 DEF Reader!turn, Reader!FromQueue, Reader!Consume
  <2> DEFINE q == Tail(queue)
  <2>2. x \in Batched /\ q \in Seq(Batched) /\ q \in Seq(A) /\ queue = <<x>> \o q
    <3> HIDE DEF A, W, x, q
    <3> QED
      BY <1>1, <1>3, <2>1, HeadTailProperties, FramesFacts DEF q, A
  <2>3. <<x>> \in Seq(A)
    BY <2>2, FramesFacts
  <2> HIDE DEF x, q, A
  <2>4. Reader!Unread = (<<x>> \o q) \o wire /\ Reader!Unread' = (q \o parts) \o wire
    BY <2>1, <2>2 DEF Reader!Unread, q
  <2>5. <<x>> \o q \in Seq(A) /\ q \o parts \in Seq(A) /\ q \o wire \in Seq(A)
    BY <1>1, <2>2, <2>3, ConcatProperties
  <2> HIDE DEF M, N
  <2>6. \A m : /\ N(m, Reader!Unread') = N(m, q) + N(m, parts) + N(m, wire)
               /\ N(m, Reader!Unread) = N(m, <<x>>) + N(m, q) + N(m, wire)
    <3>0. /\ \A u, v \in Seq(A) : \A m : N(m, u \o v) = N(m, u) + N(m, v)
          /\ wire \in Seq(A)
      BY <1>1, <1>2
    <3>1. ASSUME NEW m
          PROVE  /\ N(m, Reader!Unread') = N(m, q) + N(m, parts) + N(m, wire)
                 /\ N(m, Reader!Unread) = N(m, <<x>>) + N(m, q) + N(m, wire)
      <4>1. N(m, (q \o parts) \o wire) = N(m, q \o parts) + N(m, wire)
        BY ONLY <2>5, <3>0
      <4>2. N(m, q \o parts) = N(m, q) + N(m, parts)
        BY <1>1, <1>2, <2>2
      <4>3. N(m, (<<x>> \o q) \o wire) = N(m, <<x>> \o q) + N(m, wire)
        BY ONLY <2>5, <3>0
      <4>4. N(m, <<x>> \o q) = N(m, <<x>>) + N(m, q)
        BY <1>2, <2>2, <2>3
      <4> QED
        BY <2>4, <4>1, <4>2, <4>3, <4>4
    <3> QED
      BY <3>1
  <2>7. \A m : /\ N(m, q) \in Nat /\ N(m, parts) \in Nat /\ N(m, wire) \in Nat
               /\ N(m, <<x>>) \in Nat
    BY <1>1, <1>2, <2>2, <2>3
  <2>8. ASSUME parts = <<>>
        PROVE  /\ M(Reader!Unread) = M(<<x>>) \o M(q \o wire)
               /\ M(Reader!Unread') = M(parts) \o M(q \o wire)
               /\ M(q \o wire) \in Seq(Msg)
    <3>1. Reader!Unread = <<x>> \o (q \o wire)
      <4>1. \A u, v, w \in Seq(A) : (u \o v) \o w = u \o (v \o w)
        BY ConcatAssociative
      <4> QED
        BY <1>1, <2>2, <2>3, <2>4, <4>1
    <3>2. Reader!Unread' = q \o wire
      <4>1. q \o <<>> = q
        BY <2>2, ConcatEmptySeq
      <4> QED
        BY <2>4, <2>8, <4>1
    <3>3. M(<<x>> \o (q \o wire)) = M(<<x>>) \o M(q \o wire) /\ M(q \o wire) \in Seq(Msg)
      BY <1>2, <2>3, <2>5
    <3>4. M(parts) \o M(q \o wire) = M(q \o wire)
      <4>1. M(parts) = <<>>
        BY <2>8, MessagesOne DEF M
      <4> QED
        BY <3>3, <4>1, ConcatEmptySeq
    <3> QED
      BY <3>1, <3>2, <3>3, <3>4
  <2>9. queue' \in Seq(Batched) /\ wire' \in Seq(W) /\ CloseIsLast'
    <3>1. queue' \in Seq(Batched)
      BY <2>1, <2>2, ConcatProperties DEF q
    <3> QED
      BY <1>1, <2>1, <3>1 DEF CloseIsLast
  <2>10. \A m : /\ N(m, Reader!Unread') \in Nat /\ N(m, Reader!Unread) \in Nat
                /\ N(m, Reader!Unread') + N(m, <<x>>) = N(m, Reader!Unread) + N(m, parts)
    BY SMTT(20), <2>6, <2>7
  <2>11. x \in Reader!Plain \cup Reader!MultiOf(Batched)
    BY <2>2, FramesFacts DEF Batched
  <2>12. (parts = <<>> \/ queue = <<>>) =>
           \E rest \in Seq(Msg) : M(Reader!Unread) = M(<<x>>) \o rest /\ M(Reader!Unread') = M(parts) \o rest
    BY <1>3, <2>8
  <2> QED
    BY <2>9, <2>10, <2>11, <2>12 DEF M, N, x
<1>4. CASE queue = <<>>
  <2>1. /\ x = Head(wire) /\ queue' = queue \o parts /\ wire' = Tail(wire)
        /\ wire # <<>> /\ x \in FlatFrames \cup NestedFrames
    BY <1>4 DEF Reader!turn, Reader!FromQueue, Reader!Consume, Reader!Ready, Reader!WireIsReady
  <2> DEFINE w == Tail(wire)
  <2>2. x \in A /\ w \in Seq(A) /\ w \in Seq(W) /\ wire = <<x>> \o w
    <3> HIDE DEF A, W, x
    <3> QED
      BY <1>1, <2>1, HeadTailProperties
  <2>3. <<x>> \in Seq(A)
    BY <2>2
  <2>4. Reader!Unread = <<x>> \o w /\ Reader!Unread' = parts \o w /\ queue' = parts
    <3>1. <<>> \o parts = parts /\ <<>> \o wire = wire
      BY <1>1, ConcatEmptySeq
    <3> QED
      BY <1>4, <2>1, <2>2, <3>1 DEF Reader!Unread
  <2>5. CloseIsLast'
    <3>1. Len(w) = Len(wire) - 1 /\ Len(wire) \in Nat /\ \A i \in 1..Len(w) : w[i] = wire[i + 1]
      BY <1>1, <2>1, HeadTailProperties
    <3>2. wire' = w
      BY <2>1
    <3> HIDE DEF w
    <3>3. ASSUME NEW i \in 1..Len(w), w[i] = Reader!Close PROVE i = Len(w)
      <4>1. i + 1 \in 1..Len(wire) /\ wire[i + 1] = Reader!Close
        BY <3>1, <3>3
      <4>2. i + 1 = Len(wire)
        BY <4>1 DEF CloseIsLast
      <4> QED
        BY <3>1, <4>2
    <3> QED
      BY <3>2, <3>3 DEF CloseIsLast
  <2> HIDE DEF A, W
  <2>6. \A m : /\ N(m, Reader!Unread') = N(m, parts) + N(m, w)
               /\ N(m, Reader!Unread) = N(m, <<x>>) + N(m, w)
               /\ N(m, parts) \in Nat /\ N(m, w) \in Nat /\ N(m, <<x>>) \in Nat
    <3> HIDE DEF N, M, w, x
    <3>1. ASSUME NEW m
          PROVE  /\ N(m, Reader!Unread') = N(m, parts) + N(m, w)
                 /\ N(m, Reader!Unread) = N(m, <<x>>) + N(m, w)
                 /\ N(m, parts) \in Nat /\ N(m, w) \in Nat /\ N(m, <<x>>) \in Nat
      <4>1. N(m, parts \o w) = N(m, parts) + N(m, w) /\ N(m, parts) \in Nat
        BY <1>1, <1>2, <2>2
      <4>2. N(m, <<x>> \o w) = N(m, <<x>>) + N(m, w) /\ N(m, <<x>>) \in Nat
        BY <1>2, <2>2, <2>3
      <4>3. N(m, w) \in Nat
        BY <1>2, <2>2
      <4> QED
        BY <2>4, <4>1, <4>2, <4>3
    <3> QED
      BY <3>1
  <2>7. M(Reader!Unread) = M(<<x>>) \o M(w) /\ M(Reader!Unread') = M(parts) \o M(w) /\ M(w) \in Seq(Msg)
    <3> HIDE DEF N, M, w, x
    <3> QED
      BY <1>1, <1>2, <2>2, <2>3, <2>4
  <2>8. x \in Reader!Plain \cup Reader!MultiOf(Batched)
    BY <2>1, ReaderAssumption DEF Reader!StreamAssumption, Batched
  <2> HIDE DEF w, N, M, x
  <2>9. \A m : /\ N(m, Reader!Unread') \in Nat /\ N(m, Reader!Unread) \in Nat
               /\ N(m, Reader!Unread') + N(m, <<x>>) = N(m, Reader!Unread) + N(m, parts)
    <3>1. ASSUME NEW m
          PROVE  /\ N(m, Reader!Unread') \in Nat /\ N(m, Reader!Unread) \in Nat
                 /\ N(m, Reader!Unread') + N(m, <<x>>) = N(m, Reader!Unread) + N(m, parts)
      <4> DEFINE n1 == N(m, Reader!Unread')
                 n2 == N(m, Reader!Unread)
                 n3 == N(m, parts)
                 n4 == N(m, w)
                 n5 == N(m, <<x>>)
      <4>1. n1 = n3 + n4 /\ n2 = n5 + n4 /\ n3 \in Nat /\ n4 \in Nat /\ n5 \in Nat
        BY <2>6
      <4> HIDE DEF n1, n2, n3, n4, n5
      <4>2. n1 \in Nat /\ n2 \in Nat /\ n1 + n5 = n2 + n3
        BY <4>1
      <4> QED
        BY <4>2 DEF n1, n2, n3, n5
    <3> QED
      BY <3>1
  <2>10. queue' \in Seq(Batched) /\ wire' \in Seq(W)
    BY <2>1, <2>2, <2>4 DEF w
  <2> QED
    BY <2>5, <2>7, <2>8, <2>9, <2>10 DEF M, N, x, W
<1> QED
  BY <1>3, <1>4

\* Pings, and the end, come off the socket and carry no message; nothing is
\* behind the end.
LEMMA Passed ==
  ASSUME Reader!TypeOK, CloseIsLast, queue = <<>>, wire # <<>>,
         Head(wire) \in {Reader!Close, Reader!Ping}, wire' = Tail(wire), queue' = queue
  PROVE  /\ wire' \in Seq(FlatFrames \cup NestedFrames \cup {Reader!Close, Reader!Ping})
         /\ CloseIsLast'
         /\ Reader!Messages(Reader!Unread') = Reader!Messages(Reader!Unread)
         /\ Head(wire) = Reader!Close => Reader!Messages(Reader!Unread) = <<>>
<1> DEFINE W == FlatFrames \cup NestedFrames \cup {Reader!Close, Reader!Ping}
           x == Head(wire)
           w == Tail(wire)
           A == AnyFrame
<1>1. wire \in Seq(A) /\ wire \in Seq(W)
  BY ReaderTyped DEF Reader!TypeOK
<1>2. x \in A /\ w \in Seq(A) /\ w \in Seq(W) /\ wire = <<x>> \o w
  <2> HIDE DEF A, W
  <2> QED
    BY <1>1, HeadTailProperties
<1>3. /\ Len(w) = Len(wire) - 1 /\ Len(wire) \in Nat /\ Len(wire) > 0
      /\ wire[1] = x /\ \A i \in 1..Len(w) : w[i] = wire[i + 1]
  BY <1>1, HeadTailProperties
<1>4. Reader!Unread = <<x>> \o w /\ Reader!Unread' = w
  <2>1. <<>> \o wire = wire /\ <<>> \o w = w
    BY <1>1, <1>2, ConcatEmptySeq
  <2> QED
    BY <1>2, <2>1 DEF Reader!Unread
<1>5. Reader!Messages(<<x>>) = <<>>
  BY MessagesOne
<1>6. Reader!Messages(<<x>> \o w) = Reader!Messages(<<x>>) \o Reader!Messages(w)
      /\ Reader!Messages(w) \in Seq(Msg)
  <2>1. <<x>> \in Seq(A)
    BY <1>2
  <2> HIDE DEF x, w
  <2> QED
    BY <1>2, <2>1, MessagesJoin
<1>7. Reader!Messages(Reader!Unread') = Reader!Messages(Reader!Unread)
  <2> HIDE DEF x, w
  <2>1. <<>> \o Reader!Messages(w) = Reader!Messages(w)
    BY <1>6, ConcatEmptySeq
  <2> QED
    BY <1>4, <1>5, <1>6, <2>1
<1>8. CloseIsLast'
  <2> HIDE DEF w
  <2>1. ASSUME NEW i \in 1..Len(w), w[i] = Reader!Close PROVE i = Len(w)
    <3>1. i + 1 \in 1..Len(wire) /\ wire[i + 1] = Reader!Close
      BY <1>3, <2>1
    <3>2. i + 1 = Len(wire)
      BY <3>1 DEF CloseIsLast
    <3> QED
      BY <1>3, <3>2
  <2> QED
    BY <2>1 DEF CloseIsLast, w
<1>9. ASSUME x = Reader!Close PROVE Reader!Messages(Reader!Unread) = <<>>
  <2>1. 1 \in 1..Len(wire) /\ wire[1] = Reader!Close
    BY <1>3, <1>9
  <2>2. Len(wire) = 1
    BY <2>1 DEF CloseIsLast
  <2>3. w = <<>>
    <3>1. Len(w) = 0
      BY <1>3, <2>2
    <3> HIDE DEF w
    <3> QED
      BY <1>2, <3>1
  <2> QED
    BY <1>4, <1>7, <2>3, MessagesOne
<1> QED
  BY <1>2, <1>7, <1>8, <1>9

\* What the CM sends comes behind all that was not read.
LEMMA Arrives ==
  ASSUME Reader!TypeOK, CloseIsLast, Reader!Open,
         NEW f \in FlatFrames \cup NestedFrames \cup {Reader!Close, Reader!Ping},
         wire' = Append(wire, f), queue' = queue
  PROVE  /\ wire' \in Seq(FlatFrames \cup NestedFrames \cup {Reader!Close, Reader!Ping})
         /\ CloseIsLast'
         /\ Reader!Messages(Reader!Unread) \in Seq(Msg) /\ Reader!Messages(<<f>>) \in Seq(Msg)
         /\ Reader!Messages(Reader!Unread') = Reader!Messages(Reader!Unread) \o Reader!Messages(<<f>>)
<1> DEFINE W == FlatFrames \cup NestedFrames \cup {Reader!Close, Reader!Ping}
           A == AnyFrame
<1>1. wire \in Seq(A) /\ wire \in Seq(W) /\ queue \in Seq(A) /\ Reader!Unread \in Seq(A)
  BY ReaderTyped DEF Reader!TypeOK
<1>2. f \in A /\ <<f>> \in Seq(A)
  <2>1. FlatFrames \cup NestedFrames \subseteq Reader!Plain \cup Reader!MultiOf(Batched)
    BY ReaderAssumption DEF Reader!StreamAssumption, Batched
  <2>2. f \in A
    BY <2>1 DEF AnyFrame
  <2> HIDE DEF A
  <2> QED
    BY <2>2
<1>3. wire' \in Seq(W) /\ wire' = wire \o <<f>> /\ Len(wire') = Len(wire) + 1 /\ Len(wire) \in Nat
      /\ \A i \in 1..Len(wire) : wire'[i] = wire[i]
  <2> HIDE DEF A, W
  <2>1. wire' \in Seq(W) /\ wire' = wire \o <<f>>
    BY <1>1, AppendProperties, AppendIsConcat DEF W
  <2> QED
    BY <1>1, <2>1
<1>4. Reader!Unread' = Reader!Unread \o <<f>>
  <2>1. \A u, v, z \in Seq(A) : (u \o v) \o z = u \o (v \o z)
    BY SMTT(20), ConcatAssociative
  <2>2. Reader!Unread' = queue \o (wire \o <<f>>)
    BY <1>3 DEF Reader!Unread
  <2> QED
    BY <1>1, <1>2, <2>1, <2>2 DEF Reader!Unread
<1>5. CloseIsLast'
  <2>1. ASSUME NEW i \in 1..Len(wire'), wire'[i] = Reader!Close PROVE i = Len(wire')
    <3>1. SUFFICES ASSUME i \in 1..Len(wire) PROVE FALSE
      BY <1>3
    <3>2. wire[i] = Reader!Close /\ DOMAIN wire = 1..Len(wire)
      BY <1>1, <1>3, <2>1, <3>1
    <3> QED
      BY <3>1, <3>2 DEF Reader!Open, Reader!ToSet
  <2> QED
    BY <2>1 DEF CloseIsLast
<1>6. /\ Reader!Messages(Reader!Unread) \in Seq(Msg) /\ Reader!Messages(<<f>>) \in Seq(Msg)
      /\ Reader!Messages(Reader!Unread \o <<f>>) = Reader!Messages(Reader!Unread) \o Reader!Messages(<<f>>)
  BY <1>1, <1>2, MessagesJoin
<1> QED
  BY <1>3, <1>4, <1>5, <1>6

\* A turn's frame that is no Multi is a message.
LEMMA TurnIsMessage ==
  ASSUME Reader!turn \in Reader!Plain \cup Reader!MultiOf(Batched), NEW status, Reader!Is(status)
  PROVE  \E m \in Msg : Reader!turn = Reader!Message(m) /\ Reader!turn.msg = m /\ Status[m] = status
<1>1. Reader!turn \in Reader!Plain
  BY FramesFacts DEF Reader!Is
<1> QED
  BY <1>1 DEF Reader!Plain, Reader!Message, Reader!Is

\* How often a message was returned, after one more answer.
LEMMA TakenOne ==
  ASSUME Reader!TypeOK, NEW y \in Reader!Returned, taken' = Append(taken, y)
  PROVE  /\ taken' \in Seq(Reader!Returned)
         /\ \A m : /\ Reader!Count(m, taken) \in Nat
                   /\ Reader!Count(m, taken') = Reader!Count(m, taken) + IF m = y THEN 1 ELSE 0
<1> DEFINE R == Reader!Returned
<1>1. taken \in Seq(R) /\ y \in R
  BY DEF Reader!TypeOK
<1> HIDE DEF R
<1>2. taken' = taken \o <<y>> /\ taken' \in Seq(R) /\ <<y>> \in Seq(R)
  BY <1>1, AppendProperties, AppendIsConcat
<1>3. ASSUME NEW m
      PROVE  /\ Reader!Count(m, taken) \in Nat
             /\ Reader!Count(m, taken') = Reader!Count(m, taken) + IF m = y THEN 1 ELSE 0
  <2>1. /\ Reader!Count(m, taken) \in Nat
        /\ Reader!Count(m, taken \o <<y>>) = Reader!Count(m, taken) + Reader!Count(m, <<y>>)
    BY <1>1, <1>2, CountJoin
  <2>2. Reader!Count(m, <<y>>) = IF m = y THEN 1 ELSE 0
    BY CountOne
  <2> QED
    BY <1>2, <2>1, <2>2
<1> QED
  BY <1>2, <1>3 DEF R

Known == {m \in Msg : Status[m] = "known"}

\* What EachOnce says of one message, of the counts in what was sent, in what is
\* unread and in what was returned.
LEMMA EachOnceIs ==
  /\ EachOnce <=>
       /\ Reader!TypeOK
       /\ \A m \in Known : Reader!Count(m, Reader!Messages(sent))
                             = Reader!Count(m, Reader!Messages(Reader!Unread)) + Reader!Count(m, taken)
  /\ EachOnce' <=>
       /\ Reader!TypeOK'
       /\ \A m \in Known : Reader!Count(m, Reader!Messages(sent'))
                             = Reader!Count(m, Reader!Messages(Reader!Unread')) + Reader!Count(m, taken')
  BY DEF EachOnce, Reader!EachOnce, Known

\* A turn of recv keeps the counts: what leaves the wire or the queue is
\* returned, if it is known, or is in the queue with its parts.
LEMMA TurnStep ==
  ASSUME ReaderIInv, Reader!Unpack \/ Reader!RecvKnown \/ Reader!RecvUnknown \/ Reader!RecvBad
  PROVE  ReaderIInv'
<1> DEFINE U(m) == Reader!Count(m, Reader!Messages(Reader!Unread))
           V(m) == Reader!Count(m, Reader!Messages(Reader!Unread'))
           N(m, f) == Reader!Count(m, Reader!Messages(f))
           x == Reader!turn
<1>1. Reader!TypeOK /\ CloseIsLast
  BY EachOnceIs DEF ReaderIInv
<1>2. Reader!Ready /\ sent' = sent
  BY DEF Reader!Unpack, Reader!RecvKnown, Reader!RecvUnknown, Reader!RecvBad
<1>3. x \in Reader!Plain \cup Reader!MultiOf(Batched)
  <2>1. CASE Reader!Unpack
    <3>1. Reader!turn \in Batched \cup (FlatFrames \cup NestedFrames)
      <4>1. CASE queue # <<>>
        <5>1. Head(queue) \in Batched
          BY <1>1, <4>1, ReaderTyped, HeadTailProperties
        <5> QED
          BY <4>1, <5>1 DEF Reader!turn, Reader!FromQueue
      <4>2. CASE queue = <<>>
        BY <1>2, <4>2 DEF Reader!turn, Reader!FromQueue, Reader!Ready, Reader!WireIsReady
      <4> QED
        BY <4>1, <4>2
    <3>2. FlatFrames \cup NestedFrames \subseteq Reader!Plain \cup Reader!MultiOf(Batched)
      BY ReaderAssumption DEF Reader!StreamAssumption, Batched
    <3> QED
      BY <3>1, <3>2, FramesFacts DEF Batched
  <2>2. CASE Reader!RecvKnown \/ Reader!RecvUnknown \/ Reader!RecvBad
    <3>1. Reader!Consume(<<>>)
      BY <2>2 DEF Reader!RecvKnown, Reader!RecvUnknown, Reader!RecvBad
    <3>2. <<>> \in Seq(Batched)
      OBVIOUS
    <3> QED
      BY <1>1, <1>2, <3>1, <3>2, Turned
  <2> QED
    BY <2>1, <2>2
<1>4. PICK parts \in Seq(Batched) :
        /\ Reader!Consume(parts)
        /\ \/ Reader!Unpack /\ x \in Reader!MultiOf(Batched) /\ parts = x.parts
           \/ (Reader!RecvKnown \/ Reader!RecvUnknown \/ Reader!RecvBad) /\ parts = <<>>
  <2>1. CASE Reader!Unpack
    <3>1. x \in Reader!MultiOf(Batched)
      BY <1>3, <2>1, FramesFacts DEF Reader!Unpack
    <3>2. x.parts \in Seq(Batched) /\ Reader!Consume(x.parts)
      BY <2>1, <3>1, FramesFacts DEF Reader!Unpack
    <3> QED
      BY <2>1, <3>1, <3>2
  <2>2. CASE Reader!RecvKnown \/ Reader!RecvUnknown \/ Reader!RecvBad
    <3>1. Reader!Consume(<<>>)
      BY <2>2 DEF Reader!RecvKnown, Reader!RecvUnknown, Reader!RecvBad
    <3>2. <<>> \in Seq(Batched)
      OBVIOUS
    <3> QED
      BY <2>2, <3>1, <3>2
  <2> QED
    BY <2>1, <2>2
<1>5. /\ wire' \in Seq(FlatFrames \cup NestedFrames \cup {Reader!Close, Reader!Ping})
      /\ queue' \in Seq(Batched)
      /\ CloseIsLast'
  BY <1>1, <1>2, <1>4, Turned
<1>6. \A m : V(m) \in Nat /\ U(m) \in Nat /\ V(m) + N(m, <<x>>) = U(m) + N(m, parts)
  BY <1>1, <1>2, <1>4, Turned
<1>7. \A m : Reader!Count(m, taken) \in Nat
  <2>1. taken \in Seq(Reader!Returned)
    BY <1>1 DEF Reader!TypeOK
  <2> QED
    BY <2>1, CountJoin
<1>8. /\ taken' \in Seq(Reader!Returned)
      /\ receiving' \in BOOLEAN
      /\ \A m \in Known : V(m) + Reader!Count(m, taken') = U(m) + Reader!Count(m, taken)
  <2>1. CASE Reader!Unpack
    <3>1. x \in Reader!MultiOf(Batched) /\ parts = x.parts
      BY <1>3, <1>4, <2>1, FramesFacts DEF Reader!Unpack, Reader!RecvKnown, Reader!RecvUnknown,
        Reader!RecvBad, Reader!Is
    <3>2. Reader!Messages(<<x>>) = Reader!Messages(parts)
      BY <3>1, MessagesOne
    <3>3. \A m : N(m, <<x>>) = N(m, parts)
      BY <3>2
    <3>4. parts \in Seq(AnyFrame)
      BY <1>4, FramesFacts
    <3>5. \A m : N(m, parts) \in Nat
      <4>1. Reader!Messages(parts) \in Seq(Msg)
        BY <3>4, MessagesJoin
      <4> QED
        BY <4>1, CountJoin
    <3> HIDE DEF U, V, N, x
    <3>6. \A m : V(m) = U(m)
      BY <1>6, <3>3, <3>5
    <3>7. taken' = taken /\ receiving' = receiving
      BY <2>1 DEF Reader!Unpack
    <3> QED
      BY <1>1, <3>6, <3>7 DEF Reader!TypeOK
  <2>2. CASE Reader!RecvKnown \/ Reader!RecvUnknown \/ Reader!RecvBad
    <3>1. parts = <<>>
      BY <1>3, <1>4, <2>2, FramesFacts DEF Reader!Unpack, Reader!RecvKnown, Reader!RecvUnknown,
        Reader!RecvBad, Reader!Is
    <3>2. \A m : N(m, parts) = 0
      BY <3>1, MessagesOne, CountOne
    <3>3. PICK status \in {"known", "unknown", "bad"} :
            /\ Reader!Is(status)
            /\ status = "known" => Reader!RecvKnown
            /\ status = "unknown" => Reader!RecvUnknown
            /\ status = "bad" => Reader!RecvBad
      BY <2>2 DEF Reader!RecvKnown, Reader!RecvUnknown, Reader!RecvBad
    <3>4. PICK k \in Msg : x = Reader!Message(k) /\ x.msg = k /\ Status[k] = status
      BY <1>3, <3>3, TurnIsMessage
    <3>5. \A m : N(m, <<x>>) = IF m = k THEN 1 ELSE 0
      BY <3>4, MessagesOne, CountOne
    <3>6. CASE status = "known"
      <4>1. taken' = Append(taken, k) /\ k \in Reader!Returned /\ receiving' = FALSE
        BY <3>3, <3>4, <3>6 DEF Reader!RecvKnown, Reader!Returned
      <4>2. taken' \in Seq(Reader!Returned)
            /\ \A m : Reader!Count(m, taken') = Reader!Count(m, taken) + IF m = k THEN 1 ELSE 0
        BY <1>1, <4>1, TakenOne
      <4> HIDE DEF U, V, N, x
      <4>3. ASSUME NEW m \in Known
            PROVE  V(m) + Reader!Count(m, taken') = U(m) + Reader!Count(m, taken)
        <5> DEFINE one == IF m = k THEN 1 ELSE 0
        <5>1. V(m) + one = U(m) /\ V(m) \in Nat /\ U(m) \in Nat /\ one \in Nat
          BY <1>6, <3>2, <3>5
        <5>2. Reader!Count(m, taken') = Reader!Count(m, taken) + one
          BY <4>2
        <5> HIDE DEF one
        <5> QED
          BY <1>7, <5>1, <5>2
      <4> QED
        BY <4>1, <4>2, <4>3
    <3>7. CASE status # "known"
      <4>1. /\ receiving' \in BOOLEAN
            /\ taken' = taken \/ taken' = Append(taken, "error")
        BY <1>1, <3>3, <3>7 DEF Reader!RecvUnknown, Reader!RecvBad, Reader!TypeOK
      <4>2. taken' \in Seq(Reader!Returned) /\ \A m \in Known : Reader!Count(m, taken') = Reader!Count(m, taken)
        <5>1. CASE taken' = taken
          BY <1>1, <5>1 DEF Reader!TypeOK
        <5>2. CASE taken' = Append(taken, "error")
          <6>1. "error" \in Reader!Returned /\ \A m \in Known : m # "error"
            BY ReaderAssumption DEF Reader!StreamAssumption, Reader!Returned, Known
          <6>2. taken' \in Seq(Reader!Returned)
                /\ \A m : Reader!Count(m, taken') = Reader!Count(m, taken) + IF m = "error" THEN 1 ELSE 0
            BY <1>1, <5>2, <6>1, TakenOne
          <6> QED
            BY <1>7, <6>1, <6>2
        <5> QED
          BY <4>1, <5>1, <5>2
      <4> HIDE DEF U, V, N, x
      <4>3. \A m \in Known : V(m) = U(m)
        <5>1. \A m \in Known : m # k
          BY <3>4, <3>7 DEF Known
        <5> QED
          BY <1>6, <3>2, <3>5, <5>1
      <4> QED
        BY <4>1, <4>2, <4>3
    <3> QED
      BY <3>6, <3>7
  <2> QED
    BY <1>4, <2>1, <2>2
<1>9. Reader!TypeOK'
  BY <1>1, <1>2, <1>5, <1>8 DEF Reader!TypeOK, Batched
<1>10. EachOnce'
  <2>1. \A m \in Known : Reader!Count(m, Reader!Messages(sent)) = U(m) + Reader!Count(m, taken)
    BY EachOnceIs DEF ReaderIInv
  <2>2. \A m \in Known : Reader!Count(m, Reader!Messages(sent')) = V(m) + Reader!Count(m, taken')
    BY <1>2, <1>8, <2>1
  <2> QED
    BY <1>9, <2>2, EachOnceIs
<1> QED
  BY <1>5, <1>10 DEF ReaderIInv

\* Frames that the CM sends add their messages to what was sent and to what is
\* unread.
LEMMA SendStep ==
  ASSUME ReaderIInv, Reader!SendFrame \/ Reader!SendOther
  PROVE  ReaderIInv'
<1> DEFINE M(f) == Reader!Messages(f)
<1>1. Reader!TypeOK /\ CloseIsLast
  BY EachOnceIs DEF ReaderIInv
<1>2. /\ Reader!Open /\ queue' = queue /\ taken' = taken /\ receiving' = receiving
      /\ \E f \in FlatFrames \cup NestedFrames \cup {Reader!Close, Reader!Ping} :
           /\ wire' = Append(wire, f)
           /\ \/ f \in FlatFrames \cup NestedFrames /\ sent' = Append(sent, f)
              \/ f \in {Reader!Close, Reader!Ping} /\ sent' = sent
  BY DEF Reader!SendFrame, Reader!SendOther
<1>3. PICK f \in FlatFrames \cup NestedFrames \cup {Reader!Close, Reader!Ping} :
           /\ wire' = Append(wire, f)
           /\ \/ f \in FlatFrames \cup NestedFrames /\ sent' = Append(sent, f)
              \/ f \in {Reader!Close, Reader!Ping} /\ sent' = sent
  BY <1>2
<1>4. /\ wire' \in Seq(FlatFrames \cup NestedFrames \cup {Reader!Close, Reader!Ping})
      /\ CloseIsLast'
      /\ M(Reader!Unread) \in Seq(Msg) /\ M(<<f>>) \in Seq(Msg)
      /\ M(Reader!Unread') = M(Reader!Unread) \o M(<<f>>)
  BY <1>1, <1>2, <1>3, Arrives
<1>5. sent' \in Seq(FlatFrames \cup NestedFrames)
  <2> DEFINE F == FlatFrames \cup NestedFrames
  <2>1. sent \in Seq(F)
    BY <1>1 DEF Reader!TypeOK
  <2> QED
    BY <1>3, <2>1
<1>6. M(sent) \in Seq(Msg) /\ M(sent') = M(sent) \o M(<<f>>)
  <2>1. sent \in Seq(AnyFrame)
    BY <1>1, ReaderTyped
  <2>2. M(sent) \in Seq(Msg)
    BY <2>1, MessagesJoin
  <2>3. CASE f \in {Reader!Close, Reader!Ping} /\ sent' = sent
    <3>1. M(<<f>>) = <<>>
      BY <2>3, MessagesOne
    <3> QED
      BY <2>2, <2>3, <3>1, ConcatEmptySeq
  <2>4. CASE f \in FlatFrames \cup NestedFrames /\ sent' = Append(sent, f)
    <3>1. f \in AnyFrame
      <4>1. FlatFrames \cup NestedFrames \subseteq Reader!Plain \cup Reader!MultiOf(Batched)
        BY ReaderAssumption DEF Reader!StreamAssumption, Batched
      <4> QED
        BY <2>4, <4>1 DEF AnyFrame
    <3>2. sent' = sent \o <<f>> /\ <<f>> \in Seq(AnyFrame)
      BY <2>1, <2>4, <3>1, AppendIsConcat
    <3> QED
      BY <2>1, <2>2, <3>2, MessagesJoin
  <2> QED
    BY <1>3, <2>3, <2>4
<1>7. Reader!TypeOK'
  BY <1>1, <1>2, <1>4, <1>5 DEF Reader!TypeOK
<1>8. ASSUME NEW m \in Known
      PROVE  Reader!Count(m, M(sent')) = Reader!Count(m, M(Reader!Unread')) + Reader!Count(m, taken')
  <2> HIDE DEF M
  <2>1. Reader!Count(m, M(sent')) = Reader!Count(m, M(sent)) + Reader!Count(m, M(<<f>>))
    BY <1>4, <1>6, CountJoin
  <2>2. Reader!Count(m, M(Reader!Unread')) = Reader!Count(m, M(Reader!Unread)) + Reader!Count(m, M(<<f>>))
    BY <1>4, CountJoin
  <2>3. /\ Reader!Count(m, M(Reader!Unread)) \in Nat /\ Reader!Count(m, M(<<f>>)) \in Nat
        /\ Reader!Count(m, taken) \in Nat
    <3>1. taken \in Seq(Reader!Returned)
      BY <1>1 DEF Reader!TypeOK
    <3> QED
      BY <1>4, <3>1, CountJoin
  <2>4. Reader!Count(m, M(sent)) = Reader!Count(m, M(Reader!Unread)) + Reader!Count(m, taken)
    BY EachOnceIs DEF ReaderIInv, M
  <2> QED
    BY <1>2, <2>1, <2>2, <2>3, <2>4
<1>9. EachOnce'
  BY <1>7, <1>8, EachOnceIs
<1> QED
  BY <1>4, <1>9 DEF ReaderIInv

\* Pings and the end change what is unread by no message.
LEMMA PassStep ==
  ASSUME ReaderIInv, Reader!SkipPing \/ Reader!RecvClose
  PROVE  ReaderIInv'
<1>1. Reader!TypeOK /\ CloseIsLast
  BY EachOnceIs DEF ReaderIInv
<1>2. /\ queue = <<>> /\ wire # <<>> /\ Head(wire) \in {Reader!Close, Reader!Ping}
      /\ wire' = Tail(wire) /\ queue' = queue /\ sent' = sent
      /\ \/ taken' = taken /\ receiving' = receiving
         \/ taken' = Append(taken, "closed") /\ receiving' = FALSE
  BY DEF Reader!SkipPing, Reader!RecvClose
<1>3. /\ wire' \in Seq(FlatFrames \cup NestedFrames \cup {Reader!Close, Reader!Ping})
      /\ CloseIsLast'
      /\ Reader!Messages(Reader!Unread') = Reader!Messages(Reader!Unread)
  BY <1>1, <1>2, Passed
<1>4. /\ taken' \in Seq(Reader!Returned)
      /\ \A m \in Known : Reader!Count(m, taken') = Reader!Count(m, taken)
  <2>1. CASE taken' = taken
    BY <1>1, <2>1 DEF Reader!TypeOK
  <2>2. CASE taken' = Append(taken, "closed")
    <3>1. "closed" \in Reader!Returned /\ \A m \in Known : m # "closed"
      BY ReaderAssumption DEF Reader!StreamAssumption, Reader!Returned, Known
    <3>2. taken' \in Seq(Reader!Returned)
          /\ \A m : /\ Reader!Count(m, taken) \in Nat
                    /\ Reader!Count(m, taken') = Reader!Count(m, taken) + IF m = "closed" THEN 1 ELSE 0
      BY <1>1, <2>2, <3>1, TakenOne
    <3> QED
      BY <3>1, <3>2
  <2> QED
    BY <1>2, <2>1, <2>2
<1>5. Reader!TypeOK'
  BY <1>1, <1>2, <1>3, <1>4 DEF Reader!TypeOK
<1>6. \A m \in Known : Reader!Count(m, Reader!Messages(sent'))
                         = Reader!Count(m, Reader!Messages(Reader!Unread')) + Reader!Count(m, taken')
  BY <1>2, <1>3, <1>4, EachOnceIs DEF ReaderIInv
<1>7. EachOnce'
  BY <1>5, <1>6, EachOnceIs
<1> QED
  BY <1>3, <1>7 DEF ReaderIInv

\* A call that begins, ends early or waits moves no message.
LEMMA WaitStep ==
  ASSUME ReaderIInv, UNCHANGED <<wire, queue, taken, sent>>, receiving' \in BOOLEAN
  PROVE  ReaderIInv'
<1>1. Reader!TypeOK'
  BY EachOnceIs DEF ReaderIInv, Reader!TypeOK
<1>2. Reader!Unread' = Reader!Unread /\ CloseIsLast'
  BY DEF Reader!Unread, CloseIsLast, ReaderIInv
<1>3. EachOnce'
  BY <1>1, <1>2, EachOnceIs DEF ReaderIInv
<1> QED
  BY <1>2, <1>3 DEF ReaderIInv

\* CmStream::recv: every turn, whatever it finds.
LEMMA ReaderStep ==
  ASSUME ReaderIInv, Reader!Next
  PROVE  ReaderIInv'
<1>1. CASE Reader!Unpack \/ Reader!RecvKnown \/ Reader!RecvUnknown \/ Reader!RecvBad
  BY <1>1, TurnStep
<1>2. CASE Reader!SkipPing \/ Reader!RecvClose
  BY <1>2, PassStep
<1>3. CASE Reader!SendFrame \/ Reader!SendOther
  BY <1>3, SendStep
<1>4. CASE Reader!Call \/ Reader!Cancel \/ Reader!Idle
  <2>1. UNCHANGED <<wire, queue, taken, sent>> /\ receiving' \in BOOLEAN
    BY <1>4, EachOnceIs DEF ReaderIInv, Reader!TypeOK, Reader!Call, Reader!Cancel, Reader!Idle, Reader!vars
  <2> QED
    BY <2>1, WaitStep
<1> QED
  BY <1>1, <1>2, <1>3, <1>4 DEF Reader!Next, Reader!Recv

\* The reader starts with nothing sent.
LEMMA ReaderStarts == Reader!Init => ReaderIInv
<1> SUFFICES ASSUME Reader!Init
             PROVE  ReaderIInv
  OBVIOUS
<1>1. wire = <<>> /\ queue = <<>> /\ taken = <<>> /\ sent = <<>> /\ receiving = FALSE
  BY DEF Reader!Init
<1>2. Reader!TypeOK
  <2>1. \A S : <<>> \in Seq(S)
    BY EmptySeq
  <2> QED
    BY <1>1, <2>1, Zenon DEF Reader!TypeOK
<1>3. Reader!Unread = <<>>
  BY <1>1 DEF Reader!Unread
<1>4. \A m : Reader!Count(m, Reader!Messages(<<>>)) = 0 /\ Reader!Count(m, <<>>) = 0
  BY MessagesOne, CountOne
<1>5. EachOnce
  <2>1. \A m \in Known : Reader!Count(m, Reader!Messages(sent))
                           = Reader!Count(m, Reader!Messages(Reader!Unread)) + Reader!Count(m, taken)
    BY <1>1, <1>3, <1>4
  <2> QED
    BY <1>2, <2>1, EachOnceIs
<1> QED
  BY <1>1, <1>5 DEF ReaderIInv, CloseIsLast

\* connection.rs: every known message is returned as often as it was sent,
\* however Multis are nested, calls dropped and frames broken.
THEOREM MessagesOnce == MCSpec => []EachOnce
<1>1. MCInit => ReaderIInv
  BY ReaderStarts DEF MCInit
<1>2. ReaderIInv /\ [MCNext]_<<part, vars, stream>> => ReaderIInv'
  <2> SUFFICES ASSUME ReaderIInv, [MCNext]_<<part, vars, stream>>
               PROVE  ReaderIInv'
    OBVIOUS
  <2>1. CASE part # "session" /\ Reader!Next
    BY <2>1, ReaderStep
  <2>2. CASE UNCHANGED stream
    <3>1. UNCHANGED <<wire, queue, taken, sent>> /\ receiving' \in BOOLEAN
      BY <2>2, EachOnceIs DEF stream, ReaderIInv, Reader!TypeOK
    <3> QED
      BY <3>1, WaitStep
  <2> QED
    BY <2>1, <2>2 DEF MCNext
<1>3. ReaderIInv => EachOnce
  BY DEF ReaderIInv
<1> QED
  BY <1>1, <1>2, <1>3, PTL DEF MCSpec

-----------------------------------------------------------------------------
(* In order, where Multis hold messages *)

\* The socket yields frames of FlatFrames only, so the queue holds messages, and
\* a Multi is unpacked into an empty queue.
FlatIInv ==
  /\ queue \in Seq(Reader!Plain)
  /\ wire \in Seq(FlatFrames \cup {Reader!Close, Reader!Ping})
  /\ sent \in Seq(FlatFrames)

\* Where the turn's frame is a Multi it comes off the socket.
LEMMA FlatTurn ==
  ASSUME FlatIInv, Reader!Unpack
  PROVE  /\ queue = <<>> /\ Reader!turn \in Reader!MultiOf(Reader!Plain)
         /\ Reader!turn.parts \in Seq(Reader!Plain)
<1>1. queue = <<>>
  <2> SUFFICES ASSUME queue # <<>>
               PROVE  FALSE
    OBVIOUS
  <2>1. Head(queue) \in Reader!Plain
    BY HeadTailProperties DEF FlatIInv
  <2> QED
    BY <2>1, FramesFacts DEF Reader!Unpack, Reader!turn, Reader!FromQueue
<1>2. Reader!turn \in FlatFrames \cup {Reader!Close, Reader!Ping}
  <2> DEFINE W == FlatFrames \cup {Reader!Close, Reader!Ping}
  <2>1. wire # <<>> /\ wire \in Seq(W) /\ Reader!turn = Head(wire)
    BY <1>1 DEF FlatIInv, Reader!Unpack, Reader!Ready, Reader!FromQueue, Reader!WireIsReady, Reader!turn
  <2> HIDE DEF W
  <2>2. Head(wire) \in W
    BY <2>1, HeadTailProperties
  <2> QED
    BY <2>1, <2>2 DEF W
<1>3. Reader!turn \in Reader!MultiOf(Reader!Plain)
  BY <1>2, FramesFacts, ReaderAssumption DEF Reader!Unpack, Reader!IsMulti, Reader!Close, Reader!Ping
<1> QED
  BY <1>1, <1>3, FramesFacts

\* Frames without nested Multis leave only messages in the queue.
LEMMA FlatStep ==
  ASSUME FlatIInv, Reader!TypeOK, Reader!Next, sent' \in Seq(FlatFrames)
  PROVE  FlatIInv'
<1> DEFINE W == FlatFrames \cup {Reader!Close, Reader!Ping}
           P == Reader!Plain
<1>1. queue \in Seq(P) /\ wire \in Seq(W)
  BY DEF FlatIInv
<1>2. \/ wire' = wire
      \/ wire # <<>> /\ wire' = Tail(wire)
      \/ \E f \in W : wire' = Append(wire, f)
  <2>1. CASE Reader!SendFrame
    <3>1. PICK f \in FlatFrames \cup NestedFrames : wire' = Append(wire, f) /\ sent' = Append(sent, f)
      BY <2>1 DEF Reader!SendFrame
    <3>2. f \in FlatFrames
      <4>1. Len(sent) \in Nat /\ Len(sent') = Len(sent) + 1 /\ sent'[Len(sent) + 1] = f
        <5> DEFINE F == FlatFrames \cup NestedFrames
        <5>1. sent \in Seq(F) /\ f \in F
          BY <3>1 DEF Reader!TypeOK
        <5> HIDE DEF F
        <5> QED
          BY <3>1, <5>1, AppendProperties
      <4> QED
        BY <4>1
    <3> QED
      BY <3>1, <3>2
  <2>2. CASE Reader!SendOther
    BY <2>2 DEF Reader!SendOther
  <2>3. CASE Reader!SkipPing \/ Reader!RecvClose
    BY <2>3 DEF Reader!SkipPing, Reader!RecvClose
  <2>4. CASE Reader!Unpack \/ Reader!RecvKnown \/ Reader!RecvUnknown \/ Reader!RecvBad
    BY <2>4 DEF Reader!Unpack, Reader!RecvKnown, Reader!RecvUnknown, Reader!RecvBad, Reader!Consume,
      Reader!Ready, Reader!WireIsReady
  <2>5. CASE Reader!Call \/ Reader!Cancel \/ Reader!Idle
    BY <2>5 DEF Reader!Call, Reader!Cancel, Reader!Idle, Reader!vars
  <2> QED
    BY <2>1, <2>2, <2>3, <2>4, <2>5 DEF Reader!Next, Reader!Recv
<1>3. wire' \in Seq(W)
  <2>1. ASSUME wire # <<>>, wire' = Tail(wire) PROVE wire' \in Seq(W)
    <3> HIDE DEF W
    <3> QED
      BY <1>1, <2>1, HeadTailProperties
  <2>2. ASSUME NEW f \in W, wire' = Append(wire, f) PROVE wire' \in Seq(W)
    <3> HIDE DEF W
    <3> QED
      BY <1>1, <2>2, AppendProperties
  <2> HIDE DEF W
  <2> QED
    BY <1>1, <1>2, <2>1, <2>2
<1>4. queue' \in Seq(P)
  <2>1. CASE Reader!Unpack
    <3>1. queue = <<>> /\ Reader!turn.parts \in Seq(P)
      BY <2>1, FlatTurn
    <3>2. queue' = <<>> \o Reader!turn.parts
      BY <2>1, <3>1 DEF Reader!Unpack, Reader!Consume, Reader!FromQueue
    <3> HIDE DEF P
    <3> QED
      BY <3>1, <3>2, ConcatEmptySeq
  <2>2. CASE Reader!RecvKnown \/ Reader!RecvUnknown \/ Reader!RecvBad
    <3>1. Reader!Consume(<<>>)
      BY <2>2 DEF Reader!RecvKnown, Reader!RecvUnknown, Reader!RecvBad
    <3>2. IF queue # <<>> THEN queue' = Tail(queue) \o <<>> ELSE queue' = queue \o <<>>
      BY <3>1 DEF Reader!Consume, Reader!FromQueue
    <3> HIDE DEF P
    <3>3. queue # <<>> => Tail(queue) \in Seq(P)
      BY <1>1, HeadTailProperties
    <3> QED
      BY <1>1, <3>2, <3>3, ConcatEmptySeq
  <2>3. CASE queue' = queue
    BY <1>1, <2>3
  <2>4. Reader!Unpack \/ Reader!RecvKnown \/ Reader!RecvUnknown \/ Reader!RecvBad \/ queue' = queue
    BY DEF Reader!Next, Reader!Recv, Reader!SkipPing, Reader!RecvClose, Reader!SendFrame,
      Reader!SendOther, Reader!Call, Reader!Cancel, Reader!Idle, Reader!vars
  <2> QED
    BY <2>1, <2>2, <2>3, <2>4
<1> QED
  BY <1>3, <1>4 DEF FlatIInv

\* Each step of the reader on flat frames is one of MessageFeed, or none.
LEMMA FeedStep ==
  ASSUME ReaderIInv, FlatIInv, Reader!Next, part = "flat", part' = part
  PROVE  [Feed!Next]_(Feed!feedVars)
<1> DEFINE P == Reader!Messages(Reader!Unread)
           Q == Reader!Messages(Reader!Unread')
<1>1. Reader!TypeOK /\ CloseIsLast
  BY EachOnceIs DEF ReaderIInv
<1>2. /\ Seen(Reader!Messages(Reader!Unread)) = P /\ Seen(Reader!Messages(Reader!Unread))' = Q
      /\ Seen(taken) = taken /\ Seen(taken)' = taken'
  BY DEF Seen
<1>3. P \in Seq(Msg)
  <2>1. Reader!Unread \in Seq(AnyFrame)
    BY <1>1, ReaderTyped
  <2> QED
    BY <2>1, MessagesJoin
<1>4. CASE Q = P /\ taken' = taken
  BY <1>2, <1>4 DEF Feed!feedVars
<1>5. CASE Reader!SendFrame \/ Reader!SendOther
  <2>1. PICK f \in FlatFrames \cup NestedFrames \cup {Reader!Close, Reader!Ping} : wire' = Append(wire, f)
    BY <1>5 DEF Reader!SendFrame, Reader!SendOther
  <2>2. Reader!Open /\ queue' = queue /\ taken' = taken
    BY <1>5 DEF Reader!SendFrame, Reader!SendOther
  <2>3. Reader!Messages(<<f>>) \in Seq(Msg) /\ Q = P \o Reader!Messages(<<f>>)
    BY <1>1, <2>1, <2>2, Arrives
  <2> DEFINE new == Reader!Messages(<<f>>)
  <2>4. new \in Seq(Msg) /\ Q = P \o new
    BY <2>3
  <2> HIDE DEF P, Q, new
  <2>5. Q \in Seq(Msg) /\ Feed!IsPrefix(P, Q)
    <3>1. Q \in Seq(Msg) /\ Len(P) \in Nat /\ Len(Q) = Len(P) + Len(new) /\ Len(new) \in Nat
      BY <1>3, <2>4
    <3>2. Len(P) <= Len(Q) /\ SubSeq(P, 1, Len(P)) = SubSeq(Q, 1, Len(P))
      BY <1>3, <2>4, <3>1
    <3> QED
      BY <3>1, <3>2 DEF Feed!IsPrefix
  <2>6. Feed!Arrive
    BY <1>2, <2>2, <2>5 DEF Feed!Arrive
  <2> QED
    BY <2>6 DEF Feed!Next
<1>6. CASE Reader!SkipPing \/ Reader!RecvClose
  <2>1. /\ queue = <<>> /\ wire # <<>> /\ Head(wire) \in {Reader!Close, Reader!Ping}
        /\ wire' = Tail(wire) /\ queue' = queue
    BY <1>6 DEF Reader!SkipPing, Reader!RecvClose
  <2>2. Q = P /\ (Head(wire) = Reader!Close => P = <<>>)
    BY <1>1, <2>1, Passed
  <2>3. CASE Reader!SkipPing
    <3>1. taken' = taken
      BY <2>3 DEF Reader!SkipPing
    <3> QED
      BY <1>4, <2>2, <3>1
  <2>4. CASE Reader!RecvClose
    <3>1. taken' = Append(taken, "closed") /\ Head(wire) = Reader!Close
      BY <2>4 DEF Reader!RecvClose
    <3>2. P = <<>> /\ Q = P
      BY <2>2, <3>1
    <3> HIDE DEF P, Q
    <3>3. Feed!End
      BY <1>2, <3>1, <3>2 DEF Feed!End
    <3> QED
      BY <3>3 DEF Feed!Next
  <2> QED
    BY <1>6, <2>3, <2>4
<1>7. CASE Reader!Unpack
  <2> DEFINE parts == Reader!turn.parts
  <2>1. /\ queue = <<>> /\ Reader!turn \in Reader!MultiOf(Batched)
        /\ parts \in Seq(Batched) /\ Reader!Ready /\ Reader!Consume(parts) /\ taken' = taken
    BY <1>7, FlatTurn, FramesFacts DEF Reader!Unpack
  <2>2. PICK rest \in Seq(Msg) : P = Reader!Messages(<<Reader!turn>>) \o rest /\ Q = Reader!Messages(parts) \o rest
    BY <1>1, <2>1, Turned
  <2>3. Reader!Messages(<<Reader!turn>>) = Reader!Messages(parts)
    BY <2>1, MessagesOne
  <2> QED
    BY <1>4, <2>1, <2>2, <2>3
<1>8. CASE Reader!RecvKnown \/ Reader!RecvUnknown \/ Reader!RecvBad
  <2>1. Reader!Ready /\ Reader!Consume(<<>>) /\ <<>> \in Seq(Batched)
    BY <1>8 DEF Reader!RecvKnown, Reader!RecvUnknown, Reader!RecvBad
  <2>2. Reader!turn \in Reader!Plain \cup Reader!MultiOf(Batched)
    BY <1>1, <2>1, Turned
  <2>3. PICK rest \in Seq(Msg) : P = Reader!Messages(<<Reader!turn>>) \o rest /\ Q = Reader!Messages(<<>>) \o rest
    BY <1>1, <2>1, Turned
  <2>4. Q = rest
    <3>1. <<>> \o rest = rest
      BY ConcatEmptySeq
    <3> QED
      BY <2>3, <3>1, MessagesOne
  <2>5. PICK status \in {"known", "unknown", "bad"} :
          /\ Reader!Is(status)
          /\ status = "known" => taken' = Append(taken, Reader!turn.msg)
          /\ status = "unknown" => taken' = taken
          /\ status = "bad" => taken' = Append(taken, "error")
    BY <1>8 DEF Reader!RecvKnown, Reader!RecvUnknown, Reader!RecvBad
  <2>6. PICK m \in Msg : Reader!turn = Reader!Message(m) /\ Reader!turn.msg = m /\ Status[m] = status
    BY <2>2, <2>5, TurnIsMessage
  <2>7. P = <<m>> \o rest
    BY <2>3, <2>6, MessagesOne
  <2>8. P # <<>> /\ Head(P) = m /\ Tail(P) = Q
    <3> HIDE DEF P, Q
    <3> QED
      BY <2>4, <2>7
  <2> HIDE DEF P, Q
  <2>9. Feed!FirstIs(status)
    BY <1>2, <2>6, <2>8 DEF Feed!FirstIs
  <2>10. Feed!Deliver \/ Feed!Drop \/ Feed!Refuse
    BY <1>2, <2>5, <2>6, <2>8, <2>9 DEF Feed!Deliver, Feed!Drop, Feed!Refuse
  <2> QED
    BY <2>10 DEF Feed!Next
<1>9. CASE Reader!Call \/ Reader!Cancel \/ Reader!Idle
  <2>1. UNCHANGED <<wire, queue, taken>>
    BY <1>9 DEF Reader!Call, Reader!Cancel, Reader!Idle, Reader!vars
  <2>2. Q = P
    BY <2>1 DEF Reader!Unread
  <2> QED
    BY <1>4, <2>1, <2>2
<1> QED
  BY <1>5, <1>6, <1>7, <1>8, <1>9 DEF Reader!Next, Reader!Recv

\* connection.rs: on flat frames the reader is one queue of messages, in the
\* order of the CM, for any messages, batches, dropped calls and broken frames.
THEOREM FeedImplemented == MCSpec => ImplementsFeed
<1> DEFINE Inv == ReaderIInv /\ (part = "flat" => FlatIInv)
<1>1. MCInit => Inv /\ Feed!Init
  <2> SUFFICES ASSUME MCInit
               PROVE  Inv /\ Feed!Init
    OBVIOUS
  <2>1. wire = <<>> /\ queue = <<>> /\ taken = <<>> /\ sent = <<>>
    BY DEF MCInit, Reader!Init
  <2>2. FlatIInv
    <3>1. \A S : <<>> \in Seq(S)
      BY EmptySeq
    <3> QED
      BY <2>1, <3>1, Zenon DEF FlatIInv
  <2>3. Reader!Messages(Reader!Unread) = <<>>
    BY <2>1, MessagesOne DEF Reader!Unread
  <2> QED
    BY <2>1, <2>2, <2>3, ReaderStarts DEF MCInit, Feed!Init, Seen
<1>2. Inv /\ [MCNext]_<<part, vars, stream>> => Inv' /\ [Feed!Next]_(Feed!feedVars)
  <2> SUFFICES ASSUME Inv, [MCNext]_<<part, vars, stream>>
               PROVE  Inv' /\ [Feed!Next]_(Feed!feedVars)
    OBVIOUS
  <2>1. part' = part
    BY DEF MCNext
  <2>2. CASE part # "session" /\ Reader!Next /\ sent' \in Seq(Frames)
    <3>1. ReaderIInv'
      BY <2>2, ReaderStep
    <3>2. CASE part = "flat"
      <4>1. sent' \in Seq(FlatFrames)
        BY <2>2, <3>2 DEF Frames
      <4>2. FlatIInv'
        BY <2>2, <3>2, <4>1, FlatStep, EachOnceIs DEF ReaderIInv
      <4>3. [Feed!Next]_(Feed!feedVars)
        BY <2>1, <2>2, <3>2, FeedStep
      <4> QED
        BY <3>1, <4>2, <4>3
    <3>3. CASE part # "flat"
      <4>1. UNCHANGED Feed!feedVars
        BY <2>1, <3>3 DEF Feed!feedVars, Seen
      <4> QED
        BY <2>1, <3>1, <3>3, <4>1
    <3> QED
      BY <3>2, <3>3
  <2>3. CASE UNCHANGED stream
    <3>1. UNCHANGED <<wire, queue, taken, sent>> /\ receiving' \in BOOLEAN
      BY <2>3, EachOnceIs DEF stream, ReaderIInv, Reader!TypeOK
    <3>2. ReaderIInv' /\ (part' = "flat" => FlatIInv')
      BY <2>1, <3>1, WaitStep DEF FlatIInv
    <3>3. UNCHANGED Feed!feedVars
      BY <2>1, <3>1 DEF Feed!feedVars, Seen, Reader!Unread
    <3> QED
      BY <3>2, <3>3
  <2> QED
    BY <2>2, <2>3 DEF MCNext
<1> HIDE DEF Inv
<1> QED
  BY <1>1, <1>2, PTL DEF MCSpec, ImplementsFeed, Feed!Spec

=============================================================================
