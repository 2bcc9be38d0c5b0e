------------------------------ MODULE CmSession ------------------------------
(***************************************************************************)
(* A CM connection as a session: CmConnection of                           *)
(* steamdepot/src/connection.rs with its heartbeat tasks, the sink they    *)
(* share with the caller through a mutex, the logon of login.rs, shutdown  *)
(* and drop.                                                               *)
(*                                                                         *)
(* A write locks the sink, puts the message into it and flushes; the order *)
(* on the wire is the order in which messages are put in.  An aborted task *)
(* ends at an await, where it gives up the lock it may hold, but may still *)
(* pass the awaits that are ready.  The caller may drop the connection at  *)
(* any await.  Each logon the CM accepts gets a session id of its own.     *)
(***************************************************************************)
EXTENDS Naturals, Sequences

CONSTANTS
  Task,         \* heartbeat tasks that may be started
  Main,         \* the caller, as a holder of the lock
  None,         \* no task, nobody
  MaxLogins,    \* bound: logons sent
  MaxRequests,  \* bound: requests sent
  MaxBeats,     \* bound: ticks of the heartbeat timers
  MaxOther      \* bound: unasked messages of the CM

ASSUME SessionAssumption ==
  /\ Main \notin Task /\ None \notin Task /\ Main # None
  /\ {MaxLogins, MaxRequests, MaxBeats, MaxOther} \subseteq Nat

VARIABLES
  \* the caller
  pc,           \* what it awaits
  op,           \* the message it is about to write
  session,      \* CmConnection::session; id 0 is None
  returned,     \* the SessionState the last login gave to its caller
  handle,       \* heartbeat_handle
  joining,      \* the task shutdown waits for
  \* the heartbeat tasks, the sink and the wire
  task,         \* where each task is, the session id of its header, whether aborted
  lock,         \* holder of the mutex of the sink
  out,          \* messages put into the sink, in order
  socket,       \* "up", "broken", or "closed" by shutdown
  \* the CM
  inbox,        \* messages on their way to the client
  granted,      \* sessions granted; the last one is the newest
  used          \* how much of each bound is used

caller == <<pc, op, session, returned, handle, joining>>
vars == <<caller, task, lock, out, socket, inbox, granted, used>>

NoSession == [id |-> 0, seconds |-> 0, authenticated |-> FALSE]
Seconds == {0, 30}
Sessions == [id : Nat, seconds : Seconds, authenticated : BOOLEAN]
Ops == {"logon", "token", "request", "logoff", "close"}

TypeOK ==
  /\ pc \in {"idle", "lock", "put", "flush", "answer", "join", "down", "dropped"}
  /\ op \in Ops
  /\ session \in Sessions /\ returned \in Sessions
  /\ handle \in Task \cup {None} /\ joining \in Task \cup {None}
  /\ task \in [Task -> [at : {"unborn", "tick", "lock", "put", "flush", "done"},
                        session : 0..granted, aborted : BOOLEAN]]
  /\ lock \in Task \cup {Main, None}
  /\ out \in Seq([msg : Ops \cup {"heartbeat"}, session : Nat])
  /\ socket \in {"up", "broken", "closed"}
  /\ inbox \in Seq([msg : {"accepted", "refused", "other"}, id : 0..granted, seconds : Seconds])
  /\ granted \in Nat
  /\ used \in [{"logins", "answers", "requests", "beats", "other"} -> Nat]

Init ==
  /\ pc = "idle" /\ op = "logon"
  /\ session = NoSession /\ returned = NoSession
  /\ handle = None /\ joining = None
  /\ task = [t \in Task |-> [at |-> "unborn", session |-> 0, aborted |-> FALSE]]
  /\ lock = None
  /\ out = <<>>
  /\ socket = "up"
  /\ inbox = <<>>
  /\ granted = 0
  /\ used = [b \in {"logins", "answers", "requests", "beats", "other"} |-> 0]

Use(b, max) == used[b] < max /\ used' = [used EXCEPT ![b] = @ + 1]

-----------------------------------------------------------------------------
(* The caller *)

\* login_anonymous ("logon") or login_with_token ("token").
Login ==
  /\ pc = "idle"
  /\ Use("logins", MaxLogins)
  /\ op' \in {"logon", "token"}
  /\ pc' = "lock"
  /\ UNCHANGED <<session, returned, handle, joining, task, lock, out, socket, inbox, granted>>

\* A call that needs session_header; without a session it returns NoSession.
Request ==
  /\ pc = "idle"
  /\ session # NoSession
  /\ Use("requests", MaxRequests)
  /\ op' = "request"
  /\ pc' = "lock"
  /\ UNCHANGED <<session, returned, handle, joining, task, lock, out, socket, inbox, granted>>

Lock ==
  /\ pc = "lock" /\ lock = None
  /\ lock' = Main
  /\ pc' = "put"
  /\ UNCHANGED <<op, session, returned, handle, joining, task, out, socket, inbox, granted, used>>

\* What follows a write of the caller; shutdown ignores its errors.
Proceed(ok) ==
  IF op = "logoff" THEN pc' = "lock" /\ op' = "close"
  ELSE /\ pc' = IF op = "close" THEN "down"
                ELSE IF ok /\ op \in {"logon", "token"} THEN "answer" ELSE "idle"
       /\ UNCHANGED op

Header == IF op \in {"logon", "token", "close"} THEN 0 ELSE session.id

Put ==
  /\ pc = "put" /\ socket = "up"
  /\ out' = Append(out, [msg |-> op, session |-> Header])
  /\ pc' = "flush"
  /\ UNCHANGED <<op, session, returned, handle, joining, task, lock, socket, inbox, granted, used>>

Flush ==
  /\ pc = "flush" /\ socket = "up"
  /\ Proceed(TRUE)
  /\ lock' = None
  /\ socket' = IF op = "close" THEN "closed" ELSE socket
  /\ UNCHANGED <<session, returned, handle, joining, task, out, inbox, granted, used>>

\* The write fails on a connection that is gone.
WriteFails ==
  /\ pc \in {"put", "flush"} /\ socket # "up"
  /\ Proceed(FALSE)
  /\ lock' = None
  /\ socket' = IF op = "close" THEN "closed" ELSE socket
  /\ UNCHANGED <<session, returned, handle, joining, task, out, inbox, granted, used>>

Granted(m) == [id |-> m.id, seconds |-> m.seconds, authenticated |-> FALSE]

\* Slip: whatever message comes first sets the session.
SetsAnySession ==
  /\ pc = "answer" /\ inbox # <<>>
  /\ inbox' = Tail(inbox)
  /\ session' = [Granted(Head(inbox)) EXCEPT !.authenticated = (op = "token")]
  /\ returned' = Granted(Head(inbox))
  /\ pc' = "idle"
  /\ UNCHANGED <<op, handle, joining, task, lock, out, socket, granted, used>>

\* await_logon_response takes the next message, whatever it is; only an
\* accepted logon changes the session.  login_with_token marks the stored
\* session after it has copied it for its caller.
LogonResponse ==
  /\ pc = "answer" /\ inbox # <<>>
  /\ inbox' = Tail(inbox)
  /\ IF Head(inbox).msg = "accepted"
       THEN /\ session' = [Granted(Head(inbox)) EXCEPT !.authenticated = (op = "token")]
            /\ returned' = Granted(Head(inbox))
       ELSE UNCHANGED <<session, returned>>
  /\ pc' = "idle"
  /\ UNCHANGED <<op, handle, joining, task, lock, out, socket, granted, used>>

LogonClosed ==
  /\ pc = "answer" /\ inbox = <<>> /\ socket = "broken"
  /\ pc' = "idle"
  /\ UNCHANGED <<op, session, returned, handle, joining, task, lock, out, socket, inbox,
                 granted, used>>

\* start_heartbeat; without a session or an interval it does nothing.  The
\* handle of an earlier task is overwritten.
StartHeartbeat(t) ==
  /\ pc = "idle"
  /\ session # NoSession /\ session.seconds > 0
  /\ task[t].at = "unborn"
  /\ task' = [task EXCEPT ![t] = [at |-> "tick", session |-> session.id, aborted |-> FALSE]]
  /\ handle' = t
  /\ UNCHANGED <<pc, op, session, returned, joining, lock, out, socket, inbox, granted, used>>

Abort(t) == task' = IF t = None THEN task ELSE [task EXCEPT ![t].aborted = TRUE]

LogOff == pc' = "lock" /\ op' = IF session # NoSession THEN "logoff" ELSE "close"

\* Slip: the aborted task is not waited for.
ShutdownUnjoined ==
  /\ pc = "idle"
  /\ Abort(handle)
  /\ handle' = None
  /\ LogOff
  /\ UNCHANGED <<session, returned, joining, lock, out, socket, inbox, granted, used>>

\* Slip: the task is waited for and not aborted.
JoinWithoutAbort ==
  /\ pc = "idle"
  /\ handle' = None
  /\ UNCHANGED task
  /\ IF handle = None THEN LogOff /\ UNCHANGED joining
                      ELSE pc' = "join" /\ joining' = handle /\ UNCHANGED op
  /\ UNCHANGED <<session, returned, lock, out, socket, inbox, granted, used>>

Shutdown ==
  /\ pc = "idle"
  /\ Abort(handle)
  /\ handle' = None
  /\ IF handle = None THEN LogOff /\ UNCHANGED joining
                      ELSE pc' = "join" /\ joining' = handle /\ UNCHANGED op
  /\ UNCHANGED <<session, returned, lock, out, socket, inbox, granted, used>>

\* handle.await: the task is over.
Joined ==
  /\ pc = "join" /\ task[joining].at = "done"
  /\ LogOff
  /\ UNCHANGED <<session, returned, handle, joining, task, lock, out, socket, inbox, granted, used>>

Release(holder) == lock' = IF lock = holder THEN None ELSE lock

\* Slip: drop forgets the task.
DropDetached ==
  /\ pc # "dropped"
  /\ handle' = None
  /\ pc' = "dropped"
  /\ Release(Main)
  /\ UNCHANGED <<op, session, returned, joining, task, out, socket, inbox, granted, used>>

\* Drop for CmConnection, which also drops the call under way.
Drop ==
  /\ pc # "dropped"
  /\ Abort(handle)
  /\ handle' = None
  /\ pc' = "dropped"
  /\ Release(Main)
  /\ UNCHANGED <<op, session, returned, joining, out, socket, inbox, granted, used>>

-----------------------------------------------------------------------------
(* A heartbeat task *)

Goto(t, at) == task' = [task EXCEPT ![t].at = at]

\* The interval is over; the tick at the start of the task is skipped.
Tick(t) ==
  /\ task[t].at = "tick"
  /\ Use("beats", MaxBeats)
  /\ Goto(t, "lock")
  /\ UNCHANGED <<caller, lock, out, socket, inbox, granted>>

\* Slip: a heartbeat does not take the lock.
BeatWithoutLock(t) ==
  /\ task[t].at = "lock"
  /\ Goto(t, "put")
  /\ UNCHANGED <<caller, lock, out, socket, inbox, granted, used>>

BeatLock(t) ==
  /\ task[t].at = "lock" /\ lock = None
  /\ lock' = t
  /\ Goto(t, "put")
  /\ UNCHANGED <<caller, out, socket, inbox, granted, used>>

BeatPut(t) ==
  /\ task[t].at = "put" /\ socket = "up"
  /\ out' = Append(out, [msg |-> "heartbeat", session |-> task[t].session])
  /\ Goto(t, "flush")
  /\ UNCHANGED <<caller, lock, socket, inbox, granted, used>>

BeatFlush(t) ==
  /\ task[t].at = "flush" /\ socket = "up"
  /\ Release(t)
  /\ Goto(t, "tick")
  /\ UNCHANGED <<caller, out, socket, inbox, granted, used>>

\* A failed write breaks the loop.
BeatFails(t) ==
  /\ task[t].at \in {"put", "flush"} /\ socket # "up"
  /\ Release(t)
  /\ Goto(t, "done")
  /\ UNCHANGED <<caller, out, socket, inbox, granted, used>>

\* The runtime drops an aborted task at its await, and its guard with it.
CancelTask(t) ==
  /\ task[t].aborted /\ task[t].at \in {"tick", "lock", "put", "flush"}
  /\ Release(t)
  /\ Goto(t, "done")
  /\ UNCHANGED <<caller, out, socket, inbox, granted, used>>

-----------------------------------------------------------------------------
(* The CM *)

Logons == {i \in DOMAIN out : out[i].msg \in {"logon", "token"}}

\* Every logon is answered at most once.
AnswerLogon ==
  /\ socket = "up"
  /\ \E i \in Logons :
       /\ used.answers < i /\ \A k \in Logons : used.answers < k => i <= k
       /\ used' = [used EXCEPT !.answers = i]
  /\ \/ \E s \in Seconds :
          /\ granted' = granted + 1
          /\ inbox' = Append(inbox, [msg |-> "accepted", id |-> granted', seconds |-> s])
     \/ /\ inbox' = Append(inbox, [msg |-> "refused", id |-> 0, seconds |-> 0])
        /\ UNCHANGED granted
  /\ UNCHANGED <<caller, task, lock, out, socket>>

Unasked ==
  /\ socket = "up"
  /\ Use("other", MaxOther)
  /\ inbox' = Append(inbox, [msg |-> "other", id |-> 0, seconds |-> 0])
  /\ UNCHANGED <<caller, task, lock, out, socket, granted>>

HangUp ==
  /\ socket = "up"
  /\ socket' = "broken"
  /\ UNCHANGED <<caller, task, lock, out, inbox, granted, used>>

-----------------------------------------------------------------------------

Writing == Lock \/ Put \/ Flush \/ WriteFails

Beat(t) == Tick(t) \/ BeatLock(t) \/ BeatPut(t) \/ BeatFlush(t) \/ BeatFails(t)

Over == pc \in {"down", "dropped"} /\ UNCHANGED vars

Next ==
  \/ Login \/ Request \/ Writing \/ LogonResponse \/ LogonClosed
  \/ Shutdown \/ Joined \/ Drop
  \/ \E t \in Task : StartHeartbeat(t) \/ Beat(t) \/ CancelTask(t)
  \/ AnswerLogon \/ Unasked \/ HangUp
  \/ Over

Spec == Init /\ [][Next]_vars

\* The runtime runs the caller, whose writes the socket takes or refuses, and
\* drops aborted tasks.  Nothing is assumed of the write of a heartbeat.
Fairness ==
  /\ WF_vars(Writing) /\ WF_vars(Joined)
  /\ \A t \in Task : WF_vars(CancelTask(t))

FairSpec == Spec /\ Fairness

-----------------------------------------------------------------------------
(* Properties *)

\* The sink has one writer at a time: whoever is between putting a message in
\* and the end of its flush holds the lock, and a task that was dropped there
\* has given it back.
OneWriter ==
  /\ pc \in {"put", "flush"} <=> lock = Main
  /\ \A t \in Task : task[t].at \in {"put", "flush"} <=> lock = t

\* shutdown ends the heartbeat before it logs off: no heartbeat of an ended
\* session follows its LogOff.
QuietAfterLogoff ==
  \A i, k \in DOMAIN out : i < k /\ out[i].msg = "logoff" => out[k].msg # "heartbeat"

\* On a connection that holds, shutdown sends LogOff under the session it has,
\* then Close, and nothing follows, whatever the heartbeat was doing.
CleanShutdown ==
  pc = "down" /\ socket = "closed" /\ out # <<>> /\ out[Len(out)].msg = "close"
    /\ session # NoSession
    => Len(out) > 1 /\ out[Len(out) - 1] = [msg |-> "logoff", session |-> session.id]

\* What login returned for the stored session is that session, up to
\* authenticated, which login_with_token sets after it has made the copy.
ReturnedIsCopy ==
  pc = "idle" /\ returned.id = session.id =>
    returned = [session EXCEPT !.authenticated = FALSE]

\* At every moment: the sink has one writer, what is written ends in a clean
\* shutdown without a heartbeat behind it, and the caller of login holds a copy
\* of the session.
SessionInv == TypeOK /\ OneWriter /\ QuietAfterLogoff /\ CleanShutdown /\ ReturnedIsCopy

\* The stored session only moves forward, to a session that the CM has granted
\* on this connection: a refused logon or a message in the place of the answer
\* leaves it alone.
SessionsAdvance ==
  [][session' # session => session'.id \in (session.id + 1)..granted]_vars

\* shutdown ends, even while a heartbeat hangs in its write with the lock.
ShutdownReturns ==
  pc = "join" \/ (pc = "lock" /\ op \in {"logoff", "close"}) ~> pc \in {"down", "dropped"}

\* Dropping the connection, at whatever await, ends its heartbeat.
DropStopsHeartbeat ==
  pc = "dropped" ~> \A t \in Task : task[t].at \in {"unborn", "done"}

=============================================================================
