------------------------------- MODULE CmCalls -------------------------------
(***************************************************************************)
(* Requests to the Steam CM over one connection, one at a time: the        *)
(* service method calls of steamdepot/src/connection.rs, which match their *)
(* response by job id under a 30 s timeout; the retries that cdn.rs puts   *)
(* around them; and the calls of pics.rs, which take the next message of   *)
(* the expected type, without a job id and without a timeout.              *)
(*                                                                         *)
(* The CM answers a request late, out of order or never, refuses it, or    *)
(* hangs up; a frame or a body that does not decode arrives on a           *)
(* connection that goes on.  Frames keep their order on the wire.  The     *)
(* sink may be stuck: its lock is held by a heartbeat, or its socket takes *)
(* no more, and a send waits without a timeout.  The caller may drop a     *)
(* call anywhere.  A session is set: the calls are those made after login  *)
(* (pics, content) or during it (auth).                                    *)
(***************************************************************************)
EXTENDS Naturals, Sequences

CONSTANTS
  Op,           \* operations the caller may invoke, of a kind below each
  KindOf,       \* the kind of each
  CM_RETRIES,   \* retries of a content call after its first attempt
  MaxCalls,     \* bound: calls made over the connection
  MaxInbox      \* bound: frames on the wire towards the client

Kinds == {"content", "auth", "info", "key", "license"}

ASSUME CallsAssumption ==
  /\ KindOf \in [Op -> Kinds]
  /\ CM_RETRIES \in Nat
  /\ MaxCalls \in Nat
  /\ MaxInbox \in Nat

VARIABLES
  \* the client
  phase,        \* "idle", or what the current call is doing
  op,           \* the operation of the current call, or of the last one
  stage,        \* EMsg of the response it waits for
  req,          \* its newest request
  job,          \* job id of that request; 0 where the call sends none
  attempt,      \* retries made so far
  stray,        \* it has taken in a reply to another request
  next_job_id,  \* NEXT_JOB_ID
  last,         \* how the last call ended, the operation whose request its
                \* answer was to, and whether some call was cut short: dropped,
                \* or ended over a frame that does not decode
  calls,        \* calls made
  seen_close,   \* the stream has reported the end of the connection
  \* the connection and the CM
  inbox,        \* frames on the wire, oldest first
  sent,         \* requests that reached the wire, in order
  answered,     \* those the CM has answered to the end
  peer,         \* whether the CM still holds the connection "up"
  sink          \* whether a send would end: "free" or "stuck"

client == <<phase, op, stage, req, job, attempt, stray, next_job_id, last, calls, seen_close>>
vars == <<client, inbox, sent, answered, peer, sink>>

Stages == {"service", "tokens", "info", "key", "license"}
Outcomes == {"none", "ok", "websocket", "closed", "timeout", "eresult", "decode", "dropped"}
Requests == [emsg : Stages, job : Nat, op : Op]
Bodies == {"ok", "refused", "garbled"}
Frames == [emsg : {"other", "bad"}]
          \cup [emsg : Stages, req : Nat, job : Nat, more : BOOLEAN, body : Bodies]

TypeOK ==
  /\ phase \in {"idle", "send", "wait", "sleep"}
  /\ op \in Op
  /\ stage \in Stages
  /\ req \in 0..Len(sent)
  /\ job \in 0..(next_job_id - 1)
  /\ attempt \in 0..CM_RETRIES
  /\ stray \in BOOLEAN
  /\ next_job_id \in Nat \ {0}
  /\ last \in [result : Outcomes, of : Op, stray : BOOLEAN, cut : BOOLEAN]
  /\ calls \in 0..MaxCalls
  /\ seen_close \in BOOLEAN
  /\ inbox \in Seq(Frames)
  /\ sent \in Seq(Requests)
  /\ answered \subseteq 1..Len(sent)
  /\ peer \in {"up", "down"}
  /\ sink \in {"free", "stuck"}

\* Which response an operation waits for first.
FirstStage(o) ==
  CASE KindOf[o] \in {"content", "auth"} -> "service"
    [] KindOf[o] = "info" -> "tokens"
    [] OTHER -> KindOf[o]

Init ==
  /\ phase = "idle"
  /\ op \in Op
  /\ stage = FirstStage(op)
  /\ req = 0
  /\ job = 0
  /\ attempt = 0
  /\ stray = FALSE
  /\ next_job_id = 1
  /\ last = [result |-> "none", of |-> op, stray |-> FALSE, cut |-> FALSE]
  /\ calls = 0
  /\ seen_close = FALSE
  /\ inbox = <<>>
  /\ sent = <<>>
  /\ answered = {}
  /\ peer = "up"
  /\ sink = "free"

-----------------------------------------------------------------------------
(* How a call ends *)

\* is_cm_retryable; only the content calls of cdn.rs ask it.
is_cm_retryable(error) == error \in {"timeout", "closed", "websocket"}

Return(result) ==
  /\ phase' = "idle"
  /\ last' = [result |-> result, of |-> op, stray |-> stray,
              cut |-> last.cut \/ result \in {"decode", "dropped"}]
  /\ UNCHANGED <<stage, attempt>>

\* A content call sleeps and tries again while it has retries; the others
\* return the error.
Fail(error) ==
  IF KindOf[op] = "content" /\ is_cm_retryable(error) /\ attempt < CM_RETRIES
    THEN phase' = "sleep" /\ attempt' = attempt + 1 /\ UNCHANGED <<stage, last>>
    ELSE Return(error)

-----------------------------------------------------------------------------
(* The client *)

Start(o) ==
  /\ phase = "idle"
  /\ calls < MaxCalls
  /\ calls' = calls + 1
  /\ op' = o
  /\ stage' = FirstStage(o)
  /\ attempt' = 0
  /\ stray' = FALSE
  /\ phase' = "send"
  /\ UNCHANGED <<req, job, next_job_id, last, seen_close, inbox, sent, answered, peer, sink>>

\* Slip: all attempts of a call have one job id.
ReuseJobId ==
  IF stage = "service"
    THEN job' = calls /\ next_job_id' = calls + 1
    ELSE job' = 0 /\ UNCHANGED next_job_id

\* Every attempt of a service call draws a job id, before it is known whether
\* the request can be sent.
DrawJobId ==
  IF stage = "service"
    THEN job' = next_job_id /\ next_job_id' = next_job_id + 1
    ELSE job' = 0 /\ UNCHANGED next_job_id

\* The write succeeds, perhaps into a connection that is gone already.  It
\* waits for the lock of the sink and for the socket, outside the timeout.
Send ==
  /\ phase = "send"
  /\ sink = "free"
  /\ ~seen_close
  /\ DrawJobId
  /\ sent' = Append(sent, [emsg |-> stage, job |-> job', op |-> op])
  /\ req' = Len(sent')
  /\ phase' = "wait"
  /\ UNCHANGED <<op, stage, attempt, stray, last, calls, seen_close, inbox, answered, peer, sink>>

\* The write fails on a connection that is gone.
SendFails ==
  /\ phase = "send"
  /\ sink = "free"
  /\ peer = "down"
  /\ DrawJobId
  /\ Fail("websocket")
  /\ UNCHANGED <<op, req, stray, calls, seen_close, inbox, sent, answered, peer, sink>>

\* Slip: the job id is not compared.
TakesAnyResponse(f) == f.emsg = stage

\* Whether the frame is the response the call waits for.
Expected(f) == f.emsg = stage /\ (stage = "service" => f.job = job)

Take == phase = "wait" /\ inbox # <<>> /\ inbox' = Tail(inbox)

\* A frame that parse_raw_frame or unpack_multi cannot read ends the call.
RecvBad ==
  /\ Take
  /\ Head(inbox).emsg = "bad"
  /\ Fail("decode")
  /\ UNCHANGED <<op, req, job, stray, next_job_id, calls, seen_close, sent, answered, peer, sink>>

\* Any other message that is not expected is dropped.
RecvSkip ==
  /\ Take
  /\ Head(inbox).emsg # "bad" /\ ~Expected(Head(inbox))
  /\ UNCHANGED <<client, sent, answered, peer, sink>>

\* The response carries an error, or its body does not decode.  The PICS calls
\* look at no eresult.
RecvError ==
  /\ Take
  /\ Expected(Head(inbox))
  /\ Head(inbox).body # "ok"
  /\ Fail(IF Head(inbox).body = "refused" THEN "eresult" ELSE "decode")
  /\ UNCHANGED <<op, req, job, stray, next_job_id, calls, seen_close, sent, answered, peer, sink>>

\* The response is good: get_product_info goes on to its next part, or from the
\* access tokens to its main request; any other call returns.
RecvReply ==
  /\ Take
  /\ Expected(Head(inbox))
  /\ Head(inbox).body = "ok"
  /\ stray' = (stray \/ Head(inbox).req # req)
  /\ \/ /\ stage = "info" /\ Head(inbox).more
        /\ UNCHANGED <<phase, stage, attempt, last>>
     \/ /\ stage = "tokens"
        /\ stage' = "info" /\ phase' = "send"
        /\ UNCHANGED <<attempt, last>>
     \/ /\ stage # "tokens" /\ ~(stage = "info" /\ Head(inbox).more)
        /\ phase' = "idle"
        /\ last' = [last EXCEPT !.result = "ok", !.stray = stray',
                               !.of = sent[Head(inbox).req].op]
        /\ UNCHANGED <<stage, attempt>>
  /\ UNCHANGED <<op, req, job, next_job_id, calls, seen_close, sent, answered, peer, sink>>

\* The stream ends, with a Close frame or an error of the socket.
RecvClosed ==
  /\ phase = "wait" /\ inbox = <<>> /\ peer = "down"
  /\ seen_close' = TRUE
  /\ \E error \in {"closed", "websocket"} : Fail(error)
  /\ UNCHANGED <<op, req, job, stray, next_job_id, calls, inbox, sent, answered, peer, sink>>

\* Slip: only content calls have a timeout.
TimeoutOfContent ==
  /\ phase = "wait" /\ stage = "service" /\ KindOf[op] = "content"
  /\ Fail("timeout")
  /\ UNCHANGED <<op, req, job, stray, next_job_id, calls, seen_close, inbox, sent, answered, peer, sink>>

\* SERVICE_METHOD_TIMEOUT: the wait is dropped, the request stays with the CM.
Timeout ==
  /\ phase = "wait" /\ stage = "service"
  /\ Fail("timeout")
  /\ UNCHANGED <<op, req, job, stray, next_job_id, calls, seen_close, inbox, sent, answered, peer, sink>>

\* CM_RETRY_DELAY * attempt is over.
Wake ==
  /\ phase = "sleep"
  /\ phase' = "send"
  /\ UNCHANGED <<op, stage, req, job, attempt, stray, next_job_id, last, calls, seen_close,
                 inbox, sent, answered, peer, sink>>

\* The caller drops the future of the call, wherever it is.  A request whose
\* write was under way counts as written or as not written.
Drop ==
  /\ phase # "idle"
  /\ Return("dropped")
  /\ UNCHANGED <<op, req, job, stray, next_job_id, calls, seen_close, inbox, sent, answered, peer, sink>>

-----------------------------------------------------------------------------
(* The CM *)

CanArrive == peer = "up" /\ Len(inbox) < MaxInbox

\* A reply to any request it has not answered yet; product info may come in
\* several parts.
Answer(i) ==
  /\ CanArrive
  /\ i \notin answered
  /\ \E more \in BOOLEAN, body \in Bodies :
       /\ more => sent[i].emsg = "info"
       /\ body = "refused" => sent[i].emsg \notin {"tokens", "info"}
       /\ inbox' = Append(inbox, [emsg |-> sent[i].emsg, req |-> i, job |-> sent[i].job,
                                  more |-> more, body |-> body])
       /\ answered' = IF more THEN answered ELSE answered \cup {i}
  /\ UNCHANGED <<client, sent, peer, sink>>

\* A message nobody asked for, or a frame that cannot be read.
Unsolicited ==
  /\ CanArrive
  /\ \E e \in {"other", "bad"} : inbox' = Append(inbox, [emsg |-> e])
  /\ UNCHANGED <<client, sent, answered, peer, sink>>

\* The sink gets stuck, or free: a heartbeat takes its lock and does not get on
\* with its write, or the buffers of the socket are full; the write goes
\* through, or fails, or the session ends the heartbeat.
Congestion ==
  /\ sink' = IF sink = "free" THEN "stuck" ELSE "free"
  /\ UNCHANGED <<client, inbox, sent, answered, peer>>

HangUp ==
  /\ peer = "up"
  /\ peer' = "down"
  /\ UNCHANGED <<client, inbox, sent, answered, sink>>

-----------------------------------------------------------------------------

Client ==
  \/ Send \/ SendFails
  \/ RecvBad \/ RecvSkip \/ RecvError \/ RecvReply \/ RecvClosed
  \/ Wake

CM == (\E i \in 1..Len(sent) : Answer(i)) \/ Unsolicited \/ HangUp

\* The caller makes no more calls.
Settled == phase = "idle" /\ calls = MaxCalls /\ UNCHANGED vars

Next == (\E o \in Op : Start(o)) \/ Client \/ Timeout \/ Drop \/ CM \/ Congestion \/ Settled

\* The runtime runs the call and its timers.  A send gets the sink if that is
\* free again and again: tokio's Mutex hands its lock on in the order of the
\* requests.  Nothing is assumed of the CM, nor that the sink ever gets free.
Fairness == WF_vars(Client) /\ WF_vars(Timeout) /\ SF_vars(Send \/ SendFails)

Spec == Init /\ [][Next]_vars
FairSpec == Spec /\ Fairness

-----------------------------------------------------------------------------
(* Properties *)

IsServiceCall == KindOf[op] \in {"content", "auth"}

\* A service call that succeeds returns the response to its own last attempt:
\* the answers to attempts that timed out, to earlier calls, to calls that were
\* dropped, and to the first of two requests answered out of order are all
\* skipped.
ServiceAnswerIsOwn ==
  TypeOK /\ (last.result = "ok" /\ IsServiceCall /\ phase = "idle" => ~last.stray)

\* The same holds of the calls without a job id until a call was cut short,
\* dropped by its caller or ended over a frame that does not decode: otherwise
\* none of them ends while its request may still be answered, so no answer is
\* left over for the next call of its type.
AnswerIsOwn == last.result = "ok" /\ ~last.cut => ~last.stray

\* Every service call returns, with the CM silent, flooding or gone, unless it
\* waits for ever in its send for a sink that stays stuck: each wait for a
\* response is bounded by the timeout and the attempts by CM_RETRIES, but
\* service_method_call awaits its send before the timeout begins.
ServiceCallReturns ==
  \/ (phase # "idle" /\ IsServiceCall) ~> phase = "idle"
  \/ <>[](phase = "send" /\ sink = "stuck")

\* get_depot_decryption_key fetches the key for a depot: what it returns is the
\* answer to a request for that depot.
KeyIsForItsDepot ==
  phase = "idle" /\ KindOf[op] = "key" /\ last.result = "ok" => last.of = op

=============================================================================
