---------------------------- MODULE CmCallsProofs ----------------------------
(***************************************************************************)
(* Proofs about CmCalls, for every set of operations, number of retries,   *)
(* calls and frames on the wire.                                           *)
(*                                                                         *)
(* A service call takes its own answer because job ids are drawn once and  *)
(* a frame carries the id of its request (JobsInv, FramesInv, CallInv).    *)
(* The other calls match by type only.  They take their own answer because *)
(* none of them ends while its request may still be answered, unless it is *)
(* cut short: dropped, or ended by a frame that does not decode            *)
(* (LeftoverInv).  Until then the only frames of their types on the wire   *)
(* belong to the call under way.                                           *)
(***************************************************************************)
EXTENDS CmCalls, SequenceTheorems, TLAPS

IsReply(f) == f.emsg \in Stages

\* Service requests have job ids of their own, below the next one.
JobsInv ==
  \A i \in 1..Len(sent) : sent[i].emsg = "service" =>
    /\ sent[i].job \in 1..next_job_id - 1
    /\ \A k \in 1..Len(sent) : sent[k].emsg = "service" /\ sent[k].job = sent[i].job => k = i

\* A frame on the wire replies to a request in its type and job id; the last
\* frame to a request follows the others, and then the request is answered.
RepliesInOrder(n) ==
  /\ inbox[n].req \in 1..Len(sent)
  /\ sent[inbox[n].req].emsg = inbox[n].emsg /\ sent[inbox[n].req].job = inbox[n].job
  /\ inbox[n].more => inbox[n].emsg = "info"
  /\ inbox[n].body = "refused" => inbox[n].emsg \notin {"tokens", "info"}
  /\ ~ inbox[n].more =>
       /\ inbox[n].req \in answered
       /\ \A m \in n + 1..Len(inbox) : IsReply(inbox[m]) => inbox[m].req # inbox[n].req

FramesInv == \A n \in 1..Len(inbox) : IsReply(inbox[n]) => RepliesInOrder(n)

\* The call under way waits for the response to its newest request.
CallInv ==
  /\ stage = "service" <=> IsServiceCall
  /\ phase = "wait" => req \in 1..Len(sent) /\ sent[req].emsg = stage /\ sent[req].job = job
  /\ IsServiceCall /\ phase # "idle" => ~ stray
  /\ last.result = "ok" /\ IsServiceCall /\ phase = "idle" => ~ last.stray

\* Nothing more will be read for request i.
Over(i) ==
  /\ i \in answered \/ peer = "down"
  /\ \A n \in 1..Len(inbox) : IsReply(inbox[n]) => inbox[n].req # i

\* While no call was cut short, every request without a job id is over but the
\* one that is waited for.
LeftoverInv ==
  ~ last.cut =>
    /\ \A i \in 1..Len(sent) :
         sent[i].emsg # "service" /\ ~ (phase = "wait" /\ i = req) => Over(i)
    /\ ~ stray
    /\ last.result = "ok" => ~ last.stray

CallsInv == TypeOK /\ JobsInv /\ FramesInv /\ CallInv /\ LeftoverInv

-----------------------------------------------------------------------------
(* Facts about the operators of the model *)

\* Every operation waits for a response of some type first: service calls, and
\* only they, for the response of a service method.
LEMMA FirstStageFacts ==
  ASSUME NEW o \in Op
  PROVE  /\ FirstStage(o) \in Stages
         /\ FirstStage(o) = "service" <=> KindOf[o] \in {"content", "auth"}
<1>1. KindOf[o] \in Kinds
  BY CallsAssumption
<1>2. CASE KindOf[o] \in {"content", "auth"}
  BY <1>2 DEF FirstStage, Stages
<1>3. CASE KindOf[o] = "info"
  BY <1>3 DEF FirstStage, Stages
<1>4. CASE KindOf[o] \in {"key", "license"}
  BY <1>4 DEF FirstStage, Stages
<1> QED
  BY <1>1, <1>2, <1>3, <1>4 DEF Kinds

\* Taking a frame leaves a sequence of frames, those that were behind it.
LEMMA TakeFacts ==
  ASSUME TypeOK, Take
  PROVE  /\ inbox' \in Seq(Frames) /\ Len(inbox) \in Nat \ {0}
         /\ Len(inbox') = Len(inbox) - 1
         /\ \A n \in 1..Len(inbox') : inbox'[n] = inbox[n + 1] /\ n + 1 \in 1..Len(inbox)
         /\ Head(inbox) = inbox[1] /\ inbox[1] \in Frames
<1>1. inbox \in Seq(Frames) /\ inbox # <<>> /\ inbox' = Tail(inbox)
  BY DEF TypeOK, Take
<1>2. Len(inbox) \in Nat \ {0}
  BY <1>1, EmptySeq
<1>3. /\ Tail(inbox) \in Seq(Frames) /\ Len(Tail(inbox)) = Len(inbox) - 1
      /\ \A n \in 1..Len(Tail(inbox)) : Tail(inbox)[n] = inbox[n + 1]
  BY <1>1, HeadTailProperties
<1>4. Head(inbox) = inbox[1] /\ inbox[1] \in Frames
  BY <1>1, <1>2, ElementOfSeq
<1> QED
  BY <1>1, <1>2, <1>3, <1>4

\* A request has a type, a job id and an operation it was made for.
LEMMA RequestFacts ==
  ASSUME TypeOK, NEW i \in 1..Len(sent)
  PROVE  /\ sent[i] \in Requests
         /\ sent[i].emsg \in Stages /\ sent[i].job \in Nat /\ sent[i].op \in Op
<1>1. sent[i] \in Requests
  BY ElementOfSeq DEF TypeOK
<1> QED
  BY <1>1 DEF Requests

\* Fail either puts the call to sleep or returns; either way it keeps the stage.
LEMMA FailFacts ==
  ASSUME TypeOK, NEW error \in Outcomes \ {"none", "ok"}, Fail(error)
  PROVE  /\ stage' = stage /\ attempt' \in 0..CM_RETRIES
         /\ phase' \in {"idle", "sleep"}
         /\ last' \in [result : Outcomes, of : Op, stray : BOOLEAN, cut : BOOLEAN]
         /\ \/ /\ phase' = "sleep" /\ last' = last /\ KindOf[op] = "content"
               /\ is_cm_retryable(error)
            \/ /\ phase' = "idle"
               /\ last' = [result |-> error, of |-> op, stray |-> stray,
                           cut |-> last.cut \/ error \in {"decode", "dropped"}]
<1>1. CASE Return(error)
  <2>1. (last.cut \/ error \in {"decode", "dropped"}) \in BOOLEAN /\ stray \in BOOLEAN
    BY DEF TypeOK
  <2> QED
    BY <1>1, <2>1 DEF Return, TypeOK
<1>2. CASE ~ Return(error)
  BY <1>2, CallsAssumption DEF Fail, TypeOK
<1> QED
  BY <1>1, <1>2

\* Dropping a call ends it like an error that is not retried.
LEMMA DropFacts ==
  Drop => Fail("dropped") /\ phase # "idle"
BY DEF Drop, Fail, is_cm_retryable

\* The types are kept by every step.
LEMMA TypeStep ==
  CallsInv /\ [Next]_vars => TypeOK'
<1> SUFFICES ASSUME CallsInv, [Next]_vars
             PROVE  TypeOK'
  OBVIOUS
<1>t. TypeOK
  BY DEF CallsInv
<1>l. Len(sent) \in Nat
  BY <1>t DEF TypeOK
<1>1. ASSUME NEW o \in Op, Start(o) PROVE TypeOK'
  <2>1. stage' \in Stages
    BY <1>1, FirstStageFacts DEF Start
  <2>2. calls' \in 0..MaxCalls /\ attempt' \in 0..CM_RETRIES
    BY <1>1, <1>t, CallsAssumption DEF Start, TypeOK
  <2> QED
    BY <1>1, <1>t, <2>1, <2>2 DEF Start, TypeOK
<1>2. CASE Send
  <2>1. job' \in 0..(next_job_id' - 1) /\ next_job_id' \in Nat \ {0}
    BY <1>2, <1>t DEF Send, DrawJobId, TypeOK
  <2>2. [emsg |-> stage, job |-> job', op |-> op] \in Requests
    BY <2>1, <1>t DEF TypeOK, Requests
  <2>3. sent' \in Seq(Requests) /\ Len(sent') = Len(sent) + 1
    BY <1>2, <1>t, <2>2 DEF Send, TypeOK
  <2>4. req' \in 0..Len(sent') /\ answered' \subseteq 1..Len(sent')
    BY <1>2, <1>t, <1>l, <2>3 DEF Send, TypeOK
  <2> QED
    BY <1>2, <1>t, <2>1, <2>3, <2>4 DEF Send, TypeOK
<1>3. CASE SendFails
  <2>1. job' \in 0..(next_job_id' - 1) /\ next_job_id' \in Nat \ {0}
    BY <1>3, <1>t DEF SendFails, DrawJobId, TypeOK
  <2>2. /\ stage' \in Stages /\ attempt' \in 0..CM_RETRIES
        /\ phase' \in {"idle", "send", "wait", "sleep"}
        /\ last' \in [result : Outcomes, of : Op, stray : BOOLEAN, cut : BOOLEAN]
    BY <1>3, <1>t, FailFacts DEF SendFails, TypeOK, Outcomes
  <2> QED
    BY <1>3, <1>t, <2>1, <2>2 DEF SendFails, TypeOK
<1>4. CASE RecvBad \/ RecvError \/ RecvClosed \/ Timeout \/ Drop
  <2>1. PICK error \in Outcomes \ {"none", "ok"} : Fail(error)
    BY <1>4, DropFacts DEF RecvBad, RecvError, RecvClosed, Timeout, Outcomes
  <2>2. /\ stage' \in Stages /\ attempt' \in 0..CM_RETRIES
        /\ phase' \in {"idle", "send", "wait", "sleep"}
        /\ last' \in [result : Outcomes, of : Op, stray : BOOLEAN, cut : BOOLEAN]
    BY <1>t, <2>1, FailFacts DEF TypeOK
  <2>3. inbox' \in Seq(Frames)
    BY <1>4, <1>t, TakeFacts DEF RecvBad, RecvError, RecvClosed, Timeout, Drop, TypeOK
  <2> QED
    BY <1>4, <1>t, <2>2, <2>3 DEF RecvBad, RecvError, RecvClosed, Timeout, Drop, TypeOK
<1>5. CASE RecvSkip
  BY <1>5, <1>t, TakeFacts DEF RecvSkip, client, TypeOK
<1>6. CASE RecvReply
  <2>1. inbox' \in Seq(Frames)
    BY <1>6, <1>t, TakeFacts DEF RecvReply
  <2>2. sent[Head(inbox).req].op \in Op
    <3>1. /\ Take /\ Expected(Head(inbox)) /\ Head(inbox) = inbox[1]
          /\ 1 \in 1..Len(inbox)
      BY <1>6, <1>t, TakeFacts DEF RecvReply
    <3>2. IsReply(inbox[1])
      BY <1>t, <3>1 DEF Expected, IsReply, TypeOK
    <3>3. inbox[1].req \in 1..Len(sent)
      BY <3>1, <3>2 DEF CallsInv, FramesInv, RepliesInOrder
    <3> QED
      BY <1>t, <3>1, <3>3, RequestFacts
  <2>3. stray' \in BOOLEAN /\ phase' \in {"idle", "send", "wait"} /\ stage' \in Stages
    BY <1>6, <1>t DEF RecvReply, Take, TypeOK, Stages
  <2>4. last' \in [result : Outcomes, of : Op, stray : BOOLEAN, cut : BOOLEAN]
    BY <1>6, <1>t, <2>2, <2>3 DEF RecvReply, TypeOK, Outcomes
  <2> QED
    BY <1>6, <1>t, <2>1, <2>3, <2>4 DEF RecvReply, TypeOK
<1>7. CASE Wake
  BY <1>7, <1>t DEF Wake, TypeOK
<1>8. ASSUME NEW i \in 1..Len(sent), Answer(i) PROVE TypeOK'
  <2>1. PICK more \in BOOLEAN, body \in Bodies :
          inbox' = Append(inbox, [emsg |-> sent[i].emsg, req |-> i, job |-> sent[i].job,
                                  more |-> more, body |-> body])
    BY <1>8 DEF Answer
  <2>2. sent[i] \in Requests
    BY <1>t, ElementOfSeq DEF TypeOK
  <2>3. [emsg |-> sent[i].emsg, req |-> i, job |-> sent[i].job,
         more |-> more, body |-> body] \in Frames
    BY <2>2, <1>l DEF Frames, Requests
  <2>4. inbox' \in Seq(Frames)
    BY <1>t, <2>1, <2>3 DEF TypeOK
  <2> QED
    BY <1>8, <1>t, <2>4 DEF Answer, client, TypeOK
<1>9. CASE Unsolicited
  <2>1. PICK e \in {"other", "bad"} : inbox' = Append(inbox, [emsg |-> e])
    BY <1>9 DEF Unsolicited
  <2>2. inbox' \in Seq(Frames)
    BY <1>t, <2>1 DEF TypeOK, Frames
  <2> QED
    BY <1>9, <1>t, <2>2 DEF Unsolicited, client, TypeOK
<1>10. CASE HangUp \/ Congestion \/ UNCHANGED vars
  BY <1>10, <1>t DEF HangUp, Congestion, client, vars, TypeOK
<1> QED
  BY <1>1, <1>2, <1>3, <1>4, <1>5, <1>6, <1>7, <1>8, <1>9, <1>10
  DEF Next, Client, CM, Settled

-----------------------------------------------------------------------------
(* The requests and the frames *)

\* A request is appended to those that were sent before.
LEMMA SendFacts ==
  ASSUME TypeOK, Send
  PROVE  /\ Len(sent) \in Nat /\ Len(sent') = Len(sent) + 1 /\ req' = Len(sent')
         /\ \A k \in 1..Len(sent) : sent'[k] = sent[k]
         /\ sent'[Len(sent')].emsg = stage /\ sent'[Len(sent')].job = job'
         /\ stage = "service" => job' = next_job_id /\ next_job_id' = next_job_id + 1
         /\ stage # "service" => next_job_id' = next_job_id
<1>1. [emsg |-> stage, job |-> job', op |-> op] \in Requests
  BY DEF Send, DrawJobId, TypeOK, Requests
<1>2. sent \in Seq(Requests) /\ sent' = Append(sent, [emsg |-> stage, job |-> job', op |-> op])
  BY DEF Send, TypeOK
<1>3. Len(sent) \in Nat
  BY <1>2
<1> QED
  BY <1>1, <1>2, <1>3, AppendProperties DEF Send, DrawJobId

\* Only Send adds a request, and no step takes back a job id.
LEMMA OtherwiseSame ==
  ASSUME TypeOK, [Next]_vars, ~ Send
  PROVE  sent' = sent /\ next_job_id' \in Nat /\ next_job_id' >= next_job_id
BY DEF TypeOK, Next, Client, CM, Settled, vars, client, Start, SendFails, DrawJobId, RecvBad,
       RecvSkip, RecvError, RecvReply, RecvClosed, Wake, Timeout, Answer, Unsolicited, HangUp, Drop,
       Congestion

\* Job ids stay distinct.
LEMMA JobsStep ==
  CallsInv /\ [Next]_vars => JobsInv'
<1> SUFFICES ASSUME CallsInv, [Next]_vars
             PROVE  JobsInv'
  OBVIOUS
<1>t. TypeOK /\ JobsInv
  BY DEF CallsInv
<1>n. next_job_id \in Nat \ {0} /\ Len(sent) \in Nat
  BY <1>t DEF TypeOK
<1>1. CASE Send
  <2>1. /\ Len(sent') = Len(sent) + 1
        /\ \A k \in 1..Len(sent) : sent'[k] = sent[k]
        /\ sent'[Len(sent')].emsg = stage /\ sent'[Len(sent')].job = job'
        /\ stage = "service" => job' = next_job_id /\ next_job_id' = next_job_id + 1
        /\ stage # "service" => next_job_id' = next_job_id
    BY <1>1, <1>t, SendFacts
  <2>2. \A i \in 1..Len(sent) : sent'[i].emsg = "service" =>
          /\ sent'[i].job \in 1..next_job_id - 1
          /\ \A k \in 1..Len(sent) :
               sent'[k].emsg = "service" /\ sent'[k].job = sent'[i].job => k = i
    BY <1>t, <2>1 DEF JobsInv
  <2>3. sent'[Len(sent')].emsg = "service" =>
          sent'[Len(sent')].job = next_job_id /\ next_job_id' = next_job_id + 1
    BY <2>1
  <2>4. next_job_id' \in Nat /\ next_job_id' >= next_job_id
    BY <1>n, <2>1
  <2> QED
    BY <1>n, <2>1, <2>2, <2>3, <2>4 DEF JobsInv
<1>2. CASE ~ Send
  BY <1>2, <1>t, <1>n, OtherwiseSame DEF JobsInv
<1> QED
  BY <1>1, <1>2

\* What a step does to the wire: it adds a request, or it takes a frame, or the
\* CM adds a frame, or it leaves the wire alone.
LEMMA WireSteps ==
  ASSUME TypeOK, [Next]_vars
  PROVE  \/ Send
         \/ Take /\ UNCHANGED <<sent, answered, peer>>
         \/ \E i \in 1..Len(sent) : Answer(i)
         \/ Unsolicited
         \/ UNCHANGED <<inbox, sent, answered>> /\ (peer = "down" => peer' = "down")
BY DEF Next, Client, CM, Settled, vars, client, Start, SendFails, RecvBad, RecvSkip, RecvError,
       RecvReply, RecvClosed, Wake, Timeout, HangUp, Drop, Congestion

\* An answer is the newest frame on the wire.
LEMMA AnswerFacts ==
  ASSUME TypeOK, NEW i \in 1..Len(sent), Answer(i)
  PROVE  \E more \in BOOLEAN, body \in Bodies :
           /\ more => sent[i].emsg = "info"
           /\ body = "refused" => sent[i].emsg \notin {"tokens", "info"}
           /\ Len(inbox) \in Nat /\ Len(inbox') = Len(inbox) + 1
           /\ \A n \in 1..Len(inbox) : inbox'[n] = inbox[n]
           /\ inbox'[Len(inbox')] = [emsg |-> sent[i].emsg, req |-> i, job |-> sent[i].job,
                                    more |-> more, body |-> body]
           /\ answered' = IF more THEN answered ELSE answered \cup {i}
<1>1. PICK more \in BOOLEAN, body \in Bodies :
        /\ more => sent[i].emsg = "info"
        /\ body = "refused" => sent[i].emsg \notin {"tokens", "info"}
        /\ inbox' = Append(inbox, [emsg |-> sent[i].emsg, req |-> i, job |-> sent[i].job,
                                  more |-> more, body |-> body])
        /\ answered' = IF more THEN answered ELSE answered \cup {i}
  BY DEF Answer
<1>2. sent[i] \in Requests /\ i \in Nat
  <2>1. Len(sent) \in Nat
    BY DEF TypeOK
  <2>2. i \in Nat
    BY <2>1
  <2> QED
    BY <2>2, RequestFacts
<1>3. [emsg |-> sent[i].emsg, req |-> i, job |-> sent[i].job,
       more |-> more, body |-> body] \in Frames
  BY <1>2 DEF Frames, Requests
<1>4. Len(inbox) \in Nat
  BY DEF TypeOK
<1> QED
  BY <1>1, <1>3, <1>4, AppendProperties DEF TypeOK

\* A message nobody asked for is the newest frame on the wire, and no reply.
LEMMA UnsolicitedFacts ==
  ASSUME TypeOK, Unsolicited
  PROVE  /\ Len(inbox) \in Nat /\ Len(inbox') = Len(inbox) + 1
         /\ \A n \in 1..Len(inbox) : inbox'[n] = inbox[n]
         /\ ~ IsReply(inbox'[Len(inbox')])
<1>1. PICK e \in {"other", "bad"} : inbox' = Append(inbox, [emsg |-> e])
  BY DEF Unsolicited
<1>2. [emsg |-> e] \in Frames
  BY DEF Frames
<1>3. Len(inbox) \in Nat
  BY DEF TypeOK
<1>4. inbox'[Len(inbox')] = [emsg |-> e]
  BY <1>1, <1>2, <1>3, AppendProperties DEF TypeOK
<1> QED
  BY <1>1, <1>2, <1>3, <1>4, AppendProperties DEF TypeOK, IsReply, Stages

\* Frames go on carrying the type and job id of their request.
LEMMA FramesStep ==
  CallsInv /\ [Next]_vars => FramesInv'
<1> SUFFICES ASSUME CallsInv, [Next]_vars
             PROVE  FramesInv'
  OBVIOUS
<1>t. TypeOK /\ FramesInv /\ Len(inbox) \in Nat /\ Len(sent) \in Nat
  BY DEF CallsInv, TypeOK
<1> SUFFICES ASSUME NEW n \in 1..Len(inbox'), IsReply(inbox'[n])
             PROVE  RepliesInOrder(n)'
  BY DEF FramesInv, IsReply
<1>1. CASE Send
  <2>1. inbox' = inbox /\ answered' = answered
    BY <1>1 DEF Send
  <2>2. RepliesInOrder(n)
    BY <1>t, <2>1 DEF FramesInv
  <2> QED
    BY <1>1, <1>t, <2>1, <2>2, SendFacts DEF RepliesInOrder, IsReply
<1>2. CASE Take /\ UNCHANGED <<sent, answered, peer>>
  <2>1. inbox'[n] = inbox[n + 1] /\ n + 1 \in 1..Len(inbox)
    BY <1>2, <1>t, TakeFacts
  <2>2. \A m \in n + 1..Len(inbox') : inbox'[m] = inbox[m + 1] /\ m + 1 \in (n + 1) + 1..Len(inbox)
    BY <1>2, <1>t, TakeFacts
  <2>3. RepliesInOrder(n + 1)
    BY <1>t, <2>1 DEF FramesInv
  <2> QED
    BY <1>2, <2>1, <2>2, <2>3 DEF RepliesInOrder, IsReply
<1>3. ASSUME NEW i \in 1..Len(sent), Answer(i) PROVE RepliesInOrder(n)'
  <2>1. i \notin answered /\ sent' = sent
    BY <1>3 DEF Answer
  <2>2. sent[i].emsg \in Stages /\ sent[i].job \in Nat
    BY <1>t, RequestFacts
  <2>3. PICK more \in BOOLEAN, body \in Bodies :
           /\ more => sent[i].emsg = "info"
           /\ body = "refused" => sent[i].emsg \notin {"tokens", "info"}
           /\ Len(inbox) \in Nat /\ Len(inbox') = Len(inbox) + 1
           /\ \A k \in 1..Len(inbox) : inbox'[k] = inbox[k]
           /\ inbox'[Len(inbox')] = [emsg |-> sent[i].emsg, req |-> i, job |-> sent[i].job,
                                    more |-> more, body |-> body]
           /\ answered' = IF more THEN answered ELSE answered \cup {i}
    BY <1>3, <1>t, AnswerFacts, Zenon
  <2>4. CASE n = Len(inbox')
    BY <1>t, <2>1, <2>2, <2>3, <2>4 DEF RepliesInOrder
  <2>5. CASE n \in 1..Len(inbox)
    <3>1. inbox'[n] = inbox[n] /\ RepliesInOrder(n)
      BY <1>t, <2>3, <2>5 DEF FramesInv, IsReply
    <3>2. ~ inbox[n].more => \A m \in n + 1..Len(inbox') :
            IsReply(inbox'[m]) => inbox'[m].req # inbox[n].req
      <4>1. SUFFICES ASSUME ~ inbox[n].more, NEW m \in n + 1..Len(inbox'), IsReply(inbox'[m])
                     PROVE  inbox'[m].req # inbox[n].req
        OBVIOUS
      <4>2. CASE m = Len(inbox')
        BY <2>1, <2>3, <3>1, <4>1, <4>2 DEF RepliesInOrder
      <4>3. CASE m \in n + 1..Len(inbox)
        BY <2>3, <2>5, <3>1, <4>1, <4>3, <1>t DEF RepliesInOrder
      <4> QED
        BY <1>t, <2>3, <2>5, <4>1, <4>2, <4>3
    <3> QED
      BY <2>1, <2>3, <3>1, <3>2 DEF RepliesInOrder, IsReply
  <2> QED
    BY <1>t, <2>3, <2>4, <2>5
<1>4. CASE Unsolicited
  <2>1. sent' = sent /\ answered' = answered
    BY <1>4 DEF Unsolicited
  <2>2. n \in 1..Len(inbox) /\ inbox'[n] = inbox[n]
    BY <1>4, <1>t, UnsolicitedFacts
  <2>3. RepliesInOrder(n)
    BY <1>t, <2>2 DEF FramesInv, IsReply
  <2> QED
    BY <1>4, <1>t, <2>1, <2>2, <2>3, UnsolicitedFacts DEF RepliesInOrder, IsReply
<1>5. CASE UNCHANGED <<inbox, sent, answered>>
  <2>1. RepliesInOrder(n)
    BY <1>5, <1>t DEF FramesInv
  <2> QED
    BY <1>5, <2>1 DEF RepliesInOrder, IsReply
<1> QED
  BY <1>1, <1>2, <1>3, <1>4, <1>5, <1>t, WireSteps

-----------------------------------------------------------------------------
(* The call under way *)

\* The response a call takes is to its own request: always if it is matched by
\* job id, and otherwise until a call was cut short.
LEMMA OwnResponse ==
  ASSUME CallsInv, Take, Expected(Head(inbox)), stage = "service" \/ ~ last.cut
  PROVE  Head(inbox).req = req /\ RepliesInOrder(1) /\ Head(inbox) = inbox[1]
<1>1. TypeOK /\ phase = "wait"
  BY DEF CallsInv, Take
<1>2. Head(inbox) = inbox[1] /\ 1 \in 1..Len(inbox)
  BY <1>1, TakeFacts
<1>3. IsReply(inbox[1]) /\ inbox[1].emsg = stage
  BY <1>1, <1>2 DEF Expected, IsReply, TypeOK
<1>4. RepliesInOrder(1)
  BY <1>2, <1>3 DEF CallsInv, FramesInv
<1>5. req \in 1..Len(sent) /\ sent[req].emsg = stage /\ sent[req].job = job
  BY <1>1 DEF CallsInv, CallInv
<1>6. inbox[1].req \in 1..Len(sent) /\ sent[inbox[1].req].emsg = stage
      /\ sent[inbox[1].req].job = inbox[1].job
  BY <1>3, <1>4 DEF RepliesInOrder
<1>7. CASE stage = "service"
  <2>1. inbox[1].job = job
    BY <1>2, <1>7 DEF Expected
  <2> QED
    BY <1>2, <1>4, <1>5, <1>6, <1>7, <2>1 DEF CallsInv, JobsInv
<1>8. CASE stage # "service" /\ ~ last.cut
  <2>1. ASSUME inbox[1].req # req PROVE FALSE
    <3>1. Over(inbox[1].req)
      BY <1>6, <1>8, <2>1 DEF CallsInv, LeftoverInv
    <3> QED
      BY <1>2, <1>3, <3>1 DEF Over
  <2> QED
    BY <1>2, <1>4, <2>1
<1> QED
  BY <1>7, <1>8

\* A call waits for the response to its newest request, and a service call takes
\* in no other.
LEMMA CallStep ==
  CallsInv /\ [Next]_vars => CallInv'
<1> SUFFICES ASSUME CallsInv, [Next]_vars
             PROVE  CallInv'
  OBVIOUS
<1>t. TypeOK /\ CallInv /\ Len(sent) \in Nat
  BY DEF CallsInv, TypeOK
<1>1. ASSUME NEW o \in Op, Start(o) PROVE CallInv'
  <2>1. /\ op' = o /\ stage' = FirstStage(o) /\ phase' = "send" /\ stray' = FALSE
    BY <1>1 DEF Start
  <2> QED
    BY <2>1, FirstStageFacts DEF CallInv, IsServiceCall
<1>2. CASE Send
  <2>1. /\ req' = Len(sent') /\ Len(sent') = Len(sent) + 1
        /\ sent'[req'].emsg = stage /\ sent'[req'].job = job'
    BY <1>2, <1>t, SendFacts
  <2>2. /\ phase = "send" /\ phase' = "wait"
        /\ UNCHANGED <<op, stage, stray, last>>
    BY <1>2 DEF Send
  <2> QED
    BY <1>t, <2>1, <2>2 DEF CallInv, IsServiceCall
<1>3. CASE SendFails \/ RecvBad \/ RecvError \/ RecvClosed \/ Timeout \/ Drop
  <2>1. PICK error \in Outcomes \ {"none", "ok"} : Fail(error)
    BY <1>3, DropFacts DEF SendFails, RecvBad, RecvError, RecvClosed, Timeout, Outcomes
  <2>2. phase # "idle" /\ UNCHANGED <<op, stray>>
    BY <1>3 DEF SendFails, RecvBad, RecvError, RecvClosed, Timeout, Drop, Take
  <2>3. /\ stage' = stage
        /\ phase' \in {"idle", "sleep"}
        /\ last'.result = "ok" => last' = last /\ phase' = "sleep"
    BY <1>t, <2>1, FailFacts
  <2> QED
    BY <1>t, <2>2, <2>3 DEF CallInv, IsServiceCall
<1>4. CASE RecvReply
  <2>1. /\ Take /\ Expected(Head(inbox)) /\ phase = "wait"
        /\ stray' = (stray \/ Head(inbox).req # req)
        /\ UNCHANGED <<op, req, job, sent>>
    BY <1>4 DEF RecvReply, Take
  <2>2. IsServiceCall => ~ stray'
    BY <1>t, <2>1, OwnResponse DEF CallInv
  <2>3. CASE stage = "tokens"
    <3>1. stage' = "info" /\ phase' = "send"
      BY <1>4, <2>3 DEF RecvReply
    <3> QED
      BY <1>t, <2>1, <2>2, <2>3, <3>1 DEF CallInv, IsServiceCall
  <2>4. CASE stage # "tokens" /\ phase' = "wait"
    <3>1. stage' = stage /\ last' = last
      BY <1>4, <2>4 DEF RecvReply
    <3> QED
      BY <1>t, <2>1, <2>2, <2>4, <3>1 DEF CallInv, IsServiceCall
  <2>5. CASE stage # "tokens" /\ phase' # "wait"
    <3>1. stage' = stage /\ phase' = "idle" /\ last'.stray = stray'
      BY <1>4, <1>t, <2>1, <2>5 DEF RecvReply, TypeOK
    <3> QED
      BY <1>t, <2>1, <2>2, <2>5, <3>1 DEF CallInv, IsServiceCall
  <2> QED
    BY <2>3, <2>4, <2>5
<1>5. CASE \/ RecvSkip \/ Unsolicited \/ HangUp \/ Congestion \/ UNCHANGED vars
           \/ \E i \in 1..Len(sent) : Answer(i)
  <2>1. UNCHANGED <<phase, op, stage, req, job, stray, last, sent>>
    BY <1>5 DEF RecvSkip, Unsolicited, HangUp, Congestion, Answer, vars, client
  <2> QED
    BY <1>t, <2>1 DEF CallInv, IsServiceCall
<1>6. CASE Wake
  <2>1. phase = "sleep" /\ phase' = "send" /\ UNCHANGED <<op, stage, stray, last>>
    BY <1>6 DEF Wake
  <2> QED
    BY <1>t, <2>1 DEF CallInv, IsServiceCall
<1> QED
  BY <1>1, <1>2, <1>3, <1>4, <1>5, <1>6 DEF Next, Client, CM, Settled

-----------------------------------------------------------------------------
(* Requests that nothing more is read for *)

\* A request that is over stays over.
LEMMA OverStays ==
  ASSUME CallsInv, [Next]_vars, NEW i \in 1..Len(sent), Over(i)
  PROVE  Over(i)'
<1>t. TypeOK /\ Len(inbox) \in Nat
  BY DEF CallsInv, TypeOK
<1>1. CASE \/ Send
           \/ UNCHANGED <<inbox, sent, answered>> /\ (peer = "down" => peer' = "down")
  <2>1. UNCHANGED <<inbox, answered>> /\ (peer = "down" => peer' = "down")
    BY <1>1 DEF Send
  <2> QED
    BY <2>1 DEF Over, IsReply
<1>2. CASE Take /\ UNCHANGED <<sent, answered, peer>>
  <2>1. \A n \in 1..Len(inbox') : inbox'[n] = inbox[n + 1] /\ n + 1 \in 1..Len(inbox)
    BY <1>2, <1>t, TakeFacts
  <2> QED
    BY <1>2, <2>1 DEF Over, IsReply
<1>3. ASSUME NEW k \in 1..Len(sent), Answer(k) PROVE Over(i)'
  <2>1. k # i /\ peer' = peer
    BY <1>3 DEF Answer, CanArrive, Over
  <2>2. /\ Len(inbox') = Len(inbox) + 1
        /\ \A n \in 1..Len(inbox) : inbox'[n] = inbox[n]
        /\ inbox'[Len(inbox')].req = k
        /\ answered \subseteq answered'
    <3>1. PICK more \in BOOLEAN, body \in Bodies :
             /\ Len(inbox') = Len(inbox) + 1
             /\ \A n \in 1..Len(inbox) : inbox'[n] = inbox[n]
             /\ inbox'[Len(inbox')] = [emsg |-> sent[k].emsg, req |-> k, job |-> sent[k].job,
                                      more |-> more, body |-> body]
             /\ answered' = IF more THEN answered ELSE answered \cup {k}
      BY <1>3, <1>t, AnswerFacts
    <3> QED
      BY <3>1
  <2> QED
    BY <1>t, <2>1, <2>2 DEF Over, IsReply
<1>4. CASE Unsolicited
  <2>1. UNCHANGED <<answered, peer>>
    BY <1>4 DEF Unsolicited
  <2> QED
    BY <1>4, <1>t, <2>1, UnsolicitedFacts DEF Over, IsReply
<1> QED
  BY <1>1, <1>2, <1>3, <1>4, <1>t, WireSteps

\* The last frame of the response is taken: its request is over.
LEMMA LastFrame ==
  ASSUME CallsInv, Take, UNCHANGED answered, RepliesInOrder(1), ~ inbox[1].more,
         NEW i, i = inbox[1].req
  PROVE  Over(i)'
<1>1. \A n \in 1..Len(inbox') : inbox'[n] = inbox[n + 1] /\ n + 1 \in 1 + 1..Len(inbox)
  <2>1. /\ \A n \in 1..Len(inbox') : inbox'[n] = inbox[n + 1] /\ n + 1 \in 1..Len(inbox)
        /\ Len(inbox) \in Nat /\ Len(inbox') = Len(inbox) - 1
    BY TakeFacts DEF CallsInv
  <2> QED
    BY <2>1
<1> QED
  BY <1>1 DEF RepliesInOrder, Over, IsReply

\* As long as no call is cut short, a call that ends
\* leaves no answer behind.
LEMMA LeftoverStep ==
  CallsInv /\ [Next]_vars => LeftoverInv'
<1> SUFFICES ASSUME CallsInv, [Next]_vars, ~ last'.cut
             PROVE  /\ \A i \in 1..Len(sent') :
                         sent'[i].emsg # "service" /\ ~ (phase' = "wait" /\ i = req') => Over(i)'
                    /\ ~ stray'
                    /\ last'.result = "ok" => ~ last'.stray
  BY DEF LeftoverInv
<1>t. TypeOK /\ CallInv /\ LeftoverInv /\ Len(sent) \in Nat
  BY DEF CallsInv, TypeOK
\* A step that leaves the requests and the wait alone.
<1>r. ASSUME sent' = sent, ~ last.cut,
             phase = "wait" /\ stage # "service" =>
               (phase' = "wait" /\ req' = req) \/ (\A i : i = req => Over(i)')
      PROVE  \A i \in 1..Len(sent') :
               sent'[i].emsg # "service" /\ ~ (phase' = "wait" /\ i = req') => Over(i)'
  <2>1. SUFFICES ASSUME NEW i \in 1..Len(sent), sent[i].emsg # "service",
                        ~ (phase' = "wait" /\ i = req')
                 PROVE  Over(i)'
    BY <1>r
  <2>2. CASE phase = "wait" /\ i = req
    <3>1. stage # "service"
      BY <1>t, <2>1, <2>2 DEF CallInv
    <3> QED
      BY <1>r, <2>1, <2>2, <3>1
  <2>3. CASE ~ (phase = "wait" /\ i = req)
    BY <1>r, <1>t, <2>1, <2>3, OverStays DEF LeftoverInv
  <2> QED
    BY <2>2, <2>3
<1>1. ASSUME NEW o \in Op, Start(o) PROVE LeftoverInv'
  <2>1. phase = "idle" /\ stray' = FALSE /\ UNCHANGED <<sent, last>>
    BY <1>1 DEF Start
  <2> QED
    BY <1>r, <1>t, <2>1 DEF LeftoverInv
<1>2. CASE Send
  <2>1. phase = "send" /\ phase' = "wait" /\ UNCHANGED <<stray, last>>
    BY <1>2 DEF Send
  <2>2. /\ req' = Len(sent') /\ Len(sent') = Len(sent) + 1
        /\ \A k \in 1..Len(sent) : sent'[k] = sent[k]
    BY <1>2, <1>t, SendFacts
  <2>3. ASSUME NEW i \in 1..Len(sent'), sent'[i].emsg # "service",
               ~ (phase' = "wait" /\ i = req')
        PROVE  Over(i)'
    <3>1. i \in 1..Len(sent) /\ sent[i].emsg # "service"
      BY <1>t, <2>1, <2>2, <2>3
    <3>2. Over(i)
      BY <1>t, <2>1, <3>1 DEF LeftoverInv
    <3> QED
      BY <3>1, <3>2, OverStays
  <2> QED
    BY <1>t, <2>1, <2>3 DEF LeftoverInv
<1>3. CASE SendFails
  <2>1. phase = "send" /\ Fail("websocket") /\ UNCHANGED <<stray, sent>>
    BY <1>3 DEF SendFails
  <2>2. ~ last.cut /\ (last'.result = "ok" => last' = last)
    BY <1>t, <2>1, FailFacts DEF Outcomes
  <2> QED
    BY <1>r, <1>t, <2>1, <2>2 DEF LeftoverInv
\* A frame that cannot be read, or a body that does not decode, ends the call
\* cut.
<1>4. CASE RecvBad \/ (RecvError /\ Head(inbox).body # "refused")
  <2>1. Fail("decode")
    BY <1>4 DEF RecvBad, RecvError
  <2>2. last'.cut = TRUE
    BY <1>t, <2>1, FailFacts DEF Outcomes, is_cm_retryable
  <2> QED
    BY <2>2
<1>11. CASE Drop
  <2>1. last'.cut = TRUE
    BY <1>11, <1>t, DropFacts, FailFacts DEF Outcomes, is_cm_retryable
  <2> QED
    BY <2>1
<1>5. CASE RecvError /\ Head(inbox).body = "refused"
  <2>1. /\ Fail("eresult") /\ Take /\ Expected(Head(inbox))
        /\ UNCHANGED <<stray, sent, answered>>
    BY <1>5 DEF RecvError
  <2>2. ~ last.cut /\ last'.result # "ok"
    BY <1>t, <2>1, FailFacts DEF Outcomes, is_cm_retryable
  <2>3. Head(inbox).req = req /\ RepliesInOrder(1) /\ Head(inbox) = inbox[1]
    BY <2>1, <2>2, OwnResponse
  <2>4. ~ inbox[1].more
    BY <1>5, <2>3 DEF RepliesInOrder
  <2>5. \A i : i = req => Over(i)'
    BY <2>1, <2>3, <2>4, LastFrame
  <2> QED
    BY <1>r, <1>t, <2>1, <2>2, <2>5 DEF LeftoverInv
<1>6. CASE RecvReply
  <2>1. /\ Take /\ Expected(Head(inbox)) /\ UNCHANGED <<req, sent, answered>>
        /\ phase = "wait" /\ stray' = (stray \/ Head(inbox).req # req)
    BY <1>6 DEF RecvReply, Take
  <2>2. last'.cut = last.cut /\ (last'.result = "ok" => last' = last \/ last'.stray = stray')
    BY <1>6, <1>t DEF RecvReply, TypeOK
  <2>3. Head(inbox).req = req /\ RepliesInOrder(1) /\ Head(inbox) = inbox[1]
    BY <2>1, <2>2, OwnResponse
  <2>4. phase' = "wait" \/ ~ inbox[1].more
    <3>1. inbox[1].emsg = stage
      BY <2>1, <2>3 DEF Expected
    <3> QED
      BY <1>6, <2>1, <2>3, <3>1 DEF RecvReply, RepliesInOrder
  <2>5. phase' = "wait" \/ (\A i : i = req => Over(i)')
    BY <2>1, <2>3, <2>4, LastFrame
  <2>6. ~ last.cut /\ ~ stray' /\ (last'.result = "ok" => ~ last'.stray)
    BY <1>t, <2>1, <2>2, <2>3 DEF LeftoverInv
  <2> QED
    BY <1>r, <2>1, <2>5, <2>6
<1>7. CASE RecvClosed
  <2>1. PICK error \in {"closed", "websocket"} : Fail(error)
    BY <1>7 DEF RecvClosed
  <2>2. /\ inbox = <<>> /\ peer = "down" /\ UNCHANGED <<inbox, peer, stray, sent>>
    BY <1>7 DEF RecvClosed
  <2>3. ~ last.cut /\ (last'.result = "ok" => last' = last)
    BY <1>t, <2>1, FailFacts DEF Outcomes
  <2>4. \A i : Over(i)'
    BY <2>2 DEF Over
  <2> QED
    BY <1>r, <1>t, <2>2, <2>3, <2>4 DEF LeftoverInv
<1>8. CASE Timeout
  <2>1. stage = "service" /\ Fail("timeout") /\ UNCHANGED <<stray, sent>>
    BY <1>8 DEF Timeout
  <2>2. ~ last.cut /\ (last'.result = "ok" => last' = last)
    BY <1>t, <2>1, FailFacts DEF Outcomes
  <2> QED
    BY <1>r, <1>t, <2>1, <2>2 DEF LeftoverInv
<1>9. CASE \/ RecvSkip \/ Unsolicited \/ HangUp \/ Congestion \/ UNCHANGED vars
           \/ \E i \in 1..Len(sent) : Answer(i)
  <2>1. UNCHANGED <<phase, req, stray, last, sent>>
    BY <1>9 DEF RecvSkip, Unsolicited, HangUp, Congestion, Answer, vars, client
  <2> QED
    BY <1>r, <1>t, <2>1 DEF LeftoverInv
<1>10. CASE Wake
  <2>1. phase = "sleep" /\ UNCHANGED <<stray, last, sent>>
    BY <1>10 DEF Wake
  <2> QED
    BY <1>r, <1>t, <2>1 DEF LeftoverInv
<1> QED
  BY <1>1, <1>2, <1>3, <1>4, <1>5, <1>6, <1>7, <1>8, <1>9, <1>10, <1>11
  DEF Next, Client, CM, Settled, LeftoverInv

-----------------------------------------------------------------------------
(* The theorems *)

\* On a new connection nothing was sent and no call was made.
LEMMA CallsInit ==
  Init => CallsInv
<1> SUFFICES ASSUME Init
             PROVE  CallsInv
  OBVIOUS
<1>1. Len(sent) = 0 /\ Len(inbox) = 0
  BY DEF Init
<1>2. FirstStage(op) \in Stages /\ (FirstStage(op) = "service" <=> IsServiceCall)
  BY FirstStageFacts DEF Init, IsServiceCall
<1>3. TypeOK
  <2>1. inbox \in Seq(Frames) /\ sent \in Seq(Requests)
    BY EmptySeq DEF Init
  <2>2. req \in 0..Len(sent) /\ job \in 0..(next_job_id - 1) /\ next_job_id \in Nat \ {0}
    BY <1>1 DEF Init
  <2>3. attempt \in 0..CM_RETRIES /\ calls \in 0..MaxCalls /\ answered \subseteq 1..Len(sent)
    BY CallsAssumption DEF Init
  <2>4. last \in [result : Outcomes, of : Op, stray : BOOLEAN, cut : BOOLEAN]
    BY DEF Init, Outcomes
  <2> QED
    BY <1>2, <2>1, <2>2, <2>3, <2>4 DEF Init, TypeOK
<1>4. JobsInv /\ FramesInv
  BY <1>1 DEF JobsInv, FramesInv
<1>5. CallInv /\ LeftoverInv
  BY <1>1, <1>2 DEF Init, CallInv, LeftoverInv
<1> QED
  BY <1>3, <1>4, <1>5 DEF CallsInv

\* CallsInv holds of every state of the connection.
THEOREM CallsInvariance ==
  Spec => []CallsInv
<1>1. Init => CallsInv
  BY CallsInit
<1>2. CallsInv /\ [Next]_vars => CallsInv'
  BY TypeStep, JobsStep, FramesStep, CallStep, LeftoverStep DEF CallsInv
<1> QED
  BY <1>1, <1>2, PTL DEF Spec

\* connection.rs: a service call that succeeds returns the response to its own
\* last request, however late, often or out of order the CM answers.
THEOREM ServiceAnswers ==
  Spec => []ServiceAnswerIsOwn
<1>1. CallsInv => ServiceAnswerIsOwn
  BY DEF CallsInv, CallInv, ServiceAnswerIsOwn
<1> QED
  BY <1>1, CallsInvariance, PTL

\* pics.rs: until a call is cut short, a call matched
\* by message type alone also takes its own answer.
THEOREM Answers ==
  Spec => []AnswerIsOwn
<1>1. CallsInv => AnswerIsOwn
  BY DEF CallsInv, LeftoverInv, AnswerIsOwn
<1> QED
  BY <1>1, CallsInvariance, PTL

=============================================================================
