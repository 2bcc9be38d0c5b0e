------------------------------ MODULE AuthFlow ------------------------------
(***************************************************************************)
(* The authentication flow of steamdepot/src/auth.rs and login.rs: connect *)
(* and log on anonymously, fetch the RSA key, begin an auth session, submit*)
(* a guard code from the mailbox (SteamMail), poll until Steam hands out   *)
(* tokens.  Each service call is one step here (CmCalls has its inside);   *)
(* it answers, or its error ends the flow: no call is tried again, so a    *)
(* key or a code that Steam refuses is the end of it.  Time passes while   *)
(* the caller waits for a code and while poll_auth_status sleeps, and      *)
(* Steam hangs up on a connection that is silent for too long.             *)
(***************************************************************************)
EXTENDS Naturals, Sequences

CONSTANTS
  Flows,      \* "password", "passwordless", "direct" (no logon before)
  Inboxes,    \* codes that wait in the mailbox at the start
  Interval,   \* AuthSession::interval, in ticks
  Silence     \* ticks after which Steam hangs up

AuthAssumption ==
  /\ Interval \in Nat \ {0} /\ Silence \in Nat \ {0}
  /\ Inboxes \subseteq Seq({"old", "new"})

VARIABLES
  flow,
  heartbeats, \* the caller starts the heartbeat on the connection it got
  pc,
  conn,       \* "none", "open", "on" (logged on), "lost"
  error,
  key,        \* the RSA key fetched; 0 before
  code,       \* the code in hand
  inbox,      \* codes received by the mail server
  slept,      \* ticks since the last poll
  \* Steam's side
  steamKey,   \* its RSA key
  guard,      \* the auth session wants a code: "none", "wanted", "mailed", "passed"
  confirmed,  \* it would hand out tokens
  silent      \* ticks since it heard from the connection

caller == <<flow, heartbeats, pc, conn, error, key, code, inbox, slept>>
steam == <<steamKey, guard, confirmed>>
vars == <<caller, steam, silent>>

Calls == {"rsa", "begin", "submit", "poll"}
Waits == {"code", "sleep"}

TypeOK ==
  /\ flow \in Flows /\ heartbeats \in BOOLEAN
  /\ pc \in {"start", "logon", "tokens", "failed"} \cup Calls \cup Waits
  /\ conn \in {"none", "open", "on", "lost"}
  /\ error \in {"none", "call", "lost", "no session", "stale key", "stale code"}
  /\ key \in 0..2 /\ steamKey \in 1..2
  /\ code \in {"none", "old", "new"}
  /\ slept \in 0..Interval /\ silent \in 0..Silence
  /\ guard \in {"none", "wanted", "mailed", "passed"}
  /\ confirmed \in BOOLEAN
  /\ (pc \in Calls \cup Waits /\ flow # "direct") => conn \in {"on", "lost"}

Init ==
  /\ flow \in Flows /\ heartbeats \in BOOLEAN
  /\ pc = "start" /\ conn = "none" /\ error = "none"
  /\ key = 0 /\ code = "none" /\ slept = 0
  /\ inbox \in Inboxes
  /\ steamKey = 1 /\ guard = "none" /\ confirmed = FALSE
  /\ silent = 0

Fail(why) ==
  /\ pc' = "failed" /\ error' = why
  /\ UNCHANGED <<flow, heartbeats, conn, key, code, inbox, slept, steam, silent>>

\* a call on a connection whose session is set, and that Steam answers
Call(name) == pc = name /\ conn = "on" /\ silent' = 0

(***************************************************************************)
(* auth::begin, begin_passwordless.                                        *)
(***************************************************************************)
\* Slip: the anonymous logon is left out.
ConnectOnly ==
  /\ pc = "start"
  /\ conn' = "open"
  /\ pc' = IF flow = "passwordless" THEN "begin" ELSE "rsa"
  /\ UNCHANGED <<flow, heartbeats, error, key, code, inbox, slept, steam, silent>>

Connect ==
  /\ pc = "start"
  /\ conn' = "open"
  /\ pc' = IF flow = "direct" THEN "rsa" ELSE "logon"
  /\ UNCHANGED <<flow, heartbeats, error, key, code, inbox, slept, steam, silent>>

LogonAnonymous ==
  /\ pc = "logon"
  /\ conn' = "on" /\ silent' = 0
  /\ pc' = IF flow = "passwordless" THEN "begin" ELSE "rsa"
  /\ UNCHANGED <<flow, heartbeats, error, key, code, inbox, slept, steam>>

GetRsaKey ==
  /\ Call("rsa")
  /\ key' = steamKey /\ pc' = "begin"
  /\ UNCHANGED <<flow, heartbeats, conn, error, code, inbox, slept, steam>>

\* the password is under the key whose timestamp is sent; Steam refuses an old key
Refused == flow # "passwordless" /\ key # steamKey

BeginRefused == pc = "begin" /\ conn = "on" /\ Refused /\ Fail("stale key")

BeginSession ==
  /\ Call("begin") /\ ~ Refused
  /\ \E g \in {"none", "wanted"} :
       guard' = g /\ pc' = IF g = "wanted" THEN "code" ELSE "poll"
  /\ UNCHANGED <<flow, heartbeats, conn, error, key, code, inbox, slept, steamKey, confirmed>>

(***************************************************************************)
(* The caller, with the mail server, which hands out the codes of earlier  *)
(* attempts before the right one.                                          *)
(***************************************************************************)
RecvCode ==
  /\ pc = "code" /\ inbox # <<>>
  /\ code' = inbox[1] /\ inbox' = Tail(inbox)
  /\ pc' = "submit"
  /\ UNCHANGED <<flow, heartbeats, conn, error, key, slept, steam, silent>>

SubmitGuard ==
  /\ Call("submit") /\ code = "new"
  /\ guard' = "passed" /\ pc' = "poll"
  /\ UNCHANGED <<flow, heartbeats, conn, error, key, code, inbox, slept, steamKey, confirmed>>

\* Steam's eresult is an error to the caller
CodeRefused == pc = "submit" /\ conn = "on" /\ code # "new" /\ Fail("stale code")

(***************************************************************************)
(* poll_auth_status.                                                       *)
(***************************************************************************)
\* Slip: an empty token is taken.
PollTakesAny ==
  /\ Call("poll")
  /\ slept' = 0 /\ pc' = "tokens"
  /\ UNCHANGED <<flow, heartbeats, conn, error, key, code, inbox, steam>>

Poll ==
  /\ Call("poll")
  /\ slept' = 0
  /\ pc' = IF confirmed THEN "tokens" ELSE "sleep"
  /\ UNCHANGED <<flow, heartbeats, conn, error, key, code, inbox, steam>>

WakeUp ==
  /\ pc = "sleep" /\ slept = Interval
  /\ pc' = "poll"
  /\ UNCHANGED <<flow, heartbeats, conn, error, key, code, inbox, slept, steam, silent>>

(***************************************************************************)
(* Calls that do not come back, time, and Steam.                           *)
(***************************************************************************)
CallFails == (pc \in {"start", "logon"} \/ (pc \in Calls /\ conn = "on")) /\ Fail("call")
NoSession == pc \in Calls /\ conn = "open" /\ Fail("no session")
ConnectionLost == pc \in Calls /\ conn = "lost" /\ Fail("lost")

\* a timer that is due fires before time goes on
Tick ==
  /\ pc \in Waits /\ (pc = "sleep" => slept < Interval)
  /\ slept' = IF slept < Interval THEN slept + 1 ELSE slept
  /\ silent' = IF conn = "on" /\ ~ heartbeats /\ silent < Silence THEN silent + 1 ELSE silent
  /\ UNCHANGED <<flow, heartbeats, pc, conn, error, key, code, inbox, steam>>

HangUp ==
  /\ conn = "on" /\ silent = Silence
  /\ conn' = "lost"
  /\ UNCHANGED <<flow, heartbeats, pc, error, key, code, inbox, slept, steam, silent>>

MailCode ==
  /\ guard = "wanted"
  /\ guard' = "mailed" /\ inbox' = Append(inbox, "new")
  /\ UNCHANGED <<flow, heartbeats, pc, conn, error, key, code, slept, steamKey, confirmed, silent>>

Confirm ==
  /\ ~ confirmed
  /\ guard = "passed" \/ (guard = "none" /\ pc \in {"poll", "sleep"})
  /\ confirmed' = TRUE
  /\ UNCHANGED <<caller, steamKey, guard, silent>>

RotateKey ==
  /\ steamKey = 1
  /\ steamKey' = 2
  /\ UNCHANGED <<caller, guard, confirmed, silent>>

Caller ==
  \/ Connect \/ LogonAnonymous \/ GetRsaKey \/ BeginSession \/ BeginRefused
  \/ RecvCode \/ SubmitGuard \/ CodeRefused
  \/ Poll \/ WakeUp
  \/ NoSession \/ ConnectionLost

Next == Caller \/ CallFails \/ Tick \/ HangUp \/ MailCode \/ Confirm \/ RotateKey

Spec == Init /\ [][Next]_vars

\* The caller runs and its calls are answered, time passes, the mail comes and
\* the user confirms: poll_auth_status asks as long as that takes.
LiveSpec ==
  Spec /\ WF_vars(Caller) /\ WF_vars(Tick) /\ WF_vars(MailCode) /\ WF_vars(Confirm)

-----------------------------------------------------------------------------

\* Tokens are returned only from an auth session that Steam confirmed, after
\* the guard code when it wanted one.
TokensAreConfirmed == pc = "tokens" => confirmed /\ guard \in {"none", "passed"}

\* Every flow comes to an end.  One after a logon that keeps its heartbeat going
\* is not ended by its connection or session, however long the code takes, nor
\* by a refused code if the mailbox was empty when it began, nor by a refused
\* key unless Steam changed it meanwhile.
FlowEnds ==
  /\ <>(pc \in {"tokens", "failed"})
  /\ (heartbeats /\ flow # "direct") =>
       /\ [](error \notin {"lost", "no session"})
       /\ inbox = <<>> => [](error # "stale code")
       /\ [](error = "stale key" => steamKey = 2)

\* Tokens are confirmed, and every value has its type.
AuthInv == TypeOK /\ TokensAreConfirmed

=============================================================================
