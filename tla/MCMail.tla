------------------------------- MODULE MCMail -------------------------------
(***************************************************************************)
(* Small instances of the way a guard code takes: the mail server          *)
(* (SteamMail), the reading of one mail (MailText), and the flow that      *)
(* waits for the code (AuthFlow), to which the mailbox is a queue of       *)
(* codes.  A behaviour runs one of them and leaves the others at their     *)
(* start: part says which.                                                 *)
(*                                                                         *)
(* Two connections bring two mails, of up to two lines, to a channel for   *)
(* two items.  Mails to be read have up to three of the lines below.  The  *)
(* mailbox is empty at the start or holds codes of an earlier attempt.     *)
(***************************************************************************)
EXTENDS SteamMail, MailText

CONSTANTS s1, s2, TextLines, Flows, Inboxes, Interval, Silence

VARIABLES part, lines, decoded, code, link,
          flow, heartbeats, pc, conn, error, key, guard_code, inbox, slept,
          steamKey, guard, confirmed, silent

-----------------------------------------------------------------------------
(* The reading of one mail *)

text == <<lines, decoded, code, link>>

Guard == <<"K", "3", "D", "A", "K">>
GuardI == <<"i", "3", "D", "A", "K">>
Word == <<"K", "K", "K", "K", "K">>
Url(hex) == <<"host", "verify", "=">> \o hex
Links == {"bare link", "html link"}
Labels == {"labelled", "labelled i"}
OwnLines == {"own line", "own line i"}
LineKinds == Links \cup Labels \cup OwnLines \cup {"about", "sentence"}

UrlOf(kind) == Url(IF kind = "bare link" THEN <<"D", "A">> ELSE <<"3", "A">>)

CodeOf(kind) == IF kind \in {"labelled i", "own line i"} THEN GuardI
                ELSE IF kind = "about" THEN Word ELSE Guard

Text(kind) ==
  CASE kind \in Labels -> <<"K", "code", " ", "i", "s", ":", " ">> \o CodeOf(kind)
    [] kind \in OwnLines -> <<" ">> \o CodeOf(kind) \o <<" ">>
    [] kind = "about" -> <<"code", " ">> \o Word
    [] kind = "sentence" -> <<High, "=", " ", "code", ".">>
    [] kind = "html link" -> <<"<", "K", "=", Quote>> \o UrlOf(kind) \o <<Quote, ">", "K">>
    [] OTHER -> UrlOf(kind)

Mail(ls) == FlattenSeq([i \in DOMAIN ls |-> Text(ls[i]) \o <<NL>>])

TextInit ==
  /\ lines \in IF part = "text" THEN UNION {[1..n -> LineKinds] : n \in 1..TextLines} ELSE {<<>>}
  /\ decoded = <<>> /\ code = NotFound /\ link = NotFound

\* What the server reads of a mail in quoted-printable, with a soft break
\* anywhere.
Read(t) ==
  LET d == Decode(t)
      c == extract_guard_code(d)
  IN /\ decoded = <<>>
     /\ decoded' = d
     /\ code' = c
     /\ link' = IF c = NotFound THEN extract_verification_link(d) ELSE NotFound
     /\ UNCHANGED lines

Has(kinds) == \E i \in DOMAIN lines : lines[i] \in kinds
FirstOf(kinds) ==
  lines[CHOOSE i \in DOMAIN lines : lines[i] \in kinds /\ \A j \in 1..i - 1 : lines[j] \notin kinds]

\* A mail sent as quoted-printable decodes to what was written, byte by byte,
\* wherever the sender broke its lines.
TextDecoded == decoded # <<>> => decoded = ByteByByte(Mail(lines))

\* Wherever in the mail it is, the first five-letter word after "code" or "code
\* is:" that does not begin with I or S is read; if there is none, the first
\* line that is nothing but such a word, and it may begin with them.  A mail
\* without either gives its first link, without its quotes, or nothing.
TextRead ==
  decoded # <<>> =>
    /\ code = IF Has({"labelled", "about"}) THEN CodeOf(FirstOf({"labelled", "about"}))
              ELSE IF Has(OwnLines) THEN CodeOf(FirstOf(OwnLines))
              ELSE NotFound
    /\ link = IF code = NotFound /\ Has(Links) THEN UrlOf(FirstOf(Links)) ELSE NotFound

-----------------------------------------------------------------------------
(* The authentication flow *)

StaleInboxes == {<<>>, <<"old">>, <<"old", "old">>}

Auth == INSTANCE AuthFlow WITH code <- guard_code

ASSUME FlowAssumption == Auth!AuthAssumption

auth == <<flow, heartbeats, pc, conn, error, key, guard_code, inbox, slept,
          steamKey, guard, confirmed, silent>>

AuthInit ==
  /\ Auth!Init
  /\ part # "auth" => flow = "direct" /\ heartbeats = FALSE /\ inbox = <<>>

-----------------------------------------------------------------------------

MCInit == part \in {"server", "text", "auth"} /\ Init /\ TextInit /\ AuthInit

MCNext ==
  /\ UNCHANGED part
  /\ \/ part = "server" /\ Next /\ UNCHANGED <<text, auth>>
     \/ part = "text" /\ (\E p \in 0..Len(Mail(lines)) : Read(Encode(Mail(lines), p)))
        /\ UNCHANGED <<vars, auth>>
     \/ part = "auth" /\ Auth!Next /\ UNCHANGED <<vars, text>>

MCSpec ==
  /\ MCInit /\ [][MCNext]_<<part, vars, text, auth>>
  /\ Fairness
  /\ WF_auth(part = "auth" /\ Auth!Caller) /\ WF_auth(part = "auth" /\ Auth!Tick)
  /\ WF_auth(part = "auth" /\ Auth!MailCode) /\ WF_auth(part = "auth" /\ Auth!Confirm)

AuthInv == Auth!AuthInv
FlowEnds == part = "auth" => Auth!FlowEnds

=============================================================================
