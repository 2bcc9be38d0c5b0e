\* Two sessions of two mails and a channel of two; mails of three lines; every flow.
SPECIFICATION MCSpec
CONSTANTS
  s1 = s1
  s2 = s2
  Session = {s1, s2}
  Capacity = 2
  MaxMails = 2
  MaxLines = 2
  TextLines = 3
  Flows = {"password", "passwordless", "direct"}
  Inboxes <- StaleInboxes
  Interval = 2
  Silence = 3
\* nothing is left to do after the last mail, reading or poll
CHECK_DEADLOCK FALSE
INVARIANTS
MailInv
TextDecoded
TextRead
AuthInv
PROPERTIES
MailGetsThrough
FlowEnds
