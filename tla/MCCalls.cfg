\* Every kind of call, late, garbled and missing answers.
SPECIFICATION FairSpec
CONSTANTS
  code = code
  poll = poll
  info = info
  licence = licence
  key1 = key1
  key2 = key2
  KindOf <- KindOfOp
  CM_RETRIES = 1
  MaxInbox = 2
  Op = {code, poll, info, licence, key1}
  MaxCalls = 2
INVARIANTS
ServiceAnswerIsOwn
AnswerIsOwn
PROPERTIES
ServiceCallReturns
