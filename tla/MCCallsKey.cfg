\* Two depot keys in a row, a frame between them does not decode.
SPECIFICATION Spec
CONSTANTS
  code = code
  poll = poll
  info = info
  licence = licence
  key1 = key1
  key2 = key2
  KindOf <- KindOfOp
  CM_RETRIES = 1
  MaxInbox = 2
  Op = {key1, key2}
  MaxCalls = 2
INVARIANTS
KeyIsForItsDepot
