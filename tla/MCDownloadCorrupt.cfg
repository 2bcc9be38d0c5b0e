\* A corrupt chunk, against the protocol notes.
SPECIFICATION Spec
CONSTANTS
  h1 = h1
  h2 = h2
  Host = {h1, h2}
  NServers = 2
  HostOf <- TwoHosts
  NJobs = 2
  MaxConcurrent = 2
  MAX_RETRIES = 3
  Unchecked = {}
INVARIANTS
  CorruptRetried
