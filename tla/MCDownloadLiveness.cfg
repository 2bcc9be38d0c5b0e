\* Two tasks at once, with the number of retries of the code.
SPECIFICATION FairSpec
CONSTANTS
  h1 = h1
  h2 = h2
  Host = {h1, h2}
  NServers = 3
  HostOf <- SharedHost
  NJobs = 2
  MaxConcurrent = 2
  MAX_RETRIES = 3
  Unchecked = {}
INVARIANTS
TransientRetried
PROPERTIES
FailureReported
ComesToRest
