\* More chunks than permits, one without a checksum; two servers share a host.
SPECIFICATION Spec
CONSTANTS
  h1 = h1
  h2 = h2
  Host = {h1, h2}
  NServers = 3
  HostOf <- SharedHost
  NJobs = 3
  MaxConcurrent = 2
  MAX_RETRIES = 1
  Unchecked = {3}
INVARIANTS
DownloadInv
ProgressHonest
PenaltySpread
PROPERTIES
ImplementsContract
