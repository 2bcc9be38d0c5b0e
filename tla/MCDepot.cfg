\* Two calls and a login between them; or two depots to fetch, then chunks.
SPECIFICATION MCSpec
CONSTANTS
  h1 = h1
  h2 = h2
  a1 = a1
  a2 = a2
  m1 = m1
  m2 = m2
  None = None
  NotADepot = NotADepot
  Unreadable = Unreadable
  NServers = 3
  Host = {h1, h2}
  HostOf <- Hosts
  NDepots = 2
  Preferred <- SecondAndThird
  MANIFEST_RETRIES = 3
  Expiries = {1, 3}
  MaxTime = 2
  App = {a1, a2}
  AppInfos <- Infos
  OS = {"linux", "windows"}
  Branch = {"public", "beta"}
  MaxCalls = 2
  MaxLogins = 1
INVARIANTS
FetchInv
TokensServed
ChunkTokenIsOwn
LicenceInv
PlanInv
PROPERTIES
FetchEnds
