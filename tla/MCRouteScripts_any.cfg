SPECIFICATION AllSpec
CONSTANTS
  Endpoints <- AllCalls
  AnyKernel = TRUE
  Runners = {r1, r2}
  Hosts = {h1}
SYMMETRY Alike
INVARIANTS
  RestTraffic
  PathsCarried
  SetupsConverge
  HostsRestricted
PROPERTIES
  DnsStays
