\* Two connections of one client, one request each, with a limit of one.
SPECIFICATION Spec
CONSTANTS
  r1 = r1
  r2 = r2
  p1 = p1
  p2 = p2
  b1 = b1
  b2 = b2
  Requests = {r1, r2}
  Clients <- OneClient
  ClientOf <- TwoOf
  IpOf <- SameIp
  Inputs <- HeadsInUse
  Workloads <- PlainOnly
  ServerNames <- ThreeServers
  BackendsOf <- SharedBackends
  Backends = {b1, b2}
  LimiterOn = TRUE
  MaxRequests = 1
  Window = 2
  MaxDelay = 1
  MinInstant <- JustBeforeStart
  MaxClock = 2
  MaxRetries = 0
  NoRoute = "no route"
INVARIANTS
  LimitPerClientIP
