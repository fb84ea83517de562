\* Two requests of a client on one connection, with a limit of one.
SPECIFICATION Spec
CONSTANTS
  r1 = r1
  r2 = r2
  p1 = p1
  p2 = p2
  b1 = b1
  b2 = b2
  Requests = {r1, r2}
  Clients = {p1}
  ClientOf <- SameOf
  IpOf <- SameIp
  Inputs <- HeadsInUse
  Workloads <- PlainAndAll
  ServerNames <- ThreeServers
  BackendsOf <- SharedBackends
  Backends = {b1, b2}
  LimiterOn = TRUE
  MaxRequests = 1
  Window = 2
  MaxDelay = 1
  MinInstant <- JustBeforeStart
  MaxClock = 1
  MaxRetries = 1
  NoRoute = "no route"
INVARIANTS
  IInv
  ForwardedWasAdmitted
  HealthNeverLimited
  NoBlindRetry
  StaysOnRoute
  DocumentedStatus
PROPERTIES
  OneStatus
  ImplementsExchange
