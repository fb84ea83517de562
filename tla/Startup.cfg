\* Up to two upstreams and two servers; every fault of the global section.
SPECIFICATION Spec
CONSTANTS
  x = x
  y = y
  up1 = up1
  up2 = up2
  good = good
  other = other
  bad = bad
  unset = unset
  ServerNames = {x, y}
  UpstreamNames = {up1, up2}
  Backends = {good, other, bad}
  BadBackends = {bad}
  Unset = unset
  Configs <- SomeConfigs
INVARIANTS
  IInv
  ServesWellFormed
  ErrorIsReal
  RoutesAsConfigured
