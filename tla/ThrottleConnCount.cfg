\* Connection counts: one thread setting and ending keys for its ip:port.
CONSTANTS
    c1 = c1  c2 = c2  k1 = k1  k2 = k2  p1 = p1  p2 = p2
    Conns = {c1}  IpPorts = {p1}  ConnIp <- OneIp  Keys = {k1, k2}
    Ratios <- MCRatio2  EpochUsecs = {750000}  UsecSamples = {100000}
    Seconds = {0}  MaxCount = 2
SPECIFICATION Spec
INVARIANT ConnCountMatchesMap
