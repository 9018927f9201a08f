\* Throttle table: one thread asking rl_speed_throttle while policies of one
\* key arrive in both directions and the clock jumps through policy ages
\* 0, 1, 2, 3 and past the 120 s stale age; the sweeper runs throughout.
CONSTANTS
    c1 = c1  c2 = c2  k1 = k1  k2 = k2  p1 = p1  p2 = p2
    Conns = {c1}  IpPorts = {p1}  ConnIp <- OneIp  Keys = {k1}
    Ratios <- MCRatio32  EpochUsecs = {750000, 1040000}  UsecSamples = {400000}
    Seconds = {0, 1, 3, 130}  MaxCount = 2
SPECIFICATION Spec
INVARIANT TypeOK AllowedRunTimeBounded
PROPERTY StalePoliciesSwept
