\* Store client: the reconnect path that runs connect() from inside ev_run.
CONSTANTS
    i1 = i1  i2 = i2  i3 = i3
    Ips <- MCIps  MaxDnsChanges = 1  MaxFails = 0
SPECIFICATION Spec
INVARIANT NoLoopDestroyedInRun
