\* Store client: three addresses, up to three DNS changes and three failures;
\* connect-callback assertion and eventual connection to the current address.
CONSTANTS
    i1 = i1  i2 = i2  i3 = i3
    Ips <- MCIps  MaxDnsChanges = 3  MaxFails = 3
SPECIFICATION Spec
INVARIANT CtxMatchesStatus
PROPERTY ConnectedToCurrentIp
