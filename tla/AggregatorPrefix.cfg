CONSTANTS
    Keys <- MCKeys
    Classes <- MCClasses
    Nums <- MCNums
    Ttl = 1
    BatchCount = 2
    QueueSize = 2
    MaxTime = 4
    OtherDatagrams <- MCOtherDatagrams
    BufferLen = 64
    MaxEmits = 1
SPECIFICATION Spec
INVARIANT EventsReachTheirHandler
