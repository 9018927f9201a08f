CONSTANTS
    Keys <- MCKeys
    Classes <- MCClasses
    Nums <- MCNums
    Ttl = 1
    BatchCount = 2
    QueueSize = 1
    MaxTime = 4
    OtherDatagrams <- MCOtherDatagrams
    BufferLen = 64
    MaxEmits = 2
SPECIFICATION Spec
INVARIANT CountsConserved
PROPERTY BufferedEventuallyResolved
PROPERTY BucketsRefined
