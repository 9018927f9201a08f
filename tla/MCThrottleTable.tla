-------------------------- MODULE MCThrottleTable --------------------------
(* Model-checking instance of ThrottleTable.                              *)
EXTENDS ThrottleTable, TLC
CONSTANTS c1, c2, k1, k2, p1, p2

\* One worker thread.
OneIp == [c \in {c1} |-> p1]
\* No worker threads.
NoConn == [c \in {} |-> p1]
\* Two worker threads, each serving its own client ip:port.
OwnIp == [c \in {c1, c2} |-> IF c = c1 THEN p1 ELSE p2]
\* Two worker threads whose connections have the same client ip:port.
SharedIp == [c \in {c1, c2} |-> p1]

\* diff_ratio 2.0 and 1.5.
MCRatios == {<<2, 1>>, <<3, 2>>}
MCRatio2 == {<<2, 1>>}
MCRatio32 == {<<3, 2>>}

KeySymmetry == Permutations({k1, k2})
====
