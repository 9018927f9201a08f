--------------------------- MODULE MCWeirFilter ---------------------------
(* Model-checking instance of WeirFilter: two stream slots, two users.     *)
EXTENDS WeirFilter, TLC

CONSTANTS s1, s2, u1, u2

MCStreams == {s1, s2}
MCUsers == {u1, u2}

\* Home buckets of the user keys: u1 in the first bucket, an empty one before u2's.
MCHome == [u \in Users |-> IF u = u1 THEN 0 ELSE 2]

\* u1 and u2 in the first two buckets: a call that emits u1 and then runs
\* out of room resumes at u2's bucket.
MCHomeAdjacent == [u \in Users |-> IF u = u1 THEN 0 ELSE 1]

\* User-key samples: always a key, or also a failed fetch.
MCKeys == Users
MCKeysOrNone == Users \cup {NoUser}

\* activate-weir lines: all three samples and an ACL condition, or only an
\* operation-direction, which the parser accepts as well.
MCRuleArgs == <<"user-key", "expr", "operation-class", "expr",
                "operation-direction", "expr", "if", "expr">>
MCRuleArgsNoKey == <<"operation-direction", "expr", "if", "expr">>

\* Streams are interchangeable, and so are users.
Symmetry == Permutations(MCStreams) \cup Permutations(MCUsers)

\* For the configurations with a single user.
StreamSymmetry == Permutations(MCStreams)
====
