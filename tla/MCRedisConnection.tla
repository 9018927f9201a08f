------------------------- MODULE MCRedisConnection -------------------------
(* Model-checking instance of RedisConnection: three addresses.           *)
EXTENDS RedisConnection
CONSTANTS i1, i2, i3
MCIps == {i1, i2, i3}
====
