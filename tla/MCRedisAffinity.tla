-------------------------- MODULE MCRedisAffinity --------------------------
(* RedisAffinity with the values TLC checks it for: a chain of two blocks,  *)
(* a chain that shares the first of them, and an unrelated one.             *)
EXTENDS RedisAffinity

CONSTANTS g1, g2, a, b, c

TwoHosts == {g1, g2}
ThreeBlocks == {a, b, c}
SharedPrefix == {<<a, b>>, <<a>>, <<c>>}
SameClock == [h \in TwoHosts |-> 0]
\* The second machine was started two ticks before the first.
OtherUptime == [h \in TwoHosts |-> IF h = g1 THEN 0 ELSE 2]
=============================================================================
