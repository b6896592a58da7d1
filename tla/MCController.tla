--------------------------- MODULE MCController ------------------------------
(* Values for the constants of Controller: one thread or two, two workers or *)
(* three of different capacity, and which methods are called.                *)
EXTENDS Controller
CONSTANTS t1, t2, t3

One == {t1}
Two == {t1, t2}

Pair == 1..2
Trio == 1..3
Uneven == [w \in Workers |-> IF w = 1 THEN 1 ELSE 2]
\* The server of worker 1 does not reach the first camera.
FirstElsewhere == [u \in Units |-> IF u = 1 THEN Workers \ {1} ELSE Workers]

Placing == {"create"}
ScalingIn == {"create", "slots"}
Everything == {"create", "update", "delete", "move", "rebalance", "retire", "slots"}
==============================================================================
