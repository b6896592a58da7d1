------------------------------- MODULE MCWorker ------------------------------
(* Small fleets: two processes, a slot or two, a camera or two. *)
EXTENDS Worker, TLC

CONSTANTS i1, i2, s1, s2, u1, u2

Two == {i1, i2}
\* Two processes for one name: a paused one and its replacement.
SameName == [i \in Instances |-> s1]
\* One process was told its name, the other takes what it finds.
Mixed == [i \in Instances |-> IF i = i1 THEN NoSlot ELSE s1]
==============================================================================
