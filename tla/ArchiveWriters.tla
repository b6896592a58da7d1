---------------------------- MODULE ArchiveWriters ---------------------------
(***************************************************************************)
(* What the archive is promised about its writers, without slots, leases,  *)
(* assignments, passes or a store that fails: a camera's epochs are        *)
(* numbers issued once each, a process writes a camera only under a number *)
(* that was issued to it, and a process that gives a number up stops       *)
(* writing under it first.  Module Worker is shown to implement this.      *)
(***************************************************************************)
EXTENDS Naturals

CONSTANTS Instances, Units

VARIABLES issued,   \* the last epoch of each unit
          holds,    \* the epoch each process holds for a unit, 0 if none
          writing   \* the epoch each process writes a unit under, 0 if it does not

vars == <<issued, holds, writing>>

None == [u \in Units |-> 0]

Init == /\ issued = None
        /\ holds = [i \in Instances |-> None]
        /\ writing = [i \in Instances |-> None]

\* A new number for a process that does not write the unit at the moment.
Issue(i, u) ==
  /\ writing[i][u] = 0
  /\ issued' = [issued EXCEPT ![u] = @ + 1]
  /\ holds' = [holds EXCEPT ![i][u] = issued'[u]]
  /\ UNCHANGED writing

\* A number that nobody will ever write under.
Waste(u) ==
  /\ issued' = [issued EXCEPT ![u] = @ + 1]
  /\ UNCHANGED <<holds, writing>>

\* Writing starts, or starts again, under the number the process holds.
Begin(i, u) ==
  /\ holds[i][u] # 0
  /\ writing' = [writing EXCEPT ![i][u] = holds[i][u]]
  /\ UNCHANGED <<issued, holds>>

\* A process stops writing some units and gives up the numbers of some of them.
Retreat(i, stopped, released) ==
  /\ released \subseteq stopped
  /\ writing' = [writing EXCEPT ![i] = [u \in Units |-> IF u \in stopped THEN 0 ELSE @[u]]]
  /\ holds' = [holds EXCEPT ![i] = [u \in Units |-> IF u \in released THEN 0 ELSE @[u]]]
  /\ UNCHANGED issued

Next == \/ \E u \in Units : Waste(u)
        \/ \E i \in Instances, u \in Units : Issue(i, u) \/ Begin(i, u)
        \/ \E i \in Instances, stopped, released \in SUBSET Units :
             Retreat(i, stopped, released)

Spec == Init /\ [][Next]_vars
==============================================================================
