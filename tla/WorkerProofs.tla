---------------------------- MODULE WorkerProofs ----------------------------
(***************************************************************************)
(* What holds of the worker's loop for any number of processes, slots and  *)
(* cameras, any preferences, moves and faults, and without a bound on      *)
(* epochs: the types, that a pipeline writes under the epoch its process   *)
(* holds, that no two processes write a camera under one epoch, and that   *)
(* the archive gets the writers it was promised (ArchiveWriters).          *)
(*                                                                         *)
(* The argument.  Epochs are issued by adding one, so the number a process *)
(* is given is above all that are held (HeldByOne), and a pipeline carries *)
(* the number its process holds (PipelineHoldsItsEpoch).  The second is    *)
(* inductive with LeasePerEpoch and PassIsAboutUnits, which tie the loop's *)
(* work lists to what is held; the first follows from the steps of         *)
(* ArchiveWriters alone, to which every step of the worker is mapped.      *)
(***************************************************************************)
EXTENDS Worker, TLAPS

\* What one process keeps about itself (reconcile, Lease, fence).
LocalInv == PipelineHoldsItsEpoch /\ LeasePerEpoch /\ PassIsAboutUnits

\* fence() leaves the reason, the pipelines and the reconciler well typed.
LEMMA FenceType ==
  ASSUME NEW i \in Instances, NEW reason \in {"slot", "lease"},
         ReconcilerType, ActuatorType, Fence(i, reason)
  PROVE  /\ why' \in [Instances -> {"none", "slot", "lease"}]
         /\ pipe' \in [Instances -> [Units -> Nat]]
         /\ actual' \in [Instances -> [Units -> Nat]]
<1>1. CASE why[i] = "none"
  <2>1. None \in [Units -> Nat]
    BY DEF None
  <2>2. /\ why' = [why EXCEPT ![i] = reason]
        /\ pipe' = [pipe EXCEPT ![i] = None] /\ actual' = [actual EXCEPT ![i] = None]
    BY <1>1 DEF Fence
  <2>3. why' \in [Instances -> {"none", "slot", "lease"}]
    BY <2>2 DEF ActuatorType
  <2>4. pipe' \in [Instances -> [Units -> Nat]]
    BY <2>1, <2>2 DEF ActuatorType
  <2>5. actual' \in [Instances -> [Units -> Nat]]
    BY <2>1, <2>2 DEF ReconcilerType
  <2> QED BY <2>3, <2>4, <2>5
<1>2. CASE why[i] # "none"
  BY <1>2 DEF Fence, ReconcilerType, ActuatorType
<1> QED BY <1>1, <1>2

\* lease_pass, having let go of the units in done, either fences or stops just
\* the pipelines of those; either way what it leaves is well typed.
LEMMA JudgeType ==
  ASSUME NEW i \in Instances, ReconcilerType, ActuatorType, Judge(i)
  PROVE  /\ why' \in [Instances -> {"none", "slot", "lease"}]
         /\ pipe' \in [Instances -> [Units -> Nat]]
         /\ actual' \in [Instances -> [Units -> Nat]]
<1>1. PICK done \in SUBSET (lost[i] \ listed[me[i]]) :
        \/ Fence(i, "lease")
        \/ /\ pipe' = [pipe EXCEPT ![i] = [u \in Units |-> IF u \in done THEN 0 ELSE @[u]]]
           /\ actual' = [actual EXCEPT ![i] = [u \in Units |-> IF u \in done THEN 0 ELSE @[u]]]
           /\ UNCHANGED why
  BY DEF Judge
<1>2. CASE Fence(i, "lease")
  BY <1>2, FenceType
<1>3. CASE ~Fence(i, "lease")
  <2>1. pipe' = [pipe EXCEPT ![i] = [u \in Units |-> IF u \in done THEN 0 ELSE pipe[i][u]]]
    BY <1>1, <1>3
  <2>2. actual' = [actual EXCEPT ![i] = [u \in Units |-> IF u \in done THEN 0 ELSE actual[i][u]]]
    BY <1>1, <1>3
  <2>3. why' = why
    BY <1>1, <1>3
  <2>4. /\ [u \in Units |-> IF u \in done THEN 0 ELSE pipe[i][u]] \in [Units -> Nat]
        /\ [u \in Units |-> IF u \in done THEN 0 ELSE actual[i][u]] \in [Units -> Nat]
    BY DEF ReconcilerType, ActuatorType
  <2> QED BY <2>1, <2>2, <2>3, <2>4 DEF ReconcilerType, ActuatorType
<1> QED BY <1>2, <1>3

\* The types hold before any process is started.
LEMMA TypeInit == Init => TypeOK
BY WorkerAssumption DEF Init, TypeOK, StoreType, LoopType, ReconcilerType, TokenType, ActuatorType, HistoryType, None, PcState, SlotRow, CamRow

\* Every step of run(), of the controller and of the world keeps the types.
LEMMA TypeStep == TypeOK /\ [Next]_vars => TypeOK'
<1> USE WorkerAssumption
<1> SUFFICES ASSUME TypeOK, [Next]_vars PROVE TypeOK'
  OBVIOUS
<1> USE DEF TypeOK, StoreType, LoopType, ReconcilerType, TokenType, ActuatorType, HistoryType, PcState, SlotRow, CamRow, Alive, Goto, None
<1>1. ASSUME NEW i \in Instances, ClaimRead(i) PROVE TypeOK'
  BY <1>1 DEF ClaimRead, Candidates, Alive, store, local, history, reconciler, tokens, actuator
<1>2. ASSUME NEW i \in Instances, ClaimPut(i) PROVE TypeOK'
  BY <1>2 DEF ClaimPut, WriteSlot, store, local, history, reconciler, tokens, actuator
<1>3. ASSUME NEW i \in Instances, ClaimConflict(i) PROVE TypeOK'
  BY <1>3 DEF ClaimConflict, store, local, history, reconciler, tokens, actuator
<1>4. ASSUME NEW i \in Instances, Refresh(i) PROVE TypeOK'
  BY <1>4 DEF Refresh, store, local, history, reconciler, tokens, actuator
<1>5. ASSUME NEW i \in Instances, StopLoop(i) PROVE TypeOK'
  BY <1>5 DEF StopLoop, store, local, history, reconciler, tokens, actuator
<1>6. ASSUME NEW i \in Instances, SlotRead(i) PROVE TypeOK'
  <2>1. StoreType' /\ LoopType' /\ TokenType' /\ HistoryType'
    BY <1>6 DEF SlotRead, Superseded, store, local, history, reconciler, tokens, actuator
  <2>2. ReconcilerType'
    BY <1>6, FenceType DEF SlotRead, store, local, history, reconciler, tokens, actuator
  <2>3. ActuatorType'
    BY <1>6, FenceType DEF SlotRead, store, local, history, reconciler, tokens, actuator
  <2> QED BY <2>1, <2>2, <2>3
<1>7. ASSUME NEW i \in Instances, SlotWrite(i) PROVE TypeOK'
  BY <1>7 DEF SlotWrite, WriteSlot, store, local, history, reconciler, tokens, actuator
<1>8. ASSUME NEW i \in Instances, SlotConflict(i) PROVE TypeOK'
  <2>1. StoreType' /\ LoopType' /\ TokenType' /\ HistoryType'
    BY <1>8 DEF SlotConflict, store, local, history, reconciler, tokens, actuator
  <2>2. ReconcilerType'
    BY <1>8, FenceType DEF SlotConflict, store, local, history, reconciler, tokens, actuator
  <2>3. ActuatorType'
    BY <1>8, FenceType DEF SlotConflict, store, local, history, reconciler, tokens, actuator
  <2> QED BY <2>1, <2>2, <2>3
<1>9. ASSUME NEW i \in Instances, RenewedAll(i) PROVE TypeOK'
  BY <1>9 DEF RenewedAll, store, local, history, reconciler, tokens, actuator
<1>10. ASSUME NEW i \in Instances, Judge(i) PROVE TypeOK'
  <2>1. StoreType' /\ LoopType' /\ TokenType' /\ HistoryType'
    BY <1>10 DEF Judge, store, local, history, reconciler, tokens, actuator
  <2>2. ReconcilerType'
    BY <1>10, JudgeType DEF Judge, store, local, history, reconciler, tokens, actuator
  <2>3. ActuatorType'
    BY <1>10, JudgeType DEF Judge, store, local, history, reconciler, tokens, actuator
  <2> QED BY <2>1, <2>2, <2>3
<1>11. ASSUME NEW i \in Instances, Beat(i) PROVE TypeOK'
  BY <1>11 DEF Beat, store, local, history, reconciler, tokens, actuator
<1>12. ASSUME NEW i \in Instances, Raise(i) PROVE TypeOK'
  BY <1>12 DEF Raise, NeedsEpoch, store, local, history, reconciler, tokens, actuator
<1>13. ASSUME NEW i \in Instances, Crash(i) PROVE TypeOK'
  BY <1>13 DEF Crash, Vanish, Fault, store, local, history, reconciler, tokens, actuator
<1>14. ASSUME NEW i \in Instances, Stop(i) PROVE TypeOK'
  BY <1>14 DEF Stop, Fault, store, local, history, reconciler, tokens, actuator
<1>15. ASSUME NEW i \in Instances, ReleaseRead(i) PROVE TypeOK'
  BY <1>15 DEF ReleaseRead, store, local, history, reconciler, tokens, actuator
<1>16. ASSUME NEW i \in Instances, ReleaseWrite(i) PROVE TypeOK'
  BY <1>16 DEF ReleaseWrite, WriteSlot, store, local, history, reconciler, tokens, actuator
<1>17. ASSUME NEW i \in Instances, Exit(i) PROVE TypeOK'
  BY <1>17 DEF Exit, Vanish, store, local, history, reconciler, tokens, actuator
<1>18. ASSUME NEW i \in Instances, NEW u \in Units, BackOff(i, u) PROVE TypeOK'
  BY <1>18 DEF BackOff, store, local, history, reconciler, tokens, actuator
<1>19. ASSUME NEW i \in Instances, NEW u \in Units, RefuseStart(i, u) PROVE TypeOK'
  BY <1>19 DEF RefuseStart, store, local, history, reconciler, tokens, actuator
<1>20. ASSUME NEW i \in Instances, NEW u \in Units, TakeEpoch(i, u) PROVE TypeOK'
  BY <1>20 DEF TakeEpoch, NeedsEpoch, store, local, history, reconciler, tokens, actuator
<1>21. ASSUME NEW i \in Instances, NEW u \in Units, LoseEpoch(i, u) PROVE TypeOK'
  BY <1>21 DEF LoseEpoch, Fault, NeedsEpoch, store, local, history, reconciler, tokens, actuator
<1>22. ASSUME NEW i \in Instances, NEW u \in Units, KeepEpoch(i, u) PROVE TypeOK'
  BY <1>22 DEF KeepEpoch, NeedsEpoch, store, local, history, reconciler, tokens, actuator
<1>23. ASSUME NEW i \in Instances, NEW u \in Units, Gate(i, u) PROVE TypeOK'
  <2>1. StoreType' /\ LoopType' /\ TokenType' /\ HistoryType'
    BY <1>23 DEF Gate, Fault, store, local, history, reconciler, tokens, actuator
  <2>3. ReconcilerType'
    <3>1. actual' = actual \/ actual' = [actual EXCEPT ![i][u] = rows[i][u]]
      BY <1>23 DEF Gate
    <3>2. actual' \in [Instances -> [Units -> Nat]]
      <4>1. rows[i][u] \in Nat /\ actual[i] \in [Units -> Nat]
        OBVIOUS
      <4>2. [actual[i] EXCEPT ![u] = rows[i][u]] \in [Units -> Nat]
        BY <4>1
      <4> HIDE DEF ReconcilerType
      <4>3. actual \in [Instances -> [Units -> Nat]]
        BY DEF ReconcilerType
      <4> QED BY <3>1, <4>2, <4>3
    <3>3. failed' \in [Instances -> SUBSET Units]
      <4>1. \E f \in SUBSET Units : failed' = [failed EXCEPT ![i] = f]
        <5>1. failed[i] \ {u} \in SUBSET Units /\ failed[i] \cup {u} \in SUBSET Units
          OBVIOUS
        <5> QED BY <1>23, <5>1, ZenonT(60) DEF Gate
      <4> QED BY <4>1
    <3> QED BY <1>23, <3>2, <3>3 DEF Gate
  <2>2. ActuatorType'
    <3>1. CASE UNCHANGED pipe
      BY <1>23, <3>1 DEF Gate, store, local, history, reconciler, tokens, actuator
    <3>2. CASE pipe' = [pipe EXCEPT ![i][u] = held[i][u]]
      BY <1>23, <3>2 DEF Gate, store, local, history, reconciler, tokens, actuator
    <3>3. CASE pipe' = [pipe EXCEPT ![i][u] = 0]
      BY <1>23, <3>3 DEF Gate, store, local, history, reconciler, tokens, actuator
    <3> QED BY <1>23, <3>1, <3>2, <3>3 DEF Gate
  <2> QED BY <2>1, <2>2, <2>3
<1>24. ASSUME NEW i \in Instances, NEW u \in Units, Renew(i, u) PROVE TypeOK'
  BY <1>24 DEF Renew, store, local, history, reconciler, tokens, actuator
<1>25. ASSUME NEW i \in Instances, NEW u \in Units, Expire(i, u) PROVE TypeOK'
  BY <1>25 DEF Expire, Fault, store, local, history, reconciler, tokens, actuator
<1>26. ASSUME NEW i \in Instances, NEW u \in Units, Die(i, u) PROVE TypeOK'
  BY <1>26 DEF Die, Fault, store, local, history, reconciler, tokens, actuator
<1>27. ASSUME NEW i \in Instances, NEW due \in BOOLEAN, Pump(i, due) PROVE TypeOK'
  BY <1>27 DEF Pump, store, local, history, reconciler, tokens, actuator
<1>28. ASSUME NEW s \in Slots, Lapse(s) PROVE TypeOK'
  <2>1. LoopType' /\ ReconcilerType' /\ TokenType' /\ ActuatorType' /\ HistoryType'
    BY <1>28 DEF Lapse, Fault, store, local, history, reconciler, tokens, actuator
  <2>2. StoreType'
    <3>1. slot[s] \in SlotRow
      OBVIOUS
    <3>2. [slot[s] EXCEPT !.past = TRUE] \in SlotRow
      BY <3>1
    <3> QED BY <1>28, <3>2 DEF Lapse
  <2> QED BY <2>1, <2>2
<1>29. CASE StoreDown
  <2>1. StoreType'
    BY <1>29 DEF StoreDown, Fault, store, local, history, reconciler, tokens, actuator
  <2>2. LoopType'
    BY <1>29 DEF StoreDown, Fault, store, local, history, reconciler, tokens, actuator
  <2>3. ReconcilerType'
    BY <1>29 DEF StoreDown, Fault, store, local, history, reconciler, tokens, actuator
  <2>4. TokenType'
    BY <1>29 DEF StoreDown, Fault, store, local, history, reconciler, tokens, actuator
  <2>5. ActuatorType'
    BY <1>29 DEF StoreDown, Fault, store, local, history, reconciler, tokens, actuator
  <2>6. HistoryType'
    BY <1>29 DEF StoreDown, Fault, store, local, history, reconciler, tokens, actuator
  <2> QED BY <2>1, <2>2, <2>3, <2>4, <2>5, <2>6
<1>30. CASE StoreUp
  BY <1>30 DEF StoreUp, store, local, history, reconciler, tokens, actuator
<1>31. ASSUME NEW s \in Slots, NEW u \in Units, Reassign(s, u) PROVE TypeOK'
  BY <1>31 DEF Reassign, Move, store, local, history, reconciler, tokens, actuator
<1>32. ASSUME NEW u \in Units, NEW on \in BOOLEAN, Edit(u, on) PROVE TypeOK'
  BY <1>32 DEF Edit, Move, store, local, history, reconciler, tokens, actuator
<1>33. ASSUME NEW u \in Units, Remove(u) PROVE TypeOK'
  <2>1. LoopType' /\ ReconcilerType' /\ TokenType' /\ ActuatorType' /\ HistoryType'
    BY <1>33 DEF Remove, Move, store, local, history, reconciler, tokens, actuator
  <2>2. StoreType'
    <3>1. cam[u] \in CamRow
      OBVIOUS
    <3>2. [cam[u] EXCEPT !.on = FALSE] \in CamRow
      BY <3>1
    <3> QED BY <1>33, <3>2 DEF Remove
  <2> QED BY <2>1, <2>2
<1>34. ASSUME NEW s \in Slots, Retire(s) PROVE TypeOK'
  <2>1. LoopType' /\ ReconcilerType' /\ TokenType' /\ ActuatorType' /\ HistoryType'
    BY <1>34 DEF Retire, WriteSlot, Move, store, local, history, reconciler, tokens, actuator
  <2>2. StoreType'
    <3>1. slot[s] \in SlotRow
      OBVIOUS
    <3>2. [slot[s] EXCEPT !.released = TRUE] \in SlotRow
      BY <3>1
    <3> QED BY <1>34, <3>2 DEF Retire, WriteSlot
  <2> QED BY <2>1, <2>2
<1>35. CASE UNCHANGED vars
  BY <1>35 DEF vars, store, local, history, reconciler, tokens, actuator
<1>36. ASSUME NEW i \in Instances, Instance(i) PROVE TypeOK'
  <2>1. CASE Claim(i)
    BY <2>1, <1>1, <1>2, <1>3 DEF Claim
  <2>2. CASE Reconcile(i)
    BY <2>2, <1>4, <1>5, <1>18, <1>19, <1>20, <1>22, <1>23 DEF Reconcile
  <2>3. CASE LeasePass(i)
    BY <2>3, <1>6, <1>7, <1>8, <1>9, <1>10, <1>24 DEF LeasePass
  <2>4. CASE Leave(i)
    BY <2>4, <1>14, <1>15, <1>16, <1>17 DEF Leave
  <2>5. CASE \E due \in BOOLEAN : Pump(i, due)
    BY <2>5, <1>27
  <2> QED BY <1>36, <2>1, <2>2, <2>3, <2>4, <2>5, <1>11, <1>12 DEF Instance
<1>37. ASSUME Mishap PROVE TypeOK'
  BY <1>37, <1>13, <1>21, <1>25, <1>26, <1>28, <1>29, <1>30 DEF Mishap
<1>38. ASSUME Controller PROVE TypeOK'
  BY <1>38, <1>31, <1>32, <1>33, <1>34 DEF Controller
<1> QED
  BY <1>35, <1>36, <1>37, <1>38 DEF Next, Process

\* A pipeline stays under the epoch its process holds a lease for, through every
\* start, restart, stop, death, fence and renewal.
LEMMA LocalStep == TypeOK /\ LocalInv /\ [Next]_vars => LocalInv'
<1> SUFFICES ASSUME TypeOK, LocalInv, [Next]_vars PROVE LocalInv'
  OBVIOUS
<1> USE DEF LocalInv, PipelineHoldsItsEpoch, LeasePerEpoch, PassIsAboutUnits, Recording, None, Goto,
            TypeOK, LoopType, ReconcilerType, TokenType, ActuatorType
<1>1. ASSUME NEW i \in Instances, ClaimRead(i) PROVE LocalInv'
  BY <1>1 DEF ClaimRead, store, local, history, reconciler, tokens, actuator
<1>2. ASSUME NEW i \in Instances, ClaimPut(i) PROVE LocalInv'
  BY <1>2 DEF ClaimPut, WriteSlot, store, local, history, reconciler, tokens, actuator
<1>3. ASSUME NEW i \in Instances, ClaimConflict(i) PROVE LocalInv'
  BY <1>3 DEF ClaimConflict, store, local, history, reconciler, tokens, actuator
<1>4. ASSUME NEW i \in Instances, Refresh(i) PROVE LocalInv'
  BY <1>4 DEF Refresh, store, local, history, reconciler, tokens, actuator
<1>5. ASSUME NEW i \in Instances, StopLoop(i) PROVE LocalInv'
  BY <1>5 DEF StopLoop, store, local, history, reconciler, tokens, actuator
<1>6. ASSUME NEW i \in Instances, SlotRead(i) PROVE LocalInv'
  <2>1. UNCHANGED <<pipe, actual>> \/ (pipe' = [pipe EXCEPT ![i] = None] /\ actual' = [actual EXCEPT ![i] = None])
    BY <1>6 DEF SlotRead, Fence, reconciler
  <2>2. UNCHANGED <<held, lease, rows, todo, cur>>
    BY <1>6 DEF SlotRead, reconciler, tokens
  <2>3. \E p \in {"renew_slot", "beat"} : pc' = [pc EXCEPT ![i] = p]
    BY <1>6 DEF SlotRead
  <2>4. PipelineHoldsItsEpoch'
    <3>1. CASE UNCHANGED <<pipe, actual>>
      BY <2>2, <3>1
    <3>2. CASE pipe' = [pipe EXCEPT ![i] = None] /\ actual' = [actual EXCEPT ![i] = None]
      BY <2>2, <3>2
    <3> QED BY <2>1, <3>1, <3>2
  <2>6. LeasePerEpoch'
    BY <2>2
  <2>5. PassIsAboutUnits'
    BY <2>2, <2>3
  <2> QED BY <2>4, <2>5, <2>6
<1>7. ASSUME NEW i \in Instances, SlotWrite(i) PROVE LocalInv'
  BY <1>7 DEF SlotWrite, WriteSlot, store, local, history, reconciler, tokens, actuator
<1>8. ASSUME NEW i \in Instances, SlotConflict(i) PROVE LocalInv'
  <2>1. UNCHANGED <<pipe, actual>> \/ (pipe' = [pipe EXCEPT ![i] = None] /\ actual' = [actual EXCEPT ![i] = None])
    BY <1>8 DEF SlotConflict, Fence
  <2>2. UNCHANGED <<held, lease, rows, todo, cur>>
    BY <1>8 DEF SlotConflict, tokens
  <2>3. pc' = [pc EXCEPT ![i] = "beat"]
    BY <1>8 DEF SlotConflict
  <2>4. PipelineHoldsItsEpoch'
    <3>1. CASE UNCHANGED <<pipe, actual>>
      BY <2>2, <3>1
    <3>2. CASE pipe' = [pipe EXCEPT ![i] = None] /\ actual' = [actual EXCEPT ![i] = None]
      BY <2>2, <3>2
    <3> QED BY <2>1, <3>1, <3>2
  <2>5. LeasePerEpoch'
    BY <2>2
  <2>6. PassIsAboutUnits'
    BY <2>2, <2>3
  <2> QED BY <2>4, <2>5, <2>6
<1>9. ASSUME NEW i \in Instances, RenewedAll(i) PROVE LocalInv'
  BY <1>9 DEF RenewedAll, store, local, history, reconciler, tokens, actuator
<1>10. ASSUME NEW i \in Instances, Judge(i) PROVE LocalInv'
  BY <1>10 DEF Judge, Fence, store, local, history, reconciler, tokens, actuator
<1>11. ASSUME NEW i \in Instances, Beat(i) PROVE LocalInv'
  BY <1>11 DEF Beat, store, local, history, reconciler, tokens, actuator
<1>12. ASSUME NEW i \in Instances, Raise(i) PROVE LocalInv'
  BY <1>12 DEF Raise, store, local, history, reconciler, tokens, actuator
<1>13. ASSUME NEW i \in Instances, Crash(i) PROVE LocalInv'
  BY <1>13 DEF Crash, Vanish, store, local, history, reconciler, tokens, actuator
<1>14. ASSUME NEW i \in Instances, Stop(i) PROVE LocalInv'
  BY <1>14 DEF Stop, store, local, history, reconciler, tokens, actuator
<1>15. ASSUME NEW i \in Instances, ReleaseRead(i) PROVE LocalInv'
  BY <1>15 DEF ReleaseRead, store, local, history, reconciler, tokens, actuator
<1>16. ASSUME NEW i \in Instances, ReleaseWrite(i) PROVE LocalInv'
  BY <1>16 DEF ReleaseWrite, WriteSlot, store, local, history, reconciler, tokens, actuator
<1>17. ASSUME NEW i \in Instances, Exit(i) PROVE LocalInv'
  BY <1>17 DEF Exit, Vanish, store, local, history, reconciler, tokens, actuator
<1>18. ASSUME NEW i \in Instances, NEW u \in Units, BackOff(i, u) PROVE LocalInv'
  BY <1>18 DEF BackOff, store, local, history, reconciler, tokens, actuator
<1>19. ASSUME NEW i \in Instances, NEW u \in Units, RefuseStart(i, u) PROVE LocalInv'
  BY <1>19 DEF RefuseStart, store, local, history, reconciler, tokens, actuator
<1>20. ASSUME NEW i \in Instances, NEW u \in Units, TakeEpoch(i, u) PROVE LocalInv'
  <2>1. PipelineHoldsItsEpoch'
    BY <1>20 DEF TakeEpoch, NeedsEpoch, store, local, history, reconciler, tokens, actuator
  <2>2. LeasePerEpoch'
    <3>1. epoch[u] \in Nat
      BY DEF StoreType
    <3>2. held' = [held EXCEPT ![i][u] = epoch[u] + 1] /\ epoch[u] + 1 # 0
      BY <1>20, <3>1 DEF TakeEpoch, StoreType
    <3> QED BY <1>20, <3>2 DEF TakeEpoch
  <2>3. PassIsAboutUnits'
    BY <1>20 DEF TakeEpoch, NeedsEpoch, store, local, history, reconciler, tokens, actuator
  <2> QED BY <2>1, <2>2, <2>3
<1>21. ASSUME NEW i \in Instances, NEW u \in Units, LoseEpoch(i, u) PROVE LocalInv'
  BY <1>21 DEF LoseEpoch, NeedsEpoch, store, local, history, reconciler, tokens, actuator
<1>22. ASSUME NEW i \in Instances, NEW u \in Units, KeepEpoch(i, u) PROVE LocalInv'
  BY <1>22 DEF KeepEpoch, NeedsEpoch, store, local, history, reconciler, tokens, actuator
<1>23. ASSUME NEW i \in Instances, NEW u \in Units, Gate(i, u) PROVE LocalInv'
  <2>1. PipelineHoldsItsEpoch'
    <3>1. UNCHANGED <<held, lease>>
      BY <1>23 DEF Gate, tokens
    <3>2. rows[i][u] # 0
      BY <1>23 DEF Gate
    <3>3. \/ /\ lease[i][u] = "fresh" /\ pipe' = [pipe EXCEPT ![i][u] = held[i][u]]
             /\ actual' = [actual EXCEPT ![i][u] = rows[i][u]]
          \/ pipe' = [pipe EXCEPT ![i][u] = 0] /\ actual' = actual
          \/ pipe' = pipe /\ actual' = actual
      BY <1>23 DEF Gate
    <3> QED BY <3>1, <3>2, <3>3
  <2>2. LeasePerEpoch'
    BY <1>23 DEF Gate, store, local, history, reconciler, tokens, actuator
  <2>3. PassIsAboutUnits'
    BY <1>23 DEF Gate, store, local, history, reconciler, tokens, actuator
  <2> QED BY <2>1, <2>2, <2>3
<1>24. ASSUME NEW i \in Instances, NEW u \in Units, Renew(i, u) PROVE LocalInv'
  BY <1>24 DEF Renew, store, local, history, reconciler, tokens, actuator
<1>25. ASSUME NEW i \in Instances, NEW u \in Units, Expire(i, u) PROVE LocalInv'
  BY <1>25 DEF Expire, store, local, history, reconciler, tokens, actuator
<1>26. ASSUME NEW i \in Instances, NEW u \in Units, Die(i, u) PROVE LocalInv'
  BY <1>26 DEF Die, store, local, history, reconciler, tokens, actuator
<1>27. ASSUME NEW i \in Instances, NEW due \in BOOLEAN, Pump(i, due) PROVE LocalInv'
  BY <1>27 DEF Pump, store, local, history, reconciler, tokens, actuator
<1>28. ASSUME NEW s \in Slots, Lapse(s) PROVE LocalInv'
  BY <1>28 DEF Lapse, store, local, history, reconciler, tokens, actuator
<1>29. CASE StoreDown
  BY <1>29 DEF StoreDown, store, local, history, reconciler, tokens, actuator
<1>30. CASE StoreUp
  BY <1>30 DEF StoreUp, store, local, history, reconciler, tokens, actuator
<1>31. ASSUME NEW s \in Slots, NEW u \in Units, Reassign(s, u) PROVE LocalInv'
  BY <1>31 DEF Reassign, store, local, history, reconciler, tokens, actuator
<1>32. ASSUME NEW u \in Units, NEW on \in BOOLEAN, Edit(u, on) PROVE LocalInv'
  BY <1>32 DEF Edit, store, local, history, reconciler, tokens, actuator
<1>33. ASSUME NEW u \in Units, Remove(u) PROVE LocalInv'
  BY <1>33 DEF Remove, store, local, history, reconciler, tokens, actuator
<1>34. ASSUME NEW s \in Slots, Retire(s) PROVE LocalInv'
  BY <1>34 DEF Retire, WriteSlot, store, local, history, reconciler, tokens, actuator
<1>35. CASE UNCHANGED vars
  BY <1>35 DEF vars, store, local, history, reconciler, tokens, actuator
<1>36. ASSUME NEW i \in Instances, Instance(i) PROVE LocalInv'
  <2>1. CASE Claim(i)
    BY <2>1, <1>1, <1>2, <1>3 DEF Claim
  <2>2. CASE Reconcile(i)
    BY <2>2, <1>4, <1>5, <1>18, <1>19, <1>20, <1>22, <1>23 DEF Reconcile
  <2>3. CASE LeasePass(i)
    BY <2>3, <1>6, <1>7, <1>8, <1>9, <1>10, <1>24 DEF LeasePass
  <2>4. CASE Leave(i)
    BY <2>4, <1>14, <1>15, <1>16, <1>17 DEF Leave
  <2>5. CASE \E due \in BOOLEAN : Pump(i, due)
    BY <2>5, <1>27
  <2> QED BY <1>36, <2>1, <2>2, <2>3, <2>4, <2>5, <1>11, <1>12 DEF Instance
<1>37. ASSUME Mishap PROVE LocalInv'
  BY <1>37, <1>13, <1>21, <1>25, <1>26, <1>28, <1>29, <1>30 DEF Mishap
<1>38. ASSUME Controller PROVE LocalInv'
  BY <1>38, <1>31, <1>32, <1>33, <1>34 DEF Controller
<1> QED
  BY <1>35, <1>36, <1>37, <1>38 DEF Next, Process

\* Stopping and releasing, said unit by unit, is a Retreat of the archive's view.
LEMMA RetreatByPoints ==
  ASSUME NEW i \in Instances, NEW stopped \in SUBSET Units, NEW released \in SUBSET stopped,
         TypeOK, TypeOK', epoch' = epoch,
         \A j \in Instances, u \in Units :
           /\ pipe'[j][u] = IF j = i /\ u \in stopped THEN 0 ELSE pipe[j][u]
           /\ held'[j][u] = IF j = i /\ u \in released THEN 0 ELSE held[j][u]
  PROVE  Archive!Next
<1> USE DEF TypeOK, TokenType, ActuatorType
<1>1. pipe' = [pipe EXCEPT ![i] = [u \in Units |-> IF u \in stopped THEN 0 ELSE @[u]]]
  OBVIOUS
<1>2. held' = [held EXCEPT ![i] = [u \in Units |-> IF u \in released THEN 0 ELSE @[u]]]
  OBVIOUS
<1>3. Archive!Retreat(i, stopped, released)
  BY <1>1, <1>2 DEF Archive!Retreat
<1> QED BY <1>3 DEF Archive!Next

\* The same when epochs are kept and pipelines only stop (pump_once, stop_all).
LEMMA StopByPoints ==
  ASSUME NEW i \in Instances, NEW stopped \in SUBSET Units,
         TypeOK, TypeOK', UNCHANGED <<epoch, held>>,
         \A j \in Instances, u \in Units :
           pipe'[j][u] = IF j = i /\ u \in stopped THEN 0 ELSE pipe[j][u]
  PROVE  Archive!Next
<1> USE DEF TypeOK, TokenType, ActuatorType
<1>1. pipe' = [pipe EXCEPT ![i] = [u \in Units |-> IF u \in stopped THEN 0 ELSE @[u]]]
  OBVIOUS
<1>2. held' = [held EXCEPT ![i] = [u \in Units |-> IF u \in {} THEN 0 ELSE @[u]]]
  OBVIOUS
<1>3. Archive!Retreat(i, stopped, {})
  BY <1>1, <1>2 DEF Archive!Retreat
<1> QED BY <1>3 DEF Archive!Next

\* A step as the archive sees it.
ArchiveStep == Archive!Next \/ UNCHANGED <<epoch, held, pipe>>

\* fence() is a Retreat: stop_all, with no epoch given up.
LEMMA FenceRetreats ==
  ASSUME NEW i \in Instances, TypeOK, TypeOK', UNCHANGED <<epoch, held>>,
         UNCHANGED pipe \/ pipe' = [pipe EXCEPT ![i] = None]
  PROVE  ArchiveStep
<1>1. CASE UNCHANGED pipe
  BY <1>1 DEF ArchiveStep
<1>2. CASE pipe' = [pipe EXCEPT ![i] = None]
  <2>1. Units \in SUBSET Units /\ {} \in SUBSET Units
    OBVIOUS
  <2>2. \A j \in Instances, v \in Units :
          pipe'[j][v] = IF j = i /\ v \in Units THEN 0 ELSE pipe[j][v]
    BY <1>2 DEF None, TypeOK, TokenType, ActuatorType
  <2>3. Units \in SUBSET Units
    BY <1>2 DEF TypeOK, ActuatorType
  <2> QED BY <2>1, <2>2, <2>3, StopByPoints DEF ArchiveStep
<1> QED BY <1>1, <1>2

\* Each step of the worker is one the archive was promised, or none at all.
LEMMA StepRefines == TypeOK /\ LocalInv /\ [Next]_vars => ArchiveStep
<1> SUFFICES ASSUME TypeOK, LocalInv, [Next]_vars PROVE ArchiveStep
  OBVIOUS
<1>0. TypeOK'
  BY TypeStep
<1>1. ASSUME NEW i \in Instances, ClaimRead(i) PROVE ArchiveStep
  BY <1>1 DEF ClaimRead, ArchiveStep, store, local, history, reconciler, tokens, actuator
<1>2. ASSUME NEW i \in Instances, ClaimPut(i) PROVE ArchiveStep
  BY <1>2 DEF ClaimPut, WriteSlot, ArchiveStep, store, local, history, reconciler, tokens, actuator
<1>3. ASSUME NEW i \in Instances, ClaimConflict(i) PROVE ArchiveStep
  BY <1>3 DEF ClaimConflict, ArchiveStep, store, local, history, reconciler, tokens, actuator
<1>4. ASSUME NEW i \in Instances, Refresh(i) PROVE ArchiveStep
  BY <1>4 DEF Refresh, ArchiveStep, store, local, history, reconciler, tokens, actuator
<1>5. ASSUME NEW i \in Instances, StopLoop(i) PROVE ArchiveStep
  <2> DEFINE stop == {u \in Units : actual[i][u] # 0 /\ rows[i][u] = 0}
  <2>1. /\ pipe' = [pipe EXCEPT ![i] = [u \in Units |-> IF u \in stop THEN 0 ELSE @[u]]]
        /\ held' = [held EXCEPT ![i] = [u \in Units |-> IF u \in stop THEN 0 ELSE @[u]]]
        /\ epoch' = epoch
    BY <1>5 DEF StopLoop, store
  <2>2. Archive!Retreat(i, stop, stop)
    BY <2>1 DEF Archive!Retreat
  <2> QED BY <2>2 DEF Archive!Next, ArchiveStep
<1>6. ASSUME NEW i \in Instances, SlotRead(i) PROVE ArchiveStep
  <2>1. UNCHANGED <<epoch, held>>
    BY <1>6 DEF SlotRead, store, tokens
  <2>2. UNCHANGED pipe \/ pipe' = [pipe EXCEPT ![i] = None]
    BY <1>6 DEF SlotRead, Fence
  <2> QED BY <1>0, <2>1, <2>2, FenceRetreats DEF ArchiveStep
<1>7. ASSUME NEW i \in Instances, SlotWrite(i) PROVE ArchiveStep
  BY <1>7 DEF SlotWrite, WriteSlot, ArchiveStep, store, local, history, reconciler, tokens, actuator
<1>8. ASSUME NEW i \in Instances, SlotConflict(i) PROVE ArchiveStep
  <2>1. UNCHANGED <<epoch, held>>
    BY <1>8 DEF SlotConflict, store, tokens
  <2>2. UNCHANGED pipe \/ pipe' = [pipe EXCEPT ![i] = None]
    BY <1>8 DEF SlotConflict, Fence
  <2> QED BY <1>0, <2>1, <2>2, FenceRetreats DEF ArchiveStep
<1>9. ASSUME NEW i \in Instances, RenewedAll(i) PROVE ArchiveStep
  BY <1>9 DEF RenewedAll, ArchiveStep, store, local, history, reconciler, tokens, actuator
<1>10. ASSUME NEW i \in Instances, Judge(i) PROVE ArchiveStep
  <2>1. PICK done \in SUBSET Units :
          /\ held' = [held EXCEPT ![i] = [u \in Units |-> IF u \in done THEN 0 ELSE @[u]]]
          /\ \/ pipe' = [pipe EXCEPT ![i] = [u \in Units |-> IF u \in done THEN 0 ELSE @[u]]]
             \/ pipe' = [pipe EXCEPT ![i] = None]
    <3>1. PICK done \in SUBSET (lost[i] \ listed[me[i]]) :
            /\ held' = [held EXCEPT ![i] = [u \in Units |-> IF u \in done THEN 0 ELSE @[u]]]
            /\ IF lost[i] \cap listed[me[i]] # {} /\ why[i] = "none" THEN Fence(i, "lease")
               ELSE pipe' = [pipe EXCEPT ![i] = [u \in Units |-> IF u \in done THEN 0 ELSE @[u]]]
      BY <1>10 DEF Judge
    <3>2. lost[i] \subseteq Units
      BY DEF TypeOK, TokenType
    <3> QED BY <3>1, <3>2 DEF Fence
  <2>2. epoch' = epoch
    BY <1>10 DEF Judge, store
  <2>3. CASE pipe' = [pipe EXCEPT ![i] = None]
    BY <1>0, <2>1, <2>2, <2>3, RetreatByPoints DEF ArchiveStep, None, TypeOK, TokenType, ActuatorType
  <2>4. CASE pipe' = [pipe EXCEPT ![i] = [u \in Units |-> IF u \in done THEN 0 ELSE @[u]]]
    <3>1. Archive!Retreat(i, done, done)
      BY <2>1, <2>2, <2>4 DEF Archive!Retreat
    <3> QED BY <3>1 DEF Archive!Next, ArchiveStep
  <2> QED BY <2>1, <2>3, <2>4
<1>11. ASSUME NEW i \in Instances, Beat(i) PROVE ArchiveStep
  BY <1>11 DEF Beat, ArchiveStep, store, local, history, reconciler, tokens, actuator
<1>12. ASSUME NEW i \in Instances, Raise(i) PROVE ArchiveStep
  BY <1>12 DEF Raise, ArchiveStep, store, local, history, reconciler, tokens, actuator
<1>13. ASSUME NEW i \in Instances, Crash(i) PROVE ArchiveStep
  <2>1. epoch' = epoch /\ pipe' = [pipe EXCEPT ![i] = None] /\ held' = [held EXCEPT ![i] = None]
    BY <1>13 DEF Crash, Vanish
  <2> QED BY <1>0, <2>1, RetreatByPoints DEF ArchiveStep, None, TypeOK, TokenType, ActuatorType
<1>14. ASSUME NEW i \in Instances, Stop(i) PROVE ArchiveStep
  <2>1. UNCHANGED <<epoch, held>> /\ pipe' = [pipe EXCEPT ![i] = None]
    BY <1>14 DEF Stop, tokens
  <2> QED BY <1>0, <2>1, FenceRetreats DEF ArchiveStep
<1>15. ASSUME NEW i \in Instances, ReleaseRead(i) PROVE ArchiveStep
  BY <1>15 DEF ReleaseRead, ArchiveStep, store, local, history, reconciler, tokens, actuator
<1>16. ASSUME NEW i \in Instances, ReleaseWrite(i) PROVE ArchiveStep
  BY <1>16 DEF ReleaseWrite, WriteSlot, ArchiveStep, store, local, history, reconciler, tokens, actuator
<1>17. ASSUME NEW i \in Instances, Exit(i) PROVE ArchiveStep
  <2>1. epoch' = epoch /\ pipe' = [pipe EXCEPT ![i] = None] /\ held' = [held EXCEPT ![i] = None]
    BY <1>17 DEF Exit, Vanish, store
  <2> QED BY <1>0, <2>1, RetreatByPoints DEF ArchiveStep, None, TypeOK, TokenType, ActuatorType
<1>18. ASSUME NEW i \in Instances, NEW u \in Units, BackOff(i, u) PROVE ArchiveStep
  BY <1>18 DEF BackOff, ArchiveStep, store, local, history, reconciler, tokens, actuator
<1>19. ASSUME NEW i \in Instances, NEW u \in Units, RefuseStart(i, u) PROVE ArchiveStep
  BY <1>19 DEF RefuseStart, ArchiveStep, store, local, history, reconciler, tokens, actuator
<1>20. ASSUME NEW i \in Instances, NEW u \in Units, TakeEpoch(i, u) PROVE ArchiveStep
  <2>1. pipe[i][u] = 0
    BY <1>20 DEF TakeEpoch, NeedsEpoch, LocalInv, PipelineHoldsItsEpoch, Recording
  <2>2. Archive!Issue(i, u)
    BY <1>20, <2>1 DEF Archive!Issue, TakeEpoch, actuator
  <2> QED BY <2>2 DEF Archive!Next, ArchiveStep
<1>21. ASSUME NEW i \in Instances, NEW u \in Units, LoseEpoch(i, u) PROVE ArchiveStep
  <2>1. Archive!Waste(u)
    BY <1>21 DEF Archive!Waste, LoseEpoch, tokens, actuator
  <2> QED BY <2>1 DEF Archive!Next, ArchiveStep
<1>22. ASSUME NEW i \in Instances, NEW u \in Units, KeepEpoch(i, u) PROVE ArchiveStep
  BY <1>22 DEF KeepEpoch, ArchiveStep, store, local, history, reconciler, tokens, actuator
<1>23. ASSUME NEW i \in Instances, NEW u \in Units, Gate(i, u) PROVE ArchiveStep
  <2>1. CASE UNCHANGED pipe
    BY <1>23, <2>1 DEF Gate, store, tokens, ArchiveStep
  <2>2. CASE lease[i][u] = "fresh" /\ pipe' = [pipe EXCEPT ![i][u] = held[i][u]]
    <3>1. held[i][u] # 0
      BY <2>2 DEF LocalInv, LeasePerEpoch
    <3>2. Archive!Begin(i, u)
      BY <1>23, <2>2, <3>1 DEF Archive!Begin, Gate, store, tokens
    <3> QED BY <3>2 DEF Archive!Next, ArchiveStep
  <2>3. CASE pipe' = [pipe EXCEPT ![i][u] = 0]
    <3>1. UNCHANGED <<epoch, held>>
      BY <1>23 DEF Gate, store, tokens
    <3>2. {u} \in SUBSET Units /\ {} \in SUBSET {u}
      OBVIOUS
    <3>3. \A j \in Instances, v \in Units :
            pipe'[j][v] = IF j = i /\ v \in {u} THEN 0 ELSE pipe[j][v]
      BY <2>3, <3>1 DEF None, TypeOK, TokenType, ActuatorType
    <3>4. {u} \in SUBSET Units
      BY <2>3, <3>1 DEF TypeOK, ActuatorType
    <3> QED BY <1>0, <3>1, <3>3, <3>4, StopByPoints DEF ArchiveStep
  <2> QED BY <1>23, <2>1, <2>2, <2>3 DEF Gate
<1>24. ASSUME NEW i \in Instances, NEW u \in Units, Renew(i, u) PROVE ArchiveStep
  BY <1>24 DEF Renew, ArchiveStep, store, local, history, reconciler, tokens, actuator
<1>25. ASSUME NEW i \in Instances, NEW u \in Units, Expire(i, u) PROVE ArchiveStep
  BY <1>25 DEF Expire, ArchiveStep, store, local, history, reconciler, tokens, actuator
<1>26. ASSUME NEW i \in Instances, NEW u \in Units, Die(i, u) PROVE ArchiveStep
  <2>1. UNCHANGED <<epoch, held>> /\ pipe' = [pipe EXCEPT ![i][u] = 0]
    BY <1>26 DEF Die, store, tokens
  <2>2. {u} \in SUBSET Units /\ {} \in SUBSET {u}
    OBVIOUS
  <2>3. \A j \in Instances, v \in Units :
          pipe'[j][v] = IF j = i /\ v \in {u} THEN 0 ELSE pipe[j][v]
    BY <2>1 DEF None, TypeOK, TokenType, ActuatorType
  <2>4. {u} \in SUBSET Units
    BY <2>1 DEF TypeOK, ActuatorType
  <2> QED BY <1>0, <2>1, <2>3, <2>4, StopByPoints DEF ArchiveStep
<1>27. ASSUME NEW i \in Instances, NEW due \in BOOLEAN, Pump(i, due) PROVE ArchiveStep
  <2>1. UNCHANGED <<epoch, held>> /\ dead[i] \in SUBSET Units
    BY <1>27 DEF Pump, store, tokens, TypeOK, ActuatorType
  <2>2. pipe' = [pipe EXCEPT ![i] = [u \in Units |-> IF u \in dead[i] THEN 0 ELSE @[u]]]
    BY <1>27 DEF Pump
  <2>3. \A j \in Instances, v \in Units :
          pipe'[j][v] = IF j = i /\ v \in dead[i] THEN 0 ELSE pipe[j][v]
    BY <2>1, <2>2 DEF None, TypeOK, TokenType, ActuatorType
  <2>4. dead[i] \in SUBSET Units
    BY <2>1, <2>2 DEF TypeOK, ActuatorType
  <2> QED BY <1>0, <2>1, <2>3, <2>4, StopByPoints DEF ArchiveStep
<1>28. ASSUME NEW s \in Slots, Lapse(s) PROVE ArchiveStep
  BY <1>28 DEF Lapse, ArchiveStep, store, local, history, reconciler, tokens, actuator
<1>29. CASE StoreDown
  BY <1>29 DEF StoreDown, ArchiveStep, store, local, history, reconciler, tokens, actuator
<1>30. CASE StoreUp
  BY <1>30 DEF StoreUp, ArchiveStep, store, local, history, reconciler, tokens, actuator
<1>31. ASSUME NEW s \in Slots, NEW u \in Units, Reassign(s, u) PROVE ArchiveStep
  BY <1>31 DEF Reassign, ArchiveStep, store, local, history, reconciler, tokens, actuator
<1>32. ASSUME NEW u \in Units, NEW on \in BOOLEAN, Edit(u, on) PROVE ArchiveStep
  BY <1>32 DEF Edit, ArchiveStep, store, local, history, reconciler, tokens, actuator
<1>33. ASSUME NEW u \in Units, Remove(u) PROVE ArchiveStep
  BY <1>33 DEF Remove, ArchiveStep, store, local, history, reconciler, tokens, actuator
<1>34. ASSUME NEW s \in Slots, Retire(s) PROVE ArchiveStep
  BY <1>34 DEF Retire, WriteSlot, ArchiveStep, store, local, history, reconciler, tokens, actuator
<1>35. CASE UNCHANGED vars
  BY <1>35 DEF vars, ArchiveStep, store, local, history, reconciler, tokens, actuator
<1>36. ASSUME NEW i \in Instances, Instance(i) PROVE ArchiveStep
  <2>1. CASE Claim(i)
    BY <2>1, <1>1, <1>2, <1>3 DEF Claim
  <2>2. CASE Reconcile(i)
    BY <2>2, <1>4, <1>5, <1>18, <1>19, <1>20, <1>22, <1>23 DEF Reconcile
  <2>3. CASE LeasePass(i)
    BY <2>3, <1>6, <1>7, <1>8, <1>9, <1>10, <1>24 DEF LeasePass
  <2>4. CASE Leave(i)
    BY <2>4, <1>14, <1>15, <1>16, <1>17 DEF Leave
  <2>5. CASE \E due \in BOOLEAN : Pump(i, due)
    BY <2>5, <1>27
  <2> QED BY <1>36, <2>1, <2>2, <2>3, <2>4, <2>5, <1>11, <1>12 DEF Instance
<1>37. ASSUME Mishap PROVE ArchiveStep
  BY <1>37, <1>13, <1>21, <1>25, <1>26, <1>28, <1>29, <1>30 DEF Mishap
<1>38. ASSUME Controller PROVE ArchiveStep
  BY <1>38, <1>31, <1>32, <1>33, <1>34 DEF Controller
<1> QED
  BY <1>35, <1>36, <1>37, <1>38 DEF Next, Process

\* No promised step gives one number to two processes (next_epoch adds one).
LEMMA HeldByOneStep ==
  ASSUME TypeOK, TypeOK', ArchiveStep, HeldByOne PROVE HeldByOne'
<1> USE DEF TypeOK, StoreType, TokenType, HeldByOne
<1>1. CASE UNCHANGED <<epoch, held, pipe>>
  BY <1>1
<1>2. ASSUME NEW u \in Units, Archive!Waste(u) PROVE HeldByOne'
  BY <1>2 DEF Archive!Waste
<1>3. ASSUME NEW i \in Instances, NEW u \in Units, Archive!Issue(i, u) PROVE HeldByOne'
  BY <1>3 DEF Archive!Issue
<1>4. ASSUME NEW i \in Instances, NEW u \in Units, Archive!Begin(i, u) PROVE HeldByOne'
  BY <1>4 DEF Archive!Begin
<1>5. ASSUME NEW i \in Instances, NEW stopped \in SUBSET Units, NEW released \in SUBSET Units,
             Archive!Retreat(i, stopped, released)
      PROVE  HeldByOne'
  BY <1>5 DEF Archive!Retreat
<1> QED
  BY <1>1, <1>2, <1>3, <1>4, <1>5 DEF ArchiveStep, Archive!Next

\* The inductive invariant holds at the start
LEMMA InitIInv == Init => IInv
BY TypeInit DEF Init, IInv, PipelineHoldsItsEpoch, LeasePerEpoch, PassIsAboutUnits, HeldByOne, Recording, None

\* and is kept by every step, each of which the archive was promised.
LEMMA StepIInv == IInv /\ [Next]_vars => IInv' /\ ArchiveStep
<1> SUFFICES ASSUME IInv, [Next]_vars PROVE IInv' /\ ArchiveStep
  OBVIOUS
<1>1. TypeOK'
  BY TypeStep DEF IInv
<1>2. LocalInv'
  BY LocalStep DEF IInv, LocalInv
<1>3. ArchiveStep
  BY StepRefines DEF IInv, LocalInv
<1>4. HeldByOne'
  BY <1>1, <1>3, HeldByOneStep DEF IInv
<1> QED BY <1>1, <1>2, <1>3, <1>4 DEF IInv, LocalInv

\* So it always holds: the types, a lease with every epoch held, passes that are
\* about units there are, and one holder for every epoch (take_epoch, release).
THEOREM Inductive == Spec => []IInv
<1> QED BY InitIInv, StepIInv, PTL DEF Spec

\* The store's rows, the loop's work lists, the leases and the pipelines always
\* have the types the code gives them (Worker, VmsWorker, Reconciler).
THEOREM TypeCorrect == Spec => []TypeOK
<1>1. IInv => TypeOK
  BY DEF IInv
<1> QED BY <1>1, Inductive, PTL

\* A pipeline writes under the epoch its process holds a lease for, so observe()
\* and archivesink name the same bucket (take_epoch, _actuate, release).
THEOREM PipelineUnderItsEpoch == Spec => []PipelineHoldsItsEpoch
<1>1. IInv => PipelineHoldsItsEpoch
  BY DEF IInv
<1> QED BY <1>1, Inductive, PTL

\* The fencing guarantee of epoch.py: two processes never write one camera under
\* one epoch, also when both believe in one name or no lease is ever renewed.
THEOREM NoSharedEpoch == Spec => []OneWriterPerEpoch
<1>1. IInv => OneWriterPerEpoch
  BY DEF IInv, PipelineHoldsItsEpoch, HeldByOne, OneWriterPerEpoch, Recording
<1> QED BY <1>1, Inductive, PTL

\* Whatever its slots, leases and passes do, a fleet of VmsWorkers is a set of
\* writers as the archive was promised them.
THEOREM WorkersImplementArchiveWriters == Spec => ImplementsArchiveWriters
<1>1. Init => Archive!Init
  BY DEF Init, Archive!Init, None, Archive!None
<1>2. ArchiveStep => [Archive!Next]_Archive!vars
  BY DEF ArchiveStep, Archive!vars
<1> QED BY <1>1, <1>2, Inductive, StepIInv, PTL DEF Spec, ImplementsArchiveWriters, Archive!Spec

\* A fenced process records nothing and is not about to start anything;
Fenced == \A i \in Instances : why[i] # "none" => pipe[i] = None /\ pc[i] # "gate"
\* and it stays so until it ends.
FenceHolds == \A i \in Instances : why[i] # "none" /\ pc'[i] # "gone" => why'[i] = why[i] /\ pipe'[i] = None

\* Every step keeps both (_actuate refuses, fence() returns at once).
LEMMA FenceStep == TypeOK /\ Fenced /\ [Next]_vars => Fenced' /\ FenceHolds
<1> SUFFICES ASSUME TypeOK, Fenced, [Next]_vars PROVE Fenced' /\ FenceHolds
  OBVIOUS
<1> USE DEF Fenced, FenceHolds, None, Goto, TypeOK, LoopType, ActuatorType
<1>1. ASSUME NEW i \in Instances, ClaimRead(i) PROVE Fenced' /\ FenceHolds
  BY <1>1 DEF ClaimRead, local, actuator
<1>2. ASSUME NEW i \in Instances, ClaimPut(i) PROVE Fenced' /\ FenceHolds
  BY <1>2 DEF ClaimPut, WriteSlot, local, actuator
<1>3. ASSUME NEW i \in Instances, ClaimConflict(i) PROVE Fenced' /\ FenceHolds
  BY <1>3 DEF ClaimConflict, local, actuator
<1>4. ASSUME NEW i \in Instances, Refresh(i) PROVE Fenced' /\ FenceHolds
  BY <1>4 DEF Refresh, local, actuator
<1>5. ASSUME NEW i \in Instances, StopLoop(i) PROVE Fenced' /\ FenceHolds
  BY <1>5 DEF StopLoop, local, actuator
<1>6. ASSUME NEW i \in Instances, SlotRead(i) PROVE Fenced' /\ FenceHolds
  BY <1>6 DEF SlotRead, Fence, local, actuator
<1>7. ASSUME NEW i \in Instances, SlotWrite(i) PROVE Fenced' /\ FenceHolds
  BY <1>7 DEF SlotWrite, WriteSlot, local, actuator
<1>8. ASSUME NEW i \in Instances, SlotConflict(i) PROVE Fenced' /\ FenceHolds
  BY <1>8 DEF SlotConflict, Fence, local, actuator
<1>9. ASSUME NEW i \in Instances, RenewedAll(i) PROVE Fenced' /\ FenceHolds
  BY <1>9 DEF RenewedAll, local, actuator
<1>10. ASSUME NEW i \in Instances, Judge(i) PROVE Fenced' /\ FenceHolds
  BY <1>10 DEF Judge, Fence, local, actuator
<1>11. ASSUME NEW i \in Instances, Beat(i) PROVE Fenced' /\ FenceHolds
  BY <1>11 DEF Beat, local, actuator
<1>12. ASSUME NEW i \in Instances, Raise(i) PROVE Fenced' /\ FenceHolds
  BY <1>12 DEF Raise, local, actuator
<1>13. ASSUME NEW i \in Instances, Crash(i) PROVE Fenced' /\ FenceHolds
  BY <1>13 DEF Crash, Vanish, local, actuator
<1>14. ASSUME NEW i \in Instances, Stop(i) PROVE Fenced' /\ FenceHolds
  BY <1>14 DEF Stop, local, actuator
<1>15. ASSUME NEW i \in Instances, ReleaseRead(i) PROVE Fenced' /\ FenceHolds
  BY <1>15 DEF ReleaseRead, local, actuator
<1>16. ASSUME NEW i \in Instances, ReleaseWrite(i) PROVE Fenced' /\ FenceHolds
  BY <1>16 DEF ReleaseWrite, WriteSlot, local, actuator
<1>17. ASSUME NEW i \in Instances, Exit(i) PROVE Fenced' /\ FenceHolds
  BY <1>17 DEF Exit, Vanish, local, actuator
<1>18. ASSUME NEW i \in Instances, NEW u \in Units, BackOff(i, u) PROVE Fenced' /\ FenceHolds
  BY <1>18 DEF BackOff, local, actuator
<1>19. ASSUME NEW i \in Instances, NEW u \in Units, RefuseStart(i, u) PROVE Fenced' /\ FenceHolds
  BY <1>19 DEF RefuseStart, local, actuator
<1>20. ASSUME NEW i \in Instances, NEW u \in Units, TakeEpoch(i, u) PROVE Fenced' /\ FenceHolds
  BY <1>20 DEF TakeEpoch, local, actuator
<1>21. ASSUME NEW i \in Instances, NEW u \in Units, LoseEpoch(i, u) PROVE Fenced' /\ FenceHolds
  BY <1>21 DEF LoseEpoch, local, actuator
<1>22. ASSUME NEW i \in Instances, NEW u \in Units, KeepEpoch(i, u) PROVE Fenced' /\ FenceHolds
  BY <1>22 DEF KeepEpoch, local, actuator
<1>23. ASSUME NEW i \in Instances, NEW u \in Units, Gate(i, u) PROVE Fenced' /\ FenceHolds
  BY <1>23 DEF Gate, local, actuator
<1>24. ASSUME NEW i \in Instances, NEW u \in Units, Renew(i, u) PROVE Fenced' /\ FenceHolds
  BY <1>24 DEF Renew, local, actuator
<1>25. ASSUME NEW i \in Instances, NEW u \in Units, Expire(i, u) PROVE Fenced' /\ FenceHolds
  BY <1>25 DEF Expire, local, actuator
<1>26. ASSUME NEW i \in Instances, NEW u \in Units, Die(i, u) PROVE Fenced' /\ FenceHolds
  BY <1>26 DEF Die, local, actuator
<1>27. ASSUME NEW i \in Instances, NEW due \in BOOLEAN, Pump(i, due) PROVE Fenced' /\ FenceHolds
  BY <1>27 DEF Pump, local, actuator
<1>28. ASSUME NEW s \in Slots, Lapse(s) PROVE Fenced' /\ FenceHolds
  BY <1>28 DEF Lapse, local, actuator
<1>29. CASE StoreDown
  BY <1>29 DEF StoreDown, local, actuator
<1>30. CASE StoreUp
  BY <1>30 DEF StoreUp, local, actuator
<1>31. ASSUME NEW s \in Slots, NEW u \in Units, Reassign(s, u) PROVE Fenced' /\ FenceHolds
  BY <1>31 DEF Reassign, local, actuator
<1>32. ASSUME NEW u \in Units, NEW on \in BOOLEAN, Edit(u, on) PROVE Fenced' /\ FenceHolds
  BY <1>32 DEF Edit, local, actuator
<1>33. ASSUME NEW u \in Units, Remove(u) PROVE Fenced' /\ FenceHolds
  BY <1>33 DEF Remove, local, actuator
<1>34. ASSUME NEW s \in Slots, Retire(s) PROVE Fenced' /\ FenceHolds
  BY <1>34 DEF Retire, WriteSlot, local, actuator
<1>35. CASE UNCHANGED vars
  BY <1>35 DEF vars, local, actuator
<1>36. ASSUME NEW i \in Instances, Instance(i) PROVE Fenced' /\ FenceHolds
  <2>1. CASE Claim(i)
    BY <2>1, <1>1, <1>2, <1>3 DEF Claim
  <2>2. CASE Reconcile(i)
    BY <2>2, <1>4, <1>5, <1>18, <1>19, <1>20, <1>22, <1>23 DEF Reconcile
  <2>3. CASE LeasePass(i)
    BY <2>3, <1>6, <1>7, <1>8, <1>9, <1>10, <1>24 DEF LeasePass
  <2>4. CASE Leave(i)
    BY <2>4, <1>14, <1>15, <1>16, <1>17 DEF Leave
  <2>5. CASE \E due \in BOOLEAN : Pump(i, due)
    BY <2>5, <1>27
  <2> QED BY <1>36, <2>1, <2>2, <2>3, <2>4, <2>5, <1>11, <1>12 DEF Instance
<1>37. ASSUME Mishap PROVE Fenced' /\ FenceHolds
  BY <1>37, <1>13, <1>21, <1>25, <1>26, <1>28, <1>29, <1>30 DEF Mishap
<1>38. ASSUME Controller PROVE Fenced' /\ FenceHolds
  BY <1>38, <1>31, <1>32, <1>33, <1>34 DEF Controller
<1> QED
  BY <1>35, <1>36, <1>37, <1>38 DEF Next, Process

\* A process that lost its slot or a lease of its own never records again,
\* whatever it is assigned afterwards (VmsWorker.fence, _actuate).
THEOREM FencedForGood == Spec => FenceIsFinal
<1>1. Init => Fenced
  BY DEF Init, Fenced
<1>2. TypeOK /\ Fenced /\ [Next]_vars => Fenced' /\ FenceHolds
  BY FenceStep
<1>3. FenceHolds => [FenceHolds]_vars
  OBVIOUS
<1> QED
  BY <1>1, <1>2, <1>3, TypeCorrect, PTL DEF Spec, FenceIsFinal, FenceHolds

-----------------------------------------------------------------------------
\* A row nobody has claimed is free, and what a process without a preference has
\* read as claimable, and nobody wrote since, is claimable still.
ClaimInv ==
  /\ \A s \in Slots : slot[s].holder = Nobody => slot[s].released
  /\ \A i \in Instances :
       pc[i] = "claim" => /\ me[i] \in Slots
                          /\ valid[i] /\ Prefer[i] = NoSlot => Claimable(me[i])

TakenIsClaimable ==
  \A i \in Instances :
    pc[i] = "claim" /\ pc'[i] = "refresh" /\ Prefer[i] = NoSlot => Claimable(me'[i])

\* Every write of a row spoils what others have read of it (claim_slot, cas); a
\* lease of a name that runs out only makes it claimable.
LEMMA ClaimStep == TypeOK /\ ClaimInv /\ [Next]_vars => ClaimInv' /\ TakenIsClaimable
<1> SUFFICES ASSUME TypeOK, ClaimInv, [Next]_vars PROVE ClaimInv' /\ TakenIsClaimable
  OBVIOUS
<1> USE WorkerAssumption DEF ClaimInv, TakenIsClaimable, Claimable, Goto, TypeOK, LoopType, StoreType, SlotRow
<1>1. ASSUME NEW i \in Instances, ClaimRead(i) PROVE ClaimInv' /\ TakenIsClaimable
  BY <1>1 DEF ClaimRead, store, local, Candidates, Lapsed
<1>2. ASSUME NEW i \in Instances, ClaimPut(i) PROVE ClaimInv' /\ TakenIsClaimable
  BY <1>2 DEF ClaimPut, store, local, WriteSlot
<1>3. ASSUME NEW i \in Instances, ClaimConflict(i) PROVE ClaimInv' /\ TakenIsClaimable
  BY <1>3 DEF ClaimConflict, store, local
<1>4. ASSUME NEW i \in Instances, Refresh(i) PROVE ClaimInv' /\ TakenIsClaimable
  BY <1>4 DEF Refresh, store, local
<1>5. ASSUME NEW i \in Instances, StopLoop(i) PROVE ClaimInv' /\ TakenIsClaimable
  BY <1>5 DEF StopLoop, store, local
<1>6. ASSUME NEW i \in Instances, SlotRead(i) PROVE ClaimInv' /\ TakenIsClaimable
  BY <1>6 DEF SlotRead, store, local
<1>7. ASSUME NEW i \in Instances, SlotWrite(i) PROVE ClaimInv' /\ TakenIsClaimable
  BY <1>7 DEF SlotWrite, store, local, WriteSlot
<1>8. ASSUME NEW i \in Instances, SlotConflict(i) PROVE ClaimInv' /\ TakenIsClaimable
  BY <1>8 DEF SlotConflict, store, local
<1>9. ASSUME NEW i \in Instances, RenewedAll(i) PROVE ClaimInv' /\ TakenIsClaimable
  BY <1>9 DEF RenewedAll, store, local
<1>10. ASSUME NEW i \in Instances, Judge(i) PROVE ClaimInv' /\ TakenIsClaimable
  BY <1>10 DEF Judge, store, local
<1>11. ASSUME NEW i \in Instances, Beat(i) PROVE ClaimInv' /\ TakenIsClaimable
  BY <1>11 DEF Beat, store, local
<1>12. ASSUME NEW i \in Instances, Raise(i) PROVE ClaimInv' /\ TakenIsClaimable
  BY <1>12 DEF Raise, store, local
<1>13. ASSUME NEW i \in Instances, Crash(i) PROVE ClaimInv' /\ TakenIsClaimable
  BY <1>13 DEF Crash, store, local, Vanish
<1>14. ASSUME NEW i \in Instances, Stop(i) PROVE ClaimInv' /\ TakenIsClaimable
  BY <1>14 DEF Stop, store, local
<1>15. ASSUME NEW i \in Instances, ReleaseRead(i) PROVE ClaimInv' /\ TakenIsClaimable
  BY <1>15 DEF ReleaseRead, store, local
<1>16. ASSUME NEW i \in Instances, ReleaseWrite(i) PROVE ClaimInv' /\ TakenIsClaimable
  BY <1>16 DEF ReleaseWrite, store, local, WriteSlot
<1>17. ASSUME NEW i \in Instances, Exit(i) PROVE ClaimInv' /\ TakenIsClaimable
  BY <1>17 DEF Exit, store, local, Vanish
<1>18. ASSUME NEW i \in Instances, NEW u \in Units, BackOff(i, u) PROVE ClaimInv' /\ TakenIsClaimable
  BY <1>18 DEF BackOff, store, local
<1>19. ASSUME NEW i \in Instances, NEW u \in Units, RefuseStart(i, u) PROVE ClaimInv' /\ TakenIsClaimable
  BY <1>19 DEF RefuseStart, store, local
<1>20. ASSUME NEW i \in Instances, NEW u \in Units, TakeEpoch(i, u) PROVE ClaimInv' /\ TakenIsClaimable
  BY <1>20 DEF TakeEpoch, store, local
<1>21. ASSUME NEW i \in Instances, NEW u \in Units, LoseEpoch(i, u) PROVE ClaimInv' /\ TakenIsClaimable
  BY <1>21 DEF LoseEpoch, store, local
<1>22. ASSUME NEW i \in Instances, NEW u \in Units, KeepEpoch(i, u) PROVE ClaimInv' /\ TakenIsClaimable
  BY <1>22 DEF KeepEpoch, store, local
<1>23. ASSUME NEW i \in Instances, NEW u \in Units, Gate(i, u) PROVE ClaimInv' /\ TakenIsClaimable
  BY <1>23 DEF Gate, store, local
<1>24. ASSUME NEW i \in Instances, NEW u \in Units, Renew(i, u) PROVE ClaimInv' /\ TakenIsClaimable
  BY <1>24 DEF Renew, store, local
<1>25. ASSUME NEW i \in Instances, NEW u \in Units, Expire(i, u) PROVE ClaimInv' /\ TakenIsClaimable
  BY <1>25 DEF Expire, store, local
<1>26. ASSUME NEW i \in Instances, NEW u \in Units, Die(i, u) PROVE ClaimInv' /\ TakenIsClaimable
  BY <1>26 DEF Die, store, local
<1>27. ASSUME NEW i \in Instances, NEW due \in BOOLEAN, Pump(i, due) PROVE ClaimInv' /\ TakenIsClaimable
  BY <1>27 DEF Pump, store, local
<1>28. ASSUME NEW s \in Slots, Lapse(s) PROVE ClaimInv' /\ TakenIsClaimable
  BY <1>28 DEF Lapse, store, local
<1>29. CASE StoreDown
  BY <1>29 DEF StoreDown, store, local
<1>30. CASE StoreUp
  BY <1>30 DEF StoreUp, store, local
<1>31. ASSUME NEW s \in Slots, NEW u \in Units, Reassign(s, u) PROVE ClaimInv' /\ TakenIsClaimable
  BY <1>31 DEF Reassign, store, local
<1>32. ASSUME NEW u \in Units, NEW on \in BOOLEAN, Edit(u, on) PROVE ClaimInv' /\ TakenIsClaimable
  BY <1>32 DEF Edit, store, local
<1>33. ASSUME NEW u \in Units, Remove(u) PROVE ClaimInv' /\ TakenIsClaimable
  BY <1>33 DEF Remove, store, local
<1>34. ASSUME NEW s \in Slots, Retire(s) PROVE ClaimInv' /\ TakenIsClaimable
  BY <1>34 DEF Retire, store, local, WriteSlot
<1>35. CASE UNCHANGED vars
  BY <1>35 DEF vars, store, local
<1>36. ASSUME NEW i \in Instances, Instance(i) PROVE ClaimInv' /\ TakenIsClaimable
  <2>1. CASE Claim(i)
    BY <2>1, <1>1, <1>2, <1>3 DEF Claim
  <2>2. CASE Reconcile(i)
    BY <2>2, <1>4, <1>5, <1>18, <1>19, <1>20, <1>22, <1>23 DEF Reconcile
  <2>3. CASE LeasePass(i)
    BY <2>3, <1>6, <1>7, <1>8, <1>9, <1>10, <1>24 DEF LeasePass
  <2>4. CASE Leave(i)
    BY <2>4, <1>14, <1>15, <1>16, <1>17 DEF Leave
  <2>5. CASE \E due \in BOOLEAN : Pump(i, due)
    BY <2>5, <1>27
  <2> QED BY <1>36, <2>1, <2>2, <2>3, <2>4, <2>5, <1>11, <1>12 DEF Instance
<1>37. ASSUME Mishap PROVE ClaimInv' /\ TakenIsClaimable
  BY <1>37, <1>13, <1>21, <1>25, <1>26, <1>28, <1>29, <1>30 DEF Mishap
<1>38. ASSUME Controller PROVE ClaimInv' /\ TakenIsClaimable
  BY <1>38, <1>31, <1>32, <1>33, <1>34 DEF Controller
<1> QED
  BY <1>35, <1>36, <1>37, <1>38 DEF Next, Process

\* A process that was not told its name takes only a name whose lease has run out
\* or that was given back (claim_slot).
THEOREM OnlyFreeNamesAreTaken == Spec => OnlyClaimableIsTaken
<1>1. Init => ClaimInv
  BY DEF Init, ClaimInv
<1>2. TypeOK /\ ClaimInv /\ [Next]_vars => ClaimInv' /\ TakenIsClaimable
  BY ClaimStep
<1>3. TakenIsClaimable => [TakenIsClaimable]_vars
  OBVIOUS
<1> QED
  BY <1>1, <1>2, <1>3, TypeCorrect, PTL DEF Spec, OnlyClaimableIsTaken, TakenIsClaimable

-----------------------------------------------------------------------------
\* In a lease pass, what was superseded when it began is so still, and after the
\* renewal of the slot it is yet to be renewed or has been reported lost.
Settling ==
  \A i \in Instances, u \in Units :
    pc[i] \in {"renew_slot", "renew"} /\ u \in overdue[i] /\ pipe[i][u] # 0
      => pipe[i][u] < epoch[u] /\ (pc[i] = "renew" => u \in todo[i] \cup lost[i])

PassAnswers ==
  \A i \in Instances :
    pc[i] \in {"slot", "renew_slot", "renew"} /\ pc'[i] = "beat" => Superseded(i)' \cap overdue'[i] = {}

\* Every step keeps the one and shows the other: a renewal compares the epochs,
\* what is lost is stopped or fences the process, and a fenced one records nothing.
LEMMA PassStep ==
  TypeOK /\ TypeOK' /\ PipelineHoldsItsEpoch /\ Fenced /\ Settling /\ [Next]_vars => Settling' /\ PassAnswers
<1> SUFFICES ASSUME TypeOK, TypeOK', PipelineHoldsItsEpoch, Fenced, Settling, [Next]_vars PROVE Settling' /\ PassAnswers
  OBVIOUS
<1> USE DEF Settling, PassAnswers, Superseded, Goto, None, TypeOK, LoopType, StoreType, ActuatorType, HistoryType, ReconcilerType, TokenType, store, local, history, reconciler, tokens, actuator
<1>1. ASSUME NEW i \in Instances, ClaimRead(i) PROVE Settling' /\ PassAnswers
  BY <1>1 DEF ClaimRead
<1>2. ASSUME NEW i \in Instances, ClaimPut(i) PROVE Settling' /\ PassAnswers
  BY <1>2 DEF ClaimPut, vars, WriteSlot
<1>3. ASSUME NEW i \in Instances, ClaimConflict(i) PROVE Settling' /\ PassAnswers
  BY <1>3 DEF ClaimConflict
<1>4. ASSUME NEW i \in Instances, Refresh(i) PROVE Settling' /\ PassAnswers
  BY <1>4 DEF Refresh
<1>5. ASSUME NEW i \in Instances, StopLoop(i) PROVE Settling' /\ PassAnswers
  BY <1>5 DEF StopLoop
<1>6. ASSUME NEW i \in Instances, SlotRead(i) PROVE Settling' /\ PassAnswers
  <2>1. \A u \in Superseded(i) : pipe[i][u] < epoch[u]
    BY DEF Superseded
  <2>2. CASE slot[me[i]].holder = i
    BY <1>6, <2>1, <2>2 DEF SlotRead
  <2>3. CASE slot[me[i]].holder # i
    <3>1. pc'[i] = "beat" /\ pipe'[i] = None /\ \A j \in Instances \ {i} : pc'[j] = pc[j] /\ pipe'[j] = pipe[j]
      BY <1>6, <2>3 DEF SlotRead, Fence, Fenced
    <3> QED
      BY <1>6, <2>3, <3>1 DEF SlotRead
  <2> QED BY <2>2, <2>3
<1>7. ASSUME NEW i \in Instances, SlotWrite(i) PROVE Settling' /\ PassAnswers
  <2>1. \A v \in Units : pipe[i][v] # 0 => held[i][v] = pipe[i][v]
    BY DEF PipelineHoldsItsEpoch, Recording
  <2> QED
    BY <1>7, <2>1 DEF SlotWrite
<1>8. ASSUME NEW i \in Instances, SlotConflict(i) PROVE Settling' /\ PassAnswers
  <2>1. pc'[i] = "beat" /\ pipe'[i] = None /\ \A j \in Instances \ {i} : pc'[j] = pc[j] /\ pipe'[j] = pipe[j]
    BY <1>8 DEF SlotConflict, Fence, Fenced
  <2> QED
    BY <1>8, <2>1 DEF SlotConflict
<1>9. ASSUME NEW i \in Instances, RenewedAll(i) PROVE Settling' /\ PassAnswers
  BY <1>9 DEF RenewedAll
<1>10. ASSUME NEW i \in Instances, Judge(i) PROVE Settling' /\ PassAnswers
  <2>1. pc'[i] = "beat" /\ \A v \in Units : v \in overdue[i] /\ pipe'[i][v] # 0 => v \notin lost[i]
    BY <1>10 DEF Judge, Fence, Fenced
  <2>2. \A j \in Instances : \A v \in Units : pipe'[j][v] = 0 \/ pipe'[j][v] = pipe[j][v]
    <3>1. PICK done \in SUBSET (lost[i] \ listed[me[i]]) :
            \/ Fence(i, "lease")
            \/ pipe' = [pipe EXCEPT ![i] = [u \in Units |-> IF u \in done THEN 0 ELSE @[u]]]
      BY <1>10 DEF Judge
    <3>2. CASE Fence(i, "lease")
      <4>1. pipe' = pipe \/ pipe' = [pipe EXCEPT ![i] = None]
        BY <3>2 DEF Fence
      <4>2. None \in [Units -> Nat] /\ \A v \in Units : None[v] = 0
        BY DEF None
      <4> QED BY <4>1, <4>2
    <3>3. CASE pipe' = [pipe EXCEPT ![i] = [u \in Units |-> IF u \in done THEN 0 ELSE @[u]]]
      BY <3>3
    <3> QED BY <3>1, <3>2, <3>3
  <2> QED
    BY <1>10, <2>1, <2>2 DEF Judge
<1>11. ASSUME NEW i \in Instances, Beat(i) PROVE Settling' /\ PassAnswers
  BY <1>11 DEF Beat
<1>12. ASSUME NEW i \in Instances, Raise(i) PROVE Settling' /\ PassAnswers
  BY <1>12 DEF Raise
<1>13. ASSUME NEW i \in Instances, Crash(i) PROVE Settling' /\ PassAnswers
  BY <1>13 DEF Crash, vars, Vanish
<1>14. ASSUME NEW i \in Instances, Stop(i) PROVE Settling' /\ PassAnswers
  BY <1>14 DEF Stop
<1>15. ASSUME NEW i \in Instances, ReleaseRead(i) PROVE Settling' /\ PassAnswers
  BY <1>15 DEF ReleaseRead
<1>16. ASSUME NEW i \in Instances, ReleaseWrite(i) PROVE Settling' /\ PassAnswers
  BY <1>16 DEF ReleaseWrite, vars, WriteSlot
<1>17. ASSUME NEW i \in Instances, Exit(i) PROVE Settling' /\ PassAnswers
  BY <1>17 DEF Exit, vars, Vanish
<1>18. ASSUME NEW i \in Instances, NEW u \in Units, BackOff(i, u) PROVE Settling' /\ PassAnswers
  BY <1>18 DEF BackOff
<1>19. ASSUME NEW i \in Instances, NEW u \in Units, RefuseStart(i, u) PROVE Settling' /\ PassAnswers
  BY <1>19 DEF RefuseStart
<1>20. ASSUME NEW i \in Instances, NEW u \in Units, TakeEpoch(i, u) PROVE Settling' /\ PassAnswers
  BY <1>20 DEF TakeEpoch
<1>21. ASSUME NEW i \in Instances, NEW u \in Units, LoseEpoch(i, u) PROVE Settling' /\ PassAnswers
  BY <1>21 DEF LoseEpoch
<1>22. ASSUME NEW i \in Instances, NEW u \in Units, KeepEpoch(i, u) PROVE Settling' /\ PassAnswers
  BY <1>22 DEF KeepEpoch
<1>23. ASSUME NEW i \in Instances, NEW u \in Units, Gate(i, u) PROVE Settling' /\ PassAnswers
  BY <1>23 DEF Gate
<1>24. ASSUME NEW i \in Instances, NEW u \in Units, Renew(i, u) PROVE Settling' /\ PassAnswers
  <2>1. \A v \in Units : pipe[i][v] # 0 => held[i][v] = pipe[i][v]
    BY DEF PipelineHoldsItsEpoch, Recording
  <2>2. \A v \in overdue'[i] : pipe[i][v] # 0 => v \in todo'[i] \cup lost'[i]
    BY <1>24, <2>1 DEF Renew
  <2> QED
    BY <1>24, <2>2 DEF Renew
<1>25. ASSUME NEW i \in Instances, NEW u \in Units, Expire(i, u) PROVE Settling' /\ PassAnswers
  BY <1>25 DEF Expire
<1>26. ASSUME NEW i \in Instances, NEW u \in Units, Die(i, u) PROVE Settling' /\ PassAnswers
  BY <1>26 DEF Die
<1>27. ASSUME NEW i \in Instances, NEW due \in BOOLEAN, Pump(i, due) PROVE Settling' /\ PassAnswers
  BY <1>27 DEF Pump
<1>28. ASSUME NEW s \in Slots, Lapse(s) PROVE Settling' /\ PassAnswers
  BY <1>28 DEF Lapse
<1>29. CASE StoreDown
  BY <1>29 DEF StoreDown
<1>30. CASE StoreUp
  BY <1>30 DEF StoreUp
<1>31. ASSUME NEW s \in Slots, NEW u \in Units, Reassign(s, u) PROVE Settling' /\ PassAnswers
  BY <1>31 DEF Reassign
<1>32. ASSUME NEW u \in Units, NEW on \in BOOLEAN, Edit(u, on) PROVE Settling' /\ PassAnswers
  BY <1>32 DEF Edit
<1>33. ASSUME NEW u \in Units, Remove(u) PROVE Settling' /\ PassAnswers
  BY <1>33 DEF Remove
<1>34. ASSUME NEW s \in Slots, Retire(s) PROVE Settling' /\ PassAnswers
  BY <1>34 DEF Retire, vars, WriteSlot
<1>35. CASE UNCHANGED vars
  BY <1>35 DEF vars
<1>36. ASSUME NEW i \in Instances, Instance(i) PROVE Settling' /\ PassAnswers
  <2>1. CASE Claim(i)
    BY <2>1, <1>1, <1>2, <1>3 DEF Claim
  <2>2. CASE Reconcile(i)
    BY <2>2, <1>4, <1>5, <1>18, <1>19, <1>20, <1>22, <1>23 DEF Reconcile
  <2>3. CASE LeasePass(i)
    BY <2>3, <1>6, <1>7, <1>8, <1>9, <1>10, <1>24 DEF LeasePass
  <2>4. CASE Leave(i)
    BY <2>4, <1>14, <1>15, <1>16, <1>17 DEF Leave
  <2>5. CASE \E due \in BOOLEAN : Pump(i, due)
    BY <2>5, <1>27
  <2> QED BY <1>36, <2>1, <2>2, <2>3, <2>4, <2>5, <1>11, <1>12 DEF Instance
<1>37. ASSUME Mishap PROVE Settling' /\ PassAnswers
  BY <1>37, <1>13, <1>21, <1>25, <1>26, <1>28, <1>29, <1>30 DEF Mishap
<1>38. ASSUME Controller PROVE Settling' /\ PassAnswers
  BY <1>38, <1>31, <1>32, <1>33, <1>34 DEF Controller
<1> QED
  BY <1>35, <1>36, <1>37, <1>38 DEF Next, Process

\* A lease pass that comes to its end has dealt with all that had been taken over
\* when it began and whose renewal reached the store (lease_pass, Lease.renew).
THEOREM PassesSettle == Spec => LeasePassSettles
<1>1. Init => Fenced /\ Settling
  BY DEF Init, Fenced, Settling
<1>2. TypeOK /\ Fenced /\ [Next]_vars => Fenced'
  BY FenceStep
<1>3. TypeOK /\ TypeOK' /\ PipelineHoldsItsEpoch /\ Fenced /\ Settling /\ [Next]_vars => Settling' /\ PassAnswers
  BY PassStep
<1>4. PassAnswers => [PassAnswers]_vars
  OBVIOUS
<1> QED
  BY <1>1, <1>2, <1>3, <1>4, TypeCorrect, PipelineUnderItsEpoch, PTL DEF Spec, LeasePassSettles, PassAnswers
=============================================================================
