---------------------------- MODULE RowWriteProofs ---------------------------
(***************************************************************************)
(* The read-modify-write loop is an atomic row, for every set of threads,  *)
(* every row type, every set of mutators and every number of retries.      *)
(***************************************************************************)
EXTENDS RowWrite, TLAPS

\* A thread between its get and its put holds a value it may write, and that
\* value is still the row's unless the index has moved.
SnapshotOK == \A t \in Threads :
  /\ snap[t].index <= index
  /\ pc[t] = "put" => /\ fn[t][snap[t].val] # NoWrite
                      /\ snap[t].index = index => snap[t].val = val

\* The conflict a thread is about to meet has already been paid for by a write
\* of another thread.
Behind(t) == IF pc[t] = "put" /\ snap[t].index # index THEN 1 ELSE 0
CountOK == \A t \in Threads : tries[t] + Behind(t) <= others[t]

IInv == TypeOK /\ SnapshotOK /\ CountOK

\* Applying a mutator to a value of the row gives a value or declines.
LEMMA MutatorType ==
  ASSUME TypeOK, NEW t \in Threads, NEW v \in Value
  PROVE  fn[t][v] \in Value \cup {NoWrite}
BY RowWriteAssumption DEF TypeOK

\* The initial state satisfies the inductive invariant.
LEMMA InitIInv == Init => IInv
BY RowWriteAssumption DEF Init, IInv, TypeOK, SnapshotOK, CountOK, Behind

\* Every step of the loop keeps the inductive invariant.
LEMMA StepIInv == IInv /\ [Next]_vars => IInv'
<1> SUFFICES ASSUME IInv, [Next]_vars PROVE IInv'
  OBVIOUS
<1> USE DEF IInv
<1>1. ASSUME NEW t \in Threads, Begin(t) PROVE IInv'
  BY <1>1 DEF Begin, Goto, TypeOK, SnapshotOK, CountOK, Behind
<1>2. ASSUME NEW t \in Threads, Get(t) PROVE IInv'
  BY <1>2 DEF Get, Goto, TypeOK, SnapshotOK, CountOK, Behind
<1>3. ASSUME NEW t \in Threads, Land(t), pc[t] = "put" PROVE
        /\ val' \in Value /\ index' \in Nat /\ others' \in [Threads -> Nat]
        /\ \A o \in Threads : others'[o] = IF o = t THEN others[o] ELSE others[o] + 1
  BY <1>3, MutatorType DEF Land, TypeOK, SnapshotOK
<1>4. ASSUME NEW t \in Threads, Put(t) PROVE IInv'
  <2>1. pc[t] = "put" /\ Land(t)
    BY <1>4 DEF Put, Goto
  <2>2. TypeOK'
    BY <1>3, <1>4, <2>1, MutatorType DEF Put, Goto, TypeOK
  <2>3. SnapshotOK'
    BY <1>4, <2>2 DEF Put, Land, Goto, TypeOK, SnapshotOK
  <2>4. CountOK'
    BY <1>3, <1>4, <2>1 DEF Put, Land, Goto, TypeOK, SnapshotOK, CountOK, Behind
  <2> QED BY <2>2, <2>3, <2>4
<1>5. ASSUME NEW t \in Threads, LostAnswer(t) PROVE IInv'
  <2>1. pc[t] = "put" /\ Land(t)
    BY <1>5 DEF LostAnswer, Goto
  <2>2. TypeOK'
    BY <1>3, <1>5, <2>1 DEF LostAnswer, Goto, TypeOK
  <2>3. SnapshotOK'
    BY <1>5, <2>2 DEF LostAnswer, Land, Goto, TypeOK, SnapshotOK
  <2>4. CountOK'
    BY <1>3, <1>5, <2>1 DEF LostAnswer, Land, Goto, TypeOK, SnapshotOK, CountOK, Behind
  <2> QED BY <2>2, <2>3, <2>4
<1>6. ASSUME NEW t \in Threads, Retry(t) PROVE IInv'
  BY <1>6, RowWriteAssumption DEF Retry, Goto, TypeOK, SnapshotOK, CountOK, Behind
<1>7. ASSUME NEW t \in Threads, Raise(t) PROVE IInv'
  BY <1>7 DEF Raise, Goto, TypeOK, SnapshotOK, CountOK, Behind
<1>8. ASSUME NEW t \in Threads, Return(t) PROVE IInv'
  BY <1>8 DEF Return, Goto, TypeOK, SnapshotOK, CountOK, Behind
<1>9. CASE UNCHANGED vars
  BY <1>9 DEF vars, TypeOK, SnapshotOK, CountOK, Behind
<1> QED
  BY <1>1, <1>2, <1>4, <1>5, <1>6, <1>7, <1>8, <1>9 DEF Next

\* The inductive invariant holds throughout.
LEMMA Invariance == Spec => []IInv
BY InitIInv, StepIInv, PTL DEF Spec

\* Types hold in every reachable state of the loop.
THEOREM TypeCorrect == Spec => []TypeOK
<1>1. IInv => TypeOK
  BY DEF IInv
<1> QED
  BY <1>1, Invariance, PTL

\* "A conflict means another instance wrote" (Controller.write): a thread never
\* meets more conflicts than others have written during its call.
THEOREM LockFree == Spec => []ConflictMeansAnotherWrote
<1>1. IInv => ConflictMeansAnotherWrote
  <2> SUFFICES ASSUME IInv, NEW t \in Threads PROVE tries[t] <= others[t]
    BY DEF ConflictMeansAnotherWrote
  <2>1. tries[t] \in Nat /\ others[t] \in Nat /\ tries[t] + Behind(t) <= others[t]
    BY DEF IInv, TypeOK, CountOK
  <2>2. Behind(t) \in {0, 1}
    BY DEF Behind
  <2> QED BY <2>1, <2>2
<1> QED
  BY <1>1, Invariance, PTL

\* A step of the loop is a step of the atomic row or leaves it alone.
LEMMA StepSimulation == IInv /\ [Next]_vars => [Atomic!Next]_(Atomic!vars)
<1> SUFFICES ASSUME IInv, [Next]_vars PROVE [Atomic!Next]_(Atomic!vars)
  OBVIOUS
<1> USE DEF IInv
<1>1. ASSUME NEW t \in Threads, Begin(t) PROVE Atomic!Begin(t)
  BY <1>1 DEF Begin, Goto, Atomic!Begin, Atomic!Goto, st, TypeOK
<1>2. ASSUME NEW t \in Threads, Get(t) PROVE Atomic!Decline(t) \/ UNCHANGED Atomic!vars
  <2>1. CASE fn[t][val] # NoWrite
    BY <1>2, <2>1 DEF Get, Goto, Atomic!vars, st, TypeOK
  <2>2. CASE fn[t][val] = NoWrite
    BY <1>2, <2>2 DEF Get, Goto, Atomic!Decline, Atomic!Goto, st, TypeOK
  <2> QED BY <2>1, <2>2
<1>3. ASSUME NEW t \in Threads, Put(t) PROVE Atomic!Apply(t)
  <2>1. snap[t].val = val /\ fn[t][val] # NoWrite
    BY <1>3 DEF Put, Land, Goto, SnapshotOK
  <2> QED
    BY <1>3, <2>1 DEF Put, Land, Goto, Atomic!Apply, Atomic!Goto, st, TypeOK
<1>4. ASSUME NEW t \in Threads, LostAnswer(t) PROVE Atomic!Fail(t)
  <2>1. snap[t].val = val /\ fn[t][val] # NoWrite
    BY <1>4 DEF LostAnswer, Land, Goto, SnapshotOK
  <2> QED
    BY <1>4, <2>1 DEF LostAnswer, Land, Goto, Atomic!Fail, Atomic!Goto, st, TypeOK
<1>5. ASSUME NEW t \in Threads, Retry(t) PROVE Atomic!Fail(t) \/ UNCHANGED Atomic!vars
  <2>1. CASE tries[t] + 1 < Retries
    BY <1>5, <2>1 DEF Retry, Goto, Atomic!vars, st, TypeOK
  <2>2. CASE ~(tries[t] + 1 < Retries)
    BY <1>5, <2>2 DEF Retry, Goto, Atomic!Fail, Atomic!Goto, st, TypeOK
  <2> QED BY <2>1, <2>2
<1>6. ASSUME NEW t \in Threads, Raise(t) PROVE Atomic!Fail(t)
  BY <1>6 DEF Raise, Goto, Atomic!Fail, Atomic!Goto, st, TypeOK
<1>7. ASSUME NEW t \in Threads, Return(t) PROVE Atomic!Return(t)
  BY <1>7 DEF Return, Goto, Atomic!Return, Atomic!Goto, st, TypeOK
<1>8. CASE UNCHANGED vars
  BY <1>8 DEF vars, Atomic!vars, st
<1> QED
  BY <1>1, <1>2, <1>3, <1>4, <1>5, <1>6, <1>7, <1>8 DEF Next, Atomic!Next

\* Controller.write and next_epoch implement one atomic read-modify-write:
\* no update is lost and no number is issued twice, under any contention and
\* with any store call failing.
THEOREM LoopIsAtomic == Spec => ImplementsAtomicRow
<1>1. Init => Atomic!Init
  BY RowWriteAssumption DEF Init, Atomic!Init, st
<1> QED
  BY <1>1, Invariance, StepSimulation, PTL DEF Spec, ImplementsAtomicRow, Atomic!Spec
==============================================================================
