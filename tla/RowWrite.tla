------------------------------- MODULE RowWrite ------------------------------
(***************************************************************************)
(* The platform's one concurrency primitive: read a row, compute the new   *)
(* one, put it with the index that was read, and on a conflict read again. *)
(* Controller.write (contract.py) is this loop with a mutator and ten      *)
(* tries; next_epoch (epoch.py) is this loop with "+1" and two hundred.    *)
(* Any number of threads, processes and controllers run it at once against *)
(* the store of module Variables; a store call may raise, and a put that   *)
(* raised may have landed.                                                 *)
(***************************************************************************)
EXTENDS Naturals

CONSTANTS Threads, Value, Mutators, NoWrite,
          Retries,    \* attempts before RuntimeError
          MaxWrites   \* bound: no call begins after this many writes

ASSUME RowWriteAssumption ==
         /\ Mutators \subseteq [Value -> Value \cup {NoWrite}]
         /\ NoWrite \notin Value
         /\ Retries \in Nat \ {0}
         /\ MaxWrites \in Nat

VARIABLES val, index, \* the row: its items and its ModifyIndex
          pc,         \* where each thread is in write()
          fn,         \* its mutate
          snap,       \* (items, idx) of its last get
          tries,      \* conflicts it has met in this call
          result,     \* what it returns
          others      \* history: writes by other threads since its call began

vars == <<val, index, pc, fn, snap, tries, result, others>>

\* The promise, with a call busy for as long as it is in the loop.
st == [t \in Threads |-> IF pc[t] \in {"get", "put"} THEN "busy" ELSE pc[t]]
Atomic == INSTANCE AtomicRow

Init == /\ val \in Value
        /\ index = 0
        /\ pc = [t \in Threads |-> "idle"]
        /\ fn \in [Threads -> Mutators]
        /\ snap = [t \in Threads |-> [val |-> val, index |-> 0]]
        /\ tries = [t \in Threads |-> 0]
        /\ result = [t \in Threads |-> NoWrite]
        /\ others = [t \in Threads |-> 0]

Goto(t, from, to) == pc[t] = from /\ pc' = [pc EXCEPT ![t] = to]

Begin(t) == /\ index < MaxWrites
            /\ Goto(t, "idle", "get")
            /\ \E m \in Mutators : fn' = [fn EXCEPT ![t] = m]
            /\ tries' = [tries EXCEPT ![t] = 0]
            /\ others' = [others EXCEPT ![t] = 0]
            /\ UNCHANGED <<val, index, snap, result>>

\* items, idx = vars.get(path); new = mutate(items): None ends the call here.
Get(t) == /\ snap' = [snap EXCEPT ![t] = [val |-> val, index |-> index]]
          /\ \/ /\ fn[t][val] # NoWrite
                /\ Goto(t, "get", "put")
                /\ UNCHANGED result
             \/ /\ fn[t][val] = NoWrite
                /\ Goto(t, "get", "done")
                /\ result' = [result EXCEPT ![t] = val]
          /\ UNCHANGED <<val, index, fn, tries, others>>

\* As a bug: the put carries no index.
LandUnchecked(t) == /\ val' = fn[t][snap[t].val]
                    /\ index' = index + 1
                    /\ others' = [o \in Threads |-> IF o = t THEN others[o] ELSE others[o] + 1]

\* The row as this thread's put would leave it.
Land(t) == /\ snap[t].index = index
           /\ val' = fn[t][snap[t].val]
           /\ index' = index + 1
           /\ others' = [o \in Threads |-> IF o = t THEN others[o] ELSE others[o] + 1]

\* vars.put(path, new, cas=idx) succeeds: the call returns new.
Put(t) == /\ Land(t)
          /\ Goto(t, "put", "done")
          /\ result' = [result EXCEPT ![t] = fn[t][snap[t].val]]
          /\ UNCHANGED <<fn, snap, tries>>

\* As a bug: the loop puts again without having read again.
RetryBlind(t) == /\ snap[t].index # index
                 /\ tries' = [tries EXCEPT ![t] = @ + 1]
                 /\ Goto(t, "put", IF tries[t] + 1 < Retries THEN "put" ELSE "failed")
                 /\ UNCHANGED <<val, index, fn, snap, result, others>>

\* Conflict: read again, or give up.
Retry(t) == /\ snap[t].index # index
            /\ tries' = [tries EXCEPT ![t] = @ + 1]
            /\ Goto(t, "put", IF tries[t] + 1 < Retries THEN "get" ELSE "failed")
            /\ UNCHANGED <<val, index, fn, snap, result, others>>

\* The store is unreachable: the exception leaves the loop.
Raise(t) == /\ Goto(t, "get", "failed") \/ Goto(t, "put", "failed")
            /\ UNCHANGED <<val, index, fn, snap, tries, result, others>>

\* The put landed and its answer was lost.
LostAnswer(t) == /\ Land(t)
                 /\ Goto(t, "put", "failed")
                 /\ UNCHANGED <<fn, snap, tries, result>>

Return(t) == /\ Goto(t, "done", "idle") \/ Goto(t, "failed", "idle")
             /\ result' = [result EXCEPT ![t] = NoWrite]
             /\ UNCHANGED <<val, index, fn, snap, tries, others>>

Next == \E t \in Threads : \/ Begin(t) \/ Get(t) \/ Put(t) \/ Retry(t)
                           \/ Raise(t) \/ LostAnswer(t) \/ Return(t)

Spec == Init /\ [][Next]_vars

-----------------------------------------------------------------------------
(* Properties *)

TypeOK == /\ val \in Value
          /\ index \in Nat
          /\ pc \in [Threads -> {"idle", "get", "put", "done", "failed"}]
          /\ fn \in [Threads -> Mutators]
          /\ snap \in [Threads -> [val : Value, index : Nat]]
          /\ tries \in [Threads -> Nat]
          /\ result \in [Threads -> Value \cup {NoWrite}]
          /\ others \in [Threads -> Nat]

\* "A conflict means another instance wrote" (Controller.write): a thread has
\* met no more conflicts than there were writes by others during its call, so
\* one that gives up has been passed by as many writers as it made attempts.
\* The loop is lock-free: contention alone can never stop everybody.
ConflictMeansAnotherWrote == \A t \in Threads : tries[t] <= others[t]

\* Every behaviour of the loops is one of the atomic row: two controllers
\* adding different units to one worker both land, and two callers of
\* next_epoch get two different numbers.
ImplementsAtomicRow == Atomic!Spec
==============================================================================
