------------------------------ MODULE AtomicRow ------------------------------
(***************************************************************************)
(* What a read-modify-write of one row promises: each call that returns    *)
(* has applied its function once, to the row as it then stood, in one      *)
(* step; a call that declines to write returns the row it saw; a call that *)
(* raises has applied it at most once.                                     *)
(***************************************************************************)
CONSTANTS Threads,
          Value,      \* what the row holds, "no row yet" included
          Mutators,   \* functions from a value to the new one, or to NoWrite
          NoWrite     \* mutate() returned None

VARIABLES val,        \* the row
          st,         \* [Threads -> {"idle", "busy", "done", "failed"}]
          fn,         \* the mutator each call was given
          result      \* what a call that is done returned

vars == <<val, st, fn, result>>

Init == /\ val \in Value
        /\ st = [t \in Threads |-> "idle"]
        /\ fn \in [Threads -> Mutators]
        /\ result = [t \in Threads |-> NoWrite]

Goto(t, from, to) == st[t] = from /\ st' = [st EXCEPT ![t] = to]

Begin(t) == /\ Goto(t, "idle", "busy")
            /\ \E m \in Mutators : fn' = [fn EXCEPT ![t] = m]
            /\ UNCHANGED <<val, result>>

Apply(t) == /\ fn[t][val] # NoWrite
            /\ Goto(t, "busy", "done")
            /\ val' = fn[t][val]
            /\ result' = [result EXCEPT ![t] = val']
            /\ UNCHANGED fn

Decline(t) == /\ fn[t][val] = NoWrite
              /\ Goto(t, "busy", "done")
              /\ result' = [result EXCEPT ![t] = val]
              /\ UNCHANGED <<val, fn>>

Fail(t) == /\ Goto(t, "busy", "failed")
           /\ \/ UNCHANGED val
              \/ fn[t][val] # NoWrite /\ val' = fn[t][val]
           /\ UNCHANGED <<fn, result>>

Return(t) == /\ Goto(t, "done", "idle") \/ Goto(t, "failed", "idle")
             /\ result' = [result EXCEPT ![t] = NoWrite]
             /\ UNCHANGED <<val, fn>>

Next == \E t \in Threads : Begin(t) \/ Apply(t) \/ Decline(t) \/ Fail(t) \/ Return(t)

Spec == Init /\ [][Next]_vars
==============================================================================
