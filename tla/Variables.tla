------------------------------ MODULE Variables ------------------------------
(***************************************************************************)
(* What the configuration store promises its clients: one linearizable     *)
(* row per path, a ModifyIndex that is new at every write, and writes that *)
(* take a check-and-set index.  This is the promise of the Variables       *)
(* protocol (get, put(cas)), of Nomad's raft -- which the FakeVariables of  *)
(* the cluster state in Python -- and of the file store on one box;        *)
(* FileVariables is shown to implement it. delete differs: under raft it   *)
(* asks the ACL, in the files it does not, and here it is that of the      *)
(* files.                                                                  *)
(*                                                                         *)
(* A call is pending between its invocation and its answer.  Its effect is *)
(* one step in between, so a caller that crashes may leave a landed write  *)
(* or none, and can never know which.                                      *)
(***************************************************************************)
EXTENDS Naturals

CONSTANTS Procs,      \* callers
          Paths,      \* variable paths
          Items,      \* what a row can hold
          NoItems,    \* an absent row
          NoCas,      \* put without a check (cas=None)
          Allowed     \* [Procs -> SUBSET Paths]: the writer's ACL

VARIABLES row,        \* [Paths -> Row]
          used,       \* no row was ever written with an index above this
          call,       \* [Procs -> CallState]
          req,        \* [Procs -> Request], meaningful while not idle
          ans         \* [Procs -> Answer], meaningful when done

vars == <<row, used, call, req, ans>>

Row == [items : Items \cup {NoItems}, index : Nat]
Absent == [items |-> NoItems, index |-> 0]

Request == [op : {"get", "put", "delete"}, path : Paths,
            items : Items, cas : Nat \cup {NoCas}]
CallState == {"idle", "pending", "done"}

\* An answer is a result with the row it read or wrote; Conflict and Forbidden
\* carry no row.
Answer == [result : {"none", "ok", "conflict", "forbidden"}, row : Row]
NoAnswer  == [result |-> "none", row |-> Absent]
Conflict  == [result |-> "conflict", row |-> Absent]
Forbidden == [result |-> "forbidden", row |-> Absent]
Ok(r)     == [result |-> "ok", row |-> r]

\* The check of the check-and-set: no index was given, or it is the row's.
CasHolds(r, index) == r.cas = NoCas \/ r.cas = index

Init == /\ row = [p \in Paths |-> Absent]
        /\ used = 0
        /\ call = [c \in Procs |-> "idle"]
        /\ req \in [Procs -> Request]
        /\ ans = [c \in Procs |-> NoAnswer]

Invoke(c) == /\ call[c] = "idle"
             /\ req' \in [Procs -> Request]
             /\ \A d \in Procs \ {c} : req'[d] = req[d]
             /\ call' = [call EXCEPT ![c] = "pending"]
             /\ UNCHANGED <<row, used, ans>>

\* The call's answer, given in the step that has its effect.
Reply(c, a) == /\ call[c] = "pending"
               /\ call' = [call EXCEPT ![c] = "done"]
               /\ ans' = [ans EXCEPT ![c] = a]
               /\ UNCHANGED req

Get(c) == /\ req[c].op = "get"
          /\ Reply(c, Ok(row[req[c].path]))
          /\ UNCHANGED <<row, used>>

Put(c) == LET r == req[c] IN
          /\ r.op = "put" /\ r.path \in Allowed[c]
          /\ CasHolds(r, row[r.path].index)
          /\ used' \in Nat /\ used' > used
          /\ row' = [row EXCEPT ![r.path] = [items |-> r.items, index |-> used']]
          /\ Reply(c, Ok(row'[r.path]))

Delete(c) == LET r == req[c] IN
             /\ r.op = "delete"
             /\ CasHolds(r, row[r.path].index)
             /\ row' = [row EXCEPT ![r.path] = Absent]
             /\ Reply(c, Ok(Absent))
             /\ UNCHANGED used

\* A conflict is only ever answered when the index really is another one.
Refuse(c) == LET r == req[c] IN
             /\ r.op # "get" /\ ~CasHolds(r, row[r.path].index)
             /\ Reply(c, Conflict)
             /\ UNCHANGED <<row, used>>

Forbid(c) == /\ req[c].op = "put" /\ req[c].path \notin Allowed[c]
             /\ Reply(c, Forbidden)
             /\ UNCHANGED <<row, used>>

Return(c) == /\ call[c] = "done"
             /\ call' = [call EXCEPT ![c] = "idle"]
             /\ ans' = [ans EXCEPT ![c] = NoAnswer]
             /\ UNCHANGED <<row, used, req>>

\* The caller dies; an index it had drawn is never seen in a row.
Crash(c) == /\ call[c] # "idle"
            /\ call' = [call EXCEPT ![c] = "idle"]
            /\ ans' = [ans EXCEPT ![c] = NoAnswer]
            /\ used' \in Nat /\ used' >= used
            /\ UNCHANGED <<row, req>>

\* An index goes by without a write.
Skip == /\ used' \in Nat /\ used' > used
        /\ UNCHANGED <<row, call, req, ans>>

Next == \/ \E c \in Procs : \/ Invoke(c) \/ Get(c) \/ Put(c) \/ Delete(c)
                            \/ Refuse(c) \/ Forbid(c) \/ Return(c) \/ Crash(c)
        \/ Skip

Spec == Init /\ [][Next]_vars
==============================================================================
