------------------------- MODULE FileVariablesProofs -------------------------
(***************************************************************************)
(* For any number of processes, paths and calls, killed wherever they are: *)
(* the files implement the store that Variables promises.                  *)
(*                                                                         *)
(* The lock makes it so. Who is past flock(LOCK_EX) is alone, so the index *)
(* it compared is still the row's when it renames, and the index it drew   *)
(* is the one index that no row may have yet.                              *)
(***************************************************************************)
EXTENDS FileVariables, TLAPS

Inside == {"check", "draw", "publish", "remove", "draw_after", "unlock"}

\* Who is inside the with block holds the lock, alone.
Exclusive == \A c \in Procs : callAt[c] \in Inside => lock = {c}

\* What a call has established on its way, and the lock has kept true.
Established ==
  \A c \in Procs : LET r == req[c] IN
    /\ callAt[c] = "read" => r.op = "get"
    /\ callAt[c] = "enter" => r.op # "get"
    /\ callAt[c] \in {"check", "draw", "publish"} => (r.op = "put" => r.path \in Allowed[c])
    /\ callAt[c] = "check" => r.op # "get"
    /\ callAt[c] \in {"draw", "publish"} => r.op = "put"
    /\ callAt[c] = "remove" => r.op = "delete"
    /\ callAt[c] \in {"draw", "publish", "remove"} => Promise!CasHolds(r, row[r.path].index)

\* An index that was drawn is one the counter has reached.
DrawnIsCounted == Drawn => counter > 0

FileInv == FileTypeOK /\ Exclusive /\ Established /\ DrawnIsCounted

LEMMA RowTypes ==
  /\ NoRow \in Promise!Row /\ Promise!NoAnswer \in Promise!Answer
  /\ Promise!Conflict \in Promise!Answer /\ Promise!Forbidden \in Promise!Answer
  /\ \A r \in Promise!Row : Promise!Ok(r) \in Promise!Answer
BY DEF NoRow, Promise!Row, Promise!Answer, Promise!NoAnswer, Promise!Conflict, Promise!Forbidden,
       Promise!Ok, Promise!Absent

LEMMA FileInitHolds == FileInit => FileInv
<1> SUFFICES ASSUME FileInit PROVE FileInv
  OBVIOUS
<1>1. FileTypeOK
  BY RowTypes DEF FileInit, FileTypeOK, PcState
<1>2. Exclusive /\ Established /\ DrawnIsCounted
  BY DEF FileInit, Exclusive, Established, DrawnIsCounted, Drawn, Inside
<1> QED
  BY <1>1, <1>2 DEF FileInv

-----------------------------------------------------------------------------
\* The types: each step writes a request, a row or an answer there is.
LEMMA FileTypeStep ==
  ASSUME FileTypeOK, NEW c \in Procs,
         \/ Invoke(c) \/ GetFile(c) \/ Forbid(c) \/ Lock(c) \/ Check(c) \/ Draw(c)
         \/ Publish(c) \/ Remove(c) \/ Unlock(c) \/ Leave(c) \/ KillCaller(c)
  PROVE  FileTypeOK'
<1> USE DEF FileTypeOK, Advance, PcState
<1>1. CASE Invoke(c)
  BY <1>1 DEF Invoke
<1>2. CASE GetFile(c)
  <2>1. row[req[c].path] \in Promise!Row
    BY DEF Request
  <2> QED
    BY <1>2, <2>1, RowTypes DEF GetFile
<1>3. CASE Forbid(c)
  BY <1>3, RowTypes DEF Forbid
<1>4. CASE Lock(c)
  BY <1>4 DEF Lock
<1>5. CASE Check(c)
  BY <1>5, RowTypes DEF Check
<1>6. CASE Draw(c)
  BY <1>6 DEF Draw
<1>7. CASE Publish(c)
  <2> DEFINE new == [items |-> req[c].items, index |-> counter]
  <2>1. new \in Promise!Row
    BY DEF Request, Promise!Row
  <2>2. row' = [row EXCEPT ![req[c].path] = new] /\ ans' = [ans EXCEPT ![c] = Promise!Ok(new)]
    BY <1>7 DEF Publish
  <2>3. callAt' = [callAt EXCEPT ![c] = "unlock"] /\ UNCHANGED <<counter, lock, req>>
    BY <1>7 DEF Publish
  <2> HIDE DEF new
  <2>4. row' \in [Paths -> Promise!Row]
    BY <2>1, <2>2
  <2>5. ans' \in [Procs -> Promise!Answer]
    BY <2>1, <2>2, RowTypes
  <2> QED
    BY <2>3, <2>4, <2>5
<1>8. CASE Remove(c)
  BY <1>8, RowTypes DEF Remove
<1>9. CASE Unlock(c)
  BY <1>9 DEF Unlock
<1>10. CASE Leave(c)
  BY <1>10, RowTypes DEF Leave
<1>11. CASE KillCaller(c)
  BY <1>11, RowTypes DEF KillCaller
<1> QED
  BY <1>1, <1>2, <1>3, <1>4, <1>5, <1>6, <1>7, <1>8, <1>9, <1>10, <1>11

\* A call's step on its way, with the lock as the step leaves it.
Moves(c, to) == /\ to \in PcState
                /\ callAt' = [callAt EXCEPT ![c] = to]
                /\ to \in Inside => lock' = {c}
                /\ \A d \in Procs \ {c} : lock = {d} => lock' = {d}

LEMMA CallMoves ==
  ASSUME FileInv, NEW c \in Procs, NEW to, Moves(c, to)
  PROVE  /\ \A d \in Procs : callAt'[d] = IF d = c THEN to ELSE callAt[d]
         /\ Exclusive'
         /\ callAt[c] \in Inside => \A d \in Procs \ {c} : callAt[d] \notin Inside
         /\ SeenCalls' = [SeenCalls EXCEPT ![c] = Seen(to)]
<1>1. \A d \in Procs : callAt'[d] = IF d = c THEN to ELSE callAt[d]
  BY DEF FileInv, FileTypeOK, Moves
<1>2. Exclusive'
  BY <1>1 DEF FileInv, Exclusive, Moves
<1>3. callAt[c] \in Inside => \A d \in Procs \ {c} : callAt[d] \notin Inside
  BY DEF FileInv, Exclusive
<1>4. SeenCalls' = [SeenCalls EXCEPT ![c] = Seen(to)]
  <2>1. SeenCalls' = [d \in Procs |-> Seen(callAt'[d])] /\ SeenCalls = [d \in Procs |-> Seen(callAt[d])]
    BY DEF SeenCalls
  <2>2. \A d \in Procs : Seen(callAt'[d]) = IF d = c THEN Seen(to) ELSE Seen(callAt[d])
    BY <1>1 DEF Seen
  <2> QED
    BY <2>1, <2>2
<1> QED
  BY <1>1, <1>2, <1>3, <1>4

\* What the lock protects: a step of one process leaves what the others have
\* established, as only who is inside changes a row.
LEMMA FileInvStep ==
  ASSUME FileInv, NEW c \in Procs,
         \/ Invoke(c) \/ GetFile(c) \/ Forbid(c) \/ Lock(c) \/ Check(c) \/ Draw(c)
         \/ Publish(c) \/ Remove(c) \/ Unlock(c) \/ Leave(c) \/ KillCaller(c)
  PROVE  FileInv'
<1> USE DEF PcState
<1>0. FileTypeOK'
  BY FileTypeStep DEF FileInv
<1>1. CASE Invoke(c)
  <2>1. PICK r \in Request :
          /\ callAt[c] = "idle" /\ callAt' = [callAt EXCEPT ![c] = IF r.op = "get" THEN "read" ELSE "enter"]
          /\ req' = [req EXCEPT ![c] = r] /\ UNCHANGED <<row, counter, lock, ans>>
    BY <1>1 DEF Invoke, Advance
  <2> DEFINE to == IF r.op = "get" THEN "read" ELSE "enter"
  <2>4. Moves(c, to)
    BY <2>1 DEF Moves, Inside
  <2>2. Exclusive' /\ \A d \in Procs : callAt'[d] = IF d = c THEN to ELSE callAt[d]
    BY <2>4, CallMoves
  <2>3. Established' /\ DrawnIsCounted'
    BY <2>1, <2>2 DEF FileInv, FileTypeOK, Established, DrawnIsCounted, Drawn
  <2> QED
    BY <1>0, <2>2, <2>3 DEF FileInv
<1>2. ASSUME NEW from \in PcState, NEW to \in PcState, Advance(c, from, to), from \notin {"draw", "publish", "remove"},
             to = "read" => FALSE, to \in Inside => lock' = {c}, \A d \in Procs \ {c} : lock = {d} => lock' = {d},
             to = "enter" => FALSE,
             to = "check" => req[c].op # "get" /\ (req[c].op = "put" => req[c].path \in Allowed[c]),
             to = "draw" => req[c].op = "put" /\ req[c].path \in Allowed[c] /\ Promise!CasHolds(req[c], row[req[c].path].index),
             to = "publish" => FALSE,
             to = "remove" => req[c].op = "delete" /\ Promise!CasHolds(req[c], row[req[c].path].index),
             UNCHANGED <<row, req>>, counter' \in Nat, counter' >= counter
      PROVE  FileInv'
  <2>4. Moves(c, to)
    BY <1>2 DEF Advance, Moves
  <2>1. Exclusive' /\ \A d \in Procs : callAt'[d] = IF d = c THEN to ELSE callAt[d]
    BY <2>4, CallMoves
  <2>2. Established'
    BY <1>2, <2>1 DEF FileInv, Established
  <2>3. DrawnIsCounted'
    BY <1>2, <2>1 DEF FileInv, FileTypeOK, DrawnIsCounted, Drawn
  <2> QED
    BY <1>0, <2>1, <2>2, <2>3 DEF FileInv
<1>3. CASE GetFile(c)
  BY <1>2, <1>3 DEF GetFile, Inside, FileInv, FileTypeOK
<1>4. CASE Forbid(c)
  BY <1>2, <1>4 DEF Forbid, Inside, FileInv, FileTypeOK
<1>5. CASE Lock(c)
  BY <1>2, <1>5 DEF Lock, Advance, Inside, FileInv, FileTypeOK, Established
<1>6. CASE Check(c)
  <2> DEFINE r == req[c]
             ok == Promise!CasHolds(r, row[r.path].index)
             to == IF ~ok THEN "unlock" ELSE IF r.op = "put" THEN "draw" ELSE "remove"
  <2>1. Advance(c, "check", to) /\ UNCHANGED <<row, counter, lock, req>>
    BY <1>6 DEF Check
  <2>2. lock = {c} /\ r.op \in {"put", "delete"} /\ (r.op = "put" => r.path \in Allowed[c])
    BY <2>1 DEF Advance, FileInv, Exclusive, Inside, Established, FileTypeOK, Request
  <2>3. to \in PcState /\ to \in {"unlock", "draw", "remove"} /\ (to = "draw" => ok /\ r.op = "put")
        /\ (to = "remove" => ok /\ r.op = "delete")
    BY <2>2
  <2> HIDE DEF to
  <2> QED
    BY <1>2, <2>1, <2>2, <2>3 DEF FileInv, FileTypeOK
<1>7. CASE Draw(c)
  <2>1. CASE callAt[c] = "draw"
    <3>1. callAt' = [callAt EXCEPT ![c] = "publish"] /\ counter' = counter + 1 /\ UNCHANGED <<row, lock, req>>
      BY <1>7, <2>1 DEF Draw, Advance
    <3>2. lock = {c}
      BY <2>1 DEF FileInv, Exclusive, Inside
    <3>3. Exclusive' /\ \A d \in Procs : callAt'[d] = IF d = c THEN "publish" ELSE callAt[d]
      <4>1. Moves(c, "publish")
        BY <3>1, <3>2 DEF Moves
      <4> QED
        BY <4>1, CallMoves
    <3>4. Established'
      BY <2>1, <3>1, <3>3 DEF FileInv, Established
    <3>5. DrawnIsCounted'
      BY <3>1 DEF FileInv, FileTypeOK, DrawnIsCounted
    <3> QED
      BY <1>0, <3>3, <3>4, <3>5 DEF FileInv
  <2>2. CASE callAt[c] # "draw"
    <3>1. Advance(c, "draw_after", "unlock") /\ counter' = counter + 1 /\ UNCHANGED <<row, lock, req>>
      BY <1>7, <2>2 DEF Draw, Advance
    <3>2. lock = {c}
      BY <3>1 DEF FileInv, Exclusive, Inside, Advance
    <3> QED
      BY <1>2, <3>1, <3>2 DEF FileInv, FileTypeOK
  <2> QED
    BY <2>1, <2>2
<1>8. CASE Publish(c) \/ Remove(c)
  <2>1. PICK to \in {"unlock", "draw_after"} : callAt' = [callAt EXCEPT ![c] = to]
    BY <1>8 DEF Publish, Remove, Advance
  <2>2. callAt[c] \in {"publish", "remove"} /\ lock = {c} /\ UNCHANGED <<counter, lock, req>>
    BY <1>8 DEF Publish, Remove, Advance, FileInv, Exclusive, Inside
  <2>3. /\ Exclusive' /\ \A d \in Procs : callAt'[d] = IF d = c THEN to ELSE callAt[d]
        /\ \A d \in Procs \ {c} : callAt[d] \notin Inside
    <3>1. Moves(c, to) /\ callAt[c] \in Inside
      BY <2>1, <2>2 DEF Moves, Inside
    <3> QED
      BY <3>1, CallMoves
  <2>4. Established'
    BY <2>2, <2>3 DEF FileInv, Established, Inside
  <2>5. DrawnIsCounted'
    BY <2>2, <2>3 DEF FileInv, DrawnIsCounted, Drawn
  <2> QED
    BY <1>0, <2>3, <2>4, <2>5 DEF FileInv
<1>9. CASE Unlock(c)
  BY <1>2, <1>9 DEF Unlock, Inside, FileInv, FileTypeOK
<1>10. CASE Leave(c)
  BY <1>2, <1>10 DEF Leave, Inside, FileInv, FileTypeOK
<1>11. CASE KillCaller(c)
  <2>1. /\ callAt' = [callAt EXCEPT ![c] = "idle"] /\ lock' = lock \ {c} /\ UNCHANGED <<row, counter, req>>
    BY <1>11 DEF KillCaller
  <2>2. Exclusive' /\ \A d \in Procs : callAt'[d] = IF d = c THEN "idle" ELSE callAt[d]
    <3>1. Moves(c, "idle")
      BY <2>1 DEF Moves, Inside
    <3> QED
      BY <3>1, CallMoves
  <2>3. Established' /\ DrawnIsCounted'
    BY <2>1, <2>2 DEF FileInv, Established, DrawnIsCounted, Drawn
  <2> QED
    BY <1>0, <2>2, <2>3 DEF FileInv
<1> QED
  BY <1>1, <1>3, <1>4, <1>5, <1>6, <1>7, <1>8, <1>9, <1>10, <1>11

-----------------------------------------------------------------------------
\* Only the process inside can have drawn an index, so what counts as used
\* moves when it publishes and at no other time.
LEMMA UsedMoves ==
  ASSUME FileInv, NEW c \in Procs, NEW to, Moves(c, to), FileTypeOK'
  PROVE  /\ UsedIndex \in Nat
         /\ callAt[c] # "publish" /\ to # "publish" /\ counter' = counter => UsedIndex' = UsedIndex
         /\ callAt[c] \in Inside =>
              /\ UsedIndex = IF callAt[c] = "publish" THEN counter - 1 ELSE counter
              /\ UsedIndex' = IF to = "publish" THEN counter' - 1 ELSE counter'
<1>1. \A d \in Procs : callAt'[d] = IF d = c THEN to ELSE callAt[d]
  BY CallMoves
<1>2. callAt[c] \in Inside => \A d \in Procs \ {c} : callAt[d] \notin Inside
  BY CallMoves
<1>3. UsedIndex \in Nat
  BY DEF FileInv, FileTypeOK, DrawnIsCounted, UsedIndex
<1>4. ASSUME callAt[c] # "publish", to # "publish", counter' = counter PROVE UsedIndex' = UsedIndex
  <2>1. Drawn' <=> Drawn
    BY <1>1, <1>4 DEF Drawn
  <2> QED
    BY <1>4, <2>1 DEF UsedIndex
<1>5. ASSUME callAt[c] \in Inside
      PROVE  /\ UsedIndex = IF callAt[c] = "publish" THEN counter - 1 ELSE counter
             /\ UsedIndex' = IF to = "publish" THEN counter' - 1 ELSE counter'
  <2>1. /\ Drawn <=> callAt[c] = "publish"
        /\ Drawn' <=> to = "publish"
    BY <1>1, <1>2, <1>5 DEF Drawn, Inside
  <2> QED
    BY <2>1 DEF UsedIndex
<1> QED
  BY <1>3, <1>4, <1>5

\* Each step of a process is a step of the promised store, or none.
LEMMA Simulates ==
  ASSUME FileInv, NEW c \in Procs, FileInv',
         \/ Invoke(c) \/ GetFile(c) \/ Forbid(c) \/ Lock(c) \/ Check(c) \/ Draw(c)
         \/ Publish(c) \/ Remove(c) \/ Unlock(c) \/ Leave(c) \/ KillCaller(c)
  PROVE  [Promise!Next]_(Promise!vars)
<1> SUFFICES Promise!Next \/ UNCHANGED <<row, UsedIndex, SeenCalls, req, ans>>
  BY DEF Promise!vars
<1>0. FileTypeOK /\ FileTypeOK' /\ SeenCalls[c] = Seen(callAt[c])
  BY DEF FileInv, SeenCalls
<1>1. CASE Invoke(c)
  <2>1. PICK r \in Request :
          /\ callAt[c] = "idle" /\ callAt' = [callAt EXCEPT ![c] = IF r.op = "get" THEN "read" ELSE "enter"]
          /\ req' = [req EXCEPT ![c] = r] /\ UNCHANGED <<row, counter, lock, ans>>
    BY <1>1 DEF Invoke, Advance
  <2> DEFINE to == IF r.op = "get" THEN "read" ELSE "enter"
  <2>2. Moves(c, to) /\ to # "publish" /\ Seen(to) = "pending" /\ Seen(callAt[c]) = "idle"
    BY <2>1 DEF Moves, PcState, Inside, Seen
  <2>3. SeenCalls' = [SeenCalls EXCEPT ![c] = "pending"] /\ UsedIndex' = UsedIndex
    <3> HIDE DEF to
    <3> QED
      BY <1>0, <2>1, <2>2, CallMoves, UsedMoves
  <2>4. req' \in [Procs -> Promise!Request] /\ \A d \in Procs \ {c} : req'[d] = req[d]
    BY <1>0, <2>1, StoreAssumption DEF FileTypeOK, Request, Promise!Request
  <2> QED
    BY <1>0, <2>1, <2>2, <2>3, <2>4 DEF Promise!Next, Promise!Invoke
\* An answer given without changing anything.
<1>2. ASSUME NEW a, NEW from, from \in {"read", "enter", "check"},
             NEW to, to \in {"unlock", "done"}, Advance(c, from, to), Moves(c, to),
             ans' = [ans EXCEPT ![c] = a], UNCHANGED <<row, counter, req>>
      PROVE  Promise!Reply(c, a) /\ UNCHANGED <<row, UsedIndex>>
  <2>1. Seen(to) = "done" /\ Seen(callAt[c]) = "pending" /\ to # "publish" /\ callAt[c] # "publish"
    BY <1>2 DEF Seen, Advance
  <2>2. SeenCalls' = [SeenCalls EXCEPT ![c] = "done"] /\ UsedIndex' = UsedIndex
    BY <1>0, <1>2, <2>1, CallMoves, UsedMoves
  <2> QED
    BY <1>0, <1>2, <2>1, <2>2 DEF Promise!Reply
\* A step that its caller cannot see.
<1>3. ASSUME NEW to, Moves(c, to), Seen(to) = Seen(callAt[c]),
             \/ callAt[c] = "draw" /\ to = "publish" /\ counter' = counter + 1
             \/ callAt[c] # "publish" /\ to # "publish" /\ counter' = counter,
             UNCHANGED <<row, req, ans>>
      PROVE  UNCHANGED <<row, UsedIndex, SeenCalls, req, ans>>
  <2>1. SeenCalls' = [SeenCalls EXCEPT ![c] = Seen(callAt[c])]
    BY <1>3, CallMoves
  <2>2. SeenCalls' = SeenCalls
    BY <2>1 DEF SeenCalls
  <2>3. CASE callAt[c] = "draw" /\ to = "publish" /\ counter' = counter + 1
    <3>1. callAt[c] \in Inside
      BY <2>3 DEF Inside
    <3> QED
      BY <1>0, <1>3, <2>2, <2>3, <3>1, UsedMoves DEF FileTypeOK
  <2>4. CASE callAt[c] # "publish" /\ to # "publish" /\ counter' = counter
    BY <1>0, <1>3, <2>2, <2>4, UsedMoves
  <2> QED
    BY <1>3, <2>3, <2>4
<1>4. CASE GetFile(c)
  <2>1. Moves(c, "done") /\ Advance(c, "read", "done") /\ req[c].op = "get"
    BY <1>4 DEF GetFile, Advance, Moves, PcState, Inside, FileInv, Established
  <2>2. Promise!Reply(c, Promise!Ok(row[req[c].path])) /\ UNCHANGED <<row, UsedIndex>>
    BY <1>2, <1>4, <2>1 DEF GetFile
  <2> QED
    BY <2>1, <2>2 DEF Promise!Next, Promise!Get
<1>5. CASE Forbid(c)
  <2>1. Moves(c, "done") /\ Advance(c, "enter", "done")
    BY <1>5 DEF Forbid, Advance, Moves, PcState, Inside
  <2>2. Promise!Reply(c, Promise!Forbidden) /\ UNCHANGED <<row, UsedIndex>>
    BY <1>2, <1>5, <2>1 DEF Forbid
  <2> QED
    BY <1>5, <2>2 DEF Forbid, Promise!Next, Promise!Forbid
<1>6. CASE Lock(c)
  <2>1. Moves(c, "check") /\ Seen("check") = Seen(callAt[c]) /\ callAt[c] # "publish"
    BY <1>6 DEF Lock, Advance, Moves, PcState, Inside, Seen
  <2> QED
    BY <1>3, <1>6, <2>1 DEF Lock
<1>7. CASE Check(c)
  <2> DEFINE r == req[c]
             ok == Promise!CasHolds(r, row[r.path].index)
             to == IF ~ok THEN "unlock" ELSE IF r.op = "put" THEN "draw" ELSE "remove"
  <2>1. /\ Advance(c, "check", to) /\ UNCHANGED <<row, counter, lock, req>>
        /\ ans' = [ans EXCEPT ![c] = IF ok THEN @ ELSE Promise!Conflict]
    BY <1>7 DEF Check
  <2>2. lock = {c} /\ r.op # "get"
    BY <2>1 DEF Advance, FileInv, Exclusive, Inside, Established
  <2>3. Moves(c, to)
    BY <2>1, <2>2 DEF Advance, Moves, PcState, Inside
  <2>4. CASE ok
    <3>1. Seen(to) = Seen(callAt[c]) /\ callAt[c] # "publish" /\ to # "publish"
      BY <2>1, <2>4 DEF Seen, Advance
    <3>2. ans' = ans
      BY <1>0, <2>1, <2>4 DEF FileTypeOK
    <3> HIDE DEF to
    <3> QED
      BY <1>3, <2>1, <2>3, <3>1, <3>2
  <2>5. CASE ~ok
    <3>1. Promise!Reply(c, Promise!Conflict) /\ UNCHANGED <<row, UsedIndex>>
      BY <1>2, <2>1, <2>3, <2>5
    <3> QED
      BY <2>2, <2>5, <3>1 DEF Promise!Next, Promise!Refuse
  <2> QED
    BY <2>4, <2>5
<1>8. CASE Draw(c)
  <2>1. CASE callAt[c] = "draw"
    <3>1. lock = {c}
      BY <2>1 DEF FileInv, Exclusive, Inside
    <3>2. Moves(c, "publish") /\ Seen("publish") = Seen(callAt[c]) /\ counter' = counter + 1
      BY <1>8, <2>1, <3>1 DEF Draw, Advance, Moves, PcState, Inside, Seen
    <3>3. UNCHANGED <<row, req, ans>>
      BY <1>8 DEF Draw
    <3> QED
      BY <1>3, <2>1, <3>2, <3>3
  <2>2. CASE callAt[c] # "draw"
    <3>1. lock = {c} /\ callAt[c] = "draw_after"
      BY <1>8, <2>2 DEF FileInv, Exclusive, Inside, Draw, Advance
    <3>2. Moves(c, "unlock") /\ Seen("unlock") = Seen(callAt[c]) /\ counter' = counter + 1
      BY <1>8, <2>2, <3>1 DEF Draw, Advance, Moves, PcState, Inside, Seen
    <3>3. SeenCalls' = SeenCalls
      <4>1. SeenCalls' = [SeenCalls EXCEPT ![c] = Seen(callAt[c])]
        BY <3>2, CallMoves
      <4> QED
        BY <4>1 DEF SeenCalls
    <3>4. callAt[c] \in Inside
      BY <3>1 DEF Inside
    <3>5. UsedIndex = counter /\ UsedIndex' = counter'
      BY <1>0, <3>1, <3>2, <3>4, UsedMoves
    <3>6. UsedIndex' \in Nat /\ UsedIndex' > UsedIndex
      BY <1>0, <3>2, <3>5 DEF FileTypeOK
    <3> QED
      BY <1>8, <3>3, <3>6 DEF Draw, Promise!Next, Promise!Skip
  <2> QED
    BY <2>1, <2>2
<1>9. CASE Publish(c)
  <2> DEFINE r == req[c]
             new == [items |-> r.items, index |-> counter]
  <2>1. /\ callAt[c] = "publish" /\ callAt' = [callAt EXCEPT ![c] = "unlock"]
        /\ row' = [row EXCEPT ![r.path] = new] /\ ans' = [ans EXCEPT ![c] = Promise!Ok(new)]
        /\ UNCHANGED <<counter, lock, req>>
    BY <1>9 DEF Publish, Advance
  <2>2. lock = {c} /\ callAt[c] \in Inside /\ r.op = "put" /\ r.path \in Allowed[c]
        /\ Promise!CasHolds(r, row[r.path].index)
    BY <2>1 DEF FileInv, Exclusive, Inside, Established
  <2>3. Moves(c, "unlock") /\ Seen("unlock") = "done" /\ Seen(callAt[c]) = "pending"
    BY <2>1, <2>2 DEF Moves, PcState, Seen
  <2>4. SeenCalls' = [SeenCalls EXCEPT ![c] = "done"]
    BY <2>3, CallMoves
  <2>5. UsedIndex = counter - 1 /\ UsedIndex' = counter
    BY <1>0, <2>1, <2>2, <2>3, UsedMoves
  <2>6. row'[r.path] = new /\ UsedIndex' \in Nat /\ UsedIndex' > UsedIndex
    <3>1. r.path \in Paths
      BY <1>0 DEF FileTypeOK, Request
    <3> QED
      BY <1>0, <2>1, <2>5, <3>1 DEF FileTypeOK
  <2>7. Promise!Reply(c, Promise!Ok(row'[r.path]))
    BY <1>0, <2>1, <2>3, <2>4, <2>6 DEF Promise!Reply
  <2> QED
    BY <2>1, <2>2, <2>5, <2>6, <2>7 DEF Promise!Next, Promise!Put
<1>10. CASE Remove(c)
  <2> DEFINE r == req[c]
  <2>1. /\ callAt[c] = "remove" /\ callAt' = [callAt EXCEPT ![c] = "draw_after"]
        /\ row' = [row EXCEPT ![r.path] = NoRow] /\ ans' = [ans EXCEPT ![c] = Promise!Ok(NoRow)]
        /\ UNCHANGED <<counter, lock, req>>
    BY <1>10 DEF Remove, Advance
  <2>2. lock = {c} /\ r.op = "delete" /\ Promise!CasHolds(r, row[r.path].index)
    BY <2>1 DEF FileInv, Exclusive, Inside, Established
  <2>3. Moves(c, "draw_after") /\ Seen("draw_after") = "done" /\ Seen(callAt[c]) = "pending"
    BY <2>1, <2>2 DEF Moves, PcState, Seen, Inside
  <2>4. SeenCalls' = [SeenCalls EXCEPT ![c] = "done"] /\ UsedIndex' = UsedIndex
    BY <1>0, <2>1, <2>3, CallMoves, UsedMoves
  <2>5. Promise!Reply(c, Promise!Ok(NoRow))
    BY <1>0, <2>1, <2>3, <2>4 DEF Promise!Reply
  <2> QED
    BY <2>1, <2>2, <2>4, <2>5 DEF Promise!Next, Promise!Delete, NoRow
<1>11. CASE Unlock(c)
  <2>1. Moves(c, "done") /\ Seen("done") = Seen(callAt[c]) /\ callAt[c] # "publish"
    BY <1>11 DEF Unlock, Advance, Moves, PcState, Inside, Seen
  <2> QED
    BY <1>3, <1>11, <2>1 DEF Unlock
<1>12. CASE Leave(c)
  <2>1. /\ Moves(c, "idle") /\ Seen("idle") = "idle" /\ Seen(callAt[c]) = "done"
        /\ callAt[c] # "publish" /\ counter' = counter
    BY <1>12 DEF Leave, Advance, Moves, PcState, Inside, Seen
  <2>2. SeenCalls' = [SeenCalls EXCEPT ![c] = "idle"] /\ UsedIndex' = UsedIndex
    BY <1>0, <2>1, CallMoves, UsedMoves
  <2> QED
    BY <1>0, <1>12, <2>1, <2>2 DEF Leave, Promise!Next, Promise!Return
<1>13. CASE KillCaller(c)
  <2>1. Moves(c, "idle") /\ Seen("idle") = "idle" /\ Seen(callAt[c]) # "idle" /\ counter' = counter
    BY <1>13 DEF KillCaller, Moves, PcState, Inside, Seen
  <2>2. SeenCalls' = [SeenCalls EXCEPT ![c] = "idle"]
    BY <2>1, CallMoves
  <2>3. UsedIndex' \in Nat /\ UsedIndex' >= UsedIndex
    <3>1. CASE callAt[c] = "publish"
      <4>1. callAt[c] \in Inside
        BY <3>1 DEF Inside
      <4>2. UsedIndex = counter - 1 /\ UsedIndex' = counter
        BY <1>0, <2>1, <3>1, <4>1, UsedMoves
      <4> QED
        BY <1>0, <4>2 DEF FileTypeOK
    <3>2. CASE callAt[c] # "publish"
      <4>1. UsedIndex \in Nat /\ UsedIndex' = UsedIndex
        BY <1>0, <2>1, <3>2, UsedMoves
      <4> QED
        BY <4>1
    <3> QED
      BY <3>1, <3>2
  <2> QED
    BY <1>0, <1>13, <2>1, <2>2, <2>3 DEF KillCaller, Promise!Next, Promise!Crash
<1> QED
  BY <1>1, <1>4, <1>5, <1>6, <1>7, <1>8, <1>9, <1>10, <1>11, <1>12, <1>13

LEMMA SimulatesInit == ASSUME FileInit PROVE Promise!Init
<1>1. SeenCalls = [c \in Procs |-> "idle"]
  BY DEF FileInit, SeenCalls, Seen
<1>2. UsedIndex = 0
  BY DEF FileInit, UsedIndex, Drawn
<1>3. req \in [Procs -> Promise!Request]
  BY StoreAssumption DEF FileInit, Request, Promise!Request
<1> QED
  BY <1>1, <1>2, <1>3 DEF FileInit, NoRow, Promise!Init

LEMMA FileInductive == FileSpec => []FileInv
<1>1. FileInit => FileInv
  BY FileInitHolds
<1>2. FileInv /\ [FileNext]_fileVars => FileInv'
  <2> SUFFICES ASSUME FileInv, [FileNext]_fileVars PROVE FileInv'
    OBVIOUS
  <2>1. CASE FileNext
    BY <2>1, FileInvStep DEF FileNext
  <2>2. CASE UNCHANGED fileVars
    BY <2>2 DEF fileVars, FileInv, FileTypeOK, Exclusive, Established, DrawnIsCounted, Drawn
  <2> QED
    BY <2>1, <2>2
<1> QED
  BY <1>1, <1>2, PTL DEF FileSpec

\* The store's files, the counter, the lock and the callers keep their types,
\* whatever call is made, at whatever point a writer is killed.
THEOREM FileTypeCorrect == FileSpec => []FileTypeOK
<1>1. FileInv => FileTypeOK
  BY DEF FileInv
<1> QED
  BY <1>1, FileInductive, PTL

\* Processes on one box that share the files see the store that Variables
\* promises: get, put and delete are atomic, an index is new at every write,
\* a check-and-set is refused exactly when the index is another one, and a
\* killed writer leaves a whole write or none.
THEOREM FilesImplementPromise == FileSpec => ImplementsPromise
<1>1. FileInit => Promise!Init
  BY SimulatesInit
<1>2. FileInv /\ FileInv' /\ [FileNext]_fileVars => [Promise!Next]_(Promise!vars)
  <2> SUFFICES ASSUME FileInv, FileInv', [FileNext]_fileVars PROVE [Promise!Next]_(Promise!vars)
    OBVIOUS
  <2>1. CASE FileNext
    BY <2>1, Simulates DEF FileNext
  <2>2. CASE UNCHANGED fileVars
    BY <2>2 DEF fileVars, Promise!vars, UsedIndex, Drawn, SeenCalls
  <2> QED
    BY <2>1, <2>2
<1> QED
  BY <1>1, <1>2, FileInductive, PTL DEF FileSpec, ImplementsPromise, Promise!Spec
=============================================================================
