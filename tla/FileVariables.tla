---------------------------- MODULE FileVariables ----------------------------
(***************************************************************************)
(* vmsplatform/variables.py: the store as files on one box.  A JSON file   *)
(* per path, a counter file, one flock.  Writers are processes that may be *)
(* killed between any two system calls; the kernel then drops the lock and *)
(* a half-written .tmp is never seen, because a file changes only by       *)
(* rename.  get() takes no lock.                                           *)
(*                                                                         *)
(* Abstracted: the counter starts at 0 and not at 1000, a path is a model  *)
(* value, and a temporary file with the rename that follows is one step.   *)
(***************************************************************************)
EXTENDS Naturals

CONSTANTS Procs, Paths, Items, NoItems, NoCas, Allowed,
          MaxIndex    \* bound: no call is made once the counter is this high

ASSUME StoreAssumption == /\ NoItems \notin Items
                          /\ NoCas \notin Nat
                          /\ Allowed \in [Procs -> SUBSET Paths]
                          /\ MaxIndex \in Nat

VARIABLES row,        \* <root>/vars/*.json: [Paths -> Row]
          counter,    \* <root>/index
          lock,       \* the processes that hold <root>/lock
          callAt,     \* where each process is in its call
          req,        \* the arguments of its call
          ans         \* what it will return or raise

fileVars == <<row, counter, lock, callAt, req, ans>>

\* The promise, with its state read off the files.  An index that has been
\* drawn and not yet written is not "used"; a call is over for its caller's
\* view of the store as soon as it has its answer.
Drawn == \E c \in Procs : callAt[c] = "publish"
UsedIndex == IF Drawn THEN counter - 1 ELSE counter
Seen(at) == IF at = "idle" THEN "idle"
            ELSE IF at \in {"draw_after", "unlock", "done"} THEN "done" ELSE "pending"
SeenCalls == [c \in Procs |-> Seen(callAt[c])]
Promise == INSTANCE Variables WITH used <- UsedIndex, call <- SeenCalls

NoRow == Promise!Absent
Request == [op : {"get", "put", "delete"}, path : Paths,
            items : Items, cas : (0 .. MaxIndex) \cup {NoCas}]

FileInit == /\ row = [p \in Paths |-> NoRow]
            /\ counter = 0
            /\ lock = {}
            /\ callAt = [c \in Procs |-> "idle"]
            /\ req \in [Procs -> {r \in Request : r.op = "get" /\ r.cas = NoCas}]
            /\ ans = [c \in Procs |-> Promise!NoAnswer]

Advance(c, from, to) == callAt[c] = from /\ callAt' = [callAt EXCEPT ![c] = to]

\* Somebody calls get, put or delete with an index read at some time before,
\* with 0 ("create it") or with none.
Invoke(c) == /\ counter < MaxIndex
             /\ \E r \in Request :
                  /\ r.cas # NoCas => r.cas <= counter
                  /\ Advance(c, "idle", IF r.op = "get" THEN "read" ELSE "enter")
                  /\ req' = [req EXCEPT ![c] = r]
             /\ UNCHANGED <<row, counter, lock, ans>>

\* get(): open, parse, close -- one file, which only ever changes by rename.
GetFile(c) == /\ Advance(c, "read", "done")
              /\ ans' = [ans EXCEPT ![c] = Promise!Ok(row[req[c].path])]
              /\ UNCHANGED <<row, counter, lock, req>>

\* put() looks at the ACL before anything else; delete() has none.
Forbid(c) == /\ req[c].op = "put" /\ req[c].path \notin Allowed[c]
             /\ Advance(c, "enter", "done")
             /\ ans' = [ans EXCEPT ![c] = Promise!Forbidden]
             /\ UNCHANGED <<row, counter, lock, req>>

\* _locked(): flock(LOCK_EX).
Lock(c) == /\ req[c].op = "put" => req[c].path \in Allowed[c]
           /\ lock = {}
           /\ lock' = {c}
           /\ Advance(c, "enter", "check")
           /\ UNCHANGED <<row, counter, req, ans>>

\* As a bug: "if cas and cas != idx", which lets cas=0 through.
CheckTruthy(c) == /\ LET r == req[c]
                         ok == r.cas \in {NoCas, 0} \/ r.cas = row[r.path].index
                     IN /\ Advance(c, "check", IF ~ok THEN "unlock"
                                            ELSE IF r.op = "put" THEN "draw" ELSE "remove")
                        /\ ans' = [ans EXCEPT ![c] = IF ok THEN @ ELSE Promise!Conflict]
                  /\ UNCHANGED <<row, counter, lock, req>>

\* As a bug: the conflict is raised past the release of the lock.
CheckLeaks(c) == /\ LET r == req[c]
                        ok == Promise!CasHolds(r, row[r.path].index)
                    IN /\ Advance(c, "check", IF ~ok THEN "done"
                                           ELSE IF r.op = "put" THEN "draw" ELSE "remove")
                       /\ ans' = [ans EXCEPT ![c] = IF ok THEN @ ELSE Promise!Conflict]
                 /\ UNCHANGED <<row, counter, lock, req>>

\* Read the current index under the lock and compare.
Check(c) == /\ LET r == req[c]
                   ok == Promise!CasHolds(r, row[r.path].index)
               IN /\ Advance(c, "check", IF ~ok THEN "unlock"
                                      ELSE IF r.op = "put" THEN "draw" ELSE "remove")
                  /\ ans' = [ans EXCEPT ![c] = IF ok THEN @ ELSE Promise!Conflict]
            /\ UNCHANGED <<row, counter, lock, req>>

\* _next_index(), before a put writes and after a delete has removed.
Draw(c) == /\ \/ Advance(c, "draw", "publish")
              \/ Advance(c, "draw_after", "unlock")
           /\ counter' = counter + 1
           /\ UNCHANGED <<row, lock, req, ans>>

\* Write the temporary file and rename it over the row.
Publish(c) == LET r == req[c]
                  new == [items |-> r.items, index |-> counter]
              IN /\ Advance(c, "publish", "unlock")
                 /\ row' = [row EXCEPT ![r.path] = new]
                 /\ ans' = [ans EXCEPT ![c] = Promise!Ok(new)]
                 /\ UNCHANGED <<counter, lock, req>>

\* delete(): os.remove; a missing file is no error.
Remove(c) == /\ Advance(c, "remove", "draw_after")
             /\ row' = [row EXCEPT ![req[c].path] = NoRow]
             /\ ans' = [ans EXCEPT ![c] = Promise!Ok(NoRow)]
             /\ UNCHANGED <<counter, lock, req>>

\* Leaving the with block closes the lock file.
Unlock(c) == /\ Advance(c, "unlock", "done")
             /\ lock' = lock \ {c}
             /\ UNCHANGED <<row, counter, req, ans>>

Leave(c) == /\ Advance(c, "done", "idle")
            /\ ans' = [ans EXCEPT ![c] = Promise!NoAnswer]
            /\ UNCHANGED <<row, counter, lock, req>>

\* kill -9: the files stay as they are, the lock goes.
KillCaller(c) == /\ callAt[c] # "idle"
                 /\ callAt' = [callAt EXCEPT ![c] = "idle"]
                 /\ lock' = lock \ {c}
                 /\ ans' = [ans EXCEPT ![c] = Promise!NoAnswer]
                 /\ UNCHANGED <<row, counter, req>>

FileNext == \E c \in Procs :
              \/ Invoke(c) \/ GetFile(c) \/ Forbid(c) \/ Lock(c) \/ Check(c) \/ Draw(c)
              \/ Publish(c) \/ Remove(c) \/ Unlock(c) \/ Leave(c) \/ KillCaller(c)

FileSpec == FileInit /\ [][FileNext]_fileVars

\* A process that is not killed takes its next step; who gets a free lock is
\* the kernel's business and no fairness is asked of it.
FileFairness ==
  \A c \in Procs : WF_fileVars(Check(c) \/ Draw(c) \/ Publish(c) \/ Remove(c) \/ Unlock(c))

-----------------------------------------------------------------------------
(* Properties *)

PcState == {"idle", "read", "enter", "check", "draw", "publish",
            "remove", "draw_after", "unlock", "done"}

\* Types of the store's files and of the callers' positions.
FileTypeOK == /\ row \in [Paths -> Promise!Row]
              /\ counter \in Nat
              /\ lock \in SUBSET Procs
              /\ callAt \in [Procs -> PcState]
              /\ req \in [Procs -> Request]
              /\ ans \in [Procs -> Promise!Answer]

\* The lock never stays held: on success, on a conflict raised in the middle of
\* the with block, after a delete and after a kill it is dropped, so nobody
\* waits for a writer that has left.
LockIsReleased == \A c \in Procs : []<>(lock # {c})

\* "Two processes on the same box see exactly what two clients of one raft
\* would" (the module's docstring): every behaviour of the files is one of the
\* promised store, for get, put, delete and for a killed writer.
ImplementsPromise == Promise!Spec
==============================================================================
