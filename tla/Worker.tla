-------------------------------- MODULE Worker -------------------------------
(***************************************************************************)
(* The worker half of the platform contract (vmsplatform/contract.py,      *)
(* class Worker) as the VMS worker runs it (vms/worker.py, class           *)
(* VmsWorker, with vms/reconciler.py and the actuator underneath).         *)
(*                                                                         *)
(* An instance is a process.  It claims a slot -- its name -- by           *)
(* check-and-set, and then loops: reconcile its assignment (a new epoch    *)
(* and a lease for every unit it starts), drain the bus, renew the slot    *)
(* and the leases when that is due, heartbeat.  Several instances may      *)
(* believe in one name at once: a paused process wakes up after its        *)
(* replacement has taken the slot.  Between any two calls to the store     *)
(* everybody else may run, the process may be killed and the store may     *)
(* become unreachable.                                                     *)
(*                                                                         *)
(* Abstracted.  Time: a lease and a slot are fresh until a step lets them  *)
(* expire, and a failed unit is retried or not at each pass, whatever its  *)
(* backoff.  Indexes: a snapshot of a slot row is valid until somebody     *)
(* writes the row, which is what equality of ModifyIndex means because an  *)
(* index names one write (module FileVariables).  next_epoch is one step,  *)
(* as module RowWrite proves its loop to be.  The controller is an         *)
(* environment here that may rewrite any assignment and any camera row,    *)
(* which is more than the methods of module Controller ever do.            *)
(***************************************************************************)
EXTENDS Naturals

CONSTANTS Instances,  \* processes that are ever started
          Slots,      \* worker names
          Units,      \* cameras
          Nobody,     \* the holder of a slot nobody has claimed
          NoSlot,     \* an instance without a name; a missing preference
          Prefer,     \* [Instances -> Slots \cup {NoSlot}]: %i or NOMAD_ALLOC_INDEX
          Overlap,    \* may a replacement start before the old process is gone?
          MaxEpoch,   \* bound on the epochs issued per unit
          MaxRev,     \* bound on a camera's revision
          MaxMoves,   \* bound on assignment changes by the environment
          MaxFaults   \* bound on crashes, outages, expiries and failed starts

ASSUME WorkerAssumption ==
         /\ Nobody \notin Instances
         /\ NoSlot \notin Slots
         /\ Prefer \in [Instances -> Slots \cup {NoSlot}]
         /\ Overlap \in BOOLEAN
         /\ MaxEpoch \in Nat /\ MaxRev \in Nat \ {0}
         /\ MaxMoves \in Nat /\ MaxFaults \in Nat

VARIABLES
  (* the store *)
  slot,      \* <sub>/slots/<name>: holder, released, and whether until has passed
  listed,    \* <sub>/workers/<name>: the units assigned to each slot
  cam,       \* <sub>/cameras/<unit>: its revision, and whether it is there and enabled
  epoch,     \* <sub>/epoch/<unit>
  up,        \* can the store be reached?
  (* each instance *)
  pc,        \* where it is in run()
  me,        \* self.name
  valid,     \* is its last read of the slot row still current?
  rows,      \* revision of each unit in refresh(), 0 if not desired; forgotten
             \* once reconcile() is through with it, as only the status reads it
  todo,      \* units left in the loop it is in
  cur,       \* the unit being started
  actual,    \* reconciler.actual: revision, 0 if absent
  failed,    \* reconciler.failures
  held,      \* self.epochs: the epoch it holds for a unit, 0 if none
  lease,     \* self.leases
  lost,      \* the units renew_leases() reported
  why,       \* fenced_reason: "none" while recording is allowed
  pipe,      \* the actuator: epoch of each running pipeline, 0 if none
  dead,      \* the actuator's list of pipelines that posted an error
  (* bookkeeping *)
  faults, moves,
  overdue    \* history: units superseded when the current lease pass began,
             \* without those whose renewal found the store unreachable

store == <<slot, listed, cam, epoch, up>>
reconciler == <<rows, todo, cur, actual, failed>>
tokens == <<held, lease, lost>>
actuator == <<pipe, dead>>
local == <<pc, me, valid, reconciler, tokens, why, actuator>>
history == <<faults, moves, overdue>>
vars == <<store, local, history>>

None == [u \in Units |-> 0]
Alive(i) == pc[i] \notin {"off", "gone"}
Recording(i, u) == pipe[i][u] # 0
Superseded(i) == {u \in Units : pipe[i][u] # 0 /\ pipe[i][u] < epoch[u]}

Goto(i, from, to) == pc[i] = from /\ pc' = [pc EXCEPT ![i] = to]
Fault == faults < MaxFaults /\ faults' = faults + 1

Init ==
  /\ slot = [s \in Slots |-> [holder |-> Nobody, released |-> TRUE, past |-> FALSE]]
  /\ listed \in [Slots -> SUBSET Units]
  /\ \A s, t \in Slots : s # t => listed[s] \cap listed[t] = {}
  /\ cam = [u \in Units |-> [rev |-> 1, on |-> TRUE]]
  /\ epoch = None
  /\ up = TRUE
  /\ pc = [i \in Instances |-> "off"]
  /\ me = [i \in Instances |-> NoSlot]
  /\ valid = [i \in Instances |-> FALSE]
  /\ rows = [i \in Instances |-> None]
  /\ todo = [i \in Instances |-> {}]
  /\ cur = [i \in Instances |-> {}]
  /\ actual = [i \in Instances |-> None]
  /\ failed = [i \in Instances |-> {}]
  /\ held = [i \in Instances |-> None]
  /\ lease = [i \in Instances |-> [u \in Units |-> "none"]]
  /\ lost = [i \in Instances |-> {}]
  /\ why = [i \in Instances |-> "none"]
  /\ pipe = [i \in Instances |-> None]
  /\ dead = [i \in Instances |-> {}]
  /\ faults = 0
  /\ moves = 0
  /\ overdue = [i \in Instances |-> {}]

-----------------------------------------------------------------------------
(* Identity by claim *)

\* Slot.lapsed and Slot.claimable; a slot nobody ever claimed has no row.
Lapsed(s) == slot[s].holder # Nobody /\ ~slot[s].released /\ slot[s].past
Claimable(s) == slot[s].released \/ slot[s].past

\* The candidates of claim_slot: the preferred slot whoever holds it; without
\* one a lapsed slot, then a free row, then the next number.
Candidates(i) ==
  LET lapsed == {s \in Slots : Lapsed(s)}
      free == {s \in Slots : Claimable(s) /\ slot[s].holder # Nobody}
  IN IF Prefer[i] # NoSlot THEN {Prefer[i]}
     ELSE IF lapsed # {} THEN lapsed
     ELSE IF free # {} THEN free
     ELSE {s \in Slots : slot[s].holder = Nobody}

\* A write of the slot row: every other snapshot of it is stale from here on.
\* The claimer's own snapshot is used up with it.
WriteSlot(s, row) ==
  /\ slot' = [slot EXCEPT ![s] = row]
  /\ valid' = [i \in Instances |-> valid[i] /\ me[i] # s]

\* claim_slot: list the slots, pick one, read it.
ClaimRead(i) ==
  /\ up
  /\ Goto(i, "off", "claim")
  /\ \E s \in Candidates(i) :
       /\ Overlap \/ \A j \in Instances : ~(Alive(j) /\ me[j] = s)
       /\ me' = [me EXCEPT ![i] = s]
  /\ valid' = [valid EXCEPT ![i] = TRUE]
  /\ UNCHANGED <<store, reconciler, tokens, why, actuator, history>>

\* As a bug: the row names the slot and not the instance.
ClaimPutName(i) ==
  /\ up /\ valid[i]
  /\ Goto(i, "claim", "refresh")
  /\ WriteSlot(me[i], [holder |-> me[i], released |-> FALSE, past |-> FALSE])
  /\ UNCHANGED <<listed, cam, epoch, up, me, reconciler, tokens, why, actuator, history>>

\* As a bug: the row is put without an index.
ClaimPutUnchecked(i) ==
  /\ up
  /\ Goto(i, "claim", "refresh")
  /\ WriteSlot(me[i], [holder |-> i, released |-> FALSE, past |-> FALSE])
  /\ UNCHANGED <<listed, cam, epoch, up, me, reconciler, tokens, why, actuator, history>>

\* claim_slot: put the row with this instance in it.
ClaimPut(i) ==
  /\ up /\ valid[i]
  /\ Goto(i, "claim", "refresh")
  /\ WriteSlot(me[i], [holder |-> i, released |-> FALSE, past |-> FALSE])
  /\ UNCHANGED <<listed, cam, epoch, up, me, reconciler, tokens, why, actuator, history>>

\* claim_slot: somebody took it between the read and the write.
ClaimConflict(i) ==
  /\ up /\ ~valid[i]
  /\ Goto(i, "claim", "off")
  /\ me' = [me EXCEPT ![i] = NoSlot]
  /\ UNCHANGED <<store, valid, reconciler, tokens, why, actuator, history>>

-----------------------------------------------------------------------------
(* reconcile_once *)

\* refresh(): the assignment and the rows it names; a deleted row is dropped
\* there, a disabled one in reconcile().  The loop's units are those whose
\* running revision is older than the desired one.
Refresh(i) ==
  /\ up
  /\ Goto(i, "refresh", "start")
  /\ LET want == [u \in Units |-> IF u \in listed[me[i]] /\ cam[u].on
                                  THEN cam[u].rev ELSE 0]
     IN /\ rows' = [rows EXCEPT ![i] = want]
        /\ todo' = [todo EXCEPT ![i] = {u \in Units : actual[i][u] < want[u]}]
  /\ UNCHANGED <<store, me, valid, cur, actual, failed, tokens, why, actuator, history>>

\* reconcile(): the unit failed before and its retry_at has not come.
BackOff(i, u) ==
  /\ pc[i] = "start"
  /\ u \in todo[i] \cap failed[i]
  /\ todo' = [todo EXCEPT ![i] = @ \ {u}]
  /\ UNCHANGED <<store, pc, me, valid, rows, cur, actual, failed, tokens, why, actuator, history>>

\* _actuate on a fenced instance: the start is refused and counts as a failure.
RefuseStart(i, u) ==
  /\ pc[i] = "start" /\ u \in todo[i]
  /\ why[i] # "none"
  /\ todo' = [todo EXCEPT ![i] = @ \ {u}]
  /\ failed' = [failed EXCEPT ![i] = @ \cup {u}]
  /\ UNCHANGED <<store, pc, me, valid, rows, cur, actual, tokens, why, actuator, history>>

\* _actuate: verb "start", or a unit no epoch is held for.
NeedsEpoch(i, u) == actual[i][u] = 0 \/ held[i][u] = 0

\* As a bug: the epoch that is there is used.
TakeEpochShared(i, u) ==
  /\ up /\ u \in todo[i] /\ why[i] = "none" /\ NeedsEpoch(i, u)
  /\ Goto(i, "start", "gate")
  /\ epoch' = [epoch EXCEPT ![u] = IF @ = 0 THEN 1 ELSE @]
  /\ held' = [held EXCEPT ![i][u] = epoch'[u]]
  /\ lease' = [lease EXCEPT ![i][u] = "fresh"]
  /\ cur' = [cur EXCEPT ![i] = {u}]
  /\ UNCHANGED <<slot, listed, cam, up, me, valid, rows, todo, actual, failed, lost, why, actuator, history>>

\* As a bug: _actuate does not look at fenced_reason.
TakeEpochFenced(i, u) ==
  /\ up /\ u \in todo[i] /\ NeedsEpoch(i, u)
  /\ epoch[u] < MaxEpoch
  /\ Goto(i, "start", "gate")
  /\ epoch' = [epoch EXCEPT ![u] = @ + 1]
  /\ held' = [held EXCEPT ![i][u] = epoch'[u]]
  /\ lease' = [lease EXCEPT ![i][u] = "fresh"]
  /\ cur' = [cur EXCEPT ![i] = {u}]
  /\ UNCHANGED <<slot, listed, cam, up, me, valid, rows, todo, actual, failed, lost, why, actuator, history>>

\* take_epoch: a new epoch and a new lease.  Nothing here looks at the slot.
TakeEpoch(i, u) ==
  /\ up /\ u \in todo[i] /\ why[i] = "none" /\ NeedsEpoch(i, u)
  /\ epoch[u] < MaxEpoch
  /\ Goto(i, "start", "gate")
  /\ epoch' = [epoch EXCEPT ![u] = @ + 1]
  /\ held' = [held EXCEPT ![i][u] = epoch'[u]]
  /\ lease' = [lease EXCEPT ![i][u] = "fresh"]
  /\ cur' = [cur EXCEPT ![i] = {u}]
  /\ UNCHANGED <<slot, listed, cam, up, me, valid, rows, todo, actual, failed, lost, why, actuator, history>>

\* take_epoch: the number was issued and the answer lost; the pass is over.
LoseEpoch(i, u) ==
  /\ up /\ u \in todo[i] /\ why[i] = "none" /\ NeedsEpoch(i, u)
  /\ epoch[u] < MaxEpoch
  /\ Fault
  /\ Goto(i, "start", "refresh")
  /\ epoch' = [epoch EXCEPT ![u] = @ + 1]
  /\ todo' = [todo EXCEPT ![i] = {}]
  /\ rows' = [rows EXCEPT ![i] = None]
  /\ UNCHANGED <<slot, listed, cam, up, me, valid, cur, actual, failed, tokens, why, actuator, moves, overdue>>

\* _actuate: a restart goes on under the epoch it has.
KeepEpoch(i, u) ==
  /\ u \in todo[i] /\ why[i] = "none" /\ ~NeedsEpoch(i, u)
  /\ Goto(i, "start", "gate")
  /\ cur' = [cur EXCEPT ![i] = {u}]
  /\ UNCHANGED <<store, me, valid, rows, todo, actual, failed, tokens, why, actuator, history>>

\* As a bug: the pipeline is built with the epoch of the store.
GateCurrent(i, u) ==
  /\ cur[i] = {u}
  /\ Goto(i, "gate", "start")
  /\ cur' = [cur EXCEPT ![i] = {}]
  /\ todo' = [todo EXCEPT ![i] = @ \ {u}]
  /\ pipe' = [pipe EXCEPT ![i][u] = epoch[u]]
  /\ actual' = [actual EXCEPT ![i][u] = rows[i][u]]
  /\ failed' = [failed EXCEPT ![i] = @ \ {u}]
  /\ UNCHANGED <<store, me, valid, rows, tokens, why, dead, history>>

\* may_write, then the actuator builds the pipeline (stopping the old one).
Gate(i, u) ==
  /\ cur[i] = {u}
  /\ Goto(i, "gate", "start")
  /\ cur' = [cur EXCEPT ![i] = {}]
  /\ todo' = [todo EXCEPT ![i] = @ \ {u}]
  /\ \/ /\ lease[i][u] = "fresh"
        /\ pipe' = [pipe EXCEPT ![i][u] = held[i][u]]
        /\ actual' = [actual EXCEPT ![i][u] = rows[i][u]]
        /\ failed' = [failed EXCEPT ![i] = @ \ {u}]
        /\ UNCHANGED faults
     \/ /\ lease[i][u] = "fresh"
        /\ Fault
        /\ pipe' = [pipe EXCEPT ![i][u] = 0]
        /\ failed' = [failed EXCEPT ![i] = @ \cup {u}]
        /\ UNCHANGED actual
     \/ /\ lease[i][u] # "fresh"
        /\ failed' = [failed EXCEPT ![i] = @ \cup {u}]
        /\ UNCHANGED <<pipe, actual, faults>>
  /\ UNCHANGED <<store, me, valid, rows, tokens, why, dead, moves, overdue>>

\* As a bug: the pipeline goes on when the unit is let go.
StopLoopKeepsPipeline(i) ==
  /\ todo[i] = {}
  /\ Goto(i, "start", "pump")
  /\ LET stop == {u \in Units : actual[i][u] # 0 /\ rows[i][u] = 0}
     IN /\ held' = [held EXCEPT ![i] = [u \in Units |-> IF u \in stop THEN 0 ELSE @[u]]]
        /\ lease' = [lease EXCEPT ![i] = [u \in Units |-> IF u \in stop THEN "none" ELSE @[u]]]
        /\ actual' = [actual EXCEPT ![i] = [u \in Units |-> IF u \in stop THEN 0 ELSE @[u]]]
  /\ rows' = [rows EXCEPT ![i] = None]
  /\ UNCHANGED <<store, me, valid, todo, cur, failed, lost, why, actuator, history>>

\* As a bug: release() drops the epoch and keeps the lease.
StopLoopKeepsLease(i) ==
  /\ todo[i] = {}
  /\ Goto(i, "start", "pump")
  /\ LET stop == {u \in Units : actual[i][u] # 0 /\ rows[i][u] = 0}
     IN /\ pipe' = [pipe EXCEPT ![i] = [u \in Units |-> IF u \in stop THEN 0 ELSE @[u]]]
        /\ held' = [held EXCEPT ![i] = [u \in Units |-> IF u \in stop THEN 0 ELSE @[u]]]
        /\ actual' = [actual EXCEPT ![i] = [u \in Units |-> IF u \in stop THEN 0 ELSE @[u]]]
  /\ rows' = [rows EXCEPT ![i] = None]
  /\ UNCHANGED <<store, me, valid, todo, cur, failed, lease, lost, why, dead, history>>

\* The stop loop walks what is running: stop, release the epoch, forget.
StopLoop(i) ==
  /\ todo[i] = {}
  /\ Goto(i, "start", "pump")
  /\ LET stop == {u \in Units : actual[i][u] # 0 /\ rows[i][u] = 0}
     IN /\ pipe' = [pipe EXCEPT ![i] = [u \in Units |-> IF u \in stop THEN 0 ELSE @[u]]]
        /\ held' = [held EXCEPT ![i] = [u \in Units |-> IF u \in stop THEN 0 ELSE @[u]]]
        /\ lease' = [lease EXCEPT ![i] = [u \in Units |-> IF u \in stop THEN "none" ELSE @[u]]]
        /\ actual' = [actual EXCEPT ![i] = [u \in Units |-> IF u \in stop THEN 0 ELSE @[u]]]
  /\ rows' = [rows EXCEPT ![i] = None]
  /\ UNCHANGED <<store, me, valid, todo, cur, failed, lost, why, dead, history>>

-----------------------------------------------------------------------------
(* pump_once, lease_pass, heartbeat_once *)

\* As a bug: the reconciler is not told what died.
PumpSilent(i, due) ==
  /\ Goto(i, "pump", IF due THEN "slot" ELSE "beat")
  /\ dead' = [dead EXCEPT ![i] = {}]
  /\ UNCHANGED <<store, me, valid, rows, todo, cur, actual, failed, tokens, why, pipe, history>>

\* pump_once: what died is lost() to the reconciler.  Then the lease pass, if
\* (TTL - margin)/3 have gone by since the last one.
Pump(i, due) ==
  /\ Goto(i, "pump", IF due THEN "slot" ELSE "beat")
  /\ pipe' = [pipe EXCEPT ![i] = [u \in Units |-> IF u \in dead[i] THEN 0 ELSE @[u]]]
  /\ actual' = [actual EXCEPT ![i] = [u \in Units |-> IF u \in dead[i] THEN 0 ELSE @[u]]]
  /\ failed' = [failed EXCEPT ![i] = @ \cup dead[i]]
  /\ dead' = [dead EXCEPT ![i] = {}]
  /\ UNCHANGED <<store, me, valid, rows, todo, cur, tokens, why, history>>

\* fence(): once fenced, nothing more happens.
Fence(i, reason) ==
  IF why[i] # "none" THEN UNCHANGED <<why, pipe, actual>>
  ELSE /\ why' = [why EXCEPT ![i] = reason]
       /\ pipe' = [pipe EXCEPT ![i] = None]
       /\ actual' = [actual EXCEPT ![i] = None]

\* renew_slot, the read: another holder fences the instance as a whole.
SlotRead(i) ==
  /\ pc[i] = "slot" /\ up
  /\ overdue' = [overdue EXCEPT ![i] = Superseded(i)]
  /\ \/ /\ slot[me[i]].holder = i
        /\ Goto(i, "slot", "renew_slot")
        /\ valid' = [valid EXCEPT ![i] = TRUE]
        /\ UNCHANGED <<why, pipe, actual>>
     \/ /\ slot[me[i]].holder # i
        /\ Goto(i, "slot", "beat")
        /\ Fence(i, "slot")
        /\ UNCHANGED valid
  /\ UNCHANGED <<store, me, rows, todo, cur, failed, tokens, dead, faults, moves>>

\* renew_slot, the write: until is extended and released cleared.
SlotWrite(i) ==
  /\ up /\ valid[i]
  /\ Goto(i, "renew_slot", "renew")
  /\ WriteSlot(me[i], [holder |-> i, released |-> FALSE, past |-> FALSE])
  /\ todo' = [todo EXCEPT ![i] = {u \in Units : held[i][u] # 0}]
  /\ UNCHANGED <<listed, cam, epoch, up, me, rows, cur, actual, failed, tokens, why, actuator, history>>

\* renew_slot: a conflict is answered like a lost slot.
SlotConflict(i) ==
  /\ up /\ ~valid[i]
  /\ Goto(i, "renew_slot", "beat")
  /\ Fence(i, "slot")
  /\ UNCHANGED <<store, me, valid, rows, todo, cur, failed, tokens, dead, history>>

\* As a bug: the epoch in the store is not compared.
RenewBlind(i, u) ==
  /\ pc[i] = "renew" /\ u \in todo[i]
  /\ todo' = [todo EXCEPT ![i] = @ \ {u}]
  /\ LET ok == up \/ lease[i][u] = "fresh"
     IN /\ lease' = [lease EXCEPT ![i][u] = IF up THEN "fresh" ELSE @]
        /\ lost' = [lost EXCEPT ![i] = IF ok THEN @ ELSE @ \cup {u}]
  /\ overdue' = [overdue EXCEPT ![i] = IF up THEN @ ELSE @ \ {u}]
  /\ UNCHANGED <<store, pc, me, valid, rows, cur, actual, failed, held, why, actuator, faults, moves>>

\* As a bug: a renewal does not start the lease again.
RenewForgets(i, u) ==
  /\ pc[i] = "renew" /\ u \in todo[i]
  /\ todo' = [todo EXCEPT ![i] = @ \ {u}]
  /\ LET fenced == lease[i][u] = "fenced" \/ (up /\ epoch[u] # held[i][u])
         ok == ~fenced /\ (up \/ lease[i][u] = "fresh")
     IN /\ lease' = [lease EXCEPT ![i][u] = IF fenced THEN "fenced" ELSE @]
        /\ lost' = [lost EXCEPT ![i] = IF ok THEN @ ELSE @ \cup {u}]
  /\ overdue' = [overdue EXCEPT ![i] = IF up THEN @ ELSE @ \ {u}]
  /\ UNCHANGED <<store, pc, me, valid, rows, cur, actual, failed, held, why, actuator, faults, moves>>

\* Lease.renew of one unit.  An unreachable store renews nothing and loses
\* only a lease that has run out on the local clock.
Renew(i, u) ==
  /\ pc[i] = "renew" /\ u \in todo[i]
  /\ todo' = [todo EXCEPT ![i] = @ \ {u}]
  /\ LET fenced == lease[i][u] = "fenced" \/ (up /\ epoch[u] # held[i][u])
         ok == ~fenced /\ (up \/ lease[i][u] = "fresh")
     IN /\ lease' = [lease EXCEPT ![i][u] = IF fenced THEN "fenced"
                                            ELSE IF up THEN "fresh" ELSE @]
        /\ lost' = [lost EXCEPT ![i] = IF ok THEN @ ELSE @ \cup {u}]
  /\ overdue' = [overdue EXCEPT ![i] = IF up THEN @ ELSE @ \ {u}]
  /\ UNCHANGED <<store, pc, me, valid, rows, cur, actual, failed, held, why, actuator, faults, moves>>

\* lease_pass: nothing was lost.
RenewedAll(i) ==
  /\ todo[i] = {} /\ lost[i] = {}
  /\ Goto(i, "renew", "beat")
  /\ UNCHANGED <<store, me, valid, reconciler, tokens, why, actuator, history>>

\* As a bug: a unit that was moved away is let go and not stopped.
JudgeReleasesOnly(i) ==
  /\ up /\ todo[i] = {} /\ lost[i] # {}
  /\ Goto(i, "renew", "beat")
  /\ LET mine == lost[i] \cap listed[me[i]]
         others == lost[i] \ listed[me[i]]
     IN /\ held' = [held EXCEPT ![i] = [u \in Units |-> IF u \in others THEN 0 ELSE @[u]]]
        /\ lease' = [lease EXCEPT ![i] = [u \in Units |-> IF u \in others THEN "none" ELSE @[u]]]
        /\ IF mine # {} THEN Fence(i, "lease") ELSE UNCHANGED <<why, pipe, actual>>
  /\ lost' = [lost EXCEPT ![i] = {}]
  /\ UNCHANGED <<store, me, valid, rows, todo, cur, failed, dead, history>>

\* lease_pass: read the assignment and judge what was lost.  A unit no longer
\* listed is let go; one that is still listed fences the instance and ends the
\* loop, so only those judged before it (done) have been released.
Judge(i) ==
  /\ up /\ todo[i] = {} /\ lost[i] # {}
  /\ Goto(i, "renew", "beat")
  /\ LET mine == lost[i] \cap listed[me[i]]
         others == lost[i] \ listed[me[i]]
     IN \E done \in SUBSET others :
          /\ mine = {} => done = others
          /\ held' = [held EXCEPT ![i] = [u \in Units |-> IF u \in done THEN 0 ELSE @[u]]]
          /\ lease' = [lease EXCEPT ![i] = [u \in Units |-> IF u \in done THEN "none" ELSE @[u]]]
          /\ IF mine # {} /\ why[i] = "none"
             THEN Fence(i, "lease")
             ELSE /\ pipe' = [pipe EXCEPT ![i] = [u \in Units |-> IF u \in done THEN 0 ELSE @[u]]]
                  /\ actual' = [actual EXCEPT ![i] = [u \in Units |-> IF u \in done THEN 0 ELSE @[u]]]
                  /\ UNCHANGED why
  /\ lost' = [lost EXCEPT ![i] = {}]
  /\ UNCHANGED <<store, me, valid, rows, todo, cur, failed, dead, history>>

\* heartbeat_once, every ten seconds, a fenced instance like any other (nothing
\* here reads it); then stop.wait(poll) and round again.
Beat(i) ==
  /\ Goto(i, "beat", "refresh")
  /\ UNCHANGED <<store, me, valid, reconciler, tokens, why, actuator, history>>

\* A store call raises: run() logs it and retries the whole pass, leaving out
\* everything after the call -- the lease pass and the heartbeat too.
Raise(i) ==
  /\ ~up
  /\ \/ pc[i] \in {"refresh", "slot", "renew_slot"}
     \/ pc[i] = "start" /\ why[i] = "none" /\ \E u \in todo[i] : NeedsEpoch(i, u)
     \/ pc[i] = "renew" /\ todo[i] = {} /\ lost[i] # {}
  /\ pc' = [pc EXCEPT ![i] = "refresh"]
  /\ todo' = [todo EXCEPT ![i] = {}]
  /\ rows' = [rows EXCEPT ![i] = None]
  /\ lost' = [lost EXCEPT ![i] = {}]
  /\ UNCHANGED <<store, me, valid, cur, actual, failed, held, lease, why, actuator, history>>

-----------------------------------------------------------------------------
(* Ends of an instance *)

\* The process is gone: its pipelines were threads of it.
Vanish(i) ==
  /\ pc' = [pc EXCEPT ![i] = "gone"]
  /\ me' = [me EXCEPT ![i] = NoSlot]
  /\ valid' = [valid EXCEPT ![i] = FALSE]
  /\ rows' = [rows EXCEPT ![i] = None]
  /\ todo' = [todo EXCEPT ![i] = {}]
  /\ cur' = [cur EXCEPT ![i] = {}]
  /\ actual' = [actual EXCEPT ![i] = None]
  /\ failed' = [failed EXCEPT ![i] = {}]
  /\ held' = [held EXCEPT ![i] = None]
  /\ lease' = [lease EXCEPT ![i] = [u \in Units |-> "none"]]
  /\ lost' = [lost EXCEPT ![i] = {}]
  /\ why' = [why EXCEPT ![i] = "none"]
  /\ pipe' = [pipe EXCEPT ![i] = None]
  /\ dead' = [dead EXCEPT ![i] = {}]
  /\ overdue' = [overdue EXCEPT ![i] = {}]

\* kill -9, a segfault in a vendor SDK, the power.
Crash(i) ==
  /\ Alive(i)
  /\ Fault
  /\ Vanish(i)
  /\ UNCHANGED <<slot, listed, cam, epoch, up, moves>>

\* SIGTERM, seen at the top of the loop: stop_all, a last heartbeat, and then
\* the read of release_slot.
Stop(i) ==
  /\ Fault
  /\ Goto(i, "refresh", "stopping")
  /\ pipe' = [pipe EXCEPT ![i] = None]
  /\ UNCHANGED <<slot, listed, cam, epoch, up, me, valid, reconciler, tokens, why, dead, moves, overdue>>

\* release_slot: only the holder writes; a conflict is left alone.
ReleaseRead(i) ==
  /\ up
  /\ Goto(i, "stopping", "release")
  /\ slot[me[i]].holder = i
  /\ valid' = [valid EXCEPT ![i] = TRUE]
  /\ UNCHANGED <<store, me, reconciler, tokens, why, actuator, history>>

ReleaseWrite(i) ==
  /\ up /\ valid[i]
  /\ Goto(i, "release", "leave")
  /\ WriteSlot(me[i], [holder |-> i, released |-> TRUE, past |-> TRUE])
  /\ UNCHANGED <<listed, cam, epoch, up, me, reconciler, tokens, why, actuator, history>>

\* The process exits: after its release, when it held nothing, on the
\* conflict, or because the store raised.
Exit(i) ==
  /\ \/ pc[i] = "leave"
     \/ pc[i] = "stopping" /\ (~up \/ slot[me[i]].holder # i)
     \/ pc[i] = "release" /\ (~up \/ ~valid[i])
  /\ Vanish(i)
  /\ UNCHANGED <<store, faults, moves>>

-----------------------------------------------------------------------------
(* Clocks, pipelines, the store and the scheduler *)

\* TTL - margin pass on the holder's clock without a renewal.
Expire(i, u) ==
  /\ lease[i][u] = "fresh"
  /\ Fault
  /\ lease' = [lease EXCEPT ![i][u] = "stale"]
  /\ UNCHANGED <<store, pc, me, valid, reconciler, held, lost, why, actuator, moves, overdue>>

\* until passes on the wall clock.
Lapse(s) ==
  /\ slot[s].holder # Nobody /\ ~slot[s].past
  /\ Fault
  /\ slot' = [slot EXCEPT ![s].past = TRUE]
  /\ UNCHANGED <<listed, cam, epoch, up, local, moves, overdue>>

\* A pipeline posts an error on its bus.
Die(i, u) ==
  /\ pipe[i][u] # 0
  /\ Fault
  /\ pipe' = [pipe EXCEPT ![i][u] = 0]
  /\ dead' = [dead EXCEPT ![i] = @ \cup {u}]
  /\ UNCHANGED <<store, pc, me, valid, reconciler, tokens, why, moves, overdue>>

StoreDown == /\ up /\ Fault
             /\ up' = FALSE
             /\ UNCHANGED <<slot, listed, cam, epoch, local, moves, overdue>>

StoreUp == /\ ~up /\ up' = TRUE
           /\ UNCHANGED <<slot, listed, cam, epoch, local, history>>

-----------------------------------------------------------------------------
(* The controller, as its writes look from here *)

Move == up /\ moves < MaxMoves /\ moves' = moves + 1

Reassign(s, u) ==
  /\ Move
  /\ listed' = [listed EXCEPT ![s] = IF u \in @ THEN @ \ {u} ELSE @ \cup {u}]
  /\ UNCHANGED <<slot, cam, epoch, up, local, faults, overdue>>

\* update_camera bumps the revision, whatever it changes; delete_camera does not.
Edit(u, on) ==
  /\ Move
  /\ cam[u].rev < MaxRev
  /\ cam' = [cam EXCEPT ![u] = [rev |-> @.rev + 1, on |-> on]]
  /\ UNCHANGED <<slot, listed, epoch, up, local, faults, overdue>>

Remove(u) ==
  /\ Move
  /\ cam' = [cam EXCEPT ![u].on = FALSE]
  /\ UNCHANGED <<slot, listed, epoch, up, local, faults, overdue>>

\* retire(): an operator says the slot is gone for good.
Retire(s) ==
  /\ Move
  /\ ~slot[s].released
  /\ WriteSlot(s, [slot[s] EXCEPT !.released = TRUE])
  /\ UNCHANGED <<listed, cam, epoch, up, pc, me, reconciler, tokens, why, actuator, faults, overdue>>

Controller == \/ \E s \in Slots, u \in Units : Reassign(s, u)
              \/ \E u \in Units : Remove(u) \/ \E on \in BOOLEAN : Edit(u, on)
              \/ \E s \in Slots : Retire(s)

-----------------------------------------------------------------------------

Claim(i) == ClaimRead(i) \/ ClaimPut(i) \/ ClaimConflict(i)

Reconcile(i) == \/ Refresh(i) \/ StopLoop(i)
                \/ \E u \in Units : \/ BackOff(i, u) \/ RefuseStart(i, u)
                                    \/ TakeEpoch(i, u) \/ KeepEpoch(i, u) \/ Gate(i, u)

LeasePass(i) == \/ SlotRead(i) \/ SlotWrite(i) \/ SlotConflict(i)
                \/ RenewedAll(i) \/ Judge(i) \/ \E u \in Units : Renew(i, u)

Leave(i) == Stop(i) \/ ReleaseRead(i) \/ ReleaseWrite(i) \/ Exit(i)

Instance(i) == \/ Claim(i) \/ Reconcile(i) \/ LeasePass(i) \/ Beat(i) \/ Raise(i)
               \/ Leave(i) \/ \E due \in BOOLEAN : Pump(i, due)

Mishap == \/ \E i \in Instances : \/ Crash(i)
                                  \/ \E u \in Units : Expire(i, u) \/ Die(i, u) \/ LoseEpoch(i, u)
          \/ \E s \in Slots : Lapse(s)
          \/ StoreDown \/ StoreUp

\* Everything but the controller.
Process == (\E i \in Instances : Instance(i)) \/ Mishap

Next == Process \/ Controller

Spec == Init /\ [][Next]_vars

\* run() is one loop that never gives up: every enabled step of an instance is
\* taken in the end, and because the lease pass is due by the clock no run of
\* passes skips it for ever.  A backoff is at most a minute, so no run of passes
\* holds back a unit for ever either.
Loop(i) == \/ ClaimPut(i) \/ ClaimConflict(i) \/ Reconcile(i) \/ LeasePass(i)
           \/ Beat(i) \/ Raise(i) \/ \E due \in BOOLEAN : Pump(i, due)
           \/ ReleaseRead(i) \/ ReleaseWrite(i) \/ Exit(i)
Running ==
  \A i \in Instances :
    /\ WF_vars(Loop(i))
    /\ SF_vars(Pump(i, TRUE))
    /\ \A u \in Units : SF_vars(TakeEpoch(i, u) \/ KeepEpoch(i, u))

\* FairSpec: outages end.  IsolatedSpec: an outage may be for good.
FairSpec == Spec /\ Running /\ WF_vars(StoreUp)
IsolatedSpec == Spec /\ Running

-----------------------------------------------------------------------------
(* Properties *)

PcState == {"off", "claim", "refresh", "start", "gate", "pump", "slot", "renew_slot",
            "renew", "beat", "stopping", "release", "leave", "gone"}

SlotRow == [holder : Instances \cup {Nobody}, released : BOOLEAN, past : BOOLEAN]
CamRow == [rev : Nat, on : BOOLEAN]

StoreType ==
  /\ slot \in [Slots -> SlotRow]
  /\ listed \in [Slots -> SUBSET Units]
  /\ cam \in [Units -> CamRow]
  /\ epoch \in [Units -> Nat]
  /\ up \in BOOLEAN

LoopType ==
  /\ pc \in [Instances -> PcState]
  /\ me \in [Instances -> Slots \cup {NoSlot}]
  /\ valid \in [Instances -> BOOLEAN]

ReconcilerType ==
  /\ rows \in [Instances -> [Units -> Nat]]
  /\ todo \in [Instances -> SUBSET Units]
  /\ cur \in [Instances -> SUBSET Units]
  /\ actual \in [Instances -> [Units -> Nat]]
  /\ failed \in [Instances -> SUBSET Units]

TokenType ==
  /\ held \in [Instances -> [Units -> Nat]]
  /\ lease \in [Instances -> [Units -> {"none", "fresh", "stale", "fenced"}]]
  /\ lost \in [Instances -> SUBSET Units]

ActuatorType ==
  /\ why \in [Instances -> {"none", "slot", "lease"}]
  /\ pipe \in [Instances -> [Units -> Nat]]
  /\ dead \in [Instances -> SUBSET Units]

HistoryType ==
  /\ faults \in Nat
  /\ moves \in Nat
  /\ overdue \in [Instances -> SUBSET Units]

TypeOK == StoreType /\ LoopType /\ ReconcilerType /\ TokenType /\ ActuatorType /\ HistoryType

\* The fencing guarantee (epoch.py; "even an instance that somehow kept its slot
\* could not write into e2's directory, because it cannot name it"): two
\* instances never write one camera under one epoch, whoever holds the slot,
\* whatever the controller lists where and whatever fails.
OneWriterPerEpoch ==
  \A i, j \in Instances, u \in Units :
    Recording(i, u) /\ pipe[i][u] = pipe[j][u] => i = j

\* A pipeline writes under the epoch its instance holds a lease for: the bucket
\* observe() appends to and the directory archivesink writes are the same one.
PipelineHoldsItsEpoch ==
  \A i \in Instances, u \in Units :
    Recording(i, u) => /\ held[i][u] = pipe[i][u]
                       /\ lease[i][u] # "none"
                       /\ actual[i][u] # 0

\* What makes these two inductive.  A lease goes with an epoch; what a pass is
\* about to start is desired, and what it is about to renew is held; and the
\* epochs held are numbers issued, no two processes holding the same.
LeasePerEpoch ==
  \A i \in Instances, u \in Units : lease[i][u] = "none" <=> held[i][u] = 0

PassIsAboutUnits ==
  \A i \in Instances :
    /\ pc[i] \in {"start", "gate"} => \A u \in todo[i] : rows[i][u] # 0
    /\ pc[i] = "gate" => cur[i] \subseteq todo[i]
    /\ pc[i] = "renew" => \A u \in todo[i] : held[i][u] # 0

HeldByOne ==
  \A i \in Instances, u \in Units :
    /\ held[i][u] <= epoch[u]
    /\ \A j \in Instances \ {i} : held[i][u] = held[j][u] => held[i][u] = 0

IInv == TypeOK /\ PipelineHoldsItsEpoch /\ LeasePerEpoch /\ PassIsAboutUnits /\ HeldByOne

\* A lease pass that comes to its end has dealt with every unit that had been
\* taken over when it began and whose renewal reached the store: no pipeline is
\* left writing under an epoch that was superseded already then (lease_pass:
\* fenced as a whole, or let go).
LeasePassSettles ==
  [][\A i \in Instances :
       pc[i] \in {"slot", "renew_slot", "renew"} /\ pc'[i] = "beat"
         => Superseded(i)' \cap overdue'[i] = {}]_vars

\* An instance that has lost its name never records again: from the fence on it
\* starts nothing, whatever it is assigned (VmsWorker._actuate, fence).
FenceIsFinal ==
  [][\A i \in Instances : why[i] # "none" /\ pc'[i] # "gone"
                            => why'[i] = why[i] /\ pipe'[i] = None]_vars

\* The zombie stops: a pipeline whose epoch was superseded does not write for
\* ever, as long as the store comes back.
SupersededWriterStops ==
  \A i \in Instances, u \in Units :
    (u \in Superseded(i)) ~> (u \notin Superseded(i))

\* A camera on the list of a name that a process goes by is recorded in the
\* end ("reconcile ... М9's reconcile loop"; "instance B takes w-1: epoch 2, and
\* its worker is recording again"), unless the process ends first.
RecordingResumes ==
  \A s \in Slots, u \in Units :
    (u \in listed[s] /\ \E i \in Instances : pc[i] = "refresh" /\ me[i] = s)
      ~> \/ \E i \in Instances : Recording(i, u)
         \/ ~\E i \in Instances : me[i] = s
         \/ u \notin listed[s] \/ ~cam[u].on

\* A writer whose lease ran out stops, whatever became of the store.
ExpiredWriterStops ==
  \A i \in Instances, u \in Units :
    Recording(i, u) /\ lease[i][u] = "stale"
      ~> ~Recording(i, u) \/ lease[i][u] = "fresh"

\* A slot whose holder renews in time is not taken by a process that was not
\* told its name (claim_slot without prefer: lapsed, then released, then new):
\* what was read as claimable is still claimable when the row is written.
OnlyClaimableIsTaken ==
  [][\A i \in Instances :
       pc[i] = "claim" /\ pc'[i] = "refresh" /\ Prefer[i] = NoSlot
         => Claimable(me'[i])]_vars

\* What the archive sees of a worker: numbers issued once each, and nobody
\* writing a camera but under the number it holds (ArchiveWriters).
Archive == INSTANCE ArchiveWriters WITH issued <- epoch, holds <- held, writing <- pipe
ImplementsArchiveWriters == Archive!Spec
==============================================================================
